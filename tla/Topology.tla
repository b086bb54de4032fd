------------------------------ MODULE Topology ------------------------------
(***************************************************************************)
(* The topology file (conglomerate.yaml) after parsing, as far as routing  *)
(* reads it, and the cross-reference checks of ConglomerateConfig.         *)
(*                                                                         *)
(* Ids and tags are sequences of tokens, because Xray's selectors match    *)
(* tags by prefix.  A matcher (a list of domains, of networks) is the set  *)
(* of destinations it matches.  Every user is taken to have an access type *)
(* that the hubs render.                                                   *)
(*                                                                         *)
(* TopologyRecords says which fields a topology has.                       *)
(***************************************************************************)
EXTENDS Integers, Sequences, SequencesExt

\* SpecialDestination, TagPrefix and TagSuffix, split where an id may end.
Direct == <<"d", "irect">>
Blocked == <<"b", "locked">>
Warp == <<"w", "arp">>
Specials == {Direct, Blocked, Warp}
BackupPrefix == <<"b", "ackup-">>
WarpPrefix == <<"w", "arp", "-">>
LbPrefix == <<"l", "b-">>
PortalTag(id) == id \o <<"-portal">>

NoId == <<>>
NoRoute == -1
Everywhere == {<<"*">>} \* publish.nodes not given

-----------------------------------------------------------------------------
(* What the schema's types allow.                                          *)

Id == Seq(STRING)
Name == STRING \ {""}          \* "" stands for no name, no address
Matcher == SUBSET Name         \* the destinations it matches
VlessRoute == 0..65535
Port == 0..65535

ExitNodeRecords == [id : Id, backup : BOOLEAN]
ExitRouteRecords == [dest : Id, domains : Matcher, ips : Matcher]
\* warp: the vless route of the region's warp.
ExitRegionRecords ==
    [id : Id, nodes : Seq(ExitNodeRecords), lb : BOOLEAN, fallback : Id,
     vroute : VlessRoute, warp : {NoRoute} \cup VlessRoute,
     routes : Seq(ExitRouteRecords), warpDomains : Matcher]
TargetRecords == [domain : Name, ip : {""}, port : Port] \cup [domain : {""}, ip : Name, port : Port]
PublishRecords ==
    [port : Port, target : TargetRecords, allow : SUBSET STRING, nodes : SUBSET Id]
PortalRecords ==
    [id : Id, users : SUBSET STRING, domains : Matcher, ips : Matcher, strict : BOOLEAN,
     publish : Seq(PublishRecords)]
HubRouteRecords ==
    [dest : Id, domains : Matcher, ips : Matcher, users : SUBSET STRING, proxyUsers : SUBSET STRING]
\* In file order: regions and portals.  ns: global.namespace; dns: the addresses
\* of the resolvers; guests: the labels of every user's guests; routes, default,
\* globals and warpDomains: the section `routing`; taken: the ports every hub
\* node binds for its own inbounds.
TopologyRecords ==
    [exits : Seq(ExitRegionRecords), hubs : Seq([id : Id, nodes : Seq(Id)]),
     users : SUBSET STRING, guests : SUBSET STRING, ns : STRING, dns : SUBSET Name,
     portals : Seq(PortalRecords), routes : Seq(HubRouteRecords), default : Id,
     globals : Seq(ExitRouteRecords), warpDomains : Matcher, taken : SUBSET Port]

-----------------------------------------------------------------------------
(* Its ids.                                                                *)

Ids(s) == {s[i].id : i \in DOMAIN s}
NodeIds(r) == Ids(r.nodes)
ExitNodes(t) == UNION {NodeIds(r) : r \in ToSet(t.exits)}
HubNodes(t) == UNION {ToSet(h.nodes) : h \in ToSet(t.hubs)}
ExitRegion(t, id) == CHOOSE r \in ToSet(t.exits) : r.id = id

-----------------------------------------------------------------------------
(* ConglomerateConfig._validate_references.                                *)

\* No two items of a list have one id.
Distinct(s) == \A i, j \in DOMAIN s : s[i].id = s[j].id => i = j

UniqueIds(t) ==
    /\ Distinct(t.exits) /\ Distinct(t.hubs) /\ Ids(t.exits) \cap Ids(t.hubs) = {}
    /\ \A r \in ToSet(t.exits) : Distinct(r.nodes)
    /\ \A h \in ToSet(t.hubs) : IsInjective(h.nodes)
    /\ \A r, q \in ToSet(t.exits) : r # q => NodeIds(r) \cap NodeIds(q) = {}
    /\ \A g, h \in ToSet(t.hubs) : g # h => ToSet(g.nodes) \cap ToSet(h.nodes) = {}
    /\ ExitNodes(t) \cap HubNodes(t) = {}

\* Every exit region has a vless route; no two of them, and no region and a
\* warp, have the same one.
UniqueRoutes(t) ==
    /\ \A r \in ToSet(t.exits) : r.vroute \notin {NoRoute, r.warp}
    /\ \A r, q \in ToSet(t.exits) :
          r # q => {r.vroute, r.warp} \cap {q.vroute, q.warp} \subseteq {NoRoute}

ExitRegionsValid(t) ==
    \A r \in ToSet(t.exits) :
        /\ r.fallback # NoId => r.fallback \in NodeIds(r)
        /\ \A route \in ToSet(r.routes) : route.dest \in Specials

\* Tags a portal's tag must not be equal to, and must not start with.
DerivedTags(t) ==
    LET nodes == ExitNodes(t) \cup HubNodes(t)
        regions == Ids(t.exits) \cup Ids(t.hubs)
    IN  Specials \cup nodes
        \cup {p \o n : p \in {BackupPrefix, WarpPrefix, WarpPrefix \o BackupPrefix}, n \in nodes}
        \cup {LbPrefix \o r : r \in regions} \cup {LbPrefix \o WarpPrefix \o r : r \in regions}
Selectors(t) == UNION {{id, WarpPrefix \o id} : id \in Ids(t.exits)}

PortalNamesValid(t) ==
    /\ Distinct(t.portals)
    /\ \A id \in Ids(t.portals) :
          /\ id \notin ExitNodes(t) \cup HubNodes(t) \cup Ids(t.exits) \cup Ids(t.hubs) \cup Specials
          /\ PortalTag(id) \notin DerivedTags(t)
          /\ \A s \in Selectors(t) : ~IsPrefix(s, PortalTag(id))

Scope(t, e) == IF e.nodes = Everywhere THEN HubNodes(t) ELSE e.nodes

\* Published ports: on hub nodes, not bound otherwise, once per node.
PublishesValid(t) ==
    LET entries == FlattenSeq([i \in DOMAIN t.portals |-> t.portals[i].publish])
    IN  /\ \A e \in ToSet(entries) : /\ Scope(t, e) \subseteq HubNodes(t)
                                     /\ e.port \notin t.taken
        /\ \A i, j \in DOMAIN entries :
              (i # j /\ entries[i].port = entries[j].port)
                  => Scope(t, entries[i]) \cap Scope(t, entries[j]) = {}

PortalsValid(t) ==
    /\ t.portals # <<>> => HubNodes(t) # {}
    /\ PortalNamesValid(t)
    /\ PublishesValid(t)
    /\ \A p \in ToSet(t.portals) : /\ p.users \subseteq t.users
                                   /\ p.domains # {} \/ p.ips # {}

Rendered(t) == {r.id : r \in {x \in ToSet(t.exits) : x.nodes # <<>>}}

RoutingValid(t) ==
    /\ t.default \in Specials \cup Rendered(t)
    /\ t.default \notin Ids(t.hubs)
    /\ t.default \in Ids(t.exits) => t.default \in Rendered(t)
    /\ \A route \in ToSet(t.globals) : route.dest \in Specials
    /\ \A route \in ToSet(t.routes) :
          /\ route.dest \in Specials \cup Rendered(t) \cup ExitNodes(t)
          /\ route.dest \notin Ids(t.hubs) \cup HubNodes(t)
          /\ route.dest \in Ids(t.exits) => route.dest \in Rendered(t)
          /\ route.users \cup route.proxyUsers \subseteq t.users
          /\ {} # route.domains \cup route.ips \cup route.users \cup route.proxyUsers

Valid(t) ==
    /\ UniqueIds(t) /\ UniqueRoutes(t) /\ ExitRegionsValid(t)
    /\ PortalsValid(t) /\ RoutingValid(t)
=============================================================================
