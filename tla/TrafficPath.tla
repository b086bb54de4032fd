---------------------------- MODULE TrafficPath -----------------------------
(***************************************************************************)
(* One connection on its way through the configurations that `hexrift      *)
(* build` and `hexrift gen-portal` render from one topology: a hub routes   *)
(* it, a balancer may pick the outbound, and the exit or the portal's       *)
(* machine on the other end routes it again.                               *)
(*                                                                         *)
(* The rule lists are HexRift's; what reads them is Xray: the first rule   *)
(* that matches decides; a balancer picks an outbound whose tag starts     *)
(* with its selector, or its fallback, by the health it measured (any of   *)
(* them here); an outbound that does not exist drops the connection.  A    *)
(* connection was dialed to a name or an address, and where a name is      *)
(* sniffed a hub routes by it but leaves the dialed address alone, an exit *)
(* dials it, and a strict portal does not look (make_sniffing, portal.py). *)
(***************************************************************************)
EXTENDS RoutingRules

CONSTANTS Topologies,   \* bound: the topologies to render (all valid ones)
          Names, Addresses, Sources, Ports   \* bounds: what a client dials, and from where

ASSUME TopologiesValid == \A t \in Topologies : t \in TopologyRecords /\ Valid(t)
ASSUME DestinationsNamed == Names \cup Addresses \subseteq Name

VARIABLES topo,   \* the topology the configurations were rendered from
          conn,   \* the connection, as its client made it
          pos     \* where it has come to

vars == <<topo, conn, pos>>

-----------------------------------------------------------------------------
UserInbound == <<"inbound">>   \* any inbound that tells users apart
NoUser == <<>>
Home == "home"                 \* not a node: where no connection is open
Idle == [at |-> "idle", node |-> Home, tag |-> NoId, warp |-> FALSE]
NoConn == [in |-> NoId, who |-> Home, name |-> Home, email |-> NoUser, source |-> Home,
           vroute |-> NoRoute, dialed |-> [domain |-> "", ip |-> "", port |-> 0], sniffed |-> ""]

\* The identities a hub accepts: name, its owner, email.  The accounts of the
\* proxy inbound have the bare username for an email.
Identities(t) ==
    UNION {{[who |-> "user", name |-> u, email |-> UserEmail(t, u)],
            [who |-> "server", name |-> u, email |-> ServerEmail(u)],
            [who |-> "proxy", name |-> u, email |-> <<u>>]}
           \cup {[who |-> "guest", name |-> u, email |-> GuestEmail(t, l, u)] : l \in t.guests}
           : u \in t.users}

\* Vless routes a client may ask for with its UUID.
Asked(t) == {NoRoute} \cup UNION {{r.vroute, r.warp} : r \in ToSet(t.exits)}

Destinations == [domain : Names, ip : {""}, port : Ports] \cup [domain : {""}, ip : Addresses, port : Ports]

\* What a client may open on a hub: through an identity (no rule looks at the
\* source of those), or on a published port.
ByIdentity(t) ==
    {[in |-> UserInbound, who |-> i.who, name |-> i.name, email |-> i.email, source |-> Home,
      vroute |-> v, dialed |-> d, sniffed |-> n] :
         i \in Identities(t), v \in Asked(t), d \in Destinations, n \in Names \cup {""}}
Openable(t, hub) ==
    {c \in ByIdentity(t) : /\ c.who = "proxy" => c.vroute = NoRoute
                           /\ c.dialed.domain # "" => c.sniffed \in {"", c.dialed.domain}}
    \cup {[NoConn EXCEPT !.in = pub.tag, !.source = s, !.dialed = pub.target] :
              pub \in ToSet(Published(t, hub)), s \in Sources}

\* What a connection looks like to the rules of a hub, an exit and a portal.
Known(c) == IF c.sniffed # "" THEN c.sniffed ELSE c.dialed.domain
HubView == [in |-> conn.in, user |-> conn.email, source |-> conn.source, vroute |-> conn.vroute,
            domain |-> Known(conn), ip |-> conn.dialed.ip, port |-> conn.dialed.port]
ExitView(ip) ==
    [vroute |-> IF pos.warp THEN WarpRoute ELSE NoRoute, domain |-> Known(conn),
     ip |-> IF Known(conn) = "" THEN conn.dialed.ip ELSE ip, port |-> conn.dialed.port]
PortalView(id, ip) ==
    [in |-> PortalTag(id), domain |-> conn.dialed.domain,
     ip |-> IF conn.dialed.domain = "" THEN conn.dialed.ip ELSE ip, port |-> conn.dialed.port]

Matches(rule, c) == \A f \in DOMAIN rule.when : c[f] \in rule.when[f]
Decides(rules, c) == \E i \in DOMAIN rules : Matches(rules[i], c)
Decision(rules, c) ==
    LET first == CHOOSE i \in DOMAIN rules : /\ Matches(rules[i], c)
                                             /\ \A j \in 1..(i - 1) : ~Matches(rules[j], c)
    IN  rules[first].to

RegionOf(n) == CHOOSE r \in ToSet(topo.exits) : n \in NodeIds(r)
Outbounds == {l.tag : l \in Links(topo)} \cup Specials \cup {PortalTag(id) : id \in Ids(topo.portals)}

-----------------------------------------------------------------------------
Init ==
    /\ topo \in Topologies
    /\ conn = NoConn
    /\ pos = Idle

\* A client opens a connection on a hub.
Connect(hub, c) ==
    /\ pos.at = "idle"
    /\ conn' = c
    /\ pos' = [Idle EXCEPT !.at = "hub", !.node = hub]
    /\ UNCHANGED topo

\* The hub's rules name an outbound or a balancer.
HubDecides ==
    /\ pos.at = "hub"
    /\ LET to == Decision(HubRules(topo, pos.node), HubView)
       IN  pos' = [pos EXCEPT !.tag = to.tag,
                              !.at = IF to.key = "balancerTag" THEN "balancer" ELSE "outbound"]
    /\ UNCHANGED <<topo, conn>>

\* A balancer picks one of the outbounds it selects, or its fallback.
Balance(tag) ==
    /\ pos.at = "balancer"
    /\ \E b \in ToSet(Balancers(topo)) :
          /\ b.tag = pos.tag
          /\ tag = b.fallback \/ (tag \in Outbounds /\ IsPrefix(b.selector, tag))
    /\ pos' = [pos EXCEPT !.at = "outbound", !.tag = tag]
    /\ UNCHANGED <<topo, conn>>

\* `direct`, `warp` and `blocked` end the connection on the hub.
EndAtHub ==
    /\ pos.at = "outbound"
    /\ pos.tag \in Specials
    /\ pos' = [pos EXCEPT !.at = "end"]
    /\ UNCHANGED <<topo, conn>>

\* A link carries it to an exit.
Forward(link) ==
    /\ pos.at = "outbound"
    /\ link.tag = pos.tag
    /\ pos' = [at |-> "exit", node |-> link.node, tag |-> NoId, warp |-> link.warp]
    /\ UNCHANGED <<topo, conn>>

\* A reverse tunnel carries it to the portal's machine.
Enter(p) ==
    /\ pos.at = "outbound"
    /\ PortalTag(p.id) = pos.tag
    /\ pos' = [at |-> "portal", node |-> p.id, tag |-> NoId, warp |-> FALSE]
    /\ UNCHANGED <<topo, conn>>

\* No machine of the portal is connected, or no outbound has this tag.
Drop ==
    /\ pos.at = "outbound"
    /\ pos.tag \notin Specials \cup {l.tag : l \in Links(topo)}
    /\ pos' = [pos EXCEPT !.at = "dropped"]
    /\ UNCHANGED <<topo, conn>>

\* The exit's rules: once as it came, then (IPIfNonMatch) with an address of
\* its name; `direct`, the first outbound, when none matches.
ExitDecides(ip) ==
    /\ pos.at = "exit"
    /\ LET rules == ExitRules(topo, RegionOf(pos.node))
           to == IF Decides(rules, ExitView("")) THEN Decision(rules, ExitView(""))
                 ELSE IF Decides(rules, ExitView(ip)) THEN Decision(rules, ExitView(ip))
                 ELSE Outbound(Direct)
       IN  pos' = [pos EXCEPT !.at = "end", !.tag = to.tag]
    /\ UNCHANGED <<topo, conn>>

\* The portal's rules, which (IPOnDemand, when strict) resolve a name as soon as
\* an address is asked for; it may not resolve.
PortalDecides(p, ip) ==
    /\ pos.at = "portal"
    /\ p.id = pos.node
    /\ LET to == Decision(PortalRules(p), PortalView(p.id, ip))
       IN  pos' = [pos EXCEPT !.at = "end", !.tag = to.tag]
    /\ UNCHANGED <<topo, conn>>

\* The connection is over.
Close ==
    /\ pos.at \in {"end", "dropped"}
    /\ conn' = NoConn
    /\ pos' = Idle
    /\ UNCHANGED topo

Next ==
    \/ \E hub \in HubNodes(topo) : \E c \in Openable(topo, hub) : Connect(hub, c)
    \/ HubDecides \/ EndAtHub \/ Drop \/ Close
    \/ \E tag \in Outbounds \cup {b.fallback : b \in ToSet(Balancers(topo))} : Balance(tag)
    \/ \E link \in Links(topo) : Forward(link)
    \/ \E ip \in Addresses \cup {""} : \/ ExitDecides(ip)
                                       \/ \E p \in ToSet(topo.portals) : PortalDecides(p, ip)
    \/ \E p \in ToSet(topo.portals) : Enter(p)

Spec == Init /\ [][Next]_vars

-----------------------------------------------------------------------------
(* Properties.                                                             *)

AtExit == pos.node \in ExitNodes(topo)
AtPortal == pos.node \in Ids(topo.portals)
ByUser == conn.in = UserInbound
Ended(tag) == pos.at = "end" /\ pos.tag = tag
ForResolver == conn.dialed.ip \in topo.dns /\ conn.dialed.port = DnsPort

\* Every step finds what it needs to look up: hubs route at hubs, links lead to
\* nodes of exit regions and tunnels to portals, and balancers that are named exist.
TypeOK ==
    /\ topo \in Topologies
    /\ pos.at \in {"idle", "hub", "balancer", "outbound", "exit", "portal", "end", "dropped"}
    /\ pos.at \in {"hub", "balancer", "outbound", "dropped"} => pos.node \in HubNodes(topo)
    /\ pos.at = "balancer" => \E b \in ToSet(Balancers(topo)) : b.tag = pos.tag
    /\ pos.at = "exit" => AtExit
    /\ pos.at = "portal" => AtPortal

\* Every outbound a rule, a balancer or a fallback names is rendered: the
\* tags of the links, prefixes included, are the ones the routing refers to.
NoDangling == pos.at = "dropped" => pos.tag \in Outbounds

\* A client that asks a region for its way out (or comes by default) leaves
\* through a node of that region, over a warp link when it asked for warp.
RegionChosen ==
    \A r \in ToSet(topo.exits) :
        (/\ r.nodes # <<>> /\ ByUser /\ ~ForResolver /\ pos.at \in {"exit", "end", "dropped"}
         /\ \/ conn.vroute \in {r.vroute, r.warp} \ {NoRoute}
            \/ /\ conn.vroute = NoRoute /\ topo.default = r.id
               /\ topo.routes = <<>> /\ topo.portals = <<>>)
            => /\ pos.node \in NodeIds(r)
               /\ pos.warp = (conn.vroute = r.warp /\ r.warp # NoRoute)

\* On an exit, what came over a warp link leaves through warp unless a route of
\* the exit sends it elsewhere, and nothing else does unless a route or a warp
\* domain says so: the UUIDs hubs dial with and the exits' rules agree.
WarpAsAsked ==
    (AtExit /\ pos.at = "end") =>
        LET r == RegionOf(pos.node)
            routed(dest) == \E route \in ToSet(r.routes \o topo.globals) :
                                route.dest = dest /\ (Known(conn) \in route.domains \/ route.ips # {})
        IN  /\ (pos.warp /\ pos.tag # Warp) => routed(pos.tag) \/ ForResolver
            /\ (~pos.warp /\ pos.tag = Warp) =>
                   routed(Warp) \/ Known(conn) \in r.warpDomains \cup topo.warpDomains

\* A connection to a published port goes to the target of that port, dialed by
\* the portal's machine, if its source is allowed, and nowhere if it is not; no
\* other rule of the hub, and not the strict portal itself, re-steers or refuses it.
PublishedStaysPut ==
    (~ByUser /\ pos.at \in {"end", "dropped"}) =>
        \E p \in ToSet(topo.portals) : \E e \in ToSet(p.publish) :
            /\ conn.in = PublishTag(p.id, e.port)
            /\ IF e.allow = {} \/ conn.source \in e.allow
               THEN \/ pos.node = p.id /\ Ended(Direct)
                    \/ pos.at = "dropped" /\ pos.tag = PortalTag(p.id)
               ELSE ~AtPortal /\ Ended(Blocked)

\* Apart from published ports, only a member's own identity enters a portal: no
\* guest, no server identity, no proxy account.
MembersOnly ==
    (AtPortal /\ ByUser) =>
        /\ conn.who = "user"
        /\ \A p \in ToSet(topo.portals) : p.id = pos.node => conn.name \in p.users

\* What the hub sends a member's traffic into the tunnel for, the portal dials;
\* it refuses only an address dialed under a sniffed name (that its own list of
\* networks does not cover): the hub's matchers and the portal's agree.  This is
\* the second of the two cases docs/topology-schema.md, `strict`, names.  Names are
\* not resolved here, so the first one, two resolvers that disagree, is not in
\* question: as the hub never resolves for its routing, a connection that needs an
\* answer to be recognised takes the hub's default and reaches no portal.
TunnelAgrees ==
    (AtPortal /\ ByUser /\ Ended(Blocked)) =>
        /\ conn.sniffed # "" /\ conn.dialed.ip # ""
        /\ \A p \in ToSet(topo.portals) : p.id = pos.node => conn.dialed.ip \notin p.ips

\* The hub_routes whose matchers accept the connection, by position.
Hits == {i \in DOMAIN topo.routes :
            LET route == topo.routes[i]
                users == RouteUsers(topo, route)
            IN  /\ users = {} \/ conn.email \in users
                /\ \/ Known(conn) \in route.domains
                   \/ conn.dialed.ip \in route.ips
                   \/ route.domains = {} /\ route.ips = {}}
\* The hub decides by hub_routes and hub_default alone.
ByRoutes == HubDecides /\ ByUser /\ ~ForResolver /\ conn.vroute = NoRoute /\ topo.portals = <<>>
ChosenTag(hits) ==
    DestTarget(topo, IF hits = {} THEN topo.default ELSE topo.routes[Min(hits)].dest).tag

\* Of the hub_routes entries that match a connection the first one in the file
\* decides, and hub_default when there is none: "Hub routing rules (ordered; first
\* match wins)" (docs/topology-schema.md).  Entries of several kinds are regrouped
\* (build_hub_routing_rules), and then it is not so.
FirstMatchWins == [][ByRoutes => pos'.tag = ChosenTag(Hits)]_vars

-----------------------------------------------------------------------------
(* What some properties ask of a topology, beyond Valid.                   *)

\* The entries of hub_routes are of one kind: they lead to `blocked`, to `direct`,
\* or somewhere else.
OneKind(t) ==
    \E S \in {{Blocked}, {Direct}, TunnelDests(t)} : \A route \in ToSet(t.routes) : route.dest \in S

\* Every exit region with nodes has a primary one, and no route names a backup.
PrimariesNamed(t) ==
    \A r \in ToSet(t.exits) :
        /\ r.nodes # <<>> => \E n \in ToSet(r.nodes) : ~n.backup
        /\ \A n \in ToSet(r.nodes), route \in ToSet(t.routes) :
              (route.dest = n.id /\ n.id \notin Ids(t.exits)) => ~n.backup

\* The namespace is no username.
NamespaceApart(t) == t.ns \notin t.users

\* No link has the tag of a special destination.
NoSpecialLink(t) == \A l \in Links(t) : l.tag \notin Specials

\* And every link has a tag of its own.
LinksApart(t) == NoSpecialLink(t) /\ \A l, m \in Links(t) : l.tag = m.tag => l = m

\* The selectors of a balanced region select its own links only, warp links for
\* warp, and no region has the id of a special destination or of another's warp.
SelectorsApart(t) ==
    /\ Ids(t.exits) \cap (Specials \cup {WarpPrefix \o id : id \in Ids(t.exits)}) = {}
    /\ \A r \in ToSet(t.exits) : Balanced(r) =>
          /\ \A s \in Specials : ~IsPrefix(r.id, s) /\ ~IsPrefix(WarpPrefix \o r.id, s)
          /\ \A l \in Links(t) :
                /\ IsPrefix(r.id, l.tag) => l.node \in NodeIds(r) /\ ~l.warp
                /\ IsPrefix(WarpPrefix \o r.id, l.tag) => l.node \in NodeIds(r) /\ l.warp
=============================================================================
