---------------------------- MODULE TopologyEdit ----------------------------
(***************************************************************************)
(* `hexrift nodes add` and `nodes remove` as functions of the topology     *)
(* file: what the edited file says, or that the command leaves it alone.   *)
(*                                                                         *)
(* A document is what the file says before it is split by region type: a   *)
(* topology record (see Topology) with `regions`, in file order, in place   *)
(* of exits and hubs.  A region has the fields of an exit region, its type, *)
(* whether it is written in block style, and `nulled`: its lb_fallback is  *)
(* there with a null value (its fallback is NoId, then); a node also has   *)
(* `ready`: it carries everything validation asks of a node of its type.   *)
(* Lines, comments and quoting are left out: the edits are made on whole   *)
(* items.                                                                  *)
(***************************************************************************)
EXTENDS RoutingRules

CONSTANTS Natural,      \* the node ids in natural order (numbers by value)
          VlessRange    \* VLESS_ROUTE_RANGE: the routes new exit regions draw from

ASSUME RoutesDrawn == VlessRange \subseteq VlessRoute

Exit == "exit"
Hub == "hub"
AnyType == "any"        \* the option --type was not given

NodeRecords == [id : Id \ {NoId}, backup : BOOLEAN, ready : BOOLEAN]
RegionRecords ==
    [type : {Exit, Hub}, id : Id, nodes : Seq(NodeRecords), lb : BOOLEAN, fallback : Id,
     vroute : {NoRoute} \cup VlessRoute, warp : {NoRoute} \cup VlessRoute,
     routes : Seq(ExitRouteRecords), warpDomains : Matcher, block : BOOLEAN, nulled : BOOLEAN]
\* routesBlock: hub_routes is written in block style, too.
DocumentRecords ==
    [regions : Seq(RegionRecords), users : SUBSET STRING, guests : SUBSET STRING, ns : STRING,
     dns : SUBSET Name, portals : Seq(PortalRecords), routes : Seq(HubRouteRecords), default : Id,
     globals : Seq(ExitRouteRecords), warpDomains : Matcher, taken : SUBSET Port,
     routesBlock : BOOLEAN]
\* A command adds a node (named: --hostname was given) or removes one.
CommandRecords ==
    [op : {"add"}, id : Id \ {NoId}, region : Id \ {NoId}, type : {Exit, Hub, AnyType},
     ready : BOOLEAN, named : BOOLEAN]
    \cup [op : {"remove"}, id : Id \ {NoId}]

-----------------------------------------------------------------------------
(* Loading a document: SchemaController.load.                              *)

RegionsOf(d, type) == Where(d.regions, LAMBDA r : r.type = type)
HubOf(r) == [id |-> r.id, nodes |-> [j \in DOMAIN r.nodes |-> r.nodes[j].id]]
Hubs(d) == [i \in DOMAIN RegionsOf(d, Hub) |-> HubOf(RegionsOf(d, Hub)[i])]
Parse(d) ==
    [exits |-> RegionsOf(d, Exit), hubs |-> Hubs(d), users |-> d.users, guests |-> d.guests,
     ns |-> d.ns, dns |-> d.dns, portals |-> d.portals, routes |-> d.routes, default |-> d.default,
     globals |-> d.globals, warpDomains |-> d.warpDomains, taken |-> d.taken]

Loads(d) ==
    /\ \A r \in ToSet(d.regions) : /\ r.type = Exit => r.vroute # NoRoute
                                   /\ r.type = Hub => ~r.lb /\ r.fallback = NoId /\ ~r.nulled
                                   /\ \A n \in ToSet(r.nodes) : n.ready
    /\ Valid(Parse(d))

HasNode(d, id) == \E r \in ToSet(d.regions) : id \in NodeIds(r)
Position(d, id) == {i \in DOMAIN d.regions : d.regions[i].id = id}
UsedRoutes(d) == (UNION {{r.vroute, r.warp} : r \in ToSet(d.regions)}) \ {NoRoute}

-----------------------------------------------------------------------------
(* nodes add.                                                              *)

\* A hostname is given, or can be derived: for a hub from another hub node.
Hostname(d, c, type) == c.named \/ type = Exit \/ HubNodes(Parse(d)) # {}

Earlier(a, b) == SelectInSeq(Natural, LAMBDA x : x = a) < SelectInSeq(Natural, LAMBDA x : x = b)
NewNode(c) == [id |-> c.id, backup |-> FALSE, ready |-> c.ready]

\* Behind the last node, in file order, whose id comes earlier.
Inserted(nodes, c) ==
    LET at == SelectLastInSeq(nodes, LAMBDA n : Earlier(n.id, c.id))
    IN  InsertAt(nodes, at + 1, NewNode(c))

\* (Mutant: the fallback is left to be computed.)
FallbackUnwritten(r) == r.fallback
\* A balanced region without a line lb_fallback gets its first primary node as one.
FallbackWritten(r) ==
    IF r.lb /\ r.fallback = NoId /\ ~r.nulled /\ r.nodes # <<>> THEN FirstPrimary(r) ELSE r.fallback

AddToRegion(d, i, c) ==
    [d EXCEPT !.regions[i].nodes = Inserted(@, c),
              !.regions[i].fallback = FallbackWritten(d.regions[i])]

\* (Mutant: a new region comes without a route.)
AddRegionUnrouted(d, c, route) ==
    [d EXCEPT !.regions = Append(@,
        [type |-> c.type, id |-> c.region, nodes |-> <<NewNode(c)>>, lb |-> FALSE, fallback |-> NoId,
         vroute |-> NoRoute, warp |-> NoRoute, routes |-> <<>>, warpDomains |-> {}, block |-> TRUE,
         nulled |-> FALSE])]

AddRegion(d, c, route) ==
    [d EXCEPT !.regions = Append(@,
        [type |-> c.type, id |-> c.region, nodes |-> <<NewNode(c)>>, lb |-> FALSE, fallback |-> NoId,
         vroute |-> route, warp |-> NoRoute, routes |-> <<>>, warpDomains |-> {}, block |-> TRUE,
         nulled |-> FALSE])]

\* The first region of the id is joined, if the type agrees and the region can
\* be edited; a missing one is created, if its type is given and, for an exit,
\* a route is left.  A node that is present already is left alone.
AddResults(d, c) ==
    IF HasNode(d, c.id) THEN {}
    ELSE IF Position(d, c.region) # {}
    THEN {AddToRegion(d, i, c) : i \in {j \in Position(d, c.region) :
             /\ \A k \in Position(d, c.region) : j <= k
             /\ d.regions[j].block
             /\ c.type \in {AnyType, d.regions[j].type}
             /\ Hostname(d, c, d.regions[j].type)}}
    ELSE {AddRegion(d, c, v) : v \in {w \in VlessRange \cup {NoRoute} :
             /\ c.type # AnyType
             /\ c.type = Exit => w \in VlessRange \ UsedRoutes(d)
             /\ c.type = Hub => w = NoRoute
             /\ Hostname(d, c, c.type)}}

-----------------------------------------------------------------------------
(* nodes remove.                                                           *)

\* (Mutants: routes to the region go with any of its nodes; routes to an
\* emptied region stay.)
GoneAlways(d, r, id) == {r.id, id}
GoneNodeOnly(d, r, id) == {id} \ Ids(d.regions)
\* What routes can no longer name: the region if it is emptied, and the node
\* unless another region has its id.
Gone(d, r, id) ==
    LET emptied == IF Len(r.nodes) = 1 THEN {r.id} ELSE {}
    IN  emptied \cup ({id} \ (Ids(d.regions) \ emptied))

\* The first node of the id is gone, and what points at it.
Without(d, i, id) ==
    LET r == d.regions[i]
        at == SelectInSeq(r.nodes, LAMBDA n : n.id = id)
    IN  [d EXCEPT !.regions[i].nodes = RemoveAt(@, at),
                  !.regions[i].fallback = IF @ = id THEN NoId ELSE @,
                  !.routes = Where(@, LAMBDA route : route.dest \notin Gone(d, r, id))]

\* A node that is not there is left alone; flow-style nodes and routes are refused.
RemoveResults(d, c) ==
    {Without(d, i, c.id) : i \in {j \in DOMAIN d.regions :
        /\ c.id \in NodeIds(d.regions[j])
        /\ \A k \in DOMAIN d.regions : c.id \in NodeIds(d.regions[k]) => j <= k
        /\ d.regions[j].block
        /\ d.routesBlock}}

\* What the file may say after the command; nothing if it leaves it alone.
Results(d, c) == IF c.op = "add" THEN AddResults(d, c) ELSE RemoveResults(d, c)
=============================================================================
