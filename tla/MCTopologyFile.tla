--------------------------- MODULE MCTopologyFile ---------------------------
(***************************************************************************)
(* TopologyFile for TLC: an exit region that is balanced or not, with a    *)
(* backup, a fallback (or a null) and a route of its own or not, routed to *)
(* by its id and by a node's; a hub region; a portal that publishes a port *)
(* on one hub.  Some new nodes have the id of a region, or of the portal.  *)
(***************************************************************************)
EXTENDS TopologyFile

nl == <<"n", "l">>
fi == <<"f", "i">>
nl1 == nl \o <<"1">>
nl2 == nl \o <<"2">>
nl10 == nl \o <<"10">>
h == <<"h">>
h1 == h \o <<"1">>
home == <<"home">>

MCNatural == <<fi, h, h1, home, nl, nl1, nl2, nl10>>

Node(id, backup) == [id |-> id, backup |-> backup, ready |-> TRUE]
RegionOf(type, id, nodes) ==
    [type |-> type, id |-> id, nodes |-> nodes, lb |-> FALSE, fallback |-> NoId, vroute |-> NoRoute,
     warp |-> NoRoute, routes |-> <<>>, warpDomains |-> {}, block |-> TRUE, nulled |-> FALSE]
RouteTo(dest) == [dest |-> dest, domains |-> {"n1"}, ips |-> {}, users |-> {}, proxyUsers |-> {}]

\* Balanced or not, and what lb_fallback says: a node, null, or it is not there.
MCFallbacks == [lb : BOOLEAN, id : {NoId, nl2}, nulled : {FALSE}]
               \cup [lb : BOOLEAN, id : {NoId}, nulled : {TRUE}]

MCDocuments ==
    {[regions |-> <<[RegionOf(Exit, nl, ns) EXCEPT !.vroute = 2000, !.warp = w, !.lb = fb.lb, !.fallback = fb.id,
                                         !.nulled = fb.nulled],
                    RegionOf(Hub, h, <<Node(h1, FALSE)>>)>>,
      users |-> {"ann"}, guests |-> {}, ns |-> "net", default |-> dt, globals |-> <<>>, warpDomains |-> {},
      dns |-> {"lo"}, taken |-> {443}, routesBlock |-> TRUE, routes |-> <<RouteTo(nl), RouteTo(nl2)>>,
      portals |-> <<[id |-> home, users |-> {"ann"}, domains |-> {"n1"}, ips |-> {}, strict |-> TRUE,
                     publish |-> <<[port |-> 8443, target |-> [domain |-> "n2", ip |-> "", port |-> 443],
                                    allow |-> {}, nodes |-> pins]>>]>>] :
        ns \in {<<Node(nl2, FALSE)>>, <<Node(nl2, TRUE), Node(nl10, FALSE)>>,
                <<Node(nl10, FALSE), Node(nl2, FALSE)>>},
        fb \in MCFallbacks, w \in {NoRoute, 2001}, dt \in {nl, Direct},
        pins \in {Everywhere, {h1}}}

AddOf(id, region, type, ready) ==
    [op |-> "add", id |-> id, region |-> region, type |-> type, ready |-> ready, named |-> ready]
MCAdds == {AddOf(nl1, nl, AnyType, TRUE), AddOf(nl1, nl, Hub, TRUE), AddOf(nl2, nl, Exit, FALSE),
           AddOf(fi, fi, Exit, TRUE), AddOf(fi, fi, AnyType, TRUE), AddOf(nl, h, AnyType, FALSE),
           AddOf(nl, fi, Exit, TRUE), AddOf(home, fi, Hub, TRUE)}
MCRemoves == {[op |-> "remove", id |-> id] : id \in {nl1, nl2, nl10, nl, h1, fi}}
MCCommands == MCAdds \cup MCRemoves
\* The commands and documents of the run with two editors.
MCPair == {AddOf(nl1, nl, AnyType, TRUE), AddOf(fi, fi, Exit, TRUE)} \cup
          {[op |-> "remove", id |-> id] : id \in {nl2, h1}}
MCFew == {d \in MCDocuments : /\ d.default = nl /\ d.portals[1].publish[1].nodes = Everywhere
                               /\ d.regions[1].warp = NoRoute}
MCSymmetry == Permutations(Procs)
=============================================================================
