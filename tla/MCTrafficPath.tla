--------------------------- MODULE MCTrafficPath ----------------------------
(***************************************************************************)
(* TrafficPath for TLC: families of topologies around one part of the      *)
(* rules each: exit regions, portals, hub_routes.                          *)
(***************************************************************************)
EXTENDS TrafficPath

nl == <<"n", "l">>
fi == <<"f", "i">>
nl1 == nl \o <<"1">>
nl2 == nl \o <<"2">>
fi1 == fi \o <<"1">>
h1 == <<"h", "1">>
h2 == <<"h", "2">>
home == <<"home">>
lab == <<"lab">>

\* One exit region with one node, a hub, nothing else.
Plain == [exits |-> <<[id |-> fi, nodes |-> <<[id |-> fi1, backup |-> FALSE]>>, lb |-> FALSE,
                       fallback |-> NoId, vroute |-> 3000, warp |-> NoRoute, routes |-> <<>>,
                       warpDomains |-> {}]>>,
          hubs |-> <<[id |-> <<"h">>, nodes |-> <<h1>>]>>,
          users |-> {"ann"}, guests |-> {}, ns |-> "net", portals |-> <<>>, routes |-> <<>>, default |-> fi,
          globals |-> <<>>, warpDomains |-> {}, dns |-> {"lo"}, taken |-> {443}]

-----------------------------------------------------------------------------
(* Exit regions: one or two nodes, balanced or not, backups, fallbacks,    *)
(* warp, exit routes; a plain region beside it.                            *)

ExitRoute(d, names, ips) == [dest |-> d, domains |-> names, ips |-> ips]
RegionsFor(id, n1, n2) ==
    {[id |-> id, nodes |-> ns, lb |-> lb, fallback |-> f, vroute |-> 2000, warp |-> w,
      routes |-> <<ExitRoute(Direct, {"n1"}, {})>>, warpDomains |-> {"n2"}] :
         ns \in {<<[id |-> n1, backup |-> b1], [id |-> n2, backup |-> b2]>> :
                     b1 \in BOOLEAN, b2 \in BOOLEAN},
         lb \in BOOLEAN, f \in {NoId, n1, n2}, w \in {NoRoute, 2001}}
ExitFamily(regions) ==
    {[Plain EXCEPT !.exits = <<r>> \o Plain.exits, !.default = d,
                   !.globals = <<ExitRoute(Warp, {}, {"a1"})>>] :
         r \in regions, d \in {nl, Direct}}
HasPrimary(r) == \E n \in ToSet(r.nodes) : ~n.backup

MCExits == ExitFamily({r \in RegionsFor(nl, nl1, nl2) : HasPrimary(r)})
\* A route to a node of the region, a backup or not.
MCBackupNodes ==
    {[t EXCEPT !.routes = <<[dest |-> nl2, domains |-> {"n1"}, ips |-> {}, users |-> {},
                             proxyUsers |-> {}]>>] : t \in MCExits}

-----------------------------------------------------------------------------
(* Portals: a strict or open one with a published port, a second one; two  *)
(* hubs.                                                                   *)

Publishes ==
    {[port |-> 8443, target |-> g, allow |-> a, nodes |-> n] :
        g \in {[domain |-> "", ip |-> "lo", port |-> 53], [domain |-> "n2", ip |-> "", port |-> 443]},
        a \in {{}, {"office"}}, n \in {Everywhere, {h1}}}
MCPortals ==
    {[Plain EXCEPT !.users = {"ann", "bob"}, !.guests = {"bob"}, !.routes = r, !.hubs[1].nodes = <<h1, h2>>,
         !.portals = <<[id |-> home, users |-> {"ann"}, domains |-> d, ips |-> {"a1"}, strict |-> s,
                        publish |-> <<e>>],
                       [id |-> lab, users |-> {"ann", "bob"}, domains |-> {}, ips |-> {"a1", "a2"},
                        strict |-> TRUE, publish |-> <<>>]>>] :
        d \in {{}, {"n1"}}, s \in BOOLEAN, e \in Publishes,
        r \in {<<>>, <<[dest |-> Blocked, domains |-> {"n1"}, ips |-> {}, users |-> {"ann"},
                        proxyUsers |-> {}]>>}}

-----------------------------------------------------------------------------
(* hub_routes: up to two, of every kind and with every kind of matcher.    *)

HubRoutes ==
    {[dest |-> d, domains |-> m[1], ips |-> m[2], users |-> m[3], proxyUsers |-> m[4]] :
        d \in {nl, fi1, Direct, Blocked},
        m \in {<<{"n1"}, {}, {}, {}>>, <<{}, {"a1"}, {}, {}>>, <<{"n1"}, {"a1"}, {"ann"}, {}>>,
               <<{}, {}, {"ann"}, {}>>, <<{}, {"a1"}, {}, {"ann"}>>}}
ForAll == {r \in HubRoutes : r.proxyUsers = {}}
MCRoutes ==
    {[Plain EXCEPT !.routes = rs, !.exits = Plain.exits \o
          <<[Plain.exits[1] EXCEPT !.id = nl, !.vroute = 2000, !.lb = TRUE,
                 !.nodes = <<[id |-> nl1, backup |-> FALSE], [id |-> nl2, backup |-> TRUE]>>]>>] :
        rs \in {<<>>} \cup {<<a>> : a \in HubRoutes}
               \cup {ab \in ForAll \X ForAll : ab[1].dest # ab[2].dest}}
MCAll == MCExits \cup MCRoutes \cup MCPortals

\* The theorems of TrafficPathProofs speak of these topologies.
ASSUME MCApart ==
    \A t \in MCAll : /\ PrimariesNamed(t) /\ NamespaceApart(t)
                     /\ LinksApart(t) /\ SelectorsApart(t)
=============================================================================
