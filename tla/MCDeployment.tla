---------------------------- MODULE MCDeployment ----------------------------
(***************************************************************************)
(* Deployment for TLC: a hub, an exit and a portal; in the second topology  *)
(* the hub's configuration cannot be derived, the other node's id has       *)
(* become a hub beside it, with keys of its own, and the portal is gone.    *)
(***************************************************************************)
EXTENDS Deployment, TLC

CONSTANTS hub, exit, portal

MCNode == {hub, exit}
Alone == [n \in MCNode |-> {n}]
\* Only config.json is what gen-portal writes.
MCFlags == {[xray |-> TRUE, haproxy |-> TRUE], [xray |-> FALSE, haproxy |-> TRUE]}
\* Both have keys.
MCKeys0 == [holds |-> (hub :> 1) @@ (exit :> 2), granted |-> <<{hub}, {exit}>>,
            met |-> Alone]
MCPortal == {portal}
MCTopo0 ==
    [nodes |-> <<hub, exit>>, hubs |-> <<hub>>, exits |-> <<exit>>, portals |-> <<portal>>, broken |-> {},
     circles |-> Alone]
MCTopology ==
    {MCTopo0,
     [nodes |-> <<exit, hub>>, hubs |-> <<exit, hub>>, exits |-> <<>>, portals |-> <<>>, broken |-> {hub},
      circles |-> Alone]}
=============================================================================
