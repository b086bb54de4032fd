----------------------------- MODULE MCKeyStore -----------------------------
(***************************************************************************)
(* KeyStore for TLC.  Regions 1 and 2 are regions of hubs, 9 is one of      *)
(* exits; nodes of one region stand in the order of their names.           *)
(***************************************************************************)
EXTENDS KeyStore, TLC

CONSTANTS c1, hubA, hubB, exit

OneHubRegion == {1, 9}
TwoHubRegions == {1, 2, 9}
MCHubRegions == {1, 2}
MCRank == [n \in Node |-> CASE n = hubA -> 1 [] n = hubB -> 2 [] n = exit -> 4]

\* The topologies that declare every node, with the hubs in region 1, with one
\* configuration or two, and the third node in one of the given regions.  The first
\* hub's configuration is called c1, whichever it is.
Declared(regions) ==
    {[n \in Node |-> IF n = exit THEN [region |-> r, cfg |-> c1]
                                 ELSE [region |-> 1, cfg |-> c[n]]] :
        r \in regions, c \in {d \in [Node -> Config] : hubA \in Node => d[hubA] = c1}}
\* The third node is an exit.
TwoHubs == Declared({9})
\* It is an exit or a third hub.
TwoOrThreeHubs == Declared({1, 9})
\* Processes are interchangeable (used with safety properties only).
MCSymmetry == Permutations(Procs)
=============================================================================
