---------------------------- MODULE KeyAuthority ----------------------------
(***************************************************************************)
(* What the key directory promises, without the processes that write it.   *)
(* A key pair is generated for one node, with a number that was never used *)
(* before, and may then be put into the files of nodes that have met one   *)
(* that has it: hubs that were, in some topology, in one region and had    *)
(* one key configuration.  Nobody forgets whom he met.  A file can be      *)
(* spoiled from outside; installing over it repairs it.  KeyStore          *)
(* implements this specification.                                          *)
(***************************************************************************)
EXTENDS Naturals, Sequences

CONSTANTS Node,     \* the node ids
          NoFile,   \* "keys/<n>.yaml does not exist"
          Corrupt   \* "keys/<n>.yaml exists and does not load"

VARIABLES holds,    \* holds[n]: the pair in n's key file, NoFile or Corrupt
          granted,  \* granted[i]: the nodes pair i was generated for or put into the file of
          met       \* met[n]: the nodes n has met, n among them

avars == <<holds, granted, met>>

\* Who may meet whom in one topology.
Meetings == {c \in [Node -> SUBSET Node] :
                \A m, n \in Node : n \in c[n] /\ (m \in c[n] => n \in c[m])}

AInit ==
    /\ holds = [n \in Node |-> NoFile]
    /\ granted = <<>>
    /\ met \in Meetings

\* A fresh pair for node n: the next number, never used before.
Grant(n) ==
    /\ granted' = Append(granted, {n})
    /\ UNCHANGED <<holds, met>>

\* Pair i becomes the content of n's file: n has met a node that was given it.
Install(n, i) ==
    /\ \E m \in granted[i] : n \in met[m]
    /\ holds' = [holds EXCEPT ![n] = i]
    /\ granted' = [granted EXCEPT ![i] = @ \cup {n}]
    /\ UNCHANGED met

\* Something outside the program damages an existing file.
Spoil(n) ==
    /\ holds[n] # NoFile
    /\ holds' = [holds EXCEPT ![n] = Corrupt]
    /\ UNCHANGED <<granted, met>>

\* A topology in which hubs meet.
Meet(c) ==
    /\ met' = [n \in Node |-> met[n] \cup c[n]]
    /\ UNCHANGED <<holds, granted>>

ANext ==
    \/ \E c \in Meetings : Meet(c)
    \/ \E n \in Node : Grant(n) \/ Spoil(n) \/ \E i \in DOMAIN granted : Install(n, i)

ASpec == AInit /\ [][ANext]_avars
=============================================================================
