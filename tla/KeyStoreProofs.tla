--------------------------- MODULE KeyStoreProofs ---------------------------
(***************************************************************************)
(* Theorems about KeyStore, for any set of processes, nodes, regions and   *)
(* configurations, any topologies to begin with and any bounds.            *)
(***************************************************************************)
EXTENDS KeyStore, TLAPS

LEMMA Marks == NoFile # Corrupt /\ NoFile \notin Keys /\ Corrupt \notin Keys
  BY MarksAssumption DEF Keys

-----------------------------------------------------------------------------
(* Type correctness.                                                       *)

LEMMA NoRunType == NoRun \in Runs
  <1>1. [n \in {} |-> NoFile] \in [{} -> [region : Region, cfg : Config]]
    OBVIOUS
  <1>2. [n \in {} |-> NoFile] \in Topologies
    BY <1>1 DEF Topologies
  <1>3. QED
    BY <1>2 DEF NoRun, Runs

\* The memory of a command that has just started.
Started(ns, f) == [NoRun EXCEPT !.pc = "next", !.force = f, !.snap = topo, !.asked = ns,
                                !.todo = ns, !.old = {n \in ns : file[n] # NoFile /\ ~f}]
LEMMA StartedFields ==
    ASSUME NEW ns, NEW f
    PROVE  /\ Started(ns, f).pc = "next" /\ Started(ns, f).force = f
           /\ Started(ns, f).snap = topo
           /\ Started(ns, f).asked = ns /\ Started(ns, f).todo = ns
           /\ Started(ns, f).old = {n \in ns : file[n] # NoFile /\ ~f}
  <1> DEFINE had == {n \in ns : file[n] # NoFile /\ ~f}
  <1>1. Started(ns, f) = [NoRun EXCEPT !.pc = "next", !.force = f, !.snap = topo,
                                       !.asked = ns, !.todo = ns, !.old = had]
    BY DEF Started
  <1> HIDE DEF had
  <1>2. QED
    BY <1>1 DEF NoRun, had

\* The circles of a topology are sets of nodes.
LEMMA CirclesType ==
    ASSUME NEW t \in Topologies
    PROVE  DOMAIN t \subseteq Node /\ CirclesOf(t) \in [Node -> SUBSET Node]
  <1>1. DOMAIN t \subseteq Node
    BY DEF Topologies
  <1>2. QED
    BY <1>1 DEF CirclesOf, Circle

LEMMA InitType == Init => TypeOK
  <1>1. NoRun.todo = {} /\ NoRun.sibs = {}
    BY DEF NoRun
  <1>2. ASSUME NEW t \in Topo0 PROVE t \in Topologies /\ CirclesOf(t) \in [Node -> SUBSET Node]
    <2>1. t \in Topologies
      BY RegionAssumption DEF Topologies
    <2>2. QED
      BY <2>1, CirclesType
  <1>3. QED
    BY <1>1, <1>2, NoRunType DEF Init, TypeOK

\* What TypeOK says of one process.
RunOK(r) == r \in Runs /\ r.todo \cup r.sibs \subseteq DOMAIN r.snap

\* A step that rewrites p's memory and nothing else that TypeOK types.
LEMMA RunUpdate ==
    ASSUME TypeOK, NEW p \in Procs, NEW r, RunOK(r),
           run' = [run EXCEPT ![p] = r],
           file' \in [Node -> Keys \cup {NoFile, Corrupt}],
           granted' \in Seq(SUBSET Node), UNCHANGED <<topo, met, spent>>
    PROVE  TypeOK'
  BY DEF TypeOK, RunOK

LEMMA StepType ==
    ASSUME TypeOK, NEW p \in Procs, Step(p)
    PROVE  TypeOK'
  <1> DEFINE Writes(r) == RunOK(r) /\ run' = [run EXCEPT ![p] = r]
  <1>1. /\ RunOK(run[p]) /\ run[p] \in Runs
        /\ run[p].todo \cup run[p].sibs \subseteq DOMAIN run[p].snap
        /\ run[p].snap \in Topologies
    BY DEF TypeOK, RunOK, Runs
  <1>2. \A r : Writes(r) /\ UNCHANGED <<topo, file, granted, met, spent>> => TypeOK'
    BY RunUpdate DEF TypeOK
  <1>3. CASE Finish(p)
    <2>1. RunOK(NoRun)
      BY NoRunType DEF RunOK, NoRun
    <2>2. QED
      BY <1>2, <1>3, <2>1 DEF Finish
  <1>4. CASE Open(p)
    <2>1. RunOK([run[p] EXCEPT !.pc = "fill", !.tmp = Corrupt])
      BY <1>1 DEF Runs, RunOK
    <2>2. QED
      BY <1>2, <1>4, <2>1 DEF Open
  <1>5. CASE Fill(p)
    <2>1. RunOK([run[p] EXCEPT !.pc = "replace", !.tmp = run[p].held])
      BY <1>1 DEF Runs, RunOK
    <2>2. QED
      BY <1>2, <1>5, <2>1 DEF Fill
  <1>6. ASSUME NEW n \in Node, Skip(p, n) PROVE TypeOK'
    <2>1. RunOK([run[p] EXCEPT !.todo = run[p].todo \ {n}])
      BY <1>1 DEF Runs, RunOK
    <2>2. QED
      BY <1>2, <1>6, <2>1 DEF Skip
  <1>7. ASSUME NEW n \in Node, Begin(p, n) PROVE TypeOK'
    <2> DEFINE look == IF run[p].force THEN {} ELSE SiblingsOf(p, n)
    <2>1. look \subseteq Node /\ look \subseteq DOMAIN run[p].snap
      BY <1>1, CirclesType DEF SiblingsOf, Siblings
    <2> HIDE DEF look
    <2>2. RunOK([run[p] EXCEPT !.pc = "scan", !.sibs = look])
      BY <1>1, <2>1 DEF Runs, RunOK
    <2>3. QED
      BY <1>2, <1>7, <2>2 DEF Begin, look
  <1>8. ASSUME NEW n \in Node, Mint(p, n) PROVE TypeOK'
    <2> DEFINE key == [pair |-> Len(granted) + 1, cfg |-> run[p].snap[n].cfg]
    <2>1. n \in DOMAIN run[p].snap
      BY <1>1, <1>8 DEF Mint, Current, IsFirst
    <2>2. /\ Targets(p, n) \subseteq Node
          /\ Targets(p, n) \subseteq DOMAIN run[p].snap
      BY <1>1, <2>1, CirclesType DEF Targets, SiblingsOf, Siblings
    <2>3. run[p].snap[n].cfg \in Config
      BY <1>1, <2>1 DEF Topologies
    <2>4. key \in Keys
      BY <2>3 DEF Keys, TypeOK
    <2> HIDE DEF key
    <2>5. RunOK([run[p] EXCEPT !.pc = "write", !.sibs = Targets(p, n), !.held = key])
      BY <1>1, <2>2, <2>4 DEF Runs, RunOK
    <2>6. granted' \in Seq(SUBSET Node)
      BY <1>8 DEF Mint, TypeOK
    <2>7. QED
      BY <1>8, <2>5, <2>6, RunUpdate DEF Mint, TypeOK, key
  <1>9. ASSUME NEW n \in Node, NEW s \in Node, PassBy(p, n, s) PROVE TypeOK'
    <2>1. RunOK([run[p] EXCEPT !.sibs = run[p].sibs \ {s}])
      BY <1>1 DEF Runs, RunOK
    <2>2. QED
      BY <1>2, <1>9, <2>1 DEF PassBy
  <1>10. ASSUME NEW n \in Node, NEW s \in Node, Copy(p, n, s) PROVE TypeOK'
    <2>1. file[s] \in Keys /\ n \in DOMAIN run[p].snap
      BY <1>1, <1>10 DEF Copy, TypeOK, Current, IsFirst
    <2>2. RunOK([run[p] EXCEPT !.pc = "write", !.sibs = {n}, !.held = file[s]])
      BY <1>1, <2>1 DEF Runs, RunOK
    <2>3. QED
      BY <1>2, <1>10, <2>2 DEF Copy
  <1>11. ASSUME NEW n \in Node, NEW s \in Node, CopyFails(p, n, s) PROVE TypeOK'
    <2>1. RunOK([run[p] EXCEPT !.pc = "next", !.sibs = {}, !.failed = TRUE,
                               !.todo = run[p].todo \ {n}])
      BY <1>1 DEF Runs, RunOK
    <2>2. QED
      BY <1>2, <1>11, <2>1 DEF CopyFails
  <1>12. ASSUME NEW n \in Node, NEW s \in Node, Replace(p, n, s) PROVE TypeOK'
    <2> DEFINE rest == run[p].sibs \ {s}
               over == rest = {}
               r == [run[p] EXCEPT !.tmp = NoFile, !.sibs = rest,
                       !.pc = IF over THEN "next" ELSE "write",
                       !.held = IF over THEN NoFile ELSE run[p].held,
                       !.todo = IF over THEN run[p].todo \ {n} ELSE run[p].todo]
    <2>1. RunOK(r)
      BY <1>1 DEF Runs, RunOK
    <2>2. run' = [run EXCEPT ![p] = r] /\ UNCHANGED <<topo, met, spent>>
      BY <1>12 DEF Replace
    <2>3. run[p].tmp \in Keys \cup {NoFile, Corrupt}
      BY <1>1 DEF Runs
    <2>4. file' \in [Node -> Keys \cup {NoFile, Corrupt}]
      BY <1>12, <2>3 DEF Replace, TypeOK
    <2>5. granted' \in Seq(SUBSET Node)
      <3> DEFINE i == run[p].held.pair
                 more == granted[i] \cup {s}
      <3>1. granted' = [granted EXCEPT ![i] = more]
        BY <1>12 DEF Replace
      <3>2. /\ granted \in [1 .. Len(granted) -> SUBSET Node] /\ Len(granted) \in Nat
            /\ i \in 1 .. Len(granted) => more \in SUBSET Node
        BY DEF TypeOK
      <3> HIDE DEF more, i
      <3>3. granted' \in [1 .. Len(granted) -> SUBSET Node]
        BY ONLY <3>1, <3>2
      <3>4. QED
        BY ONLY <3>2, <3>3
    <2> HIDE DEF r
    <2>6. QED
      BY <2>1, <2>2, <2>4, <2>5, RunUpdate DEF TypeOK
  <1>13. QED
    BY <1>3, <1>4, <1>5, <1>6, <1>7, <1>8, <1>9, <1>10, <1>11, <1>12 DEF Step

LEMMA NextType == TypeOK /\ [Next]_vars => TypeOK'
  <1> SUFFICES ASSUME TypeOK, [Next]_vars PROVE TypeOK'
    OBVIOUS
  <1>1. ASSUME NEW p \in Procs, Step(p) PROVE TypeOK'
    BY <1>1, StepType
  <1>2. ASSUME NEW p \in Procs, Abort(p) PROVE TypeOK'
    <2>1. NoRun \in Runs /\ NoRun.todo = {} /\ NoRun.sibs = {}
      BY NoRunType DEF NoRun
    <2>2. QED
      BY <1>2, <2>1 DEF Abort, TypeOK
  <1>3. ASSUME NEW p \in Procs, NEW ns \in SUBSET Node, NEW f \in BOOLEAN, Start(p, ns, f)
        PROVE TypeOK'
    <2> DEFINE r == Started(ns, f)
    <2>1. r \in Runs /\ r.todo \cup r.sibs \subseteq DOMAIN r.snap
      <3> DEFINE had == {n \in ns : file[n] # NoFile /\ ~f}
      <3>1. r = [NoRun EXCEPT !.pc = "next", !.force = f, !.snap = topo, !.asked = ns,
                              !.todo = ns, !.old = had]
        BY DEF Started
      <3>2. had \in SUBSET Node
        OBVIOUS
      <3> HIDE DEF had, r
      <3>3. QED
        BY <1>3, <3>1, <3>2, NoRunType DEF Start, TypeOK, Runs, NoRun
    <2>2. run' = [run EXCEPT ![p] = r]
      BY <1>3 DEF Start, Started
    <2> HIDE DEF r
    <2>3. run' \in [Procs -> Runs] /\ \A q \in Procs :
              run'[q].todo \cup run'[q].sibs \subseteq DOMAIN run'[q].snap
      BY <2>1, <2>2 DEF TypeOK
    <2>4. QED
      BY <1>3, <2>3 DEF Start, TypeOK
  <1>4. ASSUME NEW n \in Node, NEW t \in Topologies, Edit(n, t) PROVE TypeOK'
    <2>1. CirclesOf(t) \in [Node -> SUBSET Node]
      BY CirclesType
    <2>2. QED
      BY <1>4, <2>1 DEF Edit, TypeOK
  <1>5. ASSUME NEW n \in Node, Damage(n) PROVE TypeOK'
    BY <1>5 DEF Damage, TypeOK
  <1>6. CASE UNCHANGED vars
    BY <1>6 DEF vars, TypeOK
  <1>7. QED
    BY <1>1, <1>2, <1>3, <1>4, <1>5, <1>6 DEF Next

\* Type correctness, for every constant.
THEOREM TypeCorrect == Spec => []TypeOK
  BY InitType, NextType, PTL DEF Spec

-----------------------------------------------------------------------------
(* Where key pairs can be.                                                 *)

\* Pair i was generated for node n or put into n's file; it may be put there.
GrantedTo(i, n) == i \in 1 .. Len(granted) /\ n \in granted[i]
May(i, n) == i \in 1 .. Len(granted) /\ \E m \in granted[i] : n \in met[m]
Writing(p) == run[p].pc \in {"write", "fill", "replace"}
\* The keys p is about to save may be put into the files it is about to write.
Writable(p) == \A t \in run[p].sibs : May(run[p].held.pair, t)

\* A readable key file holds a pair that was put there.
FilesGranted == \A n \in Node : file[n] \in Keys => GrantedTo(file[n].pair, n)
\* Meeting is mutual, and the hubs that share in the present topology have met.
MetKnown ==
    /\ \A m, n \in Node : n \in met[n] /\ (m \in met[n] => n \in met[m])
    /\ \A n \in DOMAIN topo : Circle(topo, n) \subseteq met[n]
\* Nodes that are apart were given no pair in common.
GrantsApart ==
    \A C \in SUBSET Node : Apart(C) =>
        \A i \in 1 .. Len(granted) : granted[i] \subseteq C \/ granted[i] \cap C = {}
\* The hubs that share in the topology a process parsed have met.  The files it
\* looks at are of hubs of the region of the node it works on; the keys it is about
\* to save are whole and may be put where it puts them; the temporary file is
\* complete when it is renamed.
RunGranted(p) ==
    /\ \A n \in DOMAIN run[p].snap : Circle(run[p].snap, n) \subseteq met[n]
    /\ \A n \in Node : Current(p, n) /\ At(p, "scan") => run[p].sibs \subseteq SiblingsOf(p, n)
    /\ Writing(p) => run[p].held \in Keys /\ Writable(p)
    /\ At(p, "replace") => run[p].tmp = run[p].held
IInv ==
    /\ TypeOK /\ MetKnown /\ FilesGranted /\ GrantsApart
    /\ \A p \in Procs : RunGranted(p)

\* A process works on one node at a time, one of its snapshot.
LEMMA OneCurrent ==
    ASSUME TypeOK, NEW p \in Procs, NEW m, NEW n, Current(p, m), Current(p, n)
    PROVE  m = n /\ n \in DOMAIN run[p].snap /\ n \in Node
  <1> DEFINE t == run[p].snap
  <1>1. t \in Topologies /\ run[p].todo \subseteq DOMAIN t
    BY DEF TypeOK, Runs
  <1>2. m \in DOMAIN t /\ n \in DOMAIN t /\ DOMAIN t \subseteq Node
    BY <1>1, CirclesType DEF Current, IsFirst
  <1>3. \A k \in DOMAIN t : t[k] \in [region : Region, cfg : Config]
    BY <1>1 DEF Topologies
  <1>4. t[m].region \in Nat /\ t[n].region \in Nat /\ Rank[m] \in Nat /\ Rank[n] \in Nat
    <2>1. t[m].region \in Region /\ t[n].region \in Region
      BY <1>2, <1>3
    <2>2. QED
      BY <1>2, <2>1, RankAssumption, RegionAssumption
  <1>5. m # n => Precedes(t, m, n) /\ Precedes(t, n, m)
    BY DEF Current, IsFirst
  <1>6. QED
    BY <1>2, <1>4, <1>5 DEF Precedes

\* It goes on with its node as long as it keeps its snapshot and what it has to do.
LEMMA StillCurrent ==
    ASSUME TypeOK, NEW p \in Procs, NEW n, Current(p, n),
           run'[p].snap = run[p].snap, run'[p].todo = run[p].todo
    PROVE  \A m : Current(p, m)' => m = n
  <1>1. \A m : Current(p, m)' => Current(p, m)
    BY DEF Current
  <1>2. QED
    BY <1>1, OneCurrent

\* A sibling with the same configuration shares n's circle.
LEMMA SiblingInCircle ==
    ASSUME TypeOK, NEW p \in Procs, NEW n \in DOMAIN run[p].snap,
           NEW s \in SiblingsOf(p, n), SameConfig(p, s, n)
    PROVE  s \in Circle(run[p].snap, n)
  <1> DEFINE t == run[p].snap
  <1>1. t \in Topologies /\ s \in DOMAIN t /\ IsHub(t, n) /\ t[s].region = t[n].region
        /\ t[s].cfg = t[n].cfg
    BY DEF TypeOK, Runs, SiblingsOf, Siblings, SameConfig
  <1>2. t[s] \in [region : Region, cfg : Config] /\ t[n] \in [region : Region, cfg : Config]
    BY <1>1 DEF Topologies
  <1>3. t[s] = t[n]
    BY <1>1, <1>2
  <1>4. QED
    BY <1>1, <1>3 DEF Circle

\* What was granted stays granted, and who has met does not part again.
Grows ==
    /\ Len(granted) <= Len(granted')
    /\ \A i \in 1 .. Len(granted) : granted[i] \subseteq granted'[i]
    /\ \A n \in Node : met[n] \subseteq met'[n]
LEMMA GrantsStay ==
    ASSUME TypeOK, TypeOK', Grows
    PROVE  \A i, n : (GrantedTo(i, n) => GrantedTo(i, n)') /\ (May(i, n) => May(i, n)')
  <1>1. Len(granted) \in Nat /\ Len(granted') \in Nat
    BY DEF TypeOK
  <1>2. 1 .. Len(granted) \subseteq 1 .. Len(granted')
    BY <1>1 DEF Grows
  <1>3. \A i \in 1 .. Len(granted) : granted[i] \subseteq Node
    BY DEF TypeOK
  <1>4. QED
    BY <1>2, <1>3 DEF Grows, GrantedTo, May

\* A step that leaves the topology, and the memory of every process but p, has to be
\* checked for p, the files and the grants only.
LEMMA StepOfOne ==
    ASSUME IInv, TypeOK', NEW p \in Procs, FilesGranted', GrantsApart', RunGranted(p)',
           \A q \in Procs \ {p} : run'[q] = run[q], UNCHANGED <<topo, met>>, Grows
    PROVE  IInv'
  <1>1. \A i, n : May(i, n) => May(i, n)'
    BY GrantsStay DEF IInv
  <1>2. ASSUME NEW q \in Procs \ {p} PROVE RunGranted(q)'
    <2>1. RunGranted(q) /\ run'[q] = run[q] /\ UNCHANGED met
      BY <1>2 DEF IInv
    <2>2. Writable(q) => Writable(q)'
      BY <1>1, <2>1 DEF Writable
    <2>3. QED
      BY <2>1, <2>2 DEF RunGranted, Current, At, Writing, SiblingsOf
  <1>3. MetKnown'
    BY DEF IInv, MetKnown
  <1>4. QED
    BY <1>2, <1>3 DEF IInv

\* The same when no file and no grant changes.
LEMMA StepInMemory ==
    ASSUME IInv, TypeOK', NEW p \in Procs, NEW r, run' = [run EXCEPT ![p] = r],
           UNCHANGED <<topo, met, file, granted>>, RunGranted(p)'
    PROVE  IInv'
  <1>1. FilesGranted' /\ GrantsApart'
    BY DEF IInv, FilesGranted, GrantedTo, GrantsApart, Apart
  <1>2. \A q \in Procs \ {p} : run'[q] = run[q]
    BY DEF IInv, TypeOK
  <1>3. Grows
    BY DEF Grows, IInv, TypeOK
  <1>4. QED
    BY <1>1, <1>2, <1>3, StepOfOne

LEMMA InitIInv == Init => IInv
  <1> SUFFICES ASSUME Init PROVE IInv
    OBVIOUS
  <1>1. TypeOK
    BY InitType
  <1>2. FilesGranted
    BY Marks DEF Init, FilesGranted
  <1>3. GrantsApart
    BY DEF Init, GrantsApart
  <1>4. MetKnown
    <2>1. met = CirclesOf(topo) /\ DOMAIN topo \subseteq Node
      BY <1>1, CirclesType DEF Init, TypeOK
    <2>2. QED
      BY <2>1 DEF MetKnown, CirclesOf, Circle, IsHub
  <1>5. \A p \in Procs : RunGranted(p)
    BY DEF Init, RunGranted, NoRun, At, Writing
  <1>6. QED
    BY <1>1, <1>2, <1>3, <1>4, <1>5 DEF IInv

\* A step of p that is neither looking at siblings nor writing afterwards.
LEMMA RunGrantedIdle ==
    ASSUME NEW p \in Procs, RunGranted(p), run'[p].snap = run[p].snap,
           run'[p].pc \notin {"scan", "write", "fill", "replace"}, UNCHANGED met
    PROVE  RunGranted(p)'
  BY DEF RunGranted, At, Writing

LEMMA NoRunGranted ==
    ASSUME NEW p \in Procs, run'[p] = NoRun
    PROVE  RunGranted(p)'
  BY DEF RunGranted, NoRun, At, Writing

\* A step of p that goes on, or begins, to write keys.
LEMMA RunGrantedWrites ==
    ASSUME NEW p \in Procs, RunGranted(p), run'[p].snap = run[p].snap, UNCHANGED met,
           run'[p].pc \in {"write", "fill", "replace"}, run'[p].held \in Keys,
           Writable(p)',
           run'[p].pc = "replace" => run'[p].tmp = run'[p].held
    PROVE  RunGranted(p)'
  BY DEF RunGranted, At, Writing

LEMMA StepIInv ==
    ASSUME IInv, NEW p \in Procs, Step(p)
    PROVE  IInv'
  <1>1. TypeOK' /\ TypeOK /\ run \in [Procs -> Runs] /\ run[p] \in Runs
    BY StepType DEF IInv, TypeOK
  <1>2. RunGranted(p) /\ FilesGranted /\ GrantsApart
    BY DEF IInv
  <1>3. CASE Finish(p)
    <2>1. run'[p] = NoRun
      BY <1>1, <1>3 DEF Finish
    <2>2. QED
      BY <1>1, <1>3, <2>1, NoRunGranted, StepInMemory DEF Finish
  <1>4. CASE Open(p)
    <2>1. /\ run'[p] = [run[p] EXCEPT !.pc = "fill", !.tmp = Corrupt]
          /\ UNCHANGED <<granted, met>>
      BY <1>1, <1>4 DEF Open
    <2>2. Writing(p) /\ run'[p].pc = "fill" /\ run'[p].held = run[p].held
          /\ run'[p].sibs = run[p].sibs /\ run'[p].snap = run[p].snap
      BY <1>1, <1>4, <2>1 DEF Open, At, Writing, Runs
    <2>3. run'[p].held \in Keys /\ Writable(p)'
      BY <1>2, <2>1, <2>2 DEF RunGranted, Writable, May
    <2>4. RunGranted(p)'
      BY <1>2, <2>1, <2>2, <2>3, RunGrantedWrites
    <2>5. QED
      BY <1>1, <1>4, <2>4, StepInMemory DEF Open
  <1>5. CASE Fill(p)
    <2>1. /\ run'[p] = [run[p] EXCEPT !.pc = "replace", !.tmp = run[p].held]
          /\ UNCHANGED <<granted, met>>
      BY <1>1, <1>5 DEF Fill
    <2>2. Writing(p) /\ run'[p].pc = "replace" /\ run'[p].held = run[p].held
          /\ run'[p].sibs = run[p].sibs /\ run'[p].snap = run[p].snap
          /\ run'[p].tmp = run[p].held
      BY <1>1, <1>5, <2>1 DEF Fill, At, Writing, Runs
    <2>3. run'[p].held \in Keys /\ Writable(p)'
      BY <1>2, <2>1, <2>2 DEF RunGranted, Writable, May
    <2>4. RunGranted(p)'
      BY <1>2, <2>1, <2>2, <2>3, RunGrantedWrites
    <2>5. QED
      BY <1>1, <1>5, <2>4, StepInMemory DEF Fill
  <1>6. ASSUME NEW n \in Node, Skip(p, n) PROVE IInv'
    <2>1. run'[p] = [run[p] EXCEPT !.todo = run[p].todo \ {n}]
      BY <1>1, <1>6 DEF Skip
    <2>2. run'[p].pc = "next" /\ run'[p].snap = run[p].snap
      BY <1>1, <1>6, <2>1 DEF Skip, At, Runs
    <2>3. RunGranted(p)'
      BY <1>2, <1>6, <2>2, RunGrantedIdle DEF Skip
    <2>4. QED
      BY <1>1, <1>6, <2>3, StepInMemory DEF Skip
  <1>7. ASSUME NEW n \in Node, Begin(p, n) PROVE IInv'
    <2> DEFINE look == IF run[p].force THEN {} ELSE SiblingsOf(p, n)
    <2>1. look \subseteq SiblingsOf(p, n)
      OBVIOUS
    <2> HIDE DEF look
    <2>2. run'[p] = [run[p] EXCEPT !.pc = "scan", !.sibs = look] /\ UNCHANGED met
      BY <1>1, <1>7 DEF Begin, look
    <2>3. /\ run'[p].pc = "scan" /\ run'[p].sibs = look /\ run'[p].todo = run[p].todo
          /\ run'[p].snap = run[p].snap
      BY <1>1, <2>2 DEF Runs
    <2>4. \A m \in Node : Current(p, m)' => m = n
      BY <1>1, <1>7, <2>3, StillCurrent DEF Begin
    <2>5. RunGranted(p)'
      BY <1>2, <2>1, <2>2, <2>3, <2>4 DEF RunGranted, At, Writing, SiblingsOf
    <2>6. QED
      BY <1>1, <1>7, <2>5, StepInMemory DEF Begin
  <1>8. ASSUME NEW n \in Node, Mint(p, n) PROVE IInv'
    <2> DEFINE key == [pair |-> Len(granted) + 1, cfg |-> run[p].snap[n].cfg]
    <2>1. /\ run'[p] = [run[p] EXCEPT !.pc = "write", !.sibs = Targets(p, n),
                                      !.held = key]
          /\ granted' = Append(granted, {n}) /\ file' = file /\ UNCHANGED <<topo, met>>
          /\ \A q \in Procs \ {p} : run'[q] = run[q]
      BY <1>1, <1>8 DEF Mint
    <2>2. /\ run'[p].pc = "write" /\ run'[p].sibs = Targets(p, n) /\ run'[p].held = key
          /\ run'[p].snap = run[p].snap
      BY <1>1, <2>1 DEF Runs
    <2>3. n \in DOMAIN run[p].snap /\ n \in Node
      BY <1>1, <1>8, OneCurrent DEF Mint
    <2>4. Targets(p, n) \subseteq met[n]
      <3>1. n \in Circle(run[p].snap, n)
        BY <2>3 DEF Circle
      <3>2. \A s \in SiblingsOf(p, n) : SameConfig(p, s, n) => s \in Circle(run[p].snap, n)
        BY <1>1, <2>3, SiblingInCircle
      <3>3. QED
        BY <1>2, <2>3, <3>1, <3>2 DEF Targets, RunGranted
    <2>5. PICK k \in Nat \ {0} : k = Len(granted) + 1 /\ key.pair = k
      BY <1>1 DEF TypeOK
    <2>6. /\ k \in 1 .. Len(granted') /\ granted'[k] = {n}
          /\ Len(granted') = k
          /\ \A i \in 1 .. Len(granted) : i \in 1 .. Len(granted') /\ granted'[i] = granted[i]
      BY <1>1, <2>1, <2>5 DEF TypeOK
    <2>7. key \in Keys
      <3>1. run[p].snap[n].cfg \in Config
        BY <1>1, <2>3 DEF Runs, Topologies
      <3>2. QED
        BY <2>5, <3>1 DEF Keys
    <2> HIDE DEF key
    <2>8. Writable(p)'
      BY <2>1, <2>2, <2>4, <2>5, <2>6 DEF Writable, May
    <2>9. RunGranted(p)'
      BY <1>2, <2>1, <2>2, <2>7, <2>8, RunGrantedWrites
    <2>10. Grows
      BY <1>1, <2>1, <2>5, <2>6 DEF Grows, TypeOK
    <2>11. FilesGranted'
      BY <1>1, <1>2, <2>1, <2>10, GrantsStay DEF FilesGranted
    <2>12. GrantsApart'
      <3>1. \A i \in 1 .. Len(granted') : i = k \/ i \in 1 .. Len(granted)
        BY <1>1, <2>5, <2>6 DEF TypeOK
      <3>2. QED
        BY <1>2, <2>1, <2>6, <3>1 DEF GrantsApart, Apart
    <2>13. QED
      BY <1>1, <2>1, <2>9, <2>10, <2>11, <2>12, StepOfOne
  <1>9. ASSUME NEW n \in Node, NEW s \in Node, PassBy(p, n, s) PROVE IInv'
    <2>1. /\ run'[p] = [run[p] EXCEPT !.sibs = run[p].sibs \ {s}] /\ run[p].pc = "scan"
          /\ UNCHANGED met
      BY <1>1, <1>9 DEF PassBy, At
    <2>2. /\ run'[p].pc = "scan" /\ run'[p].sibs \subseteq run[p].sibs
          /\ run'[p].todo = run[p].todo /\ run'[p].snap = run[p].snap
      BY <1>1, <2>1 DEF Runs
    <2>3. RunGranted(p)'
      BY <1>2, <2>1, <2>2 DEF RunGranted, At, Writing, Current, SiblingsOf
    <2>4. QED
      BY <1>1, <1>9, <2>3, StepInMemory DEF PassBy
  <1>10. ASSUME NEW n \in Node, NEW s \in Node, Copy(p, n, s) PROVE IInv'
    <2>1. /\ run'[p] = [run[p] EXCEPT !.pc = "write", !.sibs = {n}, !.held = file[s]]
          /\ UNCHANGED <<granted, met>>
      BY <1>1, <1>10 DEF Copy
    <2>2. /\ run'[p].pc = "write" /\ run'[p].sibs = {n} /\ run'[p].held = file[s]
          /\ run'[p].snap = run[p].snap
      BY <1>1, <2>1 DEF Runs
    <2>3. file[s] \in Keys
      BY <1>1, <1>10 DEF Copy, TypeOK
    <2>4. s \in SiblingsOf(p, n) /\ SameConfig(p, s, n)
      BY <1>2, <1>10 DEF Copy, RunGranted, IsFirst
    <2>5. n \in DOMAIN run[p].snap
      BY <1>1, <1>10, OneCurrent DEF Copy
    <2>6. n \in met[s]
      <3>1. s \in met[n]
        BY <1>1, <1>2, <2>4, <2>5, SiblingInCircle DEF RunGranted
      <3>2. QED
        BY <3>1 DEF IInv, MetKnown
    <2>7. May(file[s].pair, n)
      BY <1>2, <2>3, <2>6 DEF FilesGranted, GrantedTo, May
    <2>8. Writable(p)'
      BY <2>1, <2>2, <2>7 DEF Writable, May
    <2>9. RunGranted(p)'
      BY <1>2, <2>1, <2>2, <2>3, <2>8, RunGrantedWrites
    <2>10. QED
      BY <1>1, <1>10, <2>9, StepInMemory DEF Copy
  <1>11. ASSUME NEW n \in Node, NEW s \in Node, CopyFails(p, n, s) PROVE IInv'
    <2>1. run'[p] = [run[p] EXCEPT !.pc = "next", !.sibs = {}, !.failed = TRUE,
                                   !.todo = run[p].todo \ {n}]
      BY <1>1, <1>11 DEF CopyFails
    <2>2. run'[p].pc = "next" /\ run'[p].snap = run[p].snap
      BY <1>1, <2>1 DEF Runs
    <2>3. RunGranted(p)'
      BY <1>2, <1>11, <2>2, RunGrantedIdle DEF CopyFails
    <2>4. QED
      BY <1>1, <1>11, <2>3, StepInMemory DEF CopyFails
  <1>12. ASSUME NEW n \in Node, NEW s \in Node, Replace(p, n, s) PROVE IInv'
    <2> DEFINE rest == run[p].sibs \ {s}
               over == rest = {}
               r == [run[p] EXCEPT !.tmp = NoFile, !.sibs = rest,
                       !.pc = IF over THEN "next" ELSE "write",
                       !.held = IF over THEN NoFile ELSE run[p].held,
                       !.todo = IF over THEN run[p].todo \ {n} ELSE run[p].todo]
    <2>1. /\ run' = [run EXCEPT ![p] = r] /\ UNCHANGED <<topo, met>>
          /\ granted' = [granted EXCEPT ![run[p].held.pair] = granted[run[p].held.pair] \cup {s}]
          /\ file' = [file EXCEPT ![s] = run[p].tmp]
          /\ At(p, "replace") /\ IsTarget(p, n, s)
      BY <1>12 DEF Replace
    <2>2. run'[p] = r /\ \A q \in Procs \ {p} : run'[q] = run[q]
      BY <1>1, <2>1
    <2>3. /\ run[p].tmp = run[p].held /\ run[p].held \in Keys
          /\ Writable(p)
      BY <1>2, <2>1 DEF RunGranted, At, Writing
    <2>4. s \in run[p].sibs
      BY <2>1 DEF IsTarget, IsFirst
    <2>5. PICK i \in 1 .. Len(granted) : i = run[p].held.pair
      BY <2>3, <2>4 DEF Writable, May
    <2>6. /\ May(i, s) /\ Len(granted') = Len(granted)
          /\ granted'[i] = granted[i] \cup {s}
          /\ \A j \in 1 .. Len(granted) \ {i} : granted'[j] = granted[j]
      <3>1. May(i, s)
        BY <2>3, <2>4, <2>5 DEF Writable
      <3>2. granted' = [granted EXCEPT ![i] = granted[i] \cup {s}]
        BY <2>1, <2>5
      <3>3. QED
        BY <1>1, <2>5, <3>1, <3>2 DEF TypeOK
    <2>7. Grows
      <3>1. \A j \in 1 .. Len(granted) : granted[j] \subseteq granted'[j]
        BY <2>6
      <3>2. QED
        BY <1>1, <2>1, <2>6, <3>1 DEF Grows, TypeOK
    <2>8. FilesGranted'
      <3>1. \A m \in Node \ {s} : file'[m] = file[m]
        BY <1>1, <2>1 DEF TypeOK
      <3>2. file'[s].pair = i
        BY <1>1, <2>1, <2>3, <2>5 DEF TypeOK
      <3>3. i \in 1 .. Len(granted') /\ s \in granted'[i]
        BY <2>5, <2>6
      <3>4. ASSUME NEW m \in Node \ {s}, file[m] \in Keys
            PROVE  file[m].pair \in 1 .. Len(granted') /\ m \in granted'[file[m].pair]
        BY <1>1, <1>2, <2>7, <3>4, GrantsStay DEF FilesGranted, GrantedTo
      <3>5. QED
        BY <3>1, <3>2, <3>3, <3>4 DEF FilesGranted, GrantedTo
    <2>9. GrantsApart'
      <3>1. ASSUME NEW C \in SUBSET Node, Apart(C)
            PROVE  granted'[i] \subseteq C \/ granted'[i] \cap C = {}
        <4>1. granted[i] \subseteq C \/ granted[i] \cap C = {}
          BY <1>2, <2>5, <3>1 DEF GrantsApart
        <4>2. PICK m \in granted[i] : s \in met[m]
          BY <2>6 DEF May
        <4>3. m \in Node
          BY <1>1, <2>5, <4>2 DEF TypeOK
        <4>4. m \in C <=> s \in C
          BY <3>1, <4>2, <4>3 DEF Apart
        <4>5. QED
          BY <2>6, <4>1, <4>2, <4>4
      <3>2. QED
        BY <1>2, <2>1, <2>6, <3>1 DEF GrantsApart, Apart
    <2>10. CASE over
      <3>1. run'[p].pc = "next" /\ run'[p].snap = run[p].snap
        BY <1>1, <2>2, <2>10 DEF Runs
      <3>2. RunGranted(p)'
        BY <1>2, <2>1, <3>1, RunGrantedIdle
      <3>3. QED
        BY <1>1, <2>1, <2>2, <2>7, <2>8, <2>9, <3>2, StepOfOne
    <2>11. CASE ~over
      <3>1. /\ run'[p].pc = "write" /\ run'[p].sibs \subseteq run[p].sibs
            /\ run'[p].held = run[p].held /\ run'[p].snap = run[p].snap
        BY <1>1, <2>2, <2>11 DEF Runs
      <3>2. Writable(p)'
        <4>1. \A t \in run[p].sibs : May(i, t)'
          BY <1>1, <2>3, <2>5, <2>7, GrantsStay DEF Writable
        <4>2. QED
          BY <2>5, <3>1, <4>1 DEF Writable, May
      <3>3. RunGranted(p)'
        BY <1>2, <2>1, <2>3, <3>1, <3>2, RunGrantedWrites
      <3>4. QED
        BY <1>1, <2>1, <2>2, <2>7, <2>8, <2>9, <3>3, StepOfOne
    <2>12. QED
      BY <2>10, <2>11
  <1>13. QED
    BY <1>3, <1>4, <1>5, <1>6, <1>7, <1>8, <1>9, <1>10, <1>11, <1>12 DEF Step

LEMMA NextIInv == IInv /\ [Next]_vars => IInv'
  <1> SUFFICES ASSUME IInv, [Next]_vars PROVE IInv'
    OBVIOUS
  <1>1. TypeOK' /\ TypeOK /\ run \in [Procs -> Runs]
    BY NextType DEF IInv, TypeOK
  <1>2. ASSUME NEW p \in Procs, Step(p) PROVE IInv'
    BY <1>2, StepIInv
  <1>3. ASSUME NEW p \in Procs, Abort(p) PROVE IInv'
    <2>1. run'[p] = NoRun
      BY <1>1, <1>3 DEF Abort
    <2>2. QED
      BY <1>1, <1>3, <2>1, NoRunGranted, StepInMemory DEF Abort
  <1>4. ASSUME NEW p \in Procs, NEW ns \in SUBSET Node, NEW f \in BOOLEAN, Start(p, ns, f)
        PROVE IInv'
    <2>1. run'[p].pc = "next" /\ run'[p].snap = topo /\ UNCHANGED met
      BY <1>1, <1>4 DEF Start, NoRun
    <2>2. RunGranted(p)'
      BY <2>1 DEF RunGranted, At, Writing, IInv, MetKnown
    <2>3. QED
      BY <1>1, <1>4, <2>2, StepInMemory DEF Start
  <1>5. ASSUME NEW n \in Node, NEW t \in Topologies, Edit(n, t) PROVE IInv'
    <2>1. /\ topo' = t /\ UNCHANGED <<file, granted, run>>
          /\ \A m \in Node : met'[m] = met[m] \cup CirclesOf(t)[m]
      BY <1>5 DEF Edit
    <2>2. DOMAIN t \subseteq Node /\ \A m \in Node : CirclesOf(t)[m] \subseteq Node
      BY CirclesType
    <2>3. Grows
      BY <1>1, <2>1 DEF Grows, TypeOK
    <2>4. FilesGranted'
      BY <1>1, <2>1 DEF IInv, FilesGranted, GrantedTo
    <2>5. \A C \in SUBSET Node : Apart(C)' => Apart(C)
      BY <2>3 DEF Apart, Grows
    <2>6. GrantsApart'
      BY <2>1, <2>5 DEF IInv, GrantsApart
    <2>7. MetKnown'
      <3>1. \A k, m \in Node : m \in CirclesOf(t)[k] => k \in CirclesOf(t)[m]
        BY DEF CirclesOf, Circle, IsHub
      <3>2. \A k, m \in Node : m \in met'[m] /\ (k \in met'[m] => m \in met'[k])
        BY <2>1, <3>1 DEF IInv, MetKnown
      <3>3. \A m \in DOMAIN t : Circle(t, m) \subseteq met'[m]
        BY <2>1, <2>2 DEF CirclesOf
      <3>4. QED
        BY <2>1, <3>2, <3>3 DEF MetKnown
    <2>8. ASSUME NEW p \in Procs PROVE RunGranted(p)'
      <3>1. RunGranted(p) /\ run'[p] = run[p]
        BY <2>1 DEF IInv
      <3>2. Writable(p) => Writable(p)'
        BY <1>1, <2>1, <2>3, GrantsStay DEF Writable
      <3>3. \A m \in DOMAIN run[p].snap : m \in Node
        BY <1>1, CirclesType DEF TypeOK, Runs
      <3>4. \A m \in DOMAIN run[p].snap : Circle(run[p].snap, m) \subseteq met'[m]
        BY <2>1, <3>1, <3>3 DEF RunGranted
      <3>5. QED
        BY <3>1, <3>2, <3>4 DEF RunGranted, Current, At, Writing, SiblingsOf
    <2>9. QED
      BY <1>1, <2>4, <2>6, <2>7, <2>8 DEF IInv
  <1>6. ASSUME NEW n \in Node, Damage(n) PROVE IInv'
    <2>1. FilesGranted'
      BY <1>1, <1>6, Marks DEF Damage, IInv, TypeOK, FilesGranted, GrantedTo
    <2>2. \A p \in Procs : RunGranted(p)'
      BY <1>6 DEF Damage, IInv, RunGranted, Writable, May, At, Writing, Current, SiblingsOf
    <2>3. GrantsApart' /\ MetKnown'
      BY <1>6 DEF Damage, IInv, GrantsApart, Apart, MetKnown
    <2>4. QED
      BY <1>1, <2>1, <2>2, <2>3 DEF IInv
  <1>7. CASE UNCHANGED vars
    <2>1. FilesGranted' /\ GrantsApart' /\ MetKnown'
      BY <1>7 DEF vars, IInv, FilesGranted, GrantedTo, GrantsApart, Apart, MetKnown
    <2>2. \A p \in Procs : RunGranted(p)'
      BY <1>7 DEF vars, IInv, RunGranted, Writable, May, At, Writing, Current, SiblingsOf
    <2>3. QED
      BY <1>1, <2>1, <2>2 DEF IInv
  <1>8. QED
    BY <1>2, <1>3, <1>4, <1>5, <1>6, <1>7 DEF Next

\* The inductive invariant: what is granted is known to the nodes that met, for any
\* edits, whichever regions the ids move to.
THEOREM Inductive == Spec => []IInv
  BY InitIInv, NextIInv, PTL DEF Spec

\* Two files with one pair: both nodes were given it, so no set that is apart parts them.
LEMMA IInvApart == IInv => KeysStayApart
  BY DEF IInv, FilesGranted, GrantedTo, GrantsApart, KeysStayApart

\* Nodes that were never, directly or through others, hubs of one region with one
\* configuration share no key pair, for any number of concurrent commands, edits
\* (also of a node's region or its type), aborts and damage.
THEOREM KeysConfined == Spec => []KeysStayApart
  BY Inductive, IInvApart, PTL

-----------------------------------------------------------------------------
(* What steps may never do.                                                *)

\* Pair i goes into the file of node t, whose turn it may be.
Installs(t, k) ==
    /\ file' = [file EXCEPT ![t] = k]
    /\ May(k.pair, t)
    /\ granted' = [granted EXCEPT ![k.pair] = granted[k.pair] \cup {t}]
    /\ UNCHANGED met

\* Only a Replace or damage changes a file, and a Replace writes whole keys
\* that may be put there.
LEMMA FileSteps ==
    ASSUME IInv, [Next]_vars
    PROVE  \/ UNCHANGED file
           \/ \E t \in Node, k \in Keys : Installs(t, k)
           \/ \E n \in Node : Damage(n)
  <1>1. ASSUME NEW p \in Procs, NEW n \in Node, NEW s \in Node, Replace(p, n, s)
        PROVE  \E t \in Node, k \in Keys : Installs(t, k)
    <2>1. run[p].held \in Keys /\ run[p].tmp = run[p].held /\ Writable(p)
      BY <1>1 DEF IInv, RunGranted, Replace, At, Writing
    <2>2. s \in run[p].sibs
      BY <1>1 DEF Replace, IsTarget, IsFirst
    <2>3. Installs(s, run[p].held)
      BY <1>1, <2>1, <2>2 DEF Replace, Installs, Writable
    <2>4. QED
      BY <2>1, <2>3
  <1>2. ASSUME NEW p \in Procs, Step(p),
               \A n, s \in Node : ~Replace(p, n, s)
        PROVE  UNCHANGED file
    BY <1>2 DEF Step, Finish, Open, Fill, Skip, Begin, Mint, PassBy, Copy, CopyFails
  <1>3. ASSUME NEW p \in Procs, Abort(p) PROVE UNCHANGED file
    BY <1>3 DEF Abort
  <1>4. ASSUME NEW p \in Procs, NEW ns \in SUBSET Node, NEW f \in BOOLEAN, Start(p, ns, f)
        PROVE  UNCHANGED file
    BY <1>4 DEF Start
  <1>5. ASSUME NEW n \in Node, NEW t \in Topologies, Edit(n, t) PROVE UNCHANGED file
    BY <1>5 DEF Edit
  <1>6. CASE UNCHANGED vars
    BY <1>6 DEF vars
  <1>7. QED
    BY <1>1, <1>2, <1>3, <1>4, <1>5, <1>6 DEF Next

\* No command ever leaves a key file that cannot be read, however it is
\* interleaved or killed.
THEOREM NeverTorn == Spec => WritesAreWhole
  <1> DEFINE Whole == \A n \in Node :
                 (file'[n] = Corrupt /\ file[n] # Corrupt) => spent'.damage > spent.damage
  <1>1. ASSUME IInv, [Next]_vars PROVE Whole
    <2>1. file \in [Node -> Keys \cup {NoFile, Corrupt}] /\ spent.damage \in Nat
      BY <1>1 DEF IInv, TypeOK
    <2>2. CASE UNCHANGED file
      BY <2>2
    <2>3. ASSUME NEW t \in Node, NEW k \in Keys, Installs(t, k) PROVE Whole
      BY <2>1, <2>3, Marks DEF Installs
    <2>4. ASSUME NEW n \in Node, Damage(n) PROVE Whole
      BY <1>1, <2>1, <2>4 DEF Damage, IInv, TypeOK
    <2>5. QED
      BY <1>1, <2>2, <2>3, <2>4, FileSteps
  <1>2. QED
    BY <1>1, Inductive, PTL DEF Spec, WritesAreWhole

-----------------------------------------------------------------------------
(* KeyStore implements KeyAuthority.                                       *)

\* While no file changes, Mint grants and an edit lets nodes meet; nothing else does.
LEMMA GrantSteps ==
    ASSUME IInv, [Next]_vars, UNCHANGED file
    PROVE  \/ UNCHANGED <<granted, met>>
           \/ \E n \in Node : granted' = Append(granted, {n}) /\ UNCHANGED met
           \/ \E t \in Node, k \in Keys : Installs(t, k)
           \/ \E t \in Topologies :
                 met' = [m \in Node |-> met[m] \cup CirclesOf(t)[m]] /\ UNCHANGED granted
  <1>1. ASSUME NEW p \in Procs, Step(p), \A n, s \in Node : ~Replace(p, n, s)
        PROVE  \/ UNCHANGED <<granted, met>>
               \/ \E n \in Node : granted' = Append(granted, {n}) /\ UNCHANGED met
    BY <1>1 DEF Step, Finish, Open, Fill, Skip, Begin, Mint, PassBy, Copy, CopyFails
  <1>2. ASSUME NEW p \in Procs, NEW n \in Node, NEW s \in Node, Replace(p, n, s)
        PROVE  \E t \in Node, k \in Keys : Installs(t, k)
    <2>1. run[p].held \in Keys /\ run[p].tmp = run[p].held /\ Writable(p)
      BY <1>2 DEF IInv, RunGranted, Replace, At, Writing
    <2>2. s \in run[p].sibs
      BY <1>2 DEF Replace, IsTarget, IsFirst
    <2>3. Installs(s, run[p].held)
      BY <1>2, <2>1, <2>2 DEF Replace, Installs, Writable
    <2>4. QED
      BY <2>1, <2>3
  <1>3. ASSUME NEW p \in Procs, Abort(p) PROVE UNCHANGED <<granted, met>>
    BY <1>3 DEF Abort
  <1>4. ASSUME NEW p \in Procs, NEW ns \in SUBSET Node, NEW f \in BOOLEAN, Start(p, ns, f)
        PROVE  UNCHANGED <<granted, met>>
    BY <1>4 DEF Start
  <1>5. ASSUME NEW n \in Node, NEW t \in Topologies, Edit(n, t)
        PROVE  met' = [m \in Node |-> met[m] \cup CirclesOf(t)[m]] /\ UNCHANGED granted
    BY <1>5 DEF Edit
  <1>6. ASSUME NEW n \in Node, Damage(n) PROVE UNCHANGED <<granted, met>>
    BY <1>6 DEF Damage
  <1>7. CASE UNCHANGED vars
    BY <1>7 DEF vars
  <1>8. QED
    BY <1>1, <1>2, <1>3, <1>4, <1>5, <1>6, <1>7 DEF Next

\* Who shares in one topology is a way to meet.
LEMMA CirclesMeet ==
    ASSUME NEW t \in Topologies
    PROVE  CirclesOf(t) \in Authority!Meetings
  <1>1. CirclesOf(t) \in [Node -> SUBSET Node]
    BY CirclesType
  <1>2. \A m, n \in Node : n \in CirclesOf(t)[n] /\ (m \in CirclesOf(t)[n] => n \in CirclesOf(t)[m])
    BY DEF CirclesOf, Circle, IsHub
  <1>3. QED
    BY <1>1, <1>2 DEF Authority!Meetings

LEMMA InitImplements == Init => Authority!AInit
  <1> SUFFICES ASSUME Init PROVE Authority!AInit
    OBVIOUS
  <1>1. met \in Authority!Meetings
    BY InitType, CirclesMeet DEF Init, TypeOK
  <1>2. QED
    BY <1>1, Marks DEF Init, Authority!AInit, PairOf

LEMMA StepImplements ==
    ASSUME IInv, [Next]_vars
    PROVE  [Authority!ANext]_(Authority!avars)
  <1> DEFINE holds == [n \in Node |-> PairOf(file[n])]
  <1>1. file \in [Node -> Keys \cup {NoFile, Corrupt}] /\ granted \in Seq(SUBSET Node)
    BY DEF IInv, TypeOK
  <1>2. CASE UNCHANGED <<file, granted, met>>
    BY <1>2 DEF Authority!avars, PairOf
  <1>3. ASSUME NEW n \in Node, granted' = Append(granted, {n}), UNCHANGED <<file, met>>
        PROVE  Authority!Grant(n)
    BY <1>3 DEF Authority!Grant, PairOf
  <1>4. ASSUME NEW t \in Node, NEW k \in Keys, Installs(t, k)
        PROVE  k.pair \in DOMAIN granted /\ Authority!Install(t, k.pair)
    <2>1. PairOf(k) = k.pair
      BY Marks DEF PairOf
    <2>2. file' = [file EXCEPT ![t] = k] /\ UNCHANGED met
      BY <1>4 DEF Installs
    <2>3. holds' = [holds EXCEPT ![t] = k.pair]
      BY <1>1, <2>1, <2>2 DEF PairOf
    <2>4. k.pair \in DOMAIN granted /\ \E m \in granted[k.pair] : t \in met[m]
      BY <1>1, <1>4 DEF Installs, May
    <2>5. granted' = [granted EXCEPT ![k.pair] = granted[k.pair] \cup {t}]
      BY <1>4 DEF Installs
    <2>6. QED
      BY <2>2, <2>3, <2>4, <2>5 DEF Authority!Install
  <1>5. ASSUME NEW n \in Node, Damage(n) PROVE Authority!Spoil(n)
    <2>1. file[n] \in Keys /\ file' = [file EXCEPT ![n] = Corrupt] /\ UNCHANGED <<granted, met>>
      BY <1>1, <1>5 DEF Damage
    <2>2. PairOf(file[n]) \in Nat /\ NoFile \notin Nat
      BY <2>1, Marks, MarksAssumption DEF PairOf, Keys
    <2>3. holds' = [holds EXCEPT ![n] = Corrupt]
      BY <1>1, <2>1 DEF PairOf
    <2>4. QED
      BY <2>1, <2>2, <2>3 DEF Authority!Spoil
  <1>6. ASSUME NEW t \in Topologies, met' = [m \in Node |-> met[m] \cup CirclesOf(t)[m]],
               UNCHANGED <<file, granted>>
        PROVE  \E c \in Authority!Meetings : Authority!Meet(c)
    <2>1. CirclesOf(t) \in Authority!Meetings
      BY CirclesMeet
    <2>2. Authority!Meet(CirclesOf(t))
      BY <1>6 DEF Authority!Meet, PairOf
    <2>3. QED
      BY <2>1, <2>2
  <1>7. ASSUME NEW t \in Node, NEW k \in Keys, Installs(t, k) PROVE Authority!ANext
    BY <1>4, <1>7 DEF Authority!ANext
  <1>8. CASE UNCHANGED file
    <2>1. \/ UNCHANGED <<granted, met>>
          \/ \E n \in Node : granted' = Append(granted, {n}) /\ UNCHANGED met
          \/ \E t \in Node, k \in Keys : Installs(t, k)
          \/ \E t \in Topologies :
                met' = [m \in Node |-> met[m] \cup CirclesOf(t)[m]] /\ UNCHANGED granted
      BY <1>8, GrantSteps
    <2>2. QED
      BY <1>2, <1>3, <1>6, <1>7, <1>8, <2>1 DEF Authority!ANext
  <1>9. QED
    BY <1>5, <1>7, <1>8, FileSteps DEF Authority!ANext

\* Whatever the commands do, the key directory is an authority that grants each pair
\* to a node and installs it in the files of nodes that met one that has it.
THEOREM Implements == Spec => AuthoritySpec
  BY InitImplements, StepImplements, Inductive, PTL DEF Spec, AuthoritySpec, Authority!ASpec

-----------------------------------------------------------------------------
(* What gen-keys has achieved when it ends.                               *)

\* A key file that exists is never removed.
LEMMA FilesStay ==
    ASSUME IInv, [Next]_vars
    PROVE  \A n \in Node : file[n] # NoFile => file'[n] # NoFile
  <1>1. file \in [Node -> Keys \cup {NoFile, Corrupt}]
    BY DEF IInv, TypeOK
  <1>2. ASSUME NEW t \in Node, NEW k \in Keys, Installs(t, k)
        PROVE  \A n \in Node : file[n] # NoFile => file'[n] # NoFile
    BY <1>1, <1>2, Marks DEF Installs
  <1>3. ASSUME NEW m \in Node, Damage(m)
        PROVE  \A n \in Node : file[n] # NoFile => file'[n] # NoFile
    BY <1>1, <1>3, Marks DEF Damage
  <1>4. QED
    BY <1>2, <1>3, FileSteps

\* What a step of p puts into p's memory, and leaves in the others'.
LEMMA OwnStep ==
    ASSUME IInv, NEW p \in Procs, NEW r, run' = [run EXCEPT ![p] = r]
    PROVE  run'[p] = r /\ \A q \in Procs \ {p} : run'[q] = run[q]
  BY DEF IInv, TypeOK

LEMMA StartStep ==
    ASSUME IInv, NEW p \in Procs, NEW ns \in SUBSET Node, NEW f \in BOOLEAN, Start(p, ns, f)
    PROVE  run'[p] = Started(ns, f) /\ \A q \in Procs \ {p} : run'[q] = run[q]
  <1> DEFINE r == Started(ns, f)
  <1>1. run' = [run EXCEPT ![p] = r]
    BY DEF Start, Started
  <1> HIDE DEF r
  <1>2. run'[p] = r /\ \A q \in Procs \ {p} : run'[q] = run[q]
    BY ONLY <1>1, IInv, OwnStep
  <1>3. QED
    BY <1>2 DEF r

-----------------------------------------------------------------------------
(* Success means a key file for every node that was asked for.             *)

\* A node that p is done with has a file, unless p counted an error; so has the
\* one it works on when its own file is not among those to be written.
Covered(p) ==
    /\ ~run[p].failed => \A n \in run[p].asked \ run[p].todo : file[n] # NoFile
    /\ \A n \in Node : (Current(p, n) /\ Writing(p) /\ n \notin run[p].sibs) => file[n] # NoFile
CoverInv == IInv /\ \A p \in Procs : Covered(p)

LEMMA InitCover == Init => CoverInv
  <1> SUFFICES ASSUME Init PROVE CoverInv
    OBVIOUS
  <1>1. ASSUME NEW p \in Procs PROVE Covered(p)
    <2>1. run[p] = NoRun
      BY DEF Init
    <2>2. QED
      BY <2>1 DEF Covered, NoRun, Writing
  <1>2. QED
    BY <1>1, InitIInv DEF CoverInv

\* What p remembers of its nodes is not touched by steps that leave its memory.
LEMMA CoverKept ==
    ASSUME IInv, [Next]_vars, NEW p \in Procs, Covered(p), run'[p] = run[p]
    PROVE  Covered(p)'
  <1>1. run[p] \in Runs
    BY DEF IInv, TypeOK
  <1>2. QED
    BY <1>1, FilesStay DEF Covered, Current, Writing, Runs

\* A step that goes on to the next node, with n dealt with.
LEMMA CoverNext ==
    ASSUME IInv, [Next]_vars, NEW p \in Procs, Covered(p), NEW n \in Node,
           run'[p].pc \notin {"write", "fill", "replace"}, run'[p].asked = run[p].asked,
           \/ run'[p].todo = run[p].todo
           \/ run'[p].todo = run[p].todo \ {n} /\ (file'[n] # NoFile \/ run'[p].failed),
           run[p].failed => run'[p].failed
    PROVE  Covered(p)'
  <1>1. run[p] \in Runs
    BY DEF IInv, TypeOK
  <1>2. QED
    BY <1>1, FilesStay DEF Covered, Current, Writing, Runs

LEMMA StepCover ==
    ASSUME CoverInv, [Next]_vars, NEW p \in Procs, Step(p)
    PROVE  Covered(p)'
  <1>1. IInv /\ Covered(p) /\ run[p] \in Runs /\ file \in [Node -> Keys \cup {NoFile, Corrupt}]
    BY DEF CoverInv, IInv, TypeOK
  <1>2. CASE Finish(p)
    <2>1. run'[p] = NoRun
      BY <1>1, <1>2, OwnStep DEF Finish
    <2>2. QED
      BY <2>1 DEF Covered, NoRun, Writing
  <1>3. CASE Open(p) \/ Fill(p)
    <2>1. /\ run'[p].sibs = run[p].sibs /\ run'[p].todo = run[p].todo /\ Writing(p)
          /\ run'[p].snap = run[p].snap
          /\ run'[p].asked = run[p].asked /\ run'[p].failed = run[p].failed
      <3>1. CASE Open(p)
        <4>1. run'[p] = [run[p] EXCEPT !.pc = "fill", !.tmp = Corrupt]
          BY <1>1, <3>1, OwnStep DEF Open
        <4>2. QED
          BY <1>1, <3>1, <4>1 DEF Open, At, Writing, Runs
      <3>2. CASE Fill(p)
        <4>1. run'[p] = [run[p] EXCEPT !.pc = "replace", !.tmp = run[p].held]
          BY <1>1, <3>2, OwnStep DEF Fill
        <4>2. QED
          BY <1>1, <3>2, <4>1 DEF Fill, At, Writing, Runs
      <3>3. QED
        BY <1>3, <3>1, <3>2
    <2>2. QED
      BY <1>1, <2>1, FilesStay DEF Covered, Current, Runs
  <1>4. ASSUME NEW n \in Node, Skip(p, n) PROVE Covered(p)'
    <2>1. run'[p] = [run[p] EXCEPT !.todo = run[p].todo \ {n}] /\ file' = file
      BY <1>1, <1>4, OwnStep DEF Skip
    <2>2. /\ run'[p].pc = "next" /\ run'[p].asked = run[p].asked
          /\ run'[p].todo = run[p].todo \ {n} /\ run'[p].failed = run[p].failed
      BY <1>1, <1>4, <2>1 DEF Skip, At, Runs
    <2>3. QED
      BY <1>1, <1>4, <2>1, <2>2, CoverNext DEF Skip
  <1>5. ASSUME NEW n \in Node, Begin(p, n) PROVE Covered(p)'
    <2> DEFINE look == IF run[p].force THEN {} ELSE SiblingsOf(p, n)
    <2>1. run'[p] = [run[p] EXCEPT !.pc = "scan", !.sibs = look]
      BY <1>1, <1>5, OwnStep DEF Begin
    <2> HIDE DEF look
    <2>2. /\ run'[p].pc = "scan" /\ run'[p].asked = run[p].asked
          /\ run'[p].todo = run[p].todo /\ run'[p].failed = run[p].failed
      BY <1>1, <2>1 DEF Runs
    <2>3. QED
      BY <1>1, <2>2, CoverNext
  <1>6. ASSUME NEW n \in Node, NEW s \in Node, PassBy(p, n, s) PROVE Covered(p)'
    <2>1. run'[p] = [run[p] EXCEPT !.sibs = run[p].sibs \ {s}]
      BY <1>1, <1>6, OwnStep DEF PassBy
    <2>2. /\ run'[p].pc = "scan" /\ run'[p].asked = run[p].asked
          /\ run'[p].todo = run[p].todo /\ run'[p].failed = run[p].failed
      BY <1>1, <1>6, <2>1 DEF PassBy, At, Runs
    <2>3. QED
      BY <1>1, <2>2, CoverNext
  <1>7. ASSUME NEW n \in Node, NEW s \in Node, CopyFails(p, n, s) PROVE Covered(p)'
    <2>1. run'[p] = [run[p] EXCEPT !.pc = "next", !.sibs = {}, !.failed = TRUE,
                                   !.todo = run[p].todo \ {n}]
      BY <1>1, <1>7, OwnStep DEF CopyFails
    <2>2. /\ run'[p].pc = "next" /\ run'[p].asked = run[p].asked
          /\ run'[p].todo = run[p].todo \ {n} /\ run'[p].failed
      BY <1>1, <2>1 DEF Runs
    <2>3. QED
      BY <1>1, <2>2, CoverNext
  <1>8. ASSUME NEW n \in Node, NEW targets, NEW keys, n \in targets, Current(p, n),
               run'[p] = [run[p] EXCEPT !.pc = "write", !.sibs = targets, !.held = keys]
        PROVE  Covered(p)'
    <2>1. /\ run'[p].sibs = targets /\ run'[p].asked = run[p].asked
          /\ run'[p].snap = run[p].snap /\ run'[p].todo = run[p].todo /\ run'[p].failed = run[p].failed
      BY <1>1, <1>8 DEF Runs
    <2>2. \A m \in Node : Current(p, m)' => m = n
      BY <1>1, <1>8, <2>1, StillCurrent DEF IInv
    <2>3. QED
      BY <1>1, <1>8, <2>1, <2>2, FilesStay DEF Covered, Runs
  <1>9. ASSUME NEW n \in Node, Mint(p, n) PROVE Covered(p)'
    <2> DEFINE key == [pair |-> Len(granted) + 1, cfg |-> run[p].snap[n].cfg]
    <2>1. run'[p] = [run[p] EXCEPT !.pc = "write", !.sibs = Targets(p, n), !.held = key]
      BY <1>1, <1>9, OwnStep DEF Mint
    <2>2. n \in Targets(p, n) /\ Current(p, n)
      BY <1>9 DEF Targets, Mint
    <2> HIDE DEF key
    <2>3. QED
      BY <1>8, <2>1, <2>2
  <1>10. ASSUME NEW n \in Node, NEW s \in Node, Copy(p, n, s) PROVE Covered(p)'
    <2> DEFINE own == {n}
    <2>1. run'[p] = [run[p] EXCEPT !.pc = "write", !.sibs = own, !.held = file[s]]
      BY <1>1, <1>10, OwnStep DEF Copy
    <2>2. n \in own /\ Current(p, n)
      BY <1>10 DEF Copy
    <2> HIDE DEF own
    <2>3. QED
      BY <1>8, <2>1, <2>2
  <1>11. ASSUME NEW n \in Node, NEW t \in Node, Replace(p, n, t) PROVE Covered(p)'
    <2> DEFINE rest == run[p].sibs \ {t}
               over == rest = {}
    <2>1. run'[p] = [run[p] EXCEPT !.tmp = NoFile, !.sibs = rest,
                       !.pc = IF over THEN "next" ELSE "write",
                       !.held = IF over THEN NoFile ELSE run[p].held,
                       !.todo = IF over THEN run[p].todo \ {n} ELSE run[p].todo]
      BY <1>1, <1>11, OwnStep DEF Replace
    <2>2. /\ run'[p].sibs = rest /\ run'[p].asked = run[p].asked
          /\ run'[p].snap = run[p].snap
          /\ run'[p].failed = run[p].failed
          /\ over => run'[p].pc = "next" /\ run'[p].todo = run[p].todo \ {n}
          /\ ~over => run'[p].todo = run[p].todo
      BY <1>1, <2>1 DEF Runs
    <2>3. Current(p, n) /\ Writing(p) /\ IsTarget(p, n, t)
      BY <1>11 DEF Replace, At, Writing
    <2>4. run[p].tmp \in Keys
      BY <1>1, <1>11 DEF IInv, RunGranted, Replace, At, Writing
    <2>5. file'[t] = run[p].tmp
      BY <1>1, <1>11 DEF Replace
    <2>6. n \notin rest => file'[n] # NoFile
      <3>1. CASE n \notin run[p].sibs
        BY <1>1, <2>3, <3>1, FilesStay DEF Covered
      <3>2. CASE n = t
        BY <2>4, <2>5, <3>2, Marks
      <3>3. QED
        BY <3>1, <3>2
    <2>7. CASE over
      <3>1. n \notin rest
        BY <2>7
      <3>2. QED
        BY <1>1, <2>2, <2>6, <2>7, <3>1, CoverNext
    <2>8. CASE ~over
      <3>1. \A m \in Node : Current(p, m)' => m = n
        BY <1>1, <2>2, <2>3, <2>8, StillCurrent DEF IInv
      <3>2. QED
        BY <1>1, <2>2, <2>6, <2>8, <3>1, FilesStay DEF Covered, Runs
    <2>9. QED
      BY <2>7, <2>8
  <1>12. QED
    BY <1>2, <1>3, <1>4, <1>5, <1>6, <1>7, <1>9, <1>10, <1>11 DEF Step

LEMMA NextCover == CoverInv /\ [Next]_vars => CoverInv'
  <1> SUFFICES ASSUME CoverInv, [Next]_vars PROVE CoverInv'
    OBVIOUS
  <1>1. IInv /\ IInv'
    BY NextIInv DEF CoverInv
  <1>2. ASSUME NEW p \in Procs, \A q \in Procs \ {p} : run'[q] = run[q], Covered(p)'
        PROVE  CoverInv'
    <2>1. \A q \in Procs \ {p} : Covered(q)'
      BY <1>1, <1>2, CoverKept DEF CoverInv
    <2>2. QED
      BY <1>1, <1>2, <2>1 DEF CoverInv
  <1>3. ASSUME run' = run PROVE CoverInv'
    BY <1>1, <1>3, CoverKept DEF CoverInv
  <1>4. ASSUME NEW p \in Procs, Step(p) PROVE CoverInv'
    <2>1. \A q \in Procs \ {p} : run'[q] = run[q]
      BY <1>1, <1>4 DEF IInv, TypeOK, Step, Finish, Open, Fill, Skip, Begin, Mint, PassBy, Copy,
                        CopyFails, Replace
    <2>2. QED
      BY <1>2, <1>4, <2>1, StepCover
  <1>5. ASSUME NEW p \in Procs, Abort(p) PROVE CoverInv'
    <2>1. run'[p] = NoRun /\ \A q \in Procs \ {p} : run'[q] = run[q]
      BY <1>1, <1>5, OwnStep DEF Abort
    <2>2. Covered(p)'
      BY <2>1 DEF Covered, NoRun, Writing
    <2>3. QED
      BY <1>2, <2>1, <2>2
  <1>6. ASSUME NEW p \in Procs, NEW ns \in SUBSET Node, NEW f \in BOOLEAN, Start(p, ns, f)
        PROVE  CoverInv'
    <2>1. /\ run'[p] = Started(ns, f)
          /\ \A q \in Procs \ {p} : run'[q] = run[q]
      BY <1>1, <1>6, StartStep
    <2>2. /\ run'[p].pc = "next" /\ run'[p].asked = run'[p].todo
      BY <2>1, StartedFields
    <2>3. Covered(p)'
      BY <2>2 DEF Covered, Writing
    <2>4. QED
      BY <1>2, <2>1, <2>3
  <1>7. ASSUME NEW n \in Node, Damage(n) \/ \E t \in Topologies : Edit(n, t) PROVE run' = run
    BY <1>7 DEF Damage, Edit
  <1>8. CASE UNCHANGED vars
    BY <1>3, <1>8 DEF vars
  <1>9. QED
    BY <1>3, <1>4, <1>5, <1>6, <1>7, <1>8 DEF Next

\* A gen-keys command that reports no error leaves a key file for every node it
\* was asked for, whatever other commands, edits and damage come in between.
THEOREM SuccessProved == Spec => SuccessCovers
  <1> DEFINE Result == \A p \in Procs :
                 (Finish(p) /\ ~run[p].failed) => \A n \in run[p].asked : file[n] # NoFile
  <1>1. ASSUME CoverInv, NEW p \in Procs, Finish(p), ~run[p].failed
        PROVE  \A n \in run[p].asked : file[n] # NoFile
    BY <1>1 DEF CoverInv, Covered, Finish
  <1>2. CoverInv /\ [Next]_vars => [Result]_vars
    BY <1>1
  <1>3. QED
    BY InitCover, NextCover, <1>2, PTL DEF Spec, SuccessCovers
-----------------------------------------------------------------------------
(* Without --force existing key files are left alone.                      *)

\* The files that were there when p started are still there, and without --force p
\* works on none of their nodes and writes only the file of the node it works on.
Spares(p) ==
    /\ \A n \in run[p].old : file[n] # NoFile
    /\ run[p].force => run[p].old = {}
    /\ (At(p, "scan") \/ Writing(p)) =>
          \A n \in Node : Current(p, n) => n \notin run[p].old
    /\ (Writing(p) /\ ~run[p].force) =>
          \A n \in Node : Current(p, n) => run[p].sibs \subseteq {n}
SpareInv == IInv /\ \A p \in Procs : Spares(p)

LEMMA InitSpare == Init => SpareInv
  <1> SUFFICES ASSUME Init PROVE SpareInv
    OBVIOUS
  <1>1. ASSUME NEW p \in Procs PROVE Spares(p)
    <2>1. run[p].pc = "idle" /\ run[p].old = {}
      BY DEF Init, NoRun
    <2>2. QED
      BY <2>1 DEF Spares, At, Writing
  <1>2. QED
    BY <1>1, InitIInv DEF SpareInv

\* The steps of the others.
LEMMA SpareKept ==
    ASSUME IInv, [Next]_vars, NEW p \in Procs, Spares(p), run'[p] = run[p]
    PROVE  Spares(p)'
  <1>1. run[p].old \subseteq Node
    BY DEF IInv, TypeOK, Runs
  <1>2. QED
    BY <1>1, FilesStay DEF Spares, At, Current, Writing

\* p goes on to its next node.
LEMMA SpareNext ==
    ASSUME IInv, [Next]_vars, NEW p \in Procs, Spares(p), run'[p].pc = "next",
           run'[p].old = run[p].old, run'[p].force = run[p].force
    PROVE  Spares(p)'
  <1>1. run[p].old \subseteq Node
    BY DEF IInv, TypeOK, Runs
  <1>2. QED
    BY <1>1, FilesStay DEF Spares, At, Writing

\* p stays with its node.
LEMMA SpareOn ==
    ASSUME IInv, [Next]_vars, NEW p \in Procs, Spares(p), NEW n \in Node, Current(p, n),
           run'[p].old = run[p].old, run'[p].force = run[p].force,
           run'[p].snap = run[p].snap, run'[p].todo = run[p].todo,
           n \notin run[p].old,
           run'[p].pc = "scan" \/ run[p].force \/ run'[p].sibs \subseteq {n}
    PROVE  Spares(p)'
  <1>1. run[p].old \subseteq Node
    BY DEF IInv, TypeOK, Runs
  <1>2. \A m : Current(p, m)' => m = n
    BY StillCurrent DEF IInv
  <1>3. \A m \in run[p].old : file'[m] # NoFile
    BY <1>1, FilesStay DEF Spares
  <1>4. QED
    BY <1>2, <1>3 DEF Spares, Writing

LEMMA StepSpare ==
    ASSUME SpareInv, [Next]_vars, NEW p \in Procs, Step(p)
    PROVE  Spares(p)'
  <1>1. IInv /\ Spares(p) /\ run[p] \in Runs
    BY DEF SpareInv, IInv, TypeOK
  <1>2. CASE Finish(p)
    <2>1. run'[p] = NoRun
      BY <1>1, <1>2, OwnStep DEF Finish
    <2>2. run'[p].pc = "idle" /\ run'[p].old = {}
      BY <2>1 DEF NoRun
    <2>3. QED
      BY <2>2 DEF Spares, At, Writing
  <1>3. CASE Open(p) \/ Fill(p)
    <2>1. /\ run'[p].sibs = run[p].sibs /\ run'[p].todo = run[p].todo /\ Writing(p)
          /\ run'[p].snap = run[p].snap /\ run'[p].old = run[p].old
          /\ run'[p].force = run[p].force /\ file' = file
      <3>1. CASE Open(p)
        <4>1. run'[p] = [run[p] EXCEPT !.pc = "fill", !.tmp = Corrupt]
          BY <1>1, <3>1, OwnStep DEF Open
        <4>2. QED
          BY <1>1, <3>1, <4>1 DEF Open, At, Writing, Runs
      <3>2. CASE Fill(p)
        <4>1. run'[p] = [run[p] EXCEPT !.pc = "replace", !.tmp = run[p].held]
          BY <1>1, <3>2, OwnStep DEF Fill
        <4>2. QED
          BY <1>1, <3>2, <4>1 DEF Fill, At, Writing, Runs
      <3>3. QED
        BY <1>3, <3>1, <3>2
    <2>2. QED
      BY <1>1, <2>1 DEF Spares, Current
  <1>4. ASSUME NEW n \in Node, Skip(p, n) PROVE Spares(p)'
    <2>1. run'[p] = [run[p] EXCEPT !.todo = run[p].todo \ {n}]
      BY <1>1, <1>4, OwnStep DEF Skip
    <2>2. run'[p].pc = "next" /\ run'[p].old = run[p].old /\ run'[p].force = run[p].force
      BY <1>1, <1>4, <2>1 DEF Skip, At, Runs
    <2>3. QED
      BY <1>1, <2>2, SpareNext
  <1>5. ASSUME NEW n \in Node, NEW s \in Node, CopyFails(p, n, s) PROVE Spares(p)'
    <2>1. run'[p] = [run[p] EXCEPT !.pc = "next", !.sibs = {}, !.failed = TRUE,
                                   !.todo = run[p].todo \ {n}]
      BY <1>1, <1>5, OwnStep DEF CopyFails
    <2>2. run'[p].pc = "next" /\ run'[p].old = run[p].old /\ run'[p].force = run[p].force
      BY <1>1, <2>1 DEF Runs
    <2>3. QED
      BY <1>1, <2>2, SpareNext
  <1>6. ASSUME NEW n \in Node, Begin(p, n) PROVE Spares(p)'
    <2> DEFINE look == IF run[p].force THEN {} ELSE SiblingsOf(p, n)
    <2>1. run'[p] = [run[p] EXCEPT !.pc = "scan", !.sibs = look]
      BY <1>1, <1>6, OwnStep DEF Begin
    <2> HIDE DEF look
    <2>2. /\ run'[p].pc = "scan" /\ run'[p].old = run[p].old /\ run'[p].force = run[p].force
          /\ run'[p].snap = run[p].snap /\ run'[p].todo = run[p].todo
      BY <1>1, <2>1 DEF Runs
    <2>3. Current(p, n) /\ n \notin run[p].old
      BY <1>1, <1>6 DEF Begin, Spares
    <2>4. QED
      BY <1>1, <2>2, <2>3, SpareOn
  <1>7. ASSUME NEW n \in Node, NEW s \in Node, PassBy(p, n, s) PROVE Spares(p)'
    <2>1. run'[p] = [run[p] EXCEPT !.sibs = run[p].sibs \ {s}]
      BY <1>1, <1>7, OwnStep DEF PassBy
    <2>2. /\ run'[p].pc = "scan" /\ run'[p].old = run[p].old /\ run'[p].force = run[p].force
          /\ run'[p].snap = run[p].snap /\ run'[p].todo = run[p].todo
      BY <1>1, <1>7, <2>1 DEF PassBy, At, Runs
    <2>3. Current(p, n) /\ n \notin run[p].old
      BY <1>1, <1>7 DEF PassBy, Spares
    <2>4. QED
      BY <1>1, <2>2, <2>3, SpareOn
  <1>8. ASSUME NEW n \in Node, NEW targets, NEW keys, Current(p, n), At(p, "scan"),
               run'[p] = [run[p] EXCEPT !.pc = "write", !.sibs = targets, !.held = keys],
               run[p].force \/ targets = {n}
        PROVE  Spares(p)'
    <2>1. /\ run'[p].sibs = targets /\ run'[p].old = run[p].old
          /\ run'[p].force = run[p].force
          /\ run'[p].snap = run[p].snap /\ run'[p].todo = run[p].todo
      BY <1>1, <1>8 DEF Runs
    <2>2. n \notin run[p].old
      BY <1>1, <1>8 DEF Spares
    <2>3. QED
      BY <1>1, <1>8, <2>1, <2>2, SpareOn
  <1>9. ASSUME NEW n \in Node, Mint(p, n) PROVE Spares(p)'
    <2> DEFINE key == [pair |-> Len(granted) + 1, cfg |-> run[p].snap[n].cfg]
               files == Targets(p, n)
    <2>1. run'[p] = [run[p] EXCEPT !.pc = "write", !.sibs = files, !.held = key]
      BY <1>1, <1>9, OwnStep DEF Mint
    <2>2. Current(p, n) /\ At(p, "scan") /\ (run[p].force \/ files = {n})
      BY <1>9 DEF Mint, Targets
    <2> HIDE DEF key, files
    <2>3. QED
      BY <1>8, <2>1, <2>2
  <1>10. ASSUME NEW n \in Node, NEW s \in Node, Copy(p, n, s) PROVE Spares(p)'
    <2> DEFINE own == {n}
    <2>1. run'[p] = [run[p] EXCEPT !.pc = "write", !.sibs = own, !.held = file[s]]
      BY <1>1, <1>10, OwnStep DEF Copy
    <2>2. Current(p, n) /\ At(p, "scan") /\ own = {n}
      BY <1>10 DEF Copy
    <2> HIDE DEF own
    <2>3. QED
      BY <1>8, <2>1, <2>2
  <1>11. ASSUME NEW n \in Node, NEW t \in Node, Replace(p, n, t) PROVE Spares(p)'
    <2> DEFINE rest == run[p].sibs \ {t}
               over == rest = {}
    <2>1. run'[p] = [run[p] EXCEPT !.tmp = NoFile, !.sibs = rest,
                       !.pc = IF over THEN "next" ELSE "write",
                       !.held = IF over THEN NoFile ELSE run[p].held,
                       !.todo = IF over THEN run[p].todo \ {n} ELSE run[p].todo]
      BY <1>1, <1>11, OwnStep DEF Replace
    <2>2. /\ run'[p].sibs = rest /\ run'[p].old = run[p].old
          /\ run'[p].force = run[p].force /\ run'[p].snap = run[p].snap
          /\ over => run'[p].pc = "next"
          /\ ~over => run'[p].todo = run[p].todo
      BY <1>1, <2>1 DEF Runs
    <2>3. Current(p, n) /\ Writing(p)
      BY <1>11 DEF Replace, At, Writing
    <2>4. n \notin run[p].old /\ (run[p].force \/ rest \subseteq {n})
      BY <1>1, <2>3 DEF Spares
    <2>5. CASE over
      BY <1>1, <2>2, <2>5, SpareNext
    <2>6. CASE ~over
      BY <1>1, <2>2, <2>3, <2>4, <2>6, SpareOn
    <2>7. QED
      BY <2>5, <2>6
  <1>12. QED
    BY <1>2, <1>3, <1>4, <1>5, <1>6, <1>7, <1>9, <1>10, <1>11 DEF Step

LEMMA NextSpare == SpareInv /\ [Next]_vars => SpareInv'
  <1> SUFFICES ASSUME SpareInv, [Next]_vars PROVE SpareInv'
    OBVIOUS
  <1>1. IInv /\ IInv'
    BY NextIInv DEF SpareInv
  <1>2. ASSUME NEW p \in Procs, \A q \in Procs \ {p} : run'[q] = run[q], Spares(p)'
        PROVE  SpareInv'
    <2>1. \A q \in Procs \ {p} : Spares(q)'
      BY <1>1, <1>2, SpareKept DEF SpareInv
    <2>2. QED
      BY <1>1, <1>2, <2>1 DEF SpareInv
  <1>3. ASSUME run' = run PROVE SpareInv'
    BY <1>1, <1>3, SpareKept DEF SpareInv
  <1>4. ASSUME NEW p \in Procs, Step(p) PROVE SpareInv'
    <2>1. \A q \in Procs \ {p} : run'[q] = run[q]
      BY <1>1, <1>4 DEF IInv, TypeOK, Step, Finish, Open, Fill, Skip, Begin, Mint, PassBy, Copy,
                        CopyFails, Replace
    <2>2. QED
      BY <1>2, <1>4, <2>1, StepSpare
  <1>5. ASSUME NEW p \in Procs, Abort(p) PROVE SpareInv'
    <2>1. run'[p] = NoRun /\ \A q \in Procs \ {p} : run'[q] = run[q]
      BY <1>1, <1>5, OwnStep DEF Abort
    <2>2. run'[p].pc = "idle" /\ run'[p].old = {}
      BY <2>1 DEF NoRun
    <2>3. Spares(p)'
      BY <2>2 DEF Spares, At, Writing
    <2>4. QED
      BY <1>2, <2>1, <2>3
  <1>6. ASSUME NEW p \in Procs, NEW ns \in SUBSET Node, NEW f \in BOOLEAN, Start(p, ns, f)
        PROVE  SpareInv'
    <2> DEFINE had == {n \in ns : file[n] # NoFile /\ ~f}
    <2>1. run'[p] = Started(ns, f) /\ \A q \in Procs \ {p} : run'[q] = run[q]
      BY <1>1, <1>6, StartStep
    <2>2. run'[p].pc = "next" /\ run'[p].force = f /\ run'[p].old = had
      BY <2>1, StartedFields
    <2>3. file' = file
      BY <1>6 DEF Start
    <2>4. Spares(p)'
      BY <2>2, <2>3 DEF Spares, At, Writing
    <2>5. QED
      BY <1>2, <2>1, <2>4
  <1>7. ASSUME NEW n \in Node, Damage(n) \/ \E t \in Topologies : Edit(n, t) PROVE run' = run
    BY <1>7 DEF Damage, Edit
  <1>8. CASE UNCHANGED vars
    BY <1>3, <1>8 DEF vars
  <1>9. QED
    BY <1>3, <1>4, <1>5, <1>6, <1>7, <1>8 DEF Next

\* A gen-keys command without --force replaces no key file that was there when it
\* started, however many commands run at a time.
THEOREM LeftAlone == Spec => ExistingLeftAlone
  <1> DEFINE Result == \A p \in Procs, n, t \in Node : Replace(p, n, t) => t \notin run[p].old
  <1>1. ASSUME SpareInv, NEW p \in Procs, NEW n \in Node, NEW t \in Node, Replace(p, n, t)
        PROVE  t \notin run[p].old
    <2>1. Spares(p) /\ Current(p, n) /\ Writing(p) /\ IsTarget(p, n, t)
      BY <1>1 DEF SpareInv, Replace, At, Writing
    <2>2. ~run[p].force => t = n
      BY <2>1 DEF Spares, IsTarget, IsFirst
    <2>3. QED
      BY <2>1, <2>2 DEF Spares
  <1>2. SpareInv /\ [Next]_vars => [Result]_vars
    BY <1>1
  <1>3. QED
    BY InitSpare, NextSpare, <1>2, PTL DEF Spec, ExistingLeftAlone
=============================================================================
