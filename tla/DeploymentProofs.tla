-------------------------- MODULE DeploymentProofs --------------------------
(***************************************************************************)
(* Theorems about Deployment, for any number of processes, nodes, portals   *)
(* and topologies, without the bounds.                                      *)
(***************************************************************************)
EXTENDS Deployment, TLAPS

USE DEF At, Current

-----------------------------------------------------------------------------
(* Lemmas about the operators.                                             *)

\* The key files of a configuration are those of nodes.
LEMMA NeedsType ==
    ASSUME NEW t \in Topology, NEW i \in Item
    PROVE  Needs(t, i) \in Seq(Node)
<1>1. t.hubs \in Seq(Node) /\ t.exits \in Seq(Node)
  BY TopologyAssumption
<1>2. CASE i \in Portal
  BY <1>1, <1>2, MarkAssumption DEF Needs, Item, ToSet
<1>3. CASE i \notin Portal
  <2>1. i \in Node
    BY <1>3 DEF Item
  <2>2. <<i>> \in Seq(Node) /\ <<i>> \o t.exits \in Seq(Node)
    BY <1>1, <2>1
  <2> QED  BY <1>3, <2>2 DEF Needs
<1> QED  BY <1>2, <1>3

\* What a process is after it is done with an item.
LEMMA NextItemFields ==
    ASSUME NEW p \in Procs, NEW bad \in SUBSET Item, proc[p] \in Process, proc[p].todo # <<>>
    PROVE  LET r == NextItem(p, bad)
           IN  /\ r \in Process /\ r.pc = "item" /\ r.todo = Tail(proc[p].todo) /\ r.got = <<>>
               /\ r.snap = proc[p].snap /\ r.failed = proc[p].failed \cup bad
               /\ r.asked = proc[p].asked /\ r.quiet = proc[p].quiet
               /\ r.xray = proc[p].xray /\ r.haproxy = proc[p].haproxy
<1>1. Tail(proc[p].todo) \in Seq(Item) /\ <<>> \in Seq(Nat)
  BY DEF Process
<1>2. proc[p].failed \cup bad \in SUBSET Item
  BY DEF Process
<1> QED  BY <1>1, <1>2 DEF NextItem, Process

\* What a process is after it read one more pair.
LEMMA AppendFields ==
    ASSUME NEW r \in Process, NEW i \in Nat
    PROVE  LET s == [r EXCEPT !.got = Append(@, i)]
           IN  /\ s \in Process /\ s.got = Append(r.got, i)
               /\ s.pc = r.pc /\ s.snap = r.snap /\ s.todo = r.todo /\ s.quiet = r.quiet
               /\ s.xray = r.xray /\ s.haproxy = r.haproxy /\ s.asked = r.asked /\ s.failed = r.failed
<1>1. Append(r.got, i) \in Seq(Nat)
  BY DEF Process
<1> QED  BY <1>1 DEF Process

\* What a process is after it moved on within an item.
LEMMA GotoFields ==
    ASSUME NEW r \in Process, NEW l \in {"haproxy", "fill"}
    PROVE  LET s == [r EXCEPT !.pc = l]
           IN  /\ s \in Process /\ s.pc = l
               /\ s.got = r.got /\ s.snap = r.snap /\ s.todo = r.todo /\ s.quiet = r.quiet
               /\ s.xray = r.xray /\ s.haproxy = r.haproxy /\ s.asked = r.asked /\ s.failed = r.failed
BY DEF Process

-----------------------------------------------------------------------------
(* Types.                                                                  *)

LEMMA InitType == Init => TypeOK
<1> SUFFICES ASSUME Init PROVE TypeOK
  OBVIOUS
<1>1. NoProcess \in Process
  BY TopologyAssumption DEF NoProcess, Process
<1>2. proc \in [Procs -> Process] /\ \A p \in Procs : proc[p].pc = "idle"
  BY <1>1 DEF Init, NoProcess
<1>3. front \in [Item -> Topology \cup {NoConfig, Torn}] /\ out \in [Item -> Config \cup {NoConfig}]
  BY DEF Init
<1>4. /\ holds \in [Node -> Nat \cup {NoFile, Corrupt}] /\ granted \in Seq(SUBSET Node)
      /\ met \in [Node -> SUBSET Node] /\ topo \in Topology
  BY KeysAssumption, TopologyAssumption DEF Init, Meetings
<1>5. spent \in Budget
  BY DEF Init, Budget
<1> QED  BY <1>2, <1>3, <1>4, <1>5 DEF TypeOK

\* The part of TypeOK about the processes.
ProcOK == proc \in [Procs -> Process] /\ \A p \in Procs : At(p, "haproxy") \/ At(p, "fill") => proc[p].todo # <<>>
ProcFine(r) == r \in Process /\ (r.pc \in {"haproxy", "fill"} => r.todo # <<>>)

LEMMA BecomeType ==
    ASSUME ProcOK, NEW p \in Procs, NEW r, ProcFine(r), Become(p, r)
    PROVE  ProcOK'
BY DEF ProcOK, ProcFine, Become

\* Forgetting that a process was not interfered with.
LEMMA NotQuiet ==
    ASSUME NEW r \in Process
    PROVE  LET s == [r EXCEPT !.quiet = FALSE]
           IN  /\ s \in Process /\ s.quiet = FALSE
               /\ s.pc = r.pc /\ s.snap = r.snap /\ s.todo = r.todo /\ s.got = r.got
               /\ s.xray = r.xray /\ s.haproxy = r.haproxy /\ s.asked = r.asked /\ s.failed = r.failed
BY DEF Process

LEMMA BecomeWritingType ==
    ASSUME ProcOK, NEW p \in Procs, NEW r, ProcFine(r), BecomeWriting(p, r)
    PROVE  ProcOK'
<1>1. ASSUME NEW q \in Procs
      PROVE  proc'[q] \in Process /\ (proc'[q].pc \in {"haproxy", "fill"} => proc'[q].todo # <<>>)
  <2>1. CASE q = p
    BY <2>1 DEF BecomeWriting, ProcFine
  <2>2. CASE q # p
    BY <2>2, NotQuiet DEF BecomeWriting, ProcOK
  <2> QED  BY <2>1, <2>2
<1>2. proc' \in [Procs -> Process]
  BY <1>1 DEF BecomeWriting
<1> QED  BY <1>1, <1>2 DEF ProcOK

LEMMA DisturbType ==
    ASSUME ProcOK, Disturb
    PROVE  ProcOK'
<1>1. ASSUME NEW q \in Procs
      PROVE  proc'[q] \in Process /\ (proc'[q].pc \in {"haproxy", "fill"} => proc'[q].todo # <<>>)
  BY NotQuiet DEF Disturb, ProcOK
<1>2. proc' \in [Procs -> Process]
  BY <1>1 DEF Disturb
<1> QED  BY <1>1, <1>2 DEF ProcOK

LEMMA NextItemFine ==
    ASSUME ProcOK, NEW p \in Procs, proc[p].todo # <<>>, NEW bad \in SUBSET Item
    PROVE  ProcFine(NextItem(p, bad))
BY NextItemFields DEF ProcOK, ProcFine

LEMMA NoProcessFine == ProcFine(NoProcess)
BY TopologyAssumption DEF NoProcess, Process, ProcFine

\* A process moves to another place with what it has.
LEMMA GotoFine ==
    ASSUME ProcOK, NEW p \in Procs, proc[p].todo # <<>>, NEW l \in {"haproxy", "fill"}
    PROVE  ProcFine([proc[p] EXCEPT !.pc = l])
BY DEF ProcOK, ProcFine, Process

\* Its current item is one.
LEMMA CurrentType ==
    ASSUME ProcOK, NEW p \in Procs, proc[p].todo # <<>>
    PROVE  Current(p) \in Item
BY DEF ProcOK, Process

\* Counting a command or an incident.
LEMMA BudgetType ==
    ASSUME NEW b \in Budget
    PROVE  /\ [b EXCEPT !.commands = @ + 1] \in Budget
           /\ [b EXCEPT !.edits = @ + 1] \in Budget
           /\ [b EXCEPT !.damage = @ + 1] \in Budget
           /\ [b EXCEPT !.errors = @ + 1] \in Budget
<1>1. /\ b.commands + 1 \in Nat
      /\ b.edits + 1 \in Nat
      /\ b.damage + 1 \in Nat
      /\ b.errors + 1 \in Nat
  BY DEF Budget
<1> QED  BY <1>1 DEF Budget

\* The part of TypeOK about the rest.
WorldOK ==
    /\ holds \in [Node -> Nat \cup {NoFile, Corrupt}]
    /\ granted \in Seq(SUBSET Node)
    /\ met \in [Node -> SUBSET Node]
    /\ topo \in Topology
    /\ out \in [Item -> Config \cup {NoConfig}]
    /\ front \in [Item -> Topology \cup {NoConfig, Torn}]
    /\ spent \in Budget

LEMMA TypeParts == /\ TypeOK <=> WorldOK /\ ProcOK
                   /\ TypeOK' <=> WorldOK' /\ ProcOK'
BY DEF TypeOK, WorldOK, ProcOK

LEMMA BeginType ==
    ASSUME TypeOK, NEW p \in Procs, NEW items \in Seq(Item), NEW x \in BOOLEAN, NEW h \in BOOLEAN,
           Begin(p, items, x, h)
    PROVE  TypeOK'
<1> DEFINE r == [pc |-> "item", snap |-> topo, todo |-> items, got |-> <<>>, xray |-> x, haproxy |-> h,
                 asked |-> ToSet(items), failed |-> {}, quiet |-> TRUE]
<1>1. ProcOK /\ WorldOK
  BY TypeParts
<1>2. ToSet(items) \in SUBSET Item
  BY DEF ToSet
<1>3. ProcFine(r)
  BY <1>1, <1>2 DEF Process, ProcFine, WorldOK
<1>4. ProcOK'
  <2>1. Become(p, r)
    BY DEF Begin
  <2> QED  BY <1>1, <1>3, <2>1, BecomeType
<1>5. WorldOK'
  BY <1>1, BudgetType DEF Begin, WorldOK
<1> QED  BY <1>4, <1>5, TypeParts

\* What the items of a command are.
LEMMA ItemsType ==
    ASSUME TypeOK
    PROVE  /\ topo.nodes \in Seq(Item) /\ topo.portals \in Seq(Item)
           /\ \A n \in Node \cup Portal : <<n>> \in Seq(Item)
<1>1. topo.nodes \in Seq(Node) /\ topo.portals \in Seq(Portal)
  BY TopologyAssumption DEF TypeOK
<1> QED  BY <1>1 DEF Item

LEMMA NextType == TypeOK /\ [Next]_vars => TypeOK'
<1> SUFFICES ASSUME TypeOK, [Next]_vars PROVE TypeOK'
  OBVIOUS
<1>1. WorldOK /\ ProcOK
  BY TypeParts
<1>2. ASSUME NEW p \in Procs, NEW n \in Node, NEW f \in Flags, StartBuild(p, n, f.xray, f.haproxy)
      PROVE  TypeOK'
  <2>1. f.xray \in BOOLEAN /\ f.haproxy \in BOOLEAN
    BY FlagsAssumption
  <2> QED  BY <1>2, <2>1, ItemsType, BeginType DEF StartBuild
<1>3. ASSUME NEW p \in Procs, NEW q \in Portal, StartPortals(p, q)
      PROVE  TypeOK'
  BY <1>3, ItemsType, BeginType DEF StartPortals
<1>4. ASSUME NEW p \in Procs, Finish(p) \/ Kill(p)
      PROVE  TypeOK'
  <2>1. ProcOK'
    BY <1>1, <1>4, NoProcessFine, BecomeType DEF Finish, Kill
  <2>2. WorldOK'
    BY <1>1, <1>4, BudgetType DEF Finish, Kill, WorldOK
  <2> QED  BY <2>1, <2>2, TypeParts
<1>5. ASSUME NEW p \in Procs, Read(p)
      PROVE  TypeOK'
  <2> DEFINE i == holds[NextFile(p)]
             r == [proc[p] EXCEPT !.got = Append(@, i)]
  <2>1. i \in Nat /\ Become(p, r)
    BY <1>5 DEF Read
  <2>2. ProcFine(r)
    BY <1>1, <2>1, AppendFields DEF ProcOK, ProcFine
  <2>3. ProcOK'
    BY <1>1, <2>1, <2>2, BecomeType
  <2>4. WorldOK'
    BY <1>1, <1>5 DEF Read, WorldOK
  <2> QED  BY <2>3, <2>4, TypeParts
<1>6. ASSUME NEW p \in Procs, Refuse(p) \/ WriteFails(p)
      PROVE  TypeOK'
  <2>1. proc[p].todo # <<>>
    BY <1>1, <1>6 DEF Refuse, WriteFails, Ready, Working, ProcOK
  <2>2. {Current(p)} \in SUBSET Item
    BY <1>1, <2>1, CurrentType
  <2>3. Become(p, NextItem(p, {Current(p)}))
    BY <1>6 DEF Refuse, WriteFails
  <2>4. ProcOK'
    BY <1>1, <2>1, <2>2, <2>3, NextItemFine, BecomeType
  <2>5. WorldOK'
    BY <1>1, <1>6, BudgetType DEF Refuse, WriteFails, WorldOK
  <2> QED  BY <2>4, <2>5, TypeParts
<1>7. ASSUME NEW p \in Procs, WriteXray(p)
      PROVE  TypeOK'
  <2>1. proc[p].todo # <<>> /\ Current(p) \in Item
    BY <1>1, <1>7, CurrentType DEF WriteXray, Ready, Working
  <2>2. ProcFine(IF proc[p].haproxy THEN [proc[p] EXCEPT !.pc = "haproxy"] ELSE NextItem(p, {}))
    BY <1>1, <2>1, NextItemFine, GotoFine
  <2>3. ProcOK'
    BY <1>1, <1>7, <2>2, BecomeWritingType DEF WriteXray
  <2>4. [topo |-> proc[p].snap, keys |-> proc[p].got] \in Config
    BY <1>1 DEF ProcOK, Process, Config
  <2>5. WorldOK'
    BY <1>1, <1>7, <2>1, <2>4 DEF WriteXray, WorldOK
  <2> QED  BY <2>3, <2>5, TypeParts
<1>8. ASSUME NEW p \in Procs, Truncate(p)
      PROVE  TypeOK'
  <2>1. proc[p].todo # <<>>
    BY <1>1, <1>8 DEF Truncate, AtHaproxy, Ready, Working, ProcOK
  <2>2. ProcOK'
    BY <1>1, <1>8, <2>1, GotoFine, BecomeWritingType DEF Truncate
  <2>3. WorldOK'
    BY <1>1, <1>8 DEF Truncate, WorldOK
  <2> QED  BY <2>2, <2>3, TypeParts
<1>9. ASSUME NEW p \in Procs, Fill(p)
      PROVE  TypeOK'
  <2>1. proc[p].todo # <<>>
    BY <1>1, <1>9 DEF Fill, ProcOK
  <2>2. ProcOK'
    BY <1>1, <1>9, <2>1, NextItemFine, BecomeWritingType DEF Fill
  <2>3. proc[p].snap \in Topology
    BY <1>1 DEF ProcOK, Process
  <2>4. WorldOK'
    BY <1>1, <1>9, <2>3 DEF Fill, WorldOK
  <2> QED  BY <2>2, <2>4, TypeParts
<1>10. ASSUME NEW t \in Topology, Edit(t)
       PROVE  TypeOK'
  <2>1. ProcOK'
    BY <1>1, <1>10, DisturbType DEF Edit
  <2>2. t.circles \in [Node -> SUBSET Node]
    BY TopologyAssumption DEF Meetings
  <2>3. met' \in [Node -> SUBSET Node]
    BY <1>1, <1>10, <2>2 DEF Edit, Meet, WorldOK
  <2>4. WorldOK'
    BY <1>1, <1>10, <2>3, BudgetType DEF Edit, Meet, WorldOK
  <2> QED  BY <2>1, <2>4, TypeParts
<1>11. ASSUME NEW n \in Node, Grant(n), UNCHANGED <<proc, topo, out, front, spent>>
       PROVE  TypeOK'
  BY <1>1, <1>11, TypeParts DEF Grant, WorldOK, ProcOK
<1>12. ASSUME NEW n \in Node, NEW i \in DOMAIN granted, Install(n, i), Disturb,
              UNCHANGED <<topo, out, front, spent>>
       PROVE  TypeOK'
  <2>1. ProcOK'
    BY <1>1, <1>12, DisturbType
  <2>2. i \in Nat
    BY <1>1 DEF WorldOK
  <2>3. granted' \in Seq(SUBSET Node)
    <3> DEFINE more == granted[i] \cup {n}
    <3>1. granted' = [granted EXCEPT ![i] = more]
      BY <1>12 DEF Install
    <3>2. granted \in [1 .. Len(granted) -> SUBSET Node] /\ Len(granted) \in Nat /\ more \in SUBSET Node
      BY <1>1 DEF WorldOK
    <3> HIDE DEF more
    <3>3. granted' \in [1 .. Len(granted) -> SUBSET Node]
      BY ONLY <3>1, <3>2
    <3> QED  BY ONLY <3>2, <3>3
  <2>4. WorldOK'
    BY <1>1, <1>12, <2>2, <2>3 DEF Install, WorldOK
  <2> QED  BY <2>1, <2>4, TypeParts
<1>13. ASSUME NEW n \in Node, Damage(n)
       PROVE  TypeOK'
  <2>1. ProcOK'
    BY <1>1, <1>13, DisturbType DEF Damage
  <2>2. WorldOK'
    BY <1>1, <1>13, BudgetType DEF Damage, Spoil, WorldOK
  <2> QED  BY <2>1, <2>2, TypeParts
<1>14. CASE UNCHANGED vars
  BY <1>1, <1>14, TypeParts DEF vars, WorldOK, ProcOK
<1> QED
  BY <1>2, <1>3, <1>4, <1>5, <1>6, <1>7, <1>8, <1>9, <1>10, <1>11, <1>12, <1>13, <1>14
  DEF Next, Step, GenKeys

\* Types are kept, with any number of processes and nodes: no command, kill,
\* write error, rotation or edit brings a process or a file to a state the code
\* has no step for (components/render).
THEOREM TypeCorrect == Spec => []TypeOK
BY InitType, NextType, PTL DEF Spec

-----------------------------------------------------------------------------
(* haproxy.cfg.                                                            *)

\* The processes other than those in S that are writing a haproxy.cfg go on.
WritersStay(S) ==
    \A q \in Procs \ S : proc[q].pc = "fill" => proc'[q].pc = "fill" /\ proc'[q].todo = proc[q].todo

LEMMA WritersStayLemma ==
    ASSUME ProcOK, NEW p \in Procs, NEW r
    PROVE  /\ Become(p, r) => WritersStay({p})
           /\ BecomeWriting(p, r) => WritersStay({p}) /\ proc'[p] = r
           /\ Disturb => WritersStay({})
<1>1. Become(p, r) => WritersStay({p})
  BY DEF Become, ProcOK, WritersStay
<1>2. ASSUME BecomeWriting(p, r)
      PROVE  WritersStay({p}) /\ proc'[p] = r
  <2>1. ASSUME NEW q \in Procs, q # p
        PROVE  proc'[q].pc = proc[q].pc /\ proc'[q].todo = proc[q].todo
    BY <1>2, <2>1, NotQuiet DEF BecomeWriting, ProcOK
  <2> QED  BY <1>2, <2>1 DEF BecomeWriting, WritersStay
<1>3. ASSUME Disturb
      PROVE  WritersStay({})
  BY <1>3, NotQuiet DEF Disturb, ProcOK, WritersStay
<1> QED  BY <1>1, <1>2, <1>3

\* A step of a process that was not writing haproxy.cfg, or of none, tears no file.
LEMMA Untorn ==
    ASSUME TypeOK, TypeOK', TornOnlyByErrors, front' = front, spent'.errors = spent.errors,
           \/ WritersStay({})
           \/ \E p \in Procs : WritersStay({p}) /\ proc[p].pc # "fill"
    PROVE  TornOnlyByErrors'
BY DEF TornOnlyByErrors, WritersStay

\* A counted incident excuses every torn file.
LEMMA Excused ==
    ASSUME TypeOK, spent' = [spent EXCEPT !.errors = @ + 1]
    PROVE  TornOnlyByErrors'
<1>1. spent.errors \in Nat /\ spent'.errors = spent.errors + 1
  BY DEF TypeOK, Budget
<1> QED  BY <1>1 DEF TornOnlyByErrors

\* TornOnlyByErrors is inductive with the types: Truncate is the only step that
\* tears a file, and its process leaves "fill" by Fill, by a counted write error
\* or by a counted kill.
LEMMA TornStep == TypeOK /\ TornOnlyByErrors /\ [Next]_vars => TornOnlyByErrors'
<1> SUFFICES ASSUME TypeOK, TornOnlyByErrors, [Next]_vars PROVE TornOnlyByErrors'
  OBVIOUS
<1>1. TypeOK' /\ ProcOK /\ WorldOK
  BY NextType, TypeParts
<1>2. ASSUME NEW p \in Procs, NEW items, NEW x, NEW h, Begin(p, items, x, h)
      PROVE  TornOnlyByErrors'
  <2>1. WritersStay({p}) /\ proc[p].pc # "fill" /\ front' = front
    BY <1>1, <1>2, WritersStayLemma DEF Begin
  <2>2. spent'.errors = spent.errors
    BY <1>2, <1>1 DEF Begin, WorldOK, Budget
  <2> QED  BY <1>1, <2>1, <2>2, Untorn
<1>3. ASSUME NEW p \in Procs, Finish(p) \/ Read(p) \/ Refuse(p) \/ WriteXray(p)
      PROVE  TornOnlyByErrors'
  <2>1. proc[p].pc # "fill" /\ front' = front /\ spent' = spent
    BY <1>3 DEF Finish, Read, Refuse, WriteXray, Ready, Working
  <2>2. WritersStay({p})
    BY <1>1, <1>3, WritersStayLemma DEF Finish, Read, Refuse, WriteXray
  <2> QED  BY <1>1, <2>1, <2>2, Untorn
<1>4. ASSUME NEW p \in Procs, Kill(p) \/ WriteFails(p)
      PROVE  TornOnlyByErrors'
  BY <1>4, Excused DEF Kill, WriteFails
<1>5. ASSUME NEW p \in Procs, Truncate(p)
      PROVE  TornOnlyByErrors'
  <2>1. proc[p].pc # "fill" /\ proc[p] \in Process
    BY <1>1, <1>5 DEF Truncate, AtHaproxy, Ready, Working, ProcOK
  <2>2. WritersStay({p}) /\ proc'[p] = [proc[p] EXCEPT !.pc = "fill"]
    BY <1>1, <1>5, WritersStayLemma DEF Truncate
  <2>3. proc'[p].pc = "fill" /\ Head(proc'[p].todo) = Current(p)
    BY <2>1, <2>2, GotoFields
  <2>4. \A i \in Item : front'[i] = Torn => i = Current(p) \/ front[i] = Torn
    BY <1>1, <1>5 DEF Truncate, WorldOK
  <2>5. spent' = spent
    BY <1>5 DEF Truncate
  <2> QED  BY <2>1, <2>2, <2>3, <2>4, <2>5 DEF TornOnlyByErrors, WritersStay
<1>6. ASSUME NEW p \in Procs, Fill(p)
      PROVE  TornOnlyByErrors'
  <2>1. proc[p].snap # Torn
    BY <1>1, MarkAssumption DEF ProcOK, Process
  <2>2. \A i \in Item : front'[i] = Torn => i # Current(p) /\ front[i] = Torn
    BY <1>1, <1>6, <2>1 DEF Fill, WorldOK
  <2>3. WritersStay({p}) /\ spent' = spent
    BY <1>1, <1>6, WritersStayLemma DEF Fill
  <2> QED  BY <2>2, <2>3 DEF TornOnlyByErrors, WritersStay
<1>7. ASSUME Disturb, front' = front, spent'.errors = spent.errors
      PROVE  TornOnlyByErrors'
  <2>1. WritersStay({})
    BY <1>1, <1>7, NotQuiet DEF Disturb, ProcOK, WritersStay
  <2> QED  BY <1>1, <1>7, <2>1, Untorn
<1>8. ASSUME NEW t \in Topology, Edit(t)
      PROVE  TornOnlyByErrors'
  BY <1>1, <1>7, <1>8 DEF Edit, WorldOK, Budget
<1>9. ASSUME NEW n \in Node, Damage(n)
      PROVE  TornOnlyByErrors'
  BY <1>1, <1>7, <1>9 DEF Damage, WorldOK, Budget
<1>10. ASSUME NEW n \in Node, GenKeys(n)
       PROVE  TornOnlyByErrors'
  <2>1. CASE UNCHANGED proc
    BY <1>10, <2>1 DEF GenKeys, TornOnlyByErrors
  <2>2. CASE Disturb
    BY <1>7, <1>10, <2>2 DEF GenKeys
  <2> QED  BY <1>10, <2>1, <2>2 DEF GenKeys
<1>11. CASE UNCHANGED vars
  BY <1>11 DEF vars, TornOnlyByErrors
<1> QED
  BY <1>2, <1>3, <1>4, <1>5, <1>6, <1>8, <1>9, <1>10, <1>11 DEF Next, Step, StartBuild, StartPortals

\* However many builds run at once: a haproxy.cfg is incomplete only while a
\* process writes it or after a kill or write error (render/controller.py, build).
THEOREM TornExcused == Spec => []TornOnlyByErrors
<1>1. Init => TornOnlyByErrors
  BY MarkAssumption DEF Init, TornOnlyByErrors
<1> QED  BY <1>1, InitType, NextType, TornStep, PTL DEF Spec

-----------------------------------------------------------------------------
(* The keys in the configurations.                                         *)

\* Every key file holds a pair of its node,
DirectoryGranted == \A n \in Node : holds[n] \in Nat => GrantedTo(granted, holds[n], n)
\* what a process read so far are pairs of the nodes it read them for,
ReadInOrder(r, g) ==
    r.todo # <<>> =>
        LET needs == Needs(r.snap, Head(r.todo))
        IN  /\ Len(r.got) <= Len(needs)
            /\ \A k \in 1..Len(r.got) : GrantedTo(g, r.got[k], needs[k])
ReadGranted == \A p \in Procs : ReadInOrder(proc[p], granted)
\* and so is what it wrote.
GrantedInv == TypeOK /\ DirectoryGranted /\ ReadGranted /\ EmbeddedAreGranted

\* A pair stays granted to whom it was granted.
GrantsStay == \A i, n : GrantedTo(granted, i, n) => GrantedTo(granted', i, n)

LEMMA GrantStays ==
    ASSUME TypeOK,
           \/ granted' = granted
           \/ \E n \in Node : Grant(n) \/ \E i \in DOMAIN granted : Install(n, i)
    PROVE  GrantsStay
<1>1. granted \in Seq(SUBSET Node)
  BY DEF TypeOK
<1>2. ASSUME NEW n \in Node, Grant(n) PROVE GrantsStay
  BY <1>1, <1>2 DEF GrantsStay, GrantedTo, Grant
<1>3. ASSUME NEW n \in Node, NEW i \in DOMAIN granted, Install(n, i) PROVE GrantsStay
  <2>1. granted' = [granted EXCEPT ![i] = granted[i] \cup {n}]
    BY <1>3 DEF Install
  <2>2. DOMAIN granted' = DOMAIN granted /\ \A j \in DOMAIN granted : granted[j] \subseteq granted'[j]
    BY <1>1, <2>1
  <2> QED  BY <2>2 DEF GrantsStay, GrantedTo
<1> QED  BY <1>2, <1>3 DEF GrantsStay

\* Nothing read: nothing claimed.
LEMMA NothingRead ==
    ASSUME NEW r \in Process, r.got = <<>>
    PROVE  ReadInOrder(r, granted')
<1> SUFFICES ASSUME r.todo # <<>> PROVE 0 <= Len(Needs(r.snap, Head(r.todo)))
  BY DEF ReadInOrder
<1>1. Head(r.todo) \in Item /\ r.snap \in Topology
  BY DEF Process
<1> QED  BY <1>1, NeedsType

\* Of a process that read nothing more.
LEMMA ReadStays ==
    ASSUME NEW r \in Process, NEW s, ReadInOrder(r, granted), GrantsStay,
           s.todo = r.todo, s.got = r.got, s.snap = r.snap
    PROVE  ReadInOrder(s, granted')
BY DEF ReadInOrder, GrantsStay
LEMMA BecomeRead ==
    ASSUME ProcOK, ReadGranted, GrantsStay, NEW p \in Procs, NEW r, ReadInOrder(r, granted'),
           Become(p, r) \/ BecomeWriting(p, r)
    PROVE  ReadGranted'
<1>1. ASSUME NEW q \in Procs
      PROVE  ReadInOrder(proc'[q], granted')
  <2>1. CASE q = p
    BY <2>1 DEF Become, BecomeWriting, ProcOK
  <2>2. CASE q # p
    <3>1. proc[q] \in Process /\ ReadInOrder(proc[q], granted)
      BY DEF ProcOK, ReadGranted
    <3>2. proc'[q].todo = proc[q].todo /\ proc'[q].got = proc[q].got /\ proc'[q].snap = proc[q].snap
      <4>1. CASE Become(p, r)
        BY <2>2, <4>1 DEF Become, ProcOK
      <4>2. CASE BecomeWriting(p, r)
        <5>1. proc'[q] = [proc[q] EXCEPT !.quiet = FALSE]
          BY <2>2, <4>2 DEF BecomeWriting
        <5> QED  BY <3>1, <5>1, NotQuiet
      <4> QED  BY <4>1, <4>2
    <3> QED  BY <3>1, <3>2, ReadStays
  <2> QED  BY <2>1, <2>2
<1> QED  BY <1>1 DEF ReadGranted

LEMMA DisturbRead ==
    ASSUME ProcOK, ReadGranted, GrantsStay, Disturb \/ UNCHANGED proc
    PROVE  ReadGranted'
<1>1. ASSUME NEW q \in Procs
      PROVE  ReadInOrder(proc'[q], granted')
  <2>1. proc[q] \in Process /\ ReadInOrder(proc[q], granted)
    BY DEF ProcOK, ReadGranted
  <2>2. proc'[q].todo = proc[q].todo /\ proc'[q].got = proc[q].got /\ proc'[q].snap = proc[q].snap
    BY <2>1, NotQuiet DEF Disturb, ProcOK
  <2> QED  BY <2>1, <2>2, ReadStays
<1> QED  BY <1>1 DEF ReadGranted

\* What was written stays granted, and the directory, if no file changes.
LEMMA WrittenStays ==
    ASSUME GrantedInv, GrantsStay
    PROVE  /\ out' = out => EmbeddedAreGranted'
           /\ holds' = holds => DirectoryGranted'
<1>1. out' = out => EmbeddedAreGranted'
  <2>1. ASSUME out' = out, NEW i \in Item, out[i] # NoConfig
        PROVE  LET needs == Needs(out[i].topo, i)
               IN  Len(out[i].keys) = Len(needs) /\ \A k \in DOMAIN needs : GrantedTo(granted', out[i].keys[k], needs[k])
    BY <2>1 DEF GrantedInv, EmbeddedAreGranted, GrantsStay
  <2> QED  BY <2>1 DEF EmbeddedAreGranted
<1>2. holds' = holds => DirectoryGranted'
  BY DEF GrantedInv, DirectoryGranted, GrantsStay
<1> QED  BY <1>1, <1>2

\* GrantedInv is inductive.  The step that matters is Read: the pair read is the
\* directory's, so of the node read; WriteXray only copies what was read.
LEMMA GrantedStep == GrantedInv /\ [Next]_vars => GrantedInv'
<1> SUFFICES ASSUME GrantedInv, [Next]_vars PROVE GrantedInv'
  OBVIOUS
<1>1. TypeOK /\ TypeOK' /\ ProcOK /\ WorldOK
  BY NextType, TypeParts DEF GrantedInv
<1>2. DirectoryGranted /\ ReadGranted /\ EmbeddedAreGranted
  BY DEF GrantedInv
<1>3. ASSUME NEW p \in Procs, NEW items, NEW x, NEW h, Begin(p, items, x, h)
      PROVE  GrantedInv'
  <2>1. GrantsStay /\ out' = out /\ holds' = holds
    BY <1>1, <1>3, GrantStays DEF Begin
  <2>2. PICK r : Become(p, r) /\ r.got = <<>>
    BY <1>3 DEF Begin
  <2>3. r \in Process
    BY <1>1, <2>2 DEF Become, ProcOK, TypeOK
  <2>4. ReadGranted'
    BY <1>1, <1>2, <2>1, <2>2, <2>3, NothingRead, BecomeRead
  <2> QED  BY <1>1, <2>1, <2>4, WrittenStays DEF GrantedInv
<1>4. ASSUME NEW p \in Procs, Finish(p) \/ Kill(p)
      PROVE  GrantedInv'
  <2>1. GrantsStay /\ out' = out /\ holds' = holds
    BY <1>1, <1>4, GrantStays DEF Finish, Kill
  <2>2. ReadInOrder(NoProcess, granted')
    BY NoProcessFine, NothingRead DEF ProcFine, NoProcess
  <2>3. ReadGranted'
    BY <1>1, <1>2, <1>4, <2>1, <2>2, BecomeRead DEF Finish, Kill
  <2> QED  BY <1>1, <2>1, <2>3, WrittenStays DEF GrantedInv
<1>5. ASSUME NEW p \in Procs, Read(p)
      PROVE  GrantedInv'
  <2> DEFINE r == proc[p]
             needs == Needs(r.snap, Current(p))
             n == NextFile(p)
             s == [r EXCEPT !.got = Append(@, holds[n])]
  <2>1. GrantsStay /\ out' = out /\ holds' = holds
    BY <1>1, <1>5, GrantStays DEF Read
  <2>2. r \in Process /\ r.todo # <<>> /\ ReadInOrder(r, granted)
    BY <1>1, <1>2, <1>5 DEF Read, Working, ProcOK, ReadGranted
  <2>3. needs \in Seq(Node)
    BY <1>1, <2>2, CurrentType, NeedsType DEF Process
  <2>4. Len(r.got) + 1 \in 1..Len(needs) /\ n = needs[Len(r.got) + 1]
    <3>1. Len(r.got) <= Len(needs) /\ Len(r.got) # Len(needs)
      BY <1>5, <2>2 DEF Read, Complete, ReadInOrder
    <3>2. Len(r.got) \in Nat /\ Len(needs) \in Nat
      BY <2>2, <2>3 DEF Process
    <3> QED  BY <3>1, <3>2 DEF NextFile
  <2>5. holds[n] \in Nat /\ GrantedTo(granted, holds[n], n)
    BY <1>2, <1>5, <2>3, <2>4 DEF Read, DirectoryGranted
  <2>6. s.got = Append(r.got, holds[n]) /\ s.todo = r.todo /\ s.snap = r.snap
    BY <2>2, <2>5, AppendFields
  <2>7. ASSUME NEW k \in 1..Len(s.got)
        PROVE  GrantedTo(granted', s.got[k], needs[k])
    <3>1. r.got \in Seq(Nat)
      BY <2>2 DEF Process
    <3>2. CASE k = Len(r.got) + 1
      <4>1. s.got[k] = holds[n] /\ needs[k] = n
        BY <2>4, <2>6, <3>1, <3>2
      <4> QED  BY <2>1, <2>5, <4>1 DEF GrantsStay
    <3>3. CASE k # Len(r.got) + 1
      <4>1. k \in 1..Len(r.got) /\ s.got[k] = r.got[k]
        BY <2>5, <2>6, <3>1, <3>3
      <4>2. GrantedTo(granted, r.got[k], needs[k])
        BY <2>2, <4>1 DEF ReadInOrder
      <4> QED  BY <2>1, <4>1, <4>2 DEF GrantsStay
    <3> QED  BY <3>2, <3>3
  <2>8. Len(s.got) <= Len(needs)
    <3>1. Len(s.got) = Len(r.got) + 1
      BY <2>2, <2>5, <2>6 DEF Process
    <3>2. Len(needs) \in Nat
      BY <2>3
    <3> HIDE DEF needs, s
    <3> QED  BY <2>4, <3>1, <3>2
  <2>9. ReadInOrder(s, granted')
    BY <2>6, <2>7, <2>8 DEF ReadInOrder
  <2>10. ReadGranted'
    BY <1>1, <1>2, <1>5, <2>1, <2>9, BecomeRead DEF Read
  <2> QED  BY <1>1, <2>1, <2>10, WrittenStays DEF GrantedInv
<1>6. ASSUME NEW p \in Procs, NEW bad \in SUBSET Item, proc[p].todo # <<>>
      PROVE  ReadInOrder(NextItem(p, bad), granted')
  BY <1>1, <1>6, NextItemFields, NothingRead DEF ProcOK
<1>7. ASSUME NEW p \in Procs, Refuse(p) \/ WriteFails(p)
      PROVE  GrantedInv'
  <2>1. GrantsStay /\ out' = out /\ holds' = holds
    BY <1>1, <1>7, GrantStays DEF Refuse, WriteFails
  <2>2. proc[p].todo # <<>>
    BY <1>1, <1>7 DEF Refuse, WriteFails, Ready, Working, ProcOK
  <2>3. {Current(p)} \in SUBSET Item
    BY <1>1, <2>2, CurrentType
  <2>4. ReadGranted'
    BY <1>1, <1>2, <1>6, <1>7, <2>1, <2>2, <2>3, BecomeRead DEF Refuse, WriteFails
  <2> QED  BY <1>1, <2>1, <2>4, WrittenStays DEF GrantedInv
<1>8. ASSUME NEW p \in Procs, proc[p].todo # <<>>, NEW l \in {"haproxy", "fill"}, GrantsStay
      PROVE  ReadInOrder([proc[p] EXCEPT !.pc = l], granted')
  <2>1. proc[p] \in Process /\ ReadInOrder(proc[p], granted)
    BY <1>1, <1>2 DEF ProcOK, ReadGranted
  <2> QED  BY <1>8, <2>1, GotoFields, ReadStays
<1>9. ASSUME NEW p \in Procs, WriteXray(p)
      PROVE  GrantedInv'
  <2> DEFINE r == proc[p]
             i == Current(p)
             needs == Needs(r.snap, i)
  <2>1. GrantsStay /\ holds' = holds
    BY <1>1, <1>9, GrantStays DEF WriteXray
  <2>2. r \in Process /\ r.todo # <<>> /\ ReadInOrder(r, granted) /\ i \in Item
    BY <1>1, <1>2, <1>9, CurrentType DEF WriteXray, Ready, Working, ProcOK, ReadGranted
  <2>3. needs \in Seq(Node) /\ Len(r.got) = Len(needs)
    BY <1>9, <2>2, NeedsType DEF WriteXray, Ready, Complete, Process
  <2>4. \A k \in DOMAIN needs : GrantedTo(granted, r.got[k], needs[k])
    BY <2>2, <2>3 DEF ReadInOrder
  <2>5. out' = [out EXCEPT ![i] = [topo |-> r.snap, keys |-> r.got]]
    BY <1>9 DEF WriteXray
  <2>6. EmbeddedAreGranted'
    <3>1. ASSUME NEW j \in Item, out'[j] # NoConfig
          PROVE  LET nd == Needs(out'[j].topo, j)
                 IN  Len(out'[j].keys) = Len(nd) /\ \A k \in DOMAIN nd : GrantedTo(granted', out'[j].keys[k], nd[k])
      <4>1. CASE j = i
        <5>1. out'[j] = [topo |-> r.snap, keys |-> r.got]
          BY <1>1, <2>2, <2>5, <4>1 DEF WorldOK
        <5> QED  BY <2>1, <2>3, <2>4, <4>1, <5>1 DEF GrantsStay
      <4>2. CASE j # i
        <5>1. out'[j] = out[j]
          BY <1>1, <2>5, <4>2 DEF WorldOK
        <5> QED  BY <1>2, <2>1, <3>1, <5>1 DEF GrantsStay, EmbeddedAreGranted
      <4> QED  BY <4>1, <4>2
    <3> QED  BY <3>1 DEF EmbeddedAreGranted
  <2>7. ReadGranted'
    <3>1. ReadInOrder(IF r.haproxy THEN [r EXCEPT !.pc = "haproxy"] ELSE NextItem(p, {}), granted')
      BY <1>6, <1>8, <2>1, <2>2
    <3> QED  BY <1>1, <1>2, <1>9, <2>1, <3>1, BecomeRead DEF WriteXray
  <2> QED  BY <1>1, <2>1, <2>6, <2>7, WrittenStays DEF GrantedInv
<1>10. ASSUME NEW p \in Procs, Truncate(p) \/ Fill(p)
       PROVE  GrantedInv'
  <2>1. GrantsStay /\ out' = out /\ holds' = holds
    BY <1>1, <1>10, GrantStays DEF Truncate, Fill
  <2>2. proc[p].todo # <<>>
    BY <1>1, <1>10 DEF Truncate, Fill, AtHaproxy, Ready, Working, ProcOK
  <2>3. ReadGranted'
    BY <1>1, <1>2, <1>6, <1>8, <1>10, <2>1, <2>2, BecomeRead DEF Truncate, Fill
  <2> QED  BY <1>1, <2>1, <2>3, WrittenStays DEF GrantedInv
<1>11. ASSUME NEW t \in Topology, Edit(t)
       PROVE  GrantedInv'
  <2>1. GrantsStay /\ out' = out /\ holds' = holds
    BY <1>1, <1>11, GrantStays DEF Edit, Meet
  <2> QED  BY <1>1, <1>2, <1>11, <2>1, DisturbRead, WrittenStays DEF Edit, GrantedInv
<1>12. ASSUME NEW n \in Node, Grant(n), UNCHANGED <<proc, topo, out, front, spent>>
       PROVE  GrantedInv'
  <2>1. GrantsStay /\ out' = out /\ holds' = holds
    BY <1>1, <1>12, GrantStays DEF Grant
  <2> QED  BY <1>1, <1>2, <1>12, <2>1, DisturbRead, WrittenStays DEF GrantedInv
<1>13. ASSUME NEW n \in Node, NEW i \in DOMAIN granted, Install(n, i), Disturb,
              UNCHANGED <<topo, out, front, spent>>
       PROVE  GrantedInv'
  <2>1. GrantsStay /\ out' = out
    BY <1>1, <1>13, GrantStays
  <2>2. DirectoryGranted'
    <3>1. GrantedTo(granted', i, n)
      BY <1>1, <1>13 DEF Install, GrantedTo, WorldOK
    <3> QED  BY <1>1, <1>2, <1>13, <2>1, <3>1 DEF Install, DirectoryGranted, GrantsStay, WorldOK
  <2> QED  BY <1>1, <1>2, <1>13, <2>1, <2>2, DisturbRead, WrittenStays DEF GrantedInv
<1>14. ASSUME NEW n \in Node, Damage(n)
       PROVE  GrantedInv'
  <2>1. GrantsStay /\ out' = out
    BY <1>1, <1>14, GrantStays DEF Damage, Spoil
  <2>2. DirectoryGranted'
    BY <1>1, <1>2, <1>14, <2>1, MarkAssumption DEF Damage, Spoil, DirectoryGranted, GrantsStay, WorldOK
  <2> QED  BY <1>1, <1>2, <1>14, <2>1, <2>2, DisturbRead, WrittenStays DEF Damage, GrantedInv
<1>15. CASE UNCHANGED vars
  <2>1. GrantsStay /\ out' = out /\ holds' = holds
    BY <1>1, <1>15, GrantStays DEF vars
  <2> QED  BY <1>1, <1>2, <1>15, <2>1, DisturbRead, WrittenStays DEF GrantedInv, vars
<1> QED
  BY <1>3, <1>4, <1>5, <1>7, <1>9, <1>10, <1>11, <1>12, <1>13, <1>14, <1>15
  DEF Next, Step, GenKeys, StartBuild, StartPortals

LEMMA GrantedInit == Init => GrantedInv
<1> SUFFICES ASSUME Init PROVE GrantedInv
  OBVIOUS
<1>1. TypeOK
  BY InitType
<1>2. DirectoryGranted
  BY KeysAssumption DEF Init, DirectoryGranted, GrantedTo
<1>3. ReadGranted
  BY DEF Init, NoProcess, ReadGranted, ReadInOrder
<1> QED  BY <1>1, <1>2, <1>3 DEF Init, GrantedInv, EmbeddedAreGranted

\* No configuration is ever built from keys that are another node's, from too few
\* or too many of them, or from keys nobody generated, whatever happens to the
\* key files while it is built (render/controller.py, _build_context).
THEOREM EmbeddedSafe == Spec => []EmbeddedAreGranted
<1>1. GrantedInv => EmbeddedAreGranted
  BY DEF GrantedInv
<1> QED  BY <1>1, GrantedInit, GrantedStep, PTL DEF Spec

-----------------------------------------------------------------------------
(* What an undisturbed command settles.                                    *)

\* Item i is as the command p would have it.
Settled(p, i) ==
    /\ Buildable(i)
    /\ proc[p].xray => out[i] = Fresh(i)
    /\ proc[p].haproxy => front[i] = topo

\* The pairs p read are still those of the key files,
ReadIsCurrent(p) ==
    proc[p].todo # <<>> =>
        \A k \in 1..Len(proc[p].got) : proc[p].got[k] = holds[Needs(proc[p].snap, Current(p))[k]]
\* the item it is writing is half settled,
HalfSettled(p) ==
    proc[p].pc \in {"haproxy", "fill"} =>
        Buildable(Current(p)) /\ (proc[p].xray => out[Current(p)] = Fresh(Current(p)))
\* and every item of the command is ahead, settled, or failed for a reason.
Accounted(p) ==
    /\ ToSet(proc[p].todo) \cup proc[p].failed \subseteq proc[p].asked
    /\ \A i \in proc[p].asked \ proc[p].failed : i \in ToSet(proc[p].todo) \/ Settled(p, i)
    /\ spent.errors = 0 => \A i \in proc[p].failed : ~Buildable(i)
QuietOK(p) ==
    proc[p].quiet => proc[p].snap = topo /\ ReadIsCurrent(p) /\ HalfSettled(p) /\ Accounted(p)
QuietInv == GrantedInv /\ \A p \in Procs : QuietOK(p)

\* What an item comes from does not change but by topology and key files.
LEMMA SourcesStay ==
    ASSUME topo' = topo, holds' = holds, NEW i
    PROVE  (Buildable(i)' <=> Buildable(i)) /\ Fresh(i)' = Fresh(i)
BY DEF Buildable, Fresh

\* The current item and the others.
LEMMA ToSetTail ==
    ASSUME NEW s \in Seq(Item), s # <<>>
    PROVE  ToSet(s) = {Head(s)} \cup ToSet(Tail(s))
<1>1. ToSet(s) \subseteq {Head(s)} \cup ToSet(Tail(s))
  <2>1. ASSUME NEW k \in 1..Len(s), k # 1
        PROVE  k - 1 \in 1..Len(Tail(s)) /\ Tail(s)[k - 1] = s[k]
    BY <2>1
  <2>2. ASSUME NEW k \in 1..Len(s)
        PROVE  s[k] = Head(s) \/ \E m \in 1..Len(Tail(s)) : Tail(s)[m] = s[k]
    <3>1. CASE k = 1
      BY <3>1
    <3>2. CASE k # 1
      BY <2>1, <3>2
    <3> QED  BY <3>1, <3>2
  <2>3. \A x \in ToSet(s) : \E k \in 1..Len(s) : x = s[k]
    BY DEF ToSet
  <2>4. \A m \in 1..Len(Tail(s)) : Tail(s)[m] \in ToSet(Tail(s))
    <3>1. Tail(s) \in Seq(Item)
      OBVIOUS
    <3>2. ASSUME NEW u \in Seq(Item), NEW m \in 1..Len(u)
          PROVE  u[m] \in ToSet(u)
      BY DEF ToSet
    <3> QED  BY <3>1, <3>2
  <2> QED  BY <2>2, <2>3, <2>4
<1>2. \A k \in 1..Len(Tail(s)) : k + 1 \in 1..Len(s) /\ Tail(s)[k] = s[k + 1]
  OBVIOUS
<1>3. ToSet(Tail(s)) \subseteq ToSet(s)
  BY <1>2 DEF ToSet
<1>4. Head(s) \in ToSet(s)
  BY DEF ToSet
<1> QED  BY <1>1, <1>3, <1>4

\* For a process that a step leaves alone, and whose files it leaves alone.
LEMMA QuietStays ==
    ASSUME NEW p \in Procs, QuietOK(p), proc'[p] = proc[p], UNCHANGED <<topo, holds, out, front>>,
           spent'.errors = 0 => spent.errors = 0
    PROVE  QuietOK(p)'
<1>1. \A i : (Buildable(i)' <=> Buildable(i)) /\ Fresh(i)' = Fresh(i)
  BY SourcesStay
<1>2. HalfSettled(p) => HalfSettled(p)'
  BY <1>1 DEF HalfSettled
<1>3. Accounted(p) => Accounted(p)'
  BY <1>1 DEF Accounted, Settled
<1>4. ReadIsCurrent(p) => ReadIsCurrent(p)'
  BY DEF ReadIsCurrent
<1> QED  BY <1>2, <1>3, <1>4 DEF QuietOK

\* The others, when p writes nothing or writes.
LEMMA OthersQuiet ==
    ASSUME ProcOK, NEW p \in Procs, NEW r, NEW q \in Procs, q # p, QuietOK(q), UNCHANGED <<topo, holds>>,
           spent'.errors = 0 => spent.errors = 0,
           (Become(p, r) /\ UNCHANGED <<out, front>>) \/ BecomeWriting(p, r)
    PROVE  QuietOK(q)'
<1>1. CASE Become(p, r) /\ UNCHANGED <<out, front>>
  BY <1>1, QuietStays DEF Become, ProcOK
<1>2. CASE BecomeWriting(p, r)
  BY <1>2, NotQuiet DEF BecomeWriting, ProcOK, QuietOK
<1> QED  BY <1>1, <1>2

\* When everything is read and the configuration derived, the item is buildable
\* and its configuration is the fresh one.
LEMMA ReadyIsFresh ==
    ASSUME TypeOK, NEW p \in Procs, Ready(p), QuietOK(p), proc[p].quiet
    PROVE  /\ Buildable(Current(p))
           /\ [topo |-> proc[p].snap, keys |-> proc[p].got] = Fresh(Current(p))
<1> DEFINE r == proc[p]
           i == Current(p)
           needs == Needs(topo, i)
<1>1. r \in Process /\ i \in Item /\ r.todo # <<>> /\ topo \in Topology
  BY TypeParts, CurrentType DEF Ready, Working, ProcOK, TypeOK
<1>2. r.snap = topo /\ Len(r.got) = Len(needs) /\ (i \in Portal => i \in ToSet(topo.portals))
      /\ i \notin topo.broken
  BY DEF QuietOK, Ready, Complete, Known
<1>3. needs \in Seq(Node) /\ r.got \in Seq(Nat)
  BY <1>1, NeedsType DEF Process
<1>4. \A k \in DOMAIN needs : r.got[k] = holds[needs[k]] /\ r.got[k] \in Nat
  BY <1>1, <1>2, <1>3 DEF QuietOK, ReadIsCurrent
<1>5. r.got = [k \in DOMAIN needs |-> holds[needs[k]]]
  <2>1. r.got = [k \in DOMAIN r.got |-> r.got[k]] /\ DOMAIN r.got = DOMAIN needs
    BY <1>2, <1>3
  <2> QED  BY <1>4, <2>1
<1>6. Buildable(i)
  BY <1>2, <1>4 DEF Buildable
<1> QED  BY <1>2, <1>5, <1>6 DEF Fresh

\* On to the next item.
LEMMA ItemDone ==
    ASSUME ProcOK, NEW p \in Procs, proc[p].todo # <<>>, NEW bad \in SUBSET {Current(p)},
           QuietOK(p), proc[p].quiet, proc'[p] = NextItem(p, bad), UNCHANGED <<topo, holds>>,
           \A j \in Item \ {Current(p)} : out'[j] = out[j] /\ front'[j] = front[j],
           Current(p) \notin bad =>
               /\ Buildable(Current(p))
               /\ proc[p].xray => out'[Current(p)] = Fresh(Current(p))
               /\ proc[p].haproxy => front'[Current(p)] = topo,
           spent'.errors = 0 => spent.errors = 0 /\ (Current(p) \in bad => ~Buildable(Current(p)))
    PROVE  QuietOK(p)'
<1> DEFINE r == proc[p]
           s == proc'[p]
           c == Current(p)
<1>1. r \in Process /\ c \in Item /\ bad \in SUBSET Item
  BY CurrentType DEF ProcOK
<1>2. /\ s.pc = "item" /\ s.todo = Tail(r.todo) /\ s.got = <<>>
      /\ s.snap = r.snap /\ s.failed = r.failed \cup bad
      /\ s.asked = r.asked /\ s.quiet = r.quiet
      /\ s.xray = r.xray /\ s.haproxy = r.haproxy
  <2>1. proc[p] \in Process /\ proc[p].todo # <<>>
    BY <1>1
  <2>2. s = NextItem(p, bad)
    OBVIOUS
  <2> HIDE DEF s
  <2> QED  BY <1>1, <2>1, <2>2, NextItemFields
<1>3. ToSet(r.todo) = {c} \cup ToSet(s.todo)
  BY <1>1, <1>2, ToSetTail DEF Process
<1>4. \A i : (Buildable(i)' <=> Buildable(i)) /\ Fresh(i)' = Fresh(i)
  BY SourcesStay
<1>5. s.snap = topo' /\ Accounted(p)
  BY <1>2 DEF QuietOK
<1>6. ReadIsCurrent(p)' /\ HalfSettled(p)'
  BY <1>2 DEF ReadIsCurrent, HalfSettled
<1>7. Accounted(p)'
  <2>1. ToSet(s.todo) \cup s.failed \subseteq s.asked
    BY <1>2, <1>3, <1>5 DEF Accounted
  <2>2. ASSUME NEW i \in s.asked \ s.failed, i \notin ToSet(s.todo)
        PROVE  Settled(p, i)'
    <3>1. CASE i = c
      BY <1>2, <1>4, <2>2, <3>1 DEF Settled
    <3>2. CASE i # c
      <4>1. i \in r.asked \ r.failed /\ i \notin ToSet(r.todo) /\ i \in Item
        BY <1>1, <1>2, <1>3, <2>2, <3>2 DEF Process
      <4>2. Settled(p, i)
        BY <1>5, <4>1 DEF Accounted
      <4>3. out'[i] = out[i] /\ front'[i] = front[i]
        BY <3>2, <4>1
      <4> QED  BY <1>2, <1>4, <4>2, <4>3 DEF Settled
    <3> QED  BY <3>1, <3>2
  <2>3. ASSUME spent'.errors = 0, NEW i \in s.failed
        PROVE  ~Buildable(i)'
    BY <1>2, <1>4, <1>5, <2>3 DEF Accounted
  <2> QED  BY <2>1, <2>2, <2>3 DEF Accounted
<1> QED  BY <1>5, <1>6, <1>7 DEF QuietOK

\* QuietInv is inductive.
LEMMA QuietStep == QuietInv /\ [Next]_vars => QuietInv'
<1> SUFFICES ASSUME QuietInv, [Next]_vars PROVE QuietInv'
  OBVIOUS
<1>1. TypeOK /\ TypeOK' /\ ProcOK /\ ProcOK' /\ WorldOK /\ WorldOK' /\ GrantedInv'
  BY NextType, GrantedStep, TypeParts DEF QuietInv, GrantedInv
<1>2. \A p \in Procs : QuietOK(p)
  BY DEF QuietInv
<1>3. spent.errors \in Nat /\ spent'.errors \in Nat
  BY <1>1 DEF WorldOK, Budget
<1> SUFFICES ASSUME NEW q \in Procs PROVE QuietOK(q)'
  BY <1>1 DEF QuietInv
<1>4. ASSUME NEW p \in Procs, NEW items \in Seq(Item), NEW x, NEW h, Begin(p, items, x, h)
      PROVE  QuietOK(q)'
  <2>1. UNCHANGED <<topo, holds, out, front>> /\ spent'.errors = spent.errors
    BY <1>1, <1>4 DEF Begin, WorldOK, Budget
  <2>2. CASE q = p
    <3>1. /\ proc'[q].pc = "item" /\ proc'[q].snap = topo /\ proc'[q].todo = items /\ proc'[q].got = <<>>
          /\ proc'[q].asked = ToSet(items) /\ proc'[q].failed = {}
      BY <1>1, <1>4, <2>2 DEF Begin, Become, ProcOK
    <3>2. ReadIsCurrent(q)' /\ HalfSettled(q)' /\ Accounted(q)'
      BY <3>1 DEF ReadIsCurrent, HalfSettled, Accounted
    <3> QED  BY <2>1, <3>1, <3>2 DEF QuietOK
  <2>3. CASE q # p
    BY <1>1, <1>2, <1>4, <2>1, <2>3, OthersQuiet DEF Begin
  <2> QED  BY <2>2, <2>3
<1>5. ASSUME NEW p \in Procs, Finish(p) \/ Kill(p)
      PROVE  QuietOK(q)'
  <2>1. UNCHANGED <<topo, holds, out, front>> /\ (spent'.errors = 0 => spent.errors = 0)
    BY <1>1, <1>3, <1>5 DEF Finish, Kill, WorldOK, Budget
  <2>2. CASE q = p
    <3>1. proc'[q] = NoProcess
      BY <1>1, <1>5, <2>2 DEF Finish, Kill, Become, ProcOK
    <3> QED  BY <3>1 DEF NoProcess, QuietOK
  <2>3. CASE q # p
    BY <1>1, <1>2, <1>5, <2>1, <2>3, OthersQuiet DEF Finish, Kill
  <2> QED  BY <2>2, <2>3
<1>6. ASSUME NEW p \in Procs, Read(p)
      PROVE  QuietOK(q)'
  <2>1. UNCHANGED <<topo, holds, out, front, spent>>
    BY <1>6 DEF Read
  <2>2. CASE q = p
    <3> DEFINE r == proc[p]
               n == NextFile(p)
               needs == Needs(r.snap, Current(p))
    <3>1. r \in Process /\ r.got \in Seq(Nat) /\ holds[n] \in Nat
      BY <1>1, <1>6 DEF Read, ProcOK, Process
    <3>2. proc'[p] = [r EXCEPT !.got = Append(@, holds[n])]
      BY <1>1, <1>6 DEF Read, Become, ProcOK
    <3>3. /\ proc'[p].got = Append(r.got, holds[n])
          /\ proc'[p].pc = r.pc /\ proc'[p].snap = r.snap /\ proc'[p].todo = r.todo /\ proc'[p].quiet = r.quiet
          /\ proc'[p].xray = r.xray /\ proc'[p].haproxy = r.haproxy
          /\ proc'[p].asked = r.asked /\ proc'[p].failed = r.failed
      BY <3>1, <3>2, AppendFields
    <3>4. \A i : (Buildable(i)' <=> Buildable(i)) /\ Fresh(i)' = Fresh(i)
      BY <2>1, SourcesStay
    <3>5. HalfSettled(p) => HalfSettled(p)'
      BY <2>1, <3>3, <3>4 DEF HalfSettled
    <3>6. Accounted(p) => Accounted(p)'
      BY <2>1, <3>3, <3>4 DEF Accounted, Settled
    <3>7. ReadIsCurrent(p) => ReadIsCurrent(p)'
      <4>1. SUFFICES ASSUME ReadIsCurrent(p), r.todo # <<>>, NEW k \in 1..Len(Append(r.got, holds[n]))
                     PROVE  Append(r.got, holds[n])[k] = holds[needs[k]]
        BY <2>1, <3>3 DEF ReadIsCurrent
      <4>2. CASE k = Len(r.got) + 1
        BY <3>1, <4>2 DEF NextFile
      <4>3. CASE k # Len(r.got) + 1
        <5>1. k \in 1..Len(r.got) /\ Append(r.got, holds[n])[k] = r.got[k]
          BY <3>1, <4>3
        <5> QED  BY <4>1, <5>1 DEF ReadIsCurrent
      <4> QED  BY <4>2, <4>3
    <3> QED  BY <1>2, <2>1, <2>2, <3>3, <3>5, <3>6, <3>7 DEF QuietOK
  <2>3. CASE q # p
    BY <1>1, <1>2, <1>6, <2>1, <2>3, OthersQuiet DEF Read
  <2> QED  BY <2>2, <2>3
<1>7. ASSUME NEW p \in Procs, NEW bad \in SUBSET {Current(p)}, proc[p].todo # <<>>, proc'[p] = NextItem(p, bad),
             ~proc[p].quiet
      PROVE  QuietOK(p)'
  <2>1. bad \in SUBSET Item
    BY <1>1, <1>7, CurrentType
  <2>2. proc'[p].quiet = proc[p].quiet
    BY <1>1, <1>7, <2>1, NextItemFields DEF ProcOK
  <2> QED  BY <1>7, <2>2 DEF QuietOK
<1>8. ASSUME NEW p \in Procs, Refuse(p)
      PROVE  QuietOK(q)'
  <2>1. UNCHANGED <<topo, holds, out, front, spent>> /\ proc[p].todo # <<>> /\ proc[p] \in Process
    BY <1>1, <1>8 DEF Refuse, Working, ProcOK
  <2>2. CASE q = p /\ proc[p].quiet
    <3>1. proc'[p] = NextItem(p, {Current(p)})
      BY <1>1, <1>8 DEF Refuse, Become, ProcOK
    <3>2. proc[p].snap = topo
      BY <1>2, <2>2 DEF QuietOK
    <3>3. Current(p) \in Item
      BY <1>1, <2>1, CurrentType
    <3>4. Needs(topo, Current(p)) \in Seq(Node)
      BY <1>1, <3>3, NeedsType DEF TypeOK
    <3>5. ~Buildable(Current(p))
      <4>1. CASE ~Known(p)
        BY <3>2, <4>1 DEF Known, Buildable
      <4>2. CASE ~Complete(p) /\ holds[NextFile(p)] \notin Nat
        <5>1. Len(proc[p].got) <= Len(Needs(topo, Current(p)))
          BY <2>1, <3>2 DEF QuietInv, GrantedInv, ReadGranted, ReadInOrder
        <5>2. Len(proc[p].got) # Len(Needs(topo, Current(p)))
          BY <3>2, <4>2 DEF Complete
        <5>3. Len(proc[p].got) \in Nat /\ Len(Needs(topo, Current(p))) \in Nat
          BY <2>1, <3>4 DEF Process
        <5>4. Len(proc[p].got) + 1 \in DOMAIN Needs(topo, Current(p))
          BY <3>4, <5>1, <5>2, <5>3
        <5> QED  BY <3>2, <4>2, <5>4 DEF NextFile, Buildable
      <4>3. CASE Current(p) \in proc[p].snap.broken
        BY <3>2, <4>3 DEF Buildable
      <4> QED  BY <1>8, <4>1, <4>2, <4>3 DEF Refuse
    <3> QED  BY <1>1, <1>2, <2>1, <2>2, <3>1, <3>5, ItemDone
  <2>3. CASE q = p /\ ~proc[p].quiet
    <3>1. proc'[p] = NextItem(p, {Current(p)})
      BY <1>1, <1>8 DEF Refuse, Become, ProcOK
    <3> QED  BY <1>7, <2>1, <2>3, <3>1
  <2>4. CASE q # p
    BY <1>1, <1>2, <1>8, <2>1, <2>4, OthersQuiet DEF Refuse
  <2> QED  BY <2>2, <2>3, <2>4
<1>9. ASSUME NEW p \in Procs, WriteFails(p)
      PROVE  QuietOK(q)'
  <2>1. UNCHANGED <<topo, holds, out, front>> /\ proc[p].todo # <<>> /\ spent'.errors # 0
    BY <1>1, <1>3, <1>9 DEF WriteFails, Ready, Working, ProcOK, WorldOK, Budget
  <2>2. CASE q = p
    <3>1. proc'[p] = NextItem(p, {Current(p)})
      BY <1>1, <1>9 DEF WriteFails, Become, ProcOK
    <3>2. CASE proc[p].quiet
      BY <1>1, <1>2, <2>1, <2>2, <3>1, <3>2, ItemDone
    <3> QED  BY <1>7, <2>1, <2>2, <3>1, <3>2
  <2>3. CASE q # p
    BY <1>1, <1>2, <1>9, <2>1, <2>3, OthersQuiet DEF WriteFails
  <2> QED  BY <2>2, <2>3
<1>10. ASSUME NEW p \in Procs, NEW l \in {"haproxy", "fill"}, proc'[p] = [proc[p] EXCEPT !.pc = l],
              UNCHANGED <<topo, holds, spent>>, proc[p].todo # <<>>,
              \A j \in Item \ {Current(p)} : out'[j] = out[j] /\ front'[j] = front[j],
              proc[p].quiet =>
                  Buildable(Current(p)) /\ (proc[p].xray => out'[Current(p)] = Fresh(Current(p)))
       PROVE  QuietOK(p)'
  <2> DEFINE r == proc[p]
             c == Current(p)
  <2>1. r \in Process /\ c \in Item
    BY <1>1, <1>10, CurrentType DEF ProcOK
  <2>2. /\ proc'[p].pc = l /\ proc'[p].got = r.got
        /\ proc'[p].snap = r.snap /\ proc'[p].todo = r.todo /\ proc'[p].quiet = r.quiet
        /\ proc'[p].xray = r.xray /\ proc'[p].haproxy = r.haproxy
        /\ proc'[p].asked = r.asked /\ proc'[p].failed = r.failed
    BY <1>10, <2>1, GotoFields
  <2>3. \A i : (Buildable(i)' <=> Buildable(i)) /\ Fresh(i)' = Fresh(i)
    BY <1>10, SourcesStay
  <2> SUFFICES ASSUME r.quiet PROVE QuietOK(p)'
    BY <2>2 DEF QuietOK
  <2>4. r.snap = topo /\ ReadIsCurrent(p) /\ Accounted(p)
    BY <1>2 DEF QuietOK
  <2>5. ReadIsCurrent(p)'
    BY <1>10, <2>2, <2>4 DEF ReadIsCurrent
  <2>6. HalfSettled(p)'
    BY <1>10, <2>2, <2>3 DEF HalfSettled
  <2>7. c \in ToSet(r.todo)
    BY <1>10, <2>1, ToSetTail DEF Process
  <2>8. Accounted(p)'
    <3>1. ASSUME NEW i \in r.asked \ r.failed, i \notin ToSet(r.todo)
          PROVE  Settled(p, i)'
      <4>1. i # c /\ i \in Item /\ Settled(p, i)
        BY <2>1, <2>4, <2>7, <3>1 DEF Accounted, Process
      <4> QED  BY <1>10, <2>2, <2>3, <4>1 DEF Settled
    <3> QED  BY <1>10, <2>2, <2>3, <2>4, <3>1 DEF Accounted
  <2> QED  BY <1>10, <2>2, <2>4, <2>5, <2>6, <2>8 DEF QuietOK
<1>11. ASSUME NEW p \in Procs, WriteXray(p)
       PROVE  QuietOK(q)'
  <2>1. UNCHANGED <<topo, holds, front, spent>> /\ proc[p].todo # <<>> /\ Ready(p) /\ proc[p].xray
    BY <1>1, <1>11 DEF WriteXray, Ready, Working
  <2>2. proc'[p] = IF proc[p].haproxy THEN [proc[p] EXCEPT !.pc = "haproxy"] ELSE NextItem(p, {})
    BY <1>11 DEF WriteXray, BecomeWriting
  <2>3. Current(p) \in Item
    BY <1>1, <2>1, CurrentType
  <2>4. /\ \A j \in Item \ {Current(p)} : out'[j] = out[j] /\ front'[j] = front[j]
        /\ out'[Current(p)] = [topo |-> proc[p].snap, keys |-> proc[p].got]
    BY <1>1, <1>11, <2>3 DEF WriteXray, WorldOK
  <2>5. proc[p].quiet => Buildable(Current(p)) /\ out'[Current(p)] = Fresh(Current(p))
    BY <1>1, <1>2, <2>1, <2>4, ReadyIsFresh
  <2>6. QuietOK(p)'
    <3>1. CASE proc[p].haproxy
      BY <1>10, <2>1, <2>2, <2>4, <2>5, <3>1
    <3>2. CASE ~proc[p].haproxy /\ proc[p].quiet
      BY <1>1, <1>2, <2>1, <2>2, <2>4, <2>5, <3>2, ItemDone
    <3>3. CASE ~proc[p].haproxy /\ ~proc[p].quiet
      BY <1>7, <2>1, <2>2, <3>3
    <3> QED  BY <3>1, <3>2, <3>3
  <2>7. CASE q # p
    BY <1>1, <1>2, <1>11, <2>1, <2>7, OthersQuiet DEF WriteXray
  <2> QED  BY <2>6, <2>7
<1>12. ASSUME NEW p \in Procs, Truncate(p)
       PROVE  QuietOK(q)'
  <2>1. UNCHANGED <<topo, holds, out, spent>> /\ proc[p].todo # <<>> /\ AtHaproxy(p)
    BY <1>1, <1>12 DEF Truncate, AtHaproxy, Ready, Working, ProcOK
  <2>2. proc'[p] = [proc[p] EXCEPT !.pc = "fill"]
    BY <1>12 DEF Truncate, BecomeWriting
  <2>3. \A j \in Item \ {Current(p)} : out'[j] = out[j] /\ front'[j] = front[j]
    BY <1>1, <1>12 DEF Truncate, WorldOK
  <2>4. proc[p].quiet => Buildable(Current(p)) /\ (proc[p].xray => out[Current(p)] = Fresh(Current(p)))
    <3>1. CASE proc[p].pc = "haproxy"
      BY <1>2, <3>1 DEF QuietOK, HalfSettled
    <3>2. CASE Ready(p) /\ ~proc[p].xray
      BY <1>1, <1>2, <3>2, ReadyIsFresh
    <3> QED  BY <2>1, <3>1, <3>2 DEF AtHaproxy
  <2>5. QuietOK(p)'
    BY <1>10, <2>1, <2>2, <2>3, <2>4
  <2>6. CASE q # p
    BY <1>1, <1>2, <1>12, <2>1, <2>6, OthersQuiet DEF Truncate
  <2> QED  BY <2>5, <2>6
<1>13. ASSUME NEW p \in Procs, Fill(p)
       PROVE  QuietOK(q)'
  <2>1. UNCHANGED <<topo, holds, out, spent>> /\ proc[p].todo # <<>> /\ proc[p].pc = "fill"
    BY <1>1, <1>13 DEF Fill, ProcOK
  <2>2. proc'[p] = NextItem(p, {})
    BY <1>13 DEF Fill, BecomeWriting
  <2>3. Current(p) \in Item
    BY <1>1, <2>1, CurrentType
  <2>4. /\ \A j \in Item \ {Current(p)} : out'[j] = out[j] /\ front'[j] = front[j]
        /\ front'[Current(p)] = proc[p].snap
    BY <1>1, <1>13, <2>3 DEF Fill, WorldOK
  <2>5. QuietOK(p)'
    <3>1. CASE proc[p].quiet
      <4>1. /\ Buildable(Current(p)) /\ (proc[p].xray => out[Current(p)] = Fresh(Current(p)))
            /\ proc[p].snap = topo
        BY <1>2, <2>1, <3>1 DEF QuietOK, HalfSettled
      <4> QED  BY <1>1, <1>2, <2>1, <2>2, <2>4, <3>1, <4>1, ItemDone
    <3> QED  BY <1>7, <2>1, <2>2, <3>1
  <2>6. CASE q # p
    BY <1>1, <1>2, <1>13, <2>1, <2>6, OthersQuiet DEF Fill
  <2> QED  BY <2>5, <2>6
<1>14. ASSUME Disturb
       PROVE  QuietOK(q)'
  BY <1>1, <1>14, NotQuiet DEF Disturb, ProcOK, QuietOK
<1>15. ASSUME NEW n \in Node, Grant(n), UNCHANGED <<proc, topo, out, front, spent>>
       PROVE  QuietOK(q)'
  BY <1>2, <1>15, QuietStays DEF Grant
<1>16. CASE UNCHANGED vars
  BY <1>2, <1>16, QuietStays DEF vars
<1>17. ASSUME NEW p \in Procs, NEW n \in Node, NEW x, NEW h, StartBuild(p, n, x, h)
       PROVE  QuietOK(q)'
  BY <1>1, <1>4, <1>17, ItemsType DEF StartBuild
<1>18. ASSUME NEW p \in Procs, NEW i \in Portal, StartPortals(p, i)
       PROVE  QuietOK(q)'
  BY <1>1, <1>4, <1>18, ItemsType DEF StartPortals
<1> QED
  BY <1>5, <1>6, <1>8, <1>9, <1>11, <1>12, <1>13, <1>14, <1>15, <1>16, <1>17, <1>18
  DEF Next, Step, GenKeys, Edit, Damage

LEMMA QuietInit == Init => QuietInv
<1> SUFFICES ASSUME Init PROVE QuietInv
  OBVIOUS
<1>1. GrantedInv
  BY GrantedInit
<1>2. \A p \in Procs : QuietOK(p)
  BY DEF Init, NoProcess, QuietOK
<1> QED  BY <1>1, <1>2 DEF QuietInv

\* A command nothing interfered with leaves exactly the present topology and keys
\* in every file it did not report, whatever ran, died or failed before it.
THEOREM CommandsSettle == Spec => Settles
<1>1. QuietInv /\ [Next]_vars =>
        [\A p \in Procs : (Finish(p) /\ proc[p].quiet) =>
            \A i \in proc[p].asked \ proc[p].failed :
                /\ Buildable(i)
                /\ proc[p].xray => out[i] = Fresh(i)
                /\ proc[p].haproxy => front[i] = topo]_vars
  <2> SUFFICES ASSUME QuietInv, NEW p \in Procs, Finish(p), proc[p].quiet,
                      NEW i \in proc[p].asked \ proc[p].failed
               PROVE  Settled(p, i)
    BY DEF Settled
  <2>1. Accounted(p) /\ ToSet(proc[p].todo) = {}
    BY DEF QuietInv, QuietOK, Finish, ToSet
  <2> QED  BY <2>1 DEF Accounted
<1> QED  BY <1>1, QuietInit, QuietStep, PTL DEF Spec, Settles

\* Without write errors, such a command reports exactly the items that cannot be
\* built: one that fails takes no other with it (_run_batch).
THEOREM FailuresAreIsolated == Spec => BatchIsolated
<1>1. QuietInv /\ [Next]_vars =>
        [\A p \in Procs : (Finish(p) /\ proc[p].quiet /\ spent.errors = 0) =>
            proc[p].failed = {i \in proc[p].asked : ~Buildable(i)}]_vars
  <2> SUFFICES ASSUME QuietInv, NEW p \in Procs, Finish(p), proc[p].quiet, spent.errors = 0
               PROVE  proc[p].failed = {i \in proc[p].asked : ~Buildable(i)}
    OBVIOUS
  <2>1. Accounted(p) /\ ToSet(proc[p].todo) = {}
    BY DEF QuietInv, QuietOK, Finish, ToSet
  <2> QED  BY <2>1 DEF Accounted, Settled
<1> QED  BY <1>1, QuietInit, QuietStep, PTL DEF Spec, BatchIsolated
=============================================================================
