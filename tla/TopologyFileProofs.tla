------------------------- MODULE TopologyFileProofs -------------------------
(***************************************************************************)
(* What editors are promised, for all documents and commands, and any      *)
(* number of write errors and kills.  One at a time: the topology file is  *)
(* whole at every moment, an edit is made to the file that is there, and   *)
(* no edit moves another region's fallback.  Any number of them: type      *)
(* correctness; a whole file has nothing dangling, and loads unless one of *)
(* four things was done to it; adding and removing a node is no change.    *)
(***************************************************************************)
EXTENDS TopologyFile, SequenceFacts

\* What is known of a process: where it writes, and that the text it holds is
\* its edit of the file.
EditOK(p) ==
    /\ edit[p].pc \in {"idle", "open", "write", "rename"}
    /\ At(p, "write") => edit[p].out = "tmp" /\ tmp = Empty
    /\ ~At(p, "write") => edit[p].out = "none"
    /\ At(p, "rename") => tmp = Whole(edit[p].text)
    /\ Busy(p) => edit[p].text \in Results(file.says, edit[p].cmd)

IInv == /\ DOMAIN edit = Procs
        /\ edit = [p \in Procs |-> edit[p]]
        /\ file.is = "whole"
        /\ \A p \in Procs : EditOK(p)

\* Nobody edits the topology while somebody else does.
OneEditor == \A p, q \in Procs : p = q

\* The invariant holds before the first command (the topology file is a document).
LEMMA InitIInv == Init => IInv
  BY DEF Init, IInv, EditOK, NoEdit, Whole, At, Busy

\* A step of p puts the new memory of p in place and keeps the others' there.
LEMMA Updated ==
    ASSUME IInv, NEW p \in Procs, NEW r, edit' = [edit EXCEPT ![p] = r]
    PROVE  edit'[p] = r /\ DOMAIN edit' = Procs /\ edit' = [q \in Procs |-> edit'[q]]
  BY DEF IInv

\* Each step of the only editor keeps the invariant (controller.py, _read and _write).
LEMMA NextIInv ==
    ASSUME OneEditor, IInv, [Next]_vars
    PROVE  IInv'
  <1>1. CASE UNCHANGED vars
    BY <1>1 DEF IInv, EditOK, At, Busy, vars
  <1>2. ASSUME NEW p \in Procs, edit' = [edit EXCEPT ![p] = NoEdit], UNCHANGED file
        PROVE  IInv'
    <2>1. \A q \in Procs : q = p
      BY DEF OneEditor
    <2>2. edit'[p] = NoEdit /\ DOMAIN edit' = Procs /\ edit' = [q \in Procs |-> edit'[q]]
      BY <1>2 DEF IInv
    <2> QED
      BY <1>2, <2>1, <2>2 DEF IInv, EditOK, NoEdit, At, Busy
  <1>3. ASSUME NEW p \in Procs, NEW c \in Commands, Begin(p, c) PROVE IInv'
    <2>1. PICK d \in Results(file.says, c) :
             edit' = [edit EXCEPT ![p] = [pc |-> "open", cmd |-> c, text |-> d, out |-> "none"]]
      BY <1>3 DEF Begin
    <2> DEFINE r == [pc |-> "open", cmd |-> c, text |-> d, out |-> "none"]
    <2>3. edit'[p] = r /\ DOMAIN edit' = Procs /\ edit' = [q \in Procs |-> edit'[q]]
      BY <2>1, Updated
    <2>4. EditOK(p)'
      <3>1. /\ edit'[p].pc = "open" /\ edit'[p].cmd = c /\ edit'[p].text = d /\ edit'[p].out = "none"
        BY <2>3
      <3>2. UNCHANGED file
        BY <1>3, <2>3, <3>1 DEF Begin
      <3> QED
        BY <3>1, <3>2 DEF EditOK, At, Busy
    <2> QED
      BY <1>3, <2>3, <2>4 DEF IInv, OneEditor, Begin
  <1>4. ASSUME NEW p \in Procs, Open(p) PROVE IInv'
    <2> DEFINE r == [pc |-> "write", cmd |-> edit[p].cmd, text |-> edit[p].text, out |-> "tmp"]
    <2>1. edit' = [edit EXCEPT ![p] = r]
      BY <1>4 DEF Open, Turned
    <2>2. edit'[p] = r /\ DOMAIN edit' = Procs /\ edit' = [q \in Procs |-> edit'[q]]
      BY <2>1, Updated
    <2>3. edit[p].text \in Results(file.says, edit[p].cmd)
      BY <1>4 DEF IInv, EditOK, At, Busy, Open
    <2>4. EditOK(p)'
      <3>1. /\ edit'[p].pc = "write" /\ edit'[p].cmd = edit[p].cmd
            /\ edit'[p].text = edit[p].text /\ edit'[p].out = "tmp"
        BY <2>2
      <3>2. UNCHANGED file /\ tmp' = Empty
        BY <1>4, <2>2, <3>1 DEF Open
      <3> QED
        BY <2>3, <3>1, <3>2 DEF EditOK, At, Busy, Empty
    <2> QED
      BY <1>4, <2>2, <2>4 DEF IInv, OneEditor, Open
  <1>5. ASSUME NEW p \in Procs, Write(p) PROVE IInv'
    <2> DEFINE r == [pc |-> "rename", cmd |-> edit[p].cmd, text |-> edit[p].text, out |-> "none"]
    <2>1. edit[p].out = "tmp" /\ tmp = Empty /\ edit[p].text \in Results(file.says, edit[p].cmd)
      BY <1>5 DEF IInv, EditOK, Write, At, Busy
    <2>2. tmp' = Whole(edit[p].text) /\ UNCHANGED file
      BY <1>5, <2>1 DEF Write, Over, Empty, Mark
    <2>3. edit' = [edit EXCEPT ![p] = r]
      BY <1>5 DEF Write, Turned
    <2>4. edit'[p] = r /\ DOMAIN edit' = Procs /\ edit' = [q \in Procs |-> edit'[q]]
      BY <2>3, Updated
    <2>5. EditOK(p)'
      <3>1. /\ edit'[p].pc = "rename" /\ edit'[p].cmd = edit[p].cmd
            /\ edit'[p].text = edit[p].text /\ edit'[p].out = "none"
        BY <2>4
      <3> QED
        BY <2>1, <2>2, <3>1 DEF EditOK, At, Busy
    <2> QED
      BY <2>2, <2>4, <2>5 DEF IInv, OneEditor
  <1>6. ASSUME NEW p \in Procs, Rename(p) PROVE IInv'
    <2>1. tmp = Whole(edit[p].text)
      BY <1>6 DEF IInv, EditOK, Rename
    <2>2. file'.is = "whole"
      BY <1>6, <2>1 DEF Rename, Whole
    <2>3. edit'[p] = NoEdit /\ DOMAIN edit' = Procs /\ edit' = [q \in Procs |-> edit'[q]]
      BY <1>6 DEF Rename, Moved
    <2>4. EditOK(p)'
      BY <2>3 DEF EditOK, NoEdit, At, Busy
    <2> QED
      BY <2>2, <2>3, <2>4 DEF IInv, OneEditor
  <1>7. ASSUME NEW p \in Procs, Fail(p) PROVE IInv'
    <2>1. edit'[p] = NoEdit /\ DOMAIN edit' = Procs /\ edit' = [q \in Procs |-> edit'[q]]
      BY <1>7 DEF Fail, Moved
    <2>2. EditOK(p)'
      BY <2>1 DEF EditOK, NoEdit, At, Busy
    <2> QED
      BY <1>7, <2>1, <2>2 DEF IInv, OneEditor, Fail
  <1>8. ASSUME NEW p \in Procs, RenameFails(p) \/ Kill(p) PROVE IInv'
    BY <1>2, <1>8 DEF RenameFails, Kill
  <1> QED
    BY <1>1, <1>3, <1>4, <1>5, <1>6, <1>7, <1>8 DEF Next

\* The invariant holds throughout: the only editor's text is its edit of the file.
LEMMA Inductive ==
    ASSUME OneEditor
    PROVE  Spec => []IInv
  <1>1. IInv /\ [Next]_vars => IInv'
    BY NextIInv
  <1> QED
    BY InitIInv, <1>1, PTL DEF Spec

\* The topology file is a whole document at every moment (controller.py, _write).
THEOREM NeverHalfWritten ==
    ASSUME OneEditor
    PROVE  Spec => []FileWhole
  <1>1. IInv => FileWhole
    BY DEF IInv, FileWhole
  <1> QED
    BY Inductive, <1>1, PTL

\* What is renamed over the file is the edit of what is there, whatever happened
\* to earlier edits: nothing else in the file changes.
THEOREM OnlyTheEdit ==
    ASSUME OneEditor
    PROVE  Spec => OthersKept
  <1>1. ASSUME IInv, NEW p \in Procs, Rename(p)
        PROVE  file' \in {Whole(d) : d \in Results(file.says, edit[p].cmd)}
    <2>1. tmp = Whole(edit[p].text) /\ edit[p].text \in Results(file.says, edit[p].cmd)
      BY <1>1 DEF IInv, EditOK, At, Busy, Rename
    <2> QED
      BY <1>1, <2>1 DEF Rename
  <1>2. IInv /\ [Next]_vars =>
            [\A p \in Procs : Rename(p) =>
                file' \in {Whole(d) : d \in Results(file.says, edit[p].cmd)}]_vars
    BY <1>1
  <1> QED
    BY Inductive, <1>2, PTL DEF Spec, OthersKept

-----------------------------------------------------------------------------
(* Any number of editors.                                                  *)

\* The type of a process's memory: what TypeOK says of it.
Memory == [pc : {"idle", "open", "write", "rename"}, cmd : Commands \cup {<<>>},
           text : {edit[p].text : p \in Procs}, out : {"none", "tmp", "file", "gone"}]
EditType(r) ==
    /\ DOMAIN r = {"pc", "cmd", "text", "out"}
    /\ r = [pc |-> r.pc, cmd |-> r.cmd, text |-> r.text, out |-> r.out]
    /\ r.pc \in {"idle", "open", "write", "rename"} /\ r.cmd \in Commands \cup {<<>>}
    /\ r.out \in {"none", "tmp", "file", "gone"}
    /\ r.out # "none" => r.pc = "write"
    /\ r.pc # "idle" <=> r.cmd # <<>>
FileType == file.is \in {"empty", "torn", "whole"} /\ tmp.is \in {"none", "empty", "torn", "whole"}
TypeInv == FileType /\ edit = [p \in Procs |-> edit[p]] /\ \A p \in Procs : EditType(edit[p])

\* The mark of a process that is given no command is none.
LEMMA NoCommand == <<>> \notin Commands
  <1>1. \A c \in CommandRecords : DOMAIN c # {}
    BY DEF CommandRecords
  <1>2. DOMAIN <<>> = {}
    OBVIOUS
  <1>3. QED
    BY <1>1, <1>2, CommandsGiven

\* Type correctness follows.
LEMMA TypeInvType == TypeInv => TypeOK
  <1> SUFFICES ASSUME TypeInv PROVE TypeOK
    OBVIOUS
  <1>1. ASSUME NEW p \in Procs
        PROVE  edit[p] \in Memory
    BY DEF TypeInv, EditType, Memory
  <1>2. edit \in [Procs -> Memory]
    BY <1>1 DEF TypeInv
  <1>3. FileType /\ \A p \in Procs : /\ edit[p].out # "none" => At(p, "write")
                         /\ Busy(p) <=> edit[p].cmd # <<>>
    BY DEF TypeInv, EditType, At, Busy
  <1>4. QED
    BY <1>2, <1>3 DEF TypeOK, Memory, FileType

\* It holds before the first command.
LEMMA InitTypeInv == Init => TypeInv
  <1> SUFFICES ASSUME Init PROVE TypeInv
    OBVIOUS
  <1>1. FileType
    BY DEF Init, FileType, Whole, NoFile, Mark
  <1>2. EditType(NoEdit)
    BY DEF EditType, NoEdit
  <1>3. QED
    BY <1>1, <1>2 DEF Init, TypeInv

\* Every step leaves files of the type and memories of the type.
LEMMA NextTypeInv == TypeInv /\ [Next]_vars => TypeInv'
  <1> SUFFICES ASSUME TypeInv, [Next]_vars PROVE TypeInv'
    OBVIOUS
  <1>1. ASSUME NEW p \in Procs, NEW r, EditType(r), edit' = [edit EXCEPT ![p] = r], FileType'
        PROVE  TypeInv'
    BY <1>1 DEF TypeInv
  <1>2. EditType(NoEdit)
    BY DEF EditType, NoEdit
  <1>3. ASSUME NEW p \in Procs, NEW c \in Commands, Begin(p, c) PROVE TypeInv'
    <2>1. PICK d \in Results(file.says, c) :
             edit' = [edit EXCEPT ![p] = [pc |-> "open", cmd |-> c, text |-> d, out |-> "none"]]
      BY <1>3 DEF Begin
    <2>2. EditType([pc |-> "open", cmd |-> c, text |-> d, out |-> "none"])
      BY NoCommand DEF EditType
    <2>3. FileType'
      BY <1>3 DEF Begin, TypeInv, FileType
    <2>4. QED
      BY <1>1, <2>1, <2>2, <2>3
  <1>4. ASSUME NEW p \in Procs, Open(p) PROVE TypeInv'
    <2>1. EditType(Turned(p, "write", "tmp"))
      BY <1>4 DEF TypeInv, EditType, Turned, Open, At
    <2>2. FileType'
      BY <1>4 DEF Open, TypeInv, FileType, Empty, Mark
    <2>3. QED
      BY <1>1, <1>4, <2>1, <2>2 DEF Open
  <1>5. ASSUME NEW p \in Procs, Write(p) PROVE TypeInv'
    <2>1. EditType(Turned(p, "rename", "none"))
      BY <1>5 DEF TypeInv, EditType, Turned, Write, At
    <2>2. \A old, text : \A x \in Over(old, text) : x.is \in {"whole", "torn"}
      BY DEF Over, Whole, Torn, Mark
    <2>3. FileType'
      BY <1>5, <2>2 DEF Write, TypeInv, FileType
    <2>4. QED
      BY <1>1, <1>5, <2>1, <2>3 DEF Write
  \* The handles of the others move with the files.
  <1>6. ASSUME NEW p \in Procs, NEW a \in {"file", "gone"}, NEW b \in {"file", "gone"},
               edit' = [Moved(a, b) EXCEPT ![p] = NoEdit], FileType'
        PROVE  TypeInv'
    <2>1. ASSUME NEW q \in Procs PROVE EditType(Moved(a, b)[q])
      <3> DEFINE out == CASE edit[q].out = "tmp" -> a [] edit[q].out = "file" -> b [] OTHER -> edit[q].out
      <3>1. EditType(edit[q])
        BY DEF TypeInv
      <3>2. out \in {"none", "tmp", "file", "gone"} /\ (out # "none" => edit[q].out # "none")
        BY <3>1 DEF EditType
      <3>3. Moved(a, b)[q] = [edit[q] EXCEPT !.out = out]
        BY DEF Moved
      <3> HIDE DEF out
      <3>4. QED
        BY <3>1, <3>2, <3>3 DEF EditType
    <2>2. \A q \in Procs : EditType(edit'[q])
      BY <1>2, <1>6, <2>1 DEF Moved
    <2>3. edit' = [q \in Procs |-> edit'[q]]
      BY <1>6 DEF Moved
    <2>4. QED
      BY <1>6, <2>2, <2>3 DEF TypeInv
  <1>7. ASSUME NEW p \in Procs, Rename(p) PROVE TypeInv'
    <2>1. FileType'
      BY <1>7 DEF Rename, TypeInv, FileType, NoFile, Mark
    <2>2. QED
      BY <1>6, <1>7, <2>1 DEF Rename
  <1>8. ASSUME NEW p \in Procs, Fail(p) PROVE TypeInv'
    <2>1. FileType'
      BY <1>8 DEF Fail, TypeInv, FileType, NoFile, Mark
    <2>2. QED
      BY <1>6, <1>8, <2>1 DEF Fail
  <1>9. ASSUME NEW p \in Procs, RenameFails(p) \/ Kill(p) PROVE TypeInv'
    <2>1. edit' = [edit EXCEPT ![p] = NoEdit] /\ FileType'
      BY <1>9 DEF RenameFails, Kill, TypeInv, FileType
    <2>2. QED
      BY <1>1, <1>2, <2>1
  <1>10. CASE UNCHANGED vars
    BY <1>10 DEF vars, TypeInv, FileType
  <1>11. QED
    BY <1>3, <1>4, <1>5, <1>7, <1>8, <1>9, <1>10 DEF Next

\* Type correctness, for any number of editors: in particular only a process that
\* is writing has a file open, whatever the others rename or remove under it.
THEOREM TypeCorrect == Spec => []TypeOK
  BY InitTypeInv, NextTypeInv, TypeInvType, PTL DEF Spec

-----------------------------------------------------------------------------
(* A document and the topology it is parsed to.                            *)

\* The lists of a document are sequences.
LEMMA Documented ==
    ASSUME NEW d \in DocumentRecords
    PROVE  /\ IsSeq(d.regions) /\ ToSet(d.regions) \subseteq RegionRecords
           /\ IsSeq(d.routes) /\ ToSet(d.routes) \subseteq HubRouteRecords
           /\ \A r \in ToSet(d.regions) : /\ IsSeq(r.nodes) /\ ToSet(r.nodes) \subseteq NodeRecords
                                          /\ r.type \in {Exit, Hub}
  <1>1. d.regions \in Seq(RegionRecords) /\ d.routes \in Seq(HubRouteRecords)
    BY DEF DocumentRecords
  <1>2. /\ IsSeq(d.regions) /\ ToSet(d.regions) \subseteq RegionRecords
        /\ IsSeq(d.routes) /\ ToSet(d.routes) \subseteq HubRouteRecords
    BY <1>1, SeqFromSet
  <1>3. ASSUME NEW r \in ToSet(d.regions)
        PROVE  /\ IsSeq(r.nodes) /\ ToSet(r.nodes) \subseteq NodeRecords
               /\ r.type \in {Exit, Hub}
    <2>1. r \in RegionRecords
      BY <1>2
    <2>2. r.nodes \in Seq(NodeRecords) /\ r.type \in {Exit, Hub}
      BY <2>1 DEF RegionRecords
    <2>3. QED
      BY <2>2, SeqFromSet
  <1>4. QED
    BY <1>2, <1>3

\* A list of one.
LEMMA OneShape == \A x : IsSeq(<<x>>) /\ ToSet(<<x>>) = {x} /\ <<x>> # <<>>
  <1>1. \A x : Len(<<x>>) = 1 /\ Len(<<>>) = 0
    OBVIOUS
  <1>2. QED
    BY <1>1, OneIsSeq

\* The regions of a type, in file order (ConglomerateConfig.exit_regions).
LEMMA RegionsOfFacts ==
    ASSUME NEW d \in DocumentRecords, NEW type
    PROVE  /\ IsSeq(RegionsOf(d, type))
           /\ ToSet(RegionsOf(d, type)) = {r \in ToSet(d.regions) : r.type = type}
           /\ Distinct(d.regions) => Distinct(RegionsOf(d, type))
           /\ Distinct(RegionsOf(d, type)) =>
                 \A m, n \in DOMAIN d.regions :
                    (/\ d.regions[m].type = type /\ d.regions[n].type = type
                     /\ d.regions[m].id = d.regions[n].id) => m = n
  <1> DEFINE s == d.regions
             f == [i \in DOMAIN s |-> Only(s[i].type = type, s[i])]
             T == {r \in ToSet(s) : r.type = type}
             u == FlattenSeq(f)
  <1>1. RegionsOf(d, type) = u
    BY DEF RegionsOf, Where, Concat
  <1>2. IsSeq(s) /\ Len(s) \in Nat /\ DOMAIN s = 1..Len(s) /\ \A i \in 1..Len(s) : s[i] \in ToSet(s)
    BY Documented, SeqFacts, Elements
  <1>3. \A i \in 1..Len(s) : f[i] = IF s[i].type = type THEN <<s[i]>> ELSE <<>>
    BY <1>2 DEF Only
  <1>4. \A i \in 1..Len(s) : /\ IsSeq(f[i]) /\ f[i] \in {<<>>, <<s[i]>>}
                             /\ f[i] # <<>> <=> s[i].type = type
                             /\ ToSet(f[i]) = IF s[i].type = type THEN {s[i]} ELSE {}
    <2> HIDE DEF f, s
    <2>1. QED
      BY <1>3, OneShape, EmptyIsSeq
  <1>5. f = [i \in DOMAIN s |-> f[i]]
    OBVIOUS
  <1> HIDE DEF f, s
  <1>6. IsMap(f, s)
    BY <1>4, <1>5 DEF IsMap
  <1>7. T \subseteq ToSet(s) /\ \A i \in 1..Len(s) : ToSet(f[i]) = IF s[i] \in T THEN {s[i]} ELSE {}
    BY <1>2, <1>4
  <1>8. IsSeq(u) /\ ToSet(u) = T
    <2> HIDE DEF T
    <2>1. QED
      BY <1>2, <1>6, <1>7, FilterElements
  <1>9. PICK g : Picks(g, u, s, f, Len(s))
    <2>1. \E g : Picks(g, u, s, f, Len(s))
      BY <1>2, <1>4, <1>6, FilterIndex
    <2>2. QED
      BY <2>1
  <1>10. Len(u) \in Nat /\ DOMAIN u = 1..Len(u)
    BY <1>8, SeqFacts
  <1> HIDE DEF u
  <1>11. ASSUME Distinct(s) PROVE Distinct(u)
    <2> SUFFICES ASSUME NEW i \in 1..Len(u), NEW j \in 1..Len(u), u[i].id = u[j].id
                 PROVE  i = j
      BY <1>10 DEF Distinct
    <2>1. g[i] \in DOMAIN s /\ g[j] \in DOMAIN s /\ s[g[i]].id = s[g[j]].id
      BY <1>2, <1>9 DEF Picks
    <2>2. g[i] = g[j]
      BY <1>11, <2>1 DEF Distinct
    <2>3. ~(i < j) /\ ~(j < i)
      <3>1. g[i] \in 1..Len(s) /\ ~(g[i] < g[j]) /\ ~(g[j] < g[i])
        BY <1>2, <2>1, <2>2
      <3>2. QED
        BY <1>9, <3>1 DEF Picks
    <2>4. QED
      BY <1>10, <2>3
  <1>12. ASSUME Distinct(u), NEW m \in 1..Len(s), NEW n \in 1..Len(s),
                s[m].type = type, s[n].type = type, s[m].id = s[n].id
         PROVE  m = n
    <2>1. f[m] # <<>> /\ f[n] # <<>>
      BY <1>4, <1>12
    <2>2. PICK i \in 1..Len(u) : g[i] = m
      BY <1>9, <2>1 DEF Picks
    <2>3. PICK j \in 1..Len(u) : g[j] = n
      BY <1>9, <2>1 DEF Picks
    <2>4. u[i].id = u[j].id
      BY <1>9, <1>12, <2>2, <2>3 DEF Picks
    <2>5. i = j
      BY <1>10, <1>12, <2>4 DEF Distinct
    <2>6. QED
      BY <2>2, <2>3, <2>5
  <1>13. QED
    BY <1>1, <1>2, <1>8, <1>11, <1>12 DEF s

\* A hub region, parsed.
LEMMA HubOfFacts ==
    ASSUME NEW r, IsSeq(r.nodes)
    PROVE  /\ HubOf(r).id = r.id
           /\ ToSet(HubOf(r).nodes) = NodeIds(r)
           /\ IsInjective(HubOf(r).nodes) <=> Distinct(r.nodes)
  <1> DEFINE h == [j \in DOMAIN r.nodes |-> r.nodes[j].id]
  <1>1. HubOf(r).id = r.id /\ HubOf(r).nodes = h
    BY DEF HubOf
  <1>2. ToSet(h) = NodeIds(r)
    BY DEF ToSet, NodeIds, Ids
  <1>3. IsInjective(h) <=> Distinct(r.nodes)
    BY DEF IsInjective, Distinct
  <1>4. QED
    BY <1>1, <1>2, <1>3

\* What routing sees of a document, element by element.
ExitsOf(d) == {r \in ToSet(d.regions) : r.type = Exit}
HubsOf(d) == {r \in ToSet(d.regions) : r.type = Hub}
IdsOf(S) == {r.id : r \in S}
NodesOf(S) == UNION {NodeIds(r) : r \in S}
Filled(S) == {r \in S : r.nodes # <<>>}

\* What Parse, which splits the regions into exits and hubs, has in its lists.
LEMMA Parsed ==
    ASSUME NEW d \in DocumentRecords, NEW t, t = Parse(d)
    PROVE  /\ ToSet(t.exits) = ExitsOf(d)
           /\ ToSet(t.hubs) = {HubOf(r) : r \in HubsOf(d)}
           /\ Ids(t.exits) = IdsOf(ExitsOf(d)) /\ Ids(t.hubs) = IdsOf(HubsOf(d))
           /\ ExitNodes(t) = NodesOf(ExitsOf(d)) /\ HubNodes(t) = NodesOf(HubsOf(d))
           /\ Rendered(t) = IdsOf(Filled(ExitsOf(d)))
           /\ Distinct(t.hubs) <=> Distinct(RegionsOf(d, Hub))
  <1> DEFINE s == RegionsOf(d, Hub)
  <1>1. t.exits = RegionsOf(d, Exit) /\ t.hubs = Hubs(d)
    BY DEF Parse
  <1>2. ToSet(t.exits) = ExitsOf(d) /\ ToSet(s) = HubsOf(d) /\ IsSeq(s)
    BY <1>1, RegionsOfFacts DEF ExitsOf, HubsOf
  <1>3. t.hubs = [i \in DOMAIN s |-> HubOf(s[i])]
    BY <1>1 DEF Hubs
  <1> HIDE DEF s
  <1>4. \A r \in HubsOf(d) : IsSeq(r.nodes)
    BY Documented DEF HubsOf
  <1>5. \A r \in HubsOf(d) : HubOf(r).id = r.id /\ ToSet(HubOf(r).nodes) = NodeIds(r)
    BY <1>4, HubOfFacts
  <1>6. ToSet(t.hubs) = {HubOf(r) : r \in HubsOf(d)}
    BY <1>2, <1>3 DEF ToSet
  <1>7. \A i \in DOMAIN s : s[i] \in HubsOf(d)
    BY <1>2 DEF ToSet
  <1>8. DOMAIN t.hubs = DOMAIN s /\ \A i \in DOMAIN s : t.hubs[i].id = s[i].id
    BY <1>3, <1>5, <1>7
  <1>9. Distinct(t.hubs) <=> Distinct(s)
    BY <1>8 DEF Distinct
  <1>10. Ids(t.exits) = IdsOf(ExitsOf(d))
    BY <1>2 DEF Ids, ToSet, IdsOf
  <1>11. Ids(t.hubs) = IdsOf(HubsOf(d))
    <2>1. Ids(t.hubs) = {s[i].id : i \in DOMAIN s}
      BY <1>8 DEF Ids
    <2>2. HubsOf(d) = {s[i] : i \in DOMAIN s}
      BY <1>2 DEF ToSet
    <2>3. QED
      BY <2>1, <2>2 DEF IdsOf
  <1>12. ExitNodes(t) = NodesOf(ExitsOf(d))
    BY <1>2 DEF ExitNodes, NodesOf
  <1>13. HubNodes(t) = NodesOf(HubsOf(d))
    BY <1>5, <1>6 DEF HubNodes, NodesOf
  <1>14. Rendered(t) = IdsOf(Filled(ExitsOf(d)))
    BY <1>2 DEF Rendered, IdsOf, Filled
  <1>15. QED
    BY <1>2, <1>6, <1>9, <1>10, <1>11, <1>12, <1>13, <1>14 DEF s

-----------------------------------------------------------------------------
(* What the commands keep of a document that loaded once.                  *)

\* Of the regions: ids and routes are unique, what belongs to an exit belongs to none else.
RegionsSound(s) ==
    /\ Distinct(s)
    /\ \A r \in ToSet(s) : Distinct(r.nodes)
    /\ \A r, q \in ToSet(s) : r # q => NodeIds(r) \cap NodeIds(q) = {}
    /\ \A r \in ToSet(s) : r.type = Exit =>
          /\ r.vroute \notin {NoRoute, r.warp}
          /\ r.fallback # NoId => r.fallback \in NodeIds(r)
          /\ \A route \in ToSet(r.routes) : route.dest \in Specials
    /\ \A r \in ToSet(s) : r.type = Hub => ~r.lb /\ r.fallback = NoId /\ ~r.nulled
    /\ \A r, q \in ToSet(s) : (r.type = Exit /\ q.type = Exit /\ r # q) =>
          {r.vroute, r.warp} \cap {q.vroute, q.warp} \subseteq {NoRoute}

\* Of two entries of one port neither is published everywhere, and on no node both.
Apart(a, b) ==
    /\ a = Everywhere => b = {}
    /\ b = Everywhere => a = {}
    /\ a # Everywhere /\ b # Everywhere => a \cap b = {}
Entries(portals) == FlattenSeq([i \in DOMAIN portals |-> portals[i].publish])
PublishSound(d) ==
    /\ \A i \in DOMAIN Entries(d.portals) : Entries(d.portals)[i].port \notin d.taken
    /\ \A i, j \in DOMAIN Entries(d.portals) :
          (i # j /\ Entries(d.portals)[i].port = Entries(d.portals)[j].port)
              => Apart(Entries(d.portals)[i].nodes, Entries(d.portals)[j].nodes)
RestSound(d) ==
    /\ PublishSound(d)
    /\ \A p \in ToSet(d.portals) : p.users \subseteq d.users /\ (p.domains # {} \/ p.ips # {})
    /\ \A route \in ToSet(d.globals) : route.dest \in Specials

\* A route leads to what is there; a hub region may have taken its name.
DestSound(d, dest) ==
    /\ dest \in Specials \cup IdsOf(Filled(ExitsOf(d))) \cup NodesOf(ExitsOf(d)) \cup IdsOf(HubsOf(d))
    /\ dest \in IdsOf(ExitsOf(d)) => dest \in IdsOf(Filled(ExitsOf(d)))
RouteSound(d, route) ==
    /\ DestSound(d, route.dest)
    /\ route.users \cup route.proxyUsers \subseteq d.users
    /\ {} # route.domains \cup route.ips \cup route.users \cup route.proxyUsers
RoutesSound(d) ==
    /\ d.default \in Specials \cup IdsOf(ExitsOf(d))
    /\ \A route \in ToSet(d.routes) : RouteSound(d, route)

\* All that is kept of a document, whatever commands do to it.
Sound(d) == d \in DocumentRecords /\ RegionsSound(d.regions) /\ RestSound(d) /\ RoutesSound(d)

\* Items of a list with different ids are different items, and the other way round.
LEMMA DistinctElements ==
    ASSUME NEW s, IsSeq(s), Distinct(s)
    PROVE  \A x, y \in ToSet(s) : x.id = y.id => x = y
  <1>1. \A x \in ToSet(s) : \E i \in DOMAIN s : x = s[i]
    BY DEF ToSet
  <1>2. QED
    BY <1>1 DEF Distinct

\* The entries of the portals' publish lists.
LEMMA EntriesFacts ==
    ASSUME NEW d \in DocumentRecords
    PROVE  \A i \in DOMAIN Entries(d.portals) :
               \E p \in ToSet(d.portals) : Entries(d.portals)[i] \in ToSet(p.publish)
  <1> DEFINE s == d.portals
             f == [i \in DOMAIN s |-> s[i].publish]
  <1>1. IsSeq(s) /\ ToSet(s) \subseteq PortalRecords
    <2>1. s \in Seq(PortalRecords)
      BY DEF DocumentRecords
    <2>2. QED
      BY <2>1, SeqFromSet
  <1>2. Len(s) \in Nat /\ DOMAIN s = 1..Len(s) /\ \A i \in 1..Len(s) : s[i] \in ToSet(s)
    BY <1>1, SeqFacts, Elements
  <1>3. \A i \in 1..Len(s) : f[i] = s[i].publish
    BY <1>2
  <1>4. \A i \in 1..Len(s) : IsSeq(s[i].publish)
    <2>1. ASSUME NEW i \in 1..Len(s) PROVE s[i].publish \in Seq(PublishRecords)
      <3>1. s[i] \in PortalRecords
        BY <1>1, <1>2
      <3> HIDE DEF s
      <3>2. QED
        BY <3>1 DEF PortalRecords
    <2>2. QED
      BY <2>1, SeqFromSet
  <1>5. f = [i \in DOMAIN s |-> f[i]] /\ Entries(s) = FlattenSeq(f)
    BY DEF Entries
  <1> HIDE DEF f, s
  <1>6. IsMap(f, s)
    BY <1>3, <1>4, <1>5 DEF IsMap
  <1>7. \A x : x \in ToSet(FlattenSeq(f)) <=> \E i \in 1..Len(s) : x \in ToSet(f[i])
    BY <1>1, <1>6, MapElements
  <1>8. ASSUME NEW i \in DOMAIN Entries(s) PROVE \E p \in ToSet(s) : Entries(s)[i] \in ToSet(p.publish)
    <2>1. Entries(s)[i] \in ToSet(FlattenSeq(f))
      BY <1>5 DEF ToSet
    <2>2. PICK k \in 1..Len(s) : Entries(s)[i] \in ToSet(f[k])
      BY <1>7, <2>1
    <2>3. s[k] \in ToSet(s) /\ Entries(s)[i] \in ToSet(s[k].publish)
      BY <1>2, <1>3, <2>2
    <2>4. QED
      BY <2>3
  <1>9. QED
    BY <1>8 DEF s

\* What loads is sound.
LEMMA LoadsSound ==
    ASSUME NEW d \in DocumentRecords, Loads(d)
    PROVE  Sound(d)
  <1> DEFINE t == Parse(d)
             s == d.regions
  <1>1. Valid(t)
    BY DEF Loads
  <1>2. /\ t.portals = d.portals /\ t.users = d.users /\ t.globals = d.globals
        /\ t.routes = d.routes /\ t.default = d.default /\ t.taken = d.taken
        /\ t.exits = RegionsOf(d, Exit) /\ t.hubs = Hubs(d)
    BY DEF Parse
  <1>3. /\ ToSet(t.exits) = ExitsOf(d)
        /\ ToSet(t.hubs) = {HubOf(r) : r \in HubsOf(d)}
        /\ Ids(t.exits) = IdsOf(ExitsOf(d)) /\ Ids(t.hubs) = IdsOf(HubsOf(d))
        /\ ExitNodes(t) = NodesOf(ExitsOf(d)) /\ HubNodes(t) = NodesOf(HubsOf(d))
        /\ Rendered(t) = IdsOf(Filled(ExitsOf(d)))
        /\ Distinct(t.hubs) <=> Distinct(RegionsOf(d, Hub))
    BY Parsed
  <1> HIDE DEF t
  <1>4. /\ IsSeq(s) /\ \A r \in ToSet(s) : IsSeq(r.nodes) /\ r.type \in {Exit, Hub}
        /\ ToSet(s) = ExitsOf(d) \cup HubsOf(d)
    BY Documented DEF ExitsOf, HubsOf
  <1>5. UniqueIds(t) /\ UniqueRoutes(t) /\ ExitRegionsValid(t) /\ PortalsValid(t) /\ RoutingValid(t)
    BY <1>1 DEF Valid
  <1>6. Distinct(s)
    <2> SUFFICES ASSUME NEW m \in DOMAIN s, NEW n \in DOMAIN s, s[m].id = s[n].id PROVE m = n
      BY DEF Distinct
    <2>1. s[m] \in ToSet(s) /\ s[n] \in ToSet(s)
      BY DEF ToSet
    <2>2. Distinct(RegionsOf(d, Exit)) /\ Distinct(RegionsOf(d, Hub))
      BY <1>2, <1>3, <1>5 DEF UniqueIds
    <2>3. CASE s[m].type = s[n].type
      <3>1. s[m].type \in {Exit, Hub}
        BY <1>4, <2>1
      <3>2. \A type : Distinct(RegionsOf(d, type)) => ((s[m].type = type /\ s[n].type = type) => m = n)
        BY RegionsOfFacts
      <3>3. QED
        BY <2>2, <2>3, <3>1, <3>2
    <2>4. CASE s[m].type # s[n].type
      <3>1. IdsOf(ExitsOf(d)) \cap IdsOf(HubsOf(d)) = {}
        BY <1>3, <1>5 DEF UniqueIds
      <3>2. \/ s[m] \in ExitsOf(d) /\ s[n] \in HubsOf(d)
            \/ s[n] \in ExitsOf(d) /\ s[m] \in HubsOf(d)
        BY <1>4, <2>1, <2>4 DEF ExitsOf, HubsOf
      <3>3. QED
        BY <3>1, <3>2 DEF IdsOf
    <2>5. QED
      BY <2>3, <2>4
  <1>7. \A r, q \in ToSet(s) : r.id = q.id => r = q
    BY <1>4, <1>6, DistinctElements
  <1>8. \A r \in ToSet(s) : HubOf(r).id = r.id /\ ToSet(HubOf(r).nodes) = NodeIds(r)
                            /\ (IsInjective(HubOf(r).nodes) <=> Distinct(r.nodes))
    BY <1>4, HubOfFacts
  <1>9. ASSUME NEW r \in ToSet(s) PROVE Distinct(r.nodes)
    <2>1. CASE r \in ExitsOf(d)
      BY <1>3, <1>5, <2>1 DEF UniqueIds
    <2>2. CASE r \in HubsOf(d)
      <3>1. HubOf(r) \in ToSet(t.hubs)
        BY <1>3, <2>2
      <3>2. QED
        BY <1>5, <1>8, <3>1 DEF UniqueIds
    <2>3. QED
      BY <1>4, <2>1, <2>2
  <1>10. ASSUME NEW r \in ToSet(s), NEW q \in ToSet(s), r # q PROVE NodeIds(r) \cap NodeIds(q) = {}
    <2>1. CASE r \in ExitsOf(d) /\ q \in ExitsOf(d)
      BY <1>3, <1>5, <1>10, <2>1 DEF UniqueIds
    <2>2. CASE r \in HubsOf(d) /\ q \in HubsOf(d)
      <3>1. HubOf(r) \in ToSet(t.hubs) /\ HubOf(q) \in ToSet(t.hubs)
        BY <1>3, <2>2
      <3>2. HubOf(r) # HubOf(q)
        BY <1>7, <1>8, <1>10
      <3>3. ToSet(HubOf(r).nodes) \cap ToSet(HubOf(q).nodes) = {}
        BY <1>5, <3>1, <3>2 DEF UniqueIds
      <3>4. QED
        BY <1>8, <3>3
    <2>3. CASE \/ r \in ExitsOf(d) /\ q \in HubsOf(d)
               \/ r \in HubsOf(d) /\ q \in ExitsOf(d)
      <3>1. NodesOf(ExitsOf(d)) \cap NodesOf(HubsOf(d)) = {}
        BY <1>3, <1>5 DEF UniqueIds
      <3>2. \A S : \A x \in S : NodeIds(x) \subseteq NodesOf(S)
        BY DEF NodesOf
      <3>3. QED
        BY <2>3, <3>1, <3>2
    <2>4. QED
      BY <1>4, <2>1, <2>2, <2>3
  <1>11. RegionsSound(s)
    <2>1. ASSUME NEW r \in ToSet(s), r.type = Exit
          PROVE  /\ r.vroute \notin {NoRoute, r.warp}
                 /\ r.fallback # NoId => r.fallback \in NodeIds(r)
                 /\ \A route \in ToSet(r.routes) : route.dest \in Specials
      <3>1. r \in ToSet(t.exits)
        BY <1>3, <2>1 DEF ExitsOf
      <3>2. QED
        BY <1>5, <3>1 DEF UniqueRoutes, ExitRegionsValid
    <2>2. ASSUME NEW r \in ToSet(s), NEW q \in ToSet(s), r.type = Exit, q.type = Exit, r # q
          PROVE  {r.vroute, r.warp} \cap {q.vroute, q.warp} \subseteq {NoRoute}
      <3>1. r \in ToSet(t.exits) /\ q \in ToSet(t.exits)
        BY <1>3, <2>2 DEF ExitsOf
      <3>2. QED
        BY <1>5, <2>2, <3>1 DEF UniqueRoutes
    <2>3. ASSUME NEW r \in ToSet(s), r.type = Hub PROVE ~r.lb /\ r.fallback = NoId /\ ~r.nulled
      BY <2>3 DEF Loads
    <2>4. QED
      BY <1>6, <1>9, <1>10, <2>1, <2>2, <2>3 DEF RegionsSound
  <1>12. PublishSound(d)
    <2> DEFINE e == Entries(d.portals)
    <2>1. \A i \in DOMAIN e : e[i].port \notin d.taken /\ Scope(t, e[i]) \subseteq HubNodes(t)
      BY <1>2, <1>5 DEF PortalsValid, PublishesValid, Entries, ToSet
    <2>2. \A i, j \in DOMAIN e : (i # j /\ e[i].port = e[j].port) => Scope(t, e[i]) \cap Scope(t, e[j]) = {}
      BY <1>2, <1>5 DEF PortalsValid, PublishesValid, Entries
    <2>3. \A i \in DOMAIN e : HubNodes(t) # {}
      <3>1. \A i \in DOMAIN e : \E p \in ToSet(d.portals) : TRUE
        BY EntriesFacts
      <3>2. \A i \in DOMAIN e : d.portals # <<>>
        BY <3>1, EmptyIsSeq
      <3>3. QED
        BY <1>2, <1>5, <3>2 DEF PortalsValid
    <2> HIDE DEF e
    <2>4. ASSUME NEW i \in DOMAIN e, NEW j \in DOMAIN e, i # j, e[i].port = e[j].port
          PROVE  Apart(e[i].nodes, e[j].nodes)
      <3> DEFINE H == HubNodes(t)
      <3>1. H # {} /\ Scope(t, e[i]) \subseteq H /\ Scope(t, e[j]) \subseteq H
            /\ Scope(t, e[i]) \cap Scope(t, e[j]) = {}
        BY <2>1, <2>2, <2>3, <2>4
      <3>2. /\ Scope(t, e[i]) = IF e[i].nodes = Everywhere THEN H ELSE e[i].nodes
            /\ Scope(t, e[j]) = IF e[j].nodes = Everywhere THEN H ELSE e[j].nodes
        BY DEF Scope
      <3> HIDE DEF H
      <3>3. QED
        BY <3>1, <3>2 DEF Apart
    <2>5. QED
      BY <2>1, <2>4 DEF PublishSound, e
  <1>13. RestSound(d)
    BY <1>2, <1>5, <1>12 DEF RestSound, PortalsValid, RoutingValid
  <1>14. RoutesSound(d)
    <2>1. IdsOf(Filled(ExitsOf(d))) \subseteq IdsOf(ExitsOf(d))
      BY DEF IdsOf, Filled
    <2>2. d.default \in Specials \cup IdsOf(ExitsOf(d))
      BY <1>2, <1>3, <1>5, <2>1 DEF RoutingValid
    <2>3. ASSUME NEW route \in ToSet(d.routes) PROVE RouteSound(d, route)
      BY <1>2, <1>3, <1>5 DEF RoutingValid, RouteSound, DestSound
    <2>4. QED
      BY <2>2, <2>3 DEF RoutesSound
  <1>15. QED
    BY <1>11, <1>13, <1>14 DEF Sound

\* In a sound document no id and no vless route is there twice, and the references
\* inside of exit regions resolve.
LEMMA SoundUnique ==
    ASSUME NEW d, Sound(d), NEW t, t = Parse(d)
    PROVE  UniqueIds(t) /\ UniqueRoutes(t) /\ ExitRegionsValid(t)
  <1> DEFINE s == d.regions
  <1>1. d \in DocumentRecords /\ RegionsSound(s) /\ t.exits = RegionsOf(d, Exit)
    BY DEF Sound, Parse
  <1>3. /\ ToSet(t.exits) = ExitsOf(d)
        /\ ToSet(t.hubs) = {HubOf(r) : r \in HubsOf(d)}
        /\ Ids(t.exits) = IdsOf(ExitsOf(d)) /\ Ids(t.hubs) = IdsOf(HubsOf(d))
        /\ ExitNodes(t) = NodesOf(ExitsOf(d)) /\ HubNodes(t) = NodesOf(HubsOf(d))
        /\ Distinct(t.hubs) <=> Distinct(RegionsOf(d, Hub))
    BY <1>1, Parsed
  <1>4. /\ IsSeq(s) /\ \A r \in ToSet(s) : IsSeq(r.nodes) /\ r.type \in {Exit, Hub}
        /\ ExitsOf(d) \subseteq ToSet(s) /\ HubsOf(d) \subseteq ToSet(s)
        /\ ExitsOf(d) \cap HubsOf(d) = {}
        /\ \A r \in ExitsOf(d) : r.type = Exit
    BY <1>1, Documented DEF ExitsOf, HubsOf, Exit, Hub
  <1>5. Distinct(t.exits) /\ Distinct(t.hubs)
    BY <1>1, <1>3, RegionsOfFacts DEF RegionsSound
  <1>6. \A r, q \in ToSet(s) : r.id = q.id => r = q
    BY <1>1, <1>4, DistinctElements DEF RegionsSound
  <1>7. \A r \in ToSet(s) : HubOf(r).id = r.id /\ ToSet(HubOf(r).nodes) = NodeIds(r)
                            /\ (IsInjective(HubOf(r).nodes) <=> Distinct(r.nodes))
    BY <1>4, HubOfFacts
  <1>8. Ids(t.exits) \cap Ids(t.hubs) = {}
    BY <1>3, <1>4, <1>6 DEF IdsOf
  <1>9. \A r \in ToSet(t.exits) : Distinct(r.nodes)
    BY <1>1, <1>3, <1>4 DEF RegionsSound
  <1>10. \A h \in ToSet(t.hubs) : IsInjective(h.nodes)
    BY <1>1, <1>3, <1>4, <1>7 DEF RegionsSound
  <1>11. \A r, q \in ToSet(t.exits) : r # q => NodeIds(r) \cap NodeIds(q) = {}
    BY <1>1, <1>3, <1>4 DEF RegionsSound
  <1>12. ASSUME NEW g \in ToSet(t.hubs), NEW h \in ToSet(t.hubs), g # h
         PROVE  ToSet(g.nodes) \cap ToSet(h.nodes) = {}
    <2>1. PICK r \in HubsOf(d) : g = HubOf(r)
      BY <1>3
    <2>2. PICK q \in HubsOf(d) : h = HubOf(q)
      BY <1>3
    <2>3. r # q
      BY <1>12, <2>1, <2>2
    <2>4. NodeIds(r) \cap NodeIds(q) = {}
      BY <1>1, <1>4, <2>3 DEF RegionsSound
    <2>5. QED
      BY <1>4, <1>7, <2>1, <2>2, <2>4
  <1>13. ExitNodes(t) \cap HubNodes(t) = {}
    <2>1. \A r \in ExitsOf(d), q \in HubsOf(d) : r # q /\ r \in ToSet(s) /\ q \in ToSet(s)
      BY <1>4
    <2>2. \A r \in ExitsOf(d), q \in HubsOf(d) : NodeIds(r) \cap NodeIds(q) = {}
      BY <1>1, <2>1 DEF RegionsSound
    <2>3. QED
      BY <1>3, <2>2 DEF NodesOf
  <1>14. UniqueIds(t)
    BY <1>5, <1>8, <1>9, <1>10, <1>11, <1>12, <1>13 DEF UniqueIds
  <1>15. UniqueRoutes(t) /\ ExitRegionsValid(t)
    BY <1>1, <1>3, <1>4 DEF RegionsSound, UniqueRoutes, ExitRegionsValid
  <1>16. QED
    BY <1>14, <1>15

\* A sound document loads, or there is one of the reasons.
LEMMA SoundExplained ==
    ASSUME NEW d, Sound(d)
    PROVE  \/ Loads(d)
           \/ Incomplete(d) \/ DefaultEmptied(d)
           \/ PortalsBereft(Parse(d)) \/ NameTaken(Parse(d))
  <1> DEFINE t == Parse(d)
  <1>1. /\ d \in DocumentRecords /\ RegionsSound(d.regions) /\ RestSound(d) /\ RoutesSound(d)
        /\ t.portals = d.portals /\ t.users = d.users /\ t.globals = d.globals
        /\ t.routes = d.routes /\ t.default = d.default /\ t.taken = d.taken
    BY DEF Sound, Parse
  <1>2. UniqueIds(t) /\ UniqueRoutes(t) /\ ExitRegionsValid(t)
    BY SoundUnique
  <1>3. /\ ToSet(t.exits) = ExitsOf(d)
        /\ Ids(t.exits) = IdsOf(ExitsOf(d)) /\ Ids(t.hubs) = IdsOf(HubsOf(d))
        /\ ExitNodes(t) = NodesOf(ExitsOf(d)) /\ HubNodes(t) = NodesOf(HubsOf(d))
        /\ Rendered(t) = IdsOf(Filled(ExitsOf(d)))
    BY <1>1, Parsed
  <1> HIDE DEF t
  <1> SUFFICES ASSUME ~Incomplete(d), ~DefaultEmptied(d), ~PortalsBereft(t), ~NameTaken(t)
               PROVE  Loads(d)
    BY DEF t
  <1>4. \A r \in ToSet(d.regions) : /\ r.type = Exit => r.vroute # NoRoute
                                    /\ r.type = Hub => ~r.lb /\ r.fallback = NoId /\ ~r.nulled
                                    /\ \A n \in ToSet(r.nodes) : n.ready
    <2>1. \A r \in ToSet(d.regions) : \A n \in ToSet(r.nodes) : n.ready
      BY DEF Incomplete
    <2>2. \A r \in ToSet(d.regions) : r.type = Exit => r.vroute # NoRoute
      BY <1>1 DEF RegionsSound
    <2>3. \A r \in ToSet(d.regions) : r.type = Hub => ~r.lb /\ r.fallback = NoId /\ ~r.nulled
      BY <1>1 DEF RegionsSound
    <2>4. QED
      BY <2>1, <2>2, <2>3
  <1>5. PublishesValid(t)
    <2> DEFINE e == Entries(d.portals)
               H == HubNodes(t)
    <2>1. \A i \in DOMAIN e : e[i].port \notin d.taken
      BY <1>1 DEF RestSound, PublishSound
    <2>2. \A i, j \in DOMAIN e : (i # j /\ e[i].port = e[j].port) => Apart(e[i].nodes, e[j].nodes)
      BY <1>1 DEF RestSound, PublishSound
    <2>3. \A i \in DOMAIN e : Scope(t, e[i]) \subseteq H
      <3>1. \A i \in DOMAIN e : \E p \in ToSet(d.portals) : e[i] \in ToSet(p.publish)
        BY <1>1, EntriesFacts
      <3> HIDE DEF e
      <3>2. QED
        BY <1>1, <3>1 DEF PortalsBereft
    <2>4. \A i \in DOMAIN e : Scope(t, e[i]) = IF e[i].nodes = Everywhere THEN H ELSE e[i].nodes
      BY DEF Scope
    <2> HIDE DEF e, H
    <2>5. ASSUME NEW i \in DOMAIN e, NEW j \in DOMAIN e, i # j, e[i].port = e[j].port
          PROVE  Scope(t, e[i]) \cap Scope(t, e[j]) = {}
      <3>1. Apart(e[i].nodes, e[j].nodes)
        BY <2>2, <2>5
      <3>2. Everywhere # {}
        BY DEF Everywhere
      <3>3. CASE e[i].nodes = Everywhere
        <4>1. e[j].nodes = {} /\ e[j].nodes # Everywhere
          BY <3>1, <3>2, <3>3 DEF Apart
        <4>2. Scope(t, e[j]) = {}
          BY <2>4, <4>1
        <4>3. QED
          BY <4>2
      <3>4. CASE e[i].nodes # Everywhere /\ e[j].nodes = Everywhere
        <4>1. e[i].nodes = {}
          BY <3>1, <3>4 DEF Apart
        <4>2. Scope(t, e[i]) = {}
          BY <2>4, <3>4, <4>1
        <4>3. QED
          BY <4>2
      <3>5. CASE e[i].nodes # Everywhere /\ e[j].nodes # Everywhere
        <4>1. e[i].nodes \cap e[j].nodes = {}
          BY <3>1, <3>5 DEF Apart
        <4>2. Scope(t, e[i]) = e[i].nodes /\ Scope(t, e[j]) = e[j].nodes
          BY <2>4, <3>5
        <4>3. QED
          BY <4>1, <4>2
      <3>6. QED
        BY <3>3, <3>4, <3>5
    <2>6. \A x \in ToSet(e) : Scope(t, x) \subseteq HubNodes(t) /\ x.port \notin t.taken
      BY <1>1, <2>1, <2>3 DEF ToSet, H
    <2>7. e = FlattenSeq([i \in DOMAIN t.portals |-> t.portals[i].publish])
      BY <1>1 DEF e, Entries
    <2>8. QED
      BY <2>5, <2>6, <2>7 DEF PublishesValid
  <1>6. PortalsValid(t)
    BY <1>1, <1>5 DEF PortalsValid, RestSound, PortalsBereft, NameTaken
  <1>7. RoutingValid(t)
    <2>1. t.default \notin Ids(t.hubs)
      BY DEF NameTaken
    <2>2. t.default \in Ids(t.exits) => t.default \in Rendered(t)
      <3> SUFFICES ASSUME t.default \in Ids(t.exits) PROVE t.default \in Rendered(t)
        OBVIOUS
      <3>1. PICK r \in ExitsOf(d) : r.id = d.default
        BY <1>1, <1>3 DEF IdsOf
      <3>2. r \in ToSet(d.regions) /\ r.nodes # <<>>
        BY <3>1 DEF ExitsOf, DefaultEmptied
      <3>3. QED
        BY <1>1, <1>3, <3>1, <3>2 DEF Filled, IdsOf
    <2>3. t.default \in Specials \cup Rendered(t)
      BY <1>1, <1>3, <2>2 DEF RoutesSound
    <2>4. \A route \in ToSet(t.globals) : route.dest \in Specials
      BY <1>1 DEF RestSound
    <2>5. ASSUME NEW route \in ToSet(t.routes)
          PROVE  /\ route.dest \in Specials \cup Rendered(t) \cup ExitNodes(t)
                 /\ route.dest \notin Ids(t.hubs) \cup HubNodes(t)
                 /\ route.dest \in Ids(t.exits) => route.dest \in Rendered(t)
                 /\ route.users \cup route.proxyUsers \subseteq t.users
                 /\ {} # route.domains \cup route.ips \cup route.users \cup route.proxyUsers
      <3>1. RouteSound(d, route)
        BY <1>1 DEF RoutesSound
      <3>2. route.dest \notin Ids(t.hubs) \cup HubNodes(t)
        BY DEF NameTaken
      <3>3. QED
        BY <1>1, <1>3, <3>1, <3>2 DEF RouteSound, DestSound
    <2>6. QED
      BY <2>1, <2>2, <2>3, <2>4, <2>5 DEF RoutingValid
  <1>8. QED
    BY <1>2, <1>4, <1>6, <1>7 DEF Loads, Valid, t

-----------------------------------------------------------------------------
(* The edits, list by list.                                                *)

\* Behind the last node with an earlier id, or in front.
LEMMA InsertedFacts ==
    ASSUME NEW s, IsSeq(s), NEW c, c.id \notin Ids(s)
    PROVE  \E k \in 0..Len(s) :
              /\ IsSeq(Inserted(s, c)) /\ Len(Inserted(s, c)) = Len(s) + 1
              /\ \A i \in 1..k : Inserted(s, c)[i] = s[i]
              /\ Inserted(s, c)[k + 1] = NewNode(c)
              /\ \A i \in (k + 1)..Len(s) : Inserted(s, c)[i + 1] = s[i]
  <1> DEFINE I == {i \in 1..Len(s) : Earlier(s[i].id, c.id)}
             k == SelectLastInSeq(s, LAMBDA n : Earlier(n.id, c.id))
             x == NewNode(c)
  <1>1. Len(s) \in Nat
    BY SeqFacts
  <1>2. k = IF I # {} THEN Max(I) ELSE 0
    BY DEF SelectLastInSeq
  <1>3. I # {} => \E m \in I : \A y \in I : m >= y
    <2>1. I \subseteq 1..Len(s)
      OBVIOUS
    <2> HIDE DEF I
    <2>2. QED
      BY <1>1, <2>1, Greatest
  <1>4. k \in 0..Len(s)
    <2>1. I # {} => Max(I) \in I
      BY <1>3 DEF Max
    <2>2. QED
      BY <1>1, <1>2, <2>1
  <1>5. Inserted(s, c) = InsertAt(s, k + 1, x)
    BY DEF Inserted
  <1> HIDE DEF k, x
  <1>6. /\ IsSeq(InsertAt(s, k + 1, x)) /\ Len(InsertAt(s, k + 1, x)) = Len(s) + 1
        /\ \A i \in 1..k : InsertAt(s, k + 1, x)[i] = s[i]
        /\ InsertAt(s, k + 1, x)[k + 1] = x
        /\ \A i \in (k + 1)..Len(s) : InsertAt(s, k + 1, x)[i + 1] = s[i]
    BY <1>4, Inserting
  <1>7. QED
    BY <1>4, <1>5, <1>6 DEF x

\* The node is there, once, and the others are still there.
LEMMA InsertedNodes ==
    ASSUME NEW s, IsSeq(s), Distinct(s), NEW c, c.id \notin Ids(s), NEW u, u = Inserted(s, c)
    PROVE  /\ IsSeq(u) /\ Distinct(u) /\ u # <<>>
           /\ ToSet(u) = ToSet(s) \cup {NewNode(c)}
           /\ Ids(u) = Ids(s) \cup {c.id}
  <1> DEFINE x == NewNode(c)
  <1>1. x.id = c.id
    BY DEF NewNode
  <1>2. Len(s) \in Nat /\ DOMAIN s = 1..Len(s)
    BY SeqFacts
  <1>3. PICK k \in 0..Len(s) : /\ IsSeq(u) /\ Len(u) = Len(s) + 1
                               /\ \A i \in 1..k : u[i] = s[i]
                               /\ u[k + 1] = x
                               /\ \A i \in (k + 1)..Len(s) : u[i + 1] = s[i]
    BY InsertedFacts
  <1>4. DOMAIN u = 1..(Len(s) + 1)
    BY <1>3, SeqFacts
  <1> HIDE DEF x
  <1> DEFINE from(i) == IF i <= k THEN i ELSE i - 1
  <1>5. \A i \in 1..(Len(s) + 1) : i # k + 1 => from(i) \in 1..Len(s) /\ u[i] = s[from(i)]
    <2> TAKE i \in 1..(Len(s) + 1)
    <2> HAVE i # k + 1
    <2>1. CASE i <= k
      <3>1. i \in 1..k /\ i \in 1..Len(s)
        BY <1>2, <2>1
      <3>2. QED
        BY <1>3, <2>1, <3>1
    <2>2. CASE i > k + 1
      <3>1. i - 1 \in (k + 1)..Len(s) /\ i - 1 \in 1..Len(s) /\ (i - 1) + 1 = i /\ ~(i <= k)
        BY <1>2, <2>2
      <3>2. u[i] = s[i - 1]
        BY <1>3, <3>1
      <3>3. QED
        BY <3>1, <3>2
    <2>3. QED
      BY <1>2, <2>1, <2>2
  <1>6. \A i, j \in 1..(Len(s) + 1) : (i # k + 1 /\ j # k + 1 /\ from(i) = from(j)) => i = j
    BY <1>2
  <1>7. \A i \in 1..Len(s) : \E j \in 1..(Len(s) + 1) : u[j] = s[i]
    <2> TAKE i \in 1..Len(s)
    <2>1. CASE i <= k
      <3>1. i \in 1..k /\ i \in 1..(Len(s) + 1)
        BY <1>2, <2>1
      <3>2. QED
        BY <1>3, <3>1
    <2>2. CASE i > k
      <3>1. i \in (k + 1)..Len(s) /\ i + 1 \in 1..(Len(s) + 1)
        BY <1>2, <2>2
      <3>2. QED
        BY <1>3, <3>1
    <2>3. QED
      BY <1>2, <2>1, <2>2
  <1> HIDE DEF from
  <1>8. k + 1 \in 1..(Len(s) + 1)
    BY <1>2
  <1>9. \A i \in 1..Len(s) : s[i].id \in Ids(s)
    BY <1>2 DEF Ids
  <1>10. Distinct(u)
    <2> SUFFICES ASSUME NEW i \in 1..(Len(s) + 1), NEW j \in 1..(Len(s) + 1), u[i].id = u[j].id
                 PROVE  i = j
      BY <1>4 DEF Distinct
    <2>1. CASE i # k + 1 /\ j # k + 1
      BY <1>2, <1>5, <1>6, <2>1 DEF Distinct
    <2>2. CASE i = k + 1 \/ j = k + 1
      BY <1>1, <1>3, <1>5, <1>9, <2>2
    <2>3. QED
      BY <2>1, <2>2
  <1>11. ToSet(u) = ToSet(s) \cup {x}
    <2>1. \A y \in ToSet(u) : y \in ToSet(s) \cup {x}
      BY <1>2, <1>3, <1>4, <1>5 DEF ToSet
    <2>2. \A j \in 1..(Len(s) + 1) : u[j] \in ToSet(u)
      BY <1>4 DEF ToSet
    <2>3. \A y \in ToSet(s) : \E i \in 1..Len(s) : y = s[i]
      BY <1>2 DEF ToSet
    <2>4. \A y \in ToSet(s) : y \in ToSet(u)
      BY <1>7, <2>2, <2>3
    <2>5. x \in ToSet(u)
      BY <1>3, <1>8, <2>2
    <2>6. QED
      BY <2>1, <2>4, <2>5
  <1>12. Ids(u) = Ids(s) \cup {c.id}
    <2>1. \A y : Ids(y) = {z.id : z \in ToSet(y)}
      BY DEF Ids, ToSet
    <2>2. QED
      BY <1>1, <1>11, <2>1
  <1>13. u # <<>>
    <2>1. x \in ToSet(u) /\ ToSet(<<>>) = {}
      BY <1>11, EmptyIsSeq
    <2>2. QED
      BY <2>1
  <1>14. QED
    BY <1>3, <1>10, <1>11, <1>12, <1>13 DEF x

\* The place of the node of an id.
LEMMA PlaceOf ==
    ASSUME NEW s, IsSeq(s), NEW id, id \in Ids(s)
    PROVE  /\ SelectInSeq(s, LAMBDA n : n.id = id) \in 1..Len(s)
           /\ s[SelectInSeq(s, LAMBDA n : n.id = id)].id = id
  <1> DEFINE I == {i \in 1..Len(s) : s[i].id = id}
             k == SelectInSeq(s, LAMBDA n : n.id = id)
  <1>1. Len(s) \in Nat /\ DOMAIN s = 1..Len(s)
    BY SeqFacts
  <1>2. I # {} /\ I \subseteq Nat
    BY <1>1 DEF Ids
  <1>3. \E m \in I : \A y \in I : m <= y
    <2> HIDE DEF I
    <2>1. QED
      BY <1>2, Least
  <1>4. Min(I) \in I
    BY <1>3 DEF Min
  <1>5. k = IF I # {} THEN Min(I) ELSE 0
    BY DEF SelectInSeq
  <1>6. k \in I
    BY <1>2, <1>4, <1>5
  <1>7. QED
    BY <1>6

\* The node is gone, and the others are still there.
LEMMA RemovedNodes ==
    ASSUME NEW s, IsSeq(s), Distinct(s), NEW k \in 1..Len(s), NEW u, u = RemoveAt(s, k)
    PROVE  /\ IsSeq(u) /\ Distinct(u) /\ Len(u) = Len(s) - 1
           /\ ToSet(u) = ToSet(s) \ {s[k]}
           /\ Ids(u) = Ids(s) \ {s[k].id}
  <1>1. Len(s) \in Nat /\ DOMAIN s = 1..Len(s)
    BY SeqFacts
  <1>2. /\ IsSeq(u) /\ Len(u) = Len(s) - 1
        /\ \A i \in 1..(k - 1) : u[i] = s[i]
        /\ \A i \in k..(Len(s) - 1) : u[i] = s[i + 1]
    BY Removing
  <1>3. DOMAIN u = 1..(Len(s) - 1)
    BY <1>2, SeqFacts
  <1> DEFINE from(i) == IF i < k THEN i ELSE i + 1
  <1>4. \A i \in 1..(Len(s) - 1) : from(i) \in 1..Len(s) /\ from(i) # k /\ u[i] = s[from(i)]
    <2> TAKE i \in 1..(Len(s) - 1)
    <2>1. CASE i < k
      <3>1. i \in 1..(k - 1) /\ i \in 1..Len(s) /\ i # k
        BY <1>1, <2>1
      <3>2. QED
        BY <1>2, <2>1, <3>1
    <2>2. CASE ~(i < k)
      <3>1. i \in k..(Len(s) - 1) /\ i + 1 \in 1..Len(s) /\ i + 1 # k
        BY <1>1, <2>2
      <3>2. QED
        BY <1>2, <2>2, <3>1
    <2>3. QED
      BY <2>1, <2>2
  <1>5. \A i, j \in 1..(Len(s) - 1) : from(i) = from(j) => i = j
    BY <1>1
  <1>6. \A i \in 1..Len(s) : i # k => \E j \in 1..(Len(s) - 1) : u[j] = s[i]
    <2> TAKE i \in 1..Len(s)
    <2> HAVE i # k
    <2>1. CASE i < k
      <3>1. i \in 1..(k - 1) /\ i \in 1..(Len(s) - 1)
        BY <1>1, <2>1
      <3>2. QED
        BY <1>2, <3>1
    <2>2. CASE i > k
      <3>1. i - 1 \in k..(Len(s) - 1) /\ i - 1 \in 1..(Len(s) - 1) /\ (i - 1) + 1 = i
        BY <1>1, <2>2
      <3>2. QED
        BY <1>2, <3>1
    <2>3. QED
      BY <1>1, <2>1, <2>2
  <1> HIDE DEF from
  <1>7. Distinct(u)
    BY <1>1, <1>3, <1>4, <1>5 DEF Distinct
  <1>8. \A i \in 1..Len(s) : s[i].id = s[k].id => i = k
    BY <1>1 DEF Distinct
  <1>9. ToSet(u) = ToSet(s) \ {s[k]}
    <2>1. \A y \in ToSet(u) : y \in ToSet(s) \ {s[k]}
      <3>1. \A i \in 1..(Len(s) - 1) : u[i] \in ToSet(s) \ {s[k]}
        BY <1>1, <1>4, <1>8 DEF ToSet
      <3>2. QED
        BY <1>3, <3>1 DEF ToSet
    <2>2. \A y \in ToSet(s) \ {s[k]} : y \in ToSet(u)
      BY <1>1, <1>3, <1>6 DEF ToSet
    <2>3. QED
      BY <2>1, <2>2
  <1>10. Ids(u) = Ids(s) \ {s[k].id}
    <2>1. \A y : Ids(y) = {z.id : z \in ToSet(y)}
      BY DEF Ids, ToSet
    <2>2. \A z \in ToSet(s) : z.id = s[k].id => z = s[k]
      BY <1>1, <1>8 DEF ToSet
    <2>3. s[k] \in ToSet(s)
      BY <1>1 DEF ToSet
    <2>4. QED
      BY <1>9, <2>1, <2>2, <2>3
  <1>11. QED
    BY <1>2, <1>7, <1>9, <1>10

\* u is s with r in place of the i-th item.
Puts(u, s, i, r) ==
    /\ u = [j \in DOMAIN s |-> u[j]] /\ DOMAIN u = DOMAIN s
    /\ u[i] = r
    /\ \A j \in DOMAIN s : j # i => u[j] = s[j]

\* One item of a list is replaced by another of its id.
LEMMA Replaced ==
    ASSUME NEW s, IsSeq(s), Distinct(s), NEW i \in DOMAIN s, NEW r, r.id = s[i].id,
           NEW u, Puts(u, s, i, r)
    PROVE  /\ IsSeq(u) /\ Distinct(u) /\ DOMAIN u = DOMAIN s /\ u[i] = r
           /\ \A j \in DOMAIN s : j # i => u[j] = s[j]
           /\ ToSet(u) = (ToSet(s) \ {s[i]}) \cup {r}
  <1>1. Len(s) \in Nat /\ DOMAIN s = 1..Len(s)
    BY SeqFacts
  <1>2. DOMAIN u = DOMAIN s /\ u[i] = r /\ \A j \in DOMAIN s : j # i => u[j] = s[j]
    BY DEF Puts
  <1>3. u = [j \in 1..Len(s) |-> u[j]]
    BY <1>1 DEF Puts
  <1>4. IsSeq(u)
    BY <1>1, <1>3, FunctionIsSeq
  <1>5. \A j \in DOMAIN s : u[j].id = s[j].id
    BY <1>2
  <1>6. Distinct(u)
    BY <1>2, <1>5 DEF Distinct
  <1>7. \A j \in DOMAIN s : s[j] = s[i] => j = i
    BY DEF Distinct
  <1>8. ToSet(u) = (ToSet(s) \ {s[i]}) \cup {r}
    <2>1. \A y \in ToSet(u) : y \in (ToSet(s) \ {s[i]}) \cup {r}
      <3>1. \A j \in DOMAIN s : u[j] \in (ToSet(s) \ {s[i]}) \cup {r}
        BY <1>2, <1>7 DEF ToSet
      <3>2. QED
        BY <1>2, <3>1 DEF ToSet
    <2>2. \A y \in (ToSet(s) \ {s[i]}) \cup {r} : y \in ToSet(u)
      BY <1>2 DEF ToSet
    <2>3. QED
      BY <2>1, <2>2
  <1>9. QED
    BY <1>2, <1>4, <1>6, <1>8

\* One item more.
LEMMA AppendedItem ==
    ASSUME NEW s, IsSeq(s), Distinct(s), NEW r, r.id \notin Ids(s), NEW u, u = Append(s, r)
    PROVE  IsSeq(u) /\ Distinct(u) /\ ToSet(u) = ToSet(s) \cup {r}
  <1>1. Len(s) \in Nat /\ DOMAIN s = 1..Len(s)
    BY SeqFacts
  <1>2. /\ DOMAIN u = 1..(Len(s) + 1) /\ u[Len(s) + 1] = r
        /\ \A i \in 1..Len(s) : u[i] = s[i] /\ i \in 1..(Len(s) + 1)
        /\ IsSeq(u)
    <2> DEFINE T == ToSet(s) \cup {r}
    <2>1. s \in Seq(T) /\ r \in T
      BY SeqFacts
    <2> HIDE DEF T
    <2>2. /\ u \in Seq(T) /\ Len(u) = Len(s) + 1 /\ u[Len(s) + 1] = r
          /\ \A i \in 1..Len(s) : u[i] = s[i]
      BY <2>1, AppendProperties
    <2>3. IsSeq(u)
      BY <2>2, SeqFromSet
    <2>4. DOMAIN u = 1..Len(u)
      BY <2>3, SeqFacts
    <2>5. \A i \in 1..Len(s) : i \in 1..(Len(s) + 1)
      BY <1>1
    <2>6. QED
      BY <2>2, <2>3, <2>4, <2>5
  <1>3. Len(s) + 1 \in 1..(Len(s) + 1) /\ \A i \in 1..(Len(s) + 1) : i \in 1..Len(s) \/ i = Len(s) + 1
    BY <1>1
  <1>5. \A i \in 1..Len(s) : s[i].id \in Ids(s)
    BY <1>1 DEF Ids
  <1>6. Distinct(u)
    BY <1>1, <1>2, <1>3, <1>5 DEF Distinct
  <1>7. ToSet(u) = ToSet(s) \cup {r}
    <2>1. \A y \in ToSet(u) : y \in ToSet(s) \cup {r}
      BY <1>1, <1>2, <1>3 DEF ToSet
    <2>2. \A y \in ToSet(s) \cup {r} : y \in ToSet(u)
      BY <1>1, <1>2, <1>3 DEF ToSet
    <2>3. QED
      BY <2>1, <2>2
  <1>8. QED
    BY <1>2, <1>6, <1>7

\* The first node that is no backup is one of the region's.
LEMMA PrimaryIsNode ==
    ASSUME NEW r, IsSeq(r.nodes), r.nodes # <<>>
    PROVE  FirstPrimary(r) \in NodeIds(r)
  <1> DEFINE s == r.nodes
             P == {i \in DOMAIN s : ~s[i].backup}
  <1>1. Len(s) \in Nat /\ DOMAIN s = 1..Len(s) /\ Len(s) > 0
    <2>1. Len(s) \in Nat /\ DOMAIN s = 1..Len(s)
      BY SeqFacts
    <2>2. Len(s) # 0
      <3> HIDE DEF s
      <3>1. IsSeq(s) /\ s # <<>>
        BY DEF s
      <3>2. QED
        BY <3>1, EmptyIsSeq, SeqEquality
    <2>3. QED
      BY <2>1, <2>2
  <1>2. P # {} => Min(P) \in P
    <2>1. P \subseteq Nat
      BY <1>1
    <2> HIDE DEF P
    <2>2. P # {} => \E m \in P : \A y \in P : m <= y
      BY <2>1, Least
    <2>3. QED
      BY <2>2 DEF Min
  <1>3. FirstPrimary(r) = s[IF P # {} THEN Min(P) ELSE 1].id
    BY DEF FirstPrimary
  <1>4. (IF P # {} THEN Min(P) ELSE 1) \in DOMAIN s
    BY <1>1, <1>2
  <1>5. QED
    BY <1>3, <1>4 DEF NodeIds, Ids

-----------------------------------------------------------------------------
(* What an edit does to the list of regions.                               *)

\* r is the region o of s with other nodes, some in N, and its fallback with them.
Refitted(s, o, r, N) ==
    /\ r.id = o.id /\ r.type = o.type /\ r.routes = o.routes
    /\ r.vroute = o.vroute /\ r.warp = o.warp
    /\ Distinct(r.nodes) /\ NodeIds(r) \subseteq NodeIds(o) \cup N
    /\ \A q \in ToSet(s) : NodeIds(q) \cap N = {}
    /\ r.type = Exit /\ r.fallback # NoId => r.fallback \in NodeIds(r)
    /\ r.type = Hub => ~r.lb /\ r.fallback = NoId /\ ~r.nulled

\* A region gets other nodes, all its own, and its fallback with them.
LEMMA ReplacedSound ==
    ASSUME NEW s, IsSeq(s), RegionsSound(s), NEW i \in DOMAIN s, NEW o, o = s[i], NEW r, NEW N,
           Refitted(s, o, r, N), NEW u, Puts(u, s, i, r)
    PROVE  IsSeq(u) /\ RegionsSound(u) /\ ToSet(u) = (ToSet(s) \ {o}) \cup {r}
  <1>1. Distinct(s)
    BY DEF RegionsSound
  <1>2. IsSeq(u) /\ Distinct(u) /\ ToSet(u) = (ToSet(s) \ {o}) \cup {r}
    <2>1. r.id = s[i].id
      BY DEF Refitted
    <2>2. IsSeq(u) /\ Distinct(u) /\ ToSet(u) = (ToSet(s) \ {s[i]}) \cup {r}
      BY ONLY IsSeq(s), <1>1, i \in DOMAIN s, <2>1, Puts(u, s, i, r), Replaced
    <2>3. QED
      BY <2>2
  <1> DEFINE Rest == ToSet(s) \ {o}
  <1>3. ToSet(u) = Rest \cup {r}
    BY <1>2
  <1>4. o \in ToSet(s) /\ \A q \in Rest : q \in ToSet(s) /\ q # o
    BY DEF ToSet
  <1>5. \A q \in ToSet(u) : Distinct(q.nodes)
    BY <1>3, <1>4 DEF RegionsSound, Refitted
  <1>6. \A q \in Rest : NodeIds(q) \cap NodeIds(r) = {}
    <2>1. \A q \in Rest : NodeIds(q) \cap NodeIds(o) = {}
      BY <1>4 DEF RegionsSound
    <2>2. QED
      BY <2>1, <1>4 DEF Refitted
  <1>7. \A x, y \in ToSet(u) : x # y => NodeIds(x) \cap NodeIds(y) = {}
    <2>1. \A x, y \in Rest : x # y => NodeIds(x) \cap NodeIds(y) = {}
      BY <1>4 DEF RegionsSound
    <2> HIDE DEF Rest
    <2>2. QED
      BY <1>3, <1>6, <2>1
  <1>8. \A q \in ToSet(u) : q.type = Exit =>
          /\ q.vroute \notin {NoRoute, q.warp}
          /\ q.fallback # NoId => q.fallback \in NodeIds(q)
          /\ \A route \in ToSet(q.routes) : route.dest \in Specials
    <2>1. \A q \in Rest \cup {o} : q.type = Exit =>
            /\ q.vroute \notin {NoRoute, q.warp}
            /\ q.fallback # NoId => q.fallback \in NodeIds(q)
            /\ \A route \in ToSet(q.routes) : route.dest \in Specials
      BY <1>4 DEF RegionsSound
    <2> HIDE DEF Rest
    <2>2. QED
      BY <1>3, <2>1 DEF Refitted
  <1>9. \A x, y \in ToSet(u) : (x.type = Exit /\ y.type = Exit /\ x # y) =>
          {x.vroute, x.warp} \cap {y.vroute, y.warp} \subseteq {NoRoute}
    <2>1. \A x, y \in Rest \cup {o} : (x.type = Exit /\ y.type = Exit /\ x # y) =>
            {x.vroute, x.warp} \cap {y.vroute, y.warp} \subseteq {NoRoute}
      BY <1>4 DEF RegionsSound
    <2>2. \A x \in Rest : x # o
      OBVIOUS
    <2> HIDE DEF Rest
    <2>3. \A x, y \in Rest : (x.type = Exit /\ y.type = Exit /\ x # y) =>
            {x.vroute, x.warp} \cap {y.vroute, y.warp} \subseteq {NoRoute}
      BY <2>1
    <2>4. \A x \in Rest : (x.type = Exit /\ r.type = Exit) =>
            /\ {x.vroute, x.warp} \cap {r.vroute, r.warp} \subseteq {NoRoute}
            /\ {r.vroute, r.warp} \cap {x.vroute, x.warp} \subseteq {NoRoute}
      BY <2>1, <2>2 DEF Refitted
    <2>5. QED
      BY <1>3, <2>3, <2>4
  <1>10. \A q \in ToSet(u) : q.type = Hub => ~q.lb /\ q.fallback = NoId /\ ~q.nulled
    BY <1>3, <1>4 DEF RegionsSound, Refitted
  <1>11. QED
    BY <1>2, <1>5, <1>7, <1>8, <1>9, <1>10 DEF RegionsSound

\* A region more, with nodes, an id and a route of its own.
LEMMA AppendedSound ==
    ASSUME NEW s, IsSeq(s), RegionsSound(s), NEW r, r.id \notin Ids(s), Distinct(r.nodes),
           \A q \in ToSet(s) : NodeIds(q) \cap NodeIds(r) = {},
           r.fallback = NoId, r.lb = FALSE, ~r.nulled, r.routes = <<>>, r.warp = NoRoute,
           r.type = Exit => /\ r.vroute # NoRoute
                            /\ \A q \in ToSet(s) : r.vroute # q.vroute /\ r.vroute # q.warp,
           NEW u, u = Append(s, r)
    PROVE  IsSeq(u) /\ RegionsSound(u) /\ ToSet(u) = ToSet(s) \cup {r}
  <1>1. Distinct(s)
    BY DEF RegionsSound
  <1>2. IsSeq(u) /\ Distinct(u) /\ ToSet(u) = ToSet(s) \cup {r}
    BY <1>1, AppendedItem
  <1>3. ToSet(r.routes) = {}
    BY EmptyIsSeq
  <1>4. \A q \in ToSet(u) : Distinct(q.nodes)
    BY <1>2 DEF RegionsSound
  <1>5. \A x, y \in ToSet(u) : x # y => NodeIds(x) \cap NodeIds(y) = {}
    BY <1>2 DEF RegionsSound
  <1>6. \A q \in ToSet(u) : q.type = Exit =>
          /\ q.vroute \notin {NoRoute, q.warp}
          /\ q.fallback # NoId => q.fallback \in NodeIds(q)
          /\ \A route \in ToSet(q.routes) : route.dest \in Specials
    BY <1>2, <1>3 DEF RegionsSound
  <1>7. \A x, y \in ToSet(u) : (x.type = Exit /\ y.type = Exit /\ x # y) =>
          {x.vroute, x.warp} \cap {y.vroute, y.warp} \subseteq {NoRoute}
    <2>1. \A x, y \in ToSet(s) : (x.type = Exit /\ y.type = Exit /\ x # y) =>
            {x.vroute, x.warp} \cap {y.vroute, y.warp} \subseteq {NoRoute}
      BY DEF RegionsSound
    <2>2. \A x \in ToSet(s) : (x.type = Exit /\ r.type = Exit) =>
            /\ {x.vroute, x.warp} \cap {r.vroute, r.warp} \subseteq {NoRoute}
            /\ {r.vroute, r.warp} \cap {x.vroute, x.warp} \subseteq {NoRoute}
      OBVIOUS
    <2>3. QED
      BY <1>2, <2>1, <2>2
  <1>8. \A q \in ToSet(u) : q.type = Hub => ~q.lb /\ q.fallback = NoId /\ ~q.nulled
    BY <1>2 DEF RegionsSound
  <1>9. QED
    BY <1>2, <1>4, <1>5, <1>6, <1>7, <1>8 DEF RegionsSound

\* A document with other regions and routes.
With(d, u, v) == [d EXCEPT !.regions = u, !.routes = v]

\* It is a document, and the rest of it is what it was.
LEMMA Changed ==
    ASSUME NEW d \in DocumentRecords, NEW u, IsSeq(u), ToSet(u) \subseteq RegionRecords,
           NEW v, IsSeq(v), ToSet(v) \subseteq HubRouteRecords,
           NEW e, e = With(d, u, v)
    PROVE  /\ e \in DocumentRecords /\ e.regions = u /\ e.routes = v
           /\ e.portals = d.portals /\ e.users = d.users /\ e.globals = d.globals
           /\ e.default = d.default /\ e.taken = d.taken /\ e.routesBlock = d.routesBlock
  <1>1. u \in Seq(RegionRecords) /\ v \in Seq(HubRouteRecords)
    BY SeqFacts
  <1>2. QED
    BY <1>1 DEF DocumentRecords, With

\* What a document says beside regions and routes is kept.
LEMMA RestKept ==
    ASSUME NEW d, RestSound(d), NEW e, e.portals = d.portals, e.users = d.users,
           e.globals = d.globals, e.taken = d.taken
    PROVE  RestSound(e)
  BY DEF RestSound, PublishSound

\* Routes that stay lead where they led.
LEMMA RoutesKept ==
    ASSUME NEW d, RoutesSound(d), NEW e, e.users = d.users, e.default = d.default,
           ToSet(e.routes) \subseteq ToSet(d.routes),
           \A route \in ToSet(e.routes) : DestSound(d, route.dest) => DestSound(e, route.dest),
           IdsOf(ExitsOf(d)) \subseteq IdsOf(ExitsOf(e))
    PROVE  RoutesSound(e)
  BY DEF RoutesSound, RouteSound

\* The region that a node joins, and the one that a node leaves.
Joined(o, c) == [o EXCEPT !.nodes = Inserted(@, c), !.fallback = FallbackWritten(o)]
Left(o, id) == [o EXCEPT !.nodes = RemoveAt(@, SelectInSeq(o.nodes, LAMBDA n : n.id = id)),
                         !.fallback = IF @ = id THEN NoId ELSE @]

\* A node joins a region (TopologyEditor.add_node).
LEMMA JoinedSound ==
    ASSUME NEW d, Sound(d), NEW c \in CommandRecords, c.op = "add", ~HasNode(d, c.id),
           NEW i \in DOMAIN d.regions, NEW e, e = AddToRegion(d, i, c)
    PROVE  /\ Sound(e) /\ e.routes = d.routes
           /\ IdsOf(HubsOf(e)) = IdsOf(HubsOf(d))
           /\ IdsOf(ToSet(e.regions)) = IdsOf(ToSet(d.regions))
           /\ Puts(e.regions, d.regions, i, Joined(d.regions[i], c))
           /\ e = With(d, e.regions, d.routes) /\ e.routesBlock = d.routesBlock
  <1> DEFINE s == d.regions
             o == s[i]
             n == Inserted(o.nodes, c)
             r == Joined(o, c)
             u == [s EXCEPT ![i] = r]
  <1>1. d \in DocumentRecords /\ RegionsSound(s) /\ RestSound(d) /\ RoutesSound(d)
    BY DEF Sound
  <1>2. /\ IsSeq(s) /\ ToSet(s) \subseteq RegionRecords
        /\ IsSeq(d.routes) /\ ToSet(d.routes) \subseteq HubRouteRecords
        /\ o \in ToSet(s)
    BY <1>1, Documented DEF ToSet
  <1>3. o \in RegionRecords /\ IsSeq(o.nodes) /\ ToSet(o.nodes) \subseteq NodeRecords /\ Distinct(o.nodes)
    BY <1>1, <1>2, Documented DEF RegionsSound
  <1>4. c.id \notin Ids(o.nodes) /\ \A q \in ToSet(s) : NodeIds(q) \cap {c.id} = {}
    BY <1>2 DEF HasNode, NodeIds
  <1>5. /\ IsSeq(n) /\ Distinct(n) /\ n # <<>>
        /\ ToSet(n) = ToSet(o.nodes) \cup {NewNode(c)}
        /\ Ids(n) = Ids(o.nodes) \cup {c.id}
    BY <1>3, <1>4, InsertedNodes
  <1>6. NewNode(c) \in NodeRecords
    BY DEF NewNode, NodeRecords, CommandRecords
  <1> HIDE DEF n
  <1>7. n \in Seq(NodeRecords)
    BY <1>3, <1>5, <1>6, SeqFacts
  <1>8. /\ FallbackWritten(o) \in Id
        /\ FallbackWritten(o) \in {o.fallback} \cup Ids(o.nodes)
    <2>1. o.nodes # <<>> => FirstPrimary(o) \in Ids(o.nodes)
      BY <1>3, PrimaryIsNode DEF NodeIds
    <2>2. Ids(o.nodes) \subseteq Id
      BY <1>3 DEF Ids, ToSet, NodeRecords
    <2>3. o.fallback \in Id
      BY <1>3 DEF RegionRecords
    <2>4. QED
      BY <2>1, <2>2, <2>3 DEF FallbackWritten
  <1>9. /\ r \in RegionRecords /\ r.nodes = n /\ r.fallback = FallbackWritten(o)
        /\ r.id = o.id /\ r.type = o.type /\ r.vroute = o.vroute /\ r.warp = o.warp /\ r.routes = o.routes
        /\ r.lb = o.lb /\ r.nulled = o.nulled
    BY <1>3, <1>7, <1>8 DEF Joined, n, RegionRecords
  <1>10. e = With(d, u, d.routes)
    BY <1>1, <1>2, <1>3 DEF AddToRegion, Joined, With, DocumentRecords, RegionRecords, IsSeq
  <1> HIDE DEF r
  <1>11. NodeIds(r) = NodeIds(o) \cup {c.id} /\ Distinct(r.nodes)
    BY <1>5, <1>9 DEF NodeIds
  <1>12. r.type = Exit /\ r.fallback # NoId => r.fallback \in NodeIds(r)
    BY <1>1, <1>2, <1>8, <1>9, <1>11 DEF RegionsSound, NodeIds
  <1>25. r.type = Hub => ~r.lb /\ r.fallback = NoId /\ ~r.nulled
    BY <1>1, <1>2, <1>9 DEF RegionsSound, FallbackWritten
  <1>13. Puts(u, s, i, r)
    <2>1. s = [j \in DOMAIN s |-> s[j]]
      BY <1>2 DEF IsSeq
    <2>2. QED
      BY <2>1 DEF Puts
  <1> HIDE DEF u
  <1>14. IsSeq(u) /\ RegionsSound(u) /\ ToSet(u) = (ToSet(s) \ {o}) \cup {r}
    <2>1. Refitted(s, o, r, {c.id})
      BY <1>4, <1>9, <1>11, <1>12, <1>25 DEF Refitted
    <2>2. o = s[i] /\ i \in DOMAIN s
      OBVIOUS
    <2> HIDE DEF o, s
    <2>3. QED
      BY ONLY <1>1, <1>2, <1>13, <2>1, <2>2, ReplacedSound
  <1>15. ToSet(u) \subseteq RegionRecords
    BY <1>2, <1>9, <1>14
  <1>16. /\ e \in DocumentRecords /\ e.regions = u /\ e.routes = d.routes
         /\ e.portals = d.portals /\ e.users = d.users /\ e.globals = d.globals
         /\ e.default = d.default /\ e.taken = d.taken /\ e.routesBlock = d.routesBlock
    BY <1>1, <1>2, <1>10, <1>14, <1>15, Changed
  <1>17. RestSound(e)
    BY <1>1, <1>16, RestKept
  <1> HIDE DEF o, s
  <1>18. ToSet(e.regions) = (ToSet(d.regions) \ {o}) \cup {r} /\ o \in ToSet(d.regions)
    BY <1>2, <1>14, <1>16 DEF s
  <1>19. /\ IdsOf(ExitsOf(e)) = IdsOf(ExitsOf(d)) /\ IdsOf(HubsOf(e)) = IdsOf(HubsOf(d))
         /\ IdsOf(ToSet(e.regions)) = IdsOf(ToSet(d.regions))
    BY <1>9, <1>18 DEF IdsOf, ExitsOf, HubsOf
  <1>20. IdsOf(Filled(ExitsOf(d))) \subseteq IdsOf(Filled(ExitsOf(e)))
    BY <1>5, <1>9, <1>18 DEF IdsOf, ExitsOf, Filled
  <1>21. NodesOf(ExitsOf(d)) \subseteq NodesOf(ExitsOf(e))
    BY <1>9, <1>11, <1>18 DEF NodesOf, ExitsOf
  <1>22. \A dest : DestSound(d, dest) => DestSound(e, dest)
    BY <1>19, <1>20, <1>21 DEF DestSound
  <1>23. RoutesSound(e)
    BY <1>1, <1>16, <1>19, <1>22, RoutesKept
  <1>24. QED
    <2>1. Puts(e.regions, d.regions, i, Joined(d.regions[i], c))
      BY <1>13, <1>16 DEF o, s, r
    <2>2. e = With(d, e.regions, d.routes)
      BY <1>10, <1>16
    <2>3. QED
      BY <1>14, <1>16, <1>17, <1>19, <1>23, <2>1, <2>2 DEF Sound

\* The new region has a type and the route its type asks for.
Typed(d, c, v) ==
    /\ c.type # AnyType
    /\ c.type = Exit => v \in VlessRange \ UsedRoutes(d)
    /\ c.type = Hub => v = NoRoute

\* A region is added with the node (TopologyEditor.add_node).
LEMMA CreatedSound ==
    ASSUME NEW d, Sound(d), NEW c \in CommandRecords, c.op = "add", ~HasNode(d, c.id),
           Position(d, c.region) = {}, NEW v, Typed(d, c, v), NEW e, e = AddRegion(d, c, v)
    PROVE  /\ Sound(e) /\ e.routes = d.routes
           /\ IdsOf(HubsOf(e)) = IdsOf(HubsOf(d)) \cup (IF c.type = Hub THEN {c.region} ELSE {})
           /\ IdsOf(ToSet(e.regions)) = IdsOf(ToSet(d.regions)) \cup {c.region}
           /\ \A j \in DOMAIN d.regions : e.regions[j] = d.regions[j]
  <1> DEFINE s == d.regions
             n == <<NewNode(c)>>
             r == [type |-> c.type, id |-> c.region, nodes |-> n, lb |-> FALSE, fallback |-> NoId,
                   vroute |-> v, warp |-> NoRoute, routes |-> <<>>, warpDomains |-> {}, block |-> TRUE,
                   nulled |-> FALSE]
             u == Append(s, r)
  <1>1. d \in DocumentRecords /\ RegionsSound(s) /\ RestSound(d) /\ RoutesSound(d)
    BY DEF Sound
  <1>2. /\ IsSeq(s) /\ ToSet(s) \subseteq RegionRecords
        /\ IsSeq(d.routes) /\ ToSet(d.routes) \subseteq HubRouteRecords
    BY <1>1, Documented
  <1>3. NewNode(c) \in NodeRecords /\ NewNode(c).id = c.id
    BY DEF NewNode, NodeRecords, CommandRecords
  <1>4. IsSeq(n) /\ ToSet(n) = {NewNode(c)} /\ n # <<>>
    BY OneShape
  <1>5. Distinct(n) /\ Ids(n) = {c.id}
    <2>1. DOMAIN n = {1} /\ n[1] = NewNode(c)
      OBVIOUS
    <2> HIDE DEF n
    <2>2. QED
      BY <1>3, <2>1 DEF Distinct, Ids
  <1>6. n \in Seq(NodeRecords)
    BY <1>3, <1>4, SeqFacts
  <1> HIDE DEF n
  <1>7. /\ c.type \in {Exit, Hub} /\ c.region \in Id
        /\ c.type = Exit => v \in VlessRange \ UsedRoutes(d)
        /\ c.type = Hub => v = NoRoute
    BY DEF CommandRecords, Typed
  <1>8. v \in {NoRoute} \cup VlessRoute /\ (c.type = Exit => v # NoRoute)
    <2>1. ASSUME c.type = Exit PROVE v \in VlessRoute /\ v # NoRoute
      <3>1. v \in VlessRoute
        <4>1. v \in VlessRange
          BY <1>7, <2>1
        <4>2. QED
          BY ONLY <4>1, RoutesDrawn
      <3>2. NoRoute \notin VlessRoute
        BY ONLY TRUE DEF VlessRoute, NoRoute
      <3>3. QED
        BY <3>1, <3>2
    <2>2. QED
      BY <1>7, <2>1
  <1>9. /\ r \in RegionRecords /\ r.nodes = n /\ r.fallback = NoId /\ r.routes = <<>>
        /\ r.warp = NoRoute /\ r.id = c.region /\ r.type = c.type /\ r.vroute = v /\ r.lb = FALSE
        /\ ~r.nulled
    <2>1. NoId \in Id /\ {} \in Matcher /\ <<>> \in Seq(ExitRouteRecords)
      BY DEF NoId, Id, Matcher
    <2>2. QED
      BY <1>6, <1>7, <1>8, <2>1 DEF RegionRecords
  <1>10. e = With(d, u, d.routes)
    BY <1>1 DEF AddRegion, With, n, DocumentRecords
  <1> HIDE DEF r
  <1>11. r.id \notin Ids(s)
    BY <1>9 DEF Position, Ids
  <1>12. Distinct(r.nodes) /\ NodeIds(r) = {c.id}
    BY <1>5, <1>9 DEF NodeIds
  <1>13. \A q \in ToSet(s) : NodeIds(q) \cap NodeIds(r) = {}
    BY <1>12 DEF HasNode
  <1>14. r.type = Exit => /\ r.vroute # NoRoute
                          /\ \A q \in ToSet(s) : r.vroute # q.vroute /\ r.vroute # q.warp
    <2>1. ASSUME NEW q \in ToSet(s) PROVE {q.vroute, q.warp} \subseteq UsedRoutes(d) \cup {NoRoute}
      <3>1. {q.vroute, q.warp} \in {{x.vroute, x.warp} : x \in ToSet(d.regions)}
        OBVIOUS
      <3>2. QED
        BY <3>1 DEF UsedRoutes
    <2>2. QED
      BY <1>7, <1>8, <1>9, <2>1
  <1>15. u = Append(s, r)
    OBVIOUS
  <1> HIDE DEF u
  <1>16. IsSeq(u) /\ RegionsSound(u) /\ ToSet(u) = ToSet(s) \cup {r}
    <2> HIDE DEF s
    <2>1. QED
      BY <1>1, <1>2, <1>9, <1>11, <1>12, <1>13, <1>14, <1>15, AppendedSound
  <1>17. ToSet(u) \subseteq RegionRecords
    BY <1>2, <1>9, <1>16
  <1>18. /\ e \in DocumentRecords /\ e.regions = u /\ e.routes = d.routes
         /\ e.portals = d.portals /\ e.users = d.users /\ e.globals = d.globals
         /\ e.default = d.default /\ e.taken = d.taken
    BY <1>1, <1>2, <1>10, <1>16, <1>17, Changed
  <1>19. RestSound(e)
    BY <1>1, <1>18, RestKept
  <1>20. ToSet(e.regions) = ToSet(d.regions) \cup {r}
    BY <1>16, <1>18
  <1>21. /\ IdsOf(ExitsOf(d)) \subseteq IdsOf(ExitsOf(e))
         /\ IdsOf(HubsOf(e)) = IdsOf(HubsOf(d)) \cup (IF c.type = Hub THEN {c.region} ELSE {})
         /\ IdsOf(ToSet(e.regions)) = IdsOf(ToSet(d.regions)) \cup {c.region}
    <2>1. IdsOf(ExitsOf(d)) \subseteq IdsOf(ExitsOf(e))
      BY <1>20 DEF IdsOf, ExitsOf
    <2>2. c.type = Hub => HubsOf(e) = HubsOf(d) \cup {r}
      BY <1>9, <1>20 DEF HubsOf
    <2>3. c.type # Hub => HubsOf(e) = HubsOf(d)
      BY <1>9, <1>20 DEF HubsOf
    <2>4. QED
      BY <1>9, <1>20, <2>1, <2>2, <2>3, Zenon DEF IdsOf
  <1>22. IdsOf(Filled(ExitsOf(e))) = IdsOf(Filled(ExitsOf(d))) \cup (IdsOf(ExitsOf(e)) \ IdsOf(ExitsOf(d)))
    <2>1. ExitsOf(e) \in {ExitsOf(d), ExitsOf(d) \cup {r}}
      BY <1>20 DEF ExitsOf
    <2>2. r.nodes # <<>> /\ r.id \notin IdsOf(ExitsOf(d))
      <3>1. r.id \notin IdsOf(ExitsOf(d))
        BY <1>2, <1>11 DEF IdsOf, ExitsOf, ToSet, Ids
      <3>2. QED
        BY <1>4, <1>9, <3>1
    <2>3. QED
      BY <2>1, <2>2 DEF IdsOf, Filled
  <1>23. NodesOf(ExitsOf(d)) \subseteq NodesOf(ExitsOf(e))
    BY <1>20 DEF NodesOf, ExitsOf
  <1>24. \A dest : DestSound(d, dest) => DestSound(e, dest)
    BY <1>21, <1>22, <1>23 DEF DestSound
  <1>25. RoutesSound(e)
    BY <1>1, <1>18, <1>21, <1>24, RoutesKept
  <1>26. QED
    <2>1. \A j \in DOMAIN s : u[j] = s[j]
      <3>1. s \in Seq(RegionRecords) /\ r \in RegionRecords
        BY <1>2, <1>9, SeqFacts
      <3>2. DOMAIN s = 1..Len(s)
        BY <1>2, SeqFacts
      <3> HIDE DEF s
      <3>3. QED
        BY <1>15, <3>1, <3>2, AppendProperties
    <2>2. QED
      BY <1>16, <1>18, <1>19, <1>21, <1>25, <2>1 DEF Sound

\* The routes that stay when those to G go.
RoutesBut(s, G) == Where(s, LAMBDA route : route.dest \notin G)

\* They are the routes of the list that do not lead to G.
LEMMA RoutesLeft ==
    ASSUME NEW s, IsSeq(s), NEW G
    PROVE  /\ IsSeq(RoutesBut(s, G))
           /\ ToSet(RoutesBut(s, G)) = {route \in ToSet(s) : route.dest \notin G}
  <1> DEFINE f == [i \in DOMAIN s |-> Only(s[i].dest \notin G, s[i])]
             T == {route \in ToSet(s) : route.dest \notin G}
  <1>1. RoutesBut(s, G) = FlattenSeq(f)
    BY DEF RoutesBut, Where, Concat
  <1>2. Len(s) \in Nat /\ DOMAIN s = 1..Len(s) /\ \A i \in 1..Len(s) : s[i] \in ToSet(s)
    BY SeqFacts, Elements
  <1>3. \A i \in 1..Len(s) : f[i] = IF s[i].dest \notin G THEN <<s[i]>> ELSE <<>>
    BY <1>2 DEF Only
  <1>4. \A i \in 1..Len(s) : /\ IsSeq(f[i])
                             /\ ToSet(f[i]) = IF s[i].dest \notin G THEN {s[i]} ELSE {}
    <2> HIDE DEF f
    <2>1. QED
      BY <1>3, OneShape, EmptyIsSeq
  <1>5. f = [i \in DOMAIN s |-> f[i]]
    OBVIOUS
  <1> HIDE DEF f
  <1>6. IsMap(f, s)
    BY <1>4, <1>5 DEF IsMap
  <1>7. T \subseteq ToSet(s) /\ \A i \in 1..Len(s) : ToSet(f[i]) = IF s[i] \in T THEN {s[i]} ELSE {}
    BY <1>2, <1>4
  <1>8. IsSeq(FlattenSeq(f)) /\ ToSet(FlattenSeq(f)) = T
    <2> HIDE DEF T
    <2>1. QED
      BY <1>2, <1>6, <1>7, FilterElements
  <1>9. QED
    BY <1>1, <1>8

\* A node leaves its region, and what pointed at it goes (TopologyEditor.remove_node).
LEMMA LeftSound ==
    ASSUME NEW d, Sound(d), NEW i \in DOMAIN d.regions, NEW id, id \in NodeIds(d.regions[i]),
           NEW e, e = Without(d, i, id)
    PROVE  /\ Sound(e) /\ ToSet(e.routes) \subseteq ToSet(d.routes)
           /\ IdsOf(HubsOf(e)) = IdsOf(HubsOf(d))
           /\ IdsOf(ToSet(e.regions)) = IdsOf(ToSet(d.regions))
           /\ Puts(e.regions, d.regions, i, Left(d.regions[i], id))
           /\ e = With(d, e.regions, RoutesBut(d.routes, Gone(d, d.regions[i], id)))
  <1> DEFINE s == d.regions
             o == s[i]
             at == SelectInSeq(o.nodes, LAMBDA x : x.id = id)
             n == RemoveAt(o.nodes, at)
             fb == IF o.fallback = id THEN NoId ELSE o.fallback
             r == Left(o, id)
             u == [s EXCEPT ![i] = r]
             G == Gone(d, o, id)
             v == RoutesBut(d.routes, G)
  <1>1. d \in DocumentRecords /\ RegionsSound(s) /\ RestSound(d) /\ RoutesSound(d)
    BY DEF Sound
  <1>2. /\ IsSeq(s) /\ ToSet(s) \subseteq RegionRecords
        /\ IsSeq(d.routes) /\ ToSet(d.routes) \subseteq HubRouteRecords
        /\ o \in ToSet(s)
    BY <1>1, Documented DEF ToSet
  <1>3. o \in RegionRecords /\ IsSeq(o.nodes) /\ ToSet(o.nodes) \subseteq NodeRecords /\ Distinct(o.nodes)
    BY <1>1, <1>2, Documented DEF RegionsSound
  <1>4. id \in Ids(o.nodes)
    BY DEF NodeIds
  <1>5. at \in 1..Len(o.nodes) /\ o.nodes[at].id = id
    BY <1>3, <1>4, PlaceOf
  <1> HIDE DEF at
  <1>6. /\ IsSeq(n) /\ Distinct(n) /\ Len(n) = Len(o.nodes) - 1
        /\ ToSet(n) = ToSet(o.nodes) \ {o.nodes[at]}
        /\ Ids(n) = Ids(o.nodes) \ {id}
    BY <1>3, <1>5, RemovedNodes
  <1>7. e = With(d, u, v)
    BY <1>1, <1>2, <1>3, Zenon DEF Without, With, Left, RoutesBut, DocumentRecords, RegionRecords, IsSeq
  <1> HIDE DEF n
  <1>8. n \in Seq(NodeRecords)
    BY <1>3, <1>6, SeqFacts
  <1>9. n = <<>> => Len(o.nodes) = 1
    <2>1. Len(o.nodes) \in Nat
      BY <1>3, SeqFacts
    <2>2. n = <<>> => Len(n) = 0
      OBVIOUS
    <2>3. QED
      BY <1>6, <2>1, <2>2
  <1>10. /\ r \in RegionRecords /\ r.nodes = n /\ r.fallback = fb
         /\ r.id = o.id /\ r.type = o.type /\ r.vroute = o.vroute /\ r.warp = o.warp /\ r.routes = o.routes
         /\ r.lb = o.lb /\ r.nulled = o.nulled
    <2>1. fb \in Id
      <3>1. NoId \in Id
        BY DEF NoId, Id
      <3>2. o.fallback \in Id
        BY <1>3 DEF RegionRecords
      <3>3. QED
        BY <3>1, <3>2
    <2> HIDE DEF fb
    <2>2. QED
      BY <1>3, <1>8, <2>1 DEF Left, fb, n, at, RegionRecords
  <1> HIDE DEF r
  <1>11. NodeIds(r) = NodeIds(o) \ {id} /\ Distinct(r.nodes)
    BY <1>6, <1>10 DEF NodeIds
  <1>12. Refitted(s, o, r, {})
    <2>1. o.type = Exit /\ o.fallback # NoId => o.fallback \in NodeIds(o)
      BY <1>1, <1>2 DEF RegionsSound
    <2>2. r.type = Exit /\ r.fallback # NoId => r.fallback \in NodeIds(r)
      BY <1>10, <1>11, <2>1
    <2>3. r.type = Hub => ~r.lb /\ r.fallback = NoId /\ ~r.nulled
      BY <1>1, <1>2, <1>10 DEF RegionsSound
    <2>4. QED
      BY <1>10, <1>11, <2>2, <2>3 DEF Refitted
  <1>13. Puts(u, s, i, r)
    <2>1. s = [j \in DOMAIN s |-> s[j]]
      BY <1>2 DEF IsSeq
    <2>2. QED
      BY <2>1 DEF Puts
  <1> HIDE DEF u
  <1>14. IsSeq(u) /\ RegionsSound(u) /\ ToSet(u) = (ToSet(s) \ {o}) \cup {r}
    <2>1. o = s[i] /\ i \in DOMAIN s
      OBVIOUS
    <2> HIDE DEF o, s
    <2>2. QED
      BY ONLY <1>1, <1>2, <1>12, <1>13, <2>1, ReplacedSound
  <1>15. ToSet(u) \subseteq RegionRecords
    BY <1>2, <1>10, <1>14
  <1> HIDE DEF o, s, G
  <1>16. IsSeq(v) /\ ToSet(v) = {route \in ToSet(d.routes) : route.dest \notin G}
    BY <1>2, RoutesLeft
  <1>17. ToSet(v) \subseteq HubRouteRecords
    BY <1>2, <1>16
  <1> HIDE DEF v
  <1>18. /\ e \in DocumentRecords /\ e.regions = u /\ e.routes = v
         /\ e.portals = d.portals /\ e.users = d.users /\ e.globals = d.globals
         /\ e.default = d.default /\ e.taken = d.taken
    BY <1>1, <1>7, <1>14, <1>15, <1>16, <1>17, Changed
  <1>19. RestSound(e)
    BY <1>1, <1>18, RestKept
  <1>20. /\ ToSet(e.regions) = (ToSet(d.regions) \ {o}) \cup {r}
         /\ o \in ToSet(d.regions) /\ ToSet(d.regions) \subseteq RegionRecords
    BY <1>2, <1>14, <1>18 DEF s
  <1>21. /\ IdsOf(ExitsOf(e)) = IdsOf(ExitsOf(d)) /\ IdsOf(HubsOf(e)) = IdsOf(HubsOf(d))
         /\ IdsOf(ToSet(e.regions)) = IdsOf(ToSet(d.regions))
    BY <1>10, <1>20 DEF IdsOf, ExitsOf, HubsOf
  <1>22. G = (IF Len(o.nodes) = 1 THEN {o.id} ELSE {})
               \cup ({id} \ (Ids(d.regions) \ (IF Len(o.nodes) = 1 THEN {o.id} ELSE {})))
    BY DEF G, Gone
  <1>23. \A x \in IdsOf(Filled(ExitsOf(d))) : x \notin G => x \in IdsOf(Filled(ExitsOf(e)))
    <2>1. o \in Filled(ExitsOf(d)) /\ r.nodes = <<>> => o.id \in G
      BY <1>9, <1>10, <1>22
    <2>2. \A q \in Filled(ExitsOf(d)) : q # o => q \in Filled(ExitsOf(e))
      BY <1>20 DEF Filled, ExitsOf
    <2>3. o \in Filled(ExitsOf(d)) /\ r.nodes # <<>> => r \in Filled(ExitsOf(e))
      BY <1>10, <1>20 DEF Filled, ExitsOf
    <2>4. QED
      BY <1>10, <2>1, <2>2, <2>3 DEF IdsOf
  <1>24. \A x \in NodesOf(ExitsOf(d)) : x # id => x \in NodesOf(ExitsOf(e))
    BY <1>10, <1>11, <1>20 DEF NodesOf, ExitsOf
  <1>25. id \notin G => id \in IdsOf(ExitsOf(d)) \cup IdsOf(HubsOf(d))
    <2>1. id \notin G => id \in Ids(d.regions)
      BY <1>22
    <2>2. Ids(d.regions) = IdsOf(ToSet(d.regions))
      BY DEF Ids, IdsOf, ToSet
    <2>3. \A q \in ToSet(d.regions) : q.type \in {Exit, Hub}
      BY <1>1, Documented
    <2>4. QED
      BY <2>1, <2>2, <2>3 DEF IdsOf, ExitsOf, HubsOf
  <1>26. ASSUME NEW x, x \notin G, DestSound(d, x) PROVE DestSound(e, x)
    <2>1. x \in IdsOf(ExitsOf(d)) => x \in IdsOf(Filled(ExitsOf(e)))
      BY <1>23, <1>26 DEF DestSound
    <2>2. x \in Specials \cup IdsOf(Filled(ExitsOf(e))) \cup NodesOf(ExitsOf(e)) \cup IdsOf(HubsOf(e))
      BY <1>21, <1>23, <1>24, <1>25, <1>26, <2>1 DEF DestSound
    <2>3. QED
      BY <1>21, <2>1, <2>2 DEF DestSound
  <1>27. RoutesSound(e)
    <2>1. /\ ToSet(e.routes) \subseteq ToSet(d.routes)
          /\ \A route \in ToSet(e.routes) : route.dest \notin G
      BY <1>16, <1>18
    <2>2. \A route \in ToSet(e.routes) : DestSound(d, route.dest) => DestSound(e, route.dest)
      BY <1>26, <2>1
    <2>3. IdsOf(ExitsOf(d)) \subseteq IdsOf(ExitsOf(e))
      BY <1>21
    <2>4. QED
      BY <1>1, <1>18, <2>1, <2>2, <2>3, RoutesKept
  <1>28. QED
    <2>1. Puts(e.regions, d.regions, i, Left(d.regions[i], id))
      BY <1>13, <1>18 DEF o, s, r
    <2>2. e = With(d, e.regions, RoutesBut(d.routes, Gone(d, d.regions[i], id)))
      BY <1>7, <1>18 DEF o, s, v, G
    <2>3. QED
      BY <1>14, <1>16, <1>18, <1>19, <1>21, <1>27, <2>1, <2>2 DEF Sound

-----------------------------------------------------------------------------
(* The files and texts of all editors are sound.                           *)

\* No hub region has a route's name, and no command gives a new one such a name.
NamesApart(d) ==
    \A route \in ToSet(d.routes) :
        /\ route.dest \notin IdsOf(HubsOf(d))
        /\ \A c \in Commands : (c.op = "add" /\ c.type = Hub /\ c.region = route.dest)
                                   => c.region \in IdsOf(ToSet(d.regions))

\* What a command makes of a sound document is sound (edit.py, add_node and remove_node).
LEMMA ResultSound ==
    ASSUME NEW d, Sound(d), NEW c \in Commands, NEW e \in Results(d, c)
    PROVE  Sound(e) /\ (NamesApart(d) => NamesApart(e))
  <1>1. c \in CommandRecords
    BY CommandsGiven
  <1>2. CASE c.op = "add"
    <2>1. e \in AddResults(d, c) /\ ~HasNode(d, c.id)
      BY <1>2 DEF Results, AddResults
    <2>2. CASE Position(d, c.region) # {}
      <3>1. PICK i \in DOMAIN d.regions : e = AddToRegion(d, i, c)
        BY <2>1, <2>2 DEF AddResults, Position
      <3>2. /\ Sound(e) /\ e.routes = d.routes
            /\ IdsOf(HubsOf(e)) = IdsOf(HubsOf(d))
            /\ IdsOf(ToSet(e.regions)) = IdsOf(ToSet(d.regions))
        BY <1>1, <1>2, <2>1, <3>1, JoinedSound
      <3>3. QED
        BY <3>2 DEF NamesApart
    <2>3. CASE Position(d, c.region) = {}
      <3>1. PICK v : e = AddRegion(d, c, v) /\ Typed(d, c, v)
        BY <2>1, <2>3 DEF AddResults, Typed
      <3>2. /\ Sound(e) /\ e.routes = d.routes
            /\ IdsOf(HubsOf(e)) = IdsOf(HubsOf(d)) \cup (IF c.type = Hub THEN {c.region} ELSE {})
            /\ IdsOf(ToSet(e.regions)) = IdsOf(ToSet(d.regions)) \cup {c.region}
        BY <1>1, <1>2, <2>1, <2>3, <3>1, CreatedSound
      <3>3. c.region \notin IdsOf(ToSet(d.regions))
        BY <2>3 DEF Position, IdsOf, ToSet
      <3>4. QED
        BY <1>2, <3>2, <3>3 DEF NamesApart
    <2>4. QED
      BY <2>2, <2>3
  <1>3. CASE c.op # "add"
    <2>1. PICK i \in DOMAIN d.regions : c.id \in NodeIds(d.regions[i]) /\ e = Without(d, i, c.id)
      BY <1>3 DEF Results, RemoveResults
    <2>2. /\ Sound(e) /\ ToSet(e.routes) \subseteq ToSet(d.routes)
          /\ IdsOf(HubsOf(e)) = IdsOf(HubsOf(d))
          /\ IdsOf(ToSet(e.regions)) = IdsOf(ToSet(d.regions))
      BY <2>1, LeftSound
    <2>3. QED
      BY <2>2 DEF NamesApart
  <1>4. QED
    BY <1>2, <1>3

\* No command of those given creates a hub region with the name of a node that a
\* route leads to.
RouteNamesKept ==
    \A d \in Documents, c \in Commands :
        (/\ c.op = "add" /\ c.type = Hub
         /\ \E route \in ToSet(d.routes) : route.dest = c.region)
            => Position(d, c.region) # {}

\* What holds of every whole file and of every text that is to be written.
Kept(d) == Sound(d) /\ (RouteNamesKept => NamesApart(d))
FileKept(f) == f.is = "whole" => Kept(f.says)
TextKept(r) == r.pc # "idle" => Kept(r.text)
KeptInv == FileKept(file) /\ FileKept(tmp) /\ \A p \in Procs : TextKept(edit[p])

\* A document that loads is sound, and its routes lead to no hub.
LEMMA DocumentsKept == \A d \in Documents : Kept(d)
  <1> SUFFICES ASSUME NEW d \in Documents PROVE Kept(d)
    OBVIOUS
  <1>1. d \in DocumentRecords /\ Loads(d)
    BY DocumentsLoad
  <1>2. Sound(d)
    BY <1>1, LoadsSound
  <1>3. ASSUME RouteNamesKept PROVE NamesApart(d)
    <2> DEFINE t == Parse(d)
    <2>1. t.routes = d.routes
      BY DEF Parse
    <2>2. \A route \in ToSet(t.routes) : route.dest \notin Ids(t.hubs)
      BY <1>1 DEF Loads, Valid, RoutingValid
    <2> HIDE DEF t
    <2>3. Ids(t.hubs) = IdsOf(HubsOf(d))
      BY <1>1, Parsed DEF t
    <2>4. \A id : Position(d, id) # {} => id \in IdsOf(ToSet(d.regions))
      BY DEF Position, IdsOf, ToSet
    <2>5. QED
      BY <1>3, <2>1, <2>2, <2>3, <2>4 DEF NamesApart, RouteNamesKept
  <1>4. QED
    BY <1>2, <1>3 DEF Kept

\* It holds at first: the file is a document that loads.
LEMMA InitKept == Init => KeptInv
  <1>1. ASSUME NEW d \in Documents PROVE FileKept(Whole(d))
    BY DocumentsKept DEF FileKept, Whole
  <1>2. FileKept(NoFile) /\ TextKept(NoEdit)
    BY DEF FileKept, NoFile, Mark, TextKept, NoEdit
  <1>3. QED
    BY <1>1, <1>2 DEF Init, KeptInv

\* Every step of every editor keeps it: what is written is what was computed.
LEMMA NextKept == TypeInv /\ KeptInv /\ [Next]_vars => KeptInv'
  <1> SUFFICES ASSUME TypeInv, KeptInv, [Next]_vars PROVE KeptInv'
    OBVIOUS
  <1>1. ASSUME NEW p \in Procs, NEW r, TextKept(r), edit' = [edit EXCEPT ![p] = r],
               FileKept(file'), FileKept(tmp')
        PROVE  KeptInv'
    <2>1. \A q \in Procs : TextKept(edit'[q])
      BY <1>1 DEF TypeInv, KeptInv
    <2>2. QED
      BY <1>1, <2>1 DEF KeptInv, FileKept, TextKept
  <1>2. TextKept(NoEdit) /\ FileKept(NoFile) /\ FileKept(Empty)
    BY DEF FileKept, NoFile, Empty, Mark, TextKept, NoEdit
  <1>3. \A p \in Procs : /\ TextKept(edit[p])
                         /\ \A pc, out : TextKept(Turned(p, pc, out)) <=>
                               (pc # "idle" => Kept(edit[p].text))
    BY DEF KeptInv, TextKept, Turned
  <1>4. FileKept(file) /\ FileKept(tmp)
    BY DEF KeptInv
  <1>5. ASSUME NEW p \in Procs, NEW c \in Commands, Begin(p, c) PROVE KeptInv'
    <2>1. PICK d \in Results(file.says, c) :
             edit' = [edit EXCEPT ![p] = [pc |-> "open", cmd |-> c, text |-> d, out |-> "none"]]
      BY <1>5 DEF Begin
    <2>2. Kept(d)
      <3>1. Kept(file.says)
        BY <1>4, <1>5 DEF Begin, FileKept
      <3>2. QED
        BY <2>1, <3>1, ResultSound DEF Kept
    <2>3. TextKept([pc |-> "open", cmd |-> c, text |-> d, out |-> "none"])
      BY <2>2 DEF TextKept
    <2>4. file' = file /\ tmp' = tmp
      BY <1>5 DEF Begin
    <2>5. QED
      BY <1>1, <1>4, <2>1, <2>3, <2>4
  <1>6. ASSUME NEW p \in Procs, Open(p) PROVE KeptInv'
    <2>1. Kept(edit[p].text)
      BY <1>3, <1>6 DEF Open, At, TextKept
    <2>2. TextKept(Turned(p, "write", "tmp"))
      BY <1>3, <2>1
    <2>3. QED
      BY <1>1, <1>2, <1>4, <1>6, <2>2 DEF Open
  <1>7. ASSUME NEW p \in Procs, Write(p) PROVE KeptInv'
    <2>1. Kept(edit[p].text)
      BY <1>3, <1>7 DEF Write, At, TextKept
    <2>2. TextKept(Turned(p, "rename", "none"))
      BY <1>3, <2>1
    <2>3. \A old : \A x \in Over(old, edit[p].text) : FileKept(x)
      BY <2>1 DEF Over, Whole, Torn, Mark, FileKept
    <2>4. FileKept(file') /\ FileKept(tmp')
      BY <1>4, <1>7, <2>3 DEF Write
    <2>5. QED
      BY <1>1, <1>7, <2>2, <2>4 DEF Write
  <1>8. ASSUME NEW p \in Procs, NEW a, NEW b, edit' = [Moved(a, b) EXCEPT ![p] = NoEdit],
               FileKept(file'), FileKept(tmp')
        PROVE  KeptInv'
    <2>1. \A q \in Procs : Moved(a, b)[q].pc = edit[q].pc /\ Moved(a, b)[q].text = edit[q].text
      BY DEF TypeInv, EditType, Moved
    <2>2. \A q \in Procs : TextKept(Moved(a, b)[q])
      BY <1>3, <2>1 DEF TextKept
    <2>3. \A q \in Procs : TextKept(edit'[q])
      BY <1>2, <1>8, <2>2 DEF Moved
    <2>4. QED
      BY <1>8, <2>3 DEF KeptInv, FileKept, TextKept
  <1>9. ASSUME NEW p \in Procs, Rename(p) PROVE KeptInv'
    BY <1>2, <1>4, <1>8, <1>9 DEF Rename
  <1>10. ASSUME NEW p \in Procs, Fail(p) PROVE KeptInv'
    BY <1>2, <1>4, <1>8, <1>10 DEF Fail
  <1>11. ASSUME NEW p \in Procs, RenameFails(p) \/ Kill(p) PROVE KeptInv'
    <2>1. edit' = [edit EXCEPT ![p] = NoEdit] /\ file' = file /\ tmp' = tmp
      BY <1>11 DEF RenameFails, Kill
    <2>2. QED
      BY <1>1, <1>2, <1>4, <2>1
  <1>12. CASE UNCHANGED vars
    BY <1>12 DEF vars, KeptInv, FileKept, TextKept
  <1>13. QED
    BY <1>5, <1>6, <1>7, <1>9, <1>10, <1>11, <1>12 DEF Next

\* So it always holds, for any number of editors.
LEMMA AlwaysKept == Spec => []KeptInv
  BY InitTypeInv, NextTypeInv, InitKept, NextKept, PTL DEF Spec

\* Whatever any number of editors do, alone, at the same time or interrupted: a
\* file that they leave whole loads again, or one of the four reasons is in it.
THEOREM LoadsAgain == Spec => []LoadsOrExplained
  <1>1. KeptInv => LoadsOrExplained
    BY SoundExplained DEF KeptInv, FileKept, Kept, LoadsOrExplained
  <1>2. QED
    BY <1>1, AlwaysKept, PTL

\* No id and no vless route is there twice, and no route and no lb_fallback leads
\* nowhere, whatever any number of editors do (edit.py, add_node and _remove), so
\* long as no command names a hub region like a node that a route leads to.
THEOREM NothingLeftDangling ==
    ASSUME RouteNamesKept
    PROVE  Spec => []NothingDangles
  <1>1. ASSUME NEW d, Kept(d), NEW t, t = Parse(d)
        PROVE  /\ UniqueIds(t) /\ UniqueRoutes(t) /\ ExitRegionsValid(t)
               /\ \A route \in ToSet(t.routes) :
                     route.dest \in Specials \cup Rendered(t) \cup ExitNodes(t)
    <2>1. Sound(d) /\ NamesApart(d) /\ d \in DocumentRecords
      BY <1>1 DEF Kept, Sound
    <2>2. UniqueIds(t) /\ UniqueRoutes(t) /\ ExitRegionsValid(t)
      BY <1>1, <2>1, SoundUnique
    <2>3. Rendered(t) = IdsOf(Filled(ExitsOf(d))) /\ ExitNodes(t) = NodesOf(ExitsOf(d))
      BY <1>1, <2>1, Parsed
    <2>4. t.routes = d.routes
      BY <1>1 DEF Parse
    <2>5. \A route \in ToSet(d.routes) :
              route.dest \in Specials \cup IdsOf(Filled(ExitsOf(d))) \cup NodesOf(ExitsOf(d))
      BY <2>1 DEF Sound, RoutesSound, RouteSound, DestSound, NamesApart
    <2>6. QED
      BY <2>2, <2>3, <2>4, <2>5
  <1>2. KeptInv => NothingDangles
    BY <1>1 DEF KeptInv, FileKept, NothingDangles
  <1>3. QED
    BY <1>2, AlwaysKept, PTL

-----------------------------------------------------------------------------
(* The node a balanced region falls back to.                               *)

\* The least of a set of numbers.
LEMMA MinIs ==
    ASSUME NEW S, S \subseteq Nat, NEW m \in S, \A y \in S : m <= y
    PROVE  Min(S) = m
  <1>1. \A x \in S : (\A y \in S : x <= y) => x = m
    OBVIOUS
  <1>2. Min(S) \in S /\ \A y \in S : Min(S) <= y
    BY DEF Min
  <1>3. QED
    BY <1>1, <1>2

\* m is the place of the first node that is no backup, or 1 if there is none.
Leads(m, s) ==
    /\ m \in 1..Len(s)
    /\ \/ ~s[m].backup /\ \A j \in 1..Len(s) : j < m => s[j].backup
       \/ m = 1 /\ \A j \in 1..Len(s) : s[j].backup

\* It is what FirstPrimary finds (regions.py, primary nodes of a balanced region).
LEMMA Leading ==
    ASSUME NEW r, IsSeq(r.nodes), NEW m, Leads(m, r.nodes), \A n \in ToSet(r.nodes) : n.backup \in BOOLEAN
    PROVE  FirstPrimary(r) = r.nodes[m].id
  <1> DEFINE s == r.nodes
             P == {i \in DOMAIN s : ~s[i].backup}
  <1>1. Len(s) \in Nat /\ DOMAIN s = 1..Len(s) /\ m \in 1..Len(s)
    BY SeqFacts DEF Leads
  <1>2. CASE ~s[m].backup /\ \A j \in 1..Len(s) : j < m => s[j].backup
    <2>1. P \subseteq Nat /\ m \in P
      BY <1>1, <1>2
    <2>2. \A y \in P : m <= y
      BY <1>1, <1>2
    <2> HIDE DEF P
    <2>3. Min(P) = m /\ P # {}
      BY <2>1, <2>2, MinIs
    <2>4. QED
      BY <2>3 DEF FirstPrimary, P
  <1>3. CASE m = 1 /\ \A j \in 1..Len(s) : s[j].backup
    <2>1. P = {}
      BY <1>1, <1>3
    <2>2. QED
      BY <1>3, <2>1 DEF FirstPrimary
  <1>4. QED
    BY <1>2, <1>3 DEF Leads

\* In a list that is not empty some node leads.
LEMMA SomeLeads ==
    ASSUME NEW s, IsSeq(s), s # <<>>, \A n \in ToSet(s) : n.backup \in BOOLEAN
    PROVE  \E m : Leads(m, s)
  <1> DEFINE P == {i \in 1..Len(s) : ~s[i].backup}
  <1>1. Len(s) \in Nat /\ DOMAIN s = 1..Len(s) /\ Len(s) > 0
    <2>1. Len(s) \in Nat /\ DOMAIN s = 1..Len(s)
      BY SeqFacts
    <2>2. Len(s) # 0
      BY EmptyIsSeq, SeqEquality
    <2>3. QED
      BY <2>1, <2>2
  <1>2. CASE P = {}
    <2>1. 1 \in 1..Len(s)
      BY <1>1
    <2>2. Leads(1, s)
      BY <1>1, <1>2, <2>1 DEF Leads
    <2>3. QED
      BY <2>2
  <1>3. CASE P # {}
    <2>1. P \subseteq Nat
      BY <1>1
    <2>2. \E m \in P : \A y \in P : m <= y
      <3> HIDE DEF P
      <3>1. QED
        BY <1>3, <2>1, Least
    <2>3. PICK m \in P : \A y \in P : m <= y
      BY <2>2
    <2>4. \A j \in 1..Len(s) : j < m => s[j].backup
      BY <1>1, <2>3
    <2>5. QED
      BY <2>3, <2>4 DEF Leads
  <1>4. QED
    BY <1>2, <1>3

\* Another node than the first primary leaves: the first primary stays the first.
LEMMA LeadingLeft ==
    ASSUME NEW s, IsSeq(s), NEW k \in 1..Len(s), NEW u, u = RemoveAt(s, k),
           NEW m, Leads(m, s), m # k
    PROVE  \E l : Leads(l, u) /\ u[l] = s[m]
  <1>1. Len(s) \in Nat /\ m \in 1..Len(s)
    BY SeqFacts DEF Leads
  <1>2. /\ IsSeq(u) /\ Len(u) = Len(s) - 1
        /\ \A i \in 1..(k - 1) : u[i] = s[i]
        /\ \A i \in k..(Len(s) - 1) : u[i] = s[i + 1]
    BY Removing
  <1> DEFINE l == IF m < k THEN m ELSE m - 1
             from(i) == IF i < k THEN i ELSE i + 1
  <1>3. l \in 1..Len(u) /\ u[l] = s[m]
    BY <1>1, <1>2
  <1>4. \A i \in 1..Len(u) : from(i) \in 1..Len(s) /\ u[i] = s[from(i)] /\ (i < l => from(i) < m)
    BY <1>1, <1>2
  <1>5. CASE ~s[m].backup /\ \A j \in 1..Len(s) : j < m => s[j].backup
    <2>1. \A i \in 1..Len(u) : i < l => u[i].backup
      BY <1>4, <1>5
    <2>2. Leads(l, u)
      BY <1>3, <1>5, <2>1 DEF Leads
    <2>3. QED
      BY <1>3, <2>2
  <1>6. CASE m = 1 /\ \A j \in 1..Len(s) : s[j].backup
    <2>1. \A i \in 1..Len(u) : u[i].backup
      BY <1>4, <1>6
    <2>2. l = 1
      BY <1>6
    <2>3. Leads(l, u)
      BY <1>3, <2>1, <2>2 DEF Leads
    <2>4. QED
      BY <1>3, <2>3
  <1>7. QED
    BY <1>5, <1>6 DEF Leads

\* A node joins: the fallback that was computed is written out.
LEMMA JoinedFallback ==
    ASSUME NEW o \in RegionRecords, o.lb, ~o.nulled, o.nodes # <<>>, NEW c
    PROVE  FallbackNode(Joined(o, c)) = FallbackNode(o)
  <1>1. IsSeq(o.nodes) /\ ToSet(o.nodes) \subseteq NodeRecords
    BY SeqFromSet DEF RegionRecords
  <1>2. FirstPrimary(o) \in NodeIds(o)
    BY <1>1, PrimaryIsNode
  <1>3. FirstPrimary(o) # NoId
    BY <1>1, <1>2 DEF NodeIds, Ids, ToSet, NodeRecords
  <1>4. Joined(o, c).fallback = FallbackWritten(o)
    BY DEF Joined, RegionRecords
  <1>5. QED
    BY <1>3, <1>4 DEF FallbackNode, FallbackWritten

\* Another node leaves.
LEMMA LeftFallback ==
    ASSUME NEW o \in RegionRecords, Distinct(o.nodes), o.nodes # <<>>, NEW id \in NodeIds(o),
           id # FallbackNode(o)
    PROVE  FallbackNode(Left(o, id)) = FallbackNode(o)
  <1> DEFINE s == o.nodes
             k == SelectInSeq(s, LAMBDA n : n.id = id)
             u == RemoveAt(s, k)
  <1>1. IsSeq(s) /\ ToSet(s) \subseteq NodeRecords
    BY SeqFromSet DEF RegionRecords
  <1>2. k \in 1..Len(s) /\ s[k].id = id
    BY <1>1, PlaceOf DEF NodeIds
  <1>3. Left(o, id).nodes = u /\ Left(o, id).fallback = IF o.fallback = id THEN NoId ELSE o.fallback
    BY DEF Left, RegionRecords
  <1> HIDE DEF k
  <1>4. CASE o.fallback # NoId
    BY <1>3, <1>4 DEF FallbackNode
  <1>5. CASE o.fallback = NoId
    <2>1. Left(o, id).fallback = NoId /\ FallbackNode(o) = FirstPrimary(o)
      BY <1>3, <1>5 DEF FallbackNode
    <2>2. \A n \in ToSet(s) : n.backup \in BOOLEAN
      BY <1>1 DEF NodeRecords
    <2>3. PICK m : Leads(m, s)
      BY <1>1, <2>2, SomeLeads
    <2>4. FirstPrimary(o) = s[m].id
      BY <1>1, <2>2, <2>3, Leading
    <2>5. PICK l : Leads(l, u) /\ u[l] = s[m]
      <3>1. m # k
        BY <1>2, <2>1, <2>4
      <3> HIDE DEF s
      <3>2. QED
        BY <1>1, <1>2, <2>3, <3>1, LeadingLeft
    <2>6. IsSeq(u) /\ ToSet(u) \subseteq ToSet(s)
      BY <1>1, <1>2, RemovedNodes
    <2>7. FirstPrimary(Left(o, id)) = u[l].id
      <3>1. IsSeq(Left(o, id).nodes) /\ Leads(l, Left(o, id).nodes)
        BY <1>3, <2>5, <2>6
      <3>2. \A n \in ToSet(Left(o, id).nodes) : n.backup \in BOOLEAN
        BY <1>3, <2>2, <2>6
      <3>3. FirstPrimary(Left(o, id)) = Left(o, id).nodes[l].id
        BY <3>1, <3>2, Leading
      <3>4. QED
        BY <1>3, <3>3
    <2>8. QED
      BY <2>1, <2>4, <2>5, <2>7 DEF FallbackNode
  <1>6. QED
    BY <1>4, <1>5

\* No command but the fallback's own removal changes the fallback of a region.
LEMMA FallbackSame ==
    ASSUME NEW d, Sound(d), NEW c \in Commands, NEW e \in Results(d, c), NEW i \in DOMAIN d.regions,
           NEW r, r = d.regions[i], r.lb, r.nodes # <<>>, c.id # FallbackNode(r),
           r.nulled => c.op = "remove"
    PROVE  FallbackNode(e.regions[i]) = FallbackNode(r)
  <1>1. c \in CommandRecords
    BY CommandsGiven
  <1>2. d \in DocumentRecords /\ RegionsSound(d.regions)
    BY DEF Sound
  <1>3. r \in RegionRecords /\ Distinct(r.nodes)
    <2>1. r \in ToSet(d.regions)
      BY DEF ToSet
    <2>2. QED
      BY <1>2, <2>1, Documented DEF RegionsSound
  <1>4. CASE c.op = "add"
    <2>1. e \in AddResults(d, c) /\ ~HasNode(d, c.id)
      BY <1>4 DEF Results, AddResults
    <2>2. CASE Position(d, c.region) # {}
      <3>1. PICK j \in DOMAIN d.regions : e = AddToRegion(d, j, c)
        BY <2>1, <2>2 DEF AddResults, Position
      <3>2. Puts(e.regions, d.regions, j, Joined(d.regions[j], c))
        BY <1>1, <1>4, <2>1, <3>1, JoinedSound
      <3>3. e.regions[i] = IF i = j THEN Joined(r, c) ELSE r
        BY <3>2 DEF Puts
      <3>4. QED
        BY <1>3, <1>4, <3>3, JoinedFallback DEF CommandRecords
    <2>3. CASE Position(d, c.region) = {}
      <3>1. PICK v : e = AddRegion(d, c, v) /\ Typed(d, c, v)
        BY <2>1, <2>3 DEF AddResults, Typed
      <3>2. \A j \in DOMAIN d.regions : e.regions[j] = d.regions[j]
        BY <1>1, <1>4, <2>1, <2>3, <3>1, CreatedSound
      <3>3. QED
        BY <3>2
    <2>4. QED
      BY <2>2, <2>3
  <1>5. CASE c.op # "add"
    <2>1. PICK j \in DOMAIN d.regions : c.id \in NodeIds(d.regions[j]) /\ e = Without(d, j, c.id)
      BY <1>5 DEF Results, RemoveResults
    <2>2. Puts(e.regions, d.regions, j, Left(d.regions[j], c.id))
      BY <2>1, LeftSound
    <2>3. e.regions[i] = IF i = j THEN Left(r, c.id) ELSE r
      BY <2>2 DEF Puts
    <2>4. i = j => FallbackNode(Left(r, c.id)) = FallbackNode(r)
      BY <1>3, <2>1, LeftFallback
    <2>5. QED
      BY <2>3, <2>4
  <1>6. QED
    BY <1>4, <1>5

\* A balanced region falls back to the node it fell back to before, whatever else
\* is added or removed (edit.py, _fallback_to_set), with one editor at a time.
THEOREM FallbackKept ==
    ASSUME OneEditor
    PROVE  Spec => FallbackStays
  <1>1. ASSUME IInv, TypeInv, KeptInv, NEW p \in Procs, Rename(p), NEW i \in DOMAIN file.says.regions,
               NEW r, r = file.says.regions[i], r.lb, r.nodes # <<>>, edit[p].cmd.id # FallbackNode(r),
               r.nulled => edit[p].cmd.op = "remove"
        PROVE  FallbackNode(file'.says.regions[i]) = FallbackNode(r)
    <2>1. /\ tmp = Whole(edit[p].text) /\ edit[p].text \in Results(file.says, edit[p].cmd)
          /\ file.is = "whole"
      BY <1>1 DEF IInv, EditOK, At, Busy, Rename
    <2>2. edit[p].cmd \in Commands
      BY <1>1 DEF TypeInv, EditType, Rename, At
    <2>3. Sound(file.says)
      BY <1>1, <2>1 DEF KeptInv, FileKept, Kept
    <2>4. file'.says = edit[p].text
      BY <1>1, <2>1 DEF Rename, Whole
    <2>5. QED
      BY <1>1, <2>1, <2>2, <2>3, <2>4, FallbackSame
  <1>2. IInv /\ TypeInv /\ KeptInv /\ [Next]_vars =>
            [\A p \in Procs : Rename(p) =>
                \A i \in DOMAIN file.says.regions :
                    LET r == file.says.regions[i]
                    IN  (/\ r.lb /\ r.nodes # <<>> /\ edit[p].cmd.id # FallbackNode(r)
                         /\ r.nulled => edit[p].cmd.op = "remove")
                            => FallbackNode(file'.says.regions[i]) = FallbackNode(r)]_vars
    BY <1>1
  <1>3. Spec => []TypeInv
    BY InitTypeInv, NextTypeInv, PTL DEF Spec
  <1>4. QED
    BY Inductive, AlwaysKept, <1>2, <1>3, PTL DEF Spec, FallbackStays

-----------------------------------------------------------------------------
(* Adding a node and removing it again.                                    *)

\* A node that was inserted is removed from where it was inserted.
LEMMA InsertedRemoved ==
    ASSUME NEW s, IsSeq(s), Distinct(s), NEW c, c.id \notin Ids(s), NEW u, u = Inserted(s, c),
           NEW k \in 1..Len(u), u[k].id = c.id
    PROVE  RemoveAt(u, k) = s
  <1>1. Len(s) \in Nat /\ DOMAIN s = 1..Len(s)
    BY SeqFacts
  <1>2. PICK m \in 0..Len(s) : /\ IsSeq(u) /\ Len(u) = Len(s) + 1
                               /\ \A i \in 1..m : u[i] = s[i]
                               /\ u[m + 1] = NewNode(c)
                               /\ \A i \in (m + 1)..Len(s) : u[i + 1] = s[i]
    <2>1. \E m \in 0..Len(s) :
              /\ IsSeq(Inserted(s, c)) /\ Len(Inserted(s, c)) = Len(s) + 1
              /\ \A i \in 1..m : Inserted(s, c)[i] = s[i]
              /\ Inserted(s, c)[m + 1] = NewNode(c)
              /\ \A i \in (m + 1)..Len(s) : Inserted(s, c)[i + 1] = s[i]
      BY ONLY IsSeq(s), c.id \notin Ids(s), InsertedFacts
    <2>2. QED
      BY <2>1
  <1>3. \A i \in 1..Len(s) : s[i].id # c.id
    BY <1>1 DEF Ids
  <1>4. k = m + 1
    <2>1. ASSUME k < m + 1 PROVE FALSE
      <3>1. k \in 1..m /\ k \in 1..Len(s)
        BY <1>1, <2>1
      <3>2. QED
        BY <1>2, <1>3, <3>1
    <2>2. ASSUME k > m + 1 PROVE FALSE
      <3>1. k - 1 \in (m + 1)..Len(s) /\ k - 1 \in 1..Len(s) /\ (k - 1) + 1 = k
        BY <1>1, <1>2, <2>2
      <3>2. u[(k - 1) + 1] = s[k - 1]
        BY <1>2, <3>1
      <3>3. u[k] = s[k - 1]
        BY <3>1, <3>2
      <3>4. QED
        BY <1>3, <3>1, <3>3
    <2>3. QED
      BY <2>1, <2>2
  <1>5. /\ IsSeq(RemoveAt(u, k)) /\ Len(RemoveAt(u, k)) = Len(u) - 1
        /\ \A i \in 1..(k - 1) : RemoveAt(u, k)[i] = u[i]
        /\ \A i \in k..(Len(u) - 1) : RemoveAt(u, k)[i] = u[i + 1]
    BY <1>2, Removing
  <1>6. Len(RemoveAt(u, k)) = Len(s)
    BY <1>1, <1>2, <1>5
  <1>7. ASSUME NEW i \in 1..Len(RemoveAt(u, k)) PROVE RemoveAt(u, k)[i] = s[i]
    <2>1. CASE i < k
      BY <1>1, <1>2, <1>4, <1>5, <1>6, <2>1
    <2>2. CASE i >= k
      <3>1. i \in k..(Len(u) - 1) /\ i \in (m + 1)..Len(s)
        BY <1>1, <1>2, <1>4, <1>6, <2>2
      <3>2. RemoveAt(u, k)[i] = u[i + 1] /\ u[i + 1] = s[i]
        BY <1>2, <1>5, <3>1
      <3>3. QED
        BY <3>2
    <2>3. QED
      BY <1>6, <2>1, <2>2
  <1>8. QED
    BY <1>5, <1>6, <1>7, SeqEquality

\* No route goes if none leads to what is gone.
LEMMA AllRoutesLeft ==
    ASSUME NEW s, IsSeq(s), NEW G, \A route \in ToSet(s) : route.dest \notin G
    PROVE  RoutesBut(s, G) = s
  <1> DEFINE f == [i \in DOMAIN s |-> Only(s[i].dest \notin G, s[i])]
  <1>1. RoutesBut(s, G) = FlattenSeq(f)
    BY DEF RoutesBut, Where, Concat
  <1>2. Len(s) \in Nat /\ DOMAIN s = 1..Len(s) /\ \A i \in 1..Len(s) : s[i] \in ToSet(s)
    BY SeqFacts, Elements
  <1>3. \A i \in 1..Len(s) : f[i] = <<s[i]>>
    BY <1>2 DEF Only
  <1>4. f = [i \in DOMAIN s |-> f[i]]
    OBVIOUS
  <1> HIDE DEF f
  <1>5. \A i \in 1..Len(s) : IsSeq(f[i])
    BY <1>3, OneShape
  <1>6. IsMap(f, s)
    BY <1>4, <1>5, <1>2 DEF IsMap
  <1>7. QED
    BY <1>1, <1>3, <1>6, FilterAll

\* The region has its nodes as they were when a node has joined and left.
LEMMA JoinedLeft ==
    ASSUME NEW o \in RegionRecords, Distinct(o.nodes), NEW c, c.id \notin NodeIds(o), c.id # NoId,
           o.fallback = NoId \/ o.fallback \in NodeIds(o)
    PROVE  Left(Joined(o, c), c.id) = [o EXCEPT !.fallback = FallbackWritten(o)]
  <1> DEFINE n == Inserted(o.nodes, c)
             r == Joined(o, c)
             k == SelectInSeq(n, LAMBDA x : x.id = c.id)
  <1>1. IsSeq(o.nodes) /\ c.id \notin Ids(o.nodes)
    BY SeqFromSet DEF RegionRecords, NodeIds
  <1>2. IsSeq(n) /\ Ids(n) = Ids(o.nodes) \cup {c.id}
    BY <1>1, InsertedNodes
  <1>3. /\ r.nodes = n /\ r.fallback = FallbackWritten(o)
        /\ DOMAIN r = DOMAIN o /\ r = [x \in DOMAIN o |-> r[x]]
        /\ \A x \in DOMAIN o : x \notin {"nodes", "fallback"} => r[x] = o[x]
        /\ {"nodes", "fallback"} \subseteq DOMAIN o
    BY DEF Joined, RegionRecords
  <1>4. FallbackWritten(o) # c.id
    <2>1. o.nodes # <<>> => FirstPrimary(o) \in NodeIds(o)
      BY <1>1, PrimaryIsNode
    <2>2. QED
      BY <2>1 DEF FallbackWritten
  <1> HIDE DEF n
  <1>5. k \in 1..Len(n) /\ n[k].id = c.id
    <2>1. c.id \in Ids(n)
      BY <1>2
    <2>2. QED
      BY <1>2, <2>1, PlaceOf
  <1> HIDE DEF k
  <1>6. RemoveAt(n, k) = o.nodes
    <2>1. n = Inserted(o.nodes, c)
      BY DEF n
    <2>2. QED
      BY <1>1, <1>5, <2>1, InsertedRemoved
  <1> HIDE DEF r
  <1>7. Left(r, c.id) = [r EXCEPT !.nodes = o.nodes, !.fallback = FallbackWritten(o)]
    <2>1. Left(r, c.id) = [r EXCEPT !.nodes = RemoveAt(n, k),
                                    !.fallback = IF FallbackWritten(o) = c.id THEN NoId ELSE FallbackWritten(o)]
      BY <1>3 DEF Left, k
    <2>2. QED
      BY <1>4, <1>6, <2>1
  <1>8. o = [x \in DOMAIN o |-> o[x]]
    BY DEF RegionRecords
  <1>9. [r EXCEPT !.nodes = o.nodes, !.fallback = FallbackWritten(o)]
            = [o EXCEPT !.fallback = FallbackWritten(o)]
    BY <1>3, <1>8
  <1>10. QED
    BY <1>7, <1>9 DEF r

\* No route leads to what goes with a node that was only just added.
LEMMA NoneGone ==
    ASSUME NEW d, Sound(d), NamesApart(d), NEW c \in CommandRecords, c.op = "add", c.id \notin Specials,
           ~HasNode(d, c.id), NEW i \in DOMAIN d.regions, NEW e, e = AddToRegion(d, i, c)
    PROVE  \A route \in ToSet(d.routes) : route.dest \notin Gone(e, e.regions[i], c.id)
  <1> DEFINE o == d.regions[i]
             r == e.regions[i]
  <1>1. /\ Puts(e.regions, d.regions, i, Joined(o, c))
        /\ IdsOf(ToSet(e.regions)) = IdsOf(ToSet(d.regions))
    BY JoinedSound
  <1>2. d \in DocumentRecords /\ RegionsSound(d.regions) /\ RoutesSound(d)
    BY DEF Sound
  <1>3. /\ o \in ToSet(d.regions) /\ o \in RegionRecords /\ IsSeq(o.nodes) /\ IsSeq(d.regions)
        /\ \A q \in ToSet(d.regions) : q.type \in {Exit, Hub}
    BY <1>2, Documented DEF ToSet
  <1>4. r = Joined(o, c) /\ r.id = o.id /\ r.nodes = Inserted(o.nodes, c)
    BY <1>1, <1>3 DEF Puts, Joined, RegionRecords
  <1>5. Len(r.nodes) = 1 => o.nodes = <<>>
    <2>1. c.id \notin Ids(o.nodes)
      BY <1>3 DEF HasNode, NodeIds
    <2>2. PICK k \in 0..Len(o.nodes) : Len(Inserted(o.nodes, c)) = Len(o.nodes) + 1
      BY <1>3, <2>1, InsertedFacts
    <2>3. Len(r.nodes) = 1 => Len(o.nodes) = 0
      <3>1. Len(o.nodes) \in Nat
        BY <1>3, SeqFacts
      <3>2. Len(r.nodes) = Len(o.nodes) + 1
        BY <1>4, <2>2
      <3>3. \A a \in Nat : a + 1 = 1 => a = 0
        OBVIOUS
      <3> HIDE DEF o, r
      <3>4. QED
        BY <3>1, <3>2, <3>3
    <2>4. Len(o.nodes) = 0 => o.nodes = <<>>
      BY <1>3, EmptyIsSeq, SeqEquality
    <2>5. QED
      BY <2>3, <2>4
  <1>6. \A x, y \in ToSet(d.regions) : x.id = y.id => x = y
    BY <1>2, <1>3, DistinctElements DEF RegionsSound
  <1> HIDE DEF o, r
  <1>7. ASSUME NEW route \in ToSet(d.routes) PROVE route.dest \notin Gone(e, r, c.id)
    <2> DEFINE x == route.dest
    <2>1. DestSound(d, x) /\ x \notin IdsOf(HubsOf(d))
      BY <1>2 DEF RoutesSound, RouteSound, NamesApart
    <2> HIDE DEF x
    <2>2. x \in IdsOf(ToSet(d.regions)) => x \in IdsOf(Filled(ExitsOf(d)))
      <3>1. IdsOf(ToSet(d.regions)) = IdsOf(ExitsOf(d)) \cup IdsOf(HubsOf(d))
        BY <1>3 DEF IdsOf, ExitsOf, HubsOf
      <3>2. QED
        BY <2>1, <3>1 DEF DestSound
    <2>3. x = o.id => Len(r.nodes) # 1
      <3>1. x = o.id => x \in IdsOf(ToSet(d.regions))
        BY <1>3 DEF IdsOf
      <3>2. ASSUME x = o.id PROVE o.nodes # <<>>
        <4>1. PICK q \in ToSet(d.regions) : q.nodes # <<>> /\ q.id = x
          BY <2>2, <3>1, <3>2 DEF IdsOf, Filled, ExitsOf
        <4>2. q = o
          BY <1>3, <1>6, <3>2, <4>1
        <4>3. QED
          BY <4>1, <4>2
      <3>3. QED
        BY <1>5, <3>2
    <2>4. x = c.id => x \in IdsOf(ToSet(d.regions))
      <3>1. c.id \notin NodesOf(ExitsOf(d))
        BY DEF HasNode, NodesOf, ExitsOf
      <3>2. IdsOf(Filled(ExitsOf(d))) \subseteq IdsOf(ToSet(d.regions))
        BY DEF IdsOf, Filled, ExitsOf
      <3>3. QED
        BY <2>1, <3>1, <3>2 DEF DestSound
    <2>5. Ids(e.regions) = IdsOf(ToSet(d.regions))
      <3>1. Ids(e.regions) = IdsOf(ToSet(e.regions))
        BY DEF Ids, IdsOf, ToSet
      <3>2. QED
        BY <1>1, <3>1
    <2> DEFINE emptied == IF Len(r.nodes) = 1 THEN {o.id} ELSE {}
    <2>6. Gone(e, r, c.id) = emptied \cup ({c.id} \ (Ids(e.regions) \ emptied))
      BY <1>4 DEF Gone
    <2>7. x \notin emptied
      BY <2>3
    <2> HIDE DEF emptied
    <2>8. x \notin Gone(e, r, c.id)
      BY <2>4, <2>5, <2>6, <2>7
    <2>9. QED
      BY <2>8 DEF x
  <1>8. QED
    BY <1>7 DEF r

\* The file is as it was, but for the fallback that was written out.
LEMMA AddedRemoved ==
    ASSUME NEW d, Sound(d), NamesApart(d), d.routesBlock, NEW c \in CommandRecords, c.op = "add",
           c.id \notin Specials, NEW i \in Position(d, c.region), NEW e \in AddResults(d, c)
    PROVE  RemoveResults(e, c) =
               {[d EXCEPT !.regions[i].fallback = FallbackWritten(d.regions[i])]}
  <1> DEFINE o == d.regions[i]
             id == c.id
             r == [o EXCEPT !.fallback = FallbackWritten(o)]
             u == [d.regions EXCEPT ![i] = r]
  <1>1. d \in DocumentRecords /\ RegionsSound(d.regions) /\ ~HasNode(d, id)
    BY DEF Sound, AddResults
  <1>2. /\ IsSeq(d.regions) /\ IsSeq(d.routes) /\ i \in DOMAIN d.regions
        /\ o \in ToSet(d.regions) /\ o \in RegionRecords
    BY <1>1, Documented DEF Position, ToSet
  <1>3. e = AddToRegion(d, i, c) /\ o.block
    <2>1. PICK j \in Position(d, c.region) : e = AddToRegion(d, j, c) /\ d.regions[j].block
      BY DEF AddResults
    <2>2. j = i
      BY <1>1, <2>1 DEF Position, RegionsSound, Distinct
    <2>3. QED
      BY <2>1, <2>2
  <1>4. /\ Sound(e) /\ e.routes = d.routes /\ e.routesBlock
        /\ Puts(e.regions, d.regions, i, Joined(o, c)) /\ e = With(d, e.regions, d.routes)
    BY <1>1, <1>2, <1>3, JoinedSound
  <1>5. /\ DOMAIN e.regions = DOMAIN d.regions /\ e.regions[i] = Joined(o, c)
        /\ \A j \in DOMAIN d.regions : j # i => e.regions[j] = d.regions[j]
        /\ e.regions = [j \in DOMAIN d.regions |-> e.regions[j]]
    BY <1>4 DEF Puts
  <1>6. \A j \in DOMAIN e.regions : id \in NodeIds(e.regions[j]) <=> j = i
    <2>1. \A j \in DOMAIN d.regions : id \notin NodeIds(d.regions[j])
      BY <1>1 DEF HasNode, ToSet
    <2>2. id \in NodeIds(Joined(o, c))
      <3>1. Joined(o, c).nodes = Inserted(o.nodes, c)
        BY <1>2 DEF Joined, RegionRecords
      <3>2. IsSeq(o.nodes) /\ Distinct(o.nodes) /\ id \notin Ids(o.nodes)
        BY <1>1, <1>2, <2>1, Documented DEF RegionsSound, NodeIds
      <3>3. id \in Ids(Inserted(o.nodes, c))
        BY <3>2, InsertedNodes
      <3>4. QED
        BY <3>1, <3>3 DEF NodeIds
    <2>3. QED
      BY <1>5, <2>1, <2>2
  <1>7. e.regions[i].block
    BY <1>2, <1>3, <1>5 DEF Joined, RegionRecords
  <1>8. RemoveResults(e, c) = {Without(e, i, id)}
    <2>1. i \in Nat
      BY <1>2, SeqFacts
    <2> DEFINE J == {j \in DOMAIN e.regions :
                        /\ c.id \in NodeIds(e.regions[j])
                        /\ \A k \in DOMAIN e.regions : c.id \in NodeIds(e.regions[k]) => j <= k
                        /\ e.regions[j].block
                        /\ e.routesBlock}
    <2>2. RemoveResults(e, c) = {Without(e, j, id) : j \in J}
      BY DEF RemoveResults
    <2> HIDE DEF o, r, u
    <2>3. i \in DOMAIN e.regions /\ i <= i
      BY <1>2, <1>5, <2>1
    <2>4. \A k \in DOMAIN e.regions : c.id \in NodeIds(e.regions[k]) => i <= k
      BY <1>6, <2>3
    <2>5. i \in J
      BY <1>4, <1>6, <1>7, <2>3, <2>4
    <2>6. \A j \in J : j = i
      BY <1>6
    <2>7. J = {i}
      BY <2>5, <2>6
    <2> HIDE DEF J
    <2>8. QED
      BY <2>2, <2>7
  <1> DEFINE f == Without(e, i, id)
  <1>9. /\ Puts(f.regions, e.regions, i, Left(e.regions[i], id))
        /\ f = With(e, f.regions, RoutesBut(e.routes, Gone(e, e.regions[i], id)))
    <2>1. id \in NodeIds(e.regions[i]) /\ i \in DOMAIN e.regions
      BY <1>2, <1>5, <1>6
    <2>2. QED
      BY <1>4, <2>1, LeftSound
  <1>10. Left(e.regions[i], id) = r
    <2>1. Distinct(o.nodes) /\ id \notin NodeIds(o)
      BY <1>1, <1>2 DEF RegionsSound, HasNode
    <2>2. o.fallback = NoId \/ o.fallback \in NodeIds(o)
      BY <1>1, <1>2, Documented DEF RegionsSound
    <2>3. id # NoId
      BY DEF CommandRecords
    <2>4. Left(Joined(o, c), c.id) = [o EXCEPT !.fallback = FallbackWritten(o)]
      BY <1>2, <2>1, <2>2, <2>3, JoinedLeft
    <2>5. QED
      BY <1>5, <2>4
  <1>11. RoutesBut(e.routes, Gone(e, e.regions[i], id)) = d.routes
    <2>1. \A route \in ToSet(d.routes) : route.dest \notin Gone(e, e.regions[i], id)
      BY <1>1, <1>2, <1>3, NoneGone
    <2>2. QED
      BY <1>2, <1>4, <2>1, AllRoutesLeft
  <1> HIDE DEF o, r, f
  <1>12. f.regions = u
    <2>1. /\ f.regions = [j \in DOMAIN d.regions |-> f.regions[j]] /\ f.regions[i] = r
          /\ \A j \in DOMAIN d.regions : j # i => f.regions[j] = d.regions[j]
      BY <1>5, <1>9, <1>10 DEF Puts
    <2>2. d.regions = [j \in DOMAIN d.regions |-> d.regions[j]]
      BY <1>2 DEF IsSeq
    <2>3. QED
      BY <2>1, <2>2
  <1>13. f = With(d, u, d.routes)
    <2>1. f = With(With(d, e.regions, d.routes), u, d.routes)
      BY <1>4, <1>9, <1>11, <1>12
    <2> HIDE DEF u
    <2>2. QED
      BY <1>1, <2>1 DEF With, DocumentRecords
  <1>14. With(d, u, d.routes) = [d EXCEPT !.regions[i].fallback = FallbackWritten(d.regions[i])]
    BY <1>1 DEF With, r, o, DocumentRecords
  <1>15. QED
    BY <1>8, <1>13, <1>14 DEF f

\* A node that is added and removed again leaves the file as it was, but for a
\* fallback written out (edit.py; tests/unit/topology/test_edit.py, TestRoundtrip).
\* No node may be called like one of the special destinations: `nodes remove` would
\* take the routes to that with it.
THEOREM RoundTrip ==
    ASSUME RouteNamesKept, \A c \in Commands : c.op = "add" => c.id \notin Specials
    PROVE  Spec => []AddThenRemove
  <1>1. ASSUME NEW d, Kept(d), d.routesBlock, NEW c \in Commands, c.op = "add",
               NEW i \in Position(d, c.region), NEW e \in AddResults(d, c)
        PROVE  RemoveResults(e, c) =
                   {[d EXCEPT !.regions[i].fallback = FallbackWritten(d.regions[i])]}
    <2>1. Sound(d) /\ NamesApart(d) /\ c \in CommandRecords /\ c.id \notin Specials
      BY <1>1, CommandsGiven DEF Kept
    <2>2. QED
      BY <1>1, <2>1, AddedRemoved
  <1>2. KeptInv => AddThenRemove
    BY <1>1 DEF KeptInv, FileKept, AddThenRemove
  <1>3. QED
    BY <1>2, AlwaysKept, PTL

=============================================================================
