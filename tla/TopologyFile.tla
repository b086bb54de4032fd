---------------------------- MODULE TopologyFile ----------------------------
(***************************************************************************)
(* The topology file and the processes that edit it: `nodes add` and       *)
(* `nodes remove`.  Each reads the whole file, computes the edited text,   *)
(* writes it to <file>.tmp, a name all editors share, and renames that     *)
(* over the file (TopologyController._read, _write).                       *)
(*                                                                         *)
(* A process that has <file>.tmp open writes to that file wherever its     *)
(* name has gone since: renamed over the topology file by another process, *)
(* or gone.                                                                *)
(***************************************************************************)
EXTENDS TopologyEdit

CONSTANTS Procs,        \* the editing processes
          Documents,    \* what the file may say at first
          Commands,     \* the commands that may be given
          MaxCommands,  \* bound: edits started
          MaxErrors,    \* bound: write errors
          MaxKills      \* bound: processes killed

ASSUME DocumentsLoad == \A d \in Documents : d \in DocumentRecords /\ Loads(d)
ASSUME CommandsGiven == Commands \subseteq CommandRecords

VARIABLES file,     \* the topology file
          tmp,      \* <file>.tmp
          edit,     \* edit[p]: the memory of process p
          spent     \* how much of each bound is used

vars == <<file, tmp, edit, spent>>

-----------------------------------------------------------------------------
\* What a name of the file system stands for: nothing, a file that was created
\* or truncated, one with the lines of two edits mixed up, a whole document.
Mark(state) == [is |-> state, says |-> <<>>]
NoFile == Mark("none")
Empty == Mark("empty")
Torn == Mark("torn")
Whole(d) == [is |-> "whole", says |-> d]

NoEdit == [pc |-> "idle", cmd |-> <<>>, text |-> <<>>, out |-> "none"]
At(p, l) == edit[p].pc = l
Busy(p) == edit[p].pc # "idle"
\* p's memory when it goes on to a step with a file open or none.
Turned(p, pc, out) == [pc |-> pc, cmd |-> edit[p].cmd, text |-> edit[p].text, out |-> out]

Init ==
    /\ file \in {Whole(d) : d \in Documents}
    /\ tmp = NoFile
    /\ edit = [p \in Procs |-> NoEdit]
    /\ spent = [commands |-> 0, errors |-> 0, kills |-> 0]

\* The open handles follow a file to its new name: where is the file that was
\* open as <file>.tmp, and the one that was the topology file?
Moved(tmpTo, fileTo) ==
    [p \in Procs |-> [edit[p] EXCEPT !.out = CASE @ = "tmp" -> tmpTo
                                               [] @ = "file" -> fileTo
                                               [] OTHER -> @]]

\* (Mutant: what an interrupted edit left is edited further.)
BeginFromTemporary(p, c) ==
    /\ At(p, "idle")
    /\ spent.commands < MaxCommands
    /\ file.is = "whole"
    /\ \E d \in Results(IF tmp.is = "whole" THEN tmp.says ELSE file.says, c) :
           edit' = [edit EXCEPT ![p] = [pc |-> "open", cmd |-> c, text |-> d, out |-> "none"]]
    /\ spent' = [spent EXCEPT !.commands = @ + 1]
    /\ UNCHANGED <<file, tmp>>
\* The file is read and the edited text computed.  A command that is refused or
\* has nothing to do ends here and changes nothing.
Begin(p, c) ==
    /\ At(p, "idle")
    /\ spent.commands < MaxCommands
    /\ file.is = "whole"
    /\ \E d \in Results(file.says, c) :
           edit' = [edit EXCEPT ![p] = [pc |-> "open", cmd |-> c, text |-> d, out |-> "none"]]
    /\ spent' = [spent EXCEPT !.commands = @ + 1]
    /\ UNCHANGED <<file, tmp>>

\* (Mutant: the topology file itself is opened.)
OpenFile(p) ==
    /\ At(p, "open")
    /\ file' = Empty
    /\ edit' = [edit EXCEPT ![p] = Turned(p, "write", "file")]
    /\ UNCHANGED <<tmp, spent>>
\* (Mutant: what is left of an earlier edit is not truncated.)
OpenKeeps(p) ==
    /\ At(p, "open")
    /\ tmp' = IF tmp.is = "none" THEN Empty ELSE tmp
    /\ edit' = [edit EXCEPT ![p] = Turned(p, "write", "tmp")]
    /\ UNCHANGED <<file, spent>>
\* <file>.tmp is created, or truncated if somebody left or opened one.
Open(p) ==
    /\ At(p, "open")
    /\ tmp' = Empty
    /\ edit' = [edit EXCEPT ![p] = Turned(p, "write", "tmp")]
    /\ UNCHANGED <<file, spent>>

\* A text, in one write call, over what the file has by now: another text that
\* is longer shows behind it.
Over(old, text) == {Whole(text)} \cup (IF old.is = "empty" THEN {} ELSE {Torn})

\* (Mutant: the file is not closed.)
WriteLeavesOpen(p) ==
    /\ At(p, "write")
    /\ edit' = [edit EXCEPT ![p] = [@ EXCEPT !.pc = "rename"]]
    /\ IF edit[p].out = "tmp" THEN tmp' \in Over(tmp, edit[p].text) ELSE UNCHANGED tmp
    /\ IF edit[p].out = "file" THEN file' \in Over(file, edit[p].text) ELSE UNCHANGED file
    /\ UNCHANGED spent
\* The text is written to the file that was opened.
Write(p) ==
    /\ At(p, "write")
    /\ edit' = [edit EXCEPT ![p] = Turned(p, "rename", "none")]
    /\ IF edit[p].out = "tmp" THEN tmp' \in Over(tmp, edit[p].text) ELSE UNCHANGED tmp
    /\ IF edit[p].out = "file" THEN file' \in Over(file, edit[p].text) ELSE UNCHANGED file
    /\ UNCHANGED spent

\* The mode is copied and <file>.tmp renamed; then the file is loaded again, to
\* report whether it still validates.
Rename(p) ==
    /\ At(p, "rename")
    /\ tmp.is # "none"
    /\ file' = tmp
    /\ tmp' = NoFile
    /\ edit' = [Moved("file", "gone") EXCEPT ![p] = NoEdit]
    /\ UNCHANGED spent

\* Another process has renamed or removed <file>.tmp: an error.
RenameFails(p) ==
    /\ At(p, "rename")
    /\ tmp.is = "none"
    /\ edit' = [edit EXCEPT ![p] = NoEdit]
    /\ UNCHANGED <<file, tmp, spent>>

\* A write error: <file>.tmp is removed on the way out.
Fail(p) ==
    /\ Busy(p)
    /\ spent.errors < MaxErrors
    /\ tmp' = NoFile
    /\ edit' = [Moved("gone", "file") EXCEPT ![p] = NoEdit]
    /\ spent' = [spent EXCEPT !.errors = @ + 1]
    /\ UNCHANGED file

\* The process is killed and leaves <file>.tmp as it is.
Kill(p) ==
    /\ Busy(p)
    /\ spent.kills < MaxKills
    /\ edit' = [edit EXCEPT ![p] = NoEdit]
    /\ spent' = [spent EXCEPT !.kills = @ + 1]
    /\ UNCHANGED <<file, tmp>>

Next ==
    \E p \in Procs :
        \/ Open(p) \/ Write(p) \/ Rename(p) \/ RenameFails(p) \/ Fail(p) \/ Kill(p)
        \/ \E c \in Commands : Begin(p, c)

Spec == Init /\ [][Next]_vars

-----------------------------------------------------------------------------
(* Properties.                                                             *)

\* Every variable stays in its type, and only a process that writes has a file open.
TypeOK ==
    /\ file.is \in {"empty", "torn", "whole"}
    /\ tmp.is \in {"none", "empty", "torn", "whole"}
    /\ edit \in [Procs -> [pc : {"idle", "open", "write", "rename"}, cmd : Commands \cup {<<>>},
                            text : {edit[p].text : p \in Procs}, out : {"none", "tmp", "file", "gone"}]]
    /\ \A p \in Procs : /\ edit[p].out # "none" => At(p, "write")
                         /\ Busy(p) <=> edit[p].cmd # <<>>

\* Whoever reads the topology file finds a document, whenever it is read and
\* whatever editors were interrupted before (controller.py writes to a temporary
\* file and renames it).
FileWhole == file.is = "whole"

\* Why a file that loaded once may no longer do so after edits by command: a
\* node lacks a block to be filled in by hand, the region of hub_default is
\* empty, a published port names a hub that is gone, no hub is left for the
\* portals, or a new id takes a name that a portal, hub_default or a route has.
Incomplete(d) == \E r \in ToSet(d.regions) : \E n \in ToSet(r.nodes) : ~n.ready
DefaultEmptied(d) ==
    \E r \in ToSet(d.regions) : r.id = d.default /\ r.nodes = <<>>
PortalsBereft(t) ==
    \/ t.portals # <<>> /\ HubNodes(t) = {}
    \/ \E p \in ToSet(t.portals) : \E e \in ToSet(p.publish) : ~(Scope(t, e) \subseteq HubNodes(t))
NameTaken(t) ==
    \/ ~PortalNamesValid(t)
    \/ t.default \in Ids(t.hubs)
    \/ \E route \in ToSet(t.routes) : route.dest \in Ids(t.hubs) \cup HubNodes(t)

\* A file the commands have edited loads, or it does not for one of these reasons.
LoadsOrExplained ==
    file.is = "whole" =>
        \/ Loads(file.says)
        \/ Incomplete(file.says) \/ DefaultEmptied(file.says)
        \/ PortalsBereft(Parse(file.says)) \/ NameTaken(Parse(file.says))

\* Whatever the commands do, alone or at the same time, no id and no vless route
\* is there twice, and no route, no lb_fallback points at what is not there (`nodes
\* remove` drops "hub_routes and lb_fallback entries that point at it, and routes
\* to the region once it is empty", docs/cli-reference.md).  Not where a command
\* creates a hub region with the id of an exit node that a route names: the route
\* then leads to the hub region, and stays when the node goes.
NothingDangles ==
    file.is = "whole" =>
        LET t == Parse(file.says)
        IN  /\ UniqueIds(t) /\ UniqueRoutes(t) /\ ExitRegionsValid(t)
            /\ \A route \in ToSet(t.routes) :
                  route.dest \in Specials \cup Rendered(t) \cup ExitNodes(t)

\* A command changes what it was asked to change in the file that is there: "only
\* the edited lines change, everything else is kept" (docs/cli-reference.md).
OthersKept ==
    [][\A p \in Procs : Rename(p) => file' \in {Whole(d) : d \in Results(file.says, edit[p].cmd)}]_vars

\* The node a balanced region falls back to stays the same through every edit
\* but its own removal, written as lb_fallback or not.  Where lb_fallback is null
\* in so many words, nothing is written and an addition may change it (edit.py,
\* _fallback_to_set; tests/unit/topology/test_edit.py,
\* test_null_balancer_keys_leave_lb_fallback_alone).
FallbackNode(r) == IF r.fallback = NoId THEN FirstPrimary(r) ELSE r.fallback
FallbackStays ==
    [][\A p \in Procs : Rename(p) =>
          \A i \in DOMAIN file.says.regions :
              LET r == file.says.regions[i]
              IN  (/\ r.lb /\ r.nodes # <<>> /\ edit[p].cmd.id # FallbackNode(r)
                   /\ r.nulled => edit[p].cmd.op = "remove")
                      => FallbackNode(file'.says.regions[i]) = FallbackNode(r)]_vars

\* Adding a node to a region and removing it again gives the file as it was, but
\* for a fallback written out (tests/unit/topology/test_edit.py, TestRoundtrip).
AddThenRemove ==
    file.is = "whole" =>
        \A c \in {x \in Commands : x.op = "add"} :
            \A i \in Position(file.says, c.region) : \A d \in AddResults(file.says, c) :
                file.says.routesBlock =>
                    RemoveResults(d, c) =
                        {[file.says EXCEPT !.regions[i].fallback = FallbackWritten(file.says.regions[i])]}
=============================================================================
