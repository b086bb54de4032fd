------------------------------ MODULE KeyStore ------------------------------
(***************************************************************************)
(* The key directory and the `hexrift gen-keys` commands that fill it.     *)
(*                                                                         *)
(* Each command is a process with a snapshot of the topology taken when it *)
(* starts (SchemaController.config is parsed once per process).  It works  *)
(* through the nodes it was asked for in file order; for each one          *)
(* KeysController.gen_keys looks at the file, may look for a sibling hub to *)
(* copy from, or generates, and writes one or several files through        *)
(* write_secret_file: a temporary file of its own, filled, then renamed.   *)
(* Steps of different processes interleave between any two accesses to the *)
(* directory; the operator edits the topology, and something outside the   *)
(* program may damage a file, at any time.                                 *)
(*                                                                         *)
(* A file's content is the number of its key pair and the key              *)
(* configuration (`keys:` settings) the pair was generated under.  A node  *)
(* id may leave its region and be declared again in another, of either     *)
(* type; its key file stays where it is.                                   *)
(***************************************************************************)
EXTENDS Naturals, Sequences, FiniteSets

CONSTANTS Procs,        \* gen-keys processes
          Node,         \* node ids the topology may use
          Region,       \* the regions, numbered in file order
          HubRegions,   \* the regions of type hub; the others are exit regions
          Config,       \* key configurations: auth, mode, session time, padding, enabled
          Rank,         \* Rank[n]: where n stands among the nodes of its region
          Topo0,        \* the topologies there may be at first
          NoFile,       \* "keys/<n>.yaml does not exist"
          Corrupt,      \* "the file exists and NodeKeys cannot be read from it"
          MaxCommands,  \* bound: gen-keys commands started
          MaxEdits,     \* bound: topology edits
          MaxAborts,    \* bound: commands that die (write error, interrupt)
          MaxDamage,    \* bound: files damaged from outside
          MaxIncidents  \* bound: edits, deaths and damage together

ASSUME RankAssumption ==
    /\ Rank \in [Node -> Nat]
    /\ \A m, n \in Node : Rank[m] = Rank[n] => m = n

ASSUME MarksAssumption ==
    /\ NoFile # Corrupt
    /\ {NoFile, Corrupt} \cap [pair : Nat, cfg : Config] = {}
    /\ {NoFile, Corrupt} \cap Nat = {}

ASSUME RegionAssumption ==
    /\ Region \subseteq Nat
    /\ Topo0 \subseteq UNION {[S -> [region : Region, cfg : Config]] : S \in SUBSET Node}

VARIABLES topo,     \* the topology file: declared node -> its region and configuration
          file,     \* file[n]: the content of keys/<n>.yaml
          granted,  \* history: granted[i] is the node pair i was generated for, and
                    \*     those whose file it was put into
          met,      \* history: met[n] is n and the nodes that, in some topology so far,
                    \*     were hubs of n's region with n's configuration
          run,      \* run[p]: the memory of process p
          spent     \* how much of each bound is used

vars == <<topo, file, granted, met, run, spent>>

-----------------------------------------------------------------------------
Keys == [pair : Nat, cfg : Config]
Topologies == UNION {[S -> [region : Region, cfg : Config]] : S \in SUBSET Node}

\* Nodes are in file order: by region, and by their place in it.
Precedes(t, m, n) ==
    \/ t[m].region < t[n].region
    \/ t[m].region = t[n].region /\ Rank[m] < Rank[n]
IsFirst(t, n, S) == n \in S /\ \A m \in S \ {n} : Precedes(t, n, m)

IsHub(t, n) == t[n].region \in HubRegions
\* What the documentation calls hubs that share: n, and the hubs of its region that
\* have its configuration.
Circle(t, n) == {m \in DOMAIN t : m = n \/ (IsHub(t, n) /\ t[m] = t[n])}
CirclesOf(t) == [n \in Node |-> IF n \in DOMAIN t THEN Circle(t, n) ELSE {n}]

Runs == [pc     : {"idle", "next", "scan", "write", "fill", "replace"},
         force  : BOOLEAN,          \* the command has --force
         snap   : Topologies,       \* the topology it parsed
         asked  : SUBSET Node,      \* the nodes it is for
         old    : SUBSET Node,      \* history: those among them that had a key file when
                                    \*     it started, unless it has --force
         todo   : SUBSET Node,      \* the ones not dealt with yet
         sibs   : SUBSET Node,      \* siblings to look at, then files to write
         held   : Keys \cup {NoFile},            \* the keys about to be saved
         tmp    : Keys \cup {NoFile, Corrupt},   \* its temporary file
         failed : BOOLEAN]          \* it counted an error
NoRun == [pc |-> "idle", force |-> FALSE, snap |-> [n \in {} |-> NoFile],
          asked |-> {}, old |-> {}, todo |-> {}, sibs |-> {}, held |-> NoFile,
          tmp |-> NoFile, failed |-> FALSE]

At(p, l) == run[p].pc = l
Calm == spent.edits + spent.aborts + spent.damage < MaxIncidents
\* gen_keys of process p works on n: nodes are taken in file order.
Current(p, n) == IsFirst(run[p].snap, n, run[p].todo)
\* (Mutants, each a plausible slip in the definition below it: no look at the
\* region; any node that may have a file, declared or not.)
SiblingsAnywhere(t, n) == DOMAIN t \ {n}
SiblingsOnDisk(t, n) == {m \in Node \ {n} : IsHub(t, n)}
\* The other nodes of n's region, if they are hubs.
Siblings(t, n) == {m \in DOMAIN t \ {n} : IsHub(t, n) /\ t[m].region = t[n].region}
SameConfig(p, m, n) == run[p].snap[m].cfg = run[p].snap[n].cfg
SiblingsOf(p, n) == Siblings(run[p].snap, n)

Init ==
    /\ topo \in Topo0
    /\ file = [n \in Node |-> NoFile]
    /\ granted = <<>>
    /\ met = CirclesOf(topo)
    /\ run = [p \in Procs |-> NoRun]
    /\ spent = [commands |-> 0, edits |-> 0, aborts |-> 0, damage |-> 0]

-----------------------------------------------------------------------------
(* The command: component.py.                                              *)

\* `gen-keys --all` or `gen-keys <node>`, with or without --force; a node that
\* is not declared is refused before anything happens.
Start(p, ns, f) ==
    /\ At(p, "idle")
    /\ spent.commands < MaxCommands
    /\ ns = DOMAIN topo \/ \E n \in DOMAIN topo : ns = {n}
    /\ run' = [run EXCEPT ![p] = [NoRun EXCEPT !.pc = "next", !.force = f,
                    !.snap = topo, !.asked = ns, !.todo = ns,
                    !.old = {n \in ns : file[n] # NoFile /\ ~f}]]
    /\ spent' = [spent EXCEPT !.commands = @ + 1]
    /\ UNCHANGED <<topo, file, granted, met>>

\* The loop is through: the command reports and its process ends.
Finish(p) ==
    /\ At(p, "next")
    /\ run[p].todo = {}
    /\ run' = [run EXCEPT ![p] = NoRun]
    /\ UNCHANGED <<topo, file, granted, met, spent>>

\* The key file exists and --force was not given: skipped.
Skip(p, n) ==
    /\ At(p, "next")
    /\ Current(p, n)
    /\ file[n] # NoFile
    /\ ~run[p].force
    /\ run' = [run EXCEPT ![p] = [@ EXCEPT !.todo = run[p].todo \ {n}]]
    /\ UNCHANGED <<topo, file, granted, met, spent>>

\* A write error (anything but a KeysError) or an interrupt ends the command;
\* write_secret_file unlinks the temporary file on its way out.
Abort(p) ==
    /\ ~At(p, "idle")
    /\ spent.aborts < MaxAborts /\ Calm
    /\ run' = [run EXCEPT ![p] = NoRun]
    /\ spent' = [spent EXCEPT !.aborts = @ + 1]
    /\ UNCHANGED <<topo, file, granted, met>>

-----------------------------------------------------------------------------
(* One node: gen_keys in controller.py.                                    *)

\* (Mutant: an existing file does not stop the command.)
BeginUnchecked(p, n) ==
    /\ At(p, "next")
    /\ Current(p, n)
    /\ run' = [run EXCEPT ![p] = [@ EXCEPT !.pc = "scan",
                   !.sibs = IF run[p].force THEN {} ELSE SiblingsOf(p, n)]]
    /\ UNCHANGED <<topo, file, granted, met, spent>>

\* The first look at n's file lets gen_keys go on.
Begin(p, n) ==
    /\ At(p, "next")
    /\ Current(p, n)
    /\ file[n] = NoFile \/ run[p].force
    /\ run' = [run EXCEPT ![p] = [@ EXCEPT !.pc = "scan",
                   !.sibs = IF run[p].force THEN {} ELSE SiblingsOf(p, n)]]
    /\ UNCHANGED <<topo, file, granted, met, spent>>

\* The next sibling has no file, or another key configuration.
PassBy(p, n, s) ==
    /\ At(p, "scan")
    /\ Current(p, n)
    /\ IsFirst(run[p].snap, s, run[p].sibs)
    /\ file[s] = NoFile \/ ~SameConfig(p, s, n)
    /\ run' = [run EXCEPT ![p] = [@ EXCEPT !.sibs = run[p].sibs \ {s}]]
    /\ UNCHANGED <<topo, file, granted, met, spent>>

\* The next sibling has a file and the same configuration: its keys are taken.
Copy(p, n, s) ==
    /\ At(p, "scan")
    /\ Current(p, n)
    /\ IsFirst(run[p].snap, s, run[p].sibs)
    /\ file[s] \notin {NoFile, Corrupt}
    /\ SameConfig(p, s, n)
    /\ run' = [run EXCEPT ![p] =
                   [@ EXCEPT !.pc = "write", !.sibs = {n}, !.held = file[s]]]
    /\ UNCHANGED <<topo, file, granted, met, spent>>

\* (Mutants: the error is not counted; the loop stays at the node.)
CopyFailsUncounted(p, n, s) ==
    /\ At(p, "scan")
    /\ Current(p, n)
    /\ IsFirst(run[p].snap, s, run[p].sibs)
    /\ file[s] = Corrupt
    /\ SameConfig(p, s, n)
    /\ run' = [run EXCEPT ![p] = [@ EXCEPT !.pc = "next", !.sibs = {},
                   !.todo = run[p].todo \ {n}]]
    /\ UNCHANGED <<topo, file, granted, met, spent>>
CopyFailsForever(p, n, s) ==
    /\ At(p, "scan")
    /\ Current(p, n)
    /\ IsFirst(run[p].snap, s, run[p].sibs)
    /\ file[s] = Corrupt
    /\ SameConfig(p, s, n)
    /\ run' = [run EXCEPT ![p] = [@ EXCEPT !.pc = "next", !.sibs = {},
                   !.failed = TRUE]]
    /\ UNCHANGED <<topo, file, granted, met, spent>>

\* It has one that does not load: KeysError, counted; the loop goes on.
CopyFails(p, n, s) ==
    /\ At(p, "scan")
    /\ Current(p, n)
    /\ IsFirst(run[p].snap, s, run[p].sibs)
    /\ file[s] = Corrupt
    /\ SameConfig(p, s, n)
    /\ run' = [run EXCEPT ![p] = [@ EXCEPT !.pc = "next", !.sibs = {},
                   !.failed = TRUE, !.todo = run[p].todo \ {n}]]
    /\ UNCHANGED <<topo, file, granted, met, spent>>

\* (Mutants: only the node's own file; every file of the snapshot.)
TargetsAlone(p, n) == {n}
TargetsAll(p, n) == {n} \cup {s \in DOMAIN run[p].snap : run[p].force}
\* The files a fresh pair goes to: the node's own and, when a hub is forced,
\* those of every sibling of the same configuration, with a file or without.
Targets(p, n) ==
    {n} \cup {s \in SiblingsOf(p, n) : run[p].force /\ SameConfig(p, s, n)}

\* No sibling to copy from: a fresh pair under the node's configuration.
Mint(p, n) ==
    /\ At(p, "scan")
    /\ Current(p, n)
    /\ run[p].sibs = {}
    /\ granted' = Append(granted, {n})
    /\ run' = [run EXCEPT ![p] = [@ EXCEPT !.pc = "write", !.sibs = Targets(p, n),
                   !.held = [pair |-> Len(granted) + 1, cfg |-> run[p].snap[n].cfg]]]
    /\ UNCHANGED <<topo, file, met, spent>>

-----------------------------------------------------------------------------
(* One file: write_secret_file in shared/files.py.                         *)

\* mkstemp: a file of a name nobody else uses, not complete yet.
Open(p) ==
    /\ At(p, "write")
    /\ run' = [run EXCEPT ![p] = [@ EXCEPT !.pc = "fill", !.tmp = Corrupt]]
    /\ UNCHANGED <<topo, file, granted, met, spent>>

\* (Mutant: the rename does not wait for the content.)
FillNothing(p) ==
    /\ At(p, "fill")
    /\ run' = [run EXCEPT ![p] = [@ EXCEPT !.pc = "replace"]]
    /\ UNCHANGED <<topo, file, granted, met, spent>>

\* The content is written and the handle closed.
Fill(p) ==
    /\ At(p, "fill")
    /\ run' = [run EXCEPT ![p] = [@ EXCEPT !.pc = "replace", !.tmp = run[p].held]]
    /\ UNCHANGED <<topo, file, granted, met, spent>>

\* The node's own file first, then the siblings' in file order.
IsTarget(p, n, t) ==
    IF n \in run[p].sibs THEN t = n ELSE IsFirst(run[p].snap, t, run[p].sibs)

\* os.replace; more files of this pair follow.
Replace(p, n, t) ==
    /\ At(p, "replace")
    /\ Current(p, n)
    /\ IsTarget(p, n, t)
    /\ file' = [file EXCEPT ![t] = run[p].tmp]
    /\ granted' = [granted EXCEPT ![run[p].held.pair] = @ \cup {t}]
    /\ LET rest == run[p].sibs \ {t}
           over == rest = {}
       IN  run' = [run EXCEPT ![p] = [@ EXCEPT !.tmp = NoFile, !.sibs = rest,
                      !.pc = IF over THEN "next" ELSE "write",
                      !.held = IF over THEN NoFile ELSE run[p].held,
                      !.todo = IF over THEN run[p].todo \ {n} ELSE run[p].todo]]
    /\ UNCHANGED <<topo, met, spent>>

-----------------------------------------------------------------------------
(* The world outside.                                                      *)

\* The topology file changes at one node: added to any region, removed, moved to
\* another region, or its settings.
Edit(n, t) ==
    /\ spent.edits < MaxEdits /\ Calm
    /\ t # topo
    /\ DOMAIN t \ {n} = DOMAIN topo \ {n}
    /\ \A m \in DOMAIN t \ {n} : t[m] = topo[m]
    /\ topo' = t
    /\ met' = [m \in Node |-> met[m] \cup CirclesOf(t)[m]]
    /\ spent' = [spent EXCEPT !.edits = @ + 1]
    /\ UNCHANGED <<file, granted, run>>

\* A key file stops being readable.
Damage(n) ==
    /\ spent.damage < MaxDamage /\ Calm
    /\ file[n] \notin {NoFile, Corrupt}
    /\ file' = [file EXCEPT ![n] = Corrupt]
    /\ spent' = [spent EXCEPT !.damage = @ + 1]
    /\ UNCHANGED <<topo, granted, met, run>>

-----------------------------------------------------------------------------
\* What process p does by itself once started.
Step(p) ==
    \/ Finish(p) \/ Open(p) \/ Fill(p)
    \/ \E n \in Node : \/ Skip(p, n) \/ Begin(p, n) \/ Mint(p, n)
                       \/ \E s \in Node : \/ PassBy(p, n, s) \/ Copy(p, n, s)
                                          \/ CopyFails(p, n, s) \/ Replace(p, n, s)

Next ==
    \/ \E p \in Procs : \/ Step(p) \/ Abort(p)
                        \/ \E ns \in SUBSET Node, f \in BOOLEAN : Start(p, ns, f)
    \/ \E n \in Node : Damage(n)
    \/ spent.edits < MaxEdits /\ \E n \in Node, t \in Topologies : Edit(n, t)

Spec == Init /\ [][Next]_vars
\* A command that was started is scheduled until it is through.
FairSpec == Spec /\ \A p \in Procs : WF_vars(Step(p))

-----------------------------------------------------------------------------
(* Properties.                                                             *)

\* Every variable stays in its type, and a command only works on nodes of the
\* topology it parsed (so that their region and configuration can be looked up).
TypeOK ==
    /\ topo \in Topologies
    /\ file \in [Node -> Keys \cup {NoFile, Corrupt}]
    /\ granted \in Seq(SUBSET Node)
    /\ met \in [Node -> SUBSET Node]
    /\ run \in [Procs -> Runs]
    /\ \A p \in Procs : run[p].todo \cup run[p].sibs \subseteq DOMAIN run[p].snap
    /\ spent \in [commands : Nat, edits : Nat, aborts : Nat, damage : Nat]

\* No node of C was ever, in a topology, a hub of one region and one configuration
\* with a node outside C.
Apart(C) == \A m \in C, n \in Node \ C : n \notin met[m] /\ m \notin met[n]
\* Whatever was edited, aborted or interleaved: gen_keys hands a pair on between hubs
\* of one region only, so it goes no further than node ids do that change their region.
\* Nodes that were kept apart share no pair; in particular a node that was an exit all
\* along shares its pair with nobody, and where no id ever changes its region no pair
\* leaves one.  (An id that does change takes the pair along.)
KeysStayApart ==
    \A C \in SUBSET Node : Apart(C) =>
        \A m \in C, n \in Node \ C :
            (file[m] \in Keys /\ file[n] \in Keys) => file[m].pair # file[n].pair

\* No command makes a key file unreadable, alone, interleaved or dying half way
\* through a write: what write_secret_file renames is always complete.
WritesAreWhole ==
    [][\A n \in Node :
          (file'[n] = Corrupt /\ file[n] # Corrupt) => spent'.damage > spent.damage]_vars

\* "Without --force existing key files are left alone": however many commands overlap
\* and whatever is edited or damaged meanwhile, a command without --force replaces no
\* file that was there when it started, its own node's or a sibling's.  (A file that
\* another command writes after this one has looked is replaced: gen_keys looks once,
\* before the keys are generated.)
ExistingLeftAlone ==
    [][\A p \in Procs, n, t \in Node : Replace(p, n, t) => t \notin run[p].old]_vars

\* A command that reports no error leaves a key file for every node it was
\* asked for, also when other commands, edits and damage come in between.
SuccessCovers ==
    [][\A p \in Procs :
          (Finish(p) /\ ~run[p].failed) => \A n \in run[p].asked : file[n] # NoFile]_vars

\* Hubs of one region with one key configuration that have keys share them.
Agree(t) ==
    \A m, n \in DOMAIN t :
        (m \in Circle(t, n) /\ file[m] \in Keys /\ file[n] \in Keys) => file[m] = file[n]

\* While no command runs, the hubs of a region that share a configuration share
\* their keys.
HubsShareKeypair == (\A p \in Procs : At(p, "idle")) => Agree(topo)
\* They do as long as the topology was not edited and no command died: any sequence
\* of commands, forced and not, over damaged files too.
UndisturbedHubsShare == (spent.edits = 0 /\ spent.aborts = 0) => HubsShareKeypair

\* `gen-keys --all --force` that runs to its end on the current topology settles
\* everything: each node has a key file, made for its configuration, and the
\* hubs of its region that have the same one share their keys (but for files
\* damaged since).
RotationRestores ==
    [][\A p \in Procs :
          (Finish(p) /\ run[p].force /\ run[p].asked = DOMAIN topo /\ run[p].snap = topo)
              => /\ Agree(topo)
                 /\ \A n \in DOMAIN topo :
                        file[n] # Corrupt => file[n] \in Keys /\ file[n].cfg = topo[n].cfg]_vars

\* Every command ends.
CommandsEnd == \A p \in Procs : ~At(p, "idle") ~> At(p, "idle")

\* The key directory implements the abstract authority.
PairOf(k) == IF k \in {NoFile, Corrupt} THEN k ELSE k.pair
Authority == INSTANCE KeyAuthority WITH holds <- [n \in Node |-> PairOf(file[n])]
AuthoritySpec == Authority!ASpec
=============================================================================
