----------------------------- MODULE Deployment -----------------------------
(***************************************************************************)
(* The commands `build` and `gen-portal` and the configurations they write, *)
(* next to everything that goes on meanwhile: edits of the topology, and    *)
(* gen-keys, which is represented by what it promises (KeyAuthority).       *)
(*                                                                         *)
(* A command is a process with a snapshot of the topology.  It works        *)
(* through its nodes or portals in order; for each it reads the key files   *)
(* one by one, writes config.json (through a temporary file and a rename:   *)
(* one step) and then haproxy.cfg (truncated, then filled).  A topology is  *)
(*   nodes    the node ids in file order;  hubs, exits  those of the roles  *)
(*   portals  the portal ids;  broken  nodes whose configuration cannot be  *)
(*            derived (say a WireGuard subnet that is too small)            *)
(*   circles  the hubs with which each node shares its keys                 *)
(***************************************************************************)
EXTENDS KeyAuthority, SequencesExt

CONSTANTS Topology,     \* the topologies considered
          Portal,       \* portal ids
          Procs,        \* build and gen-portal processes
          Flags,        \* the combinations of --xray and --haproxy considered
          Topo0,        \* the topology at first
          Keys0,        \* the key directory at first: the variables of KeyAuthority
          NoConfig,     \* "no such configuration was written yet"
          Torn,         \* "haproxy.cfg is empty or incomplete"
          MaxCommands,  \* bound: commands started
          MaxGrants,    \* bound: key pairs generated
          MaxIncidents  \* bound: edits, damaged files, write errors and kills together

ASSUME TopologyAssumption ==
    /\ Topo0 \in Topology
    /\ \A t \in Topology : /\ t.nodes \in Seq(Node) /\ t.portals \in Seq(Portal)
                           /\ t.hubs \in Seq(Node) /\ t.exits \in Seq(Node)
                           /\ t.circles \in Meetings
ASSUME KeysAssumption ==
    /\ Keys0.holds \in [Node -> Nat \cup {NoFile, Corrupt}] /\ Keys0.granted \in Seq(SUBSET Node)
    /\ \A n \in Node : Keys0.holds[n] \in Nat =>
          Keys0.holds[n] \in DOMAIN Keys0.granted /\ n \in Keys0.granted[Keys0.holds[n]]
    /\ Keys0.met \in Meetings
ASSUME FlagsAssumption == Flags \subseteq [xray : BOOLEAN, haproxy : BOOLEAN]
ASSUME MarkAssumption ==
    /\ NoConfig \notin [topo : Topology, keys : Seq(Nat)] /\ {NoConfig, Torn} \cap Topology = {}
    /\ NoConfig # Torn /\ {NoFile, Corrupt} \cap Nat = {} /\ Node \cap Portal = {}

VARIABLES topo,   \* the topology file
          out,    \* out[i]: config.json of node or portal i: topology and key pairs in it
          front,  \* front[i]: haproxy.cfg of i: the topology it is from
          proc,   \* proc[p]: the memory of process p
          spent   \* how much of each bound is used

vars == <<holds, granted, met, topo, out, front, proc, spent>>

-----------------------------------------------------------------------------
Item == Node \cup Portal
Config == [topo : Topology, keys : Seq(Nat)]

\* The key files a configuration is made from, in the order they are read.
Needs(t, i) ==
    IF i \in Portal THEN t.hubs ELSE IF i \in ToSet(t.hubs) THEN <<i>> \o t.exits ELSE <<i>>

Process == [pc     : {"idle", "item", "haproxy", "fill"},
            snap   : Topology,       \* the topology it parsed
            todo   : Seq(Item),      \* the items left, the current one first
            got    : Seq(Nat),       \* the pairs read for the current item
            xray   : BOOLEAN,        \* --xray
            haproxy : BOOLEAN,       \* --haproxy
            asked  : SUBSET Item,    \* what the command is for
            failed : SUBSET Item,    \* the items counted as failed
            quiet  : BOOLEAN]        \* auxiliary: nothing it depends on changed since its start

At(p, l) == proc[p].pc = l
Current(p) == Head(proc[p].todo)
Working(p) == At(p, "item") /\ proc[p].todo # <<>>
\* (Mutant: the look at which file is next is off by one.)
NextFileRepeated(p) == Needs(proc[p].snap, Current(p))[IF proc[p].got = <<>> THEN 1 ELSE Len(proc[p].got)]
NextFile(p) == Needs(proc[p].snap, Current(p))[Len(proc[p].got) + 1]
Complete(p) == Len(proc[p].got) = Len(Needs(proc[p].snap, Current(p)))
\* gen_portal looks for the portal first.
Known(p) == Current(p) \in Portal => Current(p) \in ToSet(proc[p].snap.portals)

\* (Mutant: one failure ends the batch.)
NextItemUnlessFailed(p, bad) ==
    [proc[p] EXCEPT !.pc = "item", !.todo = IF bad = {} THEN Tail(@) ELSE <<>>, !.got = <<>>,
                    !.failed = IF bad = {} THEN @ ELSE @ \cup ToSet(proc[p].todo)]
\* Done with the current item: it counts as failed if in bad.
NextItem(p, bad) ==
    [proc[p] EXCEPT !.pc = "item", !.todo = Tail(@), !.got = <<>>, !.failed = @ \cup bad]

\* Process p becomes r; what it wrote, others no longer depend on.
Become(p, r) == proc' = [proc EXCEPT ![p] = r]
BecomeWriting(p, r) ==
    proc' = [q \in Procs |-> IF q = p THEN r ELSE [proc[q] EXCEPT !.quiet = FALSE]]

NoProcess == [pc |-> "idle", snap |-> Topo0, todo |-> <<>>, got |-> <<>>, xray |-> FALSE, haproxy |-> FALSE,
            asked |-> {}, failed |-> {}, quiet |-> FALSE]

Init ==
    /\ holds = Keys0.holds
    /\ granted = Keys0.granted
    /\ met = Keys0.met
    /\ topo = Topo0
    /\ out = [i \in Item |-> NoConfig]
    /\ front = [i \in Item |-> NoConfig]
    /\ proc = [p \in Procs |-> NoProcess]
    /\ spent = [commands |-> 0, edits |-> 0, damage |-> 0, errors |-> 0]

Calm == spent.edits + spent.damage + spent.errors < MaxIncidents

-----------------------------------------------------------------------------
(* The commands: component.py.                                             *)

Begin(p, items, x, h) ==
    /\ At(p, "idle")
    /\ spent.commands < MaxCommands
    /\ Become(p, [pc |-> "item", snap |-> topo, todo |-> items, got |-> <<>>, xray |-> x, haproxy |-> h,
                  asked |-> ToSet(items), failed |-> {}, quiet |-> TRUE])
    /\ spent' = [spent EXCEPT !.commands = @ + 1]
    /\ UNCHANGED <<holds, granted, met, topo, out, front>>

\* build --all, or build of one declared node.
StartBuild(p, n, x, h) ==
    /\ x \/ h
    /\ n \in ToSet(topo.nodes)
    /\ Begin(p, topo.nodes, x, h) \/ Begin(p, <<n>>, x, h)

\* gen-portal --all, or of one portal, declared or not.
StartPortals(p, q) ==
    \/ topo.portals # <<>> /\ Begin(p, topo.portals, TRUE, FALSE)
    \/ Begin(p, <<q>>, TRUE, FALSE)

\* The command reports how many failed, and its exit status with it.
Finish(p) ==
    /\ At(p, "item")
    /\ proc[p].todo = <<>>
    /\ Become(p, NoProcess)
    /\ UNCHANGED <<holds, granted, met, topo, out, front, spent>>

\* The process dies; a haproxy.cfg it has open stays as it is.
Kill(p) ==
    /\ ~At(p, "idle")
    /\ Calm
    /\ Become(p, NoProcess)
    /\ spent' = [spent EXCEPT !.errors = @ + 1]
    /\ UNCHANGED <<holds, granted, met, topo, out, front>>

-----------------------------------------------------------------------------
(* One item of the batch: build and gen_portal in controller.py.           *)

\* (Mutant: whatever is there is taken for keys.)
ReadUnchecked(p) ==
    /\ Working(p) /\ Known(p) /\ ~Complete(p)
    /\ Become(p, [proc[p] EXCEPT !.got = Append(@, holds[NextFile(p)])])
    /\ UNCHANGED <<holds, granted, met, topo, out, front, spent>>
\* load_node_keys
Read(p) ==
    /\ Working(p) /\ Known(p) /\ ~Complete(p)
    /\ holds[NextFile(p)] \in Nat
    /\ Become(p, [proc[p] EXCEPT !.got = Append(@, holds[NextFile(p)])])
    /\ UNCHANGED <<holds, granted, met, topo, out, front, spent>>

\* (Mutant: the exception is not counted.)
RefuseUncounted(p) ==
    /\ Working(p)
    /\ \/ ~Known(p)
       \/ Known(p) /\ ~Complete(p) /\ holds[NextFile(p)] \notin Nat
       \/ Known(p) /\ Complete(p) /\ Current(p) \in proc[p].snap.broken
    /\ Become(p, NextItem(p, {}))
    /\ UNCHANGED <<holds, granted, met, topo, out, front, spent>>
\* An exception before anything is written: counted, and on with the next item.
Refuse(p) ==
    /\ Working(p)
    /\ \/ ~Known(p)
       \/ Known(p) /\ ~Complete(p) /\ holds[NextFile(p)] \notin Nat
       \/ Known(p) /\ Complete(p) /\ Current(p) \in proc[p].snap.broken
    /\ Become(p, NextItem(p, {Current(p)}))
    /\ UNCHANGED <<holds, granted, met, topo, out, front, spent>>

\* The configuration is derived from what was read.
Ready(p) == Working(p) /\ Known(p) /\ Complete(p) /\ Current(p) \notin proc[p].snap.broken

\* config.json
WriteXray(p) ==
    /\ Ready(p) /\ proc[p].xray
    /\ out' = [out EXCEPT ![Current(p)] = [topo |-> proc[p].snap, keys |-> proc[p].got]]
    /\ BecomeWriting(p, IF proc[p].haproxy THEN [proc[p] EXCEPT !.pc = "haproxy"] ELSE NextItem(p, {}))
    /\ UNCHANGED <<holds, granted, met, topo, front, spent>>

AtHaproxy(p) == At(p, "haproxy") \/ (Ready(p) /\ ~proc[p].xray)
\* haproxy.cfg is opened for writing...
Truncate(p) ==
    /\ AtHaproxy(p)
    /\ front' = [front EXCEPT ![Current(p)] = Torn]
    /\ BecomeWriting(p, [proc[p] EXCEPT !.pc = "fill"])
    /\ UNCHANGED <<holds, granted, met, topo, out, spent>>

\* (Mutant: the text never gets there.)
FillNothing(p) ==
    /\ At(p, "fill")
    /\ BecomeWriting(p, NextItem(p, {}))
    /\ UNCHANGED <<holds, granted, met, topo, out, front, spent>>
\* ... and has its text.
Fill(p) ==
    /\ At(p, "fill")
    /\ front' = [front EXCEPT ![Current(p)] = proc[p].snap]
    /\ BecomeWriting(p, NextItem(p, {}))
    /\ UNCHANGED <<holds, granted, met, topo, out, spent>>

\* A write error is an exception like any other; what was written stays.
WriteFails(p) ==
    /\ Ready(p) \/ At(p, "haproxy") \/ At(p, "fill")
    /\ Calm
    /\ Become(p, NextItem(p, {Current(p)}))
    /\ spent' = [spent EXCEPT !.errors = @ + 1]
    /\ UNCHANGED <<holds, granted, met, topo, out, front>>

-----------------------------------------------------------------------------
(* The world outside.                                                      *)

Disturb == proc' = [p \in Procs |-> [proc[p] EXCEPT !.quiet = FALSE]]

Edit(t) ==
    /\ Calm
    /\ topo' = t
    /\ Meet(t.circles)
    /\ spent' = [spent EXCEPT !.edits = @ + 1]
    /\ Disturb
    /\ UNCHANGED <<out, front>>

\* gen-keys at work.
GenKeys(n) ==
    /\ \/ Len(granted) < MaxGrants /\ Grant(n) /\ UNCHANGED proc
       \/ (\E i \in DOMAIN granted : Install(n, i)) /\ Disturb
    /\ UNCHANGED <<topo, out, front, spent>>

Damage(n) ==
    /\ Calm
    /\ Spoil(n)
    /\ Disturb
    /\ spent' = [spent EXCEPT !.damage = @ + 1]
    /\ UNCHANGED <<topo, out, front>>

-----------------------------------------------------------------------------
Step(p) == Read(p) \/ Refuse(p) \/ WriteXray(p) \/ Truncate(p) \/ Fill(p) \/ Finish(p)

Next ==
    \/ \E p \in Procs :
          \/ Step(p) \/ WriteFails(p) \/ Kill(p)
          \/ \E n \in Node, f \in Flags : StartBuild(p, n, f.xray, f.haproxy)
          \/ \E q \in Portal : StartPortals(p, q)
    \/ \E t \in Topology : Edit(t)
    \/ \E n \in Node : GenKeys(n) \/ Damage(n)

Spec == Init /\ [][Next]_vars

-----------------------------------------------------------------------------
(* Properties.                                                             *)

\* Of the pairs in g, pair i was generated for node n or put into its key file.
GrantedTo(g, i, n) == i \in DOMAIN g /\ n \in g[i]
\* How much of each bound is used.
Budget == [commands : Nat, edits : Nat, damage : Nat, errors : Nat]

\* Every variable stays in its type; a process at haproxy.cfg has an item.
TypeOK ==
    /\ holds \in [Node -> Nat \cup {NoFile, Corrupt}]
    /\ granted \in Seq(SUBSET Node) /\ met \in [Node -> SUBSET Node]
    /\ topo \in Topology
    /\ out \in [Item -> Config \cup {NoConfig}]
    /\ front \in [Item -> Topology \cup {NoConfig, Torn}]
    /\ proc \in [Procs -> Process]
    /\ \A p \in Procs : At(p, "haproxy") \/ At(p, "fill") => proc[p].todo # <<>>
    /\ spent \in Budget

\* Whatever is rotated, damaged or edited meanwhile, and however many builds run
\* at once: a configuration has one pair for every key file it is made from,
\* in the order they are read, and each is one that was in the file of the node it
\* stands for.  (They may be of different rotations.)
EmbeddedAreGranted ==
    \A i \in Item : out[i] # NoConfig =>
        LET needs == Needs(out[i].topo, i)
        IN  /\ Len(out[i].keys) = Len(needs)
            /\ \A k \in DOMAIN needs : GrantedTo(granted, out[i].keys[k], needs[k])

\* haproxy.cfg is written in place: it is torn only while a process writes it, or
\* after one was killed or had a write error.
TornOnlyByErrors ==
    \A i \in Item : front[i] = Torn =>
        spent.errors > 0 \/ \E p \in Procs : At(p, "fill") /\ Current(p) = i

\* What the configuration of i comes from at the moment.
Buildable(i) ==
    /\ i \notin topo.broken
    /\ i \in Portal => i \in ToSet(topo.portals)
    /\ \A k \in DOMAIN Needs(topo, i) : holds[Needs(topo, i)[k]] \in Nat
Fresh(i) == [topo |-> topo, keys |-> [k \in DOMAIN Needs(topo, i) |-> holds[Needs(topo, i)[k]]]]

\* A command that nothing interfered with settles what it did not report as
\* failed, whatever crashes and half-done rotations came before: both files are
\* those of the present topology and keys, so hubs, exits and portals agree.
Settles ==
    [][\A p \in Procs : (Finish(p) /\ proc[p].quiet) =>
          \A i \in proc[p].asked \ proc[p].failed :
              /\ Buildable(i)
              /\ proc[p].xray => out[i] = Fresh(i)
              /\ proc[p].haproxy => front[i] = topo]_vars

\* One item's failure is its own: without write errors, a command that nothing
\* interfered with reports exactly the items that cannot be built.
BatchIsolated ==
    [][\A p \in Procs : (Finish(p) /\ proc[p].quiet /\ spent.errors = 0) =>
          proc[p].failed = {i \in proc[p].asked : ~Buildable(i)}]_vars
=============================================================================
