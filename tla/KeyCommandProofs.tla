-------------------------- MODULE KeyCommandProofs --------------------------
(***************************************************************************)
(* What gen-keys achieves when one command runs at a time, for any set of  *)
(* nodes, regions and configurations and any bounds: --all --force settles *)
(* everything, and hubs of a region share their keys.                      *)
(***************************************************************************)
EXTENDS KeyStoreProofs

\* Nothing else writes key files meanwhile.
OneCommand == \A p, q \in Procs : p = q

\* Without --force a command works on nodes that have no key file, and only on
\* their own.
OnFreshNode(p) ==
    ~run[p].force =>
        \A n \in Node : Current(p, n) =>
            /\ (At(p, "scan") \/ Writing(p)) => file[n] = NoFile
            /\ Writing(p) => run[p].sibs \subseteq {n}

\* The nodes p is done with, those it gives one key pair to under --force, and
\* the node it writes a pair for.
Done(p) == run[p].asked \ run[p].todo
Alike(p, m, n) ==
    m = n \/ (IsHub(run[p].snap, n) /\ run[p].snap[m] = run[p].snap[n])
Class(p, n) == {m \in DOMAIN run[p].snap : Alike(p, m, n)}
WritesFor(p, n) == Writing(p) /\ Current(p, n)
Made(m, c) == file[m] # Corrupt => file[m] \in Keys /\ file[m].cfg = c

\* What p is done with has keys made for its configuration; alike nodes share
\* them, but for those p is giving another pair right now; a pair being written
\* fits the node it is for, and goes to the nodes alike, which hold it once written.
Fit(p) == \A m \in Done(p) : Made(m, run[p].snap[m].cfg)
Paired(p) ==
    \A l, m \in Done(p) :
        (/\ Alike(p, l, m) /\ file[l] \in Keys /\ file[m] \in Keys
         /\ \A n \in Node : WritesFor(p, n) => ~Alike(p, l, n)) => file[l] = file[m]
Spread(p) ==
    \A n \in Node : WritesFor(p, n) =>
        /\ run[p].held.cfg = run[p].snap[n].cfg
        /\ run[p].sibs \subseteq Class(p, n)
        /\ \A m \in Class(p, n) \ run[p].sibs : file[m] \in {run[p].held, Corrupt}
Restored(p) ==
    run[p].force =>
        /\ run[p].asked \subseteq DOMAIN run[p].snap
        /\ At(p, "scan") => run[p].sibs = {}
        /\ Fit(p) /\ Paired(p) /\ Spread(p)

AloneInv == IInv /\ \A p \in Procs : OnFreshNode(p) /\ Restored(p)

\* A forced command writes a fresh pair to the nodes alike.
LEMMA ForcedTargets ==
    ASSUME TypeOK, NEW p \in Procs, run[p].force, NEW n \in DOMAIN run[p].snap
    PROVE  Targets(p, n) = Class(p, n)
  <1>1. \A s \in SiblingsOf(p, n) : SameConfig(p, s, n) => s \in Circle(run[p].snap, n)
    BY SiblingInCircle
  <1>2. Circle(run[p].snap, n) = Class(p, n)
    BY DEF Circle, Class, Alike
  <1>3. \A s \in Class(p, n) \ {n} : s \in SiblingsOf(p, n) /\ SameConfig(p, s, n)
    BY DEF Class, Alike, SiblingsOf, Siblings, SameConfig
  <1>4. n \in Class(p, n)
    BY DEF Class, Alike
  <1>5. QED
    BY <1>1, <1>2, <1>3, <1>4 DEF Targets

LEMMA InitAlone == Init => AloneInv
  <1> SUFFICES ASSUME Init PROVE AloneInv
    OBVIOUS
  <1>1. ASSUME NEW p \in Procs PROVE OnFreshNode(p) /\ Restored(p)
    <2>1. run[p] = NoRun
      BY DEF Init
    <2>2. QED
      BY <2>1 DEF OnFreshNode, Restored, NoRun, At, Writing, Current, IsFirst
  <1>2. QED
    BY <1>1, InitIInv DEF AloneInv

\* A command that starts, and one that is over, has nothing to answer for.
LEMMA NothingDone ==
    ASSUME NEW p \in Procs, run'[p].asked = run'[p].todo, run'[p].pc \in {"idle", "next"},
           run'[p].force => run'[p].asked \subseteq DOMAIN run'[p].snap
    PROVE  OnFreshNode(p)' /\ Restored(p)'
  BY DEF OnFreshNode, Restored, Fit, Paired, Spread, WritesFor, Done, At, Writing

\* A step that keeps the files, and the nodes p is done with, keeps what is said
\* of those.
LEMMA DoneKept ==
    ASSUME NEW p \in Procs, file' = file, run[p].force, Restored(p),
           run'[p].snap = run[p].snap, run'[p].asked = run[p].asked, run'[p].todo = run[p].todo,
           Writing(p) => Writing(p)'
    PROVE  run'[p].asked \subseteq DOMAIN run'[p].snap /\ Fit(p)' /\ Paired(p)'
  <1>1. Done(p)' = Done(p) /\ \A n \in Node : WritesFor(p, n) => WritesFor(p, n)'
    BY DEF Done, WritesFor, Current
  <1>2. \A l, m : Alike(p, l, m)' <=> Alike(p, l, m)
    BY DEF Alike, IsHub
  <1>3. Fit(p)'
    BY <1>1 DEF Restored, Fit, Made
  <1>4. Paired(p)'
    BY <1>1, <1>2 DEF Restored, Paired
  <1>5. QED
    BY <1>3, <1>4 DEF Restored

\* Steps before a pair is there to be written.
LEMMA BeforeWriting ==
    ASSUME AloneInv, NEW p \in Procs, NEW n \in Node, NEW s \in Node,
           Skip(p, n) \/ Begin(p, n) \/ PassBy(p, n, s) \/ CopyFails(p, n, s)
    PROVE  OnFreshNode(p)' /\ Restored(p)'
  <1>1. run[p] \in Runs /\ OnFreshNode(p) /\ Restored(p) /\ IInv
    BY DEF AloneInv, IInv, TypeOK
  <1>2. CASE Skip(p, n)
    <2>1. run'[p] = [run[p] EXCEPT !.todo = run[p].todo \ {n}]
      BY <1>1, <1>2, OwnStep DEF Skip
    <2>2. run'[p].pc = "next" /\ ~run'[p].force
      BY <1>1, <1>2, <2>1 DEF Skip, At, Runs
    <2>3. QED
      BY <2>2 DEF OnFreshNode, Restored, At, Writing
  <1>3. CASE Begin(p, n)
    <2> DEFINE look == IF run[p].force THEN {} ELSE SiblingsOf(p, n)
    <2>1. run'[p] = [run[p] EXCEPT !.pc = "scan", !.sibs = look]
      BY <1>1, <1>3, OwnStep DEF Begin
    <2> HIDE DEF look
    <2>2. /\ run'[p].pc = "scan" /\ run'[p].sibs = look /\ run'[p].force = run[p].force
          /\ run'[p].todo = run[p].todo /\ run'[p].asked = run[p].asked /\ run'[p].snap = run[p].snap
      BY <1>1, <2>1 DEF Runs
    <2>3. file' = file /\ (file[n] = NoFile \/ run[p].force) /\ Current(p, n) /\ ~Writing(p)
      BY <1>3 DEF Begin, At, Writing
    <2>4. OnFreshNode(p)'
      <3>1. \A m \in Node : Current(p, m)' => m = n
        BY <1>1, <2>2, <2>3, StillCurrent DEF IInv
      <3>2. QED
        BY <2>2, <2>3, <3>1 DEF OnFreshNode, Writing
    <2>5. ASSUME run[p].force PROVE Restored(p)'
      <3>1. look = {}
        BY <2>5 DEF look
      <3>2. Spread(p)'
        BY <2>2 DEF Spread, WritesFor, Writing
      <3>3. QED
        BY <1>1, <2>2, <2>3, <2>5, <3>1, <3>2, DoneKept DEF Restored
    <2>6. QED
      BY <2>2, <2>4, <2>5 DEF Restored
  <1>4. CASE PassBy(p, n, s)
    <2>1. run'[p] = [run[p] EXCEPT !.sibs = run[p].sibs \ {s}]
      BY <1>1, <1>4, OwnStep DEF PassBy
    <2>2. /\ run'[p].pc = run[p].pc /\ run[p].pc = "scan" /\ run'[p].force = run[p].force
          /\ run'[p].todo = run[p].todo
      BY <1>1, <1>4, <2>1 DEF Runs, PassBy, At
    <2>3. ~run[p].force
      BY <1>1, <1>4 DEF Restored, PassBy, IsFirst
    <2>4. OnFreshNode(p)'
      BY <1>1, <1>4, <2>2 DEF OnFreshNode, PassBy, Current, At, Writing
    <2>5. QED
      BY <2>2, <2>3, <2>4 DEF Restored
  <1>5. CASE CopyFails(p, n, s)
    <2>1. run'[p] = [run[p] EXCEPT !.pc = "next", !.sibs = {}, !.failed = TRUE,
                                   !.todo = run[p].todo \ {n}]
      BY <1>1, <1>5, OwnStep DEF CopyFails
    <2>2. ~run[p].force
      BY <1>1, <1>5 DEF Restored, CopyFails, IsFirst
    <2>3. run'[p].pc = "next" /\ ~run'[p].force
      BY <1>1, <2>1, <2>2 DEF Runs
    <2>4. QED
      BY <2>3 DEF OnFreshNode, Restored, At, Writing
  <1>6. QED
    BY <1>2, <1>3, <1>4, <1>5

LEMMA Over ==
    ASSUME NEW p \in Procs, run'[p] = NoRun
    PROVE  OnFreshNode(p)' /\ Restored(p)'
  <1>1. /\ run'[p].asked = run'[p].todo /\ run'[p].pc = "idle" /\ ~run'[p].force
    BY DEF NoRun
  <1>2. QED
    BY <1>1, NothingDone

\* A pair is there to be written.
LEMMA PairInHand ==
    ASSUME AloneInv, NEW p \in Procs, NEW n \in Node, NEW s \in Node,
           Mint(p, n) \/ Copy(p, n, s)
    PROVE  OnFreshNode(p)' /\ Restored(p)'
  <1>1. run[p] \in Runs /\ OnFreshNode(p) /\ Restored(p) /\ IInv /\ TypeOK
    BY DEF AloneInv, IInv, TypeOK
  <1>2. CASE Mint(p, n)
    <2> DEFINE key == [pair |-> Len(granted) + 1, cfg |-> run[p].snap[n].cfg]
    <2>1. run'[p] = [run[p] EXCEPT !.pc = "write", !.sibs = Targets(p, n), !.held = key]
      BY <1>1, <1>2, OwnStep DEF Mint
    <2>2. key.cfg = run[p].snap[n].cfg
      OBVIOUS
    <2> HIDE DEF key
    <2>3. /\ run'[p].pc = "write" /\ run'[p].sibs = Targets(p, n) /\ run'[p].held = key
          /\ run'[p].force = run[p].force /\ run'[p].snap = run[p].snap
          /\ run'[p].todo = run[p].todo /\ run'[p].asked = run[p].asked
      BY <1>1, <2>1 DEF Runs
    <2>4. file' = file /\ Current(p, n) /\ At(p, "scan") /\ ~Writing(p)
      BY <1>2 DEF Mint, At, Writing
    <2>5. \A m \in Node : Current(p, m)' => m = n
      BY <1>1, <2>3, <2>4, StillCurrent
    <2>6. OnFreshNode(p)'
      BY <1>1, <2>3, <2>4, <2>5 DEF OnFreshNode, Targets
    <2>7. ASSUME run[p].force PROVE Restored(p)'
      <3>1. n \in DOMAIN run[p].snap
        BY <1>1, <2>4 DEF TypeOK, Current, IsFirst
      <3>2. Class(p, n)' = Targets(p, n)
        BY <1>1, <2>3, <2>7, <3>1, ForcedTargets DEF Class, Alike, IsHub
      <3>3. Spread(p)'
        BY <2>2, <2>3, <2>5, <3>2 DEF Spread, WritesFor
      <3>4. QED
        BY <1>1, <2>3, <2>4, <2>7, <3>3, DoneKept DEF Restored, At
    <2>8. QED
      BY <2>3, <2>6, <2>7 DEF Restored
  <1>3. CASE Copy(p, n, s)
    <2> DEFINE own == {n}
    <2>1. run'[p] = [run[p] EXCEPT !.pc = "write", !.sibs = own, !.held = file[s]]
      BY <1>1, <1>3, OwnStep DEF Copy
    <2>2. ~run[p].force
      BY <1>1, <1>3 DEF Restored, Copy, IsFirst
    <2>3. /\ run'[p].sibs = {n} /\ run'[p].force = run[p].force /\ run'[p].todo = run[p].todo
          /\ run'[p].snap = run[p].snap
      BY <1>1, <2>1 DEF Runs
    <2>4. \A m \in Node : Current(p, m)' => m = n
      BY <1>1, <1>3, <2>3, StillCurrent DEF Copy
    <2>5. OnFreshNode(p)'
      BY <1>1, <1>3, <2>2, <2>3, <2>4 DEF OnFreshNode, Copy
    <2>6. QED
      BY <2>2, <2>3, <2>5 DEF Restored
  <1>4. QED
    BY <1>2, <1>3

\* Its file is being written.
LEMMA FileAtWork ==
    ASSUME AloneInv, NEW p \in Procs, Open(p) \/ Fill(p)
    PROVE  OnFreshNode(p)' /\ Restored(p)'
  <1>1. run[p] \in Runs /\ OnFreshNode(p) /\ Restored(p) /\ IInv
    BY DEF AloneInv, IInv, TypeOK
  <1>2. /\ Writing(p) /\ run'[p].pc \in {"fill", "replace"} /\ file' = file
        /\ run'[p].sibs = run[p].sibs /\ run'[p].held = run[p].held
        /\ run'[p].force = run[p].force /\ run'[p].snap = run[p].snap
        /\ run'[p].todo = run[p].todo /\ run'[p].asked = run[p].asked
    <2>1. CASE Open(p)
      <3>1. run'[p] = [run[p] EXCEPT !.pc = "fill", !.tmp = Corrupt]
        BY <1>1, <2>1, OwnStep DEF Open
      <3>2. run[p].pc = "write" /\ file' = file
        BY <2>1 DEF Open, At
      <3>3. QED
        BY <1>1, <3>1, <3>2 DEF Writing, Runs
    <2>2. CASE Fill(p)
      <3> DEFINE content == run[p].held
      <3>1. run'[p] = [run[p] EXCEPT !.pc = "replace", !.tmp = content]
        BY <1>1, <2>2, OwnStep DEF Fill
      <3>2. run[p].pc = "fill" /\ file' = file
        BY <2>2 DEF Fill, At
      <3> HIDE DEF content
      <3>3. QED
        BY <1>1, <3>1, <3>2 DEF Writing, Runs
    <2>3. QED
      BY <2>1, <2>2
  <1>3. OnFreshNode(p)'
    BY <1>1, <1>2 DEF OnFreshNode, Current
  <1>4. ASSUME run[p].force PROVE Restored(p)'
    <2>1. \A n : Class(p, n)' = Class(p, n)
      BY <1>2 DEF Class, Alike, IsHub
    <2>2. Spread(p)'
      BY <1>1, <1>2, <1>4, <2>1 DEF Restored, Spread, WritesFor, Current
    <2>3. QED
      BY <1>1, <1>2, <1>4, <2>2, DoneKept DEF Restored, At, Writing
  <1>5. QED
    BY <1>2, <1>3, <1>4 DEF Restored

\* A file is renamed into place.
LEMMA FileInPlace ==
    ASSUME AloneInv, NEW p \in Procs, NEW n \in Node, NEW t \in Node, Replace(p, n, t)
    PROVE  OnFreshNode(p)' /\ Restored(p)'
  <1> DEFINE rest == run[p].sibs \ {t}
             over == rest = {}
  <1>1. run[p] \in Runs /\ OnFreshNode(p) /\ Restored(p) /\ IInv /\ TypeOK
    BY DEF AloneInv, IInv, TypeOK
  <1>2. run'[p] = [run[p] EXCEPT !.tmp = NoFile, !.sibs = rest,
                     !.pc = IF over THEN "next" ELSE "write",
                     !.held = IF over THEN NoFile ELSE run[p].held,
                     !.todo = IF over THEN run[p].todo \ {n} ELSE run[p].todo]
    BY <1>1, OwnStep DEF Replace
  <1>3. /\ run'[p].sibs = rest /\ run'[p].force = run[p].force
        /\ run'[p].asked = run[p].asked /\ run'[p].snap = run[p].snap
        /\ over => run'[p].pc = "next" /\ run'[p].todo = run[p].todo \ {n}
        /\ ~over => run'[p].pc = "write" /\ run'[p].todo = run[p].todo /\ run'[p].held = run[p].held
    BY <1>1, <1>2 DEF Runs
  <1>4. /\ Current(p, n) /\ Writing(p) /\ WritesFor(p, n) /\ IsTarget(p, n, t)
        /\ run[p].tmp = run[p].held /\ run[p].held \in Keys
    BY <1>1 DEF Replace, At, Writing, WritesFor, IInv, RunGranted, AloneInv
  <1>5. file' = [file EXCEPT ![t] = run[p].held] /\ file \in [Node -> Keys \cup {NoFile, Corrupt}]
    BY <1>1, <1>4 DEF Replace, TypeOK
  <1>6. CASE ~run[p].force
    <2>1. over
      BY <1>1, <1>4, <1>6 DEF OnFreshNode, IsTarget, IsFirst
    <2>2. QED
      BY <1>3, <1>6, <2>1 DEF OnFreshNode, Restored, At, Writing
  <1>7. CASE run[p].force
    <2>1. n \in DOMAIN run[p].snap /\ DOMAIN run[p].snap \subseteq Node /\ run[p].asked \subseteq DOMAIN run[p].snap
      BY <1>1, <1>4, <1>7 DEF TypeOK, Runs, Topologies, Current, IsFirst, Restored
    <2>2. n \in Class(p, n)
      BY <2>1 DEF Class, Alike, IsHub
    <2>3. /\ run[p].held.cfg = run[p].snap[n].cfg /\ run[p].sibs \subseteq Class(p, n)
          /\ \A m \in Class(p, n) \ run[p].sibs : file[m] \in {run[p].held, Corrupt}
      BY <1>1, <1>4, <1>7 DEF Restored, Spread
    <2>4. t \in Class(p, n)
      BY <2>2, <2>3, <1>4 DEF IsTarget, IsFirst
    <2>5. \A m \in Node : file'[m] = IF m = t THEN run[p].held ELSE file[m]
      BY <1>5
    <2>6. \A m \in Class(p, n) \ rest : file'[m] \in {run[p].held, Corrupt}
      BY <2>1, <2>3, <2>5 DEF Class
    <2>7. \A l, m : Alike(p, l, m)' <=> Alike(p, l, m)
      BY <1>3 DEF Alike, IsHub
    <2>8. Class(p, n)' = Class(p, n)
      BY <1>3, <2>7 DEF Class
    <2>9. \A m \in Class(p, n) : run[p].snap[m] = run[p].snap[n] /\ Alike(p, m, n)
      BY DEF Class, Alike, IsHub
    <2>10. /\ Done(p)' \subseteq Done(p) \cup {n}
           /\ ~over => Done(p)' = Done(p)
      BY <1>3 DEF Done
    <2>11. \A m \in Node \ Class(p, n) : file'[m] = file[m]
      BY <2>4, <2>5
    <2>12. over => \A m \in Class(p, n) : file'[m] \in {run[p].held, Corrupt}
      BY <2>6
    <2>13. Done(p)' \subseteq Node
      BY <1>3, <2>1 DEF Done
    <2>14. Fit(p)'
      <3> SUFFICES ASSUME NEW m \in Done(p)', file'[m] # Corrupt
                   PROVE  file'[m] \in Keys /\ file'[m].cfg = run[p].snap[m].cfg
        BY <1>3 DEF Fit, Made
      <3>1. CASE m = t
        BY <1>4, <2>3, <2>4, <2>5, <2>9, <2>13, <3>1
      <3>2. CASE m # t /\ m \in Done(p)
        BY <1>1, <1>7, <2>5, <2>13, <3>2 DEF Restored, Fit, Made
      <3>3. CASE m # t /\ m \notin Done(p)
        <4>1. m = n /\ over
          BY <2>10, <3>3
        <4>2. file'[m] = run[p].held
          BY <2>2, <2>12, <4>1
        <4>3. QED
          BY <1>4, <2>3, <4>1, <4>2
      <3>4. QED
        BY <3>1, <3>2, <3>3
    <2>15. Paired(p)'
      <3> SUFFICES ASSUME NEW l \in Done(p)', NEW m \in Done(p)', Alike(p, l, m),
                          file'[l] \in Keys, file'[m] \in Keys,
                          \A x \in Node : WritesFor(p, x)' => ~Alike(p, l, x)
                   PROVE  file'[l] = file'[m]
        BY <2>7 DEF Paired
      <3>1. CASE Alike(p, l, n)
        <4>1. over
          <5>1. ~over => WritesFor(p, n)'
            BY <1>3, <1>4 DEF WritesFor, Writing, Current
          <5>2. QED
            BY <3>1, <5>1
        <4>2. l \in Class(p, n) /\ m \in Class(p, n)
          BY <1>3, <2>1, <3>1 DEF Done, Class, Alike, IsHub
        <4>3. QED
          BY <2>12, <4>1, <4>2, Marks
      <3>2. CASE ~Alike(p, l, n)
        <4>1. ~Alike(p, m, n) /\ l # n /\ m # n
          BY <3>2 DEF Alike, IsHub
        <4>2. l \in Done(p) /\ m \in Done(p)
          BY <2>10, <4>1
        <4>3. file'[l] = file[l] /\ file'[m] = file[m]
          BY <2>9, <2>11, <2>13, <3>2, <4>1
        <4>4. \A x \in Node : WritesFor(p, x) => ~Alike(p, l, x)
          BY <1>1, <1>4, <3>2, OneCurrent DEF WritesFor
        <4>5. QED
          BY <1>1, <1>7, <4>2, <4>3, <4>4 DEF Restored, Paired
      <3>3. QED
        BY <3>1, <3>2
    <2>16. Spread(p)'
      <3>1. CASE over
        BY <1>3, <3>1 DEF Spread, WritesFor, Writing
      <3>2. CASE ~over
        <4>1. \A x \in Node : WritesFor(p, x)' => x = n
          BY <1>1, <1>3, <1>4, <3>2, StillCurrent DEF WritesFor
        <4>2. rest \subseteq Class(p, n)
          BY <2>3
        <4>3. QED
          BY <1>3, <2>3, <2>6, <2>8, <3>2, <4>1, <4>2 DEF Spread
      <3>3. QED
        BY <3>1, <3>2
    <2>17. ~At(p, "scan")'
      BY <1>3 DEF At
    <2>18. QED
      BY <1>3, <1>7, <2>1, <2>14, <2>15, <2>16, <2>17 DEF OnFreshNode, Restored
  <1>8. QED
    BY <1>6, <1>7

\* Damage takes nothing back: it only makes files unreadable.
LEMMA AloneDamage ==
    ASSUME AloneInv, NEW p \in Procs, NEW x \in Node, Damage(x)
    PROVE  OnFreshNode(p)' /\ Restored(p)'
  <1>1. /\ run' = run /\ file[x] # NoFile /\ file' = [file EXCEPT ![x] = Corrupt]
        /\ file \in [Node -> Keys \cup {NoFile, Corrupt}] /\ run[p] \in Runs
        /\ OnFreshNode(p) /\ Restored(p)
    BY DEF Damage, AloneInv, IInv, TypeOK
  <1>2. \A m \in Node : file'[m] = IF m = x THEN Corrupt ELSE file[m]
    BY <1>1
  <1>3. run[p].asked \subseteq Node /\ DOMAIN run[p].snap \subseteq Node
    BY <1>1 DEF Runs, Topologies
  <1>4. OnFreshNode(p)'
    BY <1>1, <1>2 DEF OnFreshNode, Current, At, Writing
  <1>5. ASSUME run[p].force PROVE Restored(p)'
    <2>1. /\ Done(p)' = Done(p) /\ Done(p) \subseteq Node
          /\ \A n \in Node : Class(p, n)' = Class(p, n) /\ (WritesFor(p, n)' <=> WritesFor(p, n))
          /\ \A l, m : Alike(p, l, m)' <=> Alike(p, l, m)
      BY <1>1, <1>3 DEF Done, Class, Alike, IsHub, WritesFor, Writing, Current
    <2>2. Fit(p)'
      BY <1>1, <1>2, <1>5, <2>1 DEF Restored, Fit, Made
    <2>3. Paired(p)'
      BY <1>1, <1>2, <1>5, <2>1, Marks DEF Restored, Paired
    <2>4. Spread(p)'
      <3>1. \A n \in Node : Class(p, n) \subseteq Node
        BY <1>3 DEF Class
      <3>2. QED
        BY <1>1, <1>2, <1>5, <2>1, <3>1 DEF Restored, Spread
    <2>5. QED
      BY <1>1, <1>5, <2>2, <2>3, <2>4 DEF Restored, At
  <1>6. QED
    BY <1>1, <1>4, <1>5 DEF Restored

LEMMA NextAlone == OneCommand /\ AloneInv /\ [Next]_vars => AloneInv'
  <1> SUFFICES ASSUME OneCommand, AloneInv, [Next]_vars PROVE AloneInv'
    OBVIOUS
  <1>1. IInv /\ IInv' /\ TypeOK
    BY NextIInv DEF AloneInv, IInv
  <1>2. ASSUME NEW p \in Procs, OnFreshNode(p)' /\ Restored(p)' PROVE AloneInv'
    BY <1>1, <1>2 DEF AloneInv, OneCommand
  <1>3. ASSUME NEW p \in Procs, Step(p) PROVE AloneInv'
    <2>1. CASE Finish(p)
      <3>1. run'[p] = NoRun
        BY <1>1, <2>1, OwnStep DEF Finish
      <3>2. QED
        BY <1>2, <3>1, Over
    <2>2. CASE Open(p) \/ Fill(p)
      BY <1>2, <2>2, FileAtWork
    <2>3. ASSUME NEW n \in Node, Skip(p, n) \/ Begin(p, n) \/ Mint(p, n) PROVE AloneInv'
      BY <1>2, <2>3, BeforeWriting, PairInHand
    <2>4. ASSUME NEW n \in Node, NEW s \in Node,
                 PassBy(p, n, s) \/ Copy(p, n, s) \/ CopyFails(p, n, s) \/ Replace(p, n, s)
          PROVE  AloneInv'
      BY <1>2, <2>4, BeforeWriting, PairInHand, FileInPlace
    <2>5. QED
      BY <1>3, <2>1, <2>2, <2>3, <2>4 DEF Step
  <1>4. ASSUME NEW p \in Procs, Abort(p) PROVE AloneInv'
    <2>1. run'[p] = NoRun
      BY <1>1, <1>4, OwnStep DEF Abort
    <2>2. QED
      BY <1>2, <2>1, Over
  <1>5. ASSUME NEW p \in Procs, NEW ns \in SUBSET Node, NEW f \in BOOLEAN, Start(p, ns, f)
        PROVE  AloneInv'
    <2>1. run'[p] = Started(ns, f)
      BY <1>1, <1>5, StartStep
    <2>2. ns \subseteq DOMAIN topo
      BY <1>5 DEF Start
    <2>3. QED
      BY <1>2, <2>1, <2>2, StartedFields, NothingDone
  <1>6. ASSUME NEW n \in Node, Damage(n) PROVE AloneInv'
    BY <1>1, <1>6, AloneDamage DEF AloneInv
  <1>7. ASSUME run' = run, file' = file PROVE AloneInv'
    BY <1>1, <1>7 DEF AloneInv, OnFreshNode, Restored, Fit, Paired, Spread, WritesFor, Done, Class,
                      Made, Alike, IsHub, At, Writing, Current
  <1>8. ASSUME NEW n \in Node, NEW t \in Topologies, Edit(n, t) PROVE AloneInv'
    BY <1>7, <1>8 DEF Edit
  <1>9. CASE UNCHANGED vars
    BY <1>7, <1>9 DEF vars
  <1>10. QED
    BY <1>3, <1>4, <1>5, <1>6, <1>8, <1>9 DEF Next

\* One command at a time: `gen-keys --all --force` that runs to its end on the
\* current topology settles everything.
THEOREM RotationProved == ASSUME OneCommand PROVE Spec => RotationRestores
  <1> DEFINE Result == \A p \in Procs :
                 (Finish(p) /\ run[p].force /\ run[p].asked = DOMAIN topo /\ run[p].snap = topo)
                     => /\ Agree(topo)
                        /\ \A n \in DOMAIN topo :
                               file[n] # Corrupt => file[n] \in Keys /\ file[n].cfg = topo[n].cfg
  <1>1. ASSUME AloneInv, NEW p \in Procs, Finish(p), run[p].force, run[p].asked = DOMAIN topo,
               run[p].snap = topo
        PROVE  /\ Agree(topo)
               /\ \A n \in DOMAIN topo :
                      file[n] # Corrupt => file[n] \in Keys /\ file[n].cfg = topo[n].cfg
    <2>1. Done(p) = DOMAIN topo /\ ~Writing(p) /\ Fit(p) /\ Paired(p)
      BY <1>1 DEF AloneInv, Restored, Finish, Done, At, Writing
    <2>2. QED
      BY <1>1, <2>1 DEF Fit, Paired, Made, Agree, Circle, Alike, WritesFor
  <1>2. AloneInv /\ [Next]_vars => [Result]_vars
    BY <1>1
  <1>3. QED
    BY InitAlone, NextAlone, <1>2, PTL DEF Spec, RotationRestores

-----------------------------------------------------------------------------
(***************************************************************************)
(* Hubs of one region share their keys: proved for one command at a time,  *)
(* as long as none was interrupted and the topology stayed as it was, for  *)
(* any set of nodes, regions and configurations, any number of commands    *)
(* and any damage to the files.  (What an edit does to it is the violation *)
(* run KeyStoreReadded; an interrupted rotation is what RotationRestores   *)
(* is about.)                                                              *)
(***************************************************************************)

Undisturbed == spent.edits = 0 /\ spent.aborts = 0

\* Agree(topo) but for what p is about to write to.
AgreeBesides(p, n) ==
    \A l, m \in DOMAIN topo :
        (/\ Alike(p, l, m) /\ file[l] \in Keys /\ file[m] \in Keys
         /\ Alike(p, l, n) => (l \in run[p].sibs <=> m \in run[p].sibs)) => file[l] = file[m]
\* Siblings that were passed by have nothing to copy; when a pair is written, the
\* nodes alike have it, or no keys, or are still to be written to.
Sharing(p) ==
    /\ ~At(p, "idle") => run[p].snap = topo
    /\ (At(p, "scan") /\ ~run[p].force) =>
          \A n \in Node : Current(p, n) =>
              \A s \in SiblingsOf(p, n) \ run[p].sibs : file[s] = NoFile \/ ~SameConfig(p, s, n)
    /\ \A n \in Node : WritesFor(p, n) =>
          /\ AgreeBesides(p, n)
          /\ \A m \in Class(p, n) \ run[p].sibs : file[m] \in Keys => file[m] = run[p].held

SharedInv ==
    /\ AloneInv
    /\ (\A p \in Procs : ~Writing(p)) => Agree(topo)
    /\ \A p \in Procs : Sharing(p)

LEMMA InitShared == Init => SharedInv
  <1> SUFFICES ASSUME Init PROVE SharedInv
    OBVIOUS
  <1>1. Agree(topo)
    <2>1. \A n \in DOMAIN topo : n \in Node
      BY InitType, CirclesType DEF TypeOK
    <2>2. \A n \in DOMAIN topo : file[n] = NoFile
      BY <2>1 DEF Init
    <2>3. QED
      <3>1. \A n \in DOMAIN topo : file[n] \notin Keys
        BY <2>2, Marks
      <3>2. QED
        BY <3>1 DEF Agree
  <1>2. ASSUME NEW p \in Procs PROVE Sharing(p)
    <2>1. run[p].pc = "idle"
      BY DEF Init, NoRun
    <2>2. QED
      BY <2>1 DEF Sharing, At, WritesFor, Writing
  <1>3. QED
    BY <1>1, <1>2, InitAlone DEF SharedInv

\* Nothing to say of a command that looks at its next node or is over.
LEMMA BetweenNodes ==
    ASSUME NEW p \in Procs, run'[p].pc \in {"idle", "next"},
           run'[p].pc = "next" => run'[p].snap = topo'
    PROVE  Sharing(p)'
  BY DEF Sharing, At, WritesFor, Writing

\* Steps before a pair is there to be written.
LEMMA SharingBefore ==
    ASSUME SharedInv, NEW p \in Procs, NEW n \in Node, NEW s \in Node,
           Skip(p, n) \/ Begin(p, n) \/ PassBy(p, n, s) \/ CopyFails(p, n, s)
    PROVE  Sharing(p)' /\ ~Writing(p)' /\ ~Writing(p) /\ UNCHANGED <<topo, file>>
  <1>1. run[p] \in Runs /\ Sharing(p) /\ IInv
    BY DEF SharedInv, AloneInv, IInv, TypeOK
  <1>2. CASE Skip(p, n)
    <2>1. run'[p] = [run[p] EXCEPT !.todo = run[p].todo \ {n}]
      BY <1>1, <1>2, OwnStep DEF Skip
    <2>2. /\ run'[p].pc = "next" /\ run'[p].snap = run[p].snap /\ run[p].pc = "next"
          /\ UNCHANGED <<topo, file>>
      BY <1>1, <1>2, <2>1 DEF Skip, At, Runs
    <2>3. QED
      BY <1>1, <2>2, BetweenNodes DEF Sharing, At, Writing
  <1>3. CASE Begin(p, n)
    <2> DEFINE look == IF run[p].force THEN {} ELSE SiblingsOf(p, n)
    <2>1. run'[p] = [run[p] EXCEPT !.pc = "scan", !.sibs = look]
      BY <1>1, <1>3, OwnStep DEF Begin
    <2>2. ~run[p].force => look = SiblingsOf(p, n)
      OBVIOUS
    <2> HIDE DEF look
    <2>3. /\ run'[p].pc = "scan" /\ run'[p].sibs = look /\ run'[p].force = run[p].force
          /\ run'[p].todo = run[p].todo /\ run'[p].snap = run[p].snap
      BY <1>1, <2>1 DEF Runs
    <2>4. Current(p, n) /\ run[p].pc = "next" /\ UNCHANGED <<topo, file>>
      BY <1>3 DEF Begin, At
    <2>5. \A m \in Node : Current(p, m)' => m = n
      BY <1>1, <2>3, <2>4, StillCurrent DEF IInv
    <2>6. SiblingsOf(p, n)' = SiblingsOf(p, n)
      BY <2>3 DEF SiblingsOf, Siblings
    <2>7. QED
      BY <1>1, <2>2, <2>3, <2>4, <2>5, <2>6 DEF Sharing, At, WritesFor, Writing
  <1>4. CASE PassBy(p, n, s)
    <2>1. run'[p] = [run[p] EXCEPT !.sibs = run[p].sibs \ {s}]
      BY <1>1, <1>4, OwnStep DEF PassBy
    <2>2. /\ run'[p].pc = "scan" /\ run[p].pc = "scan" /\ run'[p].force = run[p].force
          /\ run'[p].todo = run[p].todo /\ run'[p].snap = run[p].snap
          /\ run'[p].sibs = run[p].sibs \ {s}
      BY <1>1, <1>4, <2>1 DEF Runs, PassBy, At
    <2>3. /\ Current(p, n) /\ UNCHANGED <<topo, file>>
          /\ file[s] = NoFile \/ ~SameConfig(p, s, n)
      BY <1>4 DEF PassBy
    <2>4. \A m \in Node : Current(p, m)' => m = n
      BY <1>1, <2>2, <2>3, StillCurrent DEF IInv
    <2>5. SiblingsOf(p, n)' = SiblingsOf(p, n) /\ \A m : SameConfig(p, m, n)' <=> SameConfig(p, m, n)
      BY <2>2 DEF SiblingsOf, Siblings, SameConfig
    <2>6. QED
      BY <1>1, <2>2, <2>3, <2>4, <2>5 DEF Sharing, At, WritesFor, Writing
  <1>5. CASE CopyFails(p, n, s)
    <2>1. run'[p] = [run[p] EXCEPT !.pc = "next", !.sibs = {}, !.failed = TRUE,
                                   !.todo = run[p].todo \ {n}]
      BY <1>1, <1>5, OwnStep DEF CopyFails
    <2>2. run'[p].pc = "next" /\ run'[p].snap = run[p].snap
      BY <1>1, <2>1 DEF Runs
    <2>3. run[p].pc = "scan" /\ UNCHANGED <<topo, file>>
      BY <1>5 DEF CopyFails, At
    <2>4. QED
      BY <1>1, <2>2, <2>3, BetweenNodes DEF Sharing, At, Writing
  <1>6. QED
    BY <1>2, <1>3, <1>4, <1>5

\* A pair is there to be written: whoever of the nodes alike has keys, and is not
\* written to, has this pair.
LEMMA SharingInHand ==
    ASSUME OneCommand, SharedInv, NEW p \in Procs, NEW n \in Node, NEW s \in Node,
           Mint(p, n) \/ Copy(p, n, s)
    PROVE  Sharing(p)' /\ Writing(p)'
  <1>1. /\ run[p] \in Runs /\ Sharing(p) /\ IInv /\ TypeOK /\ OnFreshNode(p)
        /\ file \in [Node -> Keys \cup {NoFile, Corrupt}]
    BY DEF SharedInv, AloneInv, IInv, TypeOK
  <1>2. At(p, "scan") /\ Current(p, n) /\ UNCHANGED <<topo, file>>
    BY DEF Mint, Copy
  <1>3. Agree(topo) /\ run[p].snap = topo
    <2>1. \A q \in Procs : ~Writing(q)
      BY <1>2 DEF OneCommand, At, Writing
    <2>2. QED
      BY <1>1, <1>2, <2>1 DEF SharedInv, Sharing, At
  <1>4. n \in DOMAIN run[p].snap /\ DOMAIN run[p].snap \subseteq Node
    BY <1>1, <1>2 DEF TypeOK, Runs, Topologies, Current, IsFirst
  <1>5. ~run[p].force => file[n] = NoFile
    BY <1>1, <1>2 DEF OnFreshNode
  <1>6. ASSUME NEW targets, NEW keys, run'[p].pc = "write", run'[p].sibs = targets,
               run'[p].held = keys, run'[p].snap = run[p].snap, run'[p].todo = run[p].todo,
               \A m \in Class(p, n) \ targets : file[m] \in Keys => file[m] = keys
        PROVE  Sharing(p)' /\ Writing(p)'
    <2>1. \A m \in Node : WritesFor(p, m)' => m = n
      BY <1>1, <1>2, <1>6, StillCurrent DEF WritesFor
    <2>2. Class(p, n)' = Class(p, n)
      BY <1>6 DEF Class, Alike, IsHub
    <2>3. AgreeBesides(p, n)'
      BY <1>2, <1>3, <1>6 DEF Agree, AgreeBesides, Circle, Alike
    <2>4. QED
      BY <1>2, <1>3, <1>6, <2>1, <2>2, <2>3 DEF Sharing, At, Writing
  <1>7. CASE Mint(p, n)
    <2> DEFINE key == [pair |-> Len(granted) + 1, cfg |-> run[p].snap[n].cfg]
    <2>1. run'[p] = [run[p] EXCEPT !.pc = "write", !.sibs = Targets(p, n), !.held = key]
      BY <1>1, <1>7, OwnStep DEF Mint
    <2> HIDE DEF key
    <2>2. /\ run'[p].pc = "write" /\ run'[p].sibs = Targets(p, n) /\ run'[p].held = key
          /\ run'[p].snap = run[p].snap /\ run'[p].todo = run[p].todo
      BY <1>1, <2>1 DEF Runs
    <2>3. ASSUME run[p].force, NEW m \in Class(p, n) \ Targets(p, n) PROVE file[m] \notin Keys
      BY <1>1, <1>4, <2>3, ForcedTargets
    <2>4. ASSUME ~run[p].force, NEW m \in Class(p, n) \ Targets(p, n) PROVE file[m] \notin Keys
      <3>1. m \in SiblingsOf(p, n) /\ SameConfig(p, m, n)
        BY <1>4, <2>4 DEF Class, Alike, SameConfig, SiblingsOf, Siblings, Targets
      <3>2. run[p].sibs = {}
        BY <1>7 DEF Mint
      <3>3. file[m] = NoFile
        BY <1>1, <1>2, <2>4, <3>1, <3>2 DEF Sharing
      <3>4. QED
        BY <3>3, Marks
    <2>5. QED
      BY <1>6, <2>2, <2>3, <2>4
  <1>8. CASE Copy(p, n, s)
    <2> DEFINE own == {n}
    <2>1. run'[p] = [run[p] EXCEPT !.pc = "write", !.sibs = own, !.held = file[s]]
      BY <1>1, <1>8, OwnStep DEF Copy
    <2> HIDE DEF own
    <2>2. /\ run'[p].pc = "write" /\ run'[p].sibs = own /\ run'[p].held = file[s]
          /\ run'[p].snap = run[p].snap /\ run'[p].todo = run[p].todo
      BY <1>1, <2>1 DEF Runs
    <2>3. s \in DOMAIN run[p].snap /\ SameConfig(p, s, n) /\ file[s] \in Keys
      BY <1>1, <1>8 DEF Copy, IsFirst, TypeOK
    <2>4. Alike(p, s, n)
      <3>1. s \in SiblingsOf(p, n)
        BY <1>1, <1>2, <1>8 DEF IInv, RunGranted, Copy, IsFirst
      <3>2. QED
        BY <1>1, <1>4, <2>3, <3>1, SiblingInCircle DEF Circle, Alike
    <2>5. ASSUME NEW m \in Class(p, n), file[m] \in Keys PROVE file[m] = file[s]
      <3>1. m = s \/ m \in Circle(topo, s)
        BY <1>3, <2>4, <2>5 DEF Class, Alike, IsHub, Circle
      <3>2. m \in DOMAIN topo
        BY <1>3, <2>5 DEF Class
      <3>3. QED
        BY <1>3, <2>3, <2>5, <3>1, <3>2 DEF Agree
    <2>6. QED
      BY <1>6, <2>2, <2>5
  <1>9. QED
    BY <1>7, <1>8

\* Its file is being written.
LEMMA SharingAtWork ==
    ASSUME SharedInv, NEW p \in Procs, Open(p) \/ Fill(p)
    PROVE  Sharing(p)' /\ Writing(p)'
  <1>1. run[p] \in Runs /\ Sharing(p) /\ IInv
    BY DEF SharedInv, AloneInv, IInv, TypeOK
  <1>2. /\ Writing(p) /\ run'[p].pc \in {"fill", "replace"} /\ UNCHANGED <<topo, file>>
        /\ run'[p].sibs = run[p].sibs /\ run'[p].held = run[p].held
        /\ run'[p].snap = run[p].snap /\ run'[p].todo = run[p].todo
    <2>1. CASE Open(p)
      <3>1. run'[p] = [run[p] EXCEPT !.pc = "fill", !.tmp = Corrupt]
        BY <1>1, <2>1, OwnStep DEF Open
      <3>2. run[p].pc = "write" /\ UNCHANGED <<topo, file>>
        BY <2>1 DEF Open, At
      <3>3. QED
        BY <1>1, <3>1, <3>2 DEF Writing, Runs
    <2>2. CASE Fill(p)
      <3> DEFINE content == run[p].held
      <3>1. run'[p] = [run[p] EXCEPT !.pc = "replace", !.tmp = content]
        BY <1>1, <2>2, OwnStep DEF Fill
      <3>2. run[p].pc = "fill" /\ UNCHANGED <<topo, file>>
        BY <2>2 DEF Fill, At
      <3> HIDE DEF content
      <3>3. QED
        BY <1>1, <3>1, <3>2 DEF Writing, Runs
    <2>3. QED
      BY <2>1, <2>2
  <1>3. /\ \A l, m : Alike(p, l, m)' <=> Alike(p, l, m)
        /\ \A n : Class(p, n)' = Class(p, n)
        /\ \A n \in Node : WritesFor(p, n)' => WritesFor(p, n)
    BY <1>2 DEF Alike, IsHub, Class, WritesFor, Current
  <1>4. \A n \in Node : AgreeBesides(p, n) => AgreeBesides(p, n)'
    BY <1>2, <1>3 DEF AgreeBesides
  <1>5. QED
    BY <1>1, <1>2, <1>3, <1>4 DEF Sharing, At, Writing

\* A file is renamed into place: the first ones disagree with those to come, the
\* last one settles it.
LEMMA SharingInPlace ==
    ASSUME SharedInv, NEW p \in Procs, NEW n \in Node, NEW t \in Node, Replace(p, n, t)
    PROVE  Sharing(p)' /\ (~Writing(p)' => Agree(topo)')
  <1> DEFINE rest == run[p].sibs \ {t}
             over == rest = {}
  <1>1. run[p] \in Runs /\ OnFreshNode(p) /\ Restored(p) /\ Sharing(p) /\ IInv /\ TypeOK
    BY DEF SharedInv, AloneInv, IInv, TypeOK
  <1>2. run'[p] = [run[p] EXCEPT !.tmp = NoFile, !.sibs = rest,
                     !.pc = IF over THEN "next" ELSE "write",
                     !.held = IF over THEN NoFile ELSE run[p].held,
                     !.todo = IF over THEN run[p].todo \ {n} ELSE run[p].todo]
    BY <1>1, OwnStep DEF Replace
  <1>3. /\ run'[p].sibs = rest /\ run'[p].snap = run[p].snap
        /\ over => run'[p].pc = "next"
        /\ ~over => run'[p].pc = "write" /\ run'[p].todo = run[p].todo /\ run'[p].held = run[p].held
    BY <1>1, <1>2 DEF Runs
  <1>4. /\ WritesFor(p, n) /\ Writing(p) /\ Current(p, n) /\ IsTarget(p, n, t) /\ ~At(p, "idle")
        /\ run[p].tmp = run[p].held /\ UNCHANGED topo
    BY <1>1 DEF Replace, At, Writing, WritesFor, IInv, RunGranted
  <1>5. \A m \in Node : file'[m] = IF m = t THEN run[p].held ELSE file[m]
    BY <1>1, <1>4 DEF Replace, TypeOK
  <1>6. run[p].snap = topo /\ n \in DOMAIN topo /\ DOMAIN topo \subseteq Node
    BY <1>1, <1>4 DEF Sharing, TypeOK, Runs, Topologies, Current, IsFirst
  <1>7. n \in Class(p, n)
    BY <1>6 DEF Class, Alike, IsHub
  <1>8. run[p].sibs \subseteq Class(p, n)
    BY <1>1, <1>4, <1>7 DEF OnFreshNode, Restored, Spread
  <1>9. t \in Class(p, n)
    BY <1>4, <1>7, <1>8 DEF IsTarget, IsFirst
  <1>10. \A m \in Class(p, n) \ rest : file'[m] \in Keys => file'[m] = run[p].held
    BY <1>1, <1>4, <1>5, <1>6 DEF Sharing, Class
  <1>11. \A l, m \in DOMAIN topo :
            (/\ Alike(p, l, m) /\ file'[l] \in Keys /\ file'[m] \in Keys
             /\ Alike(p, l, n) => (l \in rest <=> m \in rest)) => file'[l] = file'[m]
    <2> SUFFICES ASSUME NEW l \in DOMAIN topo, NEW m \in DOMAIN topo, Alike(p, l, m),
                        file'[l] \in Keys, file'[m] \in Keys,
                        Alike(p, l, n) => (l \in rest <=> m \in rest)
                 PROVE  file'[l] = file'[m]
      OBVIOUS
    <2>1. AgreeBesides(p, n)
      BY <1>1, <1>4 DEF Sharing
    <2>2. Alike(p, l, n) <=> l \in Class(p, n)
      BY <1>6 DEF Class
    <2>3. Alike(p, m, n) <=> m \in Class(p, n)
      BY <1>6 DEF Class
    <2>4. Alike(p, l, n) <=> Alike(p, m, n)
      BY DEF Alike, IsHub
    <2>5. CASE ~Alike(p, l, n)
      <3>1. l # t /\ m # t
        BY <1>9, <2>2, <2>3, <2>4, <2>5
      <3>2. file'[l] = file[l] /\ file'[m] = file[m]
        BY <1>5, <1>6, <3>1
      <3>3. QED
        BY <2>1, <2>5, <3>2 DEF AgreeBesides
    <2>6. CASE Alike(p, l, n) /\ l \in rest
      <3>1. l # t /\ m # t /\ l \in run[p].sibs /\ m \in run[p].sibs
        BY <2>6
      <3>2. file'[l] = file[l] /\ file'[m] = file[m]
        BY <1>5, <1>6, <3>1
      <3>3. QED
        BY <2>1, <3>1, <3>2 DEF AgreeBesides
    <2>7. CASE Alike(p, l, n) /\ l \notin rest
      BY <1>10, <2>2, <2>3, <2>4, <2>7
    <2>8. QED
      BY <2>5, <2>6, <2>7
  <1>12. CASE over
    <2>1. Agree(topo)'
      BY <1>4, <1>6, <1>11, <1>12 DEF Agree, Circle, Alike
    <2>2. QED
      BY <1>3, <1>4, <1>6, <1>12, <2>1, BetweenNodes
  <1>13. CASE ~over
    <2>1. \A m \in Node : WritesFor(p, m)' => m = n
      BY <1>1, <1>3, <1>4, <1>13, StillCurrent DEF WritesFor
    <2>2. Class(p, n)' = Class(p, n) /\ \A l, m : Alike(p, l, m)' <=> Alike(p, l, m)
      BY <1>3 DEF Class, Alike, IsHub
    <2>3. AgreeBesides(p, n)'
      BY <1>3, <1>4, <1>11, <2>2 DEF AgreeBesides
    <2>4. \A m \in Class(p, n)' \ run'[p].sibs : file'[m] \in Keys => file'[m] = run'[p].held
      BY <1>3, <1>10, <1>13, <2>2
    <2>5. run'[p].pc = "write" /\ run'[p].snap = topo'
      BY <1>3, <1>4, <1>6, <1>13
    <2>6. QED
      BY <2>1, <2>3, <2>4, <2>5 DEF Sharing, At, Writing
  <1>14. QED
    BY <1>12, <1>13

\* Damage takes keys away and gives none.
LEMMA SharingDamage ==
    ASSUME SharedInv, NEW x \in Node, Damage(x)
    PROVE  /\ Agree(topo) => Agree(topo)'
           /\ \A p \in Procs : Sharing(p)'
  <1>1. /\ UNCHANGED <<topo, run>> /\ file \in [Node -> Keys \cup {NoFile, Corrupt}]
        /\ file' = [file EXCEPT ![x] = Corrupt] /\ file[x] # NoFile
        /\ topo \in Topologies /\ \A p \in Procs : run[p] \in Runs
    BY DEF Damage, SharedInv, AloneInv, IInv, TypeOK
  <1>2. \A m \in Node : file'[m] \in Keys => file'[m] = file[m] /\ file[m] \in Keys
    BY <1>1, Marks
  <1>3. \A m \in Node : file[m] = NoFile => file'[m] = NoFile
    BY <1>1
  <1>4. Agree(topo) => Agree(topo)'
    <2>1. DOMAIN topo \subseteq Node
      BY <1>1 DEF Topologies
    <2>2. QED
      BY <1>1, <1>2, <2>1 DEF Agree
  <1>5. ASSUME NEW p \in Procs PROVE Sharing(p)'
    <2>1. DOMAIN run[p].snap \subseteq Node /\ DOMAIN topo \subseteq Node /\ Sharing(p)
      BY <1>1 DEF Runs, Topologies, SharedInv
    <2>2. /\ \A l, m : Alike(p, l, m)' <=> Alike(p, l, m)
          /\ \A n : Class(p, n)' = Class(p, n) /\ Class(p, n) \subseteq Node
          /\ \A n : SiblingsOf(p, n)' = SiblingsOf(p, n) /\ SiblingsOf(p, n) \subseteq Node
          /\ \A l, m : SameConfig(p, l, m)' <=> SameConfig(p, l, m)
          /\ \A n : WritesFor(p, n)' <=> WritesFor(p, n)
          /\ \A n : Current(p, n)' <=> Current(p, n)
      BY <1>1, <2>1 DEF Alike, IsHub, SameConfig, Class, SiblingsOf, Siblings, WritesFor,
                            Current, Writing
    <2>3. \A n : AgreeBesides(p, n) => AgreeBesides(p, n)'
      BY <1>1, <1>2, <2>1, <2>2 DEF AgreeBesides
    <2>4. ~At(p, "idle")' => run'[p].snap = topo'
      BY <1>1, <2>1 DEF Sharing, At
    <2>5. (At(p, "scan")' /\ ~run'[p].force) =>
             \A n \in Node : Current(p, n)' =>
                 \A s \in SiblingsOf(p, n)' \ run'[p].sibs : file'[s] = NoFile \/ ~SameConfig(p, s, n)'
      BY <1>1, <1>3, <2>1, <2>2 DEF Sharing, At
    <2>6. \A n \in Node : WritesFor(p, n)' =>
             /\ AgreeBesides(p, n)'
             /\ \A m \in Class(p, n)' \ run'[p].sibs : file'[m] \in Keys => file'[m] = run'[p].held
      BY <1>1, <1>2, <2>1, <2>2, <2>3 DEF Sharing
    <2>7. QED
      BY <2>4, <2>5, <2>6 DEF Sharing
  <1>6. QED
    BY <1>4, <1>5

LEMMA NextShared ==
    ASSUME OneCommand, SharedInv, [Next]_vars, Undisturbed'
    PROVE  SharedInv'
  <1>1. AloneInv /\ AloneInv' /\ OneCommand /\ IInv /\ TypeOK
    BY NextAlone DEF SharedInv, AloneInv, IInv
  <1>2. ASSUME NEW p \in Procs, Sharing(p)', ~Writing(p)' => Agree(topo)' PROVE SharedInv'
    BY <1>1, <1>2 DEF SharedInv, OneCommand
  <1>3. ASSUME NEW p \in Procs, ~Writing(p) PROVE Agree(topo)
    BY <1>1, <1>3 DEF SharedInv, OneCommand
  <1>4. ASSUME UNCHANGED <<topo, file>> PROVE Agree(topo) => Agree(topo)'
    BY <1>4 DEF Agree
  <1>5. ASSUME NEW p \in Procs, Step(p) PROVE SharedInv'
    <2>1. CASE Finish(p)
      <3>1. run'[p] = NoRun /\ UNCHANGED <<topo, file>> /\ ~Writing(p)
        BY <1>1, <2>1, OwnStep DEF Finish, At, Writing
      <3>2. Sharing(p)'
        <4>1. run'[p].pc = "idle"
          BY <3>1 DEF NoRun
        <4>2. QED
          BY <4>1, BetweenNodes
      <3>3. QED
        BY <1>2, <1>3, <1>4, <3>1, <3>2
    <2>2. CASE Open(p) \/ Fill(p)
      BY <1>2, <2>2, SharingAtWork
    <2>3. ASSUME NEW n \in Node, NEW s \in Node,
                 Skip(p, n) \/ Begin(p, n) \/ PassBy(p, n, s) \/ CopyFails(p, n, s)
          PROVE  SharedInv'
      BY <1>2, <1>3, <1>4, <2>3, SharingBefore
    <2>4. ASSUME NEW n \in Node, NEW s \in Node, Mint(p, n) \/ Copy(p, n, s) PROVE SharedInv'
      BY <1>1, <1>2, <2>4, SharingInHand
    <2>5. ASSUME NEW n \in Node, NEW t \in Node, Replace(p, n, t) PROVE SharedInv'
      BY <1>2, <2>5, SharingInPlace
    <2>6. QED
      BY <1>5, <2>1, <2>2, <2>3, <2>4, <2>5 DEF Step
  <1>6. ASSUME NEW p \in Procs, NEW ns \in SUBSET Node, NEW f \in BOOLEAN, Start(p, ns, f)
        PROVE  SharedInv'
    <2>1. run'[p] = Started(ns, f)
      BY <1>1, <1>6, StartStep
    <2>2. UNCHANGED <<topo, file>> /\ ~Writing(p)
      BY <1>6 DEF Start, At, Writing
    <2>3. run'[p].pc = "next" /\ run'[p].snap = topo'
      BY <2>1, <2>2, StartedFields
    <2>4. QED
      BY <1>2, <1>3, <1>4, <2>2, <2>3, BetweenNodes
  <1>7. ASSUME NEW p \in Procs PROVE ~Abort(p)
    BY <1>1 DEF Undisturbed, Abort, TypeOK
  <1>8. ASSUME NEW n \in Node, NEW t \in Topologies PROVE ~Edit(n, t)
    BY <1>1 DEF Undisturbed, Edit, TypeOK
  <1>9. ASSUME NEW x \in Node, Damage(x) PROVE SharedInv'
    <2>1. UNCHANGED run
      BY <1>9 DEF Damage
    <2>2. (\A p \in Procs : ~Writing(p)') => Agree(topo)'
      BY <1>9, <2>1, SharingDamage DEF SharedInv, Writing
    <2>3. QED
      BY <1>1, <1>9, <2>2, SharingDamage DEF SharedInv
  <1>10. CASE UNCHANGED vars
    <2>1. UNCHANGED <<topo, file, run>>
      BY <1>10 DEF vars
    <2>2. \A p \in Procs : Sharing(p)'
      BY <2>1 DEF SharedInv, Sharing, AgreeBesides, Alike, SameConfig, Class, SiblingsOf,
                  WritesFor, Writing, Current, At
    <2>3. (\A p \in Procs : ~Writing(p)') => Agree(topo)'
      BY <1>4, <2>1 DEF SharedInv, Writing
    <2>4. QED
      BY <1>1, <2>2, <2>3 DEF SharedInv
  <1>11. QED
    BY <1>5, <1>6, <1>7, <1>8, <1>9, <1>10 DEF Next

\* What once disturbed stays on record.
LEMMA DisturbedStays ==
    ASSUME TypeOK, [Next]_vars, Undisturbed'
    PROVE  Undisturbed
  <1>1. spent \in [commands : Nat, edits : Nat, aborts : Nat, damage : Nat]
    BY DEF TypeOK
  <1>2. ASSUME NEW p \in Procs, Step(p) PROVE spent' = spent
    BY <1>2 DEF Step, Finish, Open, Fill, Skip, Begin, Mint, PassBy, Copy, CopyFails, Replace
  <1>3. ASSUME NEW p \in Procs PROVE ~Abort(p)
    BY <1>1 DEF Undisturbed, Abort
  <1>4. ASSUME NEW n \in Node, NEW t \in Topologies PROVE ~Edit(n, t)
    BY <1>1 DEF Undisturbed, Edit
  <1>5. ASSUME NEW p \in Procs, NEW ns \in SUBSET Node, NEW f \in BOOLEAN, Start(p, ns, f)
        PROVE  Undisturbed
    BY <1>1, <1>5 DEF Start, Undisturbed
  <1>6. ASSUME NEW n \in Node, Damage(n) PROVE Undisturbed
    BY <1>1, <1>6 DEF Damage, Undisturbed
  <1>7. QED
    BY <1>2, <1>3, <1>4, <1>5, <1>6 DEF Next, vars, Undisturbed

QuietInv == AloneInv /\ (Undisturbed => SharedInv)

LEMMA NextQuiet == ASSUME OneCommand PROVE QuietInv /\ [Next]_vars => QuietInv'
  <1> SUFFICES ASSUME QuietInv, [Next]_vars PROVE QuietInv'
    OBVIOUS
  <1>1. AloneInv' /\ TypeOK
    BY NextAlone DEF QuietInv, AloneInv, IInv
  <1>2. ASSUME Undisturbed' PROVE SharedInv'
    <2>1. SharedInv
      BY <1>1, <1>2, DisturbedStays DEF QuietInv
    <2>2. QED
      BY <1>2, <2>1, NextShared
  <1>3. QED
    BY <1>1, <1>2 DEF QuietInv

\* One command at a time: as long as the topology was not edited and no command died,
\* the hubs of a region that have one key configuration and have keys share them
\* whenever no command runs.
THEOREM HubsShare == ASSUME OneCommand PROVE Spec => []UndisturbedHubsShare
  <1>1. SharedInv => HubsShareKeypair
    BY DEF SharedInv, HubsShareKeypair, At, Writing
  <1>2. QuietInv => UndisturbedHubsShare
    BY <1>1 DEF QuietInv, Undisturbed, UndisturbedHubsShare
  <1>3. Init => QuietInv
    BY InitShared DEF QuietInv, SharedInv
  <1>4. QED
    BY NextQuiet, <1>2, <1>3, PTL DEF Spec
=============================================================================
