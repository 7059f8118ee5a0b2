--------------------------- MODULE PlatformProofs ---------------------------
(***************************************************************************)
(* Proofs about the platform around the trading core: a launch of a        *)
(* long-run generation publishes what is true of its processes, the model  *)
(* gateway accounts for every prompt it sends, the ledgers of gates,       *)
(* models and live control replay to what memory holds, stability evidence *)
(* that passed its review goes on passing it, what the console tells the   *)
(* operator is so, a recovered book is the provider's, and what a public   *)
(* data run leaves behind can be relied on.                                *)
(***************************************************************************)
EXTENDS SourceFinality, PublicDataRun, DepthRecovery, Console, StabilityRun, Admission, GenerationLaunch,
        ModelGateway, SharedLemmas, SequenceTheorems

---------------------------------------------------------------------------
(* The launch of a generation.                                             *)
(*                                                                         *)
(* A launcher goes through its checks with nothing started, then starts    *)
(* and validates the five components one after the other: what it has      *)
(* started is its own until it is refused, and then nothing of it runs.    *)
(* A component that was seen live was loaded from the contract's tree,     *)
(* and remembers that when it dies.                                        *)

LauncherStates == {"none", "begun", "attested", "cleared", "rooted", "starting", "awaiting", "started",
                   "RUNNING", "refused", "died"}
Checking == {"none", "begun", "attested", "cleared", "rooted"}
Starting == {"starting", "awaiting", "started", "RUNNING"}
PartRecords == {[st |-> "none"]}
               \cup [st : {"booting", "live", "exited", "terminated"}, by : Gates, on : Trees \cup {"none", "unread"}]

LaunchShape ==
    /\ tree \in Trees /\ bound \in Trees \cup {"none"}
    /\ gate \in [Gates -> GateStates]
    /\ launcher \in [Gates -> [at : LauncherStates, n : 0..5]]
    /\ part \in [Parts -> PartRecords]
    /\ record \in {[st |-> "none"]} \cup LaunchRecords
    /\ gateRoot = [used |-> gateRoot.used, lock |-> gateRoot.lock, rows |-> gateRoot.rows]
    /\ gateRoot.rows \in Seq(Gates \X GateEvents)
    /\ blunders = [edits |-> blunders.edits, kills |-> blunders.kills, logs |-> blunders.logs, raced |-> blunders.raced]

StartedBy(g, p) == part[p].st # "none" /\ part[p].by = g
SeenLive(p) == p # "scheduler" => part[p].st # "booting" /\ part[p].on = bound

\* A live component other than the scheduler has compared its tree with the contract.
LiveIsBound == \A p \in Parts : part[p].st = "live" /\ p # "scheduler" => part[p].on = bound

\* Where a launcher is tells what it has started and seen.
LauncherFits(g) ==
    LET at == launcher[g].at
        n == launcher[g].n
    IN  /\ gate[g] \in {"none", "armed", "late", "waiting"} => at = "none"
        /\ gate[g] # "none" => bound # "none"
        /\ at \in Checking => n = 0 /\ \A p \in Parts : ~ StartedBy(g, p)
        /\ at \in Starting \cup (Checking \ {"none", "begun"}) => bound = "frozen"
        /\ at \in Starting => \A i \in 1..n : StartedBy(g, Components[i])
                                              /\ ((at = "awaiting" /\ i = n) \/ SeenLive(Components[i]))
        /\ at = "awaiting" => n # 0
        /\ at \in {"started", "RUNNING"} => n = 5
        /\ at = "RUNNING" => record = [st |-> "RUNNING", by |-> g] \/ blunders.raced
        /\ at = "refused" => \A p \in Parts : StartedBy(g, p) => ~ Runs(p)

LaunchersFit == \A g \in Gates : LauncherFits(g)

\* What was written down rests on where the launchers got.
RecordFits == record.st = "RUNNING" => launcher[record.by].at = "RUNNING"
RowsFit ==
    \A g \in Gates : /\ <<g, "LAUNCHED">> \in Rows => launcher[g].at = "RUNNING"
                     /\ <<g, "NOT_LAUNCHED">> \in Rows => launcher[g].at \in {"refused", "died"} \/ g \in blunders.logs
CertificateFits == certificate = "CERTIFIED" => \E g \in Gates : launcher[g].at = "RUNNING"

LaunchInv == LaunchShape /\ LiveIsBound /\ LaunchersFit /\ RecordFits /\ RowsFit /\ CertificateFits

\* The five components are distinct, and the scheduler is the last.
LEMMA ComponentsAre ==
    /\ \A i \in 1..5 : Components[i] \in Parts /\ (Components[i] = "scheduler" <=> i = 5)
    /\ \A i, j \in 1..5 : Components[i] = Components[j] => i = j
    /\ \A p \in Parts : \E i \in 1..5 : p = Components[i]
    /\ "scheduler" \in Parts
BY DEF Components, Parts

\* A log with one more row has the rows of the log and that one.
LEMMA RowsAfter ==
    ASSUME NEW T, NEW hist \in Seq(T), NEW row \in T
    PROVE  {Append(hist, row)[i] : i \in DOMAIN Append(hist, row)} = {hist[i] : i \in DOMAIN hist} \cup {row}
<1>1. /\ DOMAIN Append(hist, row) = DOMAIN hist \cup {Len(hist) + 1} /\ Len(hist) + 1 \notin DOMAIN hist
      /\ DOMAIN hist = 1..Len(hist) /\ Len(hist) \in Nat
  BY AppendedLog
<1>2. Append(hist, row)[Len(hist) + 1] = row /\ \A i \in DOMAIN hist : Append(hist, row)[i] = hist[i]
  BY <1>1
<1> QED
  BY <1>1, <1>2, Zenon

\* Before any launch nothing was started, published or certified.
LEMMA LaunchInitInv == LaunchInit => LaunchInv
<1> SUFFICES ASSUME LaunchInit PROVE LaunchInv
  OBVIOUS
<1>1. LaunchShape
  BY DEF LaunchInit, LaunchShape, LauncherStates, PartRecords, Trees, GateStates
<1>2. Rows = {}
  BY DEF LaunchInit, Rows
<1> QED
  BY <1>1, <1>2 DEF LaunchInit, LaunchInv, LiveIsBound, LaunchersFit, LauncherFits, RecordFits, RowsFit, CertificateFits,
    StartedBy, Checking, Starting
\* What a step leaves of a component: its starter, and what was loaded once it has booted.
PartKept(p) ==
    \/ part'[p] = part[p]
    \/ /\ part[p].st # "none" /\ part'[p].st \in {"live", "exited", "terminated"} /\ part'[p].by = part[p].by
       /\ part[p].st = "booting" \/ part'[p].on = part[p].on
       /\ Runs(p)' => Runs(p)

\* What launcher g knows of a component still holds.
KnownKept(g, p) ==
    /\ StartedBy(g, p)' <=> StartedBy(g, p)
    /\ StartedBy(g, p) /\ SeenLive(p) => SeenLive(p)'
    /\ StartedBy(g, p) /\ Runs(p)' => Runs(p)

\* A component that keeps its starter and its tree leaves what a launcher knows of it.
LEMMA KeptIsKnown ==
    ASSUME NEW p \in Parts, PartKept(p), bound' = bound, NEW g \in Gates
    PROVE  KnownKept(g, p)
BY DEF PartKept, KnownKept, StartedBy, SeenLive, Runs

\* A launcher that does not move keeps fitting while what it knows is kept.
LEMMA OthersFit ==
    ASSUME LaunchShape, NEW g \in Gates, LauncherFits(g), \A p \in Parts : KnownKept(g, p),
           launcher'[g] = launcher[g], bound' = bound,
           gate'[g] \in {"none", "armed", "late", "waiting"} => gate[g] \in {"none", "armed", "late", "waiting"},
           gate'[g] # "none" => bound # "none",
           launcher[g].at = "RUNNING" => record' = record \/ blunders'.raced,
           blunders.raced => blunders'.raced
    PROVE  LauncherFits(g)'
<1> DEFINE at == launcher[g].at
           n == launcher[g].n
<1>1. n \in 0..5 /\ \A i \in 1..n : Components[i] \in Parts
  BY ComponentsAre DEF LaunchShape
<1>2. launcher'[g].at = at /\ launcher'[g].n = n
  OBVIOUS
<1> HIDE DEF at, n
<1>3. at \in Starting => \A i \in 1..n : StartedBy(g, Components[i])' /\ ((at = "awaiting" /\ i = n) \/ SeenLive(Components[i])')
  BY <1>1 DEF LauncherFits, KnownKept, at, n
<1>4. at \in Checking => n = 0 /\ \A p \in Parts : ~ StartedBy(g, p)'
  BY DEF LauncherFits, KnownKept, at, n
<1>5. at = "refused" => \A p \in Parts : StartedBy(g, p)' => ~ Runs(p)'
  BY DEF LauncherFits, KnownKept, at, n
<1> QED
  BY <1>2, <1>3, <1>4, <1>5 DEF LauncherFits, at, n

\* Nothing moves that a launcher's place depends on.
LEMMA NobodyMoves ==
    ASSUME LaunchShape, LaunchersFit, UNCHANGED <<bound, gate, launcher, part, record>>, blunders'.raced = blunders.raced
    PROVE  LaunchersFit'
BY DEF LaunchersFit, LauncherFits, StartedBy, SeenLive, Runs

\* A launcher that moves keeps its count of components, and no other launcher moves.
LEMMA ReachIs ==
    ASSUME LaunchShape, NEW g \in Gates, NEW at \in LauncherStates, Reach(g, at)
    PROVE  /\ launcher' \in [Gates -> [at : LauncherStates, n : 0..5]]
           /\ launcher'[g].at = at /\ launcher'[g].n = launcher[g].n
           /\ \A h \in Gates : h # g => launcher'[h] = launcher[h]
BY DEF LaunchShape, Reach

\* Terminating what a gate started stops it, revives nothing and touches no other component.
LEMMA TerminateIs ==
    ASSUME LaunchShape, NEW g \in Gates, Terminate(g)
    PROVE  /\ part' \in [Parts -> PartRecords]
           /\ \A p \in Parts : /\ PartKept(p) /\ (StartedBy(g, p)' => ~ Runs(p)')
                               /\ part'[p].st = "live" => part'[p] = part[p]
<1>1. ASSUME NEW p \in Parts
      PROVE  /\ part'[p] \in PartRecords /\ PartKept(p) /\ (StartedBy(g, p)' => ~ Runs(p)')
             /\ part'[p].st = "live" => part'[p] = part[p]
  <2>1. part[p] \in PartRecords
    BY DEF LaunchShape
  <2>2. CASE StartedBy(g, p) /\ Runs(p)
    <3>1. part'[p] = [part[p] EXCEPT !.st = "terminated"]
      BY <2>2 DEF Terminate, StartedBy
    <3> QED
      BY <2>1, <2>2, <3>1 DEF PartRecords, PartKept, StartedBy, Runs
  <2>3. CASE ~ (StartedBy(g, p) /\ Runs(p))
    <3>1. part'[p] = part[p]
      BY <2>3 DEF Terminate, StartedBy
    <3> QED
      BY <2>1, <2>3, <3>1 DEF PartKept, StartedBy, Runs
  <2> QED
    BY <2>2, <2>3
<1>2. part' = [p \in Parts |-> part'[p]]
  BY DEF Terminate
<1> QED
  BY <1>1, <1>2

\* A row more in the events of the gates.
LEMMA Published ==
    ASSUME LaunchShape, NEW g \in Gates, NEW e \in GateEvents, gateRoot'.rows = Append(gateRoot.rows, <<g, e>>)
    PROVE  gateRoot'.rows \in Seq(Gates \X GateEvents) /\ Rows' = Rows \cup {<<g, e>>}
<1> DEFINE row == <<g, e>>
           rows == gateRoot.rows
<1>1. row \in Gates \X GateEvents /\ rows \in Seq(Gates \X GateEvents)
  BY DEF LaunchShape
<1>2. gateRoot'.rows = Append(rows, row)
  OBVIOUS
<1> HIDE DEF row, rows
<1>3. Append(rows, row) \in Seq(Gates \X GateEvents)
  BY <1>1, AppendedLog, Zenon
<1>4. {Append(rows, row)[i] : i \in DOMAIN Append(rows, row)} = {rows[i] : i \in DOMAIN rows} \cup {row}
  <2> DEFINE T == Gates \X GateEvents
  <2>1. rows \in Seq(T) /\ row \in T
    BY <1>1
  <2> HIDE DEF T
  <2> QED
    BY <2>1, RowsAfter
<1>5. Rows' = {rows[i] : i \in DOMAIN rows} \cup {row}
  BY <1>2, <1>4 DEF Rows
<1> QED
  BY <1>2, <1>3, <1>5 DEF Rows, row, rows

---------------------------------------------------------------------------
(* The steps of a launch *)

\* The papers, the clock and the checkout change nothing a launcher rests on; the audit certifies only
\* under a record of a launcher that got through.
LEMMA PapersKeep ==
    ASSUME LaunchInv, Preregister \/ ReleasePreflight \/ LaunchPreflight \/ Edit \/ Later \/ Audit
    PROVE  LaunchInv'
<1> USE DEF LaunchInv
<1>1. CASE Preregister
  <2>1. \A g \in Gates : gate[g] = "none" /\ launcher[g].at = "none" /\ launcher[g].n = 0
    BY <1>1 DEF LaunchersFit, LauncherFits, Preregister, Unwritten, Checking
  <2>2. \A p \in Parts : part[p].st = "none"
    BY <2>1 DEF LaunchersFit, LauncherFits, LaunchShape, PartRecords, StartedBy, Checking
  <2>3. LaunchShape' /\ RecordFits' /\ RowsFit' /\ CertificateFits'
    BY <1>1 DEF LaunchShape, Preregister, RecordFits, RowsFit, Rows, CertificateFits
  <2>4. LiveIsBound'
    BY <1>1, <2>2 DEF Preregister, LiveIsBound
  <2>5. LaunchersFit'
    <3>1. UNCHANGED <<gate, launcher, part>>
      BY <1>1 DEF Preregister
    <3> QED
      BY <2>1, <2>2, <3>1 DEF LaunchersFit, LauncherFits, StartedBy, Starting, Checking
  <2> QED
    BY <2>3, <2>4, <2>5
<1>2. CASE ReleasePreflight \/ LaunchPreflight \/ Edit \/ Later
  <2>1. /\ UNCHANGED <<bound, gate, launcher, part, record, gateRoot, certificate>>
        /\ tree' \in Trees /\ blunders'.raced = blunders.raced /\ blunders'.logs = blunders.logs
        /\ blunders' = [edits |-> blunders'.edits, kills |-> blunders'.kills, logs |-> blunders'.logs, raced |-> blunders'.raced]
    BY <1>2 DEF ReleasePreflight, LaunchPreflight, Edit, Later, LaunchShape, Trees
  <2>2. LaunchersFit'
    BY <2>1, NobodyMoves
  <2> QED
    BY <2>1, <2>2 DEF LaunchShape, LiveIsBound, RecordFits, RowsFit, Rows, CertificateFits
<1>3. CASE Audit
  <2>1. UNCHANGED <<tree, bound, gate, launcher, part, record, gateRoot, blunders>>
    BY <1>3 DEF Audit
  <2>2. LaunchersFit'
    BY <2>1, NobodyMoves
  <2>3. certificate' = "CERTIFIED" => record.st = "RUNNING" /\ record.by \in Gates
    BY <1>3 DEF Audit, RecordIssues, LaunchShape, LaunchRecords
  <2>4. CertificateFits'
    BY <2>1, <2>3 DEF CertificateFits, RecordFits
  <2> QED
    BY <2>1, <2>2, <2>4 DEF LaunchShape, LiveIsBound, RecordFits, RowsFit, Rows
<1> QED
  BY <1>1, <1>2, <1>3

\* A gate that is armed, or refused, or given the lock, has not begun a launcher.
LEMMA GateKeeps ==
    ASSUME LaunchInv, NEW g0 \in Gates, Arm(g0) \/ Lock(g0) \/ GateDies(g0)
    PROVE  LaunchInv'
<1> USE DEF LaunchInv
<1>1. /\ UNCHANGED <<tree, bound, launcher, part, record, certificate>>
      /\ blunders'.raced = blunders.raced /\ blunders'.logs = blunders.logs
      /\ blunders' = [edits |-> blunders'.edits, kills |-> blunders'.kills, logs |-> blunders'.logs, raced |-> blunders'.raced]
  BY DEF Arm, Lock, GateDies, LaunchShape
<1>2. /\ gate' \in [Gates -> GateStates]
      /\ \A g \in Gates : gate'[g] \in {"none", "armed", "late", "waiting"} => gate[g] \in {"none", "armed", "late", "waiting"}
  BY DEF Arm, Lock, GateDies, LaunchShape, GateStates
<1>3. /\ gateRoot' = [used |-> gateRoot'.used, lock |-> gateRoot'.lock, rows |-> gateRoot'.rows]
      /\ gateRoot'.rows = gateRoot.rows \/ gateRoot'.rows = Append(gateRoot.rows, <<g0, "MISSED">>)
  BY DEF Arm, Lock, GateDies, LaunchShape
<1>4. gateRoot'.rows \in Seq(Gates \X GateEvents) /\ Rows' \subseteq Rows \cup {<<g0, "MISSED">>}
  <2>1. CASE gateRoot'.rows = gateRoot.rows
    BY <2>1 DEF Rows, LaunchShape
  <2>2. CASE gateRoot'.rows = Append(gateRoot.rows, <<g0, "MISSED">>)
    <3>1. "MISSED" \in GateEvents
      BY DEF GateEvents
    <3> QED
      BY <2>2, <3>1, Published, Zenon
  <2> QED
    BY <1>3, <2>1, <2>2
<1>5. LaunchersFit'
  <2>1. \A g \in Gates : gate'[g] # "none" => bound # "none"
    BY DEF Arm, Lock, GateDies, LaunchersFit, LauncherFits, LaunchShape
  <2> QED
    BY <1>1, <1>2, <2>1, OthersFit DEF LaunchersFit, KnownKept, StartedBy, SeenLive, Runs
<1>6. LaunchShape'
  BY <1>1, <1>2, <1>3, <1>4 DEF LaunchShape
<1>7. RowsFit'
  BY <1>1, <1>4 DEF RowsFit
<1> QED
  BY <1>1, <1>5, <1>6, <1>7 DEF LiveIsBound, RecordFits, CertificateFits

\* A launcher begins once, with nothing of its own: behind the gate that waits, or without a gate.
LEMMA BeginKeeps ==
    ASSUME LaunchInv, NEW g0 \in Gates, Delegate(g0) \/ Direct(g0)
    PROVE  LaunchInv'
<1> USE DEF LaunchInv
<1>1. UNCHANGED <<tree, bound, part, record, blunders, certificate>>
  BY DEF Delegate, Direct
<1>2. /\ gate' \in [Gates -> GateStates] /\ gate'[g0] \in {"done", "delegated", "direct"}
      /\ \A g \in Gates \ {g0} : gate'[g] = gate[g]
  BY DEF Delegate, Direct, LaunchShape, GateStates
<1>3. launcher[g0].at = "none" /\ launcher[g0].n = 0 /\ \A p \in Parts : ~ StartedBy(g0, p)
  BY DEF Delegate, Direct, LaunchersFit, LauncherFits, Checking
<1>4. bound # "none"
  BY DEF Delegate, Direct, LaunchersFit, LauncherFits
<1>5. launcher' = launcher \/ Reach(g0, "begun")
  BY DEF Delegate, Direct, Reach
<1>6. /\ launcher' \in [Gates -> [at : LauncherStates, n : 0..5]]
      /\ launcher'[g0].at \in {"none", "begun"} /\ launcher'[g0].n = 0
      /\ \A h \in Gates : h # g0 => launcher'[h] = launcher[h]
  <2>1. "begun" \in LauncherStates
    BY DEF LauncherStates
  <2>2. CASE launcher' = launcher
    BY <1>3, <2>2 DEF LaunchShape
  <2>3. CASE Reach(g0, "begun")
    BY <1>3, <2>1, <2>3, ReachIs
  <2> QED
    BY <1>5, <2>2, <2>3
<1>7. /\ gateRoot' = [used |-> gateRoot'.used, lock |-> gateRoot'.lock, rows |-> gateRoot'.rows]
      /\ \/ gateRoot' = gateRoot
         \/ \E e \in {"MISSED", "FINAL_LAUNCH_ATTESTATION"} : gateRoot'.rows = Append(gateRoot.rows, <<g0, e>>)
  BY DEF Delegate, Direct, Publish, LaunchShape
<1>8. /\ gateRoot'.rows \in Seq(Gates \X GateEvents)
      /\ Rows' \subseteq Rows \cup {<<g0, "MISSED">>, <<g0, "FINAL_LAUNCH_ATTESTATION">>}
  <2>1. CASE gateRoot' = gateRoot
    BY <2>1 DEF Rows, LaunchShape
  <2>2. ASSUME NEW e \in {"MISSED", "FINAL_LAUNCH_ATTESTATION"}, gateRoot'.rows = Append(gateRoot.rows, <<g0, e>>)
        PROVE  gateRoot'.rows \in Seq(Gates \X GateEvents) /\ Rows' = Rows \cup {<<g0, e>>}
    <3>1. e \in GateEvents
      BY DEF GateEvents
    <3> QED
      BY <2>2, <3>1, Published, Zenon
  <2> QED
    BY <1>7, <2>1, <2>2
<1>9. LaunchShape'
  BY <1>1, <1>2, <1>6, <1>7, <1>8 DEF LaunchShape
<1>10. LaunchersFit'
  <2>1. ASSUME NEW g \in Gates, g # g0 PROVE LauncherFits(g)'
    BY <1>1, <1>2, <1>4, <1>6, <2>1, OthersFit DEF LaunchersFit, KnownKept, StartedBy, SeenLive, Runs
  <2>2. LauncherFits(g0)'
    BY <1>1, <1>2, <1>3, <1>4, <1>6 DEF LauncherFits, StartedBy, Checking, Starting
  <2> QED
    BY <2>1, <2>2 DEF LaunchersFit
<1>11. \A g \in Gates : launcher[g].at \notin {"none", "begun"} => launcher'[g] = launcher[g]
  BY <1>3, <1>6
<1>12. RecordFits'
  BY <1>1, <1>11 DEF RecordFits, LaunchShape, LaunchRecords
<1>13. RowsFit'
  BY <1>1, <1>8, <1>11 DEF RowsFit
<1> QED
  BY <1>1, <1>9, <1>10, <1>11, <1>12, <1>13 DEF LiveIsBound, CertificateFits
\* The gate reads how its launcher ended, once it has ended.
LEMMA ConcludeKeeps ==
    ASSUME LaunchInv, NEW g0 \in Gates, Conclude(g0)
    PROVE  LaunchInv'
<1> USE DEF LaunchInv
<1>1. PICK logged \in BOOLEAN :
        /\ gate[g0] = "delegated" /\ launcher[g0].at \in {"RUNNING", "refused", "died"}
        /\ gateRoot' = [gateRoot EXCEPT !.lock = 0, !.rows = Append(@,
              <<g0, IF logged /\ launcher[g0].at = "RUNNING" THEN "LAUNCHED" ELSE "NOT_LAUNCHED">>)]
        /\ gate' = [gate EXCEPT ![g0] = "done"]
        /\ blunders' = IF logged THEN blunders ELSE [blunders EXCEPT !.logs = {g0}]
        /\ (logged \/ blunders.logs = {})
        /\ UNCHANGED <<hour, tree, bound, report, launcher, record, part, repaired, certificate>>
  BY DEF Conclude
<1>2. PICK e \in {"LAUNCHED", "NOT_LAUNCHED"} :
        /\ e = "LAUNCHED" <=> (logged /\ launcher[g0].at = "RUNNING")
        /\ gateRoot'.rows = Append(gateRoot.rows, <<g0, e>>)
  <2>1. gateRoot'.rows = Append(gateRoot.rows, <<g0, IF logged /\ launcher[g0].at = "RUNNING" THEN "LAUNCHED" ELSE "NOT_LAUNCHED">>)
    BY <1>1 DEF LaunchShape
  <2>2. CASE logged /\ launcher[g0].at = "RUNNING"
    BY <2>1, <2>2, Zenon
  <2>3. CASE ~ (logged /\ launcher[g0].at = "RUNNING")
    BY <2>1, <2>3, Zenon
  <2> QED
    BY <2>2, <2>3
<1>3. gateRoot'.rows \in Seq(Gates \X GateEvents) /\ Rows' = Rows \cup {<<g0, e>>}
  <2>1. e \in GateEvents
    BY DEF GateEvents
  <2> QED
    BY <1>2, <2>1, Published, Zenon
<1>4. /\ gateRoot' = [used |-> gateRoot'.used, lock |-> gateRoot'.lock, rows |-> gateRoot'.rows]
      /\ blunders' = [edits |-> blunders'.edits, kills |-> blunders'.kills, logs |-> blunders'.logs, raced |-> blunders'.raced]
      /\ blunders'.raced = blunders.raced /\ blunders.logs \subseteq blunders'.logs
      /\ ~ logged => g0 \in blunders'.logs
  BY <1>1 DEF LaunchShape
<1>5. /\ gate' \in [Gates -> GateStates] /\ gate'[g0] = "done"
      /\ \A g \in Gates \ {g0} : gate'[g] = gate[g]
  BY <1>1 DEF LaunchShape, GateStates
<1>6. LaunchShape'
  BY <1>1, <1>3, <1>4, <1>5 DEF LaunchShape
<1>7. LaunchersFit'
  <2>1. \A g \in Gates : gate'[g] # "none" => bound # "none"
    BY <1>1, <1>5 DEF LaunchersFit, LauncherFits
  <2> QED
    BY <1>1, <1>4, <1>5, <2>1, OthersFit DEF LaunchersFit, KnownKept, StartedBy, SeenLive, Runs
<1>8. RowsFit'
  <2>1. e = "LAUNCHED" => launcher[g0].at = "RUNNING"
    BY <1>2
  <2>2. e = "NOT_LAUNCHED" => launcher[g0].at \in {"refused", "died"} \/ g0 \in blunders'.logs
    BY <1>1, <1>2, <1>4
  <2> QED
    BY <1>1, <1>3, <1>4, <2>1, <2>2 DEF RowsFit
<1> QED
  BY <1>1, <1>6, <1>7, <1>8 DEF LiveIsBound, RecordFits, CertificateFits

\* A launcher that goes on, fails or dies while nothing of its own is running or all of it goes on.
LEMMA ChecksKeep ==
    ASSUME LaunchInv, NEW g0 \in Gates, Attest(g0) \/ Quiesce(g0) \/ FindRoot(g0) \/ LauncherDies(g0)
    PROVE  LaunchInv'
<1> USE DEF LaunchInv
<1>1. /\ UNCHANGED <<tree, bound, gate, part, record, gateRoot, certificate>>
      /\ blunders'.raced = blunders.raced /\ blunders'.logs = blunders.logs
      /\ blunders' = [edits |-> blunders'.edits, kills |-> blunders'.kills, logs |-> blunders'.logs, raced |-> blunders'.raced]
  BY DEF Attest, Quiesce, FindRoot, LauncherDies, LaunchShape
<1>2. PICK at \in LauncherStates :
        /\ Reach(g0, at)
        /\ \/ launcher[g0].at = "begun" /\ at = "attested" /\ bound = "frozen"
           \/ launcher[g0].at = "attested" /\ at = "cleared"
           \/ launcher[g0].at = "cleared" /\ at = "rooted"
           \/ launcher[g0].at \in Checking \ {"none"} /\ at = "refused"
           \/ launcher[g0].at \in LauncherStates \ {"none", "RUNNING", "refused", "died"} /\ at = "died"
  <2>1. CASE Attest(g0)
    <3>1. CASE report = "LONG_RUN_READY" /\ MatchesContract /\ hour = "open"
      BY <2>1, <3>1, Zenon DEF Attest, LauncherStates, MatchesContract
    <3>2. CASE ~ (report = "LONG_RUN_READY" /\ MatchesContract /\ hour = "open")
      BY <2>1, <3>2, Zenon DEF Attest, LauncherStates, Checking
    <3> QED
      BY <3>1, <3>2
  <2>2. ASSUME Quiesce(g0)
        PROVE  launcher[g0].at = "attested" /\ (Reach(g0, "cleared") \/ Reach(g0, "refused"))
    BY <2>2 DEF Quiesce
  <2>3. ASSUME FindRoot(g0)
        PROVE  launcher[g0].at = "cleared" /\ (Reach(g0, "rooted") \/ Reach(g0, "refused"))
    BY <2>3 DEF FindRoot
  <2>4. CASE LauncherDies(g0)
    BY <2>4 DEF LauncherDies, LaunchShape, LauncherStates
  <2> QED
    BY <2>1, <2>2, <2>3, <2>4, Zenon DEF LauncherStates, Checking
<1>3. /\ launcher' \in [Gates -> [at : LauncherStates, n : 0..5]]
      /\ launcher'[g0].at = at /\ launcher'[g0].n = launcher[g0].n
      /\ \A h \in Gates : h # g0 => launcher'[h] = launcher[h]
  BY <1>2, ReachIs
<1>4. LaunchersFit'
  <2>1. ASSUME NEW g \in Gates, g # g0 PROVE LauncherFits(g)'
    BY <1>1, <1>3, <2>1, OthersFit DEF LaunchersFit, LauncherFits, KnownKept, StartedBy, SeenLive, Runs
  <2>2. LauncherFits(g0)
    BY DEF LaunchersFit
  <2>3. LauncherFits(g0)'
    BY <1>1, <1>2, <1>3, <2>2 DEF LauncherFits, StartedBy, Runs, Checking, Starting
  <2> QED
    BY <2>1, <2>3 DEF LaunchersFit
<1>5. \A g \in Gates : launcher[g].at \in {"RUNNING", "refused", "died"} => launcher'[g] = launcher[g]
  BY <1>2, <1>3 DEF Checking
<1>6. LaunchShape' /\ RowsFit'
  BY <1>1, <1>3, <1>5 DEF LaunchShape, RowsFit, Rows
<1>7. RecordFits'
  BY <1>1, <1>5 DEF RecordFits, LaunchShape, LaunchRecords
<1> QED
  BY <1>1, <1>4, <1>5, <1>6, <1>7 DEF LiveIsBound, CertificateFits

\* The intent overwrites a record only at the price of the race that is remembered.
LEMMA IntendKeeps ==
    ASSUME LaunchInv, NEW g0 \in Gates, Intend(g0)
    PROVE  LaunchInv'
<1> USE DEF LaunchInv
<1>1. /\ UNCHANGED <<tree, bound, gate, part, gateRoot, certificate>>
      /\ launcher[g0].at = "rooted" /\ record' = [st |-> "STARTING", by |-> g0]
      /\ blunders' = [blunders EXCEPT !.raced = @ \/ record.st # "none"] /\ Reach(g0, "starting")
  BY DEF Intend
<1>2. /\ blunders'.logs = blunders.logs
      /\ blunders' = [edits |-> blunders'.edits, kills |-> blunders'.kills, logs |-> blunders'.logs, raced |-> blunders'.raced]
      /\ blunders.raced \/ record.st # "none" => blunders'.raced
  <2>1. \A b : blunders' = [blunders EXCEPT !.raced = b] =>
               /\ blunders'.logs = blunders.logs /\ blunders'.raced = b
               /\ blunders' = [edits |-> blunders'.edits, kills |-> blunders'.kills, logs |-> blunders'.logs, raced |-> blunders'.raced]
    BY DEF LaunchShape
  <2> QED
    BY <1>1, <2>1, Zenon
<1>3. /\ launcher' \in [Gates -> [at : LauncherStates, n : 0..5]]
      /\ launcher'[g0].at = "starting" /\ launcher'[g0].n = launcher[g0].n
      /\ \A h \in Gates : h # g0 => launcher'[h] = launcher[h]
  <2>1. "starting" \in LauncherStates
    BY DEF LauncherStates
  <2> QED
    BY <1>1, <2>1, ReachIs
<1>4. LaunchersFit'
  <2>1. ASSUME NEW g \in Gates, g # g0 PROVE LauncherFits(g)'
    <3>1. launcher[g].at = "RUNNING" => blunders'.raced
      BY <1>2 DEF LaunchersFit, LauncherFits
    <3>2. gate'[g] # "none" => bound # "none"
      BY <1>1 DEF LaunchersFit, LauncherFits
    <3>3. \A p \in Parts : KnownKept(g, p)
      BY <1>1 DEF KnownKept, StartedBy, SeenLive, Runs
    <3> QED
      BY <1>1, <1>2, <1>3, <2>1, <3>1, <3>2, <3>3, OthersFit DEF LaunchersFit
  <2>2. LauncherFits(g0)
    BY DEF LaunchersFit
  <2>3. LauncherFits(g0)'
    BY <1>1, <1>3, <2>2 DEF LauncherFits, StartedBy, Checking, Starting
  <2> QED
    BY <2>1, <2>3 DEF LaunchersFit
<1>5. \A g \in Gates : launcher[g].at \in {"RUNNING", "refused", "died"} => launcher'[g] = launcher[g]
  BY <1>1, <1>3
<1>6. LaunchShape'
  BY <1>1, <1>2, <1>3 DEF LaunchShape, LaunchRecords
<1>7. RowsFit'
  BY <1>1, <1>2, <1>5 DEF RowsFit, Rows
<1>8. RecordFits'
  BY <1>1 DEF RecordFits
<1> QED
  BY <1>1, <1>4, <1>5, <1>6, <1>7, <1>8 DEF LiveIsBound, CertificateFits
\* An error takes down whatever this launcher has started, and nothing else.
LEMMA CleanupKeeps ==
    ASSUME LaunchInv, NEW g0 \in Gates, Cleanup(g0), launcher[g0].at \in {"starting", "awaiting", "started"},
           UNCHANGED <<tree, bound, gate, gateRoot, record, blunders, certificate>>
    PROVE  LaunchInv'
<1> USE DEF LaunchInv
<1>1. /\ launcher' \in [Gates -> [at : LauncherStates, n : 0..5]]
      /\ launcher'[g0].at = "refused" /\ launcher'[g0].n = launcher[g0].n
      /\ \A h \in Gates : h # g0 => launcher'[h] = launcher[h]
  <2>1. "refused" \in LauncherStates /\ Reach(g0, "refused")
    BY DEF LauncherStates, Cleanup
  <2> QED
    BY <2>1, ReachIs
<1>2. /\ part' \in [Parts -> PartRecords]
      /\ \A p \in Parts : /\ PartKept(p) /\ (StartedBy(g0, p)' => ~ Runs(p)')
                          /\ part'[p].st = "live" => part'[p] = part[p]
  BY TerminateIs DEF Cleanup
<1>3. LaunchersFit'
  <2>1. ASSUME NEW g \in Gates, g # g0 PROVE LauncherFits(g)'
    <3>1. \A p \in Parts : KnownKept(g, p)
      BY <1>2, KeptIsKnown
    <3>2. gate'[g] # "none" => bound # "none"
      BY DEF LaunchersFit, LauncherFits
    <3>3. launcher[g].at = "RUNNING" => record' = record \/ blunders'.raced
      OBVIOUS
    <3>4. LauncherFits(g) /\ launcher'[g] = launcher[g]
      BY <1>1, <2>1 DEF LaunchersFit
    <3> QED
      BY <3>1, <3>2, <3>3, <3>4, OthersFit
  <2>2. LauncherFits(g0)
    BY DEF LaunchersFit
  <2>3. LauncherFits(g0)'
    BY <1>1, <1>2, <2>2 DEF LauncherFits, Checking, Starting
  <2> QED
    BY <2>1, <2>3 DEF LaunchersFit
<1>4. LiveIsBound'
  BY <1>2 DEF LiveIsBound
<1>5. \A g \in Gates : launcher[g].at \in {"RUNNING", "refused", "died"} => launcher'[g] = launcher[g]
  BY <1>1
<1>6. LaunchShape'
  BY <1>1, <1>2 DEF LaunchShape
<1>7. RowsFit'
  BY <1>5 DEF RowsFit, Rows
<1>8. RecordFits'
  BY <1>5 DEF RecordFits, LaunchShape, LaunchRecords
<1> QED
  BY <1>3, <1>4, <1>5, <1>6, <1>7, <1>8 DEF CertificateFits

\* A component that begins was nobody's before, and is the next of its launcher.
LEMMA StartNextKeeps ==
    ASSUME LaunchInv, NEW g0 \in Gates, StartNext(g0)
    PROVE  LaunchInv'
<1> USE DEF LaunchInv
<1>0. PICK n \in 0..5 : n = launcher[g0].n
  BY DEF LaunchShape
<1>9. PICK c : c = Components[n + 1]
  OBVIOUS
<1>1. /\ launcher[g0].at = "starting" /\ n < 5
      /\ UNCHANGED <<tree, bound, gate, gateRoot, record, blunders, certificate>>
  BY <1>0 DEF StartNext
<1>2. CASE Cleanup(g0)
  BY <1>1, <1>2, CleanupKeeps
<1>3. CASE /\ part[c].st = "none"
           /\ part' = [part EXCEPT ![c] = [st |-> "booting", by |-> g0, on |-> "unread"]]
           /\ launcher' = [launcher EXCEPT ![g0] = [at |-> "awaiting", n |-> @.n + 1]]
  <2>1. c \in Parts /\ n + 1 \in 1..5 /\ \A i \in 1..n : Components[i] \in Parts /\ Components[i] # c
    <3>1. n + 1 \in 1..5 /\ \A i \in 1..n : i \in 1..5 /\ i # n + 1
      BY <1>1
    <3> QED
      BY <1>9, <3>1, ComponentsAre
  <2>2. /\ launcher' \in [Gates -> [at : LauncherStates, n : 0..5]]
        /\ launcher'[g0].at = "awaiting" /\ launcher'[g0].n = n + 1
        /\ \A h \in Gates : h # g0 => launcher'[h] = launcher[h]
    BY <1>0, <1>1, <1>3, <2>1 DEF LaunchShape, LauncherStates
  <2>3. /\ part' \in [Parts -> PartRecords]
        /\ part'[c].st = "booting" /\ part'[c].by = g0
        /\ \A p \in Parts : p # c => part'[p] = part[p]
    BY <1>3, <2>1 DEF LaunchShape, PartRecords
  <2>4. LaunchersFit'
    <3>1. ASSUME NEW g \in Gates, g # g0 PROVE LauncherFits(g)'
      <4>1. \A p \in Parts : KnownKept(g, p)
        BY <1>1, <1>3, <2>1, <2>3, <3>1 DEF KnownKept, StartedBy, SeenLive, Runs
      <4>2. gate'[g] # "none" => bound # "none"
        BY <1>1 DEF LaunchersFit, LauncherFits
      <4>3. LauncherFits(g) /\ launcher'[g] = launcher[g]
        BY <2>2, <3>1 DEF LaunchersFit
      <4> QED
        BY <1>1, <4>1, <4>2, <4>3, OthersFit
    <3>2. LauncherFits(g0)
      BY DEF LaunchersFit
    <3>3. \A i \in 1..n : (StartedBy(g0, Components[i]) /\ SeenLive(Components[i]))
      BY <1>0, <1>1, <3>2 DEF LauncherFits, Starting
    <3>4. \A i \in 1..n : (StartedBy(g0, Components[i]) /\ SeenLive(Components[i]))'
      BY <1>1, <2>1, <2>3, <3>3 DEF StartedBy, SeenLive
    <3>5. StartedBy(g0, c)'
      BY <2>3 DEF StartedBy
    <3>6. \A i \in 1..(n + 1) : i \in 1..n \/ i = n + 1
      BY <1>1
    <3>7. \A i \in 1..(n + 1) : StartedBy(g0, Components[i])' /\ (i = n + 1 \/ SeenLive(Components[i])')
      BY <1>9, <3>4, <3>5, <3>6
    <3>8. gate[g0] \notin {"none", "armed", "late", "waiting"} /\ bound = "frozen" /\ n + 1 # 0
      BY <1>1, <3>2 DEF LauncherFits, Starting
    <3>9. LauncherFits(g0)'
      BY <1>1, <2>2, <3>7, <3>8 DEF LauncherFits, Checking, Starting
    <3> QED
      BY <3>1, <3>9 DEF LaunchersFit
  <2>5. LiveIsBound'
    BY <1>1, <2>3 DEF LiveIsBound
  <2>6. \A g \in Gates : launcher[g].at \in {"RUNNING", "refused", "died"} => launcher'[g] = launcher[g]
    BY <1>1, <2>2
  <2>7. LaunchShape'
    BY <1>1, <2>2, <2>3 DEF LaunchShape
  <2>8. RowsFit'
    BY <1>1, <2>6 DEF RowsFit, Rows
  <2>9. RecordFits'
    BY <1>1, <2>6 DEF RecordFits, LaunchShape, LaunchRecords
  <2> QED
    BY <1>1, <2>4, <2>5, <2>6, <2>7, <2>8, <2>9 DEF CertificateFits
<1> QED
  BY <1>0, <1>2, <1>3, <1>9 DEF StartNext
\* A launcher goes on only over components it has seen live.
LEMMA AwaitKeeps ==
    ASSUME LaunchInv, NEW g0 \in Gates, Await(g0)
    PROVE  LaunchInv'
<1> USE DEF LaunchInv
<1>0. PICK n \in 0..5 : n = launcher[g0].n
  BY DEF LaunchShape
<1>1. /\ launcher[g0].at = "awaiting"
      /\ UNCHANGED <<tree, bound, gate, gateRoot, record, blunders, certificate>>
  BY DEF Await
<1>2. CASE Cleanup(g0)
  BY <1>1, <1>2, CleanupKeeps
<1>3. CASE part[Components[n]].st = "live" /\ Reach(g0, IF n = 5 THEN "started" ELSE "starting") /\ UNCHANGED part
  <2>1. PICK at \in {"starting", "started"} : Reach(g0, at) /\ (at = "started" => n = 5)
    <3>1. CASE n = 5
      BY <1>3, <3>1, Zenon
    <3>2. CASE n # 5
      BY <1>3, <3>2, Zenon
    <3> QED
      BY <3>1, <3>2
  <2>2. /\ launcher' \in [Gates -> [at : LauncherStates, n : 0..5]]
        /\ launcher'[g0].at = at /\ launcher'[g0].n = n
        /\ \A h \in Gates : h # g0 => launcher'[h] = launcher[h]
    <3>1. at \in LauncherStates
      BY DEF LauncherStates
    <3> QED
      BY <1>0, <2>1, <3>1, ReachIs
  <2>3. LauncherFits(g0)
    BY DEF LaunchersFit
  <2>4. n # 0 /\ bound = "frozen" /\ gate[g0] \notin {"none", "armed", "late", "waiting"}
    BY <1>0, <1>1, <2>3 DEF LauncherFits, Starting
  <2>5. \A i \in 1..n : StartedBy(g0, Components[i]) /\ (i = n \/ SeenLive(Components[i]))
    BY <1>0, <1>1, <2>3 DEF LauncherFits, Starting
  <2>6. SeenLive(Components[n])
    <3>1. Components[n] \in Parts
      BY <2>4, ComponentsAre
    <3> QED
      BY <1>3, <3>1 DEF LiveIsBound, SeenLive
  <2>7. \A i \in 1..n : StartedBy(g0, Components[i])' /\ SeenLive(Components[i])'
    BY <1>1, <1>3, <2>5, <2>6 DEF StartedBy, SeenLive
  <2>8. LauncherFits(g0)'
    BY <1>1, <2>1, <2>2, <2>4, <2>7 DEF LauncherFits, Checking, Starting
  <2>9. LaunchersFit'
    <3>1. ASSUME NEW g \in Gates, g # g0 PROVE LauncherFits(g)'
      <4>1. \A p \in Parts : KnownKept(g, p)
        BY <1>1, <1>3 DEF KnownKept, StartedBy, SeenLive, Runs
      <4>2. gate'[g] # "none" => bound # "none"
        BY <1>1 DEF LaunchersFit, LauncherFits
      <4>3. LauncherFits(g) /\ launcher'[g] = launcher[g]
        BY <2>2, <3>1 DEF LaunchersFit
      <4> QED
        BY <1>1, <4>1, <4>2, <4>3, OthersFit
    <3> QED
      BY <2>8, <3>1 DEF LaunchersFit
  <2>10. \A g \in Gates : launcher[g].at \in {"RUNNING", "refused", "died"} => launcher'[g] = launcher[g]
    BY <1>1, <2>2
  <2>11. LaunchShape'
    BY <1>1, <1>3, <2>2 DEF LaunchShape
  <2>12. RowsFit'
    BY <1>1, <2>10 DEF RowsFit, Rows
  <2>13. RecordFits'
    BY <1>1, <2>10 DEF RecordFits, LaunchShape, LaunchRecords
  <2> QED
    BY <1>1, <1>3, <2>9, <2>10, <2>11, <2>12, <2>13 DEF LiveIsBound, CertificateFits
<1> QED
  BY <1>0, <1>2, <1>3 DEF Await

\* Two launchers never get through: each would have started every component.
LEMMA AnnounceKeeps ==
    ASSUME LaunchInv, NEW g0 \in Gates, Announce(g0)
    PROVE  LaunchInv'
<1> USE DEF LaunchInv
<1>1. /\ launcher[g0].at = "started"
      /\ UNCHANGED <<tree, bound, gate, gateRoot, blunders, certificate>>
  BY DEF Announce
<1>2. CASE Cleanup(g0) /\ UNCHANGED record
  BY <1>1, <1>2, CleanupKeeps
<1>3. CASE record' = [st |-> "RUNNING", by |-> g0] /\ Reach(g0, "RUNNING") /\ UNCHANGED part
  <2>1. /\ launcher' \in [Gates -> [at : LauncherStates, n : 0..5]]
        /\ launcher'[g0].at = "RUNNING" /\ launcher'[g0].n = launcher[g0].n
        /\ \A h \in Gates : h # g0 => launcher'[h] = launcher[h]
    <3>1. "RUNNING" \in LauncherStates
      BY DEF LauncherStates
    <3> QED
      BY <1>3, <3>1, ReachIs
  <2>2. LauncherFits(g0) /\ launcher[g0].n = 5
    BY <1>1 DEF LaunchersFit, LauncherFits
  <2>3. \A i \in 1..5 : StartedBy(g0, Components[i]) /\ SeenLive(Components[i])
    BY <1>1, <2>2 DEF LauncherFits, Starting
  <2>4. StartedBy(g0, "scheduler")
    BY <2>3, ComponentsAre
  <2>5. \A g \in Gates : g # g0 => launcher[g].at # "RUNNING"
    <3>1. ASSUME NEW g \in Gates, launcher[g].at = "RUNNING" PROVE g = g0
      <4>1. LauncherFits(g) /\ launcher[g].n = 5
        BY <3>1 DEF LaunchersFit, LauncherFits
      <4>2. \A i \in 1..5 : StartedBy(g, Components[i])
        BY <3>1, <4>1 DEF LauncherFits, Starting
      <4>3. StartedBy(g, "scheduler")
        BY <4>2, ComponentsAre
      <4> QED
        BY <2>4, <4>3 DEF StartedBy
    <3> QED
      BY <3>1
  <2>6. LauncherFits(g0)'
    <3>1. \A i \in 1..5 : StartedBy(g0, Components[i])' /\ SeenLive(Components[i])'
      BY <1>1, <1>3, <2>3 DEF StartedBy, SeenLive
    <3>2. bound = "frozen" /\ gate[g0] \notin {"none", "armed", "late", "waiting"}
      BY <1>1, <2>2 DEF LauncherFits, Starting
    <3> QED
      BY <1>1, <1>3, <2>1, <2>2, <3>1, <3>2 DEF LauncherFits, Checking, Starting
  <2>7. LaunchersFit'
    <3>1. ASSUME NEW g \in Gates, g # g0 PROVE LauncherFits(g)'
      <4>1. \A p \in Parts : KnownKept(g, p)
        BY <1>1, <1>3 DEF KnownKept, StartedBy, SeenLive, Runs
      <4>2. gate'[g] # "none" => bound # "none"
        BY <1>1 DEF LaunchersFit, LauncherFits
      <4>3. LauncherFits(g) /\ launcher'[g] = launcher[g] /\ launcher[g].at # "RUNNING"
        BY <2>1, <2>5, <3>1 DEF LaunchersFit
      <4> QED
        BY <1>1, <4>1, <4>2, <4>3, OthersFit
    <3> QED
      BY <2>6, <3>1 DEF LaunchersFit
  <2>8. LaunchShape'
    BY <1>1, <1>3, <2>1 DEF LaunchShape, LaunchRecords
  <2>9. RowsFit'
    BY <1>1, <2>1 DEF RowsFit, Rows
  <2>10. RecordFits'
    BY <1>3, <2>1 DEF RecordFits
  <2> QED
    BY <1>1, <1>3, <2>1, <2>7, <2>8, <2>9, <2>10 DEF LiveIsBound, CertificateFits
<1> QED
  BY <1>2, <1>3 DEF Announce

\* A component boots into the tree it finds, and only the bound one lets it live; or it dies.
LEMMA ComponentKeeps ==
    ASSUME LaunchInv, NEW p0 \in Parts, Boot(p0) \/ Exit(p0)
    PROVE  LaunchInv'
<1> USE DEF LaunchInv
<1>1. /\ UNCHANGED <<tree, bound, gate, launcher, gateRoot, record, certificate>>
      /\ blunders'.raced = blunders.raced /\ blunders'.logs = blunders.logs
      /\ blunders' = [edits |-> blunders'.edits, kills |-> blunders'.kills, logs |-> blunders'.logs, raced |-> blunders'.raced]
  BY DEF Boot, Exit, LaunchShape
<1>2. /\ part' \in [Parts -> PartRecords] /\ PartKept(p0)
      /\ part'[p0].st = "live" /\ p0 # "scheduler" => part'[p0].on = bound
      /\ \A p \in Parts : p # p0 => part'[p] = part[p]
  <2>1. PICK r \in [st : {"booting", "live", "exited", "terminated"}, by : Gates, on : Trees \cup {"none", "unread"}] :
          r = part[p0]
    BY DEF LaunchShape, PartRecords, Boot, Exit, Runs
  <2>2. CASE Boot(p0)
    <3>1. PICK st \in {"live", "exited"} : st = (IF Boots(p0) THEN "live" ELSE "exited")
      OBVIOUS
    <3>2. /\ part[p0].st = "booting" /\ part' = [part EXCEPT ![p0].st = st, ![p0].on = tree]
      BY <2>2, <3>1 DEF Boot
    <3>3. tree \in Trees /\ part \in [Parts -> PartRecords]
      BY DEF LaunchShape
    <3>4. part'[p0] = [part[p0] EXCEPT !.st = st, !.on = tree] /\ \A p \in Parts : p # p0 => part'[p] = part[p]
      BY <3>2, <3>3
    <3>5. /\ [r EXCEPT !.st = st, !.on = tree] \in PartRecords
          /\ [r EXCEPT !.st = st, !.on = tree].st = st /\ [r EXCEPT !.st = st, !.on = tree].on = tree
          /\ [r EXCEPT !.st = st, !.on = tree].by = r.by
      BY <2>1, <3>3 DEF PartRecords
    <3>6. part'[p0].st = st /\ part'[p0].on = tree /\ part'[p0].by = part[p0].by
      BY <2>1, <3>4, <3>5
    <3>7. part' \in [Parts -> PartRecords]
      BY <2>1, <3>2, <3>3, <3>4, <3>5
    <3> QED
      BY <3>1, <3>2, <3>4, <3>6, <3>7 DEF PartKept, Runs, Boots
  <2>3. CASE Exit(p0)
    <3>1. Runs(p0) /\ part' = [part EXCEPT ![p0].st = "exited"]
      BY <2>3 DEF Exit
    <3>2. /\ [r EXCEPT !.st = "exited"] \in PartRecords /\ [r EXCEPT !.st = "exited"].st = "exited"
          /\ [r EXCEPT !.st = "exited"].by = r.by /\ [r EXCEPT !.st = "exited"].on = r.on
      BY <2>1 DEF PartRecords
    <3>3. part'[p0] = [r EXCEPT !.st = "exited"] /\ \A p \in Parts : p # p0 => part'[p] = part[p]
      BY <2>1, <3>1 DEF LaunchShape
    <3>4. part' \in [Parts -> PartRecords]
      BY <2>1, <3>1, <3>2, <3>3 DEF LaunchShape
    <3> QED
      BY <2>1, <3>1, <3>2, <3>3, <3>4 DEF PartKept, Runs
  <2> QED
    BY <2>2, <2>3
<1>3. \A p \in Parts : PartKept(p)
  BY <1>2 DEF PartKept
<1>4. LaunchersFit'
  <2>1. ASSUME NEW g \in Gates PROVE LauncherFits(g)'
    <3>1. \A p \in Parts : KnownKept(g, p)
      BY <1>1, <1>3, KeptIsKnown
    <3>2. gate'[g] # "none" => bound # "none"
      BY <1>1 DEF LaunchersFit, LauncherFits
    <3>3. LauncherFits(g)
      BY DEF LaunchersFit
    <3> QED
      BY <1>1, <3>1, <3>2, <3>3, OthersFit
  <2> QED
    BY <2>1 DEF LaunchersFit
<1> QED
  BY <1>1, <1>2, <1>4 DEF LaunchShape, LiveIsBound, RowsFit, Rows, RecordFits, CertificateFits

\* Every step of the gates, launchers, components and operators keeps the invariant.
LEMMA LaunchNextInv == LaunchInv /\ [LaunchNext]_launchVars => LaunchInv'
<1> SUFFICES ASSUME LaunchInv, [LaunchNext]_launchVars PROVE LaunchInv'
  OBVIOUS
<1>1. CASE UNCHANGED launchVars
  <2>1. UNCHANGED <<tree, bound, gate, launcher, part, record, gateRoot, blunders, certificate>>
    BY <1>1 DEF launchVars
  <2>2. LaunchersFit'
    BY <2>1, NobodyMoves DEF LaunchInv
  <2> QED
    BY <2>1, <2>2 DEF LaunchInv, LaunchShape, LiveIsBound, RecordFits, RowsFit, Rows, CertificateFits
<1>2. CASE Preregister \/ ReleasePreflight \/ LaunchPreflight \/ Edit \/ Later \/ Audit
  BY <1>2, PapersKeep
<1>3. ASSUME NEW g \in Gates,
             \/ Arm(g) \/ Lock(g) \/ Delegate(g) \/ Direct(g) \/ Conclude(g)
             \/ Attest(g) \/ Quiesce(g) \/ FindRoot(g) \/ Intend(g)
             \/ StartNext(g) \/ Await(g) \/ Announce(g)
             \/ LauncherDies(g) \/ GateDies(g)
      PROVE  LaunchInv'
  BY <1>3, GateKeeps, BeginKeeps, ConcludeKeeps, ChecksKeep, IntendKeeps, StartNextKeeps, AwaitKeeps, AnnounceKeeps
<1>4. ASSUME NEW p \in Parts, Boot(p) \/ Exit(p)
      PROVE  LaunchInv'
  BY <1>4, ComponentKeeps
<1> QED
  BY <1>1, <1>2, <1>3, <1>4 DEF LaunchNext

\* What a launch leaves behind is true: LAUNCHED stands for five components this gate's launcher started
\* and saw live, bound to the contract; NOT_LAUNCHED for nothing of it running, unless its launcher died or
\* its logs were lost; a certificate for one such launch of the frozen tree -- for any number of gates,
\* edits and deaths.
THEOREM LaunchTheorem == LaunchSpec => []LaunchTellsTheTruth
<1>1. LaunchInv => LaunchTellsTheTruth
  <2> SUFFICES ASSUME LaunchInv PROVE LaunchTellsTheTruth
    OBVIOUS
  <2> USE DEF LaunchInv
  <2>1. ASSUME NEW g \in Gates, launcher[g].at = "RUNNING"
        PROVE  /\ \A p \in Parts : StartedBy(g, p) /\ SeenLive(p)
               /\ bound = "frozen" /\ (record = [st |-> "RUNNING", by |-> g] \/ blunders.raced)
    <3>1. LauncherFits(g)
      BY DEF LaunchersFit
    <3>2. /\ launcher[g].n = 5 /\ bound = "frozen" /\ (record = [st |-> "RUNNING", by |-> g] \/ blunders.raced)
          /\ \A i \in 1..launcher[g].n : StartedBy(g, Components[i]) /\ SeenLive(Components[i])
      BY <2>1, <3>1 DEF LauncherFits, Starting
    <3>3. \A i \in 1..5 : StartedBy(g, Components[i]) /\ SeenLive(Components[i])
      BY <3>2
    <3> QED
      BY <3>2, <3>3, ComponentsAre
  <2>2. ASSUME NEW g \in Gates, <<g, "LAUNCHED">> \in Rows
        PROVE  /\ \A p \in Parts : part[p].st # "none" /\ part[p].by = g
               /\ \A p \in Parts \ {"scheduler"} : part[p].on = bound
               /\ record = [st |-> "RUNNING", by |-> g] \/ blunders.raced
    BY <2>1, <2>2 DEF RowsFit, StartedBy, SeenLive
  <2>3. ASSUME NEW g \in Gates, <<g, "NOT_LAUNCHED">> \in Rows
        PROVE  \/ launcher[g].at = "died" \/ g \in blunders.logs
               \/ \A p \in Parts : part[p].st # "none" /\ part[p].by = g => ~Runs(p)
    BY <2>3 DEF RowsFit, LaunchersFit, LauncherFits, StartedBy
  <2>4. ASSUME certificate = "CERTIFIED"
        PROVE  /\ \A p, q \in Parts : part[p].by = part[q].by
               /\ \A p \in Parts \ {"scheduler"} : part[p].on = "frozen"
    <3>1. PICK g \in Gates : launcher[g].at = "RUNNING"
      BY <2>4 DEF CertificateFits
    <3> QED
      BY <2>1, <3>1 DEF StartedBy, SeenLive
  <2> QED
    BY <2>2, <2>3, <2>4 DEF LaunchTellsTheTruth
<1> QED
  BY <1>1, LaunchInitInv, LaunchNextInv, PTL DEF LaunchSpec
---------------------------------------------------------------------------
(* The model gateway.                                                      *)
(*                                                                         *)
(* While a completion runs, its tier was decided for a request that may    *)
(* leave, its candidates are the tier or a permitted fallback, and every   *)
(* turn so far was a rejection by an endpoint that is not pinned.          *)

Queues == {<<>>, <<"public">>, <<"worker">>, <<"reviewer">>, <<"public", "worker">>, <<"worker", "reviewer">>}
Endings == {"rejected", "transport", "answered"}

GatewayShape ==
    /\ admitted \in Configurations
    /\ request \in Requests \cup {NoRequest}
    /\ queue \in Queues
    /\ posts \in 0..(MaxAttempts - 1)
    /\ tried \subseteq Profiles \X Endings
    /\ outcome \in {"idle", "none", "blocked", "abstained", "answered", "raised"}

\* Whoever was asked, or may be asked yet, is of the decided tier or a fallback of it.
RoutesFit ==
    /\ outcome = "none" \/ tried # {} => request \in Requests /\ decision = Decide(request)
                                         /\ decision.tier # "blocked" /\ ~ StillSecret(request)
    /\ outcome = "none" => \A i \in DOMAIN queue : queue[i] \in FallbackTiers(decision.tier)
    /\ \A turn \in tried : /\ turn[1] \in FallbackTiers(decision.tier)
                           /\ turn[1] = "public" => ~ request.tools

\* As long as a completion runs nobody has stopped it.
NobodyStopped == outcome = "none" => \A turn \in tried : turn[2] = "rejected" /\ ~ admitted[turn[1]].pinned

GatewayInv == GatewayShape /\ RoutesFit /\ NobodyStopped /\ CallsAreAccountedFor

\* The candidates of a tier are the tier and its permitted fallback, and so is every tail of them.
LEMMA QueuesAre ==
    /\ \A t \in Tiers : Candidates(t) \in Queues /\ \A i \in DOMAIN Candidates(t) : Candidates(t)[i] \in FallbackTiers(t)
    /\ \A q \in Queues : q # <<>> => /\ Tail(q) \in Queues /\ Head(q) \in Profiles /\ <<Head(q)>> \in Queues
                                     /\ Head(q) = q[1] /\ 1 \in DOMAIN q
                                     /\ \A i \in DOMAIN Tail(q) : i + 1 \in DOMAIN q /\ Tail(q)[i] = q[i + 1]
<1>1. /\ Candidates("public") = <<"public", "worker">> /\ Candidates("worker") = <<"worker", "reviewer">>
      /\ Candidates("reviewer") = <<"reviewer">>
  <2>1. /\ FallbackTo("worker", "public") = <<"worker">> /\ FallbackTo("reviewer", "public") = <<>>
        /\ FallbackTo("public", "public") = <<>>
        /\ FallbackTo("worker", "worker") = <<>> /\ FallbackTo("reviewer", "worker") = <<"reviewer">>
        /\ FallbackTo("public", "worker") = <<>>
        /\ FallbackTo("worker", "reviewer") = <<>> /\ FallbackTo("reviewer", "reviewer") = <<>>
        /\ FallbackTo("public", "reviewer") = <<>>
    BY DEF FallbackTo, FallbackTiers
  <2>2. \A x, y \in Tiers : <<x>> \o <<y>> = <<x, y>> /\ <<x>> \o <<>> = <<x>> /\ <<x, y>> \o <<>> = <<x, y>>
    <3> TAKE x, y \in Tiers
    <3>1. <<x>> \o <<y>> = <<x, y>>
      <4> DEFINE s == <<x>> \o <<y>>
      <4>1. /\ <<x>> \in Seq(Tiers) /\ <<y>> \in Seq(Tiers) /\ <<x, y>> \in Seq(Tiers)
            /\ Len(<<x>>) = 1 /\ Len(<<y>>) = 1 /\ Len(<<x, y>>) = 2
        OBVIOUS
      <4>2. /\ s \in Seq(Tiers) /\ Len(s) = 2
            /\ \A i \in 1..2 : s[i] = IF i <= 1 THEN <<x>>[i] ELSE <<y>>[i - 1]
        BY <4>1, ConcatProperties
      <4> HIDE DEF s
      <4>3. \A i \in 1..Len(s) : s[i] = <<x, y>>[i]
        BY <4>2
      <4>4. s = <<x, y>>
        BY <4>1, <4>2, <4>3, SeqEqual, Zenon
      <4> QED
        BY <4>4 DEF s
    <3>2. <<x>> \o <<>> = <<x>>
      OBVIOUS
    <3>3. <<x, y>> \o <<>> = <<x, y>>
      OBVIOUS
    <3> QED
      BY <3>1, <3>2, <3>3
  <2>3. Candidates("public") = <<"public", "worker">>
    BY <2>1, <2>2 DEF Candidates, Tiers
  <2>4. Candidates("worker") = <<"worker", "reviewer">>
    BY <2>1, <2>2 DEF Candidates, Tiers
  <2>5. Candidates("reviewer") = <<"reviewer">>
    BY <2>1, <2>2 DEF Candidates, Tiers
  <2> QED
    BY <2>3, <2>4, <2>5
<1>2. \A t \in Tiers : Candidates(t) \in Queues /\ \A i \in DOMAIN Candidates(t) : Candidates(t)[i] \in FallbackTiers(t)
  BY <1>1 DEF Tiers, Queues, FallbackTiers
<1>3. \A q \in Queues : q # <<>> => /\ Tail(q) \in Queues /\ Head(q) \in Profiles /\ <<Head(q)>> \in Queues
                                     /\ Head(q) = q[1] /\ 1 \in DOMAIN q
                                     /\ \A i \in DOMAIN Tail(q) : i + 1 \in DOMAIN q /\ Tail(q)[i] = q[i + 1]
  <2> SUFFICES ASSUME NEW q \in Queues, q # <<>>
               PROVE  /\ Tail(q) \in Queues /\ Head(q) \in Profiles /\ <<Head(q)>> \in Queues
                      /\ Head(q) = q[1] /\ 1 \in DOMAIN q
                      /\ \A i \in DOMAIN Tail(q) : i + 1 \in DOMAIN q /\ Tail(q)[i] = q[i + 1]
    BY Zenon
  <2>1. CASE \E x \in Profiles : q = <<x>>
    <3>1. PICK x \in Profiles : q = <<x>>
      BY <2>1
    <3>2. Tail(q) = <<>> /\ Head(q) = x /\ q[1] = x /\ 1 \in DOMAIN q
      BY <3>1
    <3>3. <<x>> \in Queues /\ <<>> \in Queues
      BY DEF Queues, Profiles, Tiers
    <3>4. \A i \in DOMAIN Tail(q) : FALSE
      BY <3>2
    <3> QED
      BY <3>2, <3>3, <3>4
  <2>2. CASE \E x, y \in Profiles : q = <<x, y>>
    <3>1. PICK x \in Profiles, y \in Profiles : q = <<x, y>>
      BY <2>2
    <3>2. Tail(q) = <<y>> /\ Head(q) = x /\ q[1] = x /\ q[2] = y /\ DOMAIN q = 1..2
      BY <3>1
    <3>3. <<x>> \in Queues /\ <<y>> \in Queues
      BY DEF Queues, Profiles, Tiers
    <3>4. \A i \in DOMAIN Tail(q) : i + 1 = 2 /\ Tail(q)[i] = y
      BY <3>2
    <3>5. 1 \in DOMAIN q /\ 2 \in DOMAIN q
      BY <3>2
    <3>6. \A i \in DOMAIN Tail(q) : i + 1 \in DOMAIN q /\ Tail(q)[i] = q[i + 1]
      BY <3>2, <3>4, <3>5
    <3> QED
      BY <3>2, <3>3, <3>5, <3>6
  <2> QED
    BY <2>1, <2>2 DEF Queues, Profiles, Tiers
<1> QED
  BY <1>2, <1>3

\* Every admitted configuration reviews its routes: only private routes are pinned.
LEMMA ConfigurationsAre ==
    ASSUME NEW c \in Configurations
    PROVE  /\ ~ c["public"].pinned
           /\ \A t \in Profiles : ~ c[t].fallbacks /\ (c[t].zdr <=> t # "public")
<1>1. PICK publicClasses, isPinned : c = Reviewed(publicClasses, isPinned)
  BY DEF Configurations
<1>2. \A t, classes, b : /\ Profile(t, classes, b).pinned <=> b
                         /\ ~ Profile(t, classes, b).fallbacks
                         /\ Profile(t, classes, b).zdr <=> t # "public"
  BY Zenon DEF Profile
<1>4. \A t \in Profiles : c[t] = IF t = "public" THEN Profile(t, publicClasses, FALSE)
                                ELSE Profile(t, {"public", "internal", "confidential"}, isPinned)
  BY <1>1 DEF Reviewed
<1>5. ASSUME NEW t \in Profiles
      PROVE  ~ c[t].fallbacks /\ (c[t].zdr <=> t # "public")
  <2>1. PICK classes, b : c[t] = Profile(t, classes, b)
    BY <1>4, Zenon
  <2> QED
    BY <1>2, <2>1, Zenon
<1>6. ~ c["public"].pinned
  <2>1. c["public"] = Profile("public", publicClasses, FALSE)
    BY <1>4 DEF Profiles, Tiers
  <2> QED
    BY <1>2, <2>1, Zenon
<1> QED
  BY <1>5, <1>6

\* Who gets which tier: only public data the public one, a doubtful or portfolio question the reviewer.
LEMMA DecideIs ==
    ASSUME NEW r \in Requests, Decide(r).tier # "blocked"
    PROVE  /\ Decide(r).tier \in Tiers /\ Classified(r) \notin {"unclassified", "secret"}
           /\ Decide(r).tier = "public" => Classified(r) = "public"
           /\ r.doubtful \/ r.task = "private" => Decide(r).tier = "reviewer"
BY DEF Decide, Tiers, Classified, Stronger, Rank, Impact, Requests

\* An idle gateway has asked nobody.
LEMMA GatewayInitInv == GatewayInit => GatewayInv
BY GatewayAssumption DEF GatewayInit, GatewayInv, GatewayShape, RoutesFit, NobodyStopped, CallsAreAccountedFor,
    NoSecondProviderAfterFailure, AnswersAreRecorded, Queues

\* A completion begins with nobody asked and the candidates of its own tier.
LEMMA CompleteKeeps ==
    ASSUME GatewayInv, NEW r \in Requests, Complete(r)
    PROVE  GatewayInv'
<1> USE DEF GatewayInv
<1>1. /\ request' = r /\ decision' = Decide(r) /\ posts' = 0 /\ tried' = {} /\ UNCHANGED admitted
      /\ \/ outcome' = "blocked" /\ queue' = <<>>
         \/ /\ outcome' = "none" /\ queue' = Candidates(Decide(r).tier)
            /\ ~ StillSecret(r) /\ Decide(r).tier # "blocked"
  BY DEF Complete
<1>2. Decide(r).tier # "blocked" => Decide(r).tier \in Tiers
  BY DecideIs
<1>3. GatewayShape'
  BY <1>1, <1>2, QueuesAre, GatewayAssumption DEF GatewayShape, Queues
<1>4. RoutesFit'
  <2>1. CASE outcome' = "blocked"
    BY <1>1, <2>1 DEF RoutesFit
  <2>2. CASE outcome' = "none"
    <3>1. StillSecret(request)' = StillSecret(r)
      BY <1>1 DEF StillSecret
    <3>2. Decide(request)' = Decide(r)
      BY <1>1 DEF Decide, Classified, Impact
    <3> QED
      BY <1>1, <1>2, <2>2, <3>1, <3>2, QueuesAre DEF RoutesFit
  <2> QED
    BY <1>1, <2>1, <2>2
<1>5. NobodyStopped' /\ CallsAreAccountedFor'
  BY <1>1 DEF NobodyStopped, CallsAreAccountedFor, NoSecondProviderAfterFailure, AnswersAreRecorded
<1> QED
  BY <1>3, <1>4, <1>5
\* A candidate passed over, a mode that is not admitted, a busy answer, nobody left to ask.
LEMMA QuietTurnsKeep ==
    ASSUME GatewayInv, PassOver \/ Misalign \/ Repeat429 \/ AbstainWithoutRoute
    PROVE  GatewayInv'
<1> USE DEF GatewayInv
<1>1. /\ UNCHANGED <<admitted, request, decision, tried, attempts, calls, answer>> /\ outcome = "none"
      /\ outcome' \in {"none", "raised", "abstained"}
      /\ queue' = queue \/ (queue # <<>> /\ queue' = Tail(queue))
      /\ posts' = posts \/ (posts' = posts + 1 /\ posts + 1 < MaxAttempts)
  <2>1. CASE PassOver
    BY <2>1 DEF PassOver, Running
  <2>2. CASE Misalign
    BY <2>2 DEF Misalign, Running
  <2>3. CASE Repeat429
    BY <2>3 DEF Repeat429, Sendable, Dispatchable, Running
  <2>4. CASE AbstainWithoutRoute
    BY <2>4 DEF AbstainWithoutRoute
  <2> QED
    BY <2>1, <2>2, <2>3, <2>4
<1>2. GatewayShape'
  <2>1. queue' \in Queues
    BY <1>1, QueuesAre DEF GatewayShape
  <2>2. posts' \in 0..(MaxAttempts - 1)
    BY <1>1, GatewayAssumption DEF GatewayShape
  <2> QED
    BY <1>1, <2>1, <2>2 DEF GatewayShape
<1>3. RoutesFit'
  <2>1. StillSecret(request)' = StillSecret(request) /\ Decide(request)' = Decide(request)
    BY <1>1 DEF StillSecret, Decide, Classified, Impact
  <2>2. \A i \in DOMAIN queue' : queue'[i] \in FallbackTiers(decision.tier)
    BY <1>1, QueuesAre DEF RoutesFit, GatewayShape
  <2> QED
    BY <1>1, <2>1, <2>2 DEF RoutesFit
<1>4. NobodyStopped' /\ NoSecondProviderAfterFailure'
  BY <1>1 DEF NobodyStopped, NoSecondProviderAfterFailure
<1>5. AnswersAreRecorded'
  BY <1>1 DEF AnswersAreRecorded, CallsAreAccountedFor
<1> QED
  BY <1>2, <1>3, <1>4, <1>5 DEF CallsAreAccountedFor

\* A turn that takes place: how it adds to what was tried, whoever stops there.
LEMMA TurnKeeps ==
    ASSUME GatewayInv, outcome = "none", NEW t \in Profiles, t \in FallbackTiers(decision.tier), t = "public" => ~ request.tools,
           NEW e \in Endings, tried' = tried \cup {<<t, e>>}, UNCHANGED <<admitted, request, decision>>,
           outcome' = "none" => e = "rejected" /\ ~ admitted[t].pinned
    PROVE  /\ tried' \subseteq Profiles \X Endings
           /\ \A turn \in tried' : /\ turn[1] \in FallbackTiers(decision'.tier)
                                   /\ turn[1] = "public" => ~ request'.tools
           /\ NobodyStopped' /\ NoSecondProviderAfterFailure'
<1> USE DEF GatewayInv
<1>1. \A turn \in tried : turn[2] = "rejected" /\ ~ admitted[turn[1]].pinned
  BY DEF NobodyStopped
<1>2. <<t, e>> \in Profiles \X Endings /\ <<t, e>>[1] = t /\ <<t, e>>[2] = e
  OBVIOUS
<1>3. tried' \subseteq Profiles \X Endings
  BY <1>2 DEF GatewayShape
<1>4. \A turn \in tried' : /\ turn[1] \in FallbackTiers(decision'.tier)
                           /\ turn[1] = "public" => ~ request'.tools
  BY <1>2 DEF RoutesFit
<1>5. NobodyStopped'
  BY <1>1, <1>2 DEF NobodyStopped
<1>6. NoSecondProviderAfterFailure'
  <2> SUFFICES ASSUME NEW turn \in tried', turn[2] = "transport" \/ (admitted[turn[1]].pinned /\ turn[1] # "public")
               PROVE  /\ \A other \in tried' : other[1] # turn[1] => other[2] = "rejected" /\ ~ admitted[other[1]].pinned
                      /\ outcome' # "none"
    BY DEF NoSecondProviderAfterFailure
  <2>1. turn = <<t, e>>
    BY <1>1
  <2>2. ~ (e = "rejected" /\ ~ admitted[t].pinned)
    BY <1>2, <2>1
  <2>3. \A other \in tried' : other[1] # turn[1] => other \in tried
    BY <1>2, <2>1
  <2> QED
    BY <1>1, <2>2, <2>3
<1> QED
  BY <1>3, <1>4, <1>5, <1>6

\* The one that is asked is a candidate, and no tools go to the public tier.
LEMMA CurrentIs ==
    ASSUME GatewayInv, Dispatchable
    PROVE  /\ outcome = "none" /\ queue \in Queues /\ Current \in Profiles /\ Current \in FallbackTiers(decision.tier)
           /\ Current = "public" => ~ request.tools
           /\ Tail(queue) \in Queues /\ <<Current>> \in Queues
           /\ \A i \in DOMAIN Tail(queue) : Tail(queue)[i] \in FallbackTiers(decision.tier)
<1>1. outcome = "none" /\ queue \in Queues /\ queue # <<>>
  BY DEF GatewayInv, GatewayShape, Dispatchable, Running
<1>2. /\ Tail(queue) \in Queues /\ Current \in Profiles /\ <<Current>> \in Queues /\ Current = queue[1] /\ 1 \in DOMAIN queue
      /\ \A i \in DOMAIN Tail(queue) : i + 1 \in DOMAIN queue /\ Tail(queue)[i] = queue[i + 1]
  BY <1>1, QueuesAre DEF Current
<1>3. \A i \in DOMAIN queue : queue[i] \in FallbackTiers(decision.tier)
  BY <1>1 DEF GatewayInv, RoutesFit
<1>4. Current = "public" => ~ request.tools
  BY DEF Dispatchable, Eligible, ToolsAllowed
<1> QED
  BY <1>1, <1>2, <1>3, <1>4

\* A turn that fails is recorded, and either ends the completion or was a rejection.
LEMMA FailedKeeps ==
    ASSUME GatewayInv, Dispatchable, NEW transport \in BOOLEAN, NEW keys, NEW clash \in BOOLEAN, Failed(transport, keys, clash)
    PROVE  GatewayInv'
<1> USE DEF GatewayInv
<1>1. PICK t \in Profiles : /\ t = Current /\ t \in FallbackTiers(decision.tier) /\ (t = "public" => ~ request.tools)
  BY CurrentIs
<1>2. PICK e \in {"transport", "rejected"} : tried' = tried \cup {<<t, e>>} /\ (e = "rejected" <=> ~ transport)
  <2>1. CASE transport
    BY <1>1, <2>1, Zenon DEF Failed, Turn
  <2>2. CASE ~ transport
    BY <1>1, <2>2, Zenon DEF Failed, Turn
  <2> QED
    BY <2>1, <2>2
<1>3. /\ UNCHANGED <<admitted, request, decision, answer>> /\ attempts' = attempts \cup {t} /\ posts' = 0
      /\ outcome' \in {"none", "raised", "abstained"}
      /\ queue' \in {queue, <<>>, Tail(queue)}
      /\ outcome' = "none" => ~ StopsHere(transport) /\ queue' = Tail(queue)
  BY <1>1 DEF Failed
<1>4. outcome' = "none" => e = "rejected" /\ ~ admitted[t].pinned
  <2>1. ~ admitted["public"].pinned
    BY ConfigurationsAre DEF GatewayShape
  <2> QED
    BY <1>1, <1>2, <1>3, <2>1 DEF StopsHere
<1>5. /\ tried' \subseteq Profiles \X Endings
      /\ \A turn \in tried' : /\ turn[1] \in FallbackTiers(decision'.tier)
                              /\ turn[1] = "public" => ~ request'.tools
      /\ NobodyStopped' /\ NoSecondProviderAfterFailure'
  <2>1. e \in Endings /\ outcome = "none"
    BY CurrentIs DEF Endings
  <2> QED
    BY <1>1, <1>2, <1>3, <1>4, <2>1, TurnKeeps
<1>6. GatewayShape'
  <2>1. queue' \in Queues
    <3>1. <<>> \in Queues /\ queue \in Queues /\ Tail(queue) \in Queues
      BY CurrentIs DEF Queues
    <3> QED
      BY <1>3, <3>1
  <2>2. posts' \in 0..(MaxAttempts - 1)
    BY <1>3, GatewayAssumption
  <2> QED
    BY <1>3, <1>5, <2>1, <2>2 DEF GatewayShape
<1>7. RoutesFit'
  <2>1. StillSecret(request)' = StillSecret(request) /\ Decide(request)' = Decide(request)
    BY <1>3 DEF StillSecret, Decide, Classified, Impact
  <2>2. outcome = "none"
    BY CurrentIs
  <2>3. outcome' = "none" => \A i \in DOMAIN queue' : queue'[i] \in FallbackTiers(decision'.tier)
    BY <1>3, CurrentIs
  <2> QED
    BY <1>3, <1>5, <2>1, <2>2, <2>3 DEF RoutesFit
<1>8. AnswersAreRecorded'
  <2>1. \A turn \in tried' : turn[1] \in attempts'
    BY <1>2, <1>3 DEF AnswersAreRecorded, CallsAreAccountedFor
  <2> QED
    BY <1>3, <2>1 DEF AnswersAreRecorded
<1> QED
  BY <1>5, <1>6, <1>7, <1>8 DEF CallsAreAccountedFor

\* An answer is recorded with its call before it is handed out; one that is refused is a failed turn.
LEMMA RespondsKeeps ==
    ASSUME GatewayInv, NEW a \in Answers, NEW clash \in BOOLEAN, Responds(a, clash)
    PROVE  GatewayInv'
<1> USE DEF GatewayInv
<1>0. Dispatchable
  BY DEF Responds, Sendable
<1>1. PICK t \in Profiles : /\ t = Current /\ t \in FallbackTiers(decision.tier) /\ (t = "public" => ~ request.tools)
  BY <1>0, CurrentIs
<1>2. ASSUME NEW transport \in BOOLEAN, NEW keys, NEW again \in BOOLEAN, Failed(transport, keys, again)
      PROVE  GatewayInv'
  BY <1>0, <1>2, FailedKeeps
<1>3. CASE /\ Parses(request, Current, a) /\ RouteAccepts(a) /\ OutputAccepts(Current, a)
           /\ Turn("answered") /\ attempts' = attempts \cup {Current} /\ calls' = calls \cup Keys(TRUE)
           /\ outcome' = "answered" /\ posts' = 0 /\ queue' = <<Current>> /\ answer' = a
           /\ UNCHANGED <<admitted, request, decision, round>>
  <2>1. /\ tried' \subseteq Profiles \X Endings
        /\ \A turn \in tried' : /\ turn[1] \in FallbackTiers(decision'.tier)
                                /\ turn[1] = "public" => ~ request'.tools
        /\ NobodyStopped' /\ NoSecondProviderAfterFailure'
    <3>1. tried' = tried \cup {<<t, "answered">>} /\ "answered" \in Endings
      BY <1>1, <1>3 DEF Turn, Endings
    <3>2. outcome = "none"
      BY <1>0, CurrentIs
    <3> QED
      BY <1>1, <1>3, <3>1, <3>2, TurnKeeps
  <2>2. GatewayShape'
    <3>1. queue' \in Queues
      BY <1>0, <1>3, CurrentIs
    <3>2. posts' \in 0..(MaxAttempts - 1)
      BY <1>3, GatewayAssumption
    <3> QED
      BY <1>3, <2>1, <3>1, <3>2 DEF GatewayShape
  <2>3. RoutesFit'
    <3>1. StillSecret(request)' = StillSecret(request) /\ Decide(request)' = Decide(request)
      BY <1>3 DEF StillSecret, Decide, Classified, Impact
    <3>2. outcome = "none"
      BY <1>0, CurrentIs
    <3> QED
      BY <1>3, <2>1, <3>1, <3>2 DEF RoutesFit
  <2>4. <<t, posts + 1, TRUE>> \in calls' /\ posts + 1 \in 1..MaxAttempts
    <3>1. posts + 1 \in 1..(posts + 1) /\ posts + 1 \in 1..MaxAttempts
      BY GatewayAssumption DEF GatewayShape
    <3>2. (TRUE /\ posts + 1 = posts + 1) = TRUE
      OBVIOUS
    <3>3. <<t, posts + 1, TRUE /\ posts + 1 = posts + 1>> \in Keys(TRUE)
      BY <1>1, <3>1 DEF Keys
    <3> QED
      BY <1>3, <3>1, <3>2, <3>3
  <2>5. Current' = t
    BY <1>1, <1>3 DEF Current
  <2>6. \A turn \in tried' : turn[1] \in attempts'
    BY <1>1, <1>3 DEF AnswersAreRecorded, CallsAreAccountedFor, Turn
  <2>7. answer'.endpoint = "reviewed" /\ answer'.cost = "within" /\ answer'.body = (IF request'.tools THEN "tool" ELSE "typed")
    <3>1. a.endpoint = "reviewed" /\ a.cost = "within"
      BY <1>3 DEF Parses, RouteAccepts, Answers
    <3>2. a.body = (IF request.tools THEN "tool" ELSE "typed")
      BY <1>3 DEF Parses, OutputAccepts
    <3> QED
      BY <1>3, <3>1, <3>2
  <2>8. AnswersAreRecorded'
    BY <2>4, <2>5, <2>6, <2>7 DEF AnswersAreRecorded
  <2> QED
    BY <2>1, <2>2, <2>3, <2>8 DEF CallsAreAccountedFor
<1>4. CASE ~ Parses(request, Current, a)
  BY <1>2, <1>4 DEF Responds
<1>5. CASE Parses(request, Current, a) /\ ~ (RouteAccepts(a) /\ OutputAccepts(Current, a))
  BY <1>2, <1>5 DEF Responds
<1>6. CASE /\ Parses(request, Current, a) /\ RouteAccepts(a) /\ OutputAccepts(Current, a)
           /\ \E again \in BOOLEAN : Failed(FALSE, OneKey, again)
  BY <1>2, <1>6
<1> QED
  BY <1>3, <1>4, <1>5, <1>6 DEF Responds

\* A prompt reaches only tiers that may see it, one provider once one has failed or is pinned, and an answer
\* is handed out with its row, from the reviewed endpoint: for every number of attempts and of rounds.
THEOREM PromptsTheorem == GatewaySpec => []PromptsAreAccountedFor
<1>1. GatewayInv /\ [GatewayNext]_gatewayVars => GatewayInv'
  <2> SUFFICES ASSUME GatewayInv, [GatewayNext]_gatewayVars PROVE GatewayInv'
    OBVIOUS
  <2>1. CASE UNCHANGED gatewayVars
    <3>1. UNCHANGED <<admitted, request, decision, queue, posts, tried, attempts, calls, answer, outcome>>
      BY <2>1 DEF gatewayVars
    <3>2. GatewayShape'
      BY <3>1 DEF GatewayInv, GatewayShape
    <3>3. RoutesFit'
      BY <3>1 DEF GatewayInv, RoutesFit, StillSecret, Decide, Classified, Impact
    <3>4. NobodyStopped' /\ NoSecondProviderAfterFailure'
      BY <3>1 DEF GatewayInv, NobodyStopped, CallsAreAccountedFor, NoSecondProviderAfterFailure
    <3>5. AnswersAreRecorded'
      BY <3>1 DEF GatewayInv, CallsAreAccountedFor, AnswersAreRecorded, Current
    <3> QED
      BY <3>2, <3>3, <3>4, <3>5 DEF GatewayInv, CallsAreAccountedFor
  <2>2. ASSUME NEW r \in Requests, Complete(r) PROVE GatewayInv'
    BY <2>2, CompleteKeeps
  <2>3. CASE PassOver \/ Misalign \/ Repeat429 \/ AbstainWithoutRoute
    BY <2>3, QuietTurnsKeep
  <2>4. ASSUME NEW clash \in BOOLEAN, NotSent(clash) \/ Lost(clash) PROVE GatewayInv'
    <3>1. Dispatchable /\ (Failed(TRUE, OneKey, clash) \/ Failed(TRUE, Keys(FALSE), clash))
      BY <2>4 DEF NotSent, Lost, Sendable
    <3> QED
      BY <3>1, FailedKeeps
  <2>5. ASSUME NEW clash \in BOOLEAN, NEW a \in Answers, Responds(a, clash) PROVE GatewayInv'
    BY <2>5, RespondsKeeps
  <2> QED
    BY <2>1, <2>2, <2>3, <2>4, <2>5 DEF GatewayNext
<1>2. GatewayInv => PromptsAreAccountedFor
  <2> SUFFICES ASSUME GatewayInv PROVE SensitiveStaysPrivate
    BY DEF GatewayInv, PromptsAreAccountedFor
  <2> SUFFICES ASSUME NEW turn \in tried
               PROVE  /\ ~ StillSecret(request) /\ Classified(request) \notin {"unclassified", "secret"}
                      /\ turn[1] = "public" => Classified(request) = "public" /\ ~ request.tools
                      /\ request.doubtful \/ request.task = "private" => turn[1] = "reviewer"
    BY DEF SensitiveStaysPrivate
  <2>1. /\ request \in Requests /\ decision = Decide(request) /\ decision.tier # "blocked" /\ ~ StillSecret(request)
        /\ turn[1] \in FallbackTiers(decision.tier) /\ (turn[1] = "public" => ~ request.tools)
    BY DEF GatewayInv, RoutesFit
  <2>2. /\ decision.tier \in Tiers /\ Classified(request) \notin {"unclassified", "secret"}
        /\ decision.tier = "public" => Classified(request) = "public"
        /\ request.doubtful \/ request.task = "private" => decision.tier = "reviewer"
    BY <2>1, DecideIs
  <2>3. /\ turn[1] = "public" => decision.tier = "public"
        /\ decision.tier = "reviewer" => turn[1] = "reviewer"
    BY <2>1, <2>2 DEF FallbackTiers, Tiers
  <2> QED
    BY <2>1, <2>2, <2>3
<1> QED
  BY <1>1, <1>2, GatewayInitInv, PTL DEF GatewaySpec

---------------------------------------------------------------------------
(* Admission: the gates, the model inventory and the live control plane.   *)
(* (Init, Next and Spec are Admission's here.)                             *)
(*                                                                         *)
(* LedgersReplay for every number of phases, every set of authorizations   *)
(* and of expiry instants and every length of the logs.  The gates' memory *)
(* is the projection of their rows and the plane's that of its own, until  *)
(* an append that raised leaves memory ahead.  A row is judged against     *)
(* memory when it is written and against the rows before it when it is     *)
(* replayed: the two agree because each append changes both the memory and *)
(* its projection in the same way.                                         *)

ModelRows ==
    [type : {"model_registered", "model_promoted", "model_disabled"},
     state : Range(Lifecycle) \cup {"active_read", "retired"}]
LiveRows ==
    {Auth(a) : a \in Auths} \cup {State(s, a) : s \in LiveStates, a \in Auths \cup {"none"}}
Models == [state : Range(Lifecycle) \cup {"none", "active_read", "retired"}, disabled : BOOLEAN]
Planes == [authorization : Auths \cup {"none"}, status : LiveStates, auth : Auths \cup {"none"}]

AdmissionTypes ==
    /\ now \in Nat /\ failures \in Nat /\ lost \subseteq {"gates", "live"}
    /\ gateLog \in Seq(GateRecords) /\ records \in [Phases -> GateRecords \cup {NoRecord}]
    /\ modelLog \in Seq(ModelRows) /\ model \in Models
    /\ liveLog \in Seq(LiveRows) /\ live \in Planes
    /\ proc \in {"up", "refused"}

\* Memory is ahead of a ledger only after an append that raised.
NothingLost == failures = 0 => lost = {}

\* record_authorization takes one authorization and never another: what the
\* log names is what memory holds, and all rows name the same.
OneAuthorization ==
    /\ \A i, j \in RowsOfType(liveLog, "authorization") : liveLog[i].auth = liveLog[j].auth
    /\ proc = "up" => \A i \in RowsOfType(liveLog, "authorization") : liveLog[i].auth = live.authorization

\* Readiness was evaluated for the authorization that is recorded.
ReadyIsAuthorized ==
    live.status \in {"ready", "active"} =>
        live.authorization # "none" /\ live.auth = live.authorization

AdmissionInv ==
    /\ AdmissionTypes /\ NothingLost /\ OneAuthorization /\ ReadyIsAuthorized
    /\ PassesFollowAllEarlierPhases /\ MemoryMatchesLedger /\ LiveLedgerReplays

---------------------------------------------------------------------------
(* The projections *)

\* Before any record every phase is without one.
LEMMA ProjectEmpty == Project(<<>>) = [p \in Phases |-> NoRecord]
BY DEF Project, RowsOf

\* A projection gives every phase a gate record, or none.
LEMMA ProjectType ==
    ASSUME NEW hist \in Seq(GateRecords)
    PROVE  Project(hist) \in [Phases -> GateRecords \cup {NoRecord}]
<1> SUFFICES ASSUME NEW p \in Phases, RowsOf(hist, p) # {}
             PROVE  hist[Max(RowsOf(hist, p))] \in GateRecords
  BY DEF Project
<1>1. Len(hist) \in Nat /\ DOMAIN hist = 1..Len(hist) /\ RowsOf(hist, p) \in SUBSET (1..Len(hist))
  BY DEF RowsOf
<1>2. Max(RowsOf(hist, p)) \in DOMAIN hist
  BY <1>1, LatestRow
<1> QED
  BY <1>2

\* A row replaces the record of its phase, in the projection as in memory.
LEMMA ProjectAppend ==
    ASSUME NEW hist \in Seq(GateRecords), NEW r \in GateRecords
    PROVE  Project(Append(hist, r)) = [Project(hist) EXCEPT ![r.phase] = r]
<1> DEFINE new == Append(hist, r)
           n == Len(hist)
<1> SUFFICES ASSUME NEW p \in Phases
             PROVE  Project(new)[p] = IF p = r.phase THEN r ELSE Project(hist)[p]
  BY DEF Project
<1>1. /\ n \in Nat /\ DOMAIN hist = 1..n /\ DOMAIN new = 1..n \cup {n + 1} /\ n + 1 \notin 1..n
      /\ new[n + 1] = r /\ \A i \in 1..n : new[i] = hist[i]
  BY AppendedLog
<1> HIDE DEF new, n
<1>2. RowsOf(hist, p) \in SUBSET (1..n)
  BY <1>1 DEF RowsOf
<1>3. /\ Max(RowsOf(hist, p) \cup {n + 1}) = n + 1
      /\ RowsOf(hist, p) # {} => Max(RowsOf(hist, p)) \in 1..n
  BY <1>1, <1>2, LatestRow
<1>4. CASE p = r.phase
  <2>1. RowsOf(new, p) = RowsOf(hist, p) \cup {n + 1}
    BY <1>1, <1>4 DEF RowsOf
  <2> QED
    BY <1>1, <1>3, <1>4, <2>1 DEF Project
<1>5. CASE p # r.phase
  <2>1. RowsOf(new, p) = RowsOf(hist, p)
    BY <1>1, <1>5 DEF RowsOf
  <2> QED
    BY <1>1, <1>3, <1>5, <2>1 DEF Project
<1> QED
  BY <1>4, <1>5

\* A row of the live ledger is an authorization or a change of state, and its fields say which.
LEMMA LiveRowFields ==
    ASSUME NEW row \in LiveRows
    PROVE  \/ /\ row.type = "authorization" /\ row.auth \in Auths /\ row.state = "none"
              /\ row = Auth(row.auth)
           \/ /\ row.type = "state" /\ row.auth \in Auths \cup {"none"} /\ row.state \in LiveStates
BY DEF LiveRows, Auth, State

\* An empty ledger replays to paper.
LEMMA LiveStateEmpty == LiveState(<<>>) = Paper
BY DEF LiveState, RowsOfType, Paper

\* The rows of a type after an append of one of that type, and of another.
LEMMA RowsOfOwnType ==
    ASSUME NEW hist \in Seq(LiveRows), NEW row \in LiveRows, NEW type, row.type = type
    PROVE  /\ RowsOfType(Append(hist, row), type) # {}
           /\ Append(hist, row)[Max(RowsOfType(Append(hist, row), type))] = row
<1> DEFINE n == Len(hist)
           new == Append(hist, row)
<1>1. /\ n \in Nat /\ DOMAIN hist = 1..n /\ DOMAIN new = 1..n \cup {n + 1} /\ n + 1 \notin 1..n
      /\ new[n + 1] = row /\ \A i \in 1..n : new[i] = hist[i]
  BY AppendedLog
<1> HIDE DEF n, new
<1>2. RowsOfType(hist, type) \in SUBSET (1..n)
  BY <1>1 DEF RowsOfType
<1>3. Max(RowsOfType(hist, type) \cup {n + 1}) = n + 1
  BY <1>1, <1>2, LatestRow
<1>4. RowsOfType(new, type) = RowsOfType(hist, type) \cup {n + 1}
  BY <1>1 DEF RowsOfType
<1>5. RowsOfType(new, type) # {} /\ new[Max(RowsOfType(new, type))] = row
  BY <1>1, <1>3, <1>4
<1> QED
  BY <1>5 DEF new

\* A row appended leaves the rows of every other type, and their latest, as they were.
LEMMA RowsOfOtherType ==
    ASSUME NEW hist \in Seq(LiveRows), NEW row \in LiveRows, NEW type, row.type # type
    PROVE  /\ RowsOfType(Append(hist, row), type) = RowsOfType(hist, type)
           /\ RowsOfType(hist, type) # {} =>
                 Append(hist, row)[Max(RowsOfType(hist, type))] = hist[Max(RowsOfType(hist, type))]
<1> DEFINE n == Len(hist)
           new == Append(hist, row)
           rows == RowsOfType(hist, type)
<1>1. /\ n \in Nat /\ DOMAIN hist = 1..n /\ DOMAIN new = 1..n \cup {n + 1} /\ n + 1 \notin 1..n
      /\ new[n + 1] = row /\ \A i \in 1..n : new[i] = hist[i]
  BY AppendedLog
<1>2. rows \in SUBSET (1..n)
  BY <1>1 DEF RowsOfType
<1> HIDE DEF n, new, rows
<1>3. rows # {} => Max(rows) \in 1..n
  BY <1>1, <1>2, LatestRow
<1>4. RowsOfType(new, type) = rows
  BY <1>1 DEF RowsOfType, rows
<1>5. RowsOfType(new, type) = rows /\ (rows # {} => new[Max(rows)] = hist[Max(rows)])
  BY <1>1, <1>3, <1>4
<1> QED
  BY <1>5 DEF new, rows

\* A state row changes the replayed state and the authorization it used, and no authorization.
LEMMA LiveStateAppendState ==
    ASSUME NEW hist \in Seq(LiveRows), NEW s \in LiveStates, NEW a \in Auths \cup {"none"}
    PROVE  LiveState(Append(hist, State(s, a))) =
              [authorization |-> LiveState(hist).authorization, status |-> s, auth |-> a]
<1> DEFINE row == State(s, a)
           new == Append(hist, row)
           auths == RowsOfType(hist, "authorization")
           states == RowsOfType(hist, "state")
<1>1. row \in LiveRows /\ row.type = "state" /\ row.type # "authorization"
      /\ row.state = s /\ row.auth = a
  BY DEF LiveRows, State
<1> HIDE DEF row
<1>2. /\ RowsOfType(new, "state") # {}
      /\ new[Max(RowsOfType(new, "state"))] = row
  BY <1>1, RowsOfOwnType, Zenon
<1>3. /\ RowsOfType(new, "authorization") = auths
      /\ auths # {} => new[Max(auths)] = hist[Max(auths)]
  BY <1>1, RowsOfOtherType, Zenon
<1> HIDE DEF new
<1>4. LiveState(new) = [authorization |-> LiveState(hist).authorization, status |-> s, auth |-> a]
  BY <1>1, <1>2, <1>3 DEF LiveState
<1> QED
  BY <1>4 DEF row, new

\* An authorization row changes the replayed authorization, and no state.
LEMMA LiveStateAppendAuth ==
    ASSUME NEW hist \in Seq(LiveRows), NEW a \in Auths
    PROVE  LiveState(Append(hist, Auth(a))) =
              [authorization |-> a, status |-> LiveState(hist).status, auth |-> LiveState(hist).auth]
<1> DEFINE row == Auth(a)
           new == Append(hist, row)
           auths == RowsOfType(hist, "authorization")
           states == RowsOfType(hist, "state")
<1>1. row \in LiveRows /\ row.type = "authorization" /\ row.type # "state" /\ row.auth = a
  BY DEF LiveRows, Auth
<1> HIDE DEF row
<1>2. /\ RowsOfType(new, "authorization") # {}
      /\ new[Max(RowsOfType(new, "authorization"))] = row
  BY <1>1, RowsOfOwnType, Zenon
<1>3. /\ RowsOfType(new, "state") = states
      /\ states # {} => new[Max(states)] = hist[Max(states)]
  BY <1>1, RowsOfOtherType, Zenon
<1> HIDE DEF new
<1>4. LiveState(new) =
         [authorization |-> a, status |-> LiveState(hist).status, auth |-> LiveState(hist).auth]
  BY <1>1, <1>2, <1>3 DEF LiveState
<1> QED
  BY <1>4 DEF row, new

\* Every live ledger replays to a state of the plane.
LEMMA LiveStateType ==
    ASSUME NEW hist \in Seq(LiveRows)
    PROVE  LiveState(hist) \in Planes
<1> DEFINE auths == RowsOfType(hist, "authorization")
           states == RowsOfType(hist, "state")
<1>1. auths # {} => Max(auths) \in DOMAIN hist /\ hist[Max(auths)].auth \in Auths
  <2>1. Len(hist) \in Nat /\ DOMAIN hist = 1..Len(hist) /\ auths \in SUBSET (1..Len(hist))
    BY DEF RowsOfType
  <2>2. auths # {} => Max(auths) \in auths /\ Max(auths) \in DOMAIN hist
    BY <2>1, LatestRow
  <2> QED
    BY <2>2, LiveRowFields DEF RowsOfType
<1>2. states # {} => hist[Max(states)].auth \in Auths \cup {"none"} /\ hist[Max(states)].state \in LiveStates
  <2>1. Len(hist) \in Nat /\ DOMAIN hist = 1..Len(hist) /\ states \in SUBSET (1..Len(hist))
    BY DEF RowsOfType
  <2>2. states # {} => Max(states) \in states /\ Max(states) \in DOMAIN hist
    BY <2>1, LatestRow
  <2> QED
    BY <2>2, LiveRowFields DEF RowsOfType
<1> HIDE DEF auths, states
<1> QED
  BY <1>1, <1>2 DEF LiveState, Planes, LiveStates, auths, states

\* The replay of the model ledger is its last row.
LEMMA ModelStateAppend ==
    ASSUME NEW hist \in Seq(ModelRows), NEW row \in ModelRows
    PROVE  ModelState(Append(hist, row)) = [state |-> row.state, disabled |-> row.type = "model_disabled"]
<1>1. Append(hist, row) # <<>> /\ Last(Append(hist, row)) = row
  BY DEF Last
<1> QED
  BY <1>1 DEF ModelState

\* Every model ledger replays to a state of the inventory.
LEMMA ModelStateType ==
    ASSUME NEW hist \in Seq(ModelRows)
    PROVE  ModelState(hist) \in Models
<1>1. hist # <<>> => Last(hist) \in ModelRows
  BY DEF Last
<1>2. NoModel \in Models
  BY DEF NoModel, Models
<1>3. \A row \in ModelRows : [state |-> row.state, disabled |-> row.type = "model_disabled"] \in Models
  BY DEF ModelRows, Models
<1> QED
  BY <1>1, <1>2, <1>3 DEF ModelState
---------------------------------------------------------------------------
(* Frames: what a step leaves alone *)

\* Steps that leave the gate ledger alone keep what is known of its passes.
LEMMA GatesUntouched ==
    ASSUME AdmissionInv, UNCHANGED gates, failures' \in {failures, failures + 1}
    PROVE  PassesFollowAllEarlierPhases'
<1>1. failures' = 0 => failures = 0
  BY DEF AdmissionInv, AdmissionTypes
<1> QED
  BY <1>1 DEF AdmissionInv, PassesFollowAllEarlierPhases, gates

\* Steps that leave the live plane and its processes alone keep what is known of them.
LEMMA PlaneUntouched ==
    ASSUME AdmissionInv, UNCHANGED <<plane, proc>>, failures' \in {failures, failures + 1}
    PROVE  LiveLedgerReplays' /\ OneAuthorization' /\ ReadyIsAuthorized'
<1>1. failures' = 0 => failures = 0
  BY DEF AdmissionInv, AdmissionTypes
<1>2. LiveLedgerReplays'
  BY <1>1 DEF AdmissionInv, LiveLedgerReplays, plane
<1>3. OneAuthorization' /\ ReadyIsAuthorized'
  BY DEF AdmissionInv, OneAuthorization, ReadyIsAuthorized, plane
<1> QED
  BY <1>2, <1>3

\* What an append that returns or raises does besides its row.
LEMMA WrittenEffects ==
    ASSUME AdmissionInv, NEW hist, NEW log2, NEW row, NEW component \in {"gates", "live"},
           \/ log2 = Append(hist, row) /\ UNCHANGED <<failures, lost>>
           \/ /\ failures < MaxFailures /\ failures' = failures + 1
              /\ lost' = lost \cup {component} /\ log2 = hist
    PROVE  /\ failures' \in Nat /\ lost' \subseteq {"gates", "live"}
           /\ failures' \in {failures, failures + 1} /\ NothingLost'
           /\ lost \subseteq lost'
           /\ \/ log2 = Append(hist, row) /\ failures' = failures /\ lost' = lost
              \/ log2 = hist /\ failures' # 0 /\ component \in lost'
<1>1. failures \in Nat /\ lost \subseteq {"gates", "live"} /\ (failures = 0 => lost = {})
  BY DEF AdmissionInv, AdmissionTypes, NothingLost
<1>2. CASE log2 = Append(hist, row) /\ UNCHANGED <<failures, lost>>
  BY <1>1, <1>2 DEF NothingLost
<1>3. CASE failures' = failures + 1 /\ lost' = lost \cup {component} /\ log2 = hist
  BY <1>1, <1>3 DEF NothingLost
<1> QED
  BY <1>2, <1>3

---------------------------------------------------------------------------
(* The phase gates *)

\* A pass that is written follows passes in the ledger, because memory is the
\* projection of the rows before it.
LEMMA RecordGateStep ==
    ASSUME AdmissionInv, RecordGate
    PROVE  AdmissionInv'
<1>1. PICK r \in GateRecords :
         /\ Acceptable(records, r, now)
         /\ records' = [records EXCEPT ![r.phase] = r]
         /\ Written(gateLog, r, "gates")
  BY DEF RecordGate
<1>2. proc = "up" /\ UNCHANGED <<now, models, plane, proc>>
  BY DEF RecordGate
<1>3. /\ failures' \in Nat /\ lost' \subseteq {"gates", "live"}
      /\ failures' \in {failures, failures + 1} /\ NothingLost'
      /\ lost \subseteq lost'
      /\ \/ gateLog' = Append(gateLog, r) /\ failures' = failures /\ lost' = lost
         \/ gateLog' = gateLog /\ failures' # 0 /\ "gates" \in lost'
  BY <1>1, WrittenEffects, Zenon DEF Written
<1>4. r.phase \in Phases
  BY DEF GateRecords
<1>5. AdmissionTypes'
  <2>1. gateLog \in Seq(GateRecords)
    BY DEF AdmissionInv, AdmissionTypes
  <2>2. Append(gateLog, r) \in Seq(GateRecords)
    BY <2>1, AppendedLog, Zenon
  <2>3. gateLog' \in Seq(GateRecords)
    BY <1>3, <2>1, <2>2
  <2>4. records' \in [Phases -> GateRecords \cup {NoRecord}]
    BY <1>1, <1>4 DEF AdmissionInv, AdmissionTypes
  <2> QED
    BY <1>2, <1>3, <2>3, <2>4 DEF AdmissionInv, AdmissionTypes, models, plane
<1>6. MemoryMatchesLedger'
  <2>1. ASSUME "gates" \notin lost'
        PROVE  records' = Project(gateLog')
    <3>1. gateLog' = Append(gateLog, r) /\ records = Project(gateLog)
      BY <1>2, <1>3, <2>1 DEF AdmissionInv, MemoryMatchesLedger
    <3>2. Project(Append(gateLog, r)) = [Project(gateLog) EXCEPT ![r.phase] = r]
      BY ProjectAppend DEF AdmissionInv, AdmissionTypes
    <3> QED
      BY <1>1, <3>1, <3>2
  <2> QED
    BY <1>2, <1>3, <2>1 DEF AdmissionInv, MemoryMatchesLedger, models, plane
<1>7. PassesFollowAllEarlierPhases'
  <2> SUFFICES ASSUME failures' = 0, NEW i \in DOMAIN gateLog', gateLog'[i].decision = "passed",
                      NEW p \in 0..(gateLog'[i].phase - 1)
               PROVE  Project(SubSeq(gateLog', 1, i - 1))[p].decision = "passed"
    BY DEF PassesFollowAllEarlierPhases
  <2>1. gateLog' = Append(gateLog, r) /\ failures = 0 /\ lost = {}
    BY <1>3 DEF AdmissionInv, AdmissionTypes, NothingLost
  <2>2. /\ gateLog \in Seq(GateRecords) /\ Len(gateLog) \in Nat /\ DOMAIN gateLog = 1..Len(gateLog)
        /\ DOMAIN gateLog' = DOMAIN gateLog \cup {Len(gateLog) + 1}
        /\ gateLog'[Len(gateLog) + 1] = r /\ \A k \in DOMAIN gateLog : gateLog'[k] = gateLog[k]
    BY <2>1, AppendedLog DEF AdmissionInv, AdmissionTypes
  <2>3. SubSeq(gateLog', 1, i - 1) = SubSeq(gateLog, 1, i - 1)
    <3>1. i \in 1..(Len(gateLog) + 1)
      BY <2>2
    <3> QED
      BY <2>1, <2>2, <3>1, EarlierLog
  <2>4. CASE i \in DOMAIN gateLog
    BY <2>1, <2>2, <2>3, <2>4 DEF AdmissionInv, PassesFollowAllEarlierPhases
  <2>5. CASE i = Len(gateLog) + 1
    <3>1. SubSeq(gateLog', 1, i - 1) = gateLog
      BY <2>2, <2>3, <2>5, WholeLog
    <3>2. records = Project(gateLog)
      BY <1>2, <2>1 DEF AdmissionInv, MemoryMatchesLedger
    <3>3. gateLog'[i] = r /\ r.decision = "passed" /\ p \in 0..(r.phase - 1) /\ r.phase \in Nat /\ r.phase > 0
      BY <1>4, <2>2, <2>5, AdmissionAssumption DEF Phases
    <3>4. ValidAt(records[p], now)
      BY <1>1, <3>3 DEF Acceptable, IsAdmitted
    <3> QED
      BY <3>1, <3>2, <3>4 DEF ValidAt
  <2> QED
    BY <2>2, <2>4, <2>5
<1>8. LiveLedgerReplays' /\ OneAuthorization' /\ ReadyIsAuthorized'
  BY <1>2, <1>3, PlaneUntouched
<1> QED
  BY <1>3, <1>5, <1>6, <1>7, <1>8 DEF AdmissionInv

---------------------------------------------------------------------------
(* The model inventory *)

\* The stages of a model, in their order.
LEMMA ModelStates ==
    /\ Range(Lifecycle) = {"challenger", "shadow", "paper", "champion"}
    /\ Len(Lifecycle) = 4
    /\ \A i \in 1..Len(Lifecycle) : Lifecycle[i] \in Range(Lifecycle)
<1>1. Len(Lifecycle) = 4 /\ DOMAIN Lifecycle = 1..4
  BY DEF Lifecycle
<1>2. \A i \in 1..4 : i = 1 \/ i = 2 \/ i = 3 \/ i = 4
  OBVIOUS
<1>3. Range(Lifecycle) = {"challenger", "shadow", "paper", "champion"}
  BY <1>1, <1>2 DEF Range, Lifecycle
<1> QED
  BY <1>1, <1>3 DEF Range

\* The row is written first: memory is what the rows say, also when it raised.
LEMMA RecordModelStep ==
    ASSUME AdmissionInv, proc = "up", NEW type \in {"model_registered", "model_promoted", "model_disabled"},
           NEW state \in Range(Lifecycle) \cup {"active_read", "retired"},
           RecordModel(type, state), UNCHANGED <<now, gates, plane, proc>>
    PROVE  AdmissionInv'
<1> DEFINE row == [type |-> type, state |-> state]
<1>1. row \in ModelRows /\ row.state = state /\ row.type = type
  BY DEF ModelRows
<1>2. /\ failures' \in {failures, failures + 1} /\ failures' \in Nat /\ lost' = lost
      /\ failures' = 0 => failures = 0
      /\ \/ modelLog' = Append(modelLog, row) /\ model' = [state |-> state, disabled |-> type = "model_disabled"]
         \/ modelLog' = modelLog /\ model' = model
  BY DEF RecordModel, models, AdmissionInv, AdmissionTypes
<1> HIDE DEF row
<1>3. modelLog' \in Seq(ModelRows) /\ model' \in Models
  <2>1. [state |-> state, disabled |-> type = "model_disabled"] \in Models
    BY DEF Models
  <2> QED
    <3>1. modelLog \in Seq(ModelRows) /\ model \in Models
      BY DEF AdmissionInv, AdmissionTypes
    <3>2. Append(modelLog, row) \in Seq(ModelRows)
      BY <1>1, <3>1, AppendedLog, Zenon
    <3> QED
      BY <1>2, <2>1, <3>1, <3>2
<1>4. model' = ModelState(modelLog')
  <2>1. model = ModelState(modelLog) /\ modelLog \in Seq(ModelRows)
    BY DEF AdmissionInv, AdmissionTypes, MemoryMatchesLedger
  <2>2. ModelState(Append(modelLog, row)) = [state |-> state, disabled |-> type = "model_disabled"]
    BY <1>1, <2>1, ModelStateAppend
  <2> QED
    BY <1>2, <2>1, <2>2
<1>5. AdmissionTypes'
  BY <1>2, <1>3 DEF AdmissionInv, AdmissionTypes, gates, plane
<1>6. MemoryMatchesLedger'
  BY <1>2, <1>4 DEF AdmissionInv, MemoryMatchesLedger, gates, plane
<1>7. NothingLost'
  BY <1>2 DEF AdmissionInv, NothingLost
<1>8. LiveLedgerReplays' /\ OneAuthorization' /\ ReadyIsAuthorized'
  BY <1>2, PlaneUntouched
<1>9. PassesFollowAllEarlierPhases'
  BY <1>2, GatesUntouched
<1> QED
  BY <1>5, <1>6, <1>7, <1>8, <1>9 DEF AdmissionInv

\* The operations of the model inventory keep the invariant.
LEMMA ModelSteps ==
    ASSUME AdmissionInv, Register \/ Promote \/ Disable
    PROVE  AdmissionInv'
<1>1. CASE Register
  <2>1. proc = "up" /\ UNCHANGED <<now, gates, plane, proc>>
    BY <1>1 DEF Register
  <2>2. PICK state \in Range(Lifecycle) \cup {"active_read", "retired"} :
           RecordModel("model_registered", state)
    BY <1>1 DEF Register
  <2> QED
    BY <2>1, <2>2, RecordModelStep
<1>2. CASE Promote
  <2>1. proc = "up" /\ UNCHANGED <<now, gates, plane, proc>>
    BY <1>2 DEF Promote
  <2>2. PICK i \in 1..(Len(Lifecycle) - 1) : RecordModel("model_promoted", Lifecycle[i + 1])
    BY <1>2 DEF Promote
  <2>3. Lifecycle[i + 1] \in Range(Lifecycle)
    BY ModelStates
  <2> QED
    BY <2>1, <2>2, <2>3, RecordModelStep
<1>3. CASE Disable
  <2>1. /\ proc = "up" /\ UNCHANGED <<now, gates, plane, proc>>
        /\ RecordModel("model_disabled", model.state) /\ model.state # "none"
    BY <1>3 DEF Disable
  <2>2. model.state \in Range(Lifecycle) \cup {"active_read", "retired"}
    BY <2>1 DEF AdmissionInv, AdmissionTypes, Models
  <2> QED
    BY <2>1, <2>2, RecordModelStep
<1> QED
  BY <1>1, <1>2, <1>3

---------------------------------------------------------------------------
(* The live control plane *)

\* A replay judges each row by the rows before it: an append adds one judgement.
LEMMA LiveHydratesAppend ==
    ASSUME NEW hist \in Seq(LiveRows), NEW row \in LiveRows, LiveHydrates(hist),
           row.state = "active" => LiveState(hist).status = "ready",
           row.state \in {"ready", "active"} =>
              LiveState(hist).authorization # "none" /\ LiveState(hist).authorization = row.auth
    PROVE  LiveHydrates(Append(hist, row))
<1> DEFINE new == Append(hist, row)
           n == Len(hist)
<1>1. /\ n \in Nat /\ DOMAIN hist = 1..n /\ DOMAIN new = 1..n \cup {n + 1}
      /\ new[n + 1] = row /\ \A i \in 1..n : new[i] = hist[i]
  BY AppendedLog
<1>2. \A i \in 1..(n + 1) : SubSeq(new, 1, i - 1) = SubSeq(hist, 1, i - 1)
  BY EarlierLog
<1>3. SubSeq(hist, 1, n) = hist
  BY WholeLog
<1> HIDE DEF new, n
<1>4. ASSUME NEW i \in DOMAIN new
      PROVE  /\ new[i].state = "active" => LiveState(SubSeq(new, 1, i - 1)).status = "ready"
             /\ new[i].state \in {"ready", "active"} =>
                   /\ LiveState(SubSeq(new, 1, i - 1)).authorization # "none"
                   /\ LiveState(SubSeq(new, 1, i - 1)).authorization = new[i].auth
  <2>1. CASE i \in 1..n
    <3>1. SubSeq(new, 1, i - 1) = SubSeq(hist, 1, i - 1) /\ new[i] = hist[i] /\ i \in DOMAIN hist
      BY <1>1, <1>2, <2>1
    <3> QED
      BY <3>1 DEF LiveHydrates
  <2>2. CASE i = n + 1
    <3>1. SubSeq(new, 1, i - 1) = hist /\ new[i] = row
      BY <1>1, <1>2, <1>3, <2>2
    <3> QED
      BY <3>1
  <2> QED
    BY <1>1, <1>4, <2>1, <2>2
<1> QED
  BY <1>4 DEF LiveHydrates, new

\* A state row: it keeps the plane's ledger replayable when the state it
\* records is one a replay accepts after the rows so far.
LEMMA TransitionStep ==
    ASSUME AdmissionInv, proc = "up", NEW s \in LiveStates, NEW a \in Auths \cup {"none"}, Transition(s, a),
           s = "active" => live.status = "ready",
           s \in {"ready", "active"} => live.authorization # "none" /\ live.authorization = a
    PROVE  AdmissionInv'
<1> DEFINE row == State(s, a)
<1>1. /\ live' = [live EXCEPT !.status = s, !.auth = a] /\ Written(liveLog, row, "live")
      /\ UNCHANGED <<now, gates, models, proc>>
  BY DEF Transition
<1>2. /\ failures' \in Nat /\ lost' \subseteq {"gates", "live"}
      /\ failures' \in {failures, failures + 1} /\ NothingLost'
      /\ lost \subseteq lost'
      /\ \/ liveLog' = Append(liveLog, row) /\ failures' = failures /\ lost' = lost
         \/ liveLog' = liveLog /\ failures' # 0 /\ "live" \in lost'
  BY <1>1, WrittenEffects, Zenon DEF Written
<1>3. row \in LiveRows /\ row.type = "state" /\ row.type # "authorization" /\ row.state = s /\ row.auth = a
  BY DEF State, LiveRows
<1>4. LiveState(Append(liveLog, row)) = [authorization |-> LiveState(liveLog).authorization, status |-> s, auth |-> a]
  BY LiveStateAppendState DEF AdmissionInv, AdmissionTypes
<1> HIDE DEF row
<1>5. /\ live' \in Planes /\ live'.authorization = live.authorization
      /\ live'.status = s /\ live'.auth = a
      /\ live' = [authorization |-> live.authorization, status |-> s, auth |-> a]
  BY <1>1 DEF AdmissionInv, AdmissionTypes, Planes
<1>6. AdmissionTypes'
  <2>1. liveLog' \in Seq(LiveRows)
    <3>1. liveLog \in Seq(LiveRows)
      BY DEF AdmissionInv, AdmissionTypes
    <3>2. Append(liveLog, row) \in Seq(LiveRows)
      BY <1>3, <3>1, AppendedLog, Zenon
    <3> QED
      BY <1>2, <3>1, <3>2
  <2> QED
    BY <1>1, <1>2, <1>5, <2>1 DEF AdmissionInv, AdmissionTypes, gates, models
<1>7. MemoryMatchesLedger'
  <2>1. "live" \notin lost' => live' = LiveState(liveLog')
    BY <1>2, <1>4, <1>5 DEF AdmissionInv, MemoryMatchesLedger
  <2> QED
    BY <1>1, <1>2, <2>1 DEF AdmissionInv, MemoryMatchesLedger, gates, models
<1>8. LiveLedgerReplays'
  <2> SUFFICES ASSUME failures' = 0 PROVE LiveHydrates(liveLog')
    BY DEF LiveLedgerReplays
  <2>1. liveLog' = Append(liveLog, row) /\ failures = 0 /\ lost = {}
    BY <1>2 DEF AdmissionInv, NothingLost
  <2>2. live = LiveState(liveLog) /\ LiveHydrates(liveLog) /\ liveLog \in Seq(LiveRows)
    BY <2>1 DEF AdmissionInv, AdmissionTypes, MemoryMatchesLedger, LiveLedgerReplays
  <2> QED
    BY <1>3, <2>1, <2>2, LiveHydratesAppend
<1>9. OneAuthorization'
  <2>1. /\ RowsOfType(liveLog', "authorization") = RowsOfType(liveLog, "authorization")
        /\ \A i \in RowsOfType(liveLog, "authorization") : liveLog'[i] = liveLog[i]
    <3>1. CASE liveLog' = Append(liveLog, row)
      <4>1. liveLog \in Seq(LiveRows)
        BY DEF AdmissionInv, AdmissionTypes
      <4>2. RowsOfType(Append(liveLog, row), "authorization") = RowsOfType(liveLog, "authorization")
        BY <1>3, <4>1, RowsOfOtherType, Zenon
      <4>3. \A i \in DOMAIN liveLog : Append(liveLog, row)[i] = liveLog[i]
        BY <1>3, <4>1, AppendedLog
      <4> QED
        BY <3>1, <4>2, <4>3 DEF RowsOfType
    <3> QED
      BY <1>2, <3>1
  <2> QED
    BY <1>1, <1>5, <2>1 DEF AdmissionInv, OneAuthorization
<1>10. ReadyIsAuthorized'
  BY <1>5 DEF ReadyIsAuthorized
<1>11. PassesFollowAllEarlierPhases'
  BY <1>1, <1>2, GatesUntouched
<1> QED
  BY <1>2, <1>6, <1>7, <1>8, <1>9, <1>10, <1>11 DEF AdmissionInv

\* The operations that write a state row of the live plane keep the invariant.
LEMMA StateSteps ==
    ASSUME AdmissionInv, EvaluateReadiness \/ Start \/ Rollback \/ ReturnToPaper
    PROVE  AdmissionInv'
<1>1. /\ proc = "up" /\ live.auth \in Auths \cup {"none"} /\ live.authorization \in Auths \cup {"none"}
      /\ live.status \in {"ready", "active"} => live.authorization # "none" /\ live.authorization = live.auth
  BY DEF AdmissionInv, AdmissionTypes, Planes, ReadyIsAuthorized, EvaluateReadiness, Start, Rollback, ReturnToPaper
<1>2. CASE EvaluateReadiness
  BY <1>1, <1>2, TransitionStep DEF EvaluateReadiness, AuthorizationValid, LiveStates
<1>3. CASE Start
  BY <1>1, <1>3, TransitionStep DEF Start, LiveStates
<1>4. CASE Rollback
  BY <1>1, <1>4, TransitionStep DEF Rollback, LiveStates
<1>5. CASE ReturnToPaper
  BY <1>1, <1>5, TransitionStep DEF ReturnToPaper, LiveStates
<1> QED
  BY <1>2, <1>3, <1>4, <1>5

\* An authorization that is already in the ledger is the one in memory.
LEMMA AuthorizationStep ==
    ASSUME AdmissionInv, RecordAuthorization
    PROVE  AdmissionInv'
<1>1. PICK a \in Auths :
         /\ live.authorization \in {"none", a}
         /\ live' = [live EXCEPT !.authorization = a]
         /\ IF Auth(a) \in Range(liveLog)
            THEN UNCHANGED <<liveLog, failures, lost>>
            ELSE Written(liveLog, Auth(a), "live")
  BY DEF RecordAuthorization
<1>2. proc = "up" /\ UNCHANGED <<now, gates, models, proc>>
  BY DEF RecordAuthorization
<1> DEFINE row == Auth(a)
<1>3. row \in LiveRows /\ row.type = "authorization" /\ row.type # "state" /\ row.state = "none" /\ row.auth = a
  BY DEF Auth, LiveRows
<1>4. a # "none" /\ liveLog \in Seq(LiveRows) /\ live \in Planes /\ lost \subseteq {"gates", "live"} /\ failures \in Nat
  BY AdmissionAssumption DEF AdmissionInv, AdmissionTypes
<1>5. LiveState(Append(liveLog, row)) = [authorization |-> a, status |-> LiveState(liveLog).status, auth |-> LiveState(liveLog).auth]
  BY <1>4, LiveStateAppendAuth
<1>6. /\ failures' \in Nat /\ lost' \subseteq {"gates", "live"} /\ lost \subseteq lost'
      /\ failures' \in {failures, failures + 1} /\ NothingLost'
      /\ \/ row \in Range(liveLog) /\ liveLog' = liveLog /\ failures' = failures /\ lost' = lost
         \/ liveLog' = Append(liveLog, row) /\ failures' = failures /\ lost' = lost
         \/ liveLog' = liveLog /\ failures' # 0 /\ "live" \in lost'
  <2>1. CASE row \in Range(liveLog)
    BY <1>1, <1>4, <2>1 DEF AdmissionInv, NothingLost
  <2>2. CASE row \notin Range(liveLog)
    <3>1. Written(liveLog, row, "live")
      BY <1>1, <2>2
    <3> QED
      BY <3>1, WrittenEffects, Zenon DEF Written
  <2> QED
    BY <2>1, <2>2
<1>7. /\ live' \in Planes /\ live'.authorization = a /\ live'.status = live.status /\ live'.auth = live.auth
      /\ live' = [authorization |-> a, status |-> live.status, auth |-> live.auth]
  BY <1>1, <1>4 DEF Planes
<1> HIDE DEF row
\* Every authorization row in the ledger is this one.
<1>8. \A i \in RowsOfType(liveLog, "authorization") : liveLog[i].auth = a
  <2> TAKE i \in RowsOfType(liveLog, "authorization")
  <2>1. liveLog[i].auth \in Auths /\ liveLog[i].auth = live.authorization
    BY <1>2, <1>4, LiveRowFields DEF AdmissionInv, OneAuthorization, RowsOfType
  <2> QED
    BY <1>1, <2>1, AdmissionAssumption
<1>9. row \in Range(liveLog) => \E i \in RowsOfType(liveLog, "authorization") : liveLog[i].auth = a
  BY <1>3 DEF Range, RowsOfType
<1>10. AdmissionTypes'
  <2>1. liveLog' \in Seq(LiveRows)
    BY <1>3, <1>4, <1>6
  <2> QED
    BY <1>2, <1>6, <1>7, <2>1 DEF AdmissionInv, AdmissionTypes, gates, models
<1>11. MemoryMatchesLedger'
  <2>1. ASSUME "live" \notin lost' PROVE live' = LiveState(liveLog')
    <3>1. live = LiveState(liveLog)
      BY <1>2, <1>6, <2>1 DEF AdmissionInv, MemoryMatchesLedger
    <3>2. CASE row \in Range(liveLog) /\ liveLog' = liveLog
      <4>1. live.authorization = a
        BY <1>2, <1>8, <1>9, <3>2 DEF AdmissionInv, OneAuthorization
      <4>2. live' = live
        BY <1>4, <1>7, <4>1 DEF Planes
      <4> QED
        BY <3>1, <3>2, <4>2
    <3>3. CASE liveLog' = Append(liveLog, row)
      BY <1>5, <1>7, <3>1, <3>3
    <3> QED
      BY <1>6, <2>1, <3>2, <3>3
  <2> QED
    BY <1>2, <1>6, <2>1 DEF AdmissionInv, MemoryMatchesLedger, gates, models
<1>12. LiveLedgerReplays'
  <2> SUFFICES ASSUME failures' = 0 PROVE LiveHydrates(liveLog')
    BY DEF LiveLedgerReplays
  <2>1. failures = 0 /\ LiveHydrates(liveLog) /\ (liveLog' = liveLog \/ liveLog' = Append(liveLog, row))
    BY <1>4, <1>6 DEF AdmissionInv, LiveLedgerReplays
  <2> QED
    BY <1>3, <1>4, <2>1, LiveHydratesAppend
<1>13. OneAuthorization'
  <2>1. \A i \in RowsOfType(liveLog', "authorization") : liveLog'[i].auth = a
    <3>1. CASE liveLog' = Append(liveLog, row)
      <4>1. /\ DOMAIN liveLog' = DOMAIN liveLog \cup {Len(liveLog) + 1}
            /\ liveLog'[Len(liveLog) + 1] = row
            /\ \A i \in DOMAIN liveLog : liveLog'[i] = liveLog[i]
        BY <1>3, <1>4, <3>1, AppendedLog
      <4> QED
        BY <1>3, <1>8, <4>1 DEF RowsOfType
    <3> QED
      BY <1>6, <1>8, <3>1
  <2> QED
    BY <1>7, <2>1 DEF OneAuthorization
<1>14. ReadyIsAuthorized'
  BY <1>1, <1>4, <1>7 DEF AdmissionInv, ReadyIsAuthorized
<1>15. PassesFollowAllEarlierPhases'
  BY <1>2, <1>6, GatesUntouched
<1> QED
  BY <1>6, <1>10, <1>11, <1>12, <1>13, <1>14, <1>15 DEF AdmissionInv

---------------------------------------------------------------------------
(* Time, and the restart *)

\* The clock keeps the invariant: what expires is refused when it is used.
LEMMA TickStep ==
    ASSUME AdmissionInv, Tick
    PROVE  AdmissionInv'
<1>1. now' \in Nat /\ UNCHANGED <<gates, models, plane, proc, failures, lost>>
  BY DEF Tick, AdmissionInv, AdmissionTypes
<1>2. AdmissionTypes' /\ NothingLost'
  BY <1>1 DEF AdmissionInv, AdmissionTypes, NothingLost, gates, models, plane
<1>3. MemoryMatchesLedger'
  BY <1>1 DEF AdmissionInv, MemoryMatchesLedger, gates, models, plane
<1>4. LiveLedgerReplays' /\ OneAuthorization' /\ ReadyIsAuthorized'
  BY <1>1, PlaneUntouched
<1>5. PassesFollowAllEarlierPhases'
  BY <1>1, GatesUntouched
<1> QED
  BY <1>2, <1>3, <1>4, <1>5 DEF AdmissionInv

\* A ledger that replays leaves a plane that is ready only for the
\* authorization it has.
LEMMA HydratedIsAuthorized ==
    ASSUME NEW hist \in Seq(LiveRows), LiveHydrates(hist),
           \A i, j \in RowsOfType(hist, "authorization") : hist[i].auth = hist[j].auth,
           LiveState(hist).status \in {"ready", "active"}
    PROVE  LiveState(hist).authorization # "none" /\ LiveState(hist).auth = LiveState(hist).authorization
<1> DEFINE auths == RowsOfType(hist, "authorization")
           states == RowsOfType(hist, "state")
           m == Max(states)
           before == SubSeq(hist, 1, m - 1)
           earlier == RowsOfType(before, "authorization")
<1>1. Len(hist) \in Nat /\ DOMAIN hist = 1..Len(hist) /\ auths \in SUBSET (1..Len(hist)) /\ states \in SUBSET (1..Len(hist))
  BY DEF RowsOfType
<1>2. states # {}
  BY DEF LiveState
<1>3. m \in DOMAIN hist /\ LiveState(hist).status = hist[m].state /\ LiveState(hist).auth = hist[m].auth
  BY <1>1, <1>2, LatestRow DEF LiveState
<1>4. LiveState(before).authorization # "none" /\ LiveState(before).authorization = hist[m].auth
  BY <1>3 DEF LiveHydrates
<1>5. before \in Seq(LiveRows) /\ Len(before) = m - 1 /\ DOMAIN before = 1..(m - 1)
      /\ \A k \in 1..(m - 1) : before[k] = hist[k] /\ k \in DOMAIN hist
  <2>1. m - 1 \in 0..Len(hist)
    BY <1>1, <1>3
  <2> QED
    BY <1>1, <2>1, PrefixOfLog
<1> HIDE DEF m, before
<1>6. earlier # {} /\ LiveState(before).authorization = before[Max(earlier)].auth
  BY <1>4 DEF LiveState
<1>7. Max(earlier) \in earlier /\ earlier \subseteq auths
  <2>1. earlier \in SUBSET (1..(m - 1)) /\ m - 1 \in Nat
    BY <1>1, <1>3, <1>5 DEF RowsOfType
  <2>2. Max(earlier) \in earlier
    BY <1>6, <2>1, LatestRow
  <2> QED
    BY <1>5, <2>1, <2>2 DEF RowsOfType
<1>8. Max(auths) \in auths /\ LiveState(hist).authorization = hist[Max(auths)].auth
  <2>1. auths # {}
    BY <1>7
  <2>2. Max(auths) \in auths
    BY <1>1, <2>1, LatestRow
  <2> QED
    BY <2>1, <2>2 DEF LiveState
<1>9. before[Max(earlier)] = hist[Max(earlier)]
  BY <1>5, <1>7 DEF RowsOfType
<1> QED
  BY <1>3, <1>4, <1>6, <1>7, <1>8, <1>9

\* A restart keeps the invariant: what it replays is what the dead process held.
LEMMA RestartStep ==
    ASSUME AdmissionInv, Restart
    PROVE  AdmissionInv'
<1>1. lost' = {} /\ UNCHANGED <<now, gateLog, modelLog, liveLog, failures>>
  BY DEF Restart
<1>2. /\ gateLog \in Seq(GateRecords) /\ modelLog \in Seq(ModelRows) /\ liveLog \in Seq(LiveRows)
      /\ now \in Nat /\ failures \in Nat
  BY DEF AdmissionInv, AdmissionTypes
<1>3. PassesFollowAllEarlierPhases' /\ LiveLedgerReplays' /\ NothingLost'
  BY <1>1 DEF AdmissionInv, PassesFollowAllEarlierPhases, LiveLedgerReplays, NothingLost
<1>4. CASE GatesHydrate(gateLog, now) /\ LiveHydrates(liveLog)
  <2>1. /\ proc' = "up" /\ records' = Project(gateLog)
        /\ model' = ModelState(modelLog) /\ live' = LiveState(liveLog)
    BY <1>4 DEF Restart
  <2>2. AdmissionTypes'
    BY <1>1, <1>2, <2>1, ProjectType, ModelStateType, LiveStateType DEF AdmissionTypes
  <2>3. MemoryMatchesLedger'
    BY <1>1, <2>1 DEF MemoryMatchesLedger
  <2>4. ReadyIsAuthorized'
    BY <1>2, <1>4, <2>1, HydratedIsAuthorized DEF AdmissionInv, OneAuthorization, ReadyIsAuthorized
  <2>5. OneAuthorization'
    <3>1. \A i \in RowsOfType(liveLog, "authorization") : liveLog[i].auth = LiveState(liveLog).authorization
      <4> DEFINE auths == RowsOfType(liveLog, "authorization")
      <4>1. Len(liveLog) \in Nat /\ auths \in SUBSET (1..Len(liveLog))
        BY <1>2 DEF RowsOfType
      <4>2. auths # {} => Max(auths) \in auths
        BY <4>1, LatestRow
      <4>3. auths # {} => LiveState(liveLog).authorization = liveLog[Max(auths)].auth
        BY DEF LiveState
      <4> QED
        BY <4>2, <4>3 DEF AdmissionInv, OneAuthorization
    <3> QED
      BY <1>1, <2>1, <3>1 DEF AdmissionInv, OneAuthorization
  <2> QED
    BY <1>3, <2>2, <2>3, <2>4, <2>5 DEF AdmissionInv
<1>5. CASE ~ (GatesHydrate(gateLog, now) /\ LiveHydrates(liveLog))
  <2>1. proc' = "refused" /\ records' = Project(<<>>) /\ model' = NoModel /\ live' = Paper
    BY <1>5 DEF Restart
  <2>2. Project(<<>>) \in [Phases -> GateRecords \cup {NoRecord}]
    BY ProjectEmpty
  <2>3. NoModel \in Models /\ Paper \in Planes
    BY DEF NoModel, Models, Paper, Planes, LiveStates
  <2>4. AdmissionTypes'
    BY <1>1, <1>2, <2>1, <2>2, <2>3 DEF AdmissionTypes
  <2>5. MemoryMatchesLedger' /\ OneAuthorization' /\ ReadyIsAuthorized'
    BY <1>1, <2>1 DEF AdmissionInv, MemoryMatchesLedger, OneAuthorization, ReadyIsAuthorized, Paper
  <2> QED
    BY <1>3, <2>4, <2>5 DEF AdmissionInv
<1> QED
  BY <1>4, <1>5

---------------------------------------------------------------------------

\* The first state satisfies the invariant.
LEMMA InitInv == Init => AdmissionInv
<1> SUFFICES ASSUME Init PROVE AdmissionInv
  OBVIOUS
<1>1. /\ now = 0 /\ failures = 0 /\ lost = {} /\ proc = "up"
      /\ gateLog = <<>> /\ modelLog = <<>> /\ liveLog = <<>>
      /\ records = Project(<<>>) /\ model = NoModel /\ live = Paper
  BY DEF Init
<1>2. Project(<<>>) \in [Phases -> GateRecords \cup {NoRecord}]
  BY ProjectEmpty
<1>3. NoModel \in Models /\ Paper \in Planes
  BY DEF NoModel, Models, Paper, Planes, LiveStates
<1>4. AdmissionTypes /\ NothingLost
  BY <1>1, <1>2, <1>3 DEF AdmissionTypes, NothingLost
<1>5. OneAuthorization /\ ReadyIsAuthorized
  BY <1>1 DEF OneAuthorization, ReadyIsAuthorized, RowsOfType, Paper
<1>6. PassesFollowAllEarlierPhases /\ LiveLedgerReplays
  BY <1>1 DEF PassesFollowAllEarlierPhases, LiveLedgerReplays, LiveHydrates
<1>7. MemoryMatchesLedger
  BY <1>1, LiveStateEmpty DEF MemoryMatchesLedger, ModelState
<1> QED
  BY <1>4, <1>5, <1>6, <1>7 DEF AdmissionInv

\* The inductive invariant, for every value of the constants.
THEOREM InvHolds == Spec => []AdmissionInv
<1>1. AdmissionInv /\ [Next]_vars => AdmissionInv'
  <2> SUFFICES ASSUME AdmissionInv, [Next]_vars PROVE AdmissionInv'
    OBVIOUS
  <2>1. CASE UNCHANGED vars
    BY <2>1 DEF vars, gates, models, plane, AdmissionInv, AdmissionTypes, NothingLost, OneAuthorization, ReadyIsAuthorized,
                PassesFollowAllEarlierPhases, MemoryMatchesLedger, LiveLedgerReplays
  <2>2. CASE Next
    BY <2>2, RecordGateStep, ModelSteps, StateSteps, AuthorizationStep, TickStep, RestartStep DEF Next
  <2> QED
    BY <2>1, <2>2
<1> QED
  BY <1>1, InitInv, PTL DEF Spec

\* The gates, the inventory and the live plane together, through every order
\* of calls, expiry, append that raises and restart: a pass in the ledger
\* follows passes of all earlier phases, memory is what a restart would find,
\* and the plane's own rows never stop it.
THEOREM LedgersReplayTheorem == Spec => []LedgersReplay
<1>1. AdmissionInv => LedgersReplay
  BY DEF AdmissionInv, LedgersReplay
<1> QED
  BY <1>1, InvHolds, PTL

\* The plane is ready or active only for the authorization that is recorded,
\* also after a restart: record_authorization never replaces one under it.
THEOREM ReadyIsAuthorizedTheorem == Spec => []ReadyIsAuthorized
BY InvHolds, PTL DEF AdmissionInv

---------------------------------------------------------------------------
(* The stability runs.                                                     *)

Samples == [t : Nat, ok : BOOLEAN, rss : {0, 1}]
RunnerStates == {"off", "lock", "loop", "sample", "append", "status", "unlock", "summary", "final"}
Holding == {"loop", "sample", "append", "status", "unlock"}
RunStates == {"running", "budget_exhausted", "not_started", "short_smoke_complete", "passed", "failed"}
RunnerRecs == [at : RunnerStates, mem : Seq(Samples), limit : {0, 1}, terminal : BOOLEAN,
               state : RunStates]

StabilityTypes ==
    /\ kind \in {"local", "remote"} /\ tick \in Nat /\ paid \in Nat /\ deaths \in Nat
    /\ log \in Seq(Samples)
    /\ runner \in [Runners -> RunnerRecs]
    /\ disk = [summary |-> disk.summary, state |-> disk.state, last |-> disk.last]
    /\ disk.summary = [status |-> disk.summary.status, cycles |-> disk.summary.cycles]
    /\ disk.summary.cycles \in Seq(Samples)

\* The log belongs to whoever holds the lock, and its memory is the log.
LockInv == \A r \in Runners : runner[r].at \in Holding => owner = r /\ runner[r].mem = log

\* Nobody knows more than the log; a runner that has just appended knows more than every
\* summary, written or still to be written.
KnownInv ==
    /\ Len(disk.summary.cycles) <= Len(log)
    /\ \A r \in Runners : runner[r].at \in {"summary", "final"} => Len(runner[r].mem) <= Len(log)
    /\ \A r \in Runners : runner[r].at = "status" =>
          /\ Len(disk.summary.cycles) < Len(log)
          /\ \A q \in Runners : runner[q].at \in {"summary", "final"} => Len(runner[q].mem) < Len(log)

\* A sample is taken before the target and within the cap.
SampleInv ==
    \A r \in Runners : runner[r].at \in {"sample", "append"} =>
        IF kind = "local" THEN ~ TargetReached(log) ELSE Len(log) + 1 <= Cap

\* The last status repeats the summary its runner has written.
FinalInv ==
    \A r \in Runners : kind = "local" /\ runner[r].at = "final" =>
        /\ disk.summary.status # "none"
        /\ disk.summary.cycles = runner[r].mem /\ disk.summary.status = runner[r].state

\* What was paid is in the log, or about to be, or was lost with its runner.
SpendInv ==
    /\ kind = "local" => paid = 0
    /\ kind = "remote" => Len(log) <= Cap
    /\ paid <= Len(log) + deaths + (IF \E r \in Runners : runner[r].at = "append" THEN 1 ELSE 0)

StabilityInv == StabilityTypes /\ LockInv /\ KnownInv /\ SampleInv /\ FinalInv /\ SpendInv

\* What a step of one runner leaves of the others.
LEMMA Moves ==
  ASSUME StabilityTypes, NEW r \in Runners, NEW f \in RunnerRecs, Move(r, f)
  PROVE  /\ runner' \in [Runners -> RunnerRecs] /\ runner'[r] = f
         /\ \A q \in Runners : q # r => runner'[q] = runner[q]
  BY DEF Move, StabilityTypes

\* A runner that only changes its place.
LEMMA GoesTo ==
  ASSUME StabilityTypes, NEW r \in Runners, NEW a \in RunnerStates, Goes(r, a)
  PROVE  /\ runner' \in [Runners -> RunnerRecs]
         /\ \A q \in Runners : q # r => runner'[q] = runner[q]
         /\ runner'[r].at = a /\ runner'[r].mem = runner[r].mem /\ runner'[r].state = runner[r].state
         /\ runner'[r].limit = runner[r].limit /\ runner'[r].terminal = runner[r].terminal
  BY DEF Goes, Move, StabilityTypes, RunnerRecs

\* A runner that has just begun is a runner.
LEMMA OffIsRunner ==
  ASSUME NEW a \in RunnerStates, NEW n \in {0, 1}
  PROVE  [at |-> a, mem |-> <<>>, limit |-> n, terminal |-> FALSE, state |-> "running"] \in RunnerRecs
<1>1. <<>> \in Seq(Samples)
  OBVIOUS
<1>3. "running" \in RunStates
  BY DEF RunStates
<1>2. FALSE \in BOOLEAN
  BY Zenon
<1> QED
  BY <1>1, <1>2, <1>3, Zenon DEF RunnerRecs

\* A runner that goes off.
LEMMA GoesOff ==
  ASSUME StabilityTypes, NEW r \in Runners, Move(r, Off)
  PROVE  /\ runner' \in [Runners -> RunnerRecs] /\ runner'[r].at = "off"
         /\ \A q \in Runners : q # r => runner'[q] = runner[q]
<1>1. Off \in RunnerRecs /\ Off.at = "off"
  BY OffIsRunner DEF Off, RunnerStates
<1> QED
  BY <1>1, Moves

\* A runner without the lock may go off; a summary it does not touch stays known.
LEMMA OffStep ==
  ASSUME StabilityInv, NEW r \in Runners, runner[r].at \notin Holding, Move(r, Off),
         UNCHANGED <<kind, tick, log, cutShort, owner, paid, deaths>>,
         disk' = [summary |-> disk.summary, state |-> disk'.state, last |-> disk'.last]
  PROVE  StabilityInv'
<1>1. /\ runner' \in [Runners -> RunnerRecs] /\ runner'[r].at = "off"
      /\ \A q \in Runners : q # r => runner'[q] = runner[q]
  BY GoesOff DEF StabilityInv
<1>2. disk'.summary = disk.summary
  OBVIOUS
<1>3. StabilityTypes'
  BY <1>1, <1>2 DEF StabilityInv, StabilityTypes
<1>4. LockInv' /\ KnownInv' /\ SampleInv' /\ FinalInv'
  BY <1>1, <1>2 DEF StabilityInv, LockInv, KnownInv, SampleInv, FinalInv, TargetReached, Holding
<1>5. (\E q \in Runners : runner'[q].at = "append") <=> (\E q \in Runners : runner[q].at = "append")
  BY <1>1 DEF Holding
<1>6. SpendInv'
  BY <1>5 DEF StabilityInv, SpendInv
<1> QED
  BY <1>3, <1>4, <1>6 DEF StabilityInv

\* A review that passes is of a local run at its target whose summary is whole.
LEMMA PassedReview ==
  ASSUME StabilityInv, ReviewPasses
  PROVE  /\ kind = "local" /\ TargetReached(log) /\ disk.summary.status # "none"
         /\ disk.summary = [status |-> LocalStatus(log), cycles |-> log]
         /\ \A r \in Runners : runner[r].at \notin {"sample", "append", "status"}
<1>1. kind = "local" /\ TargetReached(log)
  BY DEF ReviewPasses
<1>2. disk.summary = [status |-> LocalStatus(log), cycles |-> log]
  BY <1>1 DEF ReviewPasses, Summary
<1>3. disk.summary.status # "none"
  BY <1>2 DEF LocalStatus
<1>4. \A r \in Runners : runner[r].at \notin {"sample", "append", "status"}
  BY <1>1, <1>2 DEF StabilityInv, SampleInv, KnownInv, StabilityTypes
<1> QED
  BY <1>1, <1>2, <1>3, <1>4

\* It still passes after a step that leaves log, summary and final status alone.
LEMMA ReviewFrame ==
  ASSUME ReviewPasses, UNCHANGED <<kind, log, cutShort>>, disk' = disk
  PROVE  ReviewPasses'
  BY DEF ReviewPasses, Summary, TargetReached, AllPassed, WindowPasses, LocalStatus

\* The clock disturbs nothing: a local review does not look at it.
LEMMA StabilityTickStep ==
  ASSUME StabilityInv, TickOn
  PROVE  StabilityInv' /\ (ReviewPasses => ReviewPasses')
<1>1. StabilityInv'
  BY DEF TickOn, StabilityInv, StabilityTypes, LockInv, KnownInv, SampleInv, FinalInv, SpendInv, TargetReached
<1> QED
  BY <1>1, ReviewFrame DEF TickOn

\* Starting a runner touches neither lock nor log.
LEMMA StabilityStartStep ==
  ASSUME StabilityInv, NEW r \in Runners, StartRunner(r)
  PROVE  StabilityInv' /\ (ReviewPasses => ReviewPasses')
<1>1. PICK n \in {0, 1} : Move(r, [Off EXCEPT !.at = "lock", !.limit = n])
  BY DEF StartRunner
<1>2. ASSUME NEW f \in RunnerRecs
      PROVE  /\ [f EXCEPT !.at = "lock", !.limit = n] \in RunnerRecs
             /\ [f EXCEPT !.at = "lock", !.limit = n].at = "lock"
  BY DEF RunnerRecs, RunnerStates
<1>a. Off \in RunnerRecs
  BY OffIsRunner DEF Off, RunnerStates
<1>b. /\ [Off EXCEPT !.at = "lock", !.limit = n] \in RunnerRecs
      /\ [Off EXCEPT !.at = "lock", !.limit = n].at = "lock"
  BY <1>2, <1>a, Zenon
<1>3. /\ runner' \in [Runners -> RunnerRecs] /\ runner'[r].at = "lock"
      /\ \A q \in Runners : q # r => runner'[q] = runner[q]
  BY <1>1, <1>b, Moves DEF StabilityInv
<1>4. UNCHANGED <<kind, tick, log, cutShort, owner, disk, paid, deaths>> /\ runner[r].at = "off"
  BY DEF StartRunner
<1>5. (\E q \in Runners : runner'[q].at = "append") <=> (\E q \in Runners : runner[q].at = "append")
  BY <1>3, <1>4
<1>6. StabilityTypes' /\ LockInv' /\ KnownInv' /\ SampleInv' /\ FinalInv'
  BY <1>3, <1>4 DEF StabilityInv, StabilityTypes, LockInv, KnownInv, SampleInv, FinalInv, TargetReached, Holding
<1>7. SpendInv'
  BY <1>4, <1>5 DEF StabilityInv, SpendInv
<1> QED
  BY <1>4, <1>6, <1>7, ReviewFrame DEF StabilityInv

\* Whoever takes the lock finds nobody holding it, and reads the log.
LEMMA LockStep ==
  ASSUME StabilityInv, NEW r \in Runners, TakeLock(r)
  PROVE  StabilityInv' /\ (ReviewPasses => ReviewPasses')
<1>1. UNCHANGED <<kind, tick, log, cutShort, disk, paid, deaths>> /\ runner[r].at = "lock"
  BY DEF TakeLock
<1>2. CASE owner # 0 \/ cutShort
  <2>1. Move(r, Off) /\ owner' = owner
    BY <1>2 DEF TakeLock
  <2>2. /\ runner' \in [Runners -> RunnerRecs] /\ runner'[r].at = "off"
        /\ \A q \in Runners : q # r => runner'[q] = runner[q]
    <3>1. Off \in RunnerRecs /\ Off.at = "off"
      BY OffIsRunner DEF Off, RunnerStates
    <3> QED
      BY <2>1, <3>1, Moves DEF StabilityInv
  <2>3. StabilityTypes' /\ LockInv' /\ KnownInv' /\ SampleInv' /\ FinalInv'
    BY <1>1, <2>1, <2>2 DEF StabilityInv, StabilityTypes, LockInv, KnownInv, SampleInv, FinalInv, TargetReached, Holding
  <2>4. (\E q \in Runners : runner'[q].at = "append") <=> (\E q \in Runners : runner[q].at = "append")
    BY <1>1, <2>2
  <2>5. SpendInv'
    BY <1>1, <2>4 DEF StabilityInv, SpendInv
  <2> QED
    BY <1>1, <2>3, <2>5, ReviewFrame DEF StabilityInv
<1>3. CASE ~ (owner # 0 \/ cutShort)
  <2>1. owner = 0 /\ owner' = r /\ Move(r, [runner[r] EXCEPT !.at = "loop", !.mem = log])
    BY <1>3 DEF TakeLock
  <2>2. /\ [runner[r] EXCEPT !.at = "loop", !.mem = log] \in RunnerRecs
        /\ [runner[r] EXCEPT !.at = "loop", !.mem = log].at = "loop"
        /\ [runner[r] EXCEPT !.at = "loop", !.mem = log].mem = log
    BY DEF StabilityInv, StabilityTypes, RunnerRecs, RunnerStates
  <2>3. /\ runner' \in [Runners -> RunnerRecs] /\ runner'[r].at = "loop" /\ runner'[r].mem = log
        /\ \A q \in Runners : q # r => runner'[q] = runner[q]
    BY <2>1, <2>2, Moves DEF StabilityInv
  <2>4. \A q \in Runners : runner[q].at \notin Holding
    BY <2>1, StabilityAssumption DEF StabilityInv, LockInv
  <2>5. StabilityTypes' /\ LockInv' /\ KnownInv' /\ SampleInv' /\ FinalInv'
    BY <1>1, <2>1, <2>3, <2>4
    DEF StabilityInv, StabilityTypes, LockInv, KnownInv, SampleInv, FinalInv, TargetReached, Holding
  <2>6. (\E q \in Runners : runner'[q].at = "append") <=> (\E q \in Runners : runner[q].at = "append")
    BY <1>1, <2>3
  <2>7. SpendInv'
    BY <1>1, <2>6 DEF StabilityInv, SpendInv
  <2> QED
    BY <1>1, <2>5, <2>7, ReviewFrame DEF StabilityInv
<1> QED
  BY <1>2, <1>3

\* A step of the holder of the lock that keeps log and memory: it stays the only one.
LEMMA HolderMoves ==
  ASSUME StabilityInv, NEW r \in Runners, runner[r].at \in Holding \ {"sample", "append"},
         runner' \in [Runners -> RunnerRecs], \A q \in Runners : q # r => runner'[q] = runner[q],
         runner'[r].mem = runner[r].mem, runner'[r].at \in {"loop", "sample", "unlock"},
         UNCHANGED <<kind, tick, log, cutShort, owner, paid, deaths>>, StabilityTypes',
         disk'.summary = disk.summary,
         runner'[r].at = "sample" => IF kind = "local" THEN ~ TargetReached(log) ELSE Len(log) + 1 <= Cap
  PROVE  StabilityInv'
<1>1. LockInv' /\ KnownInv'
  BY DEF StabilityInv, LockInv, KnownInv, Holding
<1>2. SampleInv'
  BY DEF StabilityInv, SampleInv, TargetReached
<1>3. FinalInv'
  BY DEF StabilityInv, FinalInv
<1>4. (\E q \in Runners : runner'[q].at = "append") <=> (\E q \in Runners : runner[q].at = "append")
  OBVIOUS
<1>5. SpendInv'
  BY <1>4 DEF StabilityInv, SpendInv
<1> QED
  BY <1>1, <1>2, <1>3, <1>5 DEF StabilityInv

\* The holder goes on to a sample only before the target and within the cap.
LEMMA LoopStep ==
  ASSUME StabilityInv, NEW r \in Runners, Loop(r)
  PROVE  StabilityInv' /\ (ReviewPasses => ReviewPasses')
<1> DEFINE me == runner[r]
<1>1. /\ UNCHANGED <<kind, tick, log, cutShort, owner, disk, paid, deaths, starts>>
      /\ me.at = "loop" /\ me.mem = log /\ me \in RunnerRecs /\ tick \in Nat
  BY DEF Loop, StabilityInv, StabilityTypes, LockInv, Holding
<1>2. CASE Move(r, [me EXCEPT !.at = "unlock"]) \/ Move(r, [me EXCEPT !.at = "unlock", !.state = "budget_exhausted"])
  <2>1. PICK f \in RunnerRecs : Move(r, f) /\ f.at = "unlock" /\ f.mem = me.mem
    <3>1. /\ [me EXCEPT !.at = "unlock"] \in RunnerRecs /\ [me EXCEPT !.at = "unlock"].mem = me.mem
          /\ [me EXCEPT !.at = "unlock"].at = "unlock"
      BY <1>1 DEF RunnerRecs, RunnerStates
    <3>2. /\ [me EXCEPT !.at = "unlock", !.state = "budget_exhausted"] \in RunnerRecs
          /\ [me EXCEPT !.at = "unlock", !.state = "budget_exhausted"].mem = me.mem
          /\ [me EXCEPT !.at = "unlock", !.state = "budget_exhausted"].at = "unlock"
      BY <1>1 DEF RunnerRecs, RunnerStates, RunStates
    <3> QED
      BY <1>2, <3>1, <3>2
  <2>2. /\ runner' \in [Runners -> RunnerRecs] /\ runner'[r] = f
        /\ \A q \in Runners : q # r => runner'[q] = runner[q]
    BY <2>1, Moves DEF StabilityInv
  <2>3. StabilityTypes'
    BY <1>1, <2>2 DEF StabilityInv, StabilityTypes
  <2> QED
    BY <1>1, <2>1, <2>2, <2>3, HolderMoves, ReviewFrame DEF Holding
<1>3. CASE /\ Move(r, [me EXCEPT !.at = "sample", !.terminal = tick >= Target])
           /\ kind = "local" => ~ TargetReached(me.mem)
           /\ kind = "remote" => ~ (Reserved(me.mem) + 1 > Cap)
  <2>1. PICK f \in RunnerRecs : Move(r, f) /\ f.at = "sample" /\ f.mem = me.mem
    <3>1. ASSUME NEW terminal \in BOOLEAN
          PROVE  /\ [me EXCEPT !.at = "sample", !.terminal = terminal] \in RunnerRecs
                 /\ [me EXCEPT !.at = "sample", !.terminal = terminal].mem = me.mem
                 /\ [me EXCEPT !.at = "sample", !.terminal = terminal].at = "sample"
      BY <1>1 DEF RunnerRecs, RunnerStates
    <3>2. (tick >= Target) \in BOOLEAN
      OBVIOUS
    <3> HIDE DEF me
    <3> QED
      BY <1>3, <3>1, <3>2, Zenon
  <2>2. /\ runner' \in [Runners -> RunnerRecs] /\ runner'[r] = f
        /\ \A q \in Runners : q # r => runner'[q] = runner[q]
    BY <2>1, Moves DEF StabilityInv
  <2>3. StabilityTypes'
    BY <1>1, <2>2 DEF StabilityInv, StabilityTypes
  <2>4. IF kind = "local" THEN ~ TargetReached(log) ELSE Len(log) + 1 <= Cap
    BY <1>1, <1>3, StabilityAssumption DEF Reserved, StabilityInv, StabilityTypes
  <2> QED
    BY <1>1, <2>1, <2>2, <2>3, <2>4, HolderMoves, ReviewFrame DEF Holding
<1> QED
  BY <1>2, <1>3 DEF Loop

\* A probe is paid for, and its record comes next.
LEMMA SampleStep ==
  ASSUME StabilityInv, NEW r \in Runners, Sample(r)
  PROVE  StabilityInv' /\ (ReviewPasses => ReviewPasses')
<1>1. /\ UNCHANGED <<kind, tick, log, cutShort, owner, disk, deaths>> /\ runner[r].at = "sample"
      /\ paid' = IF kind = "remote" THEN paid + 1 ELSE paid
      /\ Goes(r, "append")
  BY DEF Sample
<1>2. /\ runner' \in [Runners -> RunnerRecs]
      /\ \A q \in Runners : q # r => runner'[q] = runner[q]
      /\ runner'[r].at = "append" /\ runner'[r].mem = runner[r].mem
  BY <1>1, GoesTo DEF StabilityInv, RunnerStates
<1>a. StabilityTypes'
  <2>1. paid' \in Nat
    BY <1>1 DEF StabilityInv, StabilityTypes
  <2> QED
    BY <1>1, <1>2, <2>1 DEF StabilityInv, StabilityTypes
<1>3. StabilityTypes' /\ LockInv' /\ KnownInv' /\ FinalInv'
  BY <1>1, <1>2, <1>a DEF StabilityInv, LockInv, KnownInv, FinalInv, Holding
<1>4. SampleInv'
  BY <1>1, <1>2 DEF StabilityInv, SampleInv, TargetReached
<1>5. \A q \in Runners : runner[q].at # "append"
  BY <1>1 DEF StabilityInv, LockInv, Holding
<1>6. \E q \in Runners : runner'[q].at = "append"
  BY <1>2
<1>7. SpendInv'
  BY <1>1, <1>5, <1>6 DEF StabilityInv, SpendInv, StabilityTypes
<1> QED
  BY <1>1, <1>3, <1>4, <1>7, ReviewFrame DEF StabilityInv

\* The record makes the log longer than any summary; no review has passed yet.
LEMMA AppendStep ==
  ASSUME StabilityInv, NEW r \in Runners, AppendSample(r)
  PROVE  StabilityInv' /\ (ReviewPasses => ReviewPasses')
<1>1. /\ UNCHANGED <<kind, tick, cutShort, owner, disk, paid, deaths>> /\ runner[r].at = "append"
      /\ Move(r, [runner[r] EXCEPT !.at = "status", !.mem = log'])
  BY DEF AppendSample
<1>2. PICK ok \in BOOLEAN, rss \in {0, 1} : log' = Append(log, [t |-> tick, ok |-> ok, rss |-> rss])
  BY DEF AppendSample
<1>3. log' \in Seq(Samples) /\ Len(log') = Len(log) + 1 /\ Len(log) \in Nat
  <2> DEFINE row == [t |-> tick, ok |-> ok, rss |-> rss]
  <2>1. row \in Samples /\ log \in Seq(Samples)
    BY DEF Samples, StabilityInv, StabilityTypes
  <2> HIDE DEF row
  <2>2. Append(log, row) \in Seq(Samples) /\ Len(Append(log, row)) = Len(log) + 1 /\ Len(log) \in Nat
    BY <2>1
  <2> QED
    BY <1>2, <2>2 DEF row
<1>4. /\ [runner[r] EXCEPT !.at = "status", !.mem = log'] \in RunnerRecs
      /\ [runner[r] EXCEPT !.at = "status", !.mem = log'].at = "status"
      /\ [runner[r] EXCEPT !.at = "status", !.mem = log'].mem = log'
  BY <1>3 DEF StabilityInv, StabilityTypes, RunnerRecs, RunnerStates
<1>5. /\ runner' \in [Runners -> RunnerRecs] /\ runner'[r].at = "status" /\ runner'[r].mem = log'
      /\ \A q \in Runners : q # r => runner'[q] = runner[q]
  BY <1>1, <1>4, Moves DEF StabilityInv
<1>6. StabilityTypes'
  BY <1>1, <1>3, <1>5 DEF StabilityInv, StabilityTypes
<1>7. \A q \in Runners : q # r => runner[q].at \notin Holding
  BY <1>1 DEF StabilityInv, LockInv, Holding
<1>8. LockInv' /\ SampleInv'
  BY <1>1, <1>5, <1>7 DEF StabilityInv, LockInv, SampleInv, Holding
<1>9. KnownInv'
  <2>1. \A q \in Runners : Len(runner[q].mem) \in Nat
    BY DEF StabilityInv, StabilityTypes, RunnerRecs
  <2>2. Len(disk.summary.cycles) \in Nat
    BY DEF StabilityInv, StabilityTypes
  <2> QED
    BY <1>1, <1>3, <1>5, <1>7, <2>1, <2>2 DEF StabilityInv, KnownInv, Holding
<1>10. FinalInv'
  BY <1>1, <1>5 DEF StabilityInv, FinalInv
<1>11. SpendInv'
  <2>1. \A q \in Runners : runner'[q].at # "append"
    BY <1>5, <1>7 DEF Holding
  <2>2. kind = "remote" => Len(log) + 1 <= Cap
    BY <1>1 DEF StabilityInv, SampleInv
  <2> QED
    BY <1>1, <1>3, <2>1, <2>2 DEF StabilityInv, SpendInv, StabilityTypes
<1>12. ~ ReviewPasses
  BY <1>1, PassedReview
<1> QED
  BY <1>6, <1>8, <1>9, <1>10, <1>11, <1>12 DEF StabilityInv

\* A status after a sample is written only while no review passes.
LEMMA StatusStep ==
  ASSUME StabilityInv, NEW r \in Runners, WriteStatus(r)
  PROVE  StabilityInv' /\ (ReviewPasses => ReviewPasses')
<1>1. /\ UNCHANGED <<kind, tick, log, cutShort, owner, paid, deaths>> /\ runner[r].at = "status"
      /\ disk' = [disk EXCEPT !.state = "running", !.last = Len(runner[r].mem)]
      /\ Goes(r, "unlock") \/ Goes(r, "loop")
  BY DEF WriteStatus
<1>2. /\ runner' \in [Runners -> RunnerRecs]
      /\ \A q \in Runners : q # r => runner'[q] = runner[q]
      /\ runner'[r].at \in {"unlock", "loop"} /\ runner'[r].mem = runner[r].mem
  BY <1>1, GoesTo DEF StabilityInv, RunnerStates
<1>3. StabilityTypes' /\ disk'.summary = disk.summary
  <2>1. disk = [summary |-> disk.summary, state |-> disk.state, last |-> disk.last]
    BY DEF StabilityInv, StabilityTypes
  <2>2. disk' = [summary |-> disk.summary, state |-> "running", last |-> Len(runner[r].mem)]
    BY <1>1, <2>1, Zenon
  <2> QED
    BY <1>1, <1>2, <2>2 DEF StabilityInv, StabilityTypes
<1>4. StabilityInv'
  BY <1>1, <1>2, <1>3, HolderMoves DEF Holding
<1> QED
  BY <1>1, <1>4, PassedReview

\* The lock is given back; the runner knows what the log is now.
LEMMA UnlockStep ==
  ASSUME StabilityInv, NEW r \in Runners, Unlock(r)
  PROVE  StabilityInv' /\ (ReviewPasses => ReviewPasses')
<1>1. /\ UNCHANGED <<kind, tick, log, cutShort, disk, paid, deaths>> /\ runner[r].at = "unlock"
      /\ owner' = 0 /\ Goes(r, "summary")
  BY DEF Unlock
<1>2. /\ runner' \in [Runners -> RunnerRecs]
      /\ \A q \in Runners : q # r => runner'[q] = runner[q]
      /\ runner'[r].at = "summary" /\ runner'[r].mem = runner[r].mem
  BY <1>1, GoesTo DEF StabilityInv, RunnerStates
<1>3. runner[r].mem = log /\ \A q \in Runners : q # r => runner[q].at \notin Holding
  BY <1>1 DEF StabilityInv, LockInv, Holding
<1>4. StabilityTypes' /\ LockInv' /\ FinalInv' /\ SampleInv'
  BY <1>1, <1>2, <1>3 DEF StabilityInv, StabilityTypes, LockInv, FinalInv, SampleInv, TargetReached, Holding
<1>5. KnownInv'
  BY <1>1, <1>2, <1>3 DEF StabilityInv, KnownInv, StabilityTypes, Holding
<1>6. (\E q \in Runners : runner'[q].at = "append") <=> (\E q \in Runners : runner[q].at = "append")
  BY <1>1, <1>2
<1>7. SpendInv'
  BY <1>1, <1>6 DEF StabilityInv, SpendInv
<1> QED
  BY <1>1, <1>4, <1>5, <1>7, ReviewFrame DEF StabilityInv

\* A summary has one of the states, and holds the samples it was made of.
LEMMA StatesOfRuns ==
  ASSUME NEW c, NEW state \in RunStates
  PROVE  /\ Summary(c, state) = [status |-> Summary(c, state).status, cycles |-> c]
         /\ Summary(c, state).status \in RunStates /\ Summary(c, state).status # "none"
<1>1. LocalStatus(c) \in RunStates /\ LocalStatus(c) # "none"
  BY DEF LocalStatus, RunStates
<1>2. RemoteStatus(c, state) \in RunStates /\ RemoteStatus(c, state) # "none"
  BY DEF RemoteStatus, RunStates
<1> QED
  BY <1>1, <1>2 DEF Summary

\* A summary that differs from a local one is refused, so the one that passed stays.
LEMMA SummaryStep ==
  ASSUME StabilityInv, NEW r \in Runners, WriteSummary(r)
  PROVE  StabilityInv' /\ (ReviewPasses => ReviewPasses')
<1>1. /\ UNCHANGED <<kind, tick, log, cutShort, owner, paid, deaths>> /\ runner[r].at = "summary"
      /\ runner[r] \in RunnerRecs
  BY DEF WriteSummary, StabilityInv, StabilityTypes
<1>2. PICK s : s = Summary(runner[r].mem, runner[r].state)
  OBVIOUS
<1>3. /\ s = [status |-> s.status, cycles |-> runner[r].mem] /\ s.status \in RunStates /\ s.status # "none"
      /\ runner[r].mem \in Seq(Samples)
  BY <1>1, <1>2, StatesOfRuns DEF RunnerRecs
<1>4. CASE MayWrite(s)
  <2>1. /\ disk' = [disk EXCEPT !.summary = s]
        /\ Move(r, [runner[r] EXCEPT !.at = "final", !.state = s.status])
    BY <1>2, <1>4 DEF WriteSummary
  <2>2. /\ [runner[r] EXCEPT !.at = "final", !.state = s.status] \in RunnerRecs
        /\ [runner[r] EXCEPT !.at = "final", !.state = s.status].at = "final"
        /\ [runner[r] EXCEPT !.at = "final", !.state = s.status].state = s.status
        /\ [runner[r] EXCEPT !.at = "final", !.state = s.status].mem = runner[r].mem
    BY <1>1, <1>3 DEF RunnerRecs, RunnerStates
  <2>3. /\ runner' \in [Runners -> RunnerRecs] /\ runner'[r].at = "final"
        /\ runner'[r].mem = runner[r].mem /\ runner'[r].state = s.status
        /\ \A q \in Runners : q # r => runner'[q] = runner[q]
    BY <2>1, <2>2, Moves DEF StabilityInv
  <2>4. /\ disk = [summary |-> disk.summary, state |-> disk.state, last |-> disk.last]
        /\ disk' = [summary |-> s, state |-> disk.state, last |-> disk.last]
    BY <2>1 DEF StabilityInv, StabilityTypes
  <2>5. StabilityTypes'
    BY <1>1, <1>3, <2>3, <2>4 DEF StabilityInv, StabilityTypes
  <2>6. LockInv' /\ SampleInv'
    BY <1>1, <2>3 DEF StabilityInv, LockInv, SampleInv, TargetReached, Holding
  <2>7. KnownInv'
    BY <1>1, <1>3, <2>3, <2>4 DEF StabilityInv, KnownInv
  <2>8. FinalInv'
    <3> SUFFICES ASSUME NEW q \in Runners, kind = "local", runner'[q].at = "final"
                 PROVE  /\ disk'.summary.status # "none"
                        /\ disk'.summary.cycles = runner'[q].mem /\ disk'.summary.status = runner'[q].state
      BY <1>1 DEF FinalInv
    <3>1. CASE q = r
      BY <1>3, <2>3, <2>4, <3>1
    <3>2. CASE q # r
      <4>1. disk.summary.status # "none" /\ disk.summary.cycles = runner[q].mem /\ disk.summary.status = runner[q].state
        BY <2>3, <3>2 DEF StabilityInv, FinalInv
      <4>2. disk.summary = s
        BY <1>4, <4>1 DEF MayWrite, NoSummary
      <4> QED
        BY <2>3, <2>4, <3>2, <4>1, <4>2
    <3> QED
      BY <3>1, <3>2
  <2>9. (\E q \in Runners : runner'[q].at = "append") <=> (\E q \in Runners : runner[q].at = "append")
    BY <1>1, <2>3
  <2>10. SpendInv'
    BY <1>1, <2>9 DEF StabilityInv, SpendInv
  <2>11. ReviewPasses => disk' = disk
    <3> SUFFICES ASSUME ReviewPasses PROVE disk' = disk
      OBVIOUS
    <3>1. kind = "local" /\ disk.summary.status # "none"
      BY PassedReview
    <3>2. disk.summary = s
      BY <1>4, <3>1 DEF MayWrite, NoSummary
    <3> QED
      BY <2>4, <3>2
  <2> QED
    BY <1>1, <2>5, <2>6, <2>7, <2>8, <2>10, <2>11, ReviewFrame DEF StabilityInv
<1>5. CASE ~ MayWrite(s)
  <2>1. disk' = disk /\ Move(r, Off)
    BY <1>2, <1>5 DEF WriteSummary
  <2> QED
    BY <1>1, <2>1, OffStep, ReviewFrame DEF StabilityInv, StabilityTypes, Holding
<1> QED
  BY <1>4, <1>5

\* The last status repeats the summary of its runner, which is the one on disk.
LEMMA FinalStep ==
  ASSUME StabilityInv, NEW r \in Runners, FinalStatus(r)
  PROVE  StabilityInv' /\ (ReviewPasses => ReviewPasses')
<1>1. /\ UNCHANGED <<kind, tick, log, cutShort, owner, paid, deaths>> /\ runner[r].at = "final"
      /\ disk' = [disk EXCEPT !.state = runner[r].state, !.last = Len(runner[r].mem)]
      /\ Move(r, Off)
  BY DEF FinalStatus
<1>2. disk' = [summary |-> disk.summary, state |-> runner[r].state, last |-> Len(runner[r].mem)]
  <2>1. disk = [summary |-> disk.summary, state |-> disk.state, last |-> disk.last]
    BY DEF StabilityInv, StabilityTypes
  <2> QED
    BY <1>1, <2>1, Zenon
<1>3. StabilityInv'
  BY <1>1, <1>2, OffStep DEF Holding
<1>4. ASSUME ReviewPasses PROVE ReviewPasses'
  <2>1. kind = "local" /\ disk.summary = [status |-> LocalStatus(log), cycles |-> log]
    BY <1>4, PassedReview
  <2>2. runner[r].mem = log /\ runner[r].state = disk.summary.status
    BY <1>1, <2>1 DEF StabilityInv, FinalInv
  <2>3. disk'.summary = disk.summary /\ disk'.last = Len(log) /\ disk'.state = disk.summary.status
    BY <1>2, <2>2
  <2> QED
    BY <1>1, <1>4, <2>3 DEF ReviewPasses, Summary, TargetReached, AllPassed, WindowPasses, LocalStatus
<1> QED
  BY <1>3, <1>4

\* A death may cut a line short only where no review passes, and costs one call.
LEMMA DieStep ==
  ASSUME StabilityInv, NEW r \in Runners, Die(r)
  PROVE  StabilityInv' /\ (ReviewPasses => ReviewPasses')
<1>1. /\ UNCHANGED <<kind, tick, log, disk, paid>> /\ deaths' = deaths + 1
      /\ Move(r, Off) /\ owner' = IF owner = r THEN 0 ELSE owner
      /\ cutShort' # cutShort => runner[r].at = "append"
  BY DEF Die
<1>2. /\ runner' \in [Runners -> RunnerRecs] /\ runner'[r].at = "off"
      /\ \A q \in Runners : q # r => runner'[q] = runner[q]
  BY <1>1, GoesOff DEF StabilityInv
<1>3. StabilityTypes'
  BY <1>1, <1>2 DEF StabilityInv, StabilityTypes
<1>4. LockInv' /\ KnownInv' /\ SampleInv' /\ FinalInv'
  BY <1>1, <1>2 DEF StabilityInv, LockInv, KnownInv, SampleInv, FinalInv, TargetReached, Holding
<1>5. SpendInv'
  <2>1. (\E q \in Runners : runner'[q].at = "append") => (\E q \in Runners : runner[q].at = "append")
    BY <1>2
  <2>2. paid \in Nat /\ deaths \in Nat /\ Len(log) \in Nat
    BY DEF StabilityInv, StabilityTypes
  <2> QED
    BY <1>1, <2>1, <2>2 DEF StabilityInv, SpendInv
<1>6. ASSUME ReviewPasses PROVE ReviewPasses'
  <2>1. cutShort' = cutShort
    BY <1>1, <1>6, PassedReview
  <2> QED
    BY <1>1, <1>6, <2>1, ReviewFrame
<1> QED
  BY <1>3, <1>4, <1>5, <1>6 DEF StabilityInv

\* The invariant holds at first and is kept, and so is a review that passes.
LEMMA StabilityInduction ==
  /\ StabilityInit => StabilityInv
  /\ StabilityInv /\ [StabilityNext]_stabilityVars => StabilityInv' /\ (ReviewPasses => ReviewPasses')
<1>1. ASSUME StabilityInit PROVE StabilityInv
  <2>1. /\ kind \in {"local", "remote"} /\ tick = 0 /\ log = <<>> /\ owner = 0 /\ paid = 0 /\ deaths = 0
        /\ runner = [r \in Runners |-> Off]
        /\ disk = [summary |-> NoSummary, state |-> "none", last |-> 0]
    BY <1>1 DEF StabilityInit
  <2>2. runner \in [Runners -> RunnerRecs] /\ \A r \in Runners : runner[r].at = "off"
    <3>1. Off \in RunnerRecs /\ Off.at = "off"
      BY OffIsRunner DEF Off, RunnerStates
    <3> QED
      BY <2>1, <3>1
  <2>3. disk.summary = [status |-> "none", cycles |-> <<>>] /\ <<>> \in Seq(Samples) /\ Len(log) = 0 /\ Len(<<>>) = 0
    BY <2>1 DEF NoSummary
  <2>4. StabilityTypes
    <3>1. /\ disk = [summary |-> disk.summary, state |-> disk.state, last |-> disk.last]
          /\ disk.summary = [status |-> disk.summary.status, cycles |-> disk.summary.cycles]
          /\ disk.summary.cycles \in Seq(Samples)
      <4>1. PICK s : s = NoSummary
        OBVIOUS
      <4>2. disk = [summary |-> s, state |-> "none", last |-> 0]
        BY <2>1, <4>1
      <4>3. disk = [summary |-> disk.summary, state |-> disk.state, last |-> disk.last] /\ disk.summary = s
        BY <4>2
      <4>4. s = [status |-> s.status, cycles |-> s.cycles] /\ s.cycles = <<>>
        BY <2>3, <4>3
      <4> QED
        BY <2>3, <4>3, <4>4
    <3>2. log \in Seq(Samples)
      BY <2>1, <2>3
    <3> QED
      BY <2>1, <2>2, <3>1, <3>2 DEF StabilityTypes
  <2>5. LockInv /\ KnownInv /\ SampleInv /\ FinalInv
    BY <2>1, <2>2, <2>3 DEF LockInv, KnownInv, SampleInv, FinalInv, Holding
  <2>6. SpendInv
    BY <2>1, <2>2, <2>3, StabilityAssumption DEF SpendInv
  <2> QED
    BY <2>4, <2>5, <2>6 DEF StabilityInv
<1>2. ASSUME StabilityInv, UNCHANGED stabilityVars PROVE StabilityInv' /\ (ReviewPasses => ReviewPasses')
  <2>1. UNCHANGED <<kind, tick, log, cutShort, owner, runner, disk, paid, deaths, starts>>
    BY <1>2 DEF stabilityVars
  <2>2. StabilityTypes' /\ LockInv' /\ KnownInv' /\ SampleInv' /\ FinalInv' /\ SpendInv'
    BY <1>2, <2>1 DEF StabilityInv, StabilityTypes, LockInv, KnownInv, SampleInv, FinalInv, SpendInv, TargetReached
  <2> QED
    BY <2>1, <2>2, ReviewFrame DEF StabilityInv
<1>3. ASSUME StabilityInv, StabilityNext PROVE StabilityInv' /\ (ReviewPasses => ReviewPasses')
  BY <1>3, StabilityTickStep, StabilityStartStep, LockStep, LoopStep, SampleStep, AppendStep, StatusStep, UnlockStep, SummaryStep,
     FinalStep, DieStep DEF StabilityNext
<1> QED
  BY <1>1, <1>2, <1>3

\* Evidence of a local run that passes its review passes it for ever, and the probes a
\* remote run has paid stay within its cap but for one per runner that died: for any number
\* of runners over one directory, whatever their limits and wherever they die.
THEOREM StabilityTheorem == StabilitySpec => StabilityHolds
<1>1. StabilityInv => SpendIsBounded
  BY StabilityAssumption DEF StabilityInv, SpendInv, SpendIsBounded, StabilityTypes, LockInv, SampleInv
<1>2. StabilityInv /\ [StabilityNext]_stabilityVars => [ReviewPasses => ReviewPasses']_stabilityVars
  BY StabilityInduction
<1> QED
  BY <1>1, <1>2, StabilityInduction, PTL DEF StabilitySpec, StabilityHolds

---------------------------------------------------------------------------
(* The console.  A token belongs to one session and is spent before        *)
(* anybody can hold it again; a key that has no receipt on file was either *)
(* never executed or cut short.                                            *)

SessionRecs == [state : {"unused", "open", "ended", "gone"}, expires : Nat, token : Nat]
Receipts == [status : {"none", "accepted", "rejected"}, kind : {"none", "propose", "rollback", "refresh"},
             content : SUBSET Settings]

ConsoleTypes ==
    /\ consoleClock \in Nat
    /\ sessions \in [SessionIds -> SessionRecs]
    /\ tokens \in Seq([session : SessionIds, expires : Nat])
    /\ loginFailures \in Seq(Nat) /\ Len(loginFailures) <= LoginAttempts
    /\ bundles \in [SUBSET Settings -> {"absent", "torn", "whole"}]
    /\ activationLog \in Seq([key : CommandKeys, content : SUBSET Settings])
    /\ activePointer \in (SUBSET Settings) \cup {NoPointer}
    /\ receipts \in [CommandKeys -> Receipts] /\ receiptRows \in [CommandKeys -> Receipts]
    /\ spent \in Seq([token : Nat, session : SessionIds, at : Nat])

\* A spent token was one of its session, in time, and nobody holds it any more.
TokenInv ==
    /\ \A s \in SessionIds : sessions[s].token # 0 =>
          /\ sessions[s].token \in DOMAIN tokens /\ tokens[sessions[s].token].session = s
          /\ \A i \in DOMAIN spent : spent[i].token # sessions[s].token
    /\ \A i \in DOMAIN spent :
          /\ spent[i].token \in DOMAIN tokens
          /\ tokens[spent[i].token].session = spent[i].session /\ spent[i].at < tokens[spent[i].token].expires
          /\ \A j \in DOMAIN spent : spent[j].token = spent[i].token => j = i

\* The pointer names a whole bundle that was logged; a log row without a receipt
\* on file is due to a cut.
StoreInv ==
    /\ activePointer # NoPointer =>
          bundles[activePointer] = "whole" /\ \E i \in DOMAIN activationLog : activationLog[i].content = activePointer
    /\ activationLog # <<>> =>
          \/ activePointer = activationLog[Len(activationLog)].content
          \/ activationLog[Len(activationLog)].key \in cuts
    /\ \A i, j \in DOMAIN activationLog : i # j /\ activationLog[i].key = activationLog[j].key => activationLog[i].key \in cuts
    /\ \A i \in DOMAIN activationLog : activationLog[i].key \notin cuts => receiptRows[activationLog[i].key] # NoReceipt

\* Memory is the file, but for a receipt whose append raised; what was accepted is there.
ReceiptInv ==
    \A k \in CommandKeys :
        /\ receipts[k] # receiptRows[k] => receiptRows[k] = NoReceipt /\ k \in cuts
        /\ receipts[k].status = "accepted" /\ receipts[k].kind = "propose" => bundles[receipts[k].content] # "absent"
        /\ receipts[k].status = "accepted" /\ receipts[k].kind = "rollback" =>
              \E i \in DOMAIN activationLog : activationLog[i] = [key |-> k, content |-> receipts[k].content]

ConsoleInv == ConsoleTypes /\ TokenInv /\ StoreInv /\ ReceiptInv

\* Pruning never makes the failures more.
LEMMA RecentIsFewer ==
  ASSUME ConsoleTypes
  PROVE  Recent \in Seq(Nat) /\ Len(Recent) <= Len(loginFailures)
<1> DEFINE old == {i \in DOMAIN loginFailures : consoleClock - loginFailures[i] >= LoginWindow}
           n == Len(loginFailures)
<1>1. loginFailures \in Seq(Nat) /\ n \in Nat /\ DOMAIN loginFailures = 1..n
  BY DEF ConsoleTypes
<1>2. IsFiniteSet(old) /\ Cardinality(old) \in Nat
  <2>1. IsFiniteSet(1..n)
    BY <1>1, FS_Interval
  <2>2. old \subseteq 1..n
    BY <1>1
  <2> HIDE DEF old
  <2> QED
    BY <2>1, <2>2, FS_Subset, FS_CardinalityType
<1> DEFINE k == Cardinality(old) + 1
<1>3. Recent = SubSeq(loginFailures, k, n) /\ k \in Nat \ {0}
  BY <1>2 DEF Recent
<1> HIDE DEF k, n, old
<1>4. \A i \in k..n : loginFailures[i] \in Nat
  BY <1>1, <1>3
<1>5. SubSeq(loginFailures, k, n) \in Seq(Nat) /\ Len(SubSeq(loginFailures, k, n)) <= n
  BY <1>1, <1>3, <1>4
<1> QED
  BY <1>3, <1>5 DEF n

\* The sequences with one more element, as functions.
LEMMA Grown ==
  ASSUME NEW T, NEW q \in Seq(T), NEW e \in T, NEW r, r = Append(q, e)
  PROVE  /\ r \in Seq(T) /\ Len(r) = Len(q) + 1 /\ DOMAIN r = 1..Len(r) /\ DOMAIN q = 1..Len(q) /\ Len(q) \in Nat
         /\ r[Len(r)] = e /\ \A i \in DOMAIN q : r[i] = q[i] /\ i \in DOMAIN r
         /\ \A i \in DOMAIN r : i \in DOMAIN q \/ i = Len(r)
         /\ r # <<>>
  BY AppendProperties

\* Tokens: a payment with a fitting token spends it for good.
LEMMA SpentOnce ==
  ASSUME ConsoleTypes, TokenInv, NEW s \in SessionIds, TokenFits(s),
         UNCHANGED tokens, sessions' \in [SessionIds -> SessionRecs],
         spent' = Append(spent, [token |-> sessions[s].token, session |-> s, at |-> consoleClock]),
         \A q \in SessionIds : sessions'[q].token \in {0, sessions[q].token}, sessions'[s].token = 0
  PROVE  TokenInv' /\ spent' \in Seq([token : Nat, session : SessionIds, at : Nat])
<1> DEFINE e == [token |-> sessions[s].token, session |-> s, at |-> consoleClock]
           T == [token : Nat, session : SessionIds, at : Nat]
<1>1. sessions[s].token # 0 /\ consoleClock < tokens[sessions[s].token].expires
  BY DEF TokenFits
<1>2. e \in T /\ e.token = sessions[s].token /\ e.session = s /\ e.at = consoleClock
  BY DEF ConsoleTypes, SessionRecs
<1>3. spent \in Seq(T) /\ spent' = Append(spent, e)
  BY DEF ConsoleTypes
<1> HIDE DEF e
<1>4. /\ spent' \in Seq(T) /\ DOMAIN spent' = 1..Len(spent') /\ DOMAIN spent = 1..Len(spent) /\ Len(spent) \in Nat
      /\ Len(spent') = Len(spent) + 1
      /\ spent'[Len(spent')] = e /\ \A i \in DOMAIN spent : spent'[i] = spent[i] /\ i \in DOMAIN spent'
      /\ \A i \in DOMAIN spent' : i \in DOMAIN spent \/ i = Len(spent')
  BY <1>2, <1>3, Grown
<1>5. \A q \in SessionIds : sessions'[q].token # 0 => q # s /\ sessions'[q].token = sessions[q].token
  OBVIOUS
<1>6. \A q \in SessionIds : q # s /\ sessions[q].token # 0 => sessions[q].token # sessions[s].token
  BY <1>1 DEF TokenInv
<1>7. \A q \in SessionIds : sessions'[q].token # 0 =>
          /\ sessions'[q].token \in DOMAIN tokens /\ tokens[sessions'[q].token].session = q
          /\ \A i \in DOMAIN spent' : spent'[i].token # sessions'[q].token
  BY <1>2, <1>4, <1>5, <1>6 DEF TokenInv
<1>8. \A i \in DOMAIN spent' :
          /\ spent'[i].token \in DOMAIN tokens
          /\ tokens[spent'[i].token].session = spent'[i].session /\ spent'[i].at < tokens[spent'[i].token].expires
  BY <1>1, <1>2, <1>4 DEF TokenInv
<1>9. \A i, j \in DOMAIN spent' : spent'[j].token = spent'[i].token => j = i
  BY <1>1, <1>2, <1>4 DEF TokenInv
<1> QED
  BY <1>4, <1>7, <1>8, <1>9 DEF TokenInv

\* Nothing spent and no token given out: tokens may only be lost.
LEMMA TokensKept ==
  ASSUME TokenInv, UNCHANGED <<tokens, spent>>,
         \A q \in SessionIds : sessions'[q].token \in {0, sessions[q].token}
  PROVE  TokenInv'
  BY DEF TokenInv
\* Files: a bundle that is there stays; a log row comes with the pointer, or with a cut.
LEMMA StoreKept ==
  ASSUME ConsoleTypes, StoreInv, NEW k \in CommandKeys, NEW c \in SUBSET Settings, receiptRows[k] = NoReceipt,
         cuts' \in {cuts, cuts \cup {k}},
         \A j \in CommandKeys : j # k => receiptRows'[j] = receiptRows[j],
         bundles' \in [SUBSET Settings -> {"absent", "torn", "whole"}],
         \A d \in SUBSET Settings : bundles[d] # "absent" => bundles'[d] = bundles[d],
         \/ UNCHANGED <<activationLog, activePointer>>
         \/ /\ activationLog' = Append(activationLog, [key |-> k, content |-> c]) /\ bundles'[c] = "whole"
            /\ activePointer' = c \/ (activePointer' = activePointer /\ k \in cuts')
            /\ k \in cuts' \/ receiptRows'[k] # NoReceipt
  PROVE  /\ StoreInv'
         /\ activationLog' \in Seq([key : CommandKeys, content : SUBSET Settings])
         /\ activePointer' \in (SUBSET Settings) \cup {NoPointer}
         /\ \A i \in DOMAIN activationLog : i \in DOMAIN activationLog' /\ activationLog'[i] = activationLog[i]
<1> DEFINE T == [key : CommandKeys, content : SUBSET Settings]
           e == [key |-> k, content |-> c]
<1>1. /\ activationLog \in Seq(T) /\ DOMAIN activationLog = 1..Len(activationLog) /\ Len(activationLog) \in Nat
      /\ activationLog # <<>> => Len(activationLog) \in DOMAIN activationLog
      /\ \A i \in DOMAIN activationLog : activationLog[i].key \in CommandKeys /\ activationLog[i].content \in SUBSET Settings
  <2>1. activationLog \in Seq(T)
    BY DEF ConsoleTypes
  <2>2. \A r \in T : r.key \in CommandKeys /\ r.content \in SUBSET Settings
    OBVIOUS
  <2> HIDE DEF T
  <2>3. \A i \in DOMAIN activationLog : activationLog[i] \in T
    BY <2>1
  <2> QED
    BY <2>1, <2>2, <2>3
<1>2. \A d \in SUBSET Settings : bundles[d] = "whole" => bundles'[d] = "whole"
  OBVIOUS
<1>3. \A i \in DOMAIN activationLog : activationLog[i].key \notin cuts => activationLog[i].key # k
  BY DEF StoreInv
<1>4. CASE UNCHANGED <<activationLog, activePointer>>
  <2>1. activePointer # NoPointer => bundles'[activePointer] = "whole"
    BY <1>2 DEF StoreInv, ConsoleTypes
  <2>2. \A i \in DOMAIN activationLog : activationLog[i].key \notin cuts' => receiptRows'[activationLog[i].key] # NoReceipt
    BY <1>1, <1>3 DEF StoreInv
  <2> QED
    BY <1>1, <1>4, <2>1, <2>2 DEF StoreInv, ConsoleTypes
<1>5. CASE /\ activationLog' = Append(activationLog, e) /\ bundles'[c] = "whole"
           /\ activePointer' = c \/ (activePointer' = activePointer /\ k \in cuts')
           /\ k \in cuts' \/ receiptRows'[k] # NoReceipt
  <2>1. e \in T /\ e.key = k /\ e.content = c
    OBVIOUS
  <2>2. activationLog' = Append(activationLog, e)
    BY <1>5
  <2> HIDE DEF e, T
  <2>3. /\ activationLog' \in Seq(T) /\ DOMAIN activationLog' = 1..Len(activationLog')
        /\ Len(activationLog') = Len(activationLog) + 1 /\ activationLog' # <<>>
        /\ activationLog'[Len(activationLog')] = e
        /\ \A i \in DOMAIN activationLog : activationLog'[i] = activationLog[i] /\ i \in DOMAIN activationLog'
        /\ \A i \in DOMAIN activationLog' : i \in DOMAIN activationLog \/ i = Len(activationLog')
    <3>1. activationLog \in Seq(T) /\ e \in T
      BY <1>1, <2>1
    <3> QED
      BY <3>1, <2>2, Grown
  <2>4. Len(activationLog') \in DOMAIN activationLog' /\ Len(activationLog') \notin DOMAIN activationLog
    BY <1>1, <2>3
  <2>5. activePointer' # NoPointer =>
          bundles'[activePointer'] = "whole" /\ \E i \in DOMAIN activationLog' : activationLog'[i].content = activePointer'
    <3>1. CASE activePointer' = c
      BY <1>5, <2>1, <2>3, <2>4, <3>1
    <3>2. CASE activePointer' = activePointer
      BY <1>2, <2>3, <3>2 DEF StoreInv, ConsoleTypes
    <3> QED
      BY <1>5, <3>1, <3>2
  <2>6. \/ activePointer' = activationLog'[Len(activationLog')].content
        \/ activationLog'[Len(activationLog')].key \in cuts'
    BY <1>5, <2>1, <2>3
  <2>7. \A i, j \in DOMAIN activationLog' : i # j /\ activationLog'[i].key = activationLog'[j].key => activationLog'[i].key \in cuts'
    <3>1. \A i \in DOMAIN activationLog : activationLog[i].key = k => k \in cuts'
      BY <1>3
    <3> QED
      BY <2>1, <2>3, <3>1 DEF StoreInv
  <2>8. ASSUME NEW i \in DOMAIN activationLog', activationLog'[i].key \notin cuts'
        PROVE  receiptRows'[activationLog'[i].key] # NoReceipt
    <3>1. CASE i \in DOMAIN activationLog
      BY <1>1, <1>3, <2>3, <2>8, <3>1 DEF StoreInv
    <3>2. CASE i = Len(activationLog')
      BY <1>5, <2>1, <2>3, <2>8, <3>2
    <3> QED
      BY <2>3, <3>1, <3>2
  <2>9. activationLog' \in Seq([key : CommandKeys, content : SUBSET Settings])
    BY <2>3 DEF T
  <2> QED
    BY <1>5, <2>3, <2>5, <2>6, <2>7, <2>8, <2>9 DEF StoreInv, ConsoleTypes
<1> QED
  BY <1>4, <1>5

\* Receipts: a key gets one in memory and, unless the append raises, on file.
LEMMA ReceiptsKept ==
  ASSUME ConsoleTypes, ReceiptInv, NEW k \in CommandKeys, receiptRows[k] = NoReceipt,
         cuts' \in {cuts, cuts \cup {k}}, receipts' \in [CommandKeys -> Receipts],
         \A j \in CommandKeys : j # k => receiptRows'[j] = receiptRows[j] /\ receipts'[j] \in {receipts[j], receiptRows[j]},
         receiptRows'[k] \in {NoReceipt, receipts'[k]},
         receipts'[k] # receiptRows'[k] => k \in cuts',
         bundles' \in [SUBSET Settings -> {"absent", "torn", "whole"}],
         \A d \in SUBSET Settings : bundles[d] # "absent" => bundles'[d] = bundles[d],
         \A i \in DOMAIN activationLog : i \in DOMAIN activationLog' /\ activationLog'[i] = activationLog[i],
         receipts'[k].status = "accepted" /\ receipts'[k].kind = "propose" => bundles'[receipts'[k].content] # "absent",
         receipts'[k].status = "accepted" /\ receipts'[k].kind = "rollback" =>
            \E i \in DOMAIN activationLog' : activationLog'[i] = [key |-> k, content |-> receipts'[k].content]
  PROVE  ReceiptInv'
<1> SUFFICES ASSUME NEW j \in CommandKeys, j # k
             PROVE  /\ receipts'[j] # receiptRows'[j] => receiptRows'[j] = NoReceipt /\ j \in cuts'
                    /\ receipts'[j].status = "accepted" /\ receipts'[j].kind = "propose" => bundles'[receipts'[j].content] # "absent"
                    /\ receipts'[j].status = "accepted" /\ receipts'[j].kind = "rollback" =>
                          \E i \in DOMAIN activationLog' : activationLog'[i] = [key |-> j, content |-> receipts'[j].content]
  BY DEF ReceiptInv
<1>1. receiptRows[j] \in {receipts[j], NoReceipt} /\ receipts[j].content \in SUBSET Settings
  BY DEF ReceiptInv, ConsoleTypes, Receipts
<1>2. NoReceipt.status = "none"
  BY DEF NoReceipt
<1>3. receipts'[j] = receipts[j] \/ (receipts'[j] = NoReceipt /\ receiptRows[j] = NoReceipt)
  BY <1>1
<1>4. CASE receipts'[j] = receipts[j]
  BY <1>1, <1>4 DEF ReceiptInv
<1>5. CASE receipts'[j] = NoReceipt /\ receiptRows[j] = NoReceipt
  BY <1>2, <1>5
<1> QED
  BY <1>3, <1>4, <1>5
\* The three kinds of a command name contents.
LEMMA NamedContents ==
  ASSUME ConsoleTypes, NEW what \in {"propose", "rollback", "refresh"}, NEW c \in Named(what)
  PROVE  c \in SUBSET Settings
<1>1. Active \in SUBSET Settings
  BY DEF Active, ConsoleTypes
<1> QED
  BY <1>1 DEF Named

\* What an execution does to receipts and cuts, and to the store.
LEMMA ExecuteFacts ==
  ASSUME ConsoleTypes, NEW k \in CommandKeys, NEW what \in {"propose", "rollback", "refresh"}, NEW c \in SUBSET Settings,
         NEW end \in {"opened", "logged", "remembered", "recorded"}, Execute(k, what, c, end)
  PROVE  \E r \in Receipts :
            /\ r.status \in {"accepted", "rejected"} /\ r.kind = what /\ r.content = c
            /\ r.status = "accepted" /\ what = "rollback" => bundles[c] = "whole" /\ end # "logged"
            /\ receipts' = IF end = "opened" THEN receipts ELSE [receipts EXCEPT ![k] = r]
            /\ receiptRows' = IF end \in {"recorded", "logged"} THEN [receiptRows EXCEPT ![k] = r] ELSE receiptRows
            /\ cuts' = IF end = "recorded" THEN cuts ELSE cuts \cup {k}
            /\ end = "opened" => what = "propose" /\ bundles[c] = "absent"
            /\ end = "logged" => what = "rollback" /\ bundles[c] = "whole"
            /\ CASE what = "propose" -> Create(c, end) /\ UNCHANGED <<activationLog, activePointer>>
                 [] what = "rollback" /\ bundles[c] = "whole" -> Activate(k, c, end) /\ UNCHANGED bundles
                 [] OTHER -> UNCHANGED <<bundles, activationLog, activePointer>>
<1> DEFINE refused == what = "rollback" /\ (~Readable(c) \/ end = "logged")
           r == [status |-> IF refused THEN "rejected" ELSE "accepted", kind |-> what, content |-> c]
<1>1. r \in Receipts /\ r.status \in {"accepted", "rejected"} /\ r.kind = what /\ r.content = c
  BY DEF Receipts
<1>2. r.status = "accepted" /\ what = "rollback" => bundles[c] = "whole" /\ end # "logged"
  BY DEF Readable
<1>3. receipts' = IF end = "opened" THEN receipts ELSE [receipts EXCEPT ![k] = r]
  <2>1. receipts' = IF end \in {"logged", "remembered", "recorded"} THEN [receipts EXCEPT ![k] = r] ELSE receipts
    BY DEF Execute
  <2> HIDE DEF r
  <2> QED
    BY <2>1
<1>4. receiptRows' = IF end \in {"recorded", "logged"} THEN [receiptRows EXCEPT ![k] = r] ELSE receiptRows
  BY DEF Execute
<1>5. cuts' = IF end = "recorded" THEN cuts ELSE cuts \cup {k}
  BY DEF Execute
<1>6. /\ end = "opened" => what = "propose" /\ bundles[c] = "absent"
      /\ end = "logged" => what = "rollback" /\ bundles[c] = "whole"
  BY DEF Execute, Possible, Readable
<1>7. /\ CASE what = "propose" -> Create(c, end) /\ UNCHANGED <<activationLog, activePointer>>
           [] what = "rollback" /\ bundles[c] = "whole" -> Activate(k, c, end) /\ UNCHANGED bundles
           [] OTHER -> UNCHANGED <<bundles, activationLog, activePointer>>
  BY DEF Execute, Readable, store
<1> HIDE DEF r
<1> QED
  BY <1>1, <1>2, <1>3, <1>4, <1>5, <1>6, <1>7

\* A new bundle is a file of its own.
LEMMA CreateFacts ==
  ASSUME ConsoleTypes, NEW c \in SUBSET Settings, NEW end, Create(c, end)
  PROVE  /\ bundles' \in [SUBSET Settings -> {"absent", "torn", "whole"}]
         /\ \A d \in SUBSET Settings : bundles[d] # "absent" => bundles'[d] = bundles[d]
         /\ bundles'[c] # "absent"
  BY DEF Create, ConsoleTypes

\* A command with a key that has no receipt.
LEMMA ExecuteStep ==
  ASSUME ConsoleInv, NEW k \in CommandKeys, NEW what \in {"propose", "rollback", "refresh"}, NEW c \in SUBSET Settings,
         NEW end \in {"opened", "logged", "remembered", "recorded"}, receipts[k] = NoReceipt, Execute(k, what, c, end)
  PROVE  /\ StoreInv' /\ ReceiptInv'
         /\ bundles' \in [SUBSET Settings -> {"absent", "torn", "whole"}]
         /\ activationLog' \in Seq([key : CommandKeys, content : SUBSET Settings])
         /\ activePointer' \in (SUBSET Settings) \cup {NoPointer}
         /\ receipts' \in [CommandKeys -> Receipts] /\ receiptRows' \in [CommandKeys -> Receipts]
<1>1. ConsoleTypes /\ StoreInv /\ ReceiptInv
  BY DEF ConsoleInv
<1>2. PICK r \in Receipts :
            /\ r.status \in {"accepted", "rejected"} /\ r.kind = what /\ r.content = c
            /\ r.status = "accepted" /\ what = "rollback" => bundles[c] = "whole" /\ end # "logged"
            /\ receipts' = IF end = "opened" THEN receipts ELSE [receipts EXCEPT ![k] = r]
            /\ receiptRows' = IF end \in {"recorded", "logged"} THEN [receiptRows EXCEPT ![k] = r] ELSE receiptRows
            /\ cuts' = IF end = "recorded" THEN cuts ELSE cuts \cup {k}
            /\ end = "opened" => what = "propose" /\ bundles[c] = "absent"
            /\ end = "logged" => what = "rollback" /\ bundles[c] = "whole"
            /\ CASE what = "propose" -> Create(c, end) /\ UNCHANGED <<activationLog, activePointer>>
                 [] what = "rollback" /\ bundles[c] = "whole" -> Activate(k, c, end) /\ UNCHANGED bundles
                 [] OTHER -> UNCHANGED <<bundles, activationLog, activePointer>>
  BY <1>1, ExecuteFacts
<1>3. receiptRows[k] = NoReceipt
  BY <1>1 DEF ReceiptInv
<1>4. NoReceipt \in Receipts /\ NoReceipt.status = "none" /\ r # NoReceipt
  BY <1>2 DEF NoReceipt, Receipts
<1>5. receipts \in [CommandKeys -> Receipts] /\ receiptRows \in [CommandKeys -> Receipts]
      /\ bundles \in [SUBSET Settings -> {"absent", "torn", "whole"}]
  BY <1>1 DEF ConsoleTypes
<1>6. /\ receipts' \in [CommandKeys -> Receipts] /\ receiptRows' \in [CommandKeys -> Receipts]
      /\ \A j \in CommandKeys : j # k => receiptRows'[j] = receiptRows[j] /\ receipts'[j] = receipts[j]
      /\ receipts'[k] = IF end = "opened" THEN NoReceipt ELSE r
      /\ receiptRows'[k] = IF end \in {"recorded", "logged"} THEN r ELSE NoReceipt
  BY <1>2, <1>3, <1>5
<1>7. cuts' \in {cuts, cuts \cup {k}} /\ (end # "recorded" => k \in cuts')
  BY <1>2
<1>8. receipts'[k] # receiptRows'[k] => k \in cuts'
  BY <1>6, <1>7
<1>9. CASE what = "propose"
  <2>1. Create(c, end) /\ UNCHANGED <<activationLog, activePointer>>
    BY <1>2, <1>9
  <2>2. /\ bundles' \in [SUBSET Settings -> {"absent", "torn", "whole"}]
        /\ \A d \in SUBSET Settings : bundles[d] # "absent" => bundles'[d] = bundles[d]
        /\ bundles'[c] # "absent"
    BY <1>1, <2>1, CreateFacts
  <2>3. /\ StoreInv'
        /\ activationLog' \in Seq([key : CommandKeys, content : SUBSET Settings])
        /\ activePointer' \in (SUBSET Settings) \cup {NoPointer}
        /\ \A i \in DOMAIN activationLog : i \in DOMAIN activationLog' /\ activationLog'[i] = activationLog[i]
    BY <1>1, <1>3, <1>6, <1>7, <2>1, <2>2, StoreKept
  <2>4. /\ receipts'[k].status = "accepted" /\ receipts'[k].kind = "propose" => bundles'[receipts'[k].content] # "absent"
        /\ ~ (receipts'[k].status = "accepted" /\ receipts'[k].kind = "rollback")
    BY <1>2, <1>4, <1>6, <1>9, <2>2
  <2>5. ReceiptInv'
    BY <1>1, <1>3, <1>6, <1>7, <1>8, <2>2, <2>3, <2>4, ReceiptsKept
  <2> QED
    BY <1>6, <2>2, <2>3, <2>5
<1>10. CASE what = "rollback" /\ bundles[c] = "whole"
  <2>1. Activate(k, c, end) /\ UNCHANGED bundles
    BY <1>2, <1>10
  <2>2. /\ activationLog' = Append(activationLog, [key |-> k, content |-> c])
        /\ activePointer' = c \/ (activePointer' = activePointer /\ k \in cuts')
        /\ k \in cuts' \/ receiptRows'[k] # NoReceipt
        /\ end # "opened"
    BY <1>2, <1>4, <1>6, <1>7, <1>10, <2>1 DEF Activate
  <2>3. /\ StoreInv'
        /\ activationLog' \in Seq([key : CommandKeys, content : SUBSET Settings])
        /\ activePointer' \in (SUBSET Settings) \cup {NoPointer}
        /\ \A i \in DOMAIN activationLog : i \in DOMAIN activationLog' /\ activationLog'[i] = activationLog[i]
    BY <1>1, <1>3, <1>5, <1>6, <1>7, <1>10, <2>1, <2>2, StoreKept
  <2>4. \E i \in DOMAIN activationLog' : activationLog'[i] = [key |-> k, content |-> c]
    <3> DEFINE T == [key : CommandKeys, content : SUBSET Settings]
               e == [key |-> k, content |-> c]
    <3>1. activationLog \in Seq(T) /\ e \in T
      BY <1>1 DEF ConsoleTypes
    <3>2. activationLog' = Append(activationLog, e)
      BY <2>2
    <3> HIDE DEF e, T
    <3>3. activationLog'[Len(activationLog')] = e /\ Len(activationLog') \in DOMAIN activationLog'
      BY <3>1, <3>2, Grown
    <3> QED
      BY <3>3 DEF e
  <2>5. /\ ~ (receipts'[k].status = "accepted" /\ receipts'[k].kind = "propose")
        /\ receipts'[k].content = c
    BY <1>2, <1>6, <1>10, <2>2
  <2>6. ReceiptInv'
    BY <1>1, <1>3, <1>5, <1>6, <1>7, <1>8, <2>1, <2>3, <2>4, <2>5, ReceiptsKept
  <2> QED
    BY <1>5, <1>6, <2>1, <2>3, <2>6
<1>11. CASE what # "propose" /\ ~ (what = "rollback" /\ bundles[c] = "whole")
  <2>1. UNCHANGED <<bundles, activationLog, activePointer>>
    BY <1>2, <1>11
  <2>2. /\ StoreInv'
        /\ activationLog' \in Seq([key : CommandKeys, content : SUBSET Settings])
        /\ activePointer' \in (SUBSET Settings) \cup {NoPointer}
        /\ \A i \in DOMAIN activationLog : i \in DOMAIN activationLog' /\ activationLog'[i] = activationLog[i]
    BY <1>1, <1>3, <1>5, <1>6, <1>7, <2>1, StoreKept
  <2>3. /\ ~ (receipts'[k].status = "accepted" /\ receipts'[k].kind = "propose")
        /\ ~ (receipts'[k].status = "accepted" /\ receipts'[k].kind = "rollback")
    BY <1>2, <1>4, <1>6, <1>11
  <2>4. ReceiptInv'
    BY <1>1, <1>3, <1>5, <1>6, <1>7, <1>8, <2>1, <2>2, <2>3, ReceiptsKept
  <2> QED
    BY <1>5, <1>6, <2>1, <2>2, <2>4
<1> QED
  BY <1>9, <1>10, <1>11
\* Whatever leaves store, receipts and cuts alone.
LEMMA AccessKept ==
  ASSUME ConsoleInv, UNCHANGED <<receipts, receiptRows, bundles, activationLog, activePointer, cuts>>
  PROVE  /\ StoreInv' /\ ReceiptInv'
         /\ bundles' \in [SUBSET Settings -> {"absent", "torn", "whole"}]
         /\ activationLog' \in Seq([key : CommandKeys, content : SUBSET Settings])
         /\ activePointer' \in (SUBSET Settings) \cup {NoPointer}
         /\ receipts' \in [CommandKeys -> Receipts] /\ receiptRows' \in [CommandKeys -> Receipts]
  BY DEF ConsoleInv, ConsoleTypes, StoreInv, ReceiptInv

\* The limiter counts one failure more only while it allows it.
LEMMA FailureCounted ==
  ASSUME ConsoleTypes, Allowed, RecordFailure
  PROVE  loginFailures' \in Seq(Nat) /\ Len(loginFailures') <= LoginAttempts
<1>1. Recent \in Seq(Nat) /\ Len(Recent) < LoginAttempts /\ consoleClock \in Nat /\ LoginAttempts \in Nat
  BY RecentIsFewer, ConsoleAssumption DEF Allowed, ConsoleTypes
<1>2. loginFailures' = Append(Recent, consoleClock)
  BY DEF RecordFailure
<1> QED
  BY <1>1, <1>2, Grown

\* A limiter that was reset, or lost with the process, has no failures.
LEMMA NoFailures ==
  ASSUME loginFailures' = <<>>
  PROVE  loginFailures' \in Seq(Nat) /\ Len(loginFailures') <= LoginAttempts
  BY ConsoleAssumption

\* A session that is looked up may have ended; it holds no token it did not hold before.
LEMMA SessionFacts ==
  ASSUME ConsoleTypes, NEW s \in SessionIds
  PROVE  /\ Get(s) \in SessionRecs /\ Get(s).token \in {0, sessions[s].token}
         /\ Consume(s) \in SessionRecs /\ Consume(s).token = 0
         /\ Ended \in SessionRecs /\ Ended.token = 0 /\ Unused \in SessionRecs /\ Unused.token = 0
         /\ Forgotten \in SessionRecs /\ Forgotten.token = 0
  BY DEF ConsoleTypes, Get, Consume, Ended, Unused, Forgotten, SessionRecs

\* After a restart no session holds a token.
LEMMA ForgetFacts ==
  ASSUME ConsoleTypes, Forget
  PROVE  /\ sessions' \in [SessionIds -> SessionRecs] /\ \A q \in SessionIds : sessions'[q].token = 0
         /\ loginFailures' \in Seq(Nat) /\ Len(loginFailures') <= LoginAttempts
<1>1. Unused \in SessionRecs /\ Unused.token = 0 /\ Forgotten \in SessionRecs /\ Forgotten.token = 0
  BY DEF Ended, Unused, Forgotten, SessionRecs
<1>2. sessions' = [s \in SessionIds |-> IF sessions[s] = Unused THEN Unused ELSE Forgotten] /\ loginFailures' = <<>>
  BY DEF Forget
<1> QED
  BY <1>1, <1>2, NoFailures

\* Steps that only move sessions and the limiter.
LEMMA SessionSteps ==
  ASSUME ConsoleInv, NEW s \in SessionIds,
         Logout(s) \/ Forbidden(s) \/ \E right \in BOOLEAN : Login(s, right)
  PROVE  ConsoleInv'
<1>1. UNCHANGED <<tokens, spent, receipts, receiptRows, bundles, activationLog, activePointer, cuts>>
  BY DEF Logout, Forbidden, Login, access, store
<1>2. ConsoleTypes /\ TokenInv
  BY DEF ConsoleInv
<1>3. consoleClock' \in Nat
  BY <1>2 DEF Logout, Forbidden, Login, ConsoleTypes
<1>4. /\ sessions' \in [SessionIds -> SessionRecs]
      /\ \A q \in SessionIds : sessions'[q].token \in {0, sessions[q].token}
  <2>2. CASE Logout(s)
    BY <1>2, <2>2, SessionFacts DEF Logout, ConsoleTypes
  <2>3. CASE Forbidden(s)
    BY <1>2, <2>3, SessionFacts DEF Forbidden, ConsoleTypes
  <2>4. CASE \E right \in BOOLEAN : Login(s, right)
    <3>1. \/ sessions' = sessions
          \/ sessions' = [sessions EXCEPT ![s] = [state |-> "open", expires |-> consoleClock + SessionTtl, token |-> 0]]
      BY <2>4 DEF Login
    <3>2. SessionTtl \in Nat /\ consoleClock \in Nat
      BY <1>2, ConsoleAssumption DEF ConsoleTypes
    <3> DEFINE f == [state |-> "open", expires |-> consoleClock + SessionTtl, token |-> 0]
    <3>3. f \in SessionRecs /\ f.token = 0
      BY <3>2 DEF SessionRecs
    <3> HIDE DEF f
    <3> QED
      BY <1>2, <3>1, <3>3 DEF ConsoleTypes, f
  <2> QED
    BY <2>2, <2>3, <2>4
<1>5. loginFailures' \in Seq(Nat) /\ Len(loginFailures') <= LoginAttempts
  <2>1. loginFailures' = loginFailures \/ loginFailures' = <<>> \/ (Allowed /\ RecordFailure)
    BY DEF Logout, Forbidden, Login, access, ResetLimiter
  <2> QED
    BY <1>2, <2>1, FailureCounted, NoFailures DEF ConsoleTypes
<1>6. TokenInv'
  BY <1>1, <1>2, <1>4, TokensKept
<1>7. spent' \in Seq([token : Nat, session : SessionIds, at : Nat]) /\ tokens' \in Seq([session : SessionIds, expires : Nat])
  BY <1>1, <1>2 DEF ConsoleTypes
<1> QED
  BY <1>1, <1>3, <1>4, <1>5, <1>6, <1>7, AccessKept DEF ConsoleInv, ConsoleTypes

\* A step-up gives a live session a token nobody has had.
LEMMA StepUpStep ==
  ASSUME ConsoleInv, NEW s \in SessionIds, NEW right \in BOOLEAN, StepUp(s, right)
  PROVE  ConsoleInv'
<1> DEFINE T == [session : SessionIds, expires : Nat]
           e == [session |-> s, expires |-> consoleClock + StepUpTtl]
<1>1. UNCHANGED <<spent, receipts, receiptRows, bundles, activationLog, activePointer, cuts, consoleClock>>
  BY DEF StepUp, store
<1>2. ConsoleTypes /\ TokenInv
  BY DEF ConsoleInv
<1>3. tokens \in Seq(T) /\ consoleClock \in Nat /\ sessions \in [SessionIds -> SessionRecs] /\ DOMAIN tokens = 1..Len(tokens)
  BY <1>2 DEF ConsoleTypes
<1>4. e \in T /\ e.session = s
  BY <1>3, ConsoleAssumption
<1>5. loginFailures' \in Seq(Nat) /\ Len(loginFailures') <= LoginAttempts
  <2>1. loginFailures' = loginFailures \/ loginFailures' = <<>> \/ (Allowed /\ RecordFailure)
    BY DEF StepUp, access, ResetLimiter
  <2> QED
    BY <1>2, <2>1, FailureCounted, NoFailures DEF ConsoleTypes
<1>6. \/ UNCHANGED <<sessions, tokens>>
      \/ tokens' = tokens /\ sessions' = [sessions EXCEPT ![s] = Get(s)]
      \/ /\ tokens' = Append(tokens, e)
         /\ sessions' = [sessions EXCEPT ![s] = [Get(s) EXCEPT !.token = Len(tokens) + 1]]
  BY DEF StepUp, access
<1> HIDE DEF e, T
<1>7. CASE UNCHANGED <<sessions, tokens>>
  <2>1. TokenInv'
    BY <1>1, <1>2, <1>3, <1>7 DEF TokenInv
  <2> QED
    BY <1>1, <1>2, <1>5, <1>7, <2>1, AccessKept DEF ConsoleInv, ConsoleTypes
<1>8. CASE tokens' = tokens /\ sessions' = [sessions EXCEPT ![s] = Get(s)]
  <2>1. sessions' \in [SessionIds -> SessionRecs] /\ \A q \in SessionIds : sessions'[q].token \in {0, sessions[q].token}
    BY <1>2, <1>3, <1>8, SessionFacts
  <2>2. TokenInv'
    BY <1>1, <1>2, <1>8, <2>1, TokensKept
  <2> QED
    BY <1>1, <1>2, <1>5, <1>8, <2>1, <2>2, AccessKept DEF ConsoleInv, ConsoleTypes
<1>9. CASE /\ tokens' = Append(tokens, e)
           /\ sessions' = [sessions EXCEPT ![s] = [Get(s) EXCEPT !.token = Len(tokens) + 1]]
  <2>1. /\ tokens' \in Seq(T) /\ Len(tokens') = Len(tokens) + 1 /\ DOMAIN tokens' = 1..Len(tokens') /\ Len(tokens) \in Nat
        /\ tokens'[Len(tokens')] = e /\ \A i \in DOMAIN tokens : tokens'[i] = tokens[i] /\ i \in DOMAIN tokens'
    BY <1>3, <1>4, <1>9, Grown
  <2> DEFINE f == [Get(s) EXCEPT !.token = Len(tokens) + 1]
  <2>2. f \in SessionRecs /\ f.token = Len(tokens) + 1
    BY <1>2, <2>1, SessionFacts DEF SessionRecs
  <2> HIDE DEF f
  <2>3. /\ sessions' \in [SessionIds -> SessionRecs] /\ sessions'[s].token = Len(tokens) + 1
        /\ \A q \in SessionIds : q # s => sessions'[q] = sessions[q]
    BY <1>3, <1>9, <2>2 DEF f
  <2>4. \A q \in SessionIds : sessions'[q].token # 0 =>
          /\ sessions'[q].token \in DOMAIN tokens' /\ tokens'[sessions'[q].token].session = q
          /\ \A i \in DOMAIN spent' : spent'[i].token # sessions'[q].token
    <3> SUFFICES ASSUME NEW q \in SessionIds, sessions'[q].token # 0
                 PROVE  /\ sessions'[q].token \in DOMAIN tokens' /\ tokens'[sessions'[q].token].session = q
                        /\ \A i \in DOMAIN spent : spent[i].token # sessions'[q].token
      BY <1>1
    <3>1. CASE q = s
      <4>1. \A i \in DOMAIN spent : spent[i].token # Len(tokens) + 1
        BY <1>2, <1>3, <2>1 DEF TokenInv
      <4> QED
        BY <1>4, <2>1, <2>3, <3>1, <4>1
    <3>2. CASE q # s
      BY <1>2, <2>1, <2>3, <3>2 DEF TokenInv
    <3> QED
      BY <3>1, <3>2
  <2>5. \A i \in DOMAIN spent' :
          /\ spent'[i].token \in DOMAIN tokens'
          /\ tokens'[spent'[i].token].session = spent'[i].session /\ spent'[i].at < tokens'[spent'[i].token].expires
          /\ \A j \in DOMAIN spent' : spent'[j].token = spent'[i].token => j = i
    BY <1>1, <1>2, <2>1 DEF TokenInv
  <2>6. TokenInv'
    BY <2>4, <2>5 DEF TokenInv
  <2> QED
    BY <1>1, <1>2, <1>5, <2>1, <2>3, <2>6, AccessKept DEF ConsoleInv, ConsoleTypes, T
<1> QED
  BY <1>6, <1>7, <1>8, <1>9
\* An executed command: its token is spent, its effects are of one key.
LEMMA CommandStep ==
  ASSUME ConsoleInv, NEW s \in SessionIds, NEW k \in CommandKeys, NEW what \in {"propose", "rollback", "refresh"},
         Command(s, k, what)
  PROVE  ConsoleInv'
<1>1. UNCHANGED <<consoleClock, tokens, loginFailures>> /\ receipts[k] = NoReceipt
  BY DEF Command
<1>2. ConsoleTypes /\ TokenInv
  BY DEF ConsoleInv
<1>3. PICK c \in Named(what), end \in {"opened", "logged", "remembered", "recorded"} : Execute(k, what, c, end)
  BY DEF Command
<1>4. c \in SUBSET Settings
  BY <1>2, NamedContents
<1>5. /\ StoreInv' /\ ReceiptInv'
      /\ bundles' \in [SUBSET Settings -> {"absent", "torn", "whole"}]
      /\ activationLog' \in Seq([key : CommandKeys, content : SUBSET Settings])
      /\ activePointer' \in (SUBSET Settings) \cup {NoPointer}
      /\ receipts' \in [CommandKeys -> Receipts] /\ receiptRows' \in [CommandKeys -> Receipts]
  BY <1>1, <1>3, <1>4, ExecuteStep
<1>6. /\ TokenInv' /\ sessions' \in [SessionIds -> SessionRecs]
      /\ spent' \in Seq([token : Nat, session : SessionIds, at : Nat])
  <2>1. CASE Sensitive(what)
    <3>1. /\ TokenFits(s) /\ sessions' = [sessions EXCEPT ![s] = Consume(s)]
          /\ spent' = Append(spent, [token |-> sessions[s].token, session |-> s, at |-> consoleClock])
      BY <2>1 DEF Command, Pay
    <3>2. /\ sessions' \in [SessionIds -> SessionRecs] /\ sessions'[s].token = 0
          /\ \A q \in SessionIds : sessions'[q].token \in {0, sessions[q].token}
      BY <1>2, <3>1, SessionFacts DEF ConsoleTypes
    <3> QED
      BY <1>1, <1>2, <3>1, <3>2, SpentOnce
  <2>2. CASE ~ Sensitive(what)
    <3>1. UNCHANGED <<sessions, spent>>
      BY <2>2 DEF Command, Pay
    <3> QED
      BY <1>1, <1>2, <3>1 DEF TokenInv, ConsoleTypes
  <2> QED
    BY <2>1, <2>2
<1> QED
  BY <1>1, <1>2, <1>5, <1>6 DEF ConsoleInv, ConsoleTypes

\* A process that dies in a command cuts it short; the next one knows what is on file.
LEMMA DiesStep ==
  ASSUME ConsoleInv, NEW s \in SessionIds, NEW k \in CommandKeys, NEW what \in {"propose", "rollback"}, Dies(s, k, what)
  PROVE  ConsoleInv'
<1>1. /\ UNCHANGED <<consoleClock, tokens, receiptRows>> /\ receipts[k] = NoReceipt
      /\ TokenFits(s) /\ Forget /\ receipts' = receiptRows /\ cuts' = cuts \cup {k}
      /\ spent' = Append(spent, [token |-> sessions[s].token, session |-> s, at |-> consoleClock])
  BY DEF Dies
<1>2. ConsoleTypes /\ TokenInv /\ StoreInv /\ ReceiptInv
  BY DEF ConsoleInv
<1>3. receiptRows[k] = NoReceipt /\ NoReceipt.status = "none"
  BY <1>1, <1>2 DEF ReceiptInv, NoReceipt
<1>4. PICK c \in Named(what), end \in {"opened", "logged", "stored"} :
          IF what = "propose" THEN Create(c, end) /\ UNCHANGED <<activationLog, activePointer>>
          ELSE Readable(c) /\ Activate(k, c, end) /\ UNCHANGED bundles
  BY DEF Dies
<1>5. c \in SUBSET Settings
  BY <1>2, NamedContents
<1>6. /\ sessions' \in [SessionIds -> SessionRecs] /\ \A q \in SessionIds : sessions'[q].token = 0
      /\ loginFailures' \in Seq(Nat) /\ Len(loginFailures') <= LoginAttempts
  BY <1>1, <1>2, ForgetFacts
<1>7. TokenInv' /\ spent' \in Seq([token : Nat, session : SessionIds, at : Nat])
  BY <1>1, <1>2, <1>6, SpentOnce
<1>8. /\ bundles' \in [SUBSET Settings -> {"absent", "torn", "whole"}]
      /\ \A d \in SUBSET Settings : bundles[d] # "absent" => bundles'[d] = bundles[d]
      /\ \/ UNCHANGED <<activationLog, activePointer>>
         \/ /\ activationLog' = Append(activationLog, [key |-> k, content |-> c]) /\ bundles'[c] = "whole"
            /\ activePointer' = c \/ (activePointer' = activePointer /\ k \in cuts')
  <2>1. CASE what = "propose"
    <3>1. Create(c, end) /\ UNCHANGED <<activationLog, activePointer>>
      BY <1>4, <2>1
    <3> QED
      BY <1>2, <1>5, <3>1, CreateFacts
  <2>2. CASE what = "rollback"
    <3>1. Readable(c) /\ Activate(k, c, end) /\ UNCHANGED bundles
      BY <1>4, <2>2
    <3> QED
      BY <1>1, <1>2, <3>1 DEF Readable, Activate, ConsoleTypes
  <2> QED
    BY <2>1, <2>2
<1>9. /\ StoreInv'
      /\ activationLog' \in Seq([key : CommandKeys, content : SUBSET Settings])
      /\ activePointer' \in (SUBSET Settings) \cup {NoPointer}
      /\ \A i \in DOMAIN activationLog : i \in DOMAIN activationLog' /\ activationLog'[i] = activationLog[i]
  BY <1>1, <1>2, <1>3, <1>5, <1>8, StoreKept
<1>10. receipts' \in [CommandKeys -> Receipts] /\ receiptRows' \in [CommandKeys -> Receipts]
  BY <1>1, <1>2 DEF ConsoleTypes
<1>11. ReceiptInv'
  BY <1>1, <1>2, <1>3, <1>8, <1>9, <1>10, ReceiptsKept
<1> QED
  BY <1>1, <1>2, <1>6, <1>7, <1>8, <1>9, <1>10, <1>11 DEF ConsoleInv, ConsoleTypes

\* A restart remembers the receipts that are on file.
LEMMA ConsoleRestarts ==
  ASSUME ConsoleInv, ConsoleRestart
  PROVE  ConsoleInv'
<1>1. /\ UNCHANGED <<consoleClock, tokens, receiptRows, bundles, activationLog, activePointer, spent, cuts>>
      /\ Forget /\ receipts' = receiptRows
  BY DEF ConsoleRestart, store
<1>2. ConsoleTypes /\ TokenInv /\ StoreInv /\ ReceiptInv
  BY DEF ConsoleInv
<1>3. /\ sessions' \in [SessionIds -> SessionRecs] /\ \A q \in SessionIds : sessions'[q].token = 0
      /\ loginFailures' \in Seq(Nat) /\ Len(loginFailures') <= LoginAttempts
  BY <1>1, <1>2, ForgetFacts
<1>4. TokenInv'
  BY <1>1, <1>2, <1>3, TokensKept
<1>5. StoreInv'
  BY <1>1, <1>2 DEF StoreInv
<1>6. ReceiptInv'
  <2>1. NoReceipt.status = "none"
    BY DEF NoReceipt
  <2>2. \A k \in CommandKeys : receipts'[k] = receipts[k] \/ receipts'[k] = NoReceipt
    BY <1>1, <1>2 DEF ReceiptInv
  <2> QED
    BY <1>1, <1>2, <2>1, <2>2 DEF ReceiptInv
<1> QED
  BY <1>1, <1>2, <1>3, <1>4, <1>5, <1>6 DEF ConsoleInv, ConsoleTypes

\* A new installation has answered nothing yet.
LEMMA ConsoleStarts == ConsoleInit => ConsoleInv
<1> SUFFICES ASSUME ConsoleInit PROVE ConsoleInv
  OBVIOUS
<1>1. NoReceipt \in Receipts /\ NoReceipt.status = "none" /\ Unused \in SessionRecs /\ Unused.token = 0
  BY DEF NoReceipt, Receipts, Unused, SessionRecs
<1>2. ConsoleTypes
  BY <1>1, ConsoleAssumption DEF ConsoleInit, ConsoleTypes
<1>3. TokenInv /\ StoreInv /\ ReceiptInv
  BY <1>1 DEF ConsoleInit, TokenInv, StoreInv, ReceiptInv
<1> QED
  BY <1>2, <1>3 DEF ConsoleInv

\* Every step keeps the invariant.
LEMMA ConsoleSteps == ConsoleInv /\ [ConsoleNext]_consoleVars => ConsoleInv'
<1> SUFFICES ASSUME ConsoleInv, [ConsoleNext]_consoleVars PROVE ConsoleInv'
  OBVIOUS
<1>1. CASE UNCHANGED consoleVars
  BY <1>1 DEF consoleVars, ConsoleInv, ConsoleTypes, TokenInv, StoreInv, ReceiptInv
<1>2. CASE ConsoleTick
  <2>1. UNCHANGED <<sessions, tokens, loginFailures, blockedUntil, receipts, receiptRows, bundles, activationLog, activePointer, spent, cuts>>
        /\ consoleClock' = consoleClock + 1
    BY <1>2 DEF ConsoleTick, access, store
  <2> QED
    BY <2>1 DEF ConsoleInv, ConsoleTypes, TokenInv, StoreInv, ReceiptInv
<1>3. CASE ConsoleRestart
  BY <1>3, ConsoleRestarts
<1>4. CASE \E s \in SessionIds : Logout(s) \/ Forbidden(s) \/ \E right \in BOOLEAN : Login(s, right)
  BY <1>4, SessionSteps
<1>5. CASE \E s \in SessionIds, right \in BOOLEAN : StepUp(s, right)
  BY <1>5, StepUpStep
<1>6. CASE \E s \in SessionIds, k \in CommandKeys, what \in {"propose", "rollback", "refresh"} : Command(s, k, what)
  BY <1>6, CommandStep
<1>7. CASE \E s \in SessionIds, k \in CommandKeys, what \in {"propose", "rollback"} : Dies(s, k, what)
  BY <1>7, DiesStep
<1> QED
  BY <1>1, <1>2, <1>3, <1>4, <1>5, <1>6, <1>7 DEF ConsoleNext

\* The invariant is stronger than what the operator is told.
LEMMA ReceiptFacts == ConsoleInv => ReceiptsTellTheTruth
<1> SUFFICES ASSUME ConsoleInv PROVE ReceiptsTellTheTruth
  OBVIOUS
<1>1. Len(Recent) <= LoginAttempts
  BY RecentIsFewer, ConsoleAssumption DEF ConsoleInv, ConsoleTypes
<1>2. activationLog # <<>> => Last(activationLog) = activationLog[Len(activationLog)]
  BY DEF Last
<1> QED
  BY <1>1, <1>2 DEF ConsoleInv, TokenInv, StoreInv, ReceiptInv, ReceiptsTellTheTruth

\* What the operator is told is so, for any number of sessions, commands, settings
\* and cuts: the invariant holds at the start and every handler, death and restart
\* keeps it.
THEOREM ReceiptsTheorem == ConsoleSpec => []ReceiptsTellTheTruth
  BY ConsoleStarts, ConsoleSteps, ReceiptFacts, PTL DEF ConsoleSpec

---------------------------------------------------------------------------
(* The depth book.                                                         *)

Messages == [seq : Nat, first : Nat \ {0}, last : Nat]

\* The updates a to b that changed level l, in table t.
Touches(t, l, a, b) == {k \in a..b : t[k].level = l}
Quantity(t, l, q, a, b) ==
    IF Touches(t, l, a, b) = {} THEN q
    ELSE IF t[Max(Touches(t, l, a, b))].kept THEN Max(Touches(t, l, a, b)) ELSE Absent
BookOf(t, n) == [l \in DepthLevels |-> Quantity(t, l, IF l \in Opening THEN 0 ELSE Absent, 1, n)]

\* A message that reaches back to the update after n, and beyond it, leaves of a level it
\* touches what the book after its last update has, whatever the level was before.
LEMMA LevelTouched ==
  ASSUME NEW t, NEW l, NEW q, NEW p, NEW a \in Nat \ {0}, NEW b \in Nat, Touches(t, l, a, b) # {}
  PROVE  Quantity(t, l, q, a, b) = Quantity(t, l, p, 1, b)
<1> DEFINE m == Max(Touches(t, l, a, b))
<1>1. /\ Touches(t, l, a, b) \in SUBSET Nat /\ \A k \in Touches(t, l, a, b) : k <= b
      /\ Touches(t, l, a, b) \subseteq Touches(t, l, 1, b)
  BY DEF Touches
<1>2. m \in Touches(t, l, a, b) /\ \A k \in Touches(t, l, a, b) : k <= m
  BY <1>1, MaxOfNats
<1> HIDE DEF m
<1>3. \A k \in Touches(t, l, 1, b) : k <= m
  BY <1>2 DEF Touches
<1>4. Touches(t, l, 1, b) \in SUBSET Nat /\ m \in Touches(t, l, 1, b)
  BY <1>1, <1>2 DEF Touches
<1>5. Max(Touches(t, l, 1, b)) = m
  BY <1>3, <1>4, MaxIs
<1>6. Touches(t, l, 1, b) # {} /\ Max(Touches(t, l, a, b)) = Max(Touches(t, l, 1, b))
  BY <1>4, <1>5 DEF m
<1> QED
  BY <1>6 DEF Quantity

\* What no update after n touches is what it was.
LEMMA LevelUntouched ==
  ASSUME NEW t, NEW l, NEW q, NEW n \in Nat, NEW b \in Nat, n <= b, Touches(t, l, n + 1, b) = {}
  PROVE  Quantity(t, l, q, 1, b) = Quantity(t, l, q, 1, n)
<1>1. \A k : k \in Touches(t, l, 1, b) <=> k \in Touches(t, l, 1, n)
  BY DEF Touches
<1>2. Touches(t, l, 1, b) = Touches(t, l, 1, n)
  BY <1>1
<1> QED
  BY <1>2 DEF Quantity

LEMMA BookAtIs == \A n : BookAt(n) = BookOf(changes, n)
  BY DEF BookAt, BookOf, QuantityAfter, Quantity, Touches

\* A level of a book after update n, from snapshot s: the provider's, or cut off and
\* unchanged since.
LevelFits(t, l, quantity, n, s) ==
    \/ quantity = BookOf(t, n)[l]
    \/ quantity = Absent /\ l \notin Shown(s) /\ Touches(t, l, s.update + 1, n) = {}

\* A message that continues a book leads to the next one.
LEMMA UpdateApplied ==
  ASSUME NEW l \in DepthLevels, NEW q, NEW s, s.update \in Nat, NEW n \in Nat, s.update <= n,
         NEW a \in Nat \ {0}, NEW b \in Nat, a <= n + 1, n + 1 <= b, LevelFits(changes, l, q, n, s)
  PROVE  LevelFits(changes, l, Quantity(changes, l, q, a, b), b, s)
<1> DEFINE first == IF l \in Opening THEN 0 ELSE Absent
<1>1. BookOf(changes, n)[l] = Quantity(changes, l, first, 1, n) /\ BookOf(changes, b)[l] = Quantity(changes, l, first, 1, b)
  BY DEF BookOf
<1> HIDE DEF first
<1>2. CASE Touches(changes, l, a, b) # {}
  <2>1. Quantity(changes, l, q, a, b) = Quantity(changes, l, first, 1, b)
    BY <1>2, LevelTouched
  <2> QED
    BY <1>1, <2>1 DEF LevelFits
<1>3. CASE Touches(changes, l, a, b) = {}
  <2>1. Quantity(changes, l, q, a, b) = q
    BY <1>3 DEF Quantity
  <2>2. Touches(changes, l, n + 1, b) = {}
    BY <1>3 DEF Touches
  <2>3. BookOf(changes, b)[l] = BookOf(changes, n)[l]
    BY <1>1, <2>2, LevelUntouched
  <2>4. ASSUME Touches(changes, l, s.update + 1, n) = {}
        PROVE  Touches(changes, l, s.update + 1, b) = {}
    BY <2>2, <2>4 DEF Touches
  <2> QED
    BY <2>1, <2>3, <2>4 DEF LevelFits
<1> QED
  BY <1>2, <1>3

---------------------------------------------------------------------------
\* f recovers the first n messages from snapshot s.
Recovers(f, s, updates, n) ==
    f = [i \in 0..n |-> IF i = 0 THEN FromSnapshot(s) ELSE RecoverOne(f[i - 1], updates[i])]

\* One message more can always be recovered.
LEMMA RecoveryGrows ==
  ASSUME NEW s, NEW updates, NEW n \in Nat, NEW f, Recovers(f, s, updates, n)
  PROVE  \E g : Recovers(g, s, updates, n + 1)
<1> DEFINE g == [i \in 0..(n + 1) |-> IF i = n + 1 THEN RecoverOne(f[n], updates[n + 1]) ELSE f[i]]
<1>1. \A i \in 0..n : f[i] = IF i = 0 THEN FromSnapshot(s) ELSE RecoverOne(f[i - 1], updates[i])
  BY DEF Recovers
<1>2. \A i \in 0..n : g[i] = f[i]
  OBVIOUS
<1>3. \A i \in 0..(n + 1) : g[i] = IF i = 0 THEN FromSnapshot(s) ELSE RecoverOne(g[i - 1], updates[i])
  <2> SUFFICES ASSUME NEW i \in 0..(n + 1)
               PROVE  g[i] = IF i = 0 THEN FromSnapshot(s) ELSE RecoverOne(g[i - 1], updates[i])
    OBVIOUS
  <2>1. CASE i = 0
    BY <1>1, <1>2, <2>1
  <2>2. CASE i \in 1..n
    <3>1. i - 1 \in 0..n /\ i \in 0..n /\ i # 0
      BY <2>2
    <3>2. g[i - 1] = f[i - 1] /\ g[i] = f[i]
      BY <1>2, <3>1
    <3> HIDE DEF g
    <3> QED
      BY <1>1, <3>1, <3>2
  <2>3. CASE i = n + 1
    <3>1. g[i] = RecoverOne(f[n], updates[i]) /\ g[i - 1] = f[n] /\ i # 0
      BY <2>3
    <3> HIDE DEF g
    <3> QED
      BY <3>1
  <2> QED
    BY <2>1, <2>2, <2>3
<1>4. g = [i \in 0..(n + 1) |-> g[i]]
  OBVIOUS
<1> HIDE DEF g
<1>5. g = [i \in 0..(n + 1) |-> IF i = 0 THEN FromSnapshot(s) ELSE RecoverOne(g[i - 1], updates[i])]
  BY <1>3, <1>4
<1> QED
  BY <1>5 DEF Recovers

\* As long as it has not failed, the recovery holds the book after its last update.
BookFits(r) ==
    /\ "state" \in DOMAIN r /\ r.last \in Nat /\ r.from.update \in Nat /\ r.from.update <= r.last
    /\ \A l \in DepthLevels : LevelFits(changes, l, r.book[l], r.last, r.from)

LEMMA SnapshotFits ==
  ASSUME NEW s, s.update \in Nat
  PROVE  BookFits(FromSnapshot(s))
<1>1. /\ "state" \in DOMAIN FromSnapshot(s) /\ FromSnapshot(s).last = s.update /\ FromSnapshot(s).from = s
      /\ FromSnapshot(s).book = [l \in DepthLevels |-> IF l \in Shown(s) THEN BookAt(s.update)[l] ELSE Absent]
  BY DEF FromSnapshot, Rebuilt
<1>2. ASSUME NEW l \in DepthLevels
      PROVE  LevelFits(changes, l, IF l \in Shown(s) THEN BookAt(s.update)[l] ELSE Absent, s.update, s)
  <2>1. BookAt(s.update) = BookOf(changes, s.update)
    BY BookAtIs
  <2>2. Touches(changes, l, s.update + 1, s.update) = {}
    BY DEF Touches
  <2> QED
    BY <2>1, <2>2 DEF LevelFits
<1> QED
  BY <1>1, <1>2 DEF BookFits

LEMMA RecoverOneFits ==
  ASSUME NEW r, BookFits(r), NEW m \in Messages
  PROVE  BookFits(RecoverOne(r, m)) \/ RecoverOne(r, m) = [r EXCEPT !.state = "failed"]
<1>1. /\ m.first \in Nat \ {0} /\ m.last \in Nat /\ r.last \in Nat
      /\ r.from.update \in Nat /\ r.from.update <= r.last
  BY DEF Messages, BookFits
<1>2. CASE r.state = "failed" \/ m.last < r.last + 1
  BY <1>2 DEF RecoverOne
<1>3. CASE r.state # "failed" /\ ~ (m.last < r.last + 1) /\ m.first > r.last + 1
  BY <1>3 DEF RecoverOne
<1>4. CASE r.state # "failed" /\ ~ (m.last < r.last + 1) /\ ~ (m.first > r.last + 1)
  <2>1. RecoverOne(r, m) = Rebuilt("pass", ApplyUpdate(r.book, m), m.last, r.from)
    BY <1>4 DEF RecoverOne
  <2>2. /\ "state" \in DOMAIN RecoverOne(r, m) /\ RecoverOne(r, m).book = ApplyUpdate(r.book, m) /\ RecoverOne(r, m).last = m.last
        /\ RecoverOne(r, m).from = r.from
    BY <2>1 DEF Rebuilt
  <2>3. m.first <= r.last + 1 /\ r.last + 1 <= m.last
    BY <1>1, <1>4
  <2>4. ASSUME NEW l \in DepthLevels
        PROVE  LevelFits(changes, l, ApplyUpdate(r.book, m)[l], m.last, r.from)
    <3>1. LevelFits(changes, l, r.book[l], r.last, r.from)
      BY DEF BookFits
    <3>2. ApplyUpdate(r.book, m)[l] = Quantity(changes, l, r.book[l], m.first, m.last)
      BY DEF ApplyUpdate, QuantityAfter, Quantity, Touches
    <3>3. LevelFits(changes, l, Quantity(changes, l, r.book[l], m.first, m.last), m.last, r.from)
      BY <1>1, <2>3, <3>1, UpdateApplied
    <3> QED
      BY <3>2, <3>3
  <2> QED
    BY <1>1, <2>2, <2>3, <2>4 DEF BookFits
<1> QED
  BY <1>2, <1>3, <1>4

\* Whatever the order of the messages.
LEMMA RecoveredBook ==
  ASSUME NEW s, s.update \in Nat, NEW updates \in Seq(Messages), RecoverBinanceDepth(s, updates).state = "pass"
  PROVE  BookFits(RecoverBinanceDepth(s, updates))
<1> DEFINE L == Len(updates)
<1>0. L \in Nat
  OBVIOUS
<1>1. \A n \in Nat : \E f : Recovers(f, s, updates, n)
  <2> SUFFICES ASSUME NEW m \in Nat, ~ \E f : Recovers(f, s, updates, m)
               PROVE  FALSE
    OBVIOUS
  <2> DEFINE Bad == {n \in Nat : ~ \E f : Recovers(f, s, updates, n)}
  <2>1. PICK k \in Bad : \A j \in Bad : k <= j
    <3>1. Bad \subseteq Nat /\ Bad # {}
      OBVIOUS
    <3> HIDE DEF Bad
    <3> QED
      BY <3>1, LeastNat
  <2>2. CASE k = 0
    <3>1. Recovers([i \in 0..0 |-> FromSnapshot(s)], s, updates, 0)
      BY DEF Recovers
    <3> QED
      BY <2>1, <2>2, <3>1
  <2>3. CASE k # 0
    <3>1. k - 1 \in Nat /\ k - 1 \notin Bad
      BY <2>1, <2>3
    <3>2. PICK f : Recovers(f, s, updates, k - 1)
      BY <3>1
    <3>3. \E g : Recovers(g, s, updates, k - 1 + 1)
      BY <3>1, <3>2, RecoveryGrows
    <3> QED
      BY <2>1, <3>3
  <2> QED
    BY <2>2, <2>3
<1>2. PICK f : Recovers(f, s, updates, L) /\ RecoverBinanceDepth(s, updates) = f[L]
  <2>1. RecoverBinanceDepth(s, updates) = (CHOOSE f : Recovers(f, s, updates, L))[L]
    BY DEF RecoverBinanceDepth, Recovers
  <2> QED
    BY <1>0, <1>1, <2>1
<1>3. \A i \in 0..L : f[i] = IF i = 0 THEN FromSnapshot(s) ELSE RecoverOne(f[i - 1], updates[i])
  BY <1>2 DEF Recovers
<1> DEFINE Fits(r) == r.state = "failed" \/ BookFits(r)
           Bad == {i \in 0..L : ~ Fits(f[i])}
<1>4. Fits(f[L])
  <2> SUFFICES ASSUME ~ Fits(f[L]) PROVE FALSE
    OBVIOUS
  <2>1. PICK k \in Bad : \A j \in Bad : k <= j
    <3>1. Bad \in SUBSET Nat /\ Bad # {}
      BY <1>0
    <3> HIDE DEF Bad
    <3> QED
      BY <3>1, LeastNat
  <2>2. CASE k = 0
    <3>1. f[0] = FromSnapshot(s)
      BY <1>0, <1>3
    <3>2. BookFits(f[0])
      BY <3>1, SnapshotFits
    <3> QED
      BY <2>1, <2>2, <3>2
  <2>3. CASE k # 0
    <3>1. k \in 1..L /\ k - 1 \in 0..L /\ k - 1 \notin Bad /\ updates[k] \in Messages
      BY <1>0, <2>1, <2>3
    <3>2. f[k] = RecoverOne(f[k - 1], updates[k]) /\ Fits(f[k - 1])
      BY <1>3, <2>3, <3>1
    <3>3. CASE f[k - 1].state = "failed"
      <4>1. f[k] = f[k - 1]
        BY <3>2, <3>3 DEF RecoverOne
      <4> QED
        BY <2>1, <3>3, <4>1
    <3>4. CASE f[k - 1].state # "failed"
      <4>1. BookFits(f[k - 1])
        BY <3>2, <3>4
      <4>2. BookFits(f[k]) \/ f[k] = [f[k - 1] EXCEPT !.state = "failed"]
        BY <3>1, <3>2, <4>1, RecoverOneFits
      <4>3. "state" \in DOMAIN f[k - 1]
        BY <4>1 DEF BookFits
      <4>4. [f[k - 1] EXCEPT !.state = "failed"].state = "failed"
        BY <4>3
      <4>5. Fits(f[k])
        <5> HIDE DEF BookFits
        <5> QED
          BY <4>2, <4>4
      <4> QED
        BY <2>1, <4>5
    <3> QED
      BY <3>3, <3>4
  <2> QED
    BY <2>2, <2>3
<1> QED
  BY <1>2, <1>4

---------------------------------------------------------------------------
Connections == [number : 0..2, step : {"rest", "open", "pump", "broken", "ended", "recover"},
                count : Nat, sent : Nat \cup {NoUpdate}, snapshot : Nat \cup {NoUpdate}]
DepthTypes ==
    /\ changes \in Seq([level : DepthLevels, kept : BOOLEAN]) /\ stream \in Connections /\ restBooks \in SUBSET Nat
    /\ depthSpool \in [1..2 -> SUBSET Messages] /\ \A n \in 1..2 : IsFiniteSet(depthSpool[n])
    /\ stream.step # "rest" => stream.number \in 1..2
    /\ stream.step = "pump" => stream.sent \in Nat
DepthInv == DepthTypes /\ BookIsProviders

\* The files that are recovered hold messages only.
LEMMA OrderedMessages ==
  ASSUME NEW S \in SUBSET Messages, IsFiniteSet(S), NEW files \in Ordered(S)
  PROVE  files \in Seq(Messages)
<1>1. PICK n \in Nat : n = Cardinality(S)
  BY FS_CardinalityType
<1>2. files \in [1..n -> Messages]
  BY <1>1 DEF Ordered
<1> QED
  BY <1>1, <1>2

LEMMA FilesAreMessages ==
  ASSUME DepthInv, stream.step = "recover", NEW updates \in Files
  PROVE  updates \in Seq(Messages)
<1>1. /\ stream.number \in 1..2
      /\ \A n \in 1..2 : depthSpool[n] \in SUBSET Messages /\ IsFiniteSet(depthSpool[n])
  BY DEF DepthInv, DepthTypes
<1>2. CASE Worked
  BY <1>1, <1>2, OrderedMessages DEF Files
<1>3. CASE ~ Worked
  <2>1. PICK one \in Ordered(depthSpool[1]), two \in Ordered(depthSpool[2]) : updates = one \o two
    BY <1>3 DEF Files
  <2>2. one \in Seq(Messages) /\ two \in Seq(Messages)
    BY <1>1, <2>1, OrderedMessages
  <2> QED
    BY <2>1, <2>2, ConcatProperties
<1> QED
  BY <1>2, <1>3

LEMMA SnapshotTypes == ASSUME DepthInv PROVE Snapshots \subseteq Nat
  BY DEF DepthInv, DepthTypes, Snapshots, provider

LEMMA FreshConnectionTypes ==
  \A n \in 0..2 : /\ FreshConnection(n) \in Connections /\ FreshConnection(n).number = n
                  /\ FreshConnection(n).step = "open"
                  /\ [FreshConnection(n) EXCEPT !.step = "rest"] \in Connections
                  /\ [FreshConnection(n) EXCEPT !.step = "rest"].step = "rest"
  BY DEF FreshConnection, Connections

\* A book that was told is the provider's as long as no level changes.
LEMMA BookKept ==
  ASSUME DepthInv, changes' = changes \/ recovered = NotRecovered, UNCHANGED recovered, DepthTypes'
  PROVE  DepthInv'
<1>1. CASE recovered = NotRecovered
  BY <1>1 DEF DepthInv, BookIsProviders, NotRecovered
<1>2. CASE changes' = changes
  <2>1. \A n : BookAt(n)' = BookAt(n)
    BY <1>2 DEF BookAt, QuantityAfter
  <2>2. \A s : Shown(s)' = Shown(s)
    BY <1>2 DEF Shown, BookAt, QuantityAfter, Held
  <2>3. PICK n, s : n = recovered.last /\ s = recovered.from
    OBVIOUS
  <2>4. BookAt(n)' = BookAt(n) /\ Shown(s)' = Shown(s)
    BY <2>1, <2>2
  <2> QED
    BY <1>2, <2>3, <2>4 DEF DepthInv, BookIsProviders
<1> QED
  BY <1>1, <1>2

LEMMA ConnectionStep ==
  ASSUME DepthInv, RestReads \/ Connect \/ TakeSnapshot \/ Disconnect \/ DieAndRestart \/ ProviderMoves
  PROVE  DepthInv'
<1>0. /\ changes \in Seq([level : DepthLevels, kept : BOOLEAN]) /\ provider \in Nat
      /\ stream \in Connections /\ restBooks \in SUBSET Nat
      /\ (stream.step # "rest" => stream.number \in 1..2)
  BY DEF DepthInv, DepthTypes, provider
<1>1. UNCHANGED <<recovered, depthSpool>> /\ (changes' = changes \/ recovered = NotRecovered)
  BY DEF RestReads, Connect, TakeSnapshot, Disconnect, DieAndRestart, ProviderMoves
<1>2. changes' \in Seq([level : DepthLevels, kept : BOOLEAN]) /\ restBooks' \in SUBSET Nat
  <2>1. CASE ProviderMoves
    <3>1. PICK move \in DepthMoves : changes' = Append(changes, move)
      BY <2>1 DEF ProviderMoves
    <3>2. move \in [level : DepthLevels, kept : BOOLEAN]
      BY DepthAssumption
    <3>3. changes' \in Seq([level : DepthLevels, kept : BOOLEAN])
      BY <1>0, <3>1, <3>2, AppendProperties
    <3> QED
      BY <1>0, <2>1, <3>3 DEF ProviderMoves
  <2>2. CASE ~ ProviderMoves
    BY <1>0, <2>2, SnapshotTypes DEF RestReads, Connect, TakeSnapshot, Disconnect, DieAndRestart
  <2> QED
    BY <2>1, <2>2
<1>3. /\ stream' \in Connections /\ (stream'.step # "rest" => stream'.number \in 1..2)
      /\ (stream'.step = "pump" => stream'.sent \in Nat)
  <2>1. CASE RestReads \/ DieAndRestart
    <3>1. stream' = FreshConnection(1) \/ stream' = [FreshConnection(0) EXCEPT !.step = "rest"]
      BY <2>1 DEF RestReads, DieAndRestart
    <3>2. FreshConnection(1) \in Connections /\ FreshConnection(1).number = 1 /\ FreshConnection(1).step = "open"
      BY FreshConnectionTypes
    <3>3. /\ [FreshConnection(0) EXCEPT !.step = "rest"] \in Connections
          /\ [FreshConnection(0) EXCEPT !.step = "rest"].step = "rest"
      BY FreshConnectionTypes
    <3>4. stream' \in Connections /\ ((stream'.number = 1 /\ stream'.step = "open") \/ stream'.step = "rest")
      BY <3>1, <3>2, <3>3, Zenon
    <3> QED
      BY <3>4
  <2>2. CASE Connect
    BY <1>0, <2>2 DEF Connect, Connections
  <2>3. CASE TakeSnapshot
    BY <1>0, <2>3, SnapshotTypes DEF TakeSnapshot, Connections, DepthInv, DepthTypes
  <2>4. CASE Disconnect
    BY <1>0, <2>4, FreshConnectionTypes DEF Disconnect, Connections
  <2>5. CASE ProviderMoves
    BY <2>5 DEF ProviderMoves, DepthInv, DepthTypes
  <2> QED
    BY <2>1, <2>2, <2>3, <2>4, <2>5
<1>4. DepthTypes'
  BY <1>1, <1>2, <1>3 DEF DepthInv, DepthTypes
<1> QED
  BY <1>1, <1>4, BookKept

LEMMA MessageStep ==
  ASSUME DepthInv, NEW last \in 1..MaxUpdate, NEW missed \in BOOLEAN, Message(last, missed)
  PROVE  DepthInv'
<1> DEFINE m == [seq |-> stream.count + 1, first |-> stream.sent + 1, last |-> last]
<1>0. /\ stream \in Connections /\ stream.step = "pump" /\ stream.number \in 1..2 /\ stream.sent \in Nat
      /\ last \in Nat
  BY DepthAssumption DEF DepthInv, DepthTypes, Message
<1>1. UNCHANGED <<changes, restBooks, recovered>>
  BY DEF Message
<1>2. m \in Messages
  BY <1>0 DEF Messages, Connections
<1>3. /\ stream' \in Connections /\ stream'.number = stream.number
      /\ (stream'.step = "pump" => stream'.sent \in Nat)
  <2>1. \/ stream' = [stream EXCEPT !.sent = last]
        \/ stream' = [stream EXCEPT !.step = "broken"]
        \/ stream' = [stream EXCEPT !.sent = last, !.count = m.seq]
    BY DEF Message
  <2>2. m.seq \in Nat
    BY <1>2 DEF Messages
  <2>3. \A c \in Connections, n \in Nat :
           /\ [c EXCEPT !.sent = last] \in Connections /\ [c EXCEPT !.sent = last].sent = last
           /\ [c EXCEPT !.sent = last].number = c.number
           /\ [c EXCEPT !.step = "broken"] \in Connections /\ [c EXCEPT !.step = "broken"].step = "broken"
           /\ [c EXCEPT !.step = "broken"].number = c.number
           /\ [c EXCEPT !.sent = last, !.count = n] \in Connections
           /\ [c EXCEPT !.sent = last, !.count = n].sent = last
           /\ [c EXCEPT !.sent = last, !.count = n].number = c.number
    BY <1>0 DEF Connections
  <2> HIDE DEF m
  <2>4. PICK n \in Nat : n = m.seq
    BY <2>2
  <2>5. /\ stream' \in Connections /\ stream'.number = stream.number
        /\ stream'.sent = last \/ stream'.step = "broken"
    <3>1. PICK c \in Connections : c = stream
      BY <1>0
    <3>2. CASE stream' = [c EXCEPT !.sent = last]
      BY <2>3, <3>1, <3>2, Zenon
    <3>3. CASE stream' = [c EXCEPT !.step = "broken"]
      BY <2>3, <3>1, <3>3, Zenon
    <3>4. CASE stream' = [c EXCEPT !.sent = last, !.count = n]
      BY <2>3, <2>4, <3>1, <3>4, Zenon
    <3> QED
      BY <2>1, <2>4, <3>1, <3>2, <3>3, <3>4, Zenon
  <2> QED
    BY <1>0, <2>5
<1>4. depthSpool' = depthSpool \/ depthSpool' = [depthSpool EXCEPT ![stream.number] = @ \cup {m}]
  BY DEF Message
<1>5. depthSpool' \in [1..2 -> SUBSET Messages] /\ \A n \in 1..2 : IsFiniteSet(depthSpool'[n])
  <2>1. depthSpool \in [1..2 -> SUBSET Messages] /\ \A n \in 1..2 : IsFiniteSet(depthSpool[n])
    BY DEF DepthInv, DepthTypes
  <2>2. IsFiniteSet(depthSpool[stream.number] \cup {m})
    BY <1>0, <2>1, FS_AddElement
  <2> HIDE DEF m
  <2> QED
    BY <1>0, <1>2, <1>4, <2>1, <2>2
<1>6. DepthTypes'
  BY <1>0, <1>1, <1>3, <1>5 DEF DepthInv, DepthTypes
<1> QED
  BY <1>1, <1>6, BookKept

\* What BookFits says in the words of the property.
LEMMA FittingBook ==
  ASSUME NEW r, BookFits(r), NEW l \in DepthLevels
  PROVE  \/ r.book[l] = BookAt(r.last)[l]
         \/ /\ r.book[l] = Absent /\ l \notin Shown(r.from)
            /\ \A k \in (r.from.update + 1)..r.last : changes[k].level # l
BY BookAtIs DEF BookFits, LevelFits, Touches

LEMMA RecoverStep == ASSUME DepthInv, Recover PROVE DepthInv'
<1>1. UNCHANGED <<changes, stream, depthSpool, restBooks>> /\ stream.step = "recover"
  BY DEF Recover
<1>2. recovered'.state = "pass" => BookFits(recovered')
  <2> DEFINE books == IF Worked THEN {[update |-> stream.snapshot, limit |-> SnapshotLimit]}
                      ELSE {[update |-> n, limit |-> RestLimit] : n \in restBooks}
  <2>1. CASE recovered' = FailedClosed
    BY <2>1 DEF FailedClosed
  <2>2. CASE recovered' # FailedClosed
    <3>1. Cardinality(books) = 1
      BY <2>2 DEF Recover
    <3>2. \A s \in books : s.update \in Nat
      BY DEF DepthInv, DepthTypes, Connections, Worked
    <3>3. books # {}
      BY <3>1, FS_EmptySet
    <3>4. PICK s \in books : s = CHOOSE q \in books : TRUE
      BY <3>3
    <3>5. PICK updates \in Files : recovered' = RecoverBinanceDepth(s, updates) /\ recovered'.state = "pass"
      BY <2>2, <3>1, <3>4 DEF Recover
    <3>6. updates \in Seq(Messages)
      BY <1>1, FilesAreMessages
    <3>7. BookFits(RecoverBinanceDepth(s, updates))
      BY <3>2, <3>5, <3>6, RecoveredBook
    <3> QED
      BY <3>5, <3>7
  <2> QED
    BY <2>1, <2>2
<1>3. PICK r : r = recovered'
  OBVIOUS
<1>4. r.state = "pass" => \A l \in DepthLevels :
         \/ r.book[l] = BookAt(r.last)[l]
         \/ /\ r.book[l] = Absent /\ l \notin Shown(r.from)
            /\ \A k \in (r.from.update + 1)..r.last : changes[k].level # l
  BY <1>2, <1>3, FittingBook
<1>5. \A n : BookAt(n)' = BookAt(n)
  BY <1>1 DEF BookAt, QuantityAfter
<1>6. \A s : Shown(s)' = Shown(s)
  BY <1>1 DEF Shown, BookAt, QuantityAfter, Held
<1>7. PICK n, s : n = r.last /\ s = r.from
  OBVIOUS
<1>8. BookAt(n)' = BookAt(n) /\ Shown(s)' = Shown(s)
  BY <1>5, <1>6
<1>9. BookIsProviders'
  BY <1>1, <1>3, <1>4, <1>7, <1>8 DEF BookIsProviders
<1>10. DepthTypes'
  BY <1>1 DEF DepthInv, DepthTypes
<1> QED
  BY <1>9, <1>10 DEF DepthInv

LEMMA DepthStarts == DepthInit => DepthInv
<1> SUFFICES ASSUME DepthInit PROVE DepthInv
  OBVIOUS
<1>1. depthSpool \in [1..2 -> SUBSET Messages] /\ \A n \in 1..2 : depthSpool[n] = {}
  BY DEF DepthInit
<1>2. DepthTypes
  BY <1>1, FreshConnectionTypes, FS_EmptySet DEF DepthInit, DepthTypes
<1> QED
  BY <1>2 DEF DepthInv, DepthInit, BookIsProviders, NotRecovered

\* A book the recovery passes is the provider's book after its last update, but for
\* levels the snapshot's limit cut off, for any limits, any
\* stream of updates, any loss, any order of the messages on file and any number of
\* processes that died (recover_binance_depth).
THEOREM BookIsProvidersTheorem == DepthSpec => []BookIsProviders
<1>1. DepthInv /\ [DepthNext]_depthVars => DepthInv'
  <2> SUFFICES ASSUME DepthInv, [DepthNext]_depthVars PROVE DepthInv'
    OBVIOUS
  <2>1. CASE UNCHANGED depthVars
    <3>1. DepthTypes' /\ UNCHANGED <<changes, recovered>>
      BY <2>1 DEF depthVars, DepthInv, DepthTypes
    <3> QED
      BY <3>1, BookKept
  <2>2. CASE DepthNext
    BY <2>2, ConnectionStep, MessageStep, RecoverStep DEF DepthNext
  <2> QED
    BY <2>1, <2>2
<1>2. DepthInv => BookIsProviders
  BY DEF DepthInv
<1> QED
  BY <1>1, <1>2, DepthStarts, PTL DEF DepthSpec

---------------------------------------------------------------------------
(* The public data run.                                                    *)

PairStates == {"none", "DISCONNECTED", "RECOVERING", "DEGRADED", "HEALTHY"}
HealthRecs == [pair : Pairs, previous : PairStates, state : PairStates]
DataSamples == [cycle : Nat, pair : Pairs, state : PairStates, connected : BOOLEAN, terminal : BOOLEAN]
SourceChoices == [cycle : Nat, asset : Assets, feed : Feeds \cup {0}]
Cycling == {"loop", "health", "sample", "select", "publish", "status"}
JobPcs == Cycling \cup {"off", "drills", "ready", "summary", "final", "last", "gone"}
JobRecs == [pc : JobPcs, cycle : Nat, terminal : BOOLEAN, over : BOOLEAN, stop : BOOLEAN,
            latest : [Pairs -> PairStates], looks : [Pairs -> Looks],
            left : SUBSET Pairs, unselected : SUBSET Assets]

DataTypes ==
    /\ healthRows \in Seq(HealthRecs) /\ samples \in Seq(DataSamples) /\ selections \in Seq(SourceChoices)
    /\ jobs \in [DataRunners -> JobRecs] /\ dataLock \in DataRunners \cup {0} /\ cycleLimit \in Nat
    /\ windowOver \in BOOLEAN

\* Every pair was sampled in a window that ended the run.
AllTerminal(rows) == \A p \in Pairs : \E i \in DOMAIN rows : rows[i].pair = p /\ rows[i].terminal

Knows(j, rows) == \A p \in Pairs : j.latest[p] = StateIn(rows, p)

\* Where a cycle is tells which of its pairs have their sample.
Sampled(j, rows, p) ==
    \E k \in DOMAIN rows : /\ rows[k].cycle = j.cycle /\ rows[k].pair = p
                           /\ rows[k].state = j.latest[p] /\ rows[k].terminal = j.terminal
Placed(j, rows) ==
    /\ j.pc \in {"loop", "publish", "status"} => \A i \in DOMAIN rows : rows[i].cycle < j.cycle
    /\ j.pc \in {"health", "sample", "select"} =>
          /\ \A i \in DOMAIN rows : /\ rows[i].cycle <= j.cycle
                                    /\ rows[i].cycle = j.cycle => rows[i].pair \notin j.left
          /\ \A p \in Pairs \ j.left : Sampled(j, rows, p)
    /\ j.pc \in {"health", "sample"} => j.left # {}
    /\ j.pc = "select" => j.left = {} /\ j.unselected # {}

\* The holder of the lock knows the health ledger and where it is; only a run that was
\* over its window, stopped or at its limit leaves the loop.
JobFits(j, r) ==
    /\ j.pc \in Cycling => dataLock = r /\ Knows(j, healthRows) /\ Placed(j, samples)
    /\ j.over => AllTerminal(samples)
    /\ j.pc \in {"summary", "final"} => LoopEnds(j)
JobsFit == \A r \in DataRunners : JobFits(jobs[r], r)

\* No pair has two samples of one cycle, and the last sample is of the newest cycle.
SamplesInv ==
    /\ \A i, j \in DOMAIN samples : i # j /\ samples[i].cycle = samples[j].cycle => samples[i].pair # samples[j].pair
    /\ \A i \in DOMAIN samples : samples[i].cycle <= samples[Len(samples)].cycle

CompletionInv == dataStatus = "multi_hour_window_complete" => AllTerminal(samples)

DataInv == DataTypes /\ JobsFit /\ SamplesInv /\ CompletionInv /\ SelectedIsHealthy /\ HealthLedgerReplays

---------------------------------------------------------------------------
SamplesIn(rows, c) == {i \in DOMAIN rows : rows[i].cycle = c}
SamplesOf(rows, c, p) == {i \in DOMAIN rows : rows[i].cycle = c /\ rows[i].pair = p}
PairsIn(rows) == {rows[i].pair : i \in DOMAIN rows}

\* The review counts the samples of a cycle: with no pair twice, as many as there are
\* sampled pairs are one of each.
LEMMA CountedOnce ==
  ASSUME NEW rows \in Seq(DataSamples), NEW c,
         \A i, j \in DOMAIN rows : i # j /\ rows[i].cycle = rows[j].cycle => rows[i].pair # rows[j].pair,
         Cardinality(SamplesIn(rows, c)) = Cardinality(PairsIn(rows)), NEW p \in PairsIn(rows)
  PROVE  Cardinality(SamplesOf(rows, c, p)) = 1
<1> DEFINE I == {i \in DOMAIN rows : rows[i].cycle = c}
           P == {rows[i].pair : i \in DOMAIN rows}
           f == [i \in I |-> rows[i].pair]
<1>1. DOMAIN rows = 1..Len(rows) /\ Len(rows) \in Nat
  OBVIOUS
<1>2. IsFiniteSet(DOMAIN rows)
  <2>1. IsFiniteSet(1..Len(rows))
    BY <1>1, FS_Interval
  <2> QED
    BY <1>1, <2>1
<1>3. IsFiniteSet(P)
  <2> DEFINE g == [i \in DOMAIN rows |-> rows[i].pair]
  <2>1. g \in Surjection(DOMAIN rows, P)
    BY DEF Surjection
  <2> HIDE DEF g, P
  <2> QED
    BY <1>2, <2>1, FS_Surjection
<1>4. f \in Injection(I, P)
  BY DEF Injection, IsInjective
<1>5. f \in Surjection(I, P)
  <2>1. Cardinality(I) = Cardinality(P)
    BY DEF SamplesIn, PairsIn
  <2> HIDE DEF I, P, f
  <2> QED
    BY <1>3, <1>4, <2>1, FS_Injection
<1>6. PICK k \in I : f[k] = p
  BY <1>5 DEF Surjection, PairsIn
<1>7. SamplesOf(rows, c, p) = {k}
  BY <1>6 DEF SamplesOf
<1> QED
  BY <1>7, FS_Singleton

LEMMA ReviewTold == ASSUME DataInv PROVE ReviewIsTrue
<1> SUFFICES ASSUME Review
             PROVE  /\ \A c \in 1..LastCycle(samples), p \in Pairs :
                          Cardinality({i \in DOMAIN samples : samples[i].cycle = c /\ samples[i].pair = p}) = 1
                    /\ \A p \in Pairs : \E i \in DOMAIN samples : samples[i].pair = p /\ samples[i].terminal
  BY DEF ReviewIsTrue
<1>1. AllTerminal(samples)
  BY DEF Review, DataInv, CompletionInv
<1>2. ASSUME NEW c \in 1..LastCycle(samples), NEW p \in Pairs
      PROVE  Cardinality({i \in DOMAIN samples : samples[i].cycle = c /\ samples[i].pair = p}) = 1
  <2>1. Cardinality(SamplesIn(samples, c)) = Cardinality(PairsIn(samples))
    BY DEF Review, CycleCount, SampledPairs, SamplesIn, PairsIn
  <2>2. p \in PairsIn(samples)
    BY <1>1 DEF AllTerminal, PairsIn
  <2>3. /\ samples \in Seq(DataSamples)
        /\ \A i, j \in DOMAIN samples : i # j /\ samples[i].cycle = samples[j].cycle => samples[i].pair # samples[j].pair
    BY DEF DataInv, DataTypes, SamplesInv
  <2>4. Cardinality(SamplesOf(samples, c, p)) = 1
    BY <2>1, <2>2, <2>3, CountedOnce
  <2> QED
    BY <2>4 DEF SamplesOf
<1> QED
  BY <1>1, <1>2 DEF AllTerminal

---------------------------------------------------------------------------
\* The pair that is sampled next is one that is left.
LEMMA FirstPairLeft == ASSUME NEW S \in SUBSET Pairs, S # {} PROVE FirstPair(S) \in S
<1> DEFINE F == {q[1] : q \in S}
<1>1. \A q \in S : q \in Feeds \X Assets /\ q[1] \in Nat /\ q[2] \in Nat
  BY DataRunAssumption DEF Pairs
<1>2. PICK f \in F : \A x \in F : f <= x
  <2>1. F \in SUBSET Nat /\ F # {}
    BY <1>1
  <2> HIDE DEF F
  <2> QED
    BY <2>1, LeastNat
<1> DEFINE A == {q[2] : q \in {x \in S : x[1] = f}}
<1>3. PICK a \in A : \A x \in A : a <= x
  <2>1. A \in SUBSET Nat /\ A # {}
    BY <1>1, <1>2
  <2> HIDE DEF A
  <2> QED
    BY <2>1, LeastNat
<1>4. PICK p \in S : p[1] = f /\ p[2] = a
  BY <1>3
<1>5. \A q \in S : p[1] < q[1] \/ (p[1] = q[1] /\ p[2] <= q[2])
  <2> SUFFICES ASSUME NEW q \in S PROVE p[1] < q[1] \/ (p[1] = q[1] /\ p[2] <= q[2])
    OBVIOUS
  <2>1. f <= q[1] /\ f \in Nat /\ q[1] \in Nat
    BY <1>1, <1>2, <1>4
  <2>2. q[1] = f => a <= q[2]
    BY <1>3
  <2> QED
    BY <1>4, <2>1, <2>2
<1> QED
  BY <1>4, <1>5 DEF FirstPair

LEMMA LeastOf == ASSUME NEW S \in SUBSET Nat, S # {} PROVE Min(S) \in S
  BY LeastNat DEF Min

\* A row more changes the state of its pair only.
LEMMA StateAfter ==
  ASSUME NEW rows \in Seq(HealthRecs), NEW row \in HealthRecs
  PROVE  \A p : /\ row.pair = p => StateIn(Append(rows, row), p) = row.state
                /\ row.pair # p => StateIn(Append(rows, row), p) = StateIn(rows, p)
<1> SUFFICES ASSUME NEW p, NEW more, more = Append(rows, row)
             PROVE  /\ row.pair = p => StateIn(more, p) = row.state
                    /\ row.pair # p => StateIn(more, p) = StateIn(rows, p)
  BY Zenon
<1> DEFINE n == Len(rows)
<1>1. /\ n \in Nat /\ DOMAIN rows = 1..n /\ DOMAIN more = 1..(n + 1) /\ more[n + 1] = row
      /\ \A i \in 1..n : more[i] = rows[i]
  BY AppendProperties
<1> HIDE DEF n
<1>2. CASE row.pair = p
  <2>1. RowsOfPair(more, p) \in SUBSET Nat /\ n + 1 \in RowsOfPair(more, p) /\ \A x \in RowsOfPair(more, p) : x <= n + 1
    BY <1>1, <1>2 DEF RowsOfPair
  <2>2. Max(RowsOfPair(more, p)) = n + 1
    BY <2>1, MaxIs
  <2> QED
    BY <1>1, <1>2, <2>1, <2>2 DEF StateIn
<1>3. CASE row.pair # p
  <2>1. RowsOfPair(more, p) = RowsOfPair(rows, p)
    BY <1>1, <1>3 DEF RowsOfPair
  <2>2. CASE RowsOfPair(rows, p) = {}
    BY <1>3, <2>1, <2>2 DEF StateIn
  <2>3. CASE RowsOfPair(rows, p) # {}
    <3>1. RowsOfPair(rows, p) \in SUBSET Nat /\ \A x \in RowsOfPair(rows, p) : x <= n
      BY <1>1 DEF RowsOfPair
    <3>2. Max(RowsOfPair(rows, p)) \in RowsOfPair(rows, p)
      BY <1>1, <2>3, <3>1, MaxOfNats
    <3>3. Max(RowsOfPair(rows, p)) \in 1..n
      BY <1>1, <3>2 DEF RowsOfPair
    <3> QED
      BY <1>1, <1>3, <2>1, <2>3, <3>3 DEF StateIn
  <2> QED
    BY <2>2, <2>3
<1> QED
  BY <1>2, <1>3

\* A ledger of states tells a state.
LEMMA StateTypes == ASSUME NEW rows \in Seq(HealthRecs), NEW p PROVE StateIn(rows, p) \in PairStates
<1>1. CASE RowsOfPair(rows, p) = {}
  BY <1>1 DEF StateIn, PairStates
<1>2. CASE RowsOfPair(rows, p) # {}
  <2>1. RowsOfPair(rows, p) \in SUBSET Nat /\ \A x \in RowsOfPair(rows, p) : x <= Len(rows)
    BY DEF RowsOfPair
  <2>2. Len(rows) \in Nat
    OBVIOUS
  <2>3. Max(RowsOfPair(rows, p)) \in RowsOfPair(rows, p)
    BY <1>2, <2>1, <2>2, MaxOfNats
  <2>4. Max(RowsOfPair(rows, p)) \in 1..Len(rows)
    BY <2>3 DEF RowsOfPair
  <2>5. rows[Max(RowsOfPair(rows, p))] \in HealthRecs
    BY <2>4
  <2> QED
    BY <1>2, <2>5 DEF StateIn, HealthRecs
<1> QED
  BY <1>1, <1>2

---------------------------------------------------------------------------
\* A run that goes to another step keeps what it knows.
Same(c, d) == /\ d.cycle = c.cycle /\ d.latest = c.latest /\ d.looks = c.looks /\ d.left = c.left
              /\ d.unselected = c.unselected

LEMMA GoneOn ==
  ASSUME NEW c \in JobRecs, NEW s \in JobPcs
  PROVE  /\ [c EXCEPT !.pc = s] \in JobRecs /\ [c EXCEPT !.pc = s].pc = s /\ Same(c, [c EXCEPT !.pc = s])
         /\ [c EXCEPT !.pc = s].over = c.over /\ [c EXCEPT !.pc = s].stop = c.stop
         /\ [c EXCEPT !.pc = s].terminal = c.terminal
  BY DEF JobRecs, Same

LEMMA AsleepTypes ==
  ASSUME NEW s \in JobPcs
  PROVE  Asleep \in JobRecs /\ [Asleep EXCEPT !.pc = s] \in JobRecs /\ [Asleep EXCEPT !.pc = s].pc = s
         /\ ~ [Asleep EXCEPT !.pc = s].over /\ Asleep.pc = "off" /\ ~ Asleep.over
<1>1. ASSUME NEW b \in BOOLEAN
      PROVE  LET a == [pc |-> "off", cycle |-> 0, terminal |-> b, over |-> b, stop |-> b,
                       latest |-> [p \in Pairs |-> "none"], looks |-> [p \in Pairs |-> "fine"],
                       left |-> {}, unselected |-> {}]
             IN  a \in JobRecs /\ a.pc = "off" /\ a.over = b
  BY DEF JobRecs, JobPcs, PairStates, Looks
<1>2. Asleep \in JobRecs /\ Asleep.pc = "off" /\ Asleep.over = FALSE
  BY <1>1, Zenon DEF Asleep
<1> QED
  BY <1>2, GoneOn

\* A step of one run leaves the others where they are: only the holder of the lock
\* touches the ledgers, and a sample more is no window less.
LEMMA DataOthersFit ==
  ASSUME DataInv, NEW r \in DataRunners, NEW j2 \in JobRecs, jobs' = [jobs EXCEPT ![r] = j2],
         UNCHANGED cycleLimit,
         dataLock \notin {0, r} => dataLock' = dataLock /\ UNCHANGED <<healthRows, samples>>,
         AllTerminal(samples) => AllTerminal(samples'),
         JobFits(j2, r)'
  PROVE  jobs' \in [DataRunners -> JobRecs] /\ JobsFit'
<1>1. jobs' \in [DataRunners -> JobRecs]
  BY DEF DataInv, DataTypes
<1>2. ASSUME NEW q \in DataRunners, q # r PROVE JobFits(jobs[q], q)'
  <2>1. jobs'[q] = jobs[q] /\ q # 0
    BY <1>2, DataRunAssumption DEF DataInv, DataTypes
  <2>2. JobFits(jobs[q], q)
    BY DEF DataInv, JobsFit
  <2>3. jobs[q].pc \in Cycling => dataLock' = q /\ healthRows' = healthRows /\ samples' = samples
    BY <1>2, <2>1, <2>2 DEF JobFits
  <2>4. jobs[q].pc \in Cycling => Knows(jobs[q], healthRows') /\ Placed(jobs[q], samples')
    BY <2>2, <2>3, Zenon DEF JobFits
  <2>5. jobs[q].over => AllTerminal(samples')
    BY <2>2 DEF JobFits
  <2>6. jobs[q].pc \in {"summary", "final"} => LoopEnds(jobs[q])'
    BY <2>1, <2>2 DEF JobFits, LoopEnds
  <2> QED
    BY <2>1, <2>3, <2>4, <2>5, <2>6 DEF JobFits
<1>3. JobFits(jobs[r], r)'
  <2>1. jobs'[r] = j2
    BY DEF DataInv, DataTypes
  <2> QED
    BY <2>1, Zenon
<1> QED
  BY <1>1, <1>2, <1>3 DEF JobsFit

\* What leaves the ledgers alone only has to tell where its run is.
LEMMA QuietStep ==
  ASSUME DataInv, NEW r \in DataRunners, NEW j2 \in JobRecs, jobs' = [jobs EXCEPT ![r] = j2],
         UNCHANGED <<cycleLimit, windowOver, healthRows, samples, selections>>,
         dataLock' \in DataRunners \cup {0}, dataLock \notin {0, r} => dataLock' = dataLock,
         dataStatus' = "multi_hour_window_complete" => AllTerminal(samples),
         JobFits(j2, r)'
  PROVE  DataInv'
<1>1. jobs' \in [DataRunners -> JobRecs] /\ JobsFit'
  BY DataOthersFit
<1>2. DataTypes' /\ SamplesInv' /\ CompletionInv'
  BY <1>1 DEF DataInv, DataTypes, SamplesInv, CompletionInv
<1>3. SelectedIsHealthy' /\ HealthLedgerReplays'
  BY DEF DataInv, SelectedIsHealthy, HealthLedgerReplays, StateIn, RowsOfPair
<1> QED
  BY <1>1, <1>2, <1>3 DEF DataInv

\* A run that is in none of these steps has nothing to tell.
Silent == {"off", "drills", "ready", "last", "gone"}

LEMMA SilentFits ==
  ASSUME NEW j2 \in JobRecs, NEW r, j2.pc \in Silent, j2.over => AllTerminal(samples')
  PROVE  JobFits(j2, r)'
  BY DEF JobFits, Silent, Cycling

LEMMA SetUpStep ==
  ASSUME DataInv, NEW r \in DataRunners, Configure(r) \/ WriteDrills(r)
  PROVE  DataInv'
<1>1. PICK j \in JobRecs : j = jobs[r]
  BY DEF DataInv, DataTypes
<1>2. PICK s \in {"drills", "ready"} : jobs' = [jobs EXCEPT ![r].pc = s]
  BY DEF Configure, WriteDrills, JobGoto
<1> DEFINE j2 == [j EXCEPT !.pc = s]
<1>3. jobs' = [jobs EXCEPT ![r] = j2]
  BY <1>1, <1>2
<1>4. j2 \in JobRecs /\ j2.pc \in Silent /\ j2.over = j.over
  BY <1>1, GoneOn DEF JobPcs, Silent
<1>5. /\ UNCHANGED <<cycleLimit, windowOver, healthRows, samples, selections, dataStatus, dataLock>>
      /\ dataLock \in DataRunners \cup {0}
  BY DEF Configure, WriteDrills, dataLogs, DataInv, DataTypes
<1>6. (j.over => AllTerminal(samples)) /\ (dataStatus = "multi_hour_window_complete" => AllTerminal(samples))
  BY <1>1 DEF DataInv, JobsFit, JobFits, CompletionInv
<1> HIDE DEF j2
<1>7. JobFits(j2, r)'
  BY <1>4, <1>5, <1>6, SilentFits
<1> QED
  BY <1>3, <1>4, <1>5, <1>6, <1>7, QuietStep

\* The logs are read: the next cycle is after every sample.
LEMMA OpenStep ==
  ASSUME DataInv, NEW r \in DataRunners, OpenLogs(r)
  PROVE  DataInv'
<1>1. PICK a \in JobRecs : a = Asleep /\ ~ a.over
  BY AsleepTypes DEF JobPcs
<1>2. /\ LastCycle(samples) \in Nat
      /\ \A i \in DOMAIN samples : samples[i].cycle \in Nat /\ samples[i].cycle <= LastCycle(samples)
  <2>1. samples \in Seq(DataSamples) /\ \A i \in DOMAIN samples : samples[i].cycle <= samples[Len(samples)].cycle
    BY DEF DataInv, DataTypes, SamplesInv
  <2>2. \A i \in DOMAIN samples : samples[i] \in DataSamples
    BY <2>1
  <2>3. \A i \in DOMAIN samples : samples[i].cycle \in Nat
    BY <2>2 DEF DataSamples
  <2>4. samples # <<>> => Len(samples) \in DOMAIN samples
    BY <2>1
  <2>5. samples = <<>> => DOMAIN samples = {}
    OBVIOUS
  <2> QED
    BY <2>1, <2>3, <2>4, <2>5 DEF LastCycle
<1>3. PICK n \in Nat : n = LastCycle(samples) + 1
  BY <1>2
<1>4. PICK l \in [Pairs -> PairStates] : \A p \in Pairs : l[p] = StateIn(healthRows, p)
  <2>1. \A p \in Pairs : StateIn(healthRows, p) \in PairStates
    BY StateTypes DEF DataInv, DataTypes
  <2>2. [p \in Pairs |-> StateIn(healthRows, p)] \in [Pairs -> PairStates]
    BY <2>1
  <2> QED
    BY <2>2
<1> DEFINE j2 == [a EXCEPT !.pc = "loop", !.cycle = n, !.latest = l]
<1>5. jobs' = [jobs EXCEPT ![r] = j2]
  <2>1. l = [p \in Pairs |-> StateIn(healthRows, p)]
    BY <1>4
  <2> QED
    BY <1>1, <1>3, <2>1, Zenon DEF OpenLogs, JobSet
<1>6. j2 \in JobRecs /\ j2.pc = "loop" /\ j2.over = a.over /\ j2.cycle = n /\ j2.latest = l
  BY DEF JobRecs, JobPcs, Cycling
<1>7. /\ UNCHANGED <<cycleLimit, windowOver, healthRows, samples, selections, dataStatus>>
      /\ dataLock' = r /\ dataLock = 0
  BY DEF OpenLogs, dataLogs, dataFiles
<1>8. dataStatus = "multi_hour_window_complete" => AllTerminal(samples)
  BY DEF DataInv, CompletionInv
<1> HIDE DEF j2
<1>9. \A i \in DOMAIN samples : samples[i].cycle < n
  BY <1>2, <1>3
<1>10. JobFits(j2, r)'
  <2>1. Knows(j2, healthRows)
    BY <1>4, <1>6 DEF Knows
  <2>2. Placed(j2, samples)
    BY <1>6, <1>9 DEF Placed
  <2> QED
    BY <1>1, <1>6, <1>7, <2>1, <2>2, Zenon DEF JobFits
<1> QED
  BY <1>5, <1>6, <1>7, <1>8, <1>10, QuietStep

\* A new cycle has its samples before it.
LEMMA BeginStep ==
  ASSUME DataInv, NEW r \in DataRunners, NEW looks \in [Pairs -> Looks], BeginCycle(r, looks)
  PROVE  DataInv'
<1>1. PICK j \in JobRecs : j = jobs[r]
  BY DEF DataInv, DataTypes
<1>2. PICK b \in BOOLEAN : b = windowOver
  BY DEF DataInv, DataTypes
<1> DEFINE j2 == [j EXCEPT !.pc = "health", !.terminal = b, !.looks = looks, !.left = Pairs]
<1>3. jobs' = [jobs EXCEPT ![r] = j2]
  BY <1>1, <1>2, Zenon DEF BeginCycle, JobSet
<1>4. /\ j2 \in JobRecs /\ j2.pc = "health" /\ j2.over = j.over /\ j2.cycle = j.cycle /\ j2.latest = j.latest
      /\ j2.left = Pairs
  BY DEF JobRecs, JobPcs, Cycling
<1>5. /\ UNCHANGED <<cycleLimit, windowOver, healthRows, samples, selections, dataStatus, dataLock>>
      /\ dataLock \in DataRunners \cup {0} /\ j.pc = "loop"
  BY <1>1 DEF BeginCycle, dataLogs, dataFiles, DataInv, DataTypes
<1>6. JobFits(j, r) /\ (dataStatus = "multi_hour_window_complete" => AllTerminal(samples))
  BY <1>1 DEF DataInv, JobsFit, CompletionInv
<1>7. dataLock = r /\ Knows(j, healthRows) /\ Placed(j, samples) /\ (j.over => AllTerminal(samples))
  BY <1>5, <1>6 DEF JobFits, Cycling
<1>8. Pairs # {}
  <2>1. PICK f \in Feeds, a \in Assets : TRUE
    BY DataRunAssumption
  <2>2. <<f, a>> \in Pairs
    BY DEF Pairs
  <2> QED
    BY <2>2
<1> HIDE DEF j2
<1>9. JobFits(j2, r)'
  <2>1. Knows(j2, healthRows)
    BY <1>4, <1>7 DEF Knows
  <2>2. \A i \in DOMAIN samples : samples[i].cycle < j.cycle
    BY <1>5, <1>7 DEF Placed
  <2>3. \A i \in DOMAIN samples : samples[i].cycle <= j.cycle /\ samples[i].cycle # j.cycle
    <3>1. j.cycle \in Nat
      BY DEF JobRecs
    <3>2. samples \in Seq(DataSamples)
      BY DEF DataInv, DataTypes
    <3>3. \A i \in DOMAIN samples : samples[i] \in DataSamples
      BY <3>2
    <3>4. \A i \in DOMAIN samples : samples[i].cycle \in Nat
      BY <3>3 DEF DataSamples
    <3> QED
      BY <2>2, <3>1, <3>4
  <2>4. Placed(j2, samples)
    BY <1>4, <1>8, <2>3 DEF Placed
  <2> QED
    BY <1>4, <1>5, <1>7, <2>1, <2>4, Zenon DEF JobFits
<1> QED
  BY <1>3, <1>4, <1>5, <1>6, <1>9, QuietStep

\* What is published of a cycle leaves its run in place.
LEMMA PublishStep ==
  ASSUME DataInv, NEW r \in DataRunners, PublishHealth(r) \/ PublishStatus(r)
  PROVE  DataInv'
<1>1. PICK j \in JobRecs : j = jobs[r]
  BY DEF DataInv, DataTypes
<1>2. PICK s \in {"status", "loop"} : jobs' = [jobs EXCEPT ![r].pc = s]
  BY DEF PublishHealth, PublishStatus, JobGoto
<1> DEFINE j2 == [j EXCEPT !.pc = s]
<1>3. jobs' = [jobs EXCEPT ![r] = j2]
  BY <1>1, <1>2
<1>4. j2 \in JobRecs /\ j2.pc = s /\ Same(j, j2) /\ j2.over = j.over
  BY GoneOn DEF JobPcs, Cycling
<1>5. /\ UNCHANGED <<cycleLimit, windowOver, healthRows, samples, selections, dataLock>>
      /\ dataStatus' \in {dataStatus, "running"}
      /\ dataLock \in DataRunners \cup {0} /\ j.pc \in {"publish", "status"}
  BY <1>1 DEF PublishHealth, PublishStatus, dataLogs, DataInv, DataTypes
<1>6. JobFits(j, r) /\ (dataStatus' = "multi_hour_window_complete" => AllTerminal(samples))
  BY <1>1, <1>5 DEF DataInv, JobsFit, CompletionInv
<1>7. dataLock = r /\ Knows(j, healthRows) /\ Placed(j, samples) /\ (j.over => AllTerminal(samples))
  BY <1>5, <1>6 DEF JobFits, Cycling
<1> HIDE DEF j2
<1>8. Knows(j2, healthRows) /\ Placed(j2, samples)
  BY <1>4, <1>5, <1>7 DEF Knows, Placed, Same
<1>9. JobFits(j2, r)'
  BY <1>4, <1>5, <1>7, <1>8, Zenon DEF JobFits
<1> QED
  BY <1>3, <1>4, <1>5, <1>6, <1>9, QuietStep

\* A signal may come before the next cycle.
LEMMA SignalStep ==
  ASSUME DataInv, NEW r \in DataRunners, StopSignal(r)
  PROVE  DataInv'
<1>1. PICK j \in JobRecs : j = jobs[r]
  BY DEF DataInv, DataTypes
<1>2. PICK b \in BOOLEAN : b = TRUE
  OBVIOUS
<1> DEFINE j2 == [j EXCEPT !.stop = b]
<1>3. jobs' = [jobs EXCEPT ![r] = j2]
  BY <1>1, <1>2, Zenon DEF StopSignal
<1>4. j2 \in JobRecs /\ j2.pc = j.pc /\ Same(j, j2) /\ j2.over = j.over /\ j2.terminal = j.terminal
  BY DEF JobRecs, Same
<1>5. /\ UNCHANGED <<cycleLimit, windowOver, healthRows, samples, selections, dataStatus, dataLock>>
      /\ dataLock \in DataRunners \cup {0} /\ j.pc = "loop"
  BY <1>1 DEF StopSignal, dataLogs, dataFiles, DataInv, DataTypes
<1>6. JobFits(j, r) /\ (dataStatus' = "multi_hour_window_complete" => AllTerminal(samples))
  BY <1>1, <1>5 DEF DataInv, JobsFit, CompletionInv
<1>7. dataLock = r /\ Knows(j, healthRows) /\ Placed(j, samples) /\ (j.over => AllTerminal(samples))
  BY <1>5, <1>6 DEF JobFits, Cycling
<1> HIDE DEF j2
<1>8. Knows(j2, healthRows) /\ Placed(j2, samples)
  BY <1>4, <1>5, <1>7 DEF Knows, Placed, Same
<1>9. JobFits(j2, r)'
  BY <1>4, <1>5, <1>7, <1>8, Zenon DEF JobFits
<1> QED
  BY <1>3, <1>4, <1>5, <1>6, <1>9, QuietStep

\* Only a run that may leave the loop leaves it, and its last files say why.
LEMMA EndingStep ==
  ASSUME DataInv, NEW r \in DataRunners, LeaveLoop(r) \/ FinalDataSummary(r) \/ FinalDataStatus(r)
  PROVE  DataInv'
<1>1. PICK j \in JobRecs : j = jobs[r]
  BY DEF DataInv, DataTypes
<1>2. j.pc \in {"loop", "summary", "final"} /\ LoopEnds(j)
  BY <1>1 DEF LeaveLoop, FinalDataSummary, FinalDataStatus, DataInv, JobsFit, JobFits
<1>3. PICK s \in {"summary", "final", "last"} : jobs' = [jobs EXCEPT ![r].pc = s]
  BY DEF LeaveLoop, FinalDataSummary, FinalDataStatus, JobGoto
<1> DEFINE j2 == [j EXCEPT !.pc = s]
<1>4. jobs' = [jobs EXCEPT ![r] = j2]
  BY <1>1, <1>3
<1>5. j2 \in JobRecs /\ j2.pc = s /\ Same(j, j2) /\ j2.over = j.over /\ j2.stop = j.stop
  BY GoneOn DEF JobPcs, Cycling
<1>6. /\ UNCHANGED <<cycleLimit, windowOver, healthRows, samples, selections>>
      /\ dataLock' \in {dataLock, 0} /\ (dataLock \notin {0, r} => dataLock' = dataLock)
      /\ dataLock' \in DataRunners \cup {0}
  <2>1. JobFits(j, r) /\ dataLock \in DataRunners \cup {0}
    BY <1>1 DEF DataInv, JobsFit, DataTypes
  <2>2. LeaveLoop(r) => dataLock = r
    BY <1>1, <2>1 DEF LeaveLoop, JobFits, Cycling
  <2> QED
    BY <2>1, <2>2 DEF LeaveLoop, FinalDataSummary, FinalDataStatus, dataLogs, dataFiles
<1>7. JobFits(j, r) /\ (dataStatus = "multi_hour_window_complete" => AllTerminal(samples))
  BY <1>1 DEF DataInv, JobsFit, CompletionInv
<1>8. j.over => AllTerminal(samples)
  BY <1>7 DEF JobFits
<1>9. dataStatus' = "multi_hour_window_complete" => AllTerminal(samples)
  <2>1. CASE FinalDataStatus(r)
    <3>1. dataStatus' = Outcome(j) /\ LoopEnds(j)
      BY <1>1, <1>7, <2>1 DEF FinalDataStatus, JobFits
    <3>2. Outcome(j) = "multi_hour_window_complete" => j.over
      BY <3>1 DEF Outcome, LoopEnds
    <3> QED
      BY <1>8, <3>1, <3>2
  <2>2. CASE LeaveLoop(r) \/ FinalDataSummary(r)
    BY <1>7, <2>2 DEF LeaveLoop, FinalDataSummary, dataFiles
  <2> QED
    BY <2>1, <2>2
<1> HIDE DEF j2
<1>10. JobFits(j2, r)'
  <2>1. LoopEnds(j2)
    BY <1>2, <1>5 DEF LoopEnds, Same
  <2>2. LoopEnds(j2)'
    BY <1>6, <2>1 DEF LoopEnds
  <2>3. j2.pc \notin Cycling
    BY <1>5 DEF Cycling
  <2>4. j2.over => AllTerminal(samples')
    BY <1>5, <1>6, <1>8
  <2> QED
    BY <1>5, <2>2, <2>3, <2>4, Zenon DEF JobFits
<1> QED
  BY <1>4, <1>5, <1>6, <1>9, <1>10, QuietStep

\* A run that is gone, in the end or by its death, tells nothing more.
LEMMA GoneStep ==
  ASSUME DataInv, NEW r \in DataRunners, FinalHealth(r) \/ JobDies(r)
  PROVE  DataInv'
<1>1. PICK j2 \in JobRecs : j2 = [Asleep EXCEPT !.pc = "gone"] /\ j2.pc = "gone" /\ ~ j2.over
  BY AsleepTypes DEF JobPcs
<1>2. jobs' = [jobs EXCEPT ![r] = j2]
  BY <1>1, Zenon DEF FinalHealth, JobDies, Gone
<1>3. /\ UNCHANGED <<cycleLimit, windowOver, healthRows, samples, selections, dataStatus>>
      /\ dataLock' \in DataRunners \cup {0} /\ (dataLock \notin {0, r} => dataLock' = dataLock)
  BY DEF FinalHealth, JobDies, dataLogs, dataFiles, DataInv, DataTypes
<1>4. dataStatus' = "multi_hour_window_complete" => AllTerminal(samples)
  BY <1>3 DEF DataInv, CompletionInv
<1>5. JobFits(j2, r)'
  <2>1. j2.pc \in Silent
    BY <1>1 DEF Silent
  <2> QED
    BY <1>1, <2>1, SilentFits, Zenon
<1> QED
  BY <1>2, <1>3, <1>4, <1>5, QuietStep

---------------------------------------------------------------------------
\* The health ledger, by its rows.
Replays(rows) == \A i \in DOMAIN rows : rows[i].previous = StateIn(SubSeq(rows, 1, i - 1), rows[i].pair)

\* A row that starts from the state of its pair leaves a ledger that replays.
LEMMA HealthRowFits ==
  ASSUME NEW rows \in Seq(HealthRecs), Replays(rows), NEW row \in HealthRecs,
         row.previous = StateIn(rows, row.pair), NEW more, more = Append(rows, row)
  PROVE  Replays(more)
<1>1. /\ Len(rows) \in Nat /\ DOMAIN rows = 1..Len(rows) /\ DOMAIN more = 1..(Len(rows) + 1)
      /\ more[Len(rows) + 1] = row /\ \A i \in 1..Len(rows) : more[i] = rows[i]
  BY AppendProperties
<1>2. \A i \in 1..(Len(rows) + 1) : SubSeq(more, 1, i - 1) = SubSeq(rows, 1, i - 1)
  BY EarlierLog
<1>3. SubSeq(rows, 1, Len(rows)) = rows
  BY WholeLog
<1> SUFFICES ASSUME NEW i \in 1..(Len(rows) + 1)
             PROVE  more[i].previous = StateIn(SubSeq(more, 1, i - 1), more[i].pair)
  BY <1>1 DEF Replays
<1>4. CASE i = Len(rows) + 1
  <2>1. i - 1 = Len(rows) /\ more[i] = row
    BY <1>1, <1>4
  <2>2. SubSeq(more, 1, i - 1) = rows
    BY <1>2, <1>3, <2>1
  <2> QED
    BY <2>1, <2>2
<1>5. CASE i \in 1..Len(rows)
  <2>1. more[i] = rows[i] /\ i \in DOMAIN rows /\ SubSeq(more, 1, i - 1) = SubSeq(rows, 1, i - 1)
    BY <1>1, <1>2, <1>5
  <2> QED
    BY <2>1 DEF Replays
<1> QED
  BY <1>1, <1>4, <1>5

\* The state of a pair is written before its sample.
LEMMA HealthStep ==
  ASSUME DataInv, NEW r \in DataRunners, RecordHealth(r)
  PROVE  DataInv'
<1>1. PICK j \in JobRecs : j = jobs[r]
  BY DEF DataInv, DataTypes
<1>2. PICK p : p = FirstPair(j.left)
  OBVIOUS
<1>3. PICK state \in PairStates : state = EvaluateSourceHealth(j.looks[p], ConnectedIn(samples, p))
  BY DEF EvaluateSourceHealth, PairStates
<1>4. j.pc = "health" /\ JobFits(j, r)
  BY <1>1 DEF RecordHealth, DataInv, JobsFit
<1>5. dataLock = r /\ Knows(j, healthRows) /\ Placed(j, samples) /\ (j.over => AllTerminal(samples))
  BY <1>4 DEF JobFits, Cycling
<1>6. p \in j.left /\ j.left \subseteq Pairs /\ p \in Pairs
  <2>1. j.left # {} /\ j.left \in SUBSET Pairs
    BY <1>4, <1>5 DEF Placed, JobRecs
  <2> QED
    BY <1>2, <2>1, FirstPairLeft
<1> DEFINE j2 == [j EXCEPT !.latest[p] = state, !.pc = "sample"]
<1>7. jobs' = [jobs EXCEPT ![r] = j2]
  BY <1>1, <1>2, <1>3, Zenon DEF RecordHealth, JobSet
<1>8. /\ j2 \in JobRecs /\ j2.pc = "sample" /\ j2.over = j.over /\ j2.cycle = j.cycle /\ j2.left = j.left
      /\ j2.latest = [j.latest EXCEPT ![p] = state] /\ j2.terminal = j.terminal
  BY <1>6 DEF JobRecs, JobPcs, Cycling
<1> HIDE DEF j2
<1>9. UNCHANGED <<cycleLimit, windowOver, samples, selections, dataStatus, dataLock>>
  BY DEF RecordHealth, dataFiles
<1>10. PICK row \in HealthRecs : row = [pair |-> p, previous |-> j.latest[p], state |-> state]
  BY <1>6 DEF HealthRecs, JobRecs
<1>11. PICK rows \in Seq(HealthRecs) : rows = healthRows
  BY DEF DataInv, DataTypes
<1>12. PICK more : more = healthRows' /\ more = IF j.latest[p] = state THEN rows ELSE Append(rows, row)
  BY <1>1, <1>2, <1>3, <1>10, <1>11, Zenon DEF RecordHealth
<1>13. Replays(rows)
  BY <1>11 DEF DataInv, HealthLedgerReplays, Replays
<1>14. row.pair = p /\ row.previous = j.latest[p] /\ row.state = state /\ j.latest[p] = StateIn(rows, p)
  BY <1>5, <1>6, <1>10, <1>11 DEF Knows
<1>15. /\ more \in Seq(HealthRecs) /\ Replays(more)
       /\ \A q \in Pairs : StateIn(more, q) = IF q = p THEN state ELSE StateIn(rows, q)
  <2>1. CASE j.latest[p] = state
    BY <1>12, <1>13, <1>14, <2>1
  <2>2. CASE j.latest[p] # state
    <3>1. more = Append(rows, row)
      BY <1>12, <2>2
    <3>2. more \in Seq(HealthRecs)
      BY <3>1
    <3>3. Replays(more)
      BY <1>13, <1>14, <3>1, HealthRowFits
    <3>4. \A q : /\ row.pair = q => StateIn(more, q) = row.state
                 /\ row.pair # q => StateIn(more, q) = StateIn(rows, q)
      <4>1. \A q : /\ row.pair = q => StateIn(Append(rows, row), q) = row.state
                   /\ row.pair # q => StateIn(Append(rows, row), q) = StateIn(rows, q)
        BY StateAfter, Zenon
      <4> QED
        BY <3>1, <4>1, Zenon
    <3>5. \A q \in Pairs : StateIn(more, q) = IF q = p THEN state ELSE StateIn(rows, q)
      <4> TAKE q \in Pairs
      <4>1. CASE q = p
        BY <1>14, <3>4, <4>1
      <4>2. CASE q # p
        BY <1>14, <3>4, <4>2
      <4> QED
        BY <4>1, <4>2
    <3> QED
      BY <3>2, <3>3, <3>5
  <2> QED
    BY <2>1, <2>2
<1>16. Knows(j2, more)
  BY <1>5, <1>6, <1>8, <1>11, <1>15 DEF Knows, JobRecs
<1>17. Placed(j2, samples)
  <2>1. \A q \in Pairs \ j.left : Sampled(j2, samples, q)
    <3> SUFFICES ASSUME NEW q \in Pairs \ j.left PROVE Sampled(j2, samples, q)
      OBVIOUS
    <3>1. Sampled(j, samples, q) /\ q # p
      BY <1>4, <1>5, <1>6 DEF Placed
    <3>2. j2.latest[q] = j.latest[q]
      BY <1>6, <1>8, <3>1 DEF JobRecs
    <3> QED
      BY <1>8, <3>1, <3>2, Zenon DEF Sampled
  <2> QED
    BY <1>4, <1>5, <1>6, <1>8, <2>1 DEF Placed
<1>18. JobFits(j2, r)'
  <2>1. Knows(j2, healthRows') /\ Placed(j2, samples') /\ dataLock' = r /\ (j2.over => AllTerminal(samples'))
    BY <1>5, <1>8, <1>9, <1>12, <1>16, <1>17
  <2> QED
    BY <1>8, <2>1, Zenon DEF JobFits
<1>19. jobs' \in [DataRunners -> JobRecs] /\ JobsFit'
  BY <1>5, <1>7, <1>8, <1>9, <1>18, DataOthersFit
<1>20. DataTypes' /\ SamplesInv' /\ CompletionInv' /\ SelectedIsHealthy'
  BY <1>9, <1>12, <1>15, <1>19 DEF DataInv, DataTypes, SamplesInv, CompletionInv, SelectedIsHealthy
<1>21. HealthLedgerReplays'
  BY <1>12, <1>15 DEF HealthLedgerReplays, Replays
<1> QED
  BY <1>19, <1>20, <1>21 DEF DataInv

---------------------------------------------------------------------------
\* Samples that were there stay when one is added.
LEMMA SamplesStay ==
  ASSUME NEW rows, NEW more, DOMAIN rows \subseteq DOMAIN more, \A i \in DOMAIN rows : more[i] = rows[i]
  PROVE  AllTerminal(rows) => AllTerminal(more)
<1> SUFFICES ASSUME AllTerminal(rows), NEW q \in Pairs
             PROVE  \E i \in DOMAIN more : more[i].pair = q /\ more[i].terminal
  BY DEF AllTerminal
<1>1. PICK i \in DOMAIN rows : rows[i].pair = q /\ rows[i].terminal
  BY DEF AllTerminal
<1>2. i \in DOMAIN more /\ more[i] = rows[i]
  OBVIOUS
<1> QED
  BY <1>1, <1>2, Zenon

LEMMA SampledStays ==
  ASSUME NEW rows, NEW more, DOMAIN rows \subseteq DOMAIN more, \A i \in DOMAIN rows : more[i] = rows[i],
         NEW j, NEW q, Sampled(j, rows, q)
  PROVE  Sampled(j, more, q)
<1>1. PICK k \in DOMAIN rows : /\ rows[k].cycle = j.cycle /\ rows[k].pair = q
                               /\ rows[k].state = j.latest[q] /\ rows[k].terminal = j.terminal
  BY Zenon DEF Sampled
<1>2. k \in DOMAIN more /\ more[k] = rows[k]
  OBVIOUS
<1> QED
  BY <1>1, <1>2, Zenon DEF Sampled

\* A run in the same cycle, with the same states, has the same samples.
LEMMA SampledSame ==
  ASSUME NEW j, NEW d, d.cycle = j.cycle, d.latest = j.latest, d.terminal = j.terminal, NEW rows, NEW q,
         Sampled(j, rows, q)
  PROVE  Sampled(d, rows, q)
<1>1. PICK k \in DOMAIN rows : /\ rows[k].cycle = j.cycle /\ rows[k].pair = q
                               /\ rows[k].state = j.latest[q] /\ rows[k].terminal = j.terminal
  BY Zenon DEF Sampled
<1>2. rows[k].cycle = d.cycle /\ rows[k].state = d.latest[q] /\ rows[k].terminal = d.terminal
  BY <1>1, Zenon
<1> QED
  BY <1>1, <1>2, Zenon DEF Sampled

\* What was sampled healthy stays so when a sample is added.
LEMMA HealthyStays ==
  ASSUME SelectedIsHealthy, UNCHANGED selections, DOMAIN samples \subseteq DOMAIN samples',
         \A i \in DOMAIN samples : samples'[i] = samples[i]
  PROVE  SelectedIsHealthy'
<1> SUFFICES ASSUME NEW i \in DOMAIN selections, selections[i].feed # 0, NEW a \in Assets
             PROVE  \E k \in DOMAIN samples' :
                       /\ samples'[k].cycle = selections[i].cycle /\ samples'[k].pair = <<selections[i].feed, a>>
                       /\ samples'[k].state = "HEALTHY"
  BY DEF SelectedIsHealthy
<1>1. PICK k \in DOMAIN samples : /\ samples[k].cycle = selections[i].cycle
                                  /\ samples[k].pair = <<selections[i].feed, a>>
                                  /\ samples[k].state = "HEALTHY"
  BY DEF SelectedIsHealthy
<1>2. k \in DOMAIN samples' /\ samples'[k] = samples[k]
  OBVIOUS
<1> QED
  BY <1>1, <1>2

\* The last sample of a cycle ends the run when the cycle is terminal: every pair has then
\* its terminal sample.
LEMMA DataSampleStep ==
  ASSUME DataInv, NEW r \in DataRunners, RecordSample(r)
  PROVE  DataInv'
<1>1. PICK j \in JobRecs : j = jobs[r]
  BY DEF DataInv, DataTypes
<1>2. PICK p : p = FirstPair(j.left)
  OBVIOUS
<1>3. PICK c \in BOOLEAN : c = (j.looks[p] # "down")
  OBVIOUS
<1>4. j.pc = "sample" /\ JobFits(j, r)
  BY <1>1 DEF RecordSample, DataInv, JobsFit
<1>5. dataLock = r /\ Knows(j, healthRows) /\ Placed(j, samples) /\ (j.over => AllTerminal(samples))
  BY <1>4 DEF JobFits, Cycling
<1>6. p \in j.left /\ j.left \subseteq Pairs /\ p \in Pairs
  <2>1. j.left # {} /\ j.left \in SUBSET Pairs
    BY <1>4, <1>5 DEF Placed, JobRecs
  <2> QED
    BY <1>2, <2>1, FirstPairLeft
<1>7. PICK t \in BOOLEAN : t = j.terminal
  BY DEF JobRecs
<1>8. PICK row \in DataSamples : row = [cycle |-> j.cycle, pair |-> p, state |-> j.latest[p],
                                        connected |-> c, terminal |-> t]
  BY <1>6 DEF DataSamples, JobRecs
<1>9. row.cycle = j.cycle /\ row.pair = p /\ row.state = j.latest[p] /\ row.terminal = j.terminal
  BY <1>7, <1>8
<1>10. PICK rows \in Seq(DataSamples) : rows = samples
  BY DEF DataInv, DataTypes
<1>11. PICK more : more = samples' /\ more = Append(rows, row)
  BY <1>1, <1>2, <1>3, <1>7, <1>8, <1>10, Zenon DEF RecordSample
<1>12. /\ more \in Seq(DataSamples)
       /\ DOMAIN more = DOMAIN rows \cup {Len(rows) + 1} /\ Len(more) = Len(rows) + 1
       /\ Len(rows) + 1 \notin DOMAIN rows
       /\ more[Len(rows) + 1] = row /\ \A i \in DOMAIN rows : more[i] = rows[i]
  BY <1>11, AppendedLog
<1>13. AllTerminal(rows) => AllTerminal(more)
  BY <1>12, SamplesStay
<1>14. \A q : Sampled(j, rows, q) => Sampled(j, more, q)
  BY <1>12, SampledStays
<1>15. Sampled(j, more, p)
  <2>1. Len(rows) + 1 \in DOMAIN more
    BY <1>12
  <2> QED
    BY <1>9, <1>12, <2>1, Zenon DEF Sampled
<1>16. UNCHANGED <<cycleLimit, windowOver, healthRows, selections, dataStatus, dataLock>>
  BY DEF RecordSample, dataFiles
\* Where the run is after the sample.
<1>17. \A i \in DOMAIN rows : /\ rows[i].cycle \in Nat /\ rows[i].cycle <= j.cycle
                              /\ rows[i].cycle = j.cycle => rows[i].pair # p
  <2>1. \A i \in DOMAIN rows : rows[i] \in DataSamples
    BY <1>10
  <2> QED
    BY <1>4, <1>5, <1>6, <1>10, <2>1 DEF Placed, DataSamples
<1>18. \A i \in DOMAIN more : /\ more[i].cycle <= j.cycle
                              /\ more[i].cycle = j.cycle => more[i].pair \notin j.left \ {p}
  <2>1. j.cycle \in Nat
    BY DEF JobRecs
  <2>2. \A i \in DOMAIN rows : rows[i].cycle = j.cycle => rows[i].pair \notin j.left
    BY <1>4, <1>5, <1>10 DEF Placed
  <2> QED
    BY <1>9, <1>12, <1>17, <2>1, <2>2
<1>19. \A q \in Pairs \ (j.left \ {p}) : Sampled(j, more, q)
  <2>1. \A q \in Pairs \ j.left : Sampled(j, rows, q)
    BY <1>4, <1>5, <1>10 DEF Placed
  <2> QED
    BY <1>14, <1>15, <2>1
<1>20. \E j2 \in JobRecs : jobs' = [jobs EXCEPT ![r] = j2] /\ JobFits(j2, r)'
  <2>1. CASE j.left # {p}
    <3> DEFINE j2 == [j EXCEPT !.left = j.left \ {p}, !.pc = "health"]
    <3>1. jobs' = [jobs EXCEPT ![r] = j2]
      BY <1>1, <1>2, <2>1, Zenon DEF RecordSample, JobSet
    <3>2. /\ j2 \in JobRecs /\ j2.pc = "health" /\ j2.over = j.over /\ j2.cycle = j.cycle
          /\ j2.left = j.left \ {p} /\ j2.latest = j.latest /\ j2.terminal = j.terminal
      BY <1>6 DEF JobRecs, JobPcs, Cycling
    <3> HIDE DEF j2
    <3>3. \A q \in Pairs \ j2.left : Sampled(j2, more, q)
      BY <1>19, <3>2, SampledSame
    <3>4. j2.left # {}
      BY <1>6, <2>1, <3>2
    <3>5. Placed(j2, more)
      BY <1>18, <3>2, <3>3, <3>4 DEF Placed
    <3>6. Knows(j2, healthRows)
      BY <1>5, <3>2 DEF Knows
    <3>7. /\ Knows(j2, healthRows') /\ Placed(j2, samples') /\ dataLock' = r
          /\ (j2.over => AllTerminal(samples'))
      BY <1>5, <1>10, <1>11, <1>13, <1>16, <3>2, <3>5, <3>6
    <3>8. JobFits(j2, r)'
      BY <3>2, <3>7, Zenon DEF JobFits
    <3> QED
      BY <3>1, <3>2, <3>8
  <2>2. CASE j.left = {p}
    <3> DEFINE j2 == [j EXCEPT !.left = {}, !.unselected = Assets, !.over = t, !.pc = "select"]
    <3>1. jobs' = [jobs EXCEPT ![r] = j2]
      BY <1>1, <1>2, <1>7, <2>2, Zenon DEF RecordSample, JobSet
    <3>2. /\ j2 \in JobRecs /\ j2.pc = "select" /\ j2.over = t /\ j2.cycle = j.cycle
          /\ j2.left = {} /\ j2.latest = j.latest /\ j2.terminal = j.terminal /\ j2.unselected = Assets
      BY DEF JobRecs, JobPcs, Cycling
    <3> HIDE DEF j2
    <3>3. \A q \in Pairs : Sampled(j, more, q)
      BY <1>19, <2>2
    <3>4. \A q \in Pairs : Sampled(j2, more, q)
      BY <3>2, <3>3, SampledSame
    <3>5. Assets # {}
      BY DataRunAssumption
    <3>6. Placed(j2, more)
      BY <1>18, <3>2, <3>4, <3>5 DEF Placed
    <3>7. Knows(j2, healthRows)
      BY <1>5, <3>2 DEF Knows
    <3>8. j2.over => AllTerminal(more)
      BY <1>7, <3>2, <3>3, Zenon DEF Sampled, AllTerminal
    <3>9. /\ Knows(j2, healthRows') /\ Placed(j2, samples') /\ dataLock' = r
          /\ (j2.over => AllTerminal(samples'))
      BY <1>5, <1>11, <1>16, <3>6, <3>7, <3>8
    <3>10. JobFits(j2, r)'
      BY <3>2, <3>9, Zenon DEF JobFits
    <3> QED
      BY <3>1, <3>2, <3>10
  <2> QED
    BY <2>1, <2>2
<1>21. jobs' \in [DataRunners -> JobRecs] /\ JobsFit'
  <2>1. AllTerminal(samples) => AllTerminal(samples')
    BY <1>10, <1>11, <1>13
  <2>2. PICK j2 \in JobRecs : jobs' = [jobs EXCEPT ![r] = j2] /\ JobFits(j2, r)'
    BY <1>20
  <2> QED
    BY <1>5, <1>16, <2>1, <2>2, DataOthersFit
<1>22. SamplesInv'
  <2>1. \A i, k \in DOMAIN rows : i # k /\ rows[i].cycle = rows[k].cycle => rows[i].pair # rows[k].pair
    BY <1>10 DEF DataInv, SamplesInv
  <2>2. \A i, k \in DOMAIN more : i # k /\ more[i].cycle = more[k].cycle => more[i].pair # more[k].pair
    BY <1>9, <1>12, <1>17, <2>1
  <2>3. \A i \in DOMAIN more : more[i].cycle <= more[Len(more)].cycle
    BY <1>9, <1>12, <1>18
  <2> QED
    BY <1>11, <2>2, <2>3 DEF SamplesInv
<1>23. HealthLedgerReplays'
  BY <1>16 DEF DataInv, HealthLedgerReplays, StateIn, RowsOfPair
<1>24. DataTypes'
  <2>1. windowOver' = windowOver
    BY <1>4 DEF RecordSample
  <2> QED
    BY <1>11, <1>12, <1>16, <1>21, <2>1 DEF DataInv, DataTypes
<1>25. CompletionInv'
  BY <1>10, <1>11, <1>13, <1>16 DEF DataInv, CompletionInv
<1>26. SelectedIsHealthy'
  BY <1>10, <1>11, <1>12, <1>16, HealthyStays DEF DataInv
<1> QED
  BY <1>21, <1>22, <1>23, <1>24, <1>25, <1>26 DEF DataInv

---------------------------------------------------------------------------
\* What is selected is eligible: all its assets are healthy in this cycle.
LEMMA SelectsEligible ==
  ASSUME NEW latest, NEW asset, SelectSource(latest, asset) # 0
  PROVE  SelectSource(latest, asset) \in EligibleFeeds(latest)
<1>1. EligibleFeeds(latest) \in SUBSET Nat
  BY DataRunAssumption DEF EligibleFeeds
<1>2. EligibleFeeds(latest) # {} => Min(EligibleFeeds(latest)) \in EligibleFeeds(latest)
  BY <1>1, LeastOf
<1> QED
  BY <1>2, Zenon DEF SelectSource

\* The selections of a cycle come after all its samples.
LEMMA SelectionStep ==
  ASSUME DataInv, NEW r \in DataRunners, RecordSelection(r)
  PROVE  DataInv'
<1>1. PICK j \in JobRecs : j = jobs[r]
  BY DEF DataInv, DataTypes
<1>2. j.pc = "select" /\ JobFits(j, r)
  BY <1>1 DEF RecordSelection, DataInv, JobsFit
<1>3. /\ dataLock = r /\ Knows(j, healthRows) /\ Placed(j, samples) /\ (j.over => AllTerminal(samples))
      /\ dataLock \in DataRunners \cup {0}
  BY <1>2 DEF JobFits, Cycling
<1>4. PICK asset \in j.unselected : asset = Min(j.unselected)
  <2>1. j.unselected # {} /\ j.unselected \in SUBSET Nat
    BY <1>2, <1>3, DataRunAssumption DEF Placed, JobRecs
  <2> QED
    BY <2>1, LeastOf
<1>5. PICK feed : feed = SelectSource(j.latest, asset)
  OBVIOUS
<1>6. feed # 0 => feed \in Feeds /\ \A a \in Assets : j.latest[<<feed, a>>] = "HEALTHY"
  BY <1>5, SelectsEligible DEF EligibleFeeds
<1>7. PICK row \in SourceChoices : row = [cycle |-> j.cycle, asset |-> asset, feed |-> feed]
  BY <1>4, <1>6 DEF SourceChoices, JobRecs
<1>8. PICK rows \in Seq(SourceChoices) : rows = selections
  BY DEF DataInv, DataTypes
<1>9. PICK more : more = selections' /\ more = Append(rows, row)
  BY <1>1, <1>4, <1>5, <1>7, <1>8, Zenon DEF RecordSelection
<1>10. /\ more \in Seq(SourceChoices) /\ DOMAIN more = DOMAIN rows \cup {Len(rows) + 1}
       /\ more[Len(rows) + 1] = row /\ \A i \in DOMAIN rows : more[i] = rows[i]
  BY <1>9, AppendedLog
<1>11. UNCHANGED <<cycleLimit, windowOver, healthRows, samples, dataStatus, dataLock>>
  BY DEF RecordSelection, dataFiles
\* Where the run is after the selection.
<1>12. \E j2 \in JobRecs : jobs' = [jobs EXCEPT ![r] = j2] /\ JobFits(j2, r)'
  <2>1. CASE j.unselected # {asset}
    <3> DEFINE j2 == [j EXCEPT !.unselected = j.unselected \ {asset}]
    <3>1. jobs' = [jobs EXCEPT ![r] = j2]
      BY <1>1, <1>4, <2>1, Zenon DEF RecordSelection, JobSet
    <3>2. /\ j2 \in JobRecs /\ j2.pc = "select" /\ j2.over = j.over /\ j2.cycle = j.cycle
          /\ j2.left = j.left /\ j2.latest = j.latest /\ j2.terminal = j.terminal
          /\ j2.unselected = j.unselected \ {asset}
      BY <1>2 DEF JobRecs
    <3> HIDE DEF j2
    <3>3. \A q \in Pairs \ j2.left : Sampled(j2, samples, q)
      <4>1. \A q \in Pairs \ j2.left : Sampled(j, samples, q)
        BY <1>2, <1>3, <3>2 DEF Placed
      <4> QED
        BY <3>2, <4>1, SampledSame
    <3>4. j2.unselected # {}
      BY <1>4, <2>1, <3>2
    <3>5. Placed(j2, samples)
      BY <1>2, <1>3, <3>2, <3>3, <3>4 DEF Placed
    <3>6. Knows(j2, healthRows)
      BY <1>3, <3>2 DEF Knows
    <3>7. /\ Knows(j2, healthRows') /\ Placed(j2, samples') /\ dataLock' = r
          /\ (j2.over => AllTerminal(samples'))
      BY <1>3, <1>11, <3>2, <3>5, <3>6
    <3>8. JobFits(j2, r)'
      BY <3>2, <3>7, Zenon DEF JobFits
    <3> QED
      BY <3>1, <3>2, <3>8
  <2>2. CASE j.unselected = {asset}
    <3>1. PICK n \in Nat : n = j.cycle + 1
      BY DEF JobRecs
    <3> DEFINE j2 == [j EXCEPT !.unselected = {}, !.cycle = n, !.pc = "publish"]
    <3>2. jobs' = [jobs EXCEPT ![r] = j2]
      BY <1>1, <1>4, <2>2, <3>1, Zenon DEF RecordSelection, JobSet
    <3>3. j2 \in JobRecs /\ j2.pc = "publish" /\ j2.over = j.over /\ j2.cycle = n /\ j2.latest = j.latest
      BY DEF JobRecs, JobPcs, Cycling
    <3> HIDE DEF j2
    <3>4. \A i \in DOMAIN samples : samples[i].cycle < n
      <4>1. \A i \in DOMAIN samples : samples[i].cycle <= j.cycle
        BY <1>2, <1>3 DEF Placed
      <4>2. samples \in Seq(DataSamples)
        BY DEF DataInv, DataTypes
      <4>3. \A i \in DOMAIN samples : samples[i] \in DataSamples
        BY <4>2
      <4>4. \A i \in DOMAIN samples : samples[i].cycle \in Nat
        BY <4>3 DEF DataSamples
      <4>5. j.cycle \in Nat
        BY DEF JobRecs
      <4> QED
        BY <3>1, <4>1, <4>4, <4>5
    <3>5. Placed(j2, samples)
      BY <3>3, <3>4 DEF Placed
    <3>6. Knows(j2, healthRows)
      BY <1>3, <3>3 DEF Knows
    <3>7. /\ Knows(j2, healthRows') /\ Placed(j2, samples') /\ dataLock' = r
          /\ (j2.over => AllTerminal(samples'))
      BY <1>3, <1>11, <3>3, <3>5, <3>6
    <3>8. JobFits(j2, r)'
      BY <3>3, <3>7, Zenon DEF JobFits
    <3> QED
      BY <3>2, <3>3, <3>8
  <2> QED
    BY <2>1, <2>2
<1>13. jobs' \in [DataRunners -> JobRecs] /\ JobsFit'
  <2>1. PICK j2 \in JobRecs : jobs' = [jobs EXCEPT ![r] = j2] /\ JobFits(j2, r)'
    BY <1>12
  <2> QED
    BY <1>3, <1>11, <2>1, DataOthersFit
<1>14. SelectedIsHealthy'
  <2>1. \A i \in DOMAIN rows : rows[i].feed # 0 =>
          \A a \in Assets : \E k \in DOMAIN samples :
              /\ samples[k].cycle = rows[i].cycle /\ samples[k].pair = <<rows[i].feed, a>>
              /\ samples[k].state = "HEALTHY"
    BY <1>8 DEF DataInv, SelectedIsHealthy
  <2>2. ASSUME row.feed # 0, NEW a \in Assets
        PROVE  \E k \in DOMAIN samples :
                   /\ samples[k].cycle = row.cycle /\ samples[k].pair = <<row.feed, a>>
                   /\ samples[k].state = "HEALTHY"
    <3>1. row.cycle = j.cycle /\ row.feed = feed
      BY <1>7
    <3>2. <<feed, a>> \in Pairs /\ j.latest[<<feed, a>>] = "HEALTHY"
      BY <1>6, <2>2, <3>1 DEF Pairs
    <3>3. Sampled(j, samples, <<feed, a>>)
      BY <1>2, <1>3, <3>2 DEF Placed
    <3> QED
      BY <3>1, <3>2, <3>3 DEF Sampled
  <2>3. \A i \in DOMAIN more : more[i].feed # 0 =>
          \A a \in Assets : \E k \in DOMAIN samples :
              /\ samples[k].cycle = more[i].cycle /\ samples[k].pair = <<more[i].feed, a>>
              /\ samples[k].state = "HEALTHY"
    <3> SUFFICES ASSUME NEW i \in DOMAIN more, more[i].feed # 0, NEW a \in Assets
                 PROVE  \E k \in DOMAIN samples :
                           /\ samples[k].cycle = more[i].cycle /\ samples[k].pair = <<more[i].feed, a>>
                           /\ samples[k].state = "HEALTHY"
      OBVIOUS
    <3>1. more[i] = row \/ (i \in DOMAIN rows /\ more[i] = rows[i])
      BY <1>10
    <3>2. CASE more[i] = row
      BY <2>2, <3>2
    <3>3. CASE i \in DOMAIN rows /\ more[i] = rows[i]
      BY <2>1, <3>3
    <3> QED
      BY <3>1, <3>2, <3>3
  <2>4. selections' = more /\ samples' = samples
    BY <1>9, <1>11
  <2> QED
    BY <2>3, <2>4, Zenon DEF SelectedIsHealthy
<1>15. HealthLedgerReplays'
  BY <1>11 DEF DataInv, HealthLedgerReplays, StateIn, RowsOfPair
<1>16. DataTypes' /\ SamplesInv' /\ CompletionInv'
  BY <1>9, <1>10, <1>11, <1>13 DEF DataInv, DataTypes, SamplesInv, CompletionInv
<1> QED
  BY <1>13, <1>14, <1>15, <1>16 DEF DataInv

---------------------------------------------------------------------------
LEMMA DataInit == DataRunInit => DataInv
<1> SUFFICES ASSUME DataRunInit PROVE DataInv
  OBVIOUS
<1>1. DOMAIN healthRows = {} /\ DOMAIN samples = {} /\ DOMAIN selections = {}
  BY DEF DataRunInit
<1>2. Asleep \in JobRecs /\ Asleep.pc = "off" /\ ~ Asleep.over
  BY AsleepTypes DEF JobPcs
<1>3. DataTypes
  <2>1. healthRows \in Seq(HealthRecs) /\ samples \in Seq(DataSamples) /\ selections \in Seq(SourceChoices)
    BY DEF DataRunInit
  <2>2. jobs \in [DataRunners -> JobRecs] /\ dataLock = 0 /\ cycleLimit \in Nat
    BY <1>2, DataRunAssumption DEF DataRunInit
  <2>3. windowOver \in BOOLEAN
    BY DEF DataRunInit
  <2> QED
    BY <2>1, <2>2, <2>3 DEF DataTypes
<1>4. JobsFit
  <2> SUFFICES ASSUME NEW r \in DataRunners PROVE JobFits(jobs[r], r)
    BY DEF JobsFit
  <2>1. jobs[r] = Asleep
    BY DEF DataRunInit
  <2>2. Asleep.pc \notin Cycling \cup {"summary", "final"}
    BY <1>2 DEF Cycling
  <2> QED
    BY <1>2, <2>1, <2>2, Zenon DEF JobFits
<1>5. SamplesInv /\ SelectedIsHealthy /\ HealthLedgerReplays
  BY <1>1 DEF SamplesInv, SelectedIsHealthy, HealthLedgerReplays
<1>6. CompletionInv
  BY DEF CompletionInv, DataRunInit
<1> QED
  BY <1>3, <1>4, <1>5, <1>6 DEF DataInv

LEMMA DataNext == DataInv /\ [DataRunNext]_dataVars => DataInv'
<1> SUFFICES ASSUME DataInv, [DataRunNext]_dataVars PROVE DataInv'
  OBVIOUS
<1>1. CASE WindowEnds \/ UNCHANGED dataVars
  <2>1. /\ UNCHANGED <<cycleLimit, healthRows, samples, selections, dataStatus, dataLock, jobs>>
        /\ windowOver' \in BOOLEAN
    BY <1>1 DEF WindowEnds, dataVars, dataFiles, dataLogs, DataInv, DataTypes
  <2>2. DataTypes' /\ SamplesInv' /\ CompletionInv'
    BY <2>1 DEF DataInv, DataTypes, SamplesInv, CompletionInv
  <2>3. JobsFit'
    <3>1. \A j, r : JobFits(j, r) => JobFits(j, r)'
      BY <2>1 DEF JobFits, LoopEnds
    <3> QED
      BY <2>1, <3>1 DEF DataInv, JobsFit
  <2>4. SelectedIsHealthy' /\ HealthLedgerReplays'
    BY <2>1 DEF DataInv, SelectedIsHealthy, HealthLedgerReplays, StateIn, RowsOfPair
  <2> QED
    BY <2>2, <2>3, <2>4 DEF DataInv
<1>2. CASE DataRunNext /\ ~ WindowEnds
  <2>1. PICK r \in DataRunners :
            \/ Configure(r) \/ WriteDrills(r) \/ OpenLogs(r) \/ RecordHealth(r) \/ RecordSample(r)
            \/ RecordSelection(r) \/ PublishHealth(r) \/ PublishStatus(r) \/ StopSignal(r)
            \/ LeaveLoop(r) \/ FinalDataSummary(r) \/ FinalDataStatus(r) \/ FinalHealth(r) \/ JobDies(r)
            \/ \E looks \in [Pairs -> Looks] : BeginCycle(r, looks)
    BY <1>2, Zenon DEF DataRunNext
  <2> QED
    BY <2>1, SetUpStep, OpenStep, HealthStep, DataSampleStep, SelectionStep, PublishStep, SignalStep, EndingStep,
       GoneStep, BeginStep, Zenon
<1> QED
  BY <1>1, <1>2

\* What a public data run leaves behind can be relied on, for any sources, assets, processes,
\* deaths and windows: a directory that passes the offline review has one sample of every
\* pair in every cycle, with one at the end of the window; a selected source was sampled
\* healthy in all its assets in the same cycle; and the health ledger replays.
THEOREM DataRunTheorem == DataRunSpec => []DataRunEvidenceIsTrue
<1>1. DataInv => DataRunEvidenceIsTrue
  BY ReviewTold DEF DataRunEvidenceIsTrue, DataInv
<1>2. DataRunSpec => []DataInv
  BY DataInit, DataNext, PTL DEF DataRunSpec
<1> QED
  BY <1>1, <1>2, PTL

(***************************************************************************)
(* The public-data source.                                                 *)
(*                                                                         *)
(* The inductive invariant speaks of the replay of the receipts on disk,   *)
(* which one more receipt extends by one observation.  The live state and  *)
(* the bars still to observe together give that replay, since bars of      *)
(* different intervals can be observed one at a time or all at once; while *)
(* a start repairs the projection, the persisted bars are among those the  *)
(* replay derives.                                                         *)
(***************************************************************************)

SourceReceipts == [at : Nat, symbol : Symbols, bars : Responses]

\* f is the replay of the first n receipts, one projection per receipt.
ReplayedBy(f, rows, n) ==
    f = [i \in 0..n |-> IF i = 0 THEN Shadow ELSE Observed(f[i - 1], i, BarsOf(rows[i]))]

\* One receipt more can always be replayed.
LEMMA ReplayExtends ==
    ASSUME NEW rows, NEW n \in Nat, NEW f, ReplayedBy(f, rows, n)
    PROVE  \E g : ReplayedBy(g, rows, n + 1)
<1> DEFINE g == [i \in 0..(n + 1) |-> IF i = n + 1 THEN Observed(f[n], n + 1, BarsOf(rows[n + 1])) ELSE f[i]]
<1>1. \A i \in 0..n : f[i] = IF i = 0 THEN Shadow ELSE Observed(f[i - 1], i, BarsOf(rows[i]))
  BY DEF ReplayedBy
<1>2. \A i \in 0..n : g[i] = f[i]
  OBVIOUS
<1>3. \A i \in 0..(n + 1) : g[i] = IF i = 0 THEN Shadow ELSE Observed(g[i - 1], i, BarsOf(rows[i]))
  <2> SUFFICES ASSUME NEW i \in 0..(n + 1)
               PROVE  g[i] = IF i = 0 THEN Shadow ELSE Observed(g[i - 1], i, BarsOf(rows[i]))
    OBVIOUS
  <2>1. CASE i = 0
    BY <1>1, <1>2, <2>1
  <2>2. CASE i \in 1..n
    <3>1. i - 1 \in 0..n /\ i \in 0..n /\ i # 0
      BY <2>2
    <3>2. g[i - 1] = f[i - 1] /\ g[i] = f[i]
      BY <1>2, <3>1
    <3> HIDE DEF g
    <3> QED
      BY <1>1, <3>1, <3>2
  <2>3. CASE i = n + 1
    <3>1. g[i] = Observed(f[n], i, BarsOf(rows[i])) /\ g[i - 1] = f[n] /\ i # 0
      BY <2>3
    <3> HIDE DEF g
    <3> QED
      BY <3>1
  <2> QED
    BY <2>1, <2>2, <2>3
<1>4. g = [i \in 0..(n + 1) |-> g[i]]
  OBVIOUS
<1> HIDE DEF g
<1>5. g = [i \in 0..(n + 1) |-> IF i = 0 THEN Shadow ELSE Observed(g[i - 1], i, BarsOf(rows[i]))]
  BY <1>3, <1>4
<1> QED
  BY <1>5 DEF ReplayedBy

\* Any number of receipts can be replayed.
LEMMA ReplayExists ==
    ASSUME NEW rows
    PROVE  \A n \in Nat : \E f : ReplayedBy(f, rows, n)
<1> SUFFICES ASSUME NEW m \in Nat, ~ \E f : ReplayedBy(f, rows, m)
             PROVE  FALSE
  OBVIOUS
<1> DEFINE Bad == {n \in Nat : ~ \E f : ReplayedBy(f, rows, n)}
<1>1. PICK k \in Bad : \A j \in Bad : k <= j
  <2>1. Bad \subseteq Nat /\ Bad # {}
    OBVIOUS
  <2> HIDE DEF Bad
  <2> QED
    BY <2>1, LeastNat
<1>2. CASE k = 0
  <2>1. ReplayedBy([i \in 0..0 |-> Shadow], rows, 0)
    BY DEF ReplayedBy
  <2> QED
    BY <1>1, <1>2, <2>1
<1>3. CASE k # 0
  <2>1. k - 1 \in Nat /\ k - 1 \notin Bad
    BY <1>1, <1>3
  <2>2. PICK f : ReplayedBy(f, rows, k - 1)
    BY <2>1
  <2>3. \E g : ReplayedBy(g, rows, k - 1 + 1)
    BY <2>1, <2>2, ReplayExtends
  <2> QED
    BY <1>1, <2>3
<1> QED
  BY <1>2, <1>3

\* Two replays of logs that agree on the first receipts agree on these.
LEMMA ReplaysAgree ==
    \A rows, more, f, g : \A n \in Nat :
        ReplayedBy(f, rows, n) /\ ReplayedBy(g, more, n + 1) /\ (\A i \in 1..n : rows[i] = more[i]) =>
            f[n] = g[n]
<1> SUFFICES ASSUME NEW rows, NEW more, NEW f, NEW g, NEW n \in Nat, NEW m \in Nat, m = n + 1,
                    ReplayedBy(f, rows, n), ReplayedBy(g, more, m), \A i \in 1..n : rows[i] = more[i],
                    NEW j \in 0..n, f[j] # g[j]
             PROVE  FALSE
  OBVIOUS
<1> DEFINE Bad == {i \in 0..n : f[i] # g[i]}
<1>1. PICK k \in Bad : \A i \in Bad : k <= i
  <2>1. Bad \in SUBSET Nat /\ Bad # {}
    OBVIOUS
  <2> HIDE DEF Bad
  <2> QED
    BY <2>1, LeastNat
<1>2. /\ \A i \in 0..n : f[i] = IF i = 0 THEN Shadow ELSE Observed(f[i - 1], i, BarsOf(rows[i]))
      /\ \A i \in 0..m : g[i] = IF i = 0 THEN Shadow ELSE Observed(g[i - 1], i, BarsOf(more[i]))
  BY DEF ReplayedBy
<1>3. CASE k = 0
  BY <1>1, <1>2, <1>3
<1>4. CASE k # 0
  <2>1. k \in 1..n /\ k \in 0..m /\ k - 1 \in 0..n /\ k - 1 \notin Bad
    BY <1>1, <1>4
  <2>2. f[k - 1] = g[k - 1] /\ rows[k] = more[k]
    BY <2>1
  <2>3. f[k] = g[k]
    BY <1>2, <2>1, <2>2
  <2> QED
    BY <1>1, <2>3
<1> QED
  BY <1>3, <1>4

\* A replay is the last projection of a function that replays the log.
LEMMA ReplayIsLast ==
    ASSUME NEW rows, Len(rows) \in Nat
    PROVE  \E f : ReplayedBy(f, rows, Len(rows)) /\ Replay(rows) = f[Len(rows)]
<1>1. Replay(rows) = (CHOOSE f : ReplayedBy(f, rows, Len(rows)))[Len(rows)]
  BY DEF Replay, ReplayedBy
<1> QED
  BY <1>1, ReplayExists

\* The replay of a longer log is one observation more.
LEMMA ReplayStep ==
    ASSUME NEW T, NEW rows \in Seq(T), NEW r \in T
    PROVE  Replay(Append(rows, r)) = Observed(Replay(rows), Len(rows) + 1, BarsOf(r))
<1> DEFINE more == Append(rows, r)
<1>1. /\ Len(rows) \in Nat /\ Len(more) = Len(rows) + 1 /\ more[Len(rows) + 1] = r
      /\ \A i \in 1..Len(rows) : rows[i] = more[i]
  OBVIOUS
<1> HIDE DEF more
<1>2. PICK f : ReplayedBy(f, rows, Len(rows)) /\ Replay(rows) = f[Len(rows)]
  BY <1>1, ReplayIsLast
<1>3. PICK g : ReplayedBy(g, more, Len(rows) + 1) /\ Replay(more) = g[Len(rows) + 1]
  BY <1>1, ReplayIsLast
<1>4. f[Len(rows)] = g[Len(rows)]
  <2>1. PICK n \in Nat : n = Len(rows)
    BY <1>1
  <2>2. ReplayedBy(f, rows, n)
    BY <1>2, <2>1
  <2>3. ReplayedBy(g, more, n + 1)
    BY <1>3, <2>1
  <2>4. \A i \in 1..n : rows[i] = more[i]
    BY <1>1, <2>1
  <2>5. f[n] = g[n]
    BY <2>2, <2>3, <2>4, ReplaysAgree
  <2> QED
    BY <2>1, <2>5
<1>5. g[Len(rows) + 1] = Observed(g[Len(rows)], Len(rows) + 1, BarsOf(more[Len(rows) + 1]))
  BY <1>1, <1>3 DEF ReplayedBy
<1> QED
  BY <1>1, <1>2, <1>3, <1>4, <1>5 DEF more

LEMMA ReplayOfNone == Replay(<<>>) = Shadow
<1>1. PICK f : ReplayedBy(f, <<>>, 0) /\ Replay(<<>>) = f[0]
  <2>1. Len(<<>>) = 0
    OBVIOUS
  <2> QED
    BY <2>1, ReplayIsLast
<1> QED
  BY <1>1 DEF ReplayedBy

----------------------------------------------------------------------------
\* The bars of a receipt are of different intervals, each closed when it was received.
LEMMA BarsOfReceipt ==
    ASSUME NEW receipt
    PROVE  /\ \A a, b \in BarsOf(receipt) : a.key = b.key => a = b
           /\ \A b \in BarsOf(receipt) : /\ b.at = receipt.at /\ b = [key |-> b.key, content |-> b.content, at |-> b.at]
                                         /\ b.key[1] = receipt.symbol /\ b.key[2] \in DOMAIN receipt.bars
                                         /\ b.key = <<b.key[1], b.key[2]>>
BY DEF BarsOf

OnePerKey(new) == \A a, b \in new : a.key = b.key => a = b

\* A receipt is observed at once or bar by bar: the first bar, then the others.
LEMMA ObservedInParts ==
    ASSUME NEW state, NEW n, NEW new, OnePerKey(new),
           NEW bar \in new, NEW after, after = Observed(state, n, {bar}), after.revised = {}
    PROVE  Observed(after, n, new \ {bar}) = Observed(state, n, new)
<1> DEFINE seen == state.versions \cup VersionsIn(n, new)
           one  == state.versions \cup VersionsIn(n, {bar})
           Final(s, v, b) == /\ Prior(s, b) = {} /\ b.at >= b.key[2] + Guard
                             /\ Cardinality(Support(v, b)) >= Repeat
           Contradicts(s, b) == \E p \in Prior(s, b) : p.content # b.content
<1>1. /\ after.versions = one
      /\ after.bars = state.bars \cup {b \in {bar} : Final(state, one, b)}
      /\ after.revised = state.revised \cup {b \in {bar} : Contradicts(state, b)}
  BY DEF Observed
<1>2. after.versions \cup VersionsIn(n, new \ {bar}) = seen
  <2>1. VersionsIn(n, {bar}) \cup VersionsIn(n, new \ {bar}) = VersionsIn(n, new)
    BY DEF VersionsIn
  <2> QED
    BY <1>1, <2>1
<1>3. Support(one, bar) = Support(seen, bar)
  <2>1. \A v \in VersionsIn(n, new) : v[1] = bar.key => v \in VersionsIn(n, {bar})
    BY DEF VersionsIn, OnePerKey
  <2> QED
    BY <2>1 DEF Support, VersionsIn
<1>4. \A b \in new \ {bar} : Prior(after, b) = Prior(state, b)
  <2>1. \A b \in new \ {bar} : b.key # bar.key
    BY DEF OnePerKey
  <2> QED
    BY <1>1, <2>1 DEF Prior
<1>5. ~ Contradicts(state, bar) /\ state.revised = {}
  BY <1>1
<1> HIDE DEF seen, one
<1>6. after.bars \cup {b \in new \ {bar} : Final(after, seen, b)} = state.bars \cup {b \in new : Final(state, seen, b)}
  BY <1>1, <1>3, <1>4
<1>7. after.revised \cup {b \in new \ {bar} : Contradicts(after, b)} = state.revised \cup {b \in new : Contradicts(state, b)}
  BY <1>4, <1>5
<1>8. Observed(after, n, new \ {bar}) =
        [versions |-> seen,
         bars |-> after.bars \cup {b \in new \ {bar} : Final(after, seen, b)},
         revised |-> after.revised \cup {b \in new \ {bar} : Contradicts(after, b)}]
  BY <1>2, Zenon DEF Observed
<1>9. Observed(state, n, new) =
        [versions |-> seen,
         bars |-> state.bars \cup {b \in new : Final(state, seen, b)},
         revised |-> state.revised \cup {b \in new : Contradicts(state, b)}]
  BY Zenon DEF Observed, seen
<1> QED
  BY <1>6, <1>7, <1>8, <1>9, Zenon

----------------------------------------------------------------------------
\* The versions on record for a bar are as many as the receipts that say so.
LEMMA SupportCounts ==
    ASSUME NEW T, NEW rows \in Seq(T), NEW seen, NEW bar,
           seen = UNION {VersionsIn(n, BarsOf(rows[n])) : n \in DOMAIN rows}
    PROVE  Cardinality(Support(seen, bar)) =
               Cardinality({n \in 1..Len(rows) :
                                \E b \in BarsOf(rows[n]) : b.key = bar.key /\ b.content = bar.content})
<1> DEFINE N == {n \in 1..Len(rows) : \E b \in BarsOf(rows[n]) : b.key = bar.key /\ b.content = bar.content}
           V == Support(seen, bar)
           f == [n \in N |-> <<bar.key, bar.content, n>>]
<1>1. Len(rows) \in Nat /\ DOMAIN rows = 1..Len(rows)
  OBVIOUS
<1>2. IsFiniteSet(N)
  <2>1. IsFiniteSet(1..Len(rows))
    BY <1>1, FS_Interval
  <2> QED
    BY <2>1, FS_Subset
<1>3. \A v : v \in V <=> \E n \in N : v = <<bar.key, bar.content, n>>
  <2>1. \A v : v \in seen <=> \E n \in 1..Len(rows) : \E b \in BarsOf(rows[n]) : v = <<b.key, b.content, n>>
    BY <1>1 DEF VersionsIn
  <2>2. \A v \in V : \E n \in N : v = <<bar.key, bar.content, n>>
    <3> SUFFICES ASSUME NEW v \in seen, v[1] = bar.key, v[2] = bar.content
                 PROVE  \E n \in N : v = <<bar.key, bar.content, n>>
      BY DEF Support
    <3>1. PICK n \in 1..Len(rows) : \E b \in BarsOf(rows[n]) : v = <<b.key, b.content, n>>
      BY <2>1
    <3>2. PICK b \in BarsOf(rows[n]) : v = <<b.key, b.content, n>>
      BY <3>1
    <3>3. b.key = bar.key /\ b.content = bar.content
      BY <3>2
    <3> QED
      BY <3>2, <3>3
  <2>3. ASSUME NEW n \in N PROVE <<bar.key, bar.content, n>> \in V
    <3>1. PICK b \in BarsOf(rows[n]) : b.key = bar.key /\ b.content = bar.content
      OBVIOUS
    <3>2. <<bar.key, bar.content, n>> \in seen
      BY <2>1, <3>1
    <3> QED
      BY <3>2 DEF Support
  <2> QED
    BY <2>2, <2>3
<1> HIDE DEF N, V
<1>4. f \in [N -> V] /\ \A n \in N : f[n] = <<bar.key, bar.content, n>>
  BY <1>3
<1> HIDE DEF f
<1>5. \A n, m \in N : f[n] = f[m] => n = m
  BY <1>4
<1>6. \A v \in V : \E n \in N : f[n] = v
  BY <1>3, <1>4
<1>7. f \in Bijection(N, V)
  BY <1>4, <1>5, <1>6 DEF Bijection, Injection, Surjection, IsInjective
<1>8. ExistsBijection(N, V)
  BY <1>7 DEF ExistsBijection
<1> QED
  BY <1>2, <1>8, FS_Bijection DEF N, V

\* Of bars with numbers for keys one is before none of the others.
LEMMA SomeBarIsFirst ==
    ASSUME NEW M, M # {}, \A b \in M : b.key[1] \in Nat /\ b.key[2] \in Nat
    PROVE  /\ \E b \in M : \A other \in M : ~ KeyBefore(other, b)
           /\ \E b \in M : \A other \in M : b.key[2] <= other.key[2]
<1> DEFINE E(F) == {b.key[2] : b \in F}
           S == {b.key[1] : b \in M}
<1>1. ASSUME NEW F, F # {}, F \subseteq M PROVE \E b \in F : \A other \in F : b.key[2] <= other.key[2]
  <2>1. E(F) \in SUBSET Nat /\ E(F) # {}
    BY <1>1
  <2>2. PICK x \in E(F) : \A y \in E(F) : x <= y
    BY <2>1, LeastNat
  <2>3. PICK b \in F : b.key[2] = x
    OBVIOUS
  <2> QED
    BY <2>2, <2>3
<1>2. S \in SUBSET Nat /\ S # {}
  OBVIOUS
<1> HIDE DEF E, S
<1>3. PICK x \in S : \A y \in S : x <= y
  BY <1>2, LeastNat
<1> DEFINE F == {b \in M : b.key[1] = x}
<1>4. F # {} /\ F \subseteq M /\ x \in Nat /\ \A b \in M : x <= b.key[1]
  BY <1>2, <1>3 DEF S
<1> HIDE DEF F
<1>5. PICK b \in F : \A other \in F : b.key[2] <= other.key[2]
  BY <1>1, <1>4
<1>6. \A other \in M : ~ KeyBefore(other, b)
  <2> SUFFICES ASSUME NEW other \in M PROVE ~ KeyBefore(other, b)
    OBVIOUS
  <2>1. b \in M /\ b.key[1] = x /\ x <= other.key[1]
    BY <1>4, <1>5 DEF F
  <2>2. other.key[1] = x => b.key[2] <= other.key[2]
    BY <1>5 DEF F
  <2> QED
    BY <1>4, <2>1, <2>2 DEF KeyBefore
<1> QED
  BY <1>1, <1>4, <1>5, <1>6

----------------------------------------------------------------------------
\* The live projection, and what a replay of the receipts on file derives.
InMemory == [versions |-> versions, bars |-> Bars, revised |-> {}]
Derived == Replay(raw)

SourceShape ==
    /\ clock \in Nat /\ raw \in Seq(SourceReceipts) /\ \E S : norm \in Seq(S)
    /\ Derived = [versions |-> Derived.versions, bars |-> Derived.bars, revised |-> Derived.revised]
    /\ pending # {} => raw # <<>> /\ pending \subseteq BarsOf(raw[Len(raw)])
    /\ collector # "running" => pending = {}

\* The versions of the replay are all that the receipts say.
VersionsSaid == Derived.versions = UNION {VersionsIn(n, BarsOf(raw[n])) : n \in DOMAIN raw}

\* Receipt m made a bar final, and as long as the replay finds no revision no later one
\* says otherwise.
AdmittedBy(m, b) ==
    /\ b \in BarsOf(raw[m]) /\ b.at >= b.key[2] + Guard
    /\ Cardinality({n \in 1..m : Says(n, b, b.content)}) >= Repeat
    /\ Derived.revised = {} => \A n \in (m + 1)..Len(raw), c \in Contents : Says(n, b, c) => c = b.content

\* The bars of the replay are one per interval and stand on receipts; a revision is of a
\* bar on file.
ReplayIsSound ==
    /\ \A a, b \in Derived.bars : a.key = b.key => a = b
    /\ \A b \in Derived.bars : \E m \in DOMAIN raw : AdmittedBy(m, b)
    /\ Derived.revised # {} => \E b \in Bars : ~ Stands(b)

\* The file never holds a bar that the replay does not derive, and what is left of the
\* last receipt brings the live projection where the replay is.
LiveFollows ==
    /\ Bars \subseteq Derived.bars
    /\ collector \in {"replayed", "manifested", "running"} => Observed(InMemory, Len(raw), pending) = Derived
    /\ collector \in {"replaying", "replayed", "manifested", "running"} => revisions = 0
    /\ collector = "replaying" => Derived.revised = {}
    /\ revisions # 0 => Derived.revised # {}

SourceInv == SourceShape /\ VersionsSaid /\ ReplayIsSound /\ LiveFollows /\ RefusedForCause

\* Without bars there is nothing to observe.
LEMMA NothingObserved ==
    ASSUME NEW v, NEW b, NEW n
    PROVE  Observed([versions |-> v, bars |-> b, revised |-> {}], n, {}) = [versions |-> v, bars |-> b, revised |-> {}]
<1> DEFINE s == [versions |-> v, bars |-> b, revised |-> {}]
<1>1. VersionsIn(n, {}) = {}
  BY DEF VersionsIn
<1>2. s.versions = v /\ s.bars = b /\ s.revised = {}
  OBVIOUS
<1> HIDE DEF s
<1>3. /\ s.versions \cup VersionsIn(n, {}) = v
      /\ s.bars \cup {bar \in {} : /\ Prior(s, bar) = {} /\ bar.at >= bar.key[2] + Guard
                                   /\ Cardinality(Support(s.versions \cup VersionsIn(n, {}), bar)) >= Repeat} = b
      /\ s.revised \cup {bar \in {} : \E p \in Prior(s, bar) : p.content # bar.content} = {}
  BY <1>1, <1>2
<1>4. Observed(s, n, {}) = [versions |-> v, bars |-> b, revised |-> {}]
  BY <1>3, Zenon DEF Observed
<1> QED
  BY <1>4 DEF s

\* What the receipts say is the same as long as none is added.
LEMMA RawStays ==
    ASSUME raw' = raw
    PROVE  /\ Derived' = Derived /\ (VersionsSaid' <=> VersionsSaid)
           /\ \A b : Stands(b)' <=> Stands(b)
           /\ \A m, b : AdmittedBy(m, b)' <=> AdmittedBy(m, b)
<1>1. Derived' = Derived
  BY DEF Derived
<1>2. \A n, b, c : Says(n, b, c)' <=> Says(n, b, c)
  BY DEF Says
<1> QED
  BY <1>1, <1>2 DEF VersionsSaid, Stands, AdmittedBy

\* A quiet collector is where the replay is, and no bar is revised.
LEMMA QuietIsDerived ==
    ASSUME SourceInv, collector \in {"replayed", "manifested", "running"}, pending = {}
    PROVE  InMemory = Derived /\ Derived.bars = Bars /\ Derived.versions = versions /\ Derived.revised = {}
<1>1. Observed(InMemory, Len(raw), {}) = Derived
  BY DEF SourceInv, LiveFollows
<1>2. InMemory = Derived
  BY <1>1, NothingObserved DEF InMemory
<1>3. InMemory.bars = Bars /\ InMemory.versions = versions /\ InMemory.revised = {}
  BY DEF InMemory
<1> QED
  BY <1>2, <1>3

\* The keys of the bars of the replay are numbers.
LEMMA KeysAreNumbers ==
    ASSUME NEW receipt \in SourceReceipts, NEW b \in BarsOf(receipt)
    PROVE  b.key[1] \in Nat /\ b.key[2] \in Nat /\ b.content \in Contents /\ b.at \in Nat
<1>1. receipt.symbol \in Nat /\ receipt.at \in Nat /\ receipt.bars \in [Ends -> Contents] /\ Ends \subseteq Nat
  BY SourceAssumption DEF SourceReceipts, Responses
<1>2. PICK e \in DOMAIN receipt.bars : b = [key |-> <<receipt.symbol, e>>, content |-> receipt.bars[e], at |-> receipt.at]
  BY DEF BarsOf
<1>3. e \in Nat /\ receipt.bars[e] \in Contents
  BY <1>1, <1>2
<1> QED
  BY <1>1, <1>2, <1>3

LEMMA DerivedKeys ==
    ASSUME SourceInv
    PROVE  \A b \in Derived.bars : b.key[1] \in Nat /\ b.key[2] \in Nat
<1> SUFFICES ASSUME NEW b \in Derived.bars PROVE b.key[1] \in Nat /\ b.key[2] \in Nat
  OBVIOUS
<1>1. PICK m \in DOMAIN raw : b \in BarsOf(raw[m])
  BY DEF SourceInv, ReplayIsSound, AdmittedBy
<1>2. raw[m] \in SourceReceipts
  BY DEF SourceInv, SourceShape
<1> QED
  BY <1>1, <1>2, KeysAreNumbers

\* A file that grows by one row.
LEMMA FileGrows ==
    ASSUME SourceShape, NEW bar, norm' = Append(norm, bar)
    PROVE  Bars' = Bars \cup {bar} /\ \E S : norm' \in Seq(S)
<1>1. PICK S : norm \in Seq(S)
  BY DEF SourceShape
<1>2. PICK T : T = S \cup {bar} /\ norm \in Seq(T) /\ bar \in T
  <2>1. \A T : S \subseteq T => norm \in Seq(T)
    BY <1>1
  <2>2. PICK T : T = S \cup {bar}
    OBVIOUS
  <2>3. bar \in T /\ norm \in Seq(T)
    BY <2>1, <2>2
  <2> QED
    BY <2>2, <2>3
<1>3. /\ norm' \in Seq(T) /\ DOMAIN norm' = DOMAIN norm \cup {Len(norm) + 1}
      /\ norm'[Len(norm) + 1] = bar /\ \A i \in DOMAIN norm : norm'[i] = norm[i]
  BY <1>2, AppendedLog
<1> QED
  BY <1>3 DEF Bars

\* A step that receives nothing keeps what is said of the receipts, whatever happens to the
\* process, as long as the file does not shrink.
LEMMA ProcessKeeps ==
    ASSUME SourceInv, raw' = raw, Bars \subseteq Bars'
    PROVE  VersionsSaid' /\ ReplayIsSound' /\ Derived' = Derived
<1>1. VersionsSaid /\ ReplayIsSound
  BY DEF SourceInv
<1>2. /\ Derived' = Derived /\ (VersionsSaid' <=> VersionsSaid)
      /\ \A b : Stands(b)' <=> Stands(b)
      /\ \A m, b : AdmittedBy(m, b)' <=> AdmittedBy(m, b)
  BY RawStays
<1>3. ReplayIsSound'
  BY <1>1, <1>2 DEF ReplayIsSound
<1> QED
  BY <1>1, <1>2, <1>3

\* Why a validated start is what it is.
LEMMA StartKeeps ==
    ASSUME SourceInv, StartSource
    PROVE  SourceInv'
<1>1. /\ SourceShape /\ LiveFollows /\ ReplayIsSound
      /\ UNCHANGED <<clock, raw, norm, revisions, torn, manifest, status, pending, versions>>
      /\ collector = "down" /\ collector' = IF RefusesStart(Derived) THEN "refused" ELSE "replaying"
  BY DEF SourceInv, StartSource, Derived
<1>2. Bars' = Bars
  BY <1>1 DEF Bars
<1>3. VersionsSaid' /\ ReplayIsSound' /\ Derived' = Derived
  BY <1>1, <1>2, ProcessKeeps
<1>4. SourceShape'
  BY <1>1, <1>3 DEF SourceShape
<1>5. LiveFollows'
  <2>1. collector' = "replaying" => revisions = 0 /\ Derived.revised = {}
    BY <1>1 DEF RefusesStart
  <2> QED
    BY <1>1, <1>2, <1>3, <2>1 DEF LiveFollows
<1>6. RefusedForCause'
  <2>1. CASE RefusesStart(Derived)
    <3>1. revisions # 0 \/ Derived.revised # {} => \E b \in Bars : ~ Stands(b)
      BY <1>1 DEF LiveFollows, ReplayIsSound
    <3>2. Bars \subseteq Derived.bars
      BY <1>1 DEF LiveFollows
    <3>3. status \in {"GENERATION_FATAL", "none"} \/ torn # "none" \/ \E b \in Bars : ~ Stands(b)
      BY <2>1, <3>1, <3>2 DEF RefusesStart
    <3> QED
      BY <1>1, <1>2, <3>3, RawStays DEF RefusedForCause
  <2>2. CASE ~ RefusesStart(Derived)
    BY <1>1, <2>2 DEF RefusedForCause
  <2> QED
    BY <2>1, <2>2
<1> QED
  BY <1>3, <1>4, <1>5, <1>6 DEF SourceInv

\* The repair appends what the replay derives and takes its versions over.
LEMMA RepairKeeps ==
    ASSUME SourceInv, Repair
    PROVE  SourceInv'
<1>1. /\ SourceShape /\ LiveFollows /\ collector = "replaying"
      /\ UNCHANGED <<clock, raw, revisions, torn, manifest, status, pending>>
  BY DEF SourceInv, Repair
<1>2. pending = {} /\ Derived.revised = {} /\ revisions = 0 /\ Bars \subseteq Derived.bars
  BY <1>1 DEF SourceShape, LiveFollows
<1>3. CASE Missing # {}
  <2> DEFINE next == CHOOSE b \in Missing : \A other \in Missing : ~ KeyBefore(other, b)
  <2>1. norm' = Append(norm, next) /\ UNCHANGED <<versions, collector>>
    BY <1>3 DEF Repair
  <2>2. next \in Missing
    <3>1. \A b \in Missing : b.key[1] \in Nat /\ b.key[2] \in Nat
      BY DerivedKeys DEF Missing, Derived
    <3>2. \E b \in Missing : \A other \in Missing : ~ KeyBefore(other, b)
      BY <1>3, <3>1, SomeBarIsFirst
    <3> QED
      BY <3>2, Zenon
  <2> HIDE DEF next
  <2>3. Bars' = Bars \cup {next} /\ \E S : norm' \in Seq(S)
    BY <1>1, <2>1, FileGrows
  <2>4. next \in Derived.bars
    BY <2>2 DEF Missing, Derived
  <2>5. VersionsSaid' /\ ReplayIsSound' /\ Derived' = Derived
    BY <1>1, <2>3, ProcessKeeps
  <2>6. SourceShape'
    BY <1>1, <2>1, <2>3, <2>5 DEF SourceShape
  <2>7. LiveFollows' /\ RefusedForCause'
    BY <1>1, <1>2, <2>1, <2>3, <2>4, <2>5 DEF LiveFollows, RefusedForCause
  <2> QED
    BY <2>5, <2>6, <2>7 DEF SourceInv
<1>4. CASE Missing = {}
  <2>1. collector' = "replayed" /\ versions' = Derived.versions /\ norm' = norm
    BY <1>4 DEF Repair, Derived
  <2>2. Bars' = Bars /\ Bars = Derived.bars
    BY <1>2, <1>4, <2>1 DEF Missing, Derived, Bars
  <2>3. VersionsSaid' /\ ReplayIsSound' /\ Derived' = Derived
    BY <1>1, <2>2, ProcessKeeps
  <2>4. SourceShape'
    BY <1>1, <1>2, <2>1, <2>3 DEF SourceShape
  <2>5. InMemory' = Derived
    BY <1>1, <1>2, <2>1, <2>2 DEF InMemory, SourceShape
  <2>6. Observed(InMemory', Len(raw), {}) = Derived
    BY <1>1, <1>2, <2>5, NothingObserved DEF SourceShape
  <2>7. LiveFollows'
    BY <1>1, <1>2, <2>1, <2>2, <2>3, <2>6 DEF LiveFollows
  <2>8. RefusedForCause'
    BY <2>1 DEF RefusedForCause
  <2> QED
    BY <2>3, <2>4, <2>7, <2>8 DEF SourceInv
<1> QED
  BY <1>3, <1>4

\* Steps of the process that touch neither the receipts nor the bars.
LEMMA ProcessSteps ==
    ASSUME SourceInv, WriteManifest \/ PublishFirst \/ Fail \/ ReachDeadline \/ SourceCrash \/ SourceTick
    PROVE  SourceInv'
<1>1. SourceShape /\ LiveFollows /\ RefusedForCause
  BY DEF SourceInv
<1>2. /\ UNCHANGED <<raw, norm, revisions>>
      /\ \/ UNCHANGED <<clock, collector, pending, versions, status, torn>>
         \/ clock' = clock + 1 /\ UNCHANGED <<collector, pending, versions, status, torn>>
         \/ /\ <<collector, collector'>> \in {<<"replayed", "manifested">>, <<"manifested", "running">>}
            /\ UNCHANGED <<clock, pending, versions>>
         \/ collector' = "stopped" /\ pending = {} /\ pending' = {} /\ clock' = clock
         \/ collector' = "stopped" /\ collector = "failing" /\ pending' = pending /\ clock' = clock
         \/ collector' = "down" /\ pending' = {} /\ clock' = clock
  <2>1. CASE WriteManifest \/ PublishFirst
    BY <2>1 DEF WriteManifest, PublishFirst
  <2>2. CASE Fail \/ ReachDeadline
    <3>1. UNCHANGED <<clock, raw, norm, revisions, pending>> /\ collector' = "stopped"
      BY <2>2 DEF Fail, ReachDeadline
    <3>2. collector = "failing" \/ pending = {}
      BY <2>2 DEF Fail, ReachDeadline
    <3> QED
      BY <3>1, <3>2
  <2>3. CASE SourceCrash
    <3>1. UNCHANGED <<clock, raw, norm, revisions>> /\ collector' = "down" /\ pending' = {}
      BY <2>3, Zenon DEF SourceCrash
    <3> QED
      BY <3>1
  <2>4. CASE SourceTick
    BY <2>4 DEF SourceTick
  <2> QED
    BY <2>1, <2>2, <2>3, <2>4
<1>3. Bars' = Bars
  BY <1>2 DEF Bars
<1>4. VersionsSaid' /\ ReplayIsSound' /\ Derived' = Derived
  BY <1>2, <1>3, ProcessKeeps
<1>5. SourceShape'
  BY <1>1, <1>2, <1>4 DEF SourceShape
<1>6. LiveFollows'
  <2>1. collector' \in {"replaying", "replayed", "manifested", "running"} =>
            versions' = versions /\ pending' = pending /\ collector \in {"replaying", "replayed", "manifested", "running"}
            /\ (collector' # "replaying" => collector # "replaying") /\ (collector' = "replaying" => collector = "replaying")
    BY <1>2
  <2>2. versions' = versions => InMemory' = InMemory
    BY <1>3 DEF InMemory
  <2> QED
    BY <1>1, <1>2, <1>3, <1>4, <2>1, <2>2 DEF LiveFollows
<1>7. RefusedForCause'
  <2>1. collector' = "refused" => collector = "refused" /\ UNCHANGED <<status, torn>>
    BY <1>2
  <2> QED
    BY <1>1, <1>2, <1>3, <2>1, RawStays DEF RefusedForCause
<1> QED
  BY <1>4, <1>5, <1>6, <1>7 DEF SourceInv

----------------------------------------------------------------------------
\* A receipt more: what it says, what the earlier ones say.
LEMMA OneReceiptMore ==
    ASSUME SourceInv, NEW receipt \in SourceReceipts, raw' = Append(raw, receipt),
           NEW last, last = Len(raw), NEW next, next = last + 1
    PROVE  /\ raw' \in Seq(SourceReceipts) /\ last \in Nat /\ Len(raw') = next
           /\ DOMAIN raw = 1..last /\ DOMAIN raw' = 1..next
           /\ \A n \in 1..last : raw'[n] = raw[n] /\ \A b, c : Says(n, b, c)' <=> Says(n, b, c)
           /\ \A b, c : Says(next, b, c)' <=> \E bar \in BarsOf(receipt) : bar.key = b.key /\ bar.content = c
           /\ raw'[next] = receipt
           /\ Derived' = Observed(Derived, next, BarsOf(receipt))
<1>1. raw \in Seq(SourceReceipts)
  BY DEF SourceInv, SourceShape
<1>2. /\ raw' \in Seq(SourceReceipts) /\ last \in Nat /\ Len(raw') = next
      /\ DOMAIN raw = 1..last /\ DOMAIN raw' = 1..next
      /\ \A n \in 1..last : raw'[n] = raw[n]
      /\ raw'[next] = receipt
  BY <1>1, AppendedLog
<1>3. \A n \in 1..last : \A b, c : Says(n, b, c)' <=> Says(n, b, c)
  BY <1>2 DEF Says
<1>4. \A b, c : Says(next, b, c)' <=> \E bar \in BarsOf(receipt) : bar.key = b.key /\ bar.content = c
  BY <1>2 DEF Says
<1>5. Derived' = Observed(Derived, next, BarsOf(receipt))
  BY <1>1, ReplayStep DEF Derived
<1> QED
  BY <1>2, <1>3, <1>4, <1>5

\* The new receipt is replayed as the live collector is about to observe it: the bars it
\* admits rest on enough receipts, and one that contradicts contradicts a bar on file.
LEMMA ReceiveKeeps ==
    ASSUME SourceInv, NEW symbol \in Symbols, NEW bars \in Responses, Receive(symbol, bars)
    PROVE  SourceInv'
<1> DEFINE receipt == [at |-> clock, symbol |-> symbol, bars |-> bars]
           new == BarsOf(receipt)
<1>0. PICK last, next : last = Len(raw) /\ next = last + 1
  OBVIOUS
<1>1. SourceShape /\ VersionsSaid /\ ReplayIsSound /\ LiveFollows
  BY DEF SourceInv
<1>2. /\ collector = "running" /\ pending = {} /\ raw' = Append(raw, receipt) /\ pending' = new
      /\ UNCHANGED <<clock, norm, revisions, torn, manifest, status, collector, versions>>
  BY DEF Receive
<1>3. receipt \in SourceReceipts
  BY <1>1 DEF SourceShape, SourceReceipts
<1>4. \A a, b \in new : a.key = b.key => a = b
  BY BarsOfReceipt
<1>5. \A b \in new : b.content \in Contents
  BY <1>3, KeysAreNumbers
<1> HIDE DEF receipt
<1>6. /\ raw' \in Seq(SourceReceipts) /\ last \in Nat /\ Len(raw') = next
      /\ DOMAIN raw = 1..last /\ DOMAIN raw' = 1..next
      /\ \A n \in 1..last : raw'[n] = raw[n] /\ \A b, c : Says(n, b, c)' <=> Says(n, b, c)
      /\ \A b, c : Says(next, b, c)' <=> \E bar \in BarsOf(receipt) : bar.key = b.key /\ bar.content = c
      /\ raw'[next] = receipt
      /\ Derived' = Observed(Derived, next, BarsOf(receipt))
  BY <1>0, <1>2, <1>3, OneReceiptMore
<1>7. InMemory = Derived /\ Derived.bars = Bars /\ Derived.versions = versions /\ Derived.revised = {}
  BY <1>2, QuietIsDerived
<1>8. Bars' = Bars
  BY <1>2 DEF Bars
<1> HIDE DEF new
<1>9. /\ Derived'.versions = Derived.versions \cup VersionsIn(next, new)
      /\ Derived'.bars = Derived.bars \cup {bar \in new : /\ Prior(Derived, bar) = {} /\ bar.at >= bar.key[2] + Guard
                                                          /\ Cardinality(Support(Derived'.versions, bar)) >= Repeat}
      /\ Derived'.revised = {bar \in new : \E b \in Prior(Derived, bar) : b.content # bar.content}
      /\ Derived' = [versions |-> Derived'.versions, bars |-> Derived'.bars, revised |-> Derived'.revised]
  <2>1. PICK d, n, later : d = Derived /\ n = next /\ later = Derived' /\ later = Observed(d, n, new)
    BY <1>6 DEF new
  <2>2. /\ later.versions = d.versions \cup VersionsIn(n, new)
        /\ later.bars = d.bars \cup {bar \in new : /\ Prior(d, bar) = {} /\ bar.at >= bar.key[2] + Guard
                                                   /\ Cardinality(Support(later.versions, bar)) >= Repeat}
        /\ later.revised = d.revised \cup {bar \in new : \E b \in Prior(d, bar) : b.content # bar.content}
        /\ later = [versions |-> later.versions, bars |-> later.bars, revised |-> later.revised]
    BY <2>1 DEF Observed
  <2>3. d.revised = {}
    BY <1>7, <2>1
  <2> QED
    BY <2>1, <2>2, <2>3
<1>10. VersionsSaid'
  <2>1. Derived.versions = UNION {VersionsIn(n, BarsOf(raw[n])) : n \in 1..last}
    BY <1>0, <1>1, <1>6 DEF VersionsSaid
  <2>2. \A n \in 1..last : VersionsIn(n, BarsOf(raw'[n])) = VersionsIn(n, BarsOf(raw[n]))
    BY <1>0, <1>6
  <2>3. VersionsIn(next, BarsOf(raw'[next])) = VersionsIn(next, new)
    BY <1>6 DEF new
  <2>4. DOMAIN raw' = 1..last \cup {next}
    BY <1>0, <1>6
  <2>5. UNION {VersionsIn(n, BarsOf(raw'[n])) : n \in DOMAIN raw'} =
            (UNION {VersionsIn(n, BarsOf(raw[n])) : n \in 1..last}) \cup VersionsIn(next, new)
    BY <2>2, <2>3, <2>4
  <2> QED
    BY <1>9, <2>1, <2>5 DEF VersionsSaid
<1>11. \A a, b \in Derived'.bars : a.key = b.key => a = b
  BY <1>1, <1>4, <1>9 DEF ReplayIsSound, Prior
<1>12. ASSUME NEW b \in Derived.bars PROVE \E m \in DOMAIN raw' : AdmittedBy(m, b)'
  <2>1. PICK m \in 1..last : AdmittedBy(m, b)
    BY <1>0, <1>1, <1>6 DEF ReplayIsSound
  <2>2. m \in DOMAIN raw' /\ b \in BarsOf(raw'[m]) /\ b.at >= b.key[2] + Guard
    BY <1>0, <1>6, <2>1 DEF AdmittedBy
  <2>3. Cardinality({n \in 1..m : Says(n, b, b.content)'}) >= Repeat
    <3>1. {n \in 1..m : Says(n, b, b.content)'} = {n \in 1..m : Says(n, b, b.content)}
      BY <1>0, <1>6
    <3> QED
      BY <2>1, <3>1 DEF AdmittedBy
  <2>4. ASSUME Derived'.revised = {}, NEW n \in (m + 1)..Len(raw'), NEW c \in Contents, Says(n, b, c)'
        PROVE  c = b.content
    <3>1. CASE n \in 1..last
      <4>1. Says(n, b, c) /\ n \in (m + 1)..last
        BY <1>0, <1>6, <2>4, <3>1
      <4> QED
        BY <1>0, <1>7, <2>1, <4>1 DEF AdmittedBy
    <3>2. CASE n = next
      <4>1. PICK bar \in new : bar.key = b.key /\ bar.content = c
        BY <1>0, <1>6, <2>4, <3>2 DEF new
      <4>2. b \in Prior(Derived, bar)
        BY <4>1 DEF Prior
      <4> QED
        BY <1>9, <2>4, <4>1, <4>2
    <3> QED
      BY <1>0, <1>6, <3>1, <3>2
  <2>5. AdmittedBy(m, b)'
    BY <2>2, <2>3, <2>4 DEF AdmittedBy
  <2> QED
    BY <2>2, <2>5
<1>13. ASSUME NEW b \in new, b.at >= b.key[2] + Guard, Cardinality(Support(Derived'.versions, b)) >= Repeat
       PROVE  \E m \in DOMAIN raw' : AdmittedBy(m, b)'
  <2>1. next \in DOMAIN raw' /\ b \in BarsOf(raw'[next]) /\ next = Len(raw')
    BY <1>0, <1>6, <1>13 DEF new
  <2>2. Cardinality({n \in 1..next : Says(n, b, b.content)'}) >= Repeat
    <3>1. PICK rows, seen : rows = raw' /\ rows \in Seq(SourceReceipts) /\ seen = Derived'.versions
      BY <1>0, <1>6
    <3>2. seen = UNION {VersionsIn(n, BarsOf(rows[n])) : n \in DOMAIN rows}
      BY <1>10, <3>1 DEF VersionsSaid
    <3>3. Cardinality(Support(seen, b)) =
              Cardinality({n \in 1..Len(rows) : \E x \in BarsOf(rows[n]) : x.key = b.key /\ x.content = b.content})
      BY <3>1, <3>2, SupportCounts
    <3>4. {n \in 1..next : Says(n, b, b.content)'} =
              {n \in 1..Len(rows) : \E x \in BarsOf(rows[n]) : x.key = b.key /\ x.content = b.content}
      BY <2>1, <3>1 DEF Says
    <3> QED
      BY <1>13, <3>1, <3>3, <3>4
  <2>3. (next + 1)..Len(raw') = {}
    BY <1>0, <1>6
  <2>4. AdmittedBy(next, b)'
    BY <1>13, <2>1, <2>2, <2>3 DEF AdmittedBy
  <2> QED
    BY <2>1, <2>4
<1>14. Derived'.revised # {} => \E b \in Bars' : ~ Stands(b)'
  <2> SUFFICES ASSUME NEW bar \in new, NEW b \in Prior(Derived, bar), b.content # bar.content
               PROVE  ~ Stands(b)'
    BY <1>7, <1>8, <1>9 DEF Prior
  <2>1. b.key = bar.key
    BY DEF Prior
  <2>2. Says(next, b, bar.content)' /\ next \in 1..Len(raw') /\ Len(raw') = next
    BY <1>0, <1>6, <2>1 DEF new
  <2>3. ~ Says(next, b, b.content)'
    BY <1>4, <1>6, <2>1 DEF new
  <2> SUFFICES ASSUME NEW m \in DOMAIN raw', Says(m, b, b.content)',
                      \A n \in (m + 1)..Len(raw'), c \in Contents : Says(n, b, c)' => c = b.content
               PROVE  FALSE
    BY DEF Stands
  <2>4. m # next /\ m \in 1..next
    BY <1>0, <1>6, <2>3
  <2>5. next \in (m + 1)..Len(raw')
    BY <1>0, <1>6, <2>2, <2>4
  <2> QED
    BY <1>5, <2>2, <2>5
<1>15. ReplayIsSound'
  <2>1. \A b \in Derived'.bars : \E m \in DOMAIN raw' : AdmittedBy(m, b)'
    BY <1>9, <1>12, <1>13
  <2> QED
    BY <1>11, <1>14, <2>1 DEF ReplayIsSound
<1>16. SourceShape'
  <2>1. raw' # <<>> /\ pending' \subseteq BarsOf(raw'[Len(raw')])
    BY <1>2, <1>6 DEF new
  <2> QED
    BY <1>1, <1>2, <1>6, <1>9, <2>1 DEF SourceShape
<1>17. LiveFollows'
  <2>1. InMemory' = InMemory
    BY <1>2, <1>8 DEF InMemory
  <2>2. Observed(InMemory', Len(raw'), pending') = Derived'
    BY <1>2, <1>6, <1>7, <2>1 DEF new
  <2> QED
    BY <1>1, <1>2, <1>7, <1>8, <1>9, <2>2 DEF LiveFollows
<1>18. RefusedForCause'
  BY <1>2 DEF RefusedForCause
<1> QED
  BY <1>10, <1>15, <1>16, <1>17, <1>18 DEF SourceInv

\* One bar observed: either the rest brings the collector to the same replay, or the
\* replay knows the revision.
LEMMA ObserveKeeps ==
    ASSUME SourceInv, ObserveNext
    PROVE  SourceInv'
<1> DEFINE bar == CHOOSE b \in pending : \A other \in pending : b.key[2] <= other.key[2]
           after == Observed(InMemory, Len(raw), {bar})
<1>1. SourceShape /\ VersionsSaid /\ ReplayIsSound /\ LiveFollows
  BY DEF SourceInv
<1>2. /\ collector = "running" /\ pending # {} /\ versions' = after.versions
      /\ norm' = IF after.bars = Bars THEN norm ELSE Append(norm, bar)
      /\ UNCHANGED <<clock, raw>>
      /\ IF after.revised = {}
         THEN pending' = pending \ {bar} /\ UNCHANGED <<revisions, collector>>
         ELSE pending' = {} /\ revisions' = revisions + 1 /\ collector' = "failing"
  BY DEF ObserveNext, InMemory
<1>3. raw # <<>> /\ raw[Len(raw)] \in SourceReceipts /\ pending \subseteq BarsOf(raw[Len(raw)])
  BY <1>1, <1>2 DEF SourceShape
<1>4. \A a, b \in pending : a.key = b.key => a = b
  BY <1>3, BarsOfReceipt
<1>5. bar \in pending
  <2>1. \A b \in pending : b.key[1] \in Nat /\ b.key[2] \in Nat
    BY <1>3, KeysAreNumbers
  <2>2. \E b \in pending : \A other \in pending : b.key[2] <= other.key[2]
    BY <1>2, <2>1, SomeBarIsFirst
  <2> QED
    BY <2>2, Zenon
<1> HIDE DEF bar
<1>6. /\ InMemory.bars = Bars /\ InMemory.revised = {} /\ InMemory.versions = versions
      /\ Observed(InMemory, Len(raw), pending) = Derived /\ revisions = 0 /\ Bars \subseteq Derived.bars
  BY <1>1, <1>2 DEF LiveFollows, InMemory
<1>7. PICK held, n, a : /\ held = InMemory /\ n = Len(raw) /\ a = after /\ a = Observed(held, n, {bar})
                        /\ Observed(held, n, pending) = Derived
  BY <1>6
<1> HIDE DEF after
<1>8. /\ a.bars \subseteq Bars \cup {bar} /\ Bars \subseteq a.bars
      /\ a = [versions |-> a.versions, bars |-> a.bars, revised |-> a.revised]
      /\ a.revised # {} => \E p \in Prior(held, bar) : p.content # bar.content
  BY <1>6, <1>7 DEF Observed
<1>9. Bars' = a.bars /\ \E S : norm' \in Seq(S)
  <2>1. CASE a.bars = Bars
    BY <1>1, <1>2, <1>7, <2>1 DEF Bars, SourceShape
  <2>2. CASE a.bars # Bars
    <3>1. norm' = Append(norm, bar)
      BY <1>2, <1>7, <2>2
    <3> QED
      BY <1>1, <1>8, <2>2, <3>1, FileGrows
  <2> QED
    BY <2>1, <2>2
<1>10. VersionsSaid' /\ ReplayIsSound' /\ Derived' = Derived
  BY <1>2, <1>8, <1>9, ProcessKeeps
<1>11. RefusedForCause'
  BY <1>2 DEF RefusedForCause
<1>12. CASE a.revised = {}
  <2>1. pending' = pending \ {bar} /\ UNCHANGED <<revisions, collector>>
    BY <1>2, <1>7, <1>12
  <2>2. Observed(a, n, pending \ {bar}) = Derived
    <3>0. PICK new : new = pending
      OBVIOUS
    <3>1. PICK first \in new : first = bar
      BY <1>5, <3>0
    <3>2. OnePerKey(new)
      BY <1>4, <3>0 DEF OnePerKey
    <3>3. a = Observed(held, n, {first})
      BY <1>7, <3>1
    <3>4. Observed(a, n, new \ {first}) = Observed(held, n, new)
      BY <1>12, <3>2, <3>3, ObservedInParts
    <3> QED
      BY <1>7, <3>0, <3>1, <3>4
  <2>3. InMemory' = a
    BY <1>2, <1>7, <1>8, <1>9, <1>12 DEF InMemory
  <2>4. Observed(InMemory', Len(raw'), pending') = Derived'
    BY <1>2, <1>7, <1>10, <2>1, <2>2, <2>3
  <2>5. a.bars \subseteq Derived.bars
    <3>1. PICK d : d = Derived /\ d = Observed(a, n, pending \ {bar})
      BY <2>2
    <3>2. a.bars \subseteq d.bars
      BY <3>1 DEF Observed
    <3> QED
      BY <3>1, <3>2
  <2>6. LiveFollows'
    BY <1>2, <1>6, <1>9, <1>10, <2>1, <2>4, <2>5 DEF LiveFollows
  <2>7. SourceShape'
    BY <1>1, <1>2, <1>3, <1>9, <1>10, <2>1 DEF SourceShape
  <2> QED
    BY <1>10, <1>11, <2>6, <2>7 DEF SourceInv
<1>13. CASE a.revised # {}
  <2>1. pending' = {} /\ collector' = "failing"
    BY <1>2, <1>7, <1>13
  <2>2. PICK p \in Prior(held, bar) : p.content # bar.content
    BY <1>8, <1>13
  <2>3. bar \in Derived.revised
    <3>1. PICK d : d = Derived /\ d = Observed(held, n, pending)
      BY <1>7
    <3>2. bar \in d.revised
      BY <1>5, <2>2, <3>1 DEF Observed
    <3> QED
      BY <3>1, <3>2
  <2>4. a.bars = Bars
    <3>1. a.bars = held.bars
      BY <1>7, <2>2 DEF Observed
    <3> QED
      BY <1>6, <1>7, <3>1
  <2>5. LiveFollows'
    BY <1>6, <1>9, <1>10, <2>1, <2>3, <2>4 DEF LiveFollows
  <2>6. SourceShape'
    BY <1>1, <1>2, <1>9, <1>10, <2>1 DEF SourceShape
  <2> QED
    BY <1>10, <1>11, <2>5, <2>6 DEF SourceInv
<1> QED
  BY <1>12, <1>13

LEMMA InitSource == SourceInit => SourceInv
<1> SUFFICES ASSUME SourceInit PROVE SourceInv
  OBVIOUS
<1>1. /\ clock = 1 /\ raw = <<>> /\ norm = <<>> /\ revisions = 0 /\ collector = "down" /\ pending = {}
  BY DEF SourceInit
<1>2. Derived = Shadow /\ Shadow.versions = {} /\ Shadow.bars = {} /\ Shadow.revised = {} /\ Bars = {}
  BY <1>1, ReplayOfNone DEF Derived, Shadow, Bars
<1>3. SourceShape
  <2>1. Shadow = [versions |-> Shadow.versions, bars |-> Shadow.bars, revised |-> Shadow.revised]
    BY DEF Shadow
  <2>2. raw \in Seq(SourceReceipts) /\ norm \in Seq({})
    BY <1>1
  <2> QED
    BY <1>1, <1>2, <2>1, <2>2 DEF SourceShape
<1>4. VersionsSaid
  <2>1. DOMAIN raw = {}
    BY <1>1
  <2> QED
    BY <1>2, <2>1 DEF VersionsSaid
<1>5. ReplayIsSound
  BY <1>2 DEF ReplayIsSound
<1>6. LiveFollows /\ RefusedForCause
  BY <1>1, <1>2 DEF LiveFollows, RefusedForCause
<1> QED
  BY <1>3, <1>4, <1>5, <1>6 DEF SourceInv

LEMMA NextSource == SourceInv /\ [SourceNext]_sourceVars => SourceInv'
<1> SUFFICES ASSUME SourceInv, [SourceNext]_sourceVars PROVE SourceInv'
  OBVIOUS
<1>1. CASE StartSource
  BY <1>1, StartKeeps
<1>2. CASE Repair
  BY <1>2, RepairKeeps
<1>3. CASE WriteManifest \/ PublishFirst \/ Fail \/ ReachDeadline \/ SourceCrash \/ SourceTick
  BY <1>3, ProcessSteps
<1>4. CASE ObserveNext
  BY <1>4, ObserveKeeps
<1>5. CASE \E symbol \in Symbols, bars \in Responses : Receive(symbol, bars)
  BY <1>5, ReceiveKeeps
<1>6. CASE UNCHANGED sourceVars
  <2>1. UNCHANGED <<clock, raw, norm, revisions, torn, manifest, status, collector, pending, versions>>
    BY <1>6 DEF sourceVars
  <2>2. Bars' = Bars
    BY <2>1 DEF Bars
  <2>3. VersionsSaid' /\ ReplayIsSound' /\ Derived' = Derived
    BY <2>1, <2>2, ProcessKeeps
  <2>4. SourceShape' /\ LiveFollows'
    BY <2>1, <2>2, <2>3 DEF SourceInv, SourceShape, LiveFollows, InMemory
  <2>5. RefusedForCause'
    BY <2>1, <2>2, RawStays DEF SourceInv, RefusedForCause
  <2> QED
    BY <2>3, <2>4, <2>5 DEF SourceInv
<1> QED
  BY <1>1, <1>2, <1>3, <1>4, <1>5, <1>6 DEF SourceNext

\* What the source has admitted stands, in this process and in the next, for every guard,
\* number of repeated receipts and number of crashes: an admitted bar rests on distinct
\* agreeing receipts that no later one contradicts, the live state is what a replay of the
\* receipts derives, and a restart is refused for cause only.
THEOREM SourceFinalityTheorem == SourceSpec => []BarsAreFinal
<1>1. ASSUME SourceInv PROVE BarsAreFinal
  <2>1. CASE Quiet
    <3>1. Derived.bars = Bars /\ Derived.versions = versions /\ Derived.revised = {}
      BY <1>1, <2>1, QuietIsDerived DEF Quiet
    <3>2. AdmittedStands
      <4> SUFFICES ASSUME NEW b \in Bars PROVE Stands(b)
        BY DEF AdmittedStands
      <4>1. PICK m \in DOMAIN raw : AdmittedBy(m, b)
        BY <1>1, <3>1 DEF SourceInv, ReplayIsSound
      <4>2. raw[m].at = b.at /\ Says(m, b, b.content)
        BY <4>1, BarsOfReceipt DEF AdmittedBy, Says
      <4> QED
        BY <3>1, <4>1, <4>2 DEF Stands, AdmittedBy
    <3>3. ReplayEqualsLive
      BY <3>1 DEF ReplayEqualsLive, Derived
    <3> QED
      BY <1>1, <3>2, <3>3 DEF SourceInv, BarsAreFinal, RestartsAgree
  <2>2. CASE ~ Quiet
    BY <1>1, <2>2 DEF SourceInv, BarsAreFinal, RestartsAgree, AdmittedStands, ReplayEqualsLive
  <2> QED
    BY <2>1, <2>2
<1> QED
  BY InitSource, NextSource, <1>1, PTL DEF SourceSpec
=============================================================================
