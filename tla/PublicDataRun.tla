---------------------------- MODULE PublicDataRun ---------------------------
(***************************************************************************)
(* The qualification run over the public market data sources               *)
(* (scripts/run_phase3_public_data_qualification.py) with the health of    *)
(* the sources, the choice between them, and the offline review            *)
(* (scripts/validate_phase3_public_data_qualification.py).  Processes that *)
(* may die anywhere work on one directory, one at a time while they hold   *)
(* its lock; summary and status are written after the lock is given back.  *)
(***************************************************************************)
EXTENDS Integers, Sequences, FiniteSetsExt

CONSTANTS Feeds,           \* the sources, in order of priority; 0 is none
          Assets,          \* what every source quotes
          CycleLimits,     \* max_cycles of the configuration, 0 for none
          DataRunners,     \* processes, in the order of their starts
          MaxFaulty,       \* bound: observations of a cycle that are not fine
          MaxDataCycles,   \* bound: cycles
          MaxDeaths        \* bound: deaths of a process

ASSUME DataRunAssumption ==
    /\ Feeds \subseteq Nat \ {0} /\ Feeds # {} /\ Assets \subseteq Nat /\ Assets # {}
    /\ DataRunners \subseteq Nat \ {0} /\ CycleLimits \subseteq Nat
    /\ {MaxFaulty, MaxDataCycles, MaxDeaths} \subseteq Nat

VARIABLES cycleLimit,        \* max_cycles
          windowOver,          \* the target end has passed
          setup,        \* config.json and fault-drills.json: "none", "config", "full"
          healthRows, samples, selections,    \* the hash-chained logs
          tornLog,      \* one of them ends in half a line
          published,    \* latest-health.json: the state of every pair it lists
          dataStatus, dataSummary,            \* the states in status.json and summary.json
          dataLock,     \* the process that holds the lock, or 0
          jobs, jobDeaths

dataLogs == <<healthRows, samples, selections, tornLog>>
dataFiles == <<setup, published, dataStatus, dataSummary>>
dataVars == <<cycleLimit, windowOver, dataFiles, dataLogs, dataLock, jobs, jobDeaths>>

Pairs == Feeds \X Assets
\* The order in which the pairs are sampled.
FirstPair(pairs) == CHOOSE p \in pairs : \A q \in pairs : p[1] < q[1] \/ (p[1] = q[1] /\ p[2] <= q[2])
RowsOfPair(rows, p) == {i \in DOMAIN rows : rows[i].pair = p}

\* What a source shows of an asset in one window; a gap stands for a failed contract,
\* stale events, a poor clock and disagreement with the other source as well.
Looks == {"fine", "down", "gap"}
\* evaluate_source_health: the first reason that applies decides.  A source that was
\* not connected in the last sample is still reconnecting.
EvaluateSourceHealth(look, connectedBefore) ==
    IF look = "down" THEN "DISCONNECTED"
    ELSE IF ~ connectedBefore THEN "RECOVERING"
    ELSE IF look = "gap" THEN "DEGRADED"
    ELSE "HEALTHY"

\* The state of a pair after some rows; none before the first.
StateIn(rows, p) == IF RowsOfPair(rows, p) = {} THEN "none" ELSE rows[Max(RowsOfPair(rows, p))].state
ConnectedIn(rows, p) == RowsOfPair(rows, p) # {} => rows[Max(RowsOfPair(rows, p))].connected
CyclesIn(rows) == {rows[i].cycle : i \in DOMAIN rows}
LastCycle(rows) == IF rows = <<>> THEN 0 ELSE rows[Len(rows)].cycle

Asleep == [pc |-> "off", cycle |-> 0, terminal |-> FALSE, over |-> FALSE, stop |-> FALSE,
           latest |-> [p \in Pairs |-> "none"], looks |-> [p \in Pairs |-> "fine"], left |-> {}, unselected |-> {}]

DataRunInit ==
    /\ cycleLimit \in CycleLimits /\ windowOver = FALSE /\ setup = "none"
    /\ healthRows = <<>> /\ samples = <<>> /\ selections = <<>> /\ tornLog = FALSE
    /\ published = [p \in Pairs |-> "none"] /\ dataStatus = "none" /\ dataSummary = "none"
    /\ dataLock = 0 /\ jobs = [r \in DataRunners |-> Asleep] /\ jobDeaths = 0

JobSet(r, job) == jobs' = [jobs EXCEPT ![r] = job]
Gone(r) == jobs' = [jobs EXCEPT ![r] = [Asleep EXCEPT !.pc = "gone"]]
JobGoto(r, step) == jobs' = [jobs EXCEPT ![r].pc = step]

\* The first start writes the configuration, then the fault drills; a later one must
\* find the same configuration and never looks at the drills.
MayStart(r) == jobs[r].pc = "off" /\ \A q \in DataRunners : q < r => jobs[q].pc # "off"
Configure(r) ==
    /\ MayStart(r) /\ setup = "none"
    /\ setup' = "config" /\ JobGoto(r, "drills")
    /\ UNCHANGED <<cycleLimit, windowOver, dataLogs, published, dataStatus, dataSummary, dataLock, jobDeaths>>

WriteDrills(r) ==
    /\ jobs[r].pc = "drills"
    /\ setup' = "full" /\ JobGoto(r, "ready")
    /\ UNCHANGED <<cycleLimit, windowOver, dataLogs, published, dataStatus, dataSummary, dataLock, jobDeaths>>

\* The lock is taken and the logs are read: the health states from the health ledger,
\* the next cycle from the samples.  A held lock or half a line ends the process.
OpenLogs(r) ==
    /\ jobs[r].pc = "ready" \/ (MayStart(r) /\ setup # "none")
    /\ dataLock = 0 /\ ~ tornLog
    /\ dataLock' = r
    /\ JobSet(r, [Asleep EXCEPT !.pc = "loop", !.cycle = LastCycle(samples) + 1,
                             !.latest = [p \in Pairs |-> StateIn(healthRows, p)]])
    /\ UNCHANGED <<cycleLimit, windowOver, dataFiles, dataLogs, jobDeaths>>

LoopEnds(job) == job.stop \/ job.over \/ (cycleLimit # 0 /\ job.cycle > cycleLimit)

\* A cycle that starts at or after the target end is the terminal one.  The sources are
\* collected side by side, so the samples describe one window.
BeginCycle(r, looks) ==
    /\ jobs[r].pc = "loop" /\ ~ LoopEnds(jobs[r]) /\ jobs[r].cycle <= MaxDataCycles
    /\ Cardinality({p \in Pairs : looks[p] # "fine"}) <= MaxFaulty
    /\ JobSet(r, [jobs[r] EXCEPT !.pc = "health", !.terminal = windowOver, !.looks = looks, !.left = Pairs])
    /\ UNCHANGED <<cycleLimit, windowOver, dataFiles, dataLogs, dataLock, jobDeaths>>

\* The health ledger has a row per change of state, before the sample of the pair.
RecordHealth(r) ==
    LET job == jobs[r]
        p == FirstPair(job.left)
        state == EvaluateSourceHealth(job.looks[p], ConnectedIn(samples, p))
    IN  /\ job.pc = "health"
        /\ healthRows' = IF job.latest[p] = state THEN healthRows
                         ELSE Append(healthRows, [pair |-> p, previous |-> job.latest[p], state |-> state])
        /\ JobSet(r, [job EXCEPT !.latest[p] = state, !.pc = "sample"])
        /\ UNCHANGED <<cycleLimit, windowOver, dataFiles, samples, selections, tornLog, dataLock, jobDeaths>>

RecordSample(r) ==
    LET job == jobs[r]
        p == FirstPair(job.left)
    IN  /\ job.pc = "sample"
        /\ samples' = Append(samples, [cycle |-> job.cycle, pair |-> p, state |-> job.latest[p],
                                       connected |-> job.looks[p] # "down", terminal |-> job.terminal])
        /\ JobSet(r, IF job.left # {p} THEN [job EXCEPT !.left = @ \ {p}, !.pc = "health"]
                  ELSE [job EXCEPT !.left = {}, !.unselected = Assets, !.over = job.terminal, !.pc = "select"])
        /\ UNCHANGED <<cycleLimit, windowOver, dataFiles, healthRows, selections, tornLog, dataLock, jobDeaths>>

\* _source_candidates and select_source: a source is eligible when all its assets are
\* healthy; the last one selected stays while it is, else the first in priority.
EligibleFeeds(latest) == {f \in Feeds : \A a \in Assets : latest[<<f, a>>] = "HEALTHY"}
CurrentFeed(asset) ==
    LET at == {i \in DOMAIN selections : selections[i].asset = asset /\ selections[i].feed # 0}
    IN  IF at = {} THEN 0 ELSE selections[Max(at)].feed
SelectSourceSticky(latest, asset) ==
    LET eligible == EligibleFeeds(latest)
    IN  IF CurrentFeed(asset) # 0 THEN CurrentFeed(asset)
        ELSE IF eligible = {} THEN 0
        ELSE Min(eligible)
SelectSource(latest, asset) ==
    LET eligible == EligibleFeeds(latest)
    IN  IF CurrentFeed(asset) \in eligible THEN CurrentFeed(asset)
        ELSE IF eligible = {} THEN 0
        ELSE Min(eligible)

RecordSelection(r) ==
    LET job == jobs[r]
        asset == Min(job.unselected)
        row == [cycle |-> job.cycle, asset |-> asset, feed |-> SelectSource(job.latest, asset)]
    IN  /\ job.pc = "select"
        /\ selections' = Append(selections, row)
        /\ JobSet(r, IF job.unselected # {asset} THEN [job EXCEPT !.unselected = @ \ {asset}]
                  ELSE [job EXCEPT !.unselected = {}, !.cycle = @ + 1, !.pc = "publish"])
        /\ UNCHANGED <<cycleLimit, windowOver, dataFiles, healthRows, samples, tornLog, dataLock, jobDeaths>>

PublishHealth(r) ==
    /\ jobs[r].pc = "publish"
    /\ published' = jobs[r].latest /\ JobGoto(r, "status")
    /\ UNCHANGED <<cycleLimit, windowOver, setup, dataStatus, dataSummary, dataLogs, dataLock, jobDeaths>>

PublishStatus(r) ==
    /\ jobs[r].pc = "status"
    /\ dataStatus' = "running" /\ JobGoto(r, "loop")
    /\ UNCHANGED <<cycleLimit, windowOver, setup, published, dataSummary, dataLogs, dataLock, jobDeaths>>

\* SIGTERM or SIGINT sets a flag that is looked at between two cycles.
StopSignal(r) ==
    /\ jobs[r].pc = "loop" /\ ~ jobs[r].stop
    /\ jobs' = [jobs EXCEPT ![r].stop = TRUE]
    /\ UNCHANGED <<cycleLimit, windowOver, dataFiles, dataLogs, dataLock, jobDeaths>>

\* The loop is over: the lock is given back before the last files are written.
LeaveLoop(r) ==
    /\ jobs[r].pc = "loop" /\ LoopEnds(jobs[r])
    /\ dataLock' = 0 /\ JobGoto(r, "summary")
    /\ UNCHANGED <<cycleLimit, windowOver, dataFiles, dataLogs, jobDeaths>>

Outcome(job) == IF job.stop THEN "stopped_with_evidence"
                ELSE IF cycleLimit # 0 /\ job.cycle > cycleLimit THEN "bounded_window_complete"
                ELSE "multi_hour_window_complete"

FinalDataSummary(r) ==
    /\ jobs[r].pc = "summary"
    /\ dataSummary' = Outcome(jobs[r]) /\ JobGoto(r, "final")
    /\ UNCHANGED <<cycleLimit, windowOver, setup, published, dataStatus, dataLogs, dataLock, jobDeaths>>

FinalDataStatus(r) ==
    /\ jobs[r].pc = "final"
    /\ dataStatus' = Outcome(jobs[r]) /\ JobGoto(r, "last")
    /\ UNCHANGED <<cycleLimit, windowOver, setup, published, dataSummary, dataLogs, dataLock, jobDeaths>>

FinalHealth(r) ==
    /\ jobs[r].pc = "last"
    /\ published' = jobs[r].latest /\ Gone(r)
    /\ UNCHANGED <<cycleLimit, windowOver, setup, dataStatus, dataSummary, dataLogs, dataLock, jobDeaths>>

\* A process dies anywhere, in the middle of a line when it appends one.
JobDies(r) ==
    /\ jobs[r].pc \notin {"off", "gone"} /\ jobDeaths < MaxDeaths
    /\ jobDeaths' = jobDeaths + 1 /\ Gone(r)
    /\ dataLock' = IF dataLock = r THEN 0 ELSE dataLock
    /\ tornLog' \in {tornLog, tornLog \/ jobs[r].pc \in {"health", "sample", "select"}}
    /\ UNCHANGED <<cycleLimit, windowOver, dataFiles, healthRows, samples, selections>>

WindowEnds ==
    /\ ~ windowOver /\ windowOver' = TRUE
    /\ UNCHANGED <<cycleLimit, dataFiles, dataLogs, dataLock, jobs, jobDeaths>>

DataRunNext ==
    \/ WindowEnds
    \/ \E r \in DataRunners :
        \/ Configure(r) \/ WriteDrills(r) \/ OpenLogs(r) \/ RecordHealth(r) \/ RecordSample(r)
        \/ RecordSelection(r) \/ PublishHealth(r) \/ PublishStatus(r) \/ StopSignal(r)
        \/ LeaveLoop(r) \/ FinalDataSummary(r) \/ FinalDataStatus(r) \/ FinalHealth(r) \/ JobDies(r)
        \/ \E looks \in [Pairs -> Looks] : BeginCycle(r, looks)

DataRunSpec == DataRunInit /\ [][DataRunNext]_dataVars

-----------------------------------------------------------------------------
\* validate: the checks of the offline review that depend on the order of events.
SampledPairs == {samples[i].pair : i \in DOMAIN samples}
CycleCount(c) == Cardinality({i \in DOMAIN samples : samples[i].cycle = c})
ProjectionHolds == \A p \in Pairs : published[p] = StateIn(samples, p)
Review ==
    /\ setup = "full" /\ ~ tornLog
    /\ healthRows # <<>> /\ samples # <<>> /\ selections # <<>>
    /\ dataStatus = "multi_hour_window_complete" /\ dataSummary = dataStatus
    /\ CyclesIn(samples) = 1..LastCycle(samples)
    /\ \A c \in CyclesIn(samples) : CycleCount(c) = Cardinality(SampledPairs)
    /\ ProjectionHolds

\* A directory that passes the review has one sample of every pair in every cycle, the
\* window's end among them, whoever died, was stopped or wrote last.
ReviewIsTrue ==
    Review =>
        /\ \A c \in 1..LastCycle(samples), p \in Pairs :
               Cardinality({i \in DOMAIN samples : samples[i].cycle = c /\ samples[i].pair = p}) = 1
        /\ \A p \in Pairs : \E i \in DOMAIN samples : samples[i].pair = p /\ samples[i].terminal

\* The source selected for an asset is one whose every asset was sampled healthy in the
\* same cycle; without one the selection fails closed.
SelectedIsHealthy ==
    \A i \in DOMAIN selections : selections[i].feed # 0 =>
        \A a \in Assets : \E k \in DOMAIN samples :
            /\ samples[k].cycle = selections[i].cycle /\ samples[k].pair = <<selections[i].feed, a>>
            /\ samples[k].state = "HEALTHY"

\* The health ledger accepts its own rows again: every row starts from the state the row
\* before it left, across deaths between a health row and its sample.
HealthLedgerReplays ==
    \A i \in DOMAIN healthRows :
        healthRows[i].previous = StateIn(SubSeq(healthRows, 1, i - 1), healthRows[i].pair)

\* What the run leaves behind can be relied on.
DataRunEvidenceIsTrue == ReviewIsTrue /\ SelectedIsHealthy /\ HealthLedgerReplays
=============================================================================
