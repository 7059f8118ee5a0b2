------------------------------- MODULE Canary -------------------------------
(***************************************************************************)
(* The prospective canary of Phase 4: a collector of final bars, a         *)
(* candidate that predicts each mandatory cutoff before it comes, a        *)
(* watchdog, the launcher that starts the three and the terminal audit.    *)
(* They are processes that see each other only through files.              *)
(*                                                                         *)
(* One tick is one bar interval.  A bar is admitted in the interval after  *)
(* its end or never (a request returns the last two klines).  Both sides   *)
(* check identities against the preregistration before they start; here    *)
(* the checkout is the frozen one (GenerationLaunch varies it), and how    *)
(* receipts become final bars is SourceFinality.                           *)
(***************************************************************************)
EXTENDS Naturals, FiniteSets

CONSTANTS
    CanarySymbols,    \* the instruments, numbered
    ContextBars,      \* CANARY_CONTEXT_BARS
    ContextLag,       \* CANARY_CONTEXT_LAG_SECONDS, in intervals
    Hour,             \* intervals in the prediction cadence and in an outcome
    CutoffsPerSymbol, \* CANARY_MIN_CUTOFFS_PER_SYMBOL, the maximum too
    CanaryEnds,       \* the target_end_at a contract may have
    MaxMishaps,       \* bound: failures, stop signals and deaths
    MaxReruns         \* bound: components started again

\* derive_first_mandatory_cutoff: the first full hour that leaves the lag after
\* the last bar of a full context that begins with the start.
FirstCutoff == LET earliest == (ContextBars - 1) + ContextLag
               IN  ((earliest + Hour - 1) \div Hour) * Hour
Cutoffs == {FirstCutoff + k * Hour : k \in 0..(CutoffsPerSymbol - 1)}
LastCutoff == FirstCutoff + (CutoffsPerSymbol - 1) * Hour

\* validate_frozen_contract: the deadline leaves the last cutoff its outcome hour.
ContractValid(end) == end >= LastCutoff + Hour

ASSUME CanaryAssumption ==
    /\ CanarySymbols # {} /\ CanarySymbols \subseteq Nat
    /\ ContextBars \in Nat \ {0} /\ ContextLag \in Nat \ {0} /\ Hour \in Nat \ {0}
    /\ CutoffsPerSymbol \in Nat \ {0} /\ MaxMishaps \in Nat /\ MaxReruns \in Nat
    /\ \A end \in CanaryEnds : end \in Nat /\ ContractValid(end)

VARIABLES
    targetEnd,    \* the contract's target_end_at
    minute,       \* the clock, in intervals since start_at
    startup,      \* preflight and launch: how far they came
    source,       \* [pc, run, polled, stop]: the collector's process and its last pass
    finals,       \* symbol -> ends of its admitted bars
    revised,      \* the revision ledger has a row
    sourceFile,   \* [st, run]: the collector's status file
    chronos,      \* [pc, run, at, seen, case, stop]: the candidate's process
    forecasts,    \* prediction rows: [s, c, at]
    rejected,     \* rejection rows: <<symbol, cutoff>>
    candidateFile,\* the candidate's status file: [st, run, rejections]
    watcher,      \* the watchdog's process
    watchRows,    \* decisions in the watchdog's event log
    watchFile,    \* the watchdog's status file
    verdict,      \* the terminal audit's report
    mishaps, reruns

canaryVars == <<targetEnd, minute, startup, source, finals, revised, sourceFile, chronos,
                forecasts, rejected, candidateFile, watcher, watchRows, watchFile, verdict, mishaps, reruns>>

Unseen == [s \in CanarySymbols |-> {}]
Idling == [pc |-> "off", run |-> 1, at |-> 0, seen |-> Unseen, case |-> <<0, 0>>, stop |-> FALSE]
NoFile == [st |-> "none", run |-> 0]

CanaryInit ==
    /\ targetEnd \in CanaryEnds /\ minute = 0 /\ startup = "none"
    /\ source = [pc |-> "off", run |-> 1, polled |-> FALSE, stop |-> FALSE]
    /\ finals = Unseen /\ revised = FALSE /\ sourceFile = NoFile
    /\ chronos = Idling /\ forecasts = {} /\ rejected = {}
    /\ candidateFile = [st |-> "none", run |-> 0, rejections |-> 0]
    /\ watcher = "off"
    /\ watchRows = {} /\ watchFile = "none" /\ verdict = "none" /\ mishaps = 0 /\ reruns = 0

Mishap == mishaps < MaxMishaps /\ mishaps' = mishaps + 1 /\ UNCHANGED reruns

sourceSide == <<source, finals, revised, sourceFile>>
candidateSide == <<chronos, forecasts, rejected, candidateFile>>
watchSide == <<watcher, watchRows, watchFile>>

---------------------------------------------------------------------------
(* Preflight and launch.                                                   *)

\* Ready between start and deadline with fresh roots; the report is written once.
CanaryPreflight ==
    /\ startup = "none"
    /\ startup' = IF minute <= targetEnd THEN "READY" ELSE "refused"
    /\ UNCHANGED <<targetEnd, minute, sourceSide, candidateSide, watchSide, verdict, mishaps, reruns>>

\* Collector, then candidate, then watchdog, each once the one before has its
\* manifest.
LaunchCollector ==
    /\ startup = "READY" /\ startup' = "collector"
    /\ source' = [source EXCEPT !.pc = "boot"]
    /\ UNCHANGED <<targetEnd, minute, finals, revised, sourceFile, candidateSide, watchSide, verdict, mishaps, reruns>>

LaunchCandidate ==
    /\ startup = "collector" /\ source.pc \notin {"off", "boot"} /\ startup' = "candidate"
    /\ chronos' = [chronos EXCEPT !.pc = "boot"]
    /\ UNCHANGED <<targetEnd, minute, sourceSide, forecasts, rejected, candidateFile, watchSide, verdict, mishaps, reruns>>

LaunchWatchdog ==
    /\ startup = "candidate" /\ chronos.pc \notin {"off", "boot"} /\ startup' = "RUNNING"
    /\ watcher' = "top"
    /\ UNCHANGED <<targetEnd, minute, sourceSide, candidateSide, watchRows, watchFile, verdict, mishaps, reruns>>

\* A wait runs out or a start fails: the launcher stops the collector, and
\* only the collector.
LaunchFails ==
    /\ startup \in {"collector", "candidate"} /\ Mishap
    /\ startup' = "refused" /\ source' = [source EXCEPT !.stop = TRUE]
    /\ UNCHANGED <<targetEnd, minute, finals, revised, sourceFile, candidateSide, watchSide, verdict>>

---------------------------------------------------------------------------
(* The collector.                                                          *)

\* Identity, lock, manifest, then the replay, which raises on a revision.
CollectorBoots ==
    /\ source.pc = "boot"
    /\ source' = [source EXCEPT !.pc = IF revised THEN "dead" ELSE "loop", !.polled = FALSE]
    /\ UNCHANGED <<targetEnd, minute, startup, finals, revised, sourceFile, candidateSide, watchSide, verdict, mishaps, reruns>>

\* One pass over the symbols.  A provider failure loses this pass for its
\* symbol, a changed admitted bar or an unclassified error ends the canary.
\* The bar that has just ended is final by the pass's second receipt.
Admit(ok) == finals' = [s \in CanarySymbols |-> IF s \in ok THEN finals[s] \cup {minute} ELSE finals[s]]

SourceSays(st) == sourceFile' = [st |-> st, run |-> source.run]

CollectorPass ==
    /\ source.pc = "loop" /\ ~source.stop /\ minute < targetEnd /\ ~source.polled
    /\ \/ /\ Admit(CanarySymbols)
          /\ source' = [source EXCEPT !.polled = TRUE] /\ SourceSays("running")
          /\ UNCHANGED <<revised, mishaps, reruns>>
       \/ \E s \in CanarySymbols :
          /\ Mishap /\ Admit(CanarySymbols \ {s})
          /\ source' = [source EXCEPT !.polled = TRUE] /\ SourceSays("running")
          /\ UNCHANGED revised
       \/ \E s \in CanarySymbols, violation \in BOOLEAN :
          /\ Mishap /\ (violation => finals[s] # {})
          /\ Admit({t \in CanarySymbols : t < s})
          /\ revised' = (revised \/ violation)
          /\ source' = [source EXCEPT !.pc = "CANARY_FAILED"] /\ UNCHANGED sourceFile
    /\ UNCHANGED <<targetEnd, minute, startup, candidateSide, watchSide, verdict>>

\* The loop's head: a stop request is looked at before the deadline.
CollectorEnds ==
    /\ source.pc = "loop" /\ (source.stop \/ minute >= targetEnd)
    /\ source' = [source EXCEPT !.pc = IF source.stop THEN "CANARY_FAILED" ELSE "deadline_reached"]
    /\ UNCHANGED <<targetEnd, minute, startup, finals, revised, sourceFile, candidateSide, watchSide, verdict, mishaps, reruns>>

\* The lock is free again before the last status is written.
CollectorSays ==
    /\ source.pc \in {"CANARY_FAILED", "deadline_reached"}
    /\ SourceSays(source.pc)
    /\ source' = [source EXCEPT !.pc = "dead", !.polled = FALSE, !.stop = FALSE]
    /\ UNCHANGED <<targetEnd, minute, startup, finals, revised, candidateSide, watchSide, verdict, mishaps, reruns>>

---------------------------------------------------------------------------
(* The candidate.                                                          *)

Context(c) == (c - ContextLag - ContextBars + 1)..(c - ContextLag)
Predicted(s, c) == \E f \in forecasts : f.s = s /\ f.c = c
Cases == CanarySymbols \X Cutoffs

\* What the candidate makes of a case, given the bars and the time of its pass.
\* cutoff_eligibility_status: without a context it waits until the cutoff.
Eligibility(case, seen, at) ==
    LET ready == Context(case[2]) \subseteq seen[case[1]] IN
    IF Predicted(case[1], case[2]) THEN IF ready THEN "done" ELSE "broken"
    ELSE IF ready THEN IF at >= case[2] THEN "missed" ELSE "eligible"
    ELSE IF at >= case[2] THEN "unavailable" ELSE "waiting"

Waiting(case) == Eligibility(case, chronos.seen, chronos.at) \in {"done", "waiting"}
Before(a, b) == a[1] < b[1] \/ (a[1] = b[1] /\ a[2] < b[2])
Upcoming == {k \in Cases : ~Waiting(k) /\ \A j \in Cases : Before(j, k) => Waiting(j)}

\* Source manifest, identity, lock, own manifest, ledgers: no resumption after
\* a missed mandatory cutoff.
Resume == IF rejected # {} THEN "dead" ELSE "top"

CandidateBoots ==
    /\ chronos.pc = "boot"
    /\ chronos' = [chronos EXCEPT !.pc = Resume]
    /\ UNCHANGED <<targetEnd, minute, startup, sourceSide, forecasts, rejected, candidateFile, watchSide, verdict, mishaps, reruns>>

\* A pass begins: the time, the admitted bars, the source's status.
Stopped == [Idling EXCEPT !.pc = "dead", !.run = chronos.run]
CandidateSays(st) == candidateFile' = [st |-> st, run |-> chronos.run, rejections |-> Cardinality(rejected)]

LookAround ==
    /\ chronos.pc = "top" /\ ~chronos.stop /\ minute < targetEnd
    /\ chronos' = [chronos EXCEPT !.pc = IF sourceFile.st = "CANARY_FAILED" THEN "CANARY_FAILED" ELSE "cases",
                                  !.at = minute, !.seen = finals]
    /\ UNCHANGED <<targetEnd, minute, startup, sourceSide, forecasts, rejected, candidateFile, watchSide, verdict, mishaps, reruns>>

\* The next case that asks for something: an inference, or a rejection that
\* ends the canary.  Without one the pass publishes its status.
TakeCase ==
    /\ chronos.pc = "cases"
    /\ IF Upcoming = {}
       THEN /\ chronos' = [chronos EXCEPT !.pc = "top", !.seen = Unseen]
            /\ CandidateSays("running")
            /\ UNCHANGED rejected
       ELSE LET k == CHOOSE k \in Upcoming : TRUE
                e == Eligibility(k, chronos.seen, chronos.at) IN
            /\ chronos' = [chronos EXCEPT !.case = k, !.pc = IF e = "eligible" THEN "infer" ELSE "failed"]
            /\ rejected' = IF e \in {"missed", "unavailable"} THEN rejected \cup {k} ELSE rejected
            /\ UNCHANGED candidateFile
    /\ UNCHANGED <<targetEnd, minute, startup, sourceSide, forecasts, watchSide, verdict, mishaps, reruns>>

\* A plausible slip: the answer's time is not looked at.
AppendLate == TRUE

\* An answer that comes after the cutoff is no prediction.
InTime == minute < chronos.case[2]

Predict ==
    /\ chronos.pc = "infer"
    /\ IF InTime
       THEN /\ forecasts' = forecasts \cup {[s |-> chronos.case[1], c |-> chronos.case[2], at |-> minute]}
            /\ chronos' = [chronos EXCEPT !.pc = "cases"] /\ UNCHANGED rejected
       ELSE /\ rejected' = rejected \cup {chronos.case}
            /\ chronos' = [chronos EXCEPT !.pc = "failed"] /\ UNCHANGED forecasts
    /\ UNCHANGED <<targetEnd, minute, startup, sourceSide, candidateFile, watchSide, verdict, mishaps, reruns>>

\* The worker times out or answers nonsense, or the ledger refuses the row.
InferenceFails ==
    /\ chronos.pc = "infer" /\ Mishap
    /\ rejected' = rejected \cup {chronos.case}
    /\ chronos' = [chronos EXCEPT !.pc = "failed"]
    /\ UNCHANGED <<targetEnd, minute, startup, sourceSide, forecasts, candidateFile, watchSide, verdict>>

\* The failed pass publishes its status before the run ends.
PassFails ==
    /\ chronos.pc = "failed"
    /\ CandidateSays("CANARY_FAILED")
    /\ chronos' = [chronos EXCEPT !.pc = "CANARY_FAILED"]
    /\ UNCHANGED <<targetEnd, minute, startup, sourceSide, forecasts, rejected, watchSide, verdict, mishaps, reruns>>

\* Stopped or past the deadline: a run short of predictions has failed.
Covered == \A k \in Cases : Predicted(k[1], k[2])

ChronosEnds ==
    /\ chronos.pc = "top" /\ (chronos.stop \/ minute >= targetEnd)
    /\ chronos' = [chronos EXCEPT !.pc = IF ~chronos.stop /\ Covered THEN "deadline_reached" ELSE "CANARY_FAILED"]
    /\ UNCHANGED <<targetEnd, minute, startup, sourceSide, forecasts, rejected, candidateFile, watchSide, verdict, mishaps, reruns>>

ChronosReports ==
    /\ chronos.pc \in {"CANARY_FAILED", "deadline_reached"}
    /\ CandidateSays(chronos.pc) /\ chronos' = Stopped
    /\ UNCHANGED <<targetEnd, minute, startup, sourceSide, forecasts, rejected, watchSide, verdict, mishaps, reruns>>

---------------------------------------------------------------------------
(* The watchdog.                                                           *)

\* The process whose pid a status file names.
Lives(pc) == pc \notin {"off", "dead"}
WriterLives(file, process) == Lives(process.pc) /\ process.run = file.run

\* evaluate_once at the time now: an earlier failure, a file that is not there
\* yet, a failed component, a rejection, a process gone before the deadline
\* and one still running after it all condemn.
FatalLatched == watchFile = "CANARY_FAILED" \/ "CANARY_FAILED" \in watchRows

Condemned(now) ==
    \/ FatalLatched
    \/ sourceFile.st \in {"none", "CANARY_FAILED"}
    \/ candidateFile.st \in {"none", "CANARY_FAILED"} \/ candidateFile.rejections > 0
    \/ sourceFile.st = "running" /\ (now < targetEnd => ~WriterLives(sourceFile, source))
    \/ candidateFile.st = "running" /\ (now < targetEnd => ~WriterLives(candidateFile, chronos))

CanaryDecision(now) ==
    IF Condemned(now) THEN "CANARY_FAILED"
    ELSE IF now >= targetEnd THEN "CANARY_COMPLETE_PENDING_AUDIT" ELSE "CANARY_HEALTHY"

\* The event is durable before the status is replaced; healthy rows are left
\* out of the log, nothing reads them.
AppendWatchEvent(d) == watchRows' = watchRows \cup ({d} \ {"CANARY_HEALTHY"})

\* The clock is read after the files and may have passed into the next
\* interval meanwhile.
WatchJudges ==
    \E now \in {minute, minute + 1} :
        /\ watcher = "top"
        /\ AppendWatchEvent(CanaryDecision(now))
        /\ watcher' = CanaryDecision(now)
        /\ UNCHANGED <<targetEnd, minute, startup, sourceSide, candidateSide, watchFile, verdict, mishaps, reruns>>

WatchPublishes ==
    /\ watcher \in {"CANARY_FAILED", "CANARY_COMPLETE_PENDING_AUDIT", "CANARY_HEALTHY"}
    /\ watchFile' = watcher
    /\ watcher' = IF watcher = "CANARY_HEALTHY" THEN "top" ELSE "dead"
    /\ UNCHANGED <<targetEnd, minute, startup, sourceSide, candidateSide, watchRows, verdict, mishaps, reruns>>

---------------------------------------------------------------------------
(* The audit.                                                              *)

OutcomeBars(c) == (c + 1)..(c + Hour)
Linked == \A f \in forecasts : OutcomeBars(f.c) \subseteq finals[f.s]
ContextsHold == \A f \in forecasts : Context(f.c) \subseteq finals[f.s]

\* Both components terminal, no lock held, a watchdog status; a replay that
\* meets a revision raises.
Auditable ==
    /\ sourceFile.st = "deadline_reached" /\ candidateFile.st \in {"deadline_reached", "CANARY_FAILED"}
    /\ ~(Lives(source.pc) /\ source.pc \notin {"CANARY_FAILED", "deadline_reached"})
    /\ ~(Lives(chronos.pc) /\ chronos.pc \notin {"CANARY_FAILED", "deadline_reached"})
    /\ watchFile # "none" /\ ~revised

CanaryAudit ==
    /\ verdict = "none" /\ Auditable
    /\ verdict' = IF Covered /\ rejected = {} /\ ContextsHold /\ Linked /\ ~FatalLatched
                  THEN "qualified" ELSE "unqualified"
    /\ UNCHANGED <<targetEnd, minute, startup, sourceSide, candidateSide, watchSide, mishaps, reruns>>

---------------------------------------------------------------------------
(* Time, stop signals, deaths and restarts.                                *)

\* The collector's passes are far shorter than an interval, the candidate's
\* too, but for an inference.
CanaryTick ==
    /\ minute < targetEnd
    /\ startup \notin {"READY", "collector", "candidate"}
    /\ source.pc = "loop" => source.polled
    /\ chronos.pc \in {"off", "dead", "infer", "top"} /\ (chronos.pc = "top" => chronos.at = minute)
    /\ minute' = minute + 1 /\ source' = [source EXCEPT !.polled = FALSE]
    /\ UNCHANGED <<targetEnd, startup, finals, revised, sourceFile, candidateSide, watchSide, verdict, mishaps, reruns>>

StopCollector ==
    /\ source.pc = "loop" /\ ~source.stop /\ Mishap
    /\ source' = [source EXCEPT !.stop = TRUE]
    /\ UNCHANGED <<targetEnd, minute, startup, finals, revised, sourceFile, candidateSide, watchSide, verdict>>

StopCandidate ==
    /\ chronos.pc = "top" /\ ~chronos.stop /\ Mishap
    /\ chronos' = [chronos EXCEPT !.stop = TRUE]
    /\ UNCHANGED <<targetEnd, minute, startup, sourceSide, forecasts, rejected, candidateFile, watchSide, verdict>>

\* A component that dies before its manifest is a launch that fails.
Kill ==
    /\ Mishap
    /\ \/ Lives(source.pc) /\ source.pc # "boot" /\ source' = [source EXCEPT !.pc = "dead", !.polled = FALSE, !.stop = FALSE] /\ UNCHANGED <<chronos, watcher>>
       \/ Lives(chronos.pc) /\ chronos.pc # "boot" /\ chronos' = Stopped /\ UNCHANGED <<source, watcher>>
       \/ Lives(watcher) /\ watcher' = "dead" /\ UNCHANGED <<source, chronos>>
    /\ UNCHANGED <<targetEnd, minute, startup, finals, revised, sourceFile, forecasts, rejected,
                   candidateFile, watchRows, watchFile, verdict>>

\* An operator starts a dead component again.
Rerun ==
    /\ \/ source.pc = "dead" /\ source' = [pc |-> "boot", run |-> source.run + 1, polled |-> FALSE, stop |-> FALSE] /\ UNCHANGED <<chronos, watcher>>
       \/ chronos.pc = "dead" /\ chronos' = [Idling EXCEPT !.pc = "boot", !.run = chronos.run + 1] /\ UNCHANGED <<source, watcher>>
       \/ watcher = "dead" /\ watcher' = "top" /\ UNCHANGED <<source, chronos>>
    /\ reruns < MaxReruns /\ reruns' = reruns + 1
    /\ UNCHANGED <<targetEnd, minute, startup, finals, revised, sourceFile, forecasts, rejected,
                   candidateFile, watchRows, watchFile, verdict, mishaps>>

CanaryNext ==
    \/ CanaryPreflight \/ LaunchCollector \/ LaunchCandidate \/ LaunchWatchdog \/ LaunchFails
    \/ CollectorBoots \/ CollectorPass \/ CollectorEnds \/ CollectorSays
    \/ CandidateBoots \/ LookAround \/ TakeCase \/ Predict \/ InferenceFails \/ PassFails
    \/ ChronosEnds \/ ChronosReports
    \/ WatchJudges \/ WatchPublishes \/ CanaryAudit
    \/ CanaryTick \/ StopCollector \/ StopCandidate \/ Kill \/ Rerun

CanarySpec == CanaryInit /\ [][CanaryNext]_canaryVars

---------------------------------------------------------------------------
CanaryTypeOK ==
    /\ minute \in 0..targetEnd
    /\ rejected \subseteq Cases /\ \A f \in forecasts : <<f.s, f.c>> \in Cases
    /\ candidateFile.st \in {"none", "running", "CANARY_FAILED", "deadline_reached"}
    /\ sourceFile.st \in {"none", "running", "CANARY_FAILED", "deadline_reached"}
    /\ watchRows \subseteq {"CANARY_FAILED", "CANARY_COMPLETE_PENDING_AUDIT"}
    /\ verdict \in {"none", "qualified", "unqualified"}

\* The canary's verdicts agree with each other and with what happened,
\* whatever was stopped, killed and started again.
\* - a case has one prediction or a rejection, never both; a prediction was
\*   made before its cutoff from bars admitted before it was made.
\* - COMPLETE_PENDING_AUDIT means every mandatory case predicted and none
\*   rejected, and never follows a failure in the watchdog's history.
\* - a canary qualifies only if it is complete and every outcome bar was
\*   admitted before the deadline, so a contract that ends with its last
\*   outcome hour never qualifies.
PredictedOnTime ==
    /\ \A f, g \in forecasts : f.s = g.s /\ f.c = g.c => f = g
    /\ \A f \in forecasts : /\ <<f.s, f.c>> \notin rejected
                            /\ f.at < f.c /\ Context(f.c) \subseteq finals[f.s] \cap 0..f.at
CompleteIsCovered == "CANARY_COMPLETE_PENDING_AUDIT" \in watchRows => Covered /\ rejected = {}
QualifiedIsLinked == verdict = "qualified" => Covered /\ rejected = {} /\ Linked /\ targetEnd > LastCutoff + Hour

CanaryVerdictsAgree ==
    /\ [](PredictedOnTime /\ CompleteIsCovered /\ QualifiedIsLinked)
    /\ [][ "CANARY_FAILED" \in watchRows => UNCHANGED watchRows ]_canaryVars
=============================================================================
