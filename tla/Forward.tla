------------------------------- MODULE Forward -------------------------------
(***************************************************************************)
(* The forward evidence of Phase 4: a collector that polls public klines   *)
(* into append-only spools and builds a case once its outcome has closed,  *)
(* a worker that writes baseline predictions before the cutoff from the    *)
(* same bars, and the sealed-root workflow that links predictions to       *)
(* cases, audits the whole root and materializes the evaluation input.     *)
(* They share files only.  One symbol; a poll takes no time on the clock,  *)
(* the inference of a model and the workflow may.                          *)
(***************************************************************************)
EXTENDS Integers, FiniteSets, SequencesExt

CONSTANTS
    Interval,       \* FORWARD_INTERVAL_SECONDS, in ticks
    PastBars,       \* observations_per_context
    ForwardOutcomeBars,    \* observations_per_decision
    ForwardEnd,     \* target_end_at of the collector
    TargetCases,    \* target_cases_per_symbol
    MinimumCases,   \* minimum_cases_per_symbol of the audit
    Baselines,      \* V3_CORE_BASELINES; naturals in roster order
    WorkerStarts,   \* when the worker may be started first
    MaxLag,         \* bound on the ticks a response is on its way
    MaxSlips        \* bound on late, revised and failed responses, crashes, restarts

ASSUME ForwardAssumption ==
    /\ Interval \in Nat \ {0} /\ PastBars \in Nat \ {0} /\ ForwardOutcomeBars \in Nat \ {0}
    /\ ForwardEnd \in Nat /\ TargetCases \in Nat \ {0} /\ MinimumCases \in Nat \ {0}
    /\ Baselines \subseteq Nat /\ Baselines # {} /\ MaxLag \in Nat /\ MaxSlips \in Nat

VARIABLES
    time,
    spool,          \* raw responses: <<[at, rows]>>, rows a function from interval ends
    bars,           \* normalized bars: [end, content, at]
    healths,        \* source-health transitions: <<[at, state]>>
    cases,          \* completed cases: [cutoff, context, outcome]
    caseRejections,       \* case rejections: <<cutoff, reason>>
    sealed,         \* state in status.json
    poller,         \* where the collector is
    parsed,         \* closed rows of the last response still to normalize, the oldest first
    closing,        \* terminal state of a collector that released its lock, or "none"
    broken,         \* the spool whose last line a crash left torn, or "none"
    predictions,      \* the prediction ledger: [model, cutoff, at, context]
    misses,         \* missed cutoffs: <<cutoff, reason>>
    worker,         \* where the prediction worker is
    began,          \* started_at of its manifest
    batch,          \* the cutoff it is predicting: [cutoff, at, context, models, failing]
    inferenceFailed,\* memory: cutoffs at which every model failed
    review,         \* where the sealed-root workflow is
    report,         \* what its audit read, found and hashed
    input,          \* the cases of the evaluation input
    slips

collectorVars == <<spool, bars, healths, cases, caseRejections, sealed, poller, parsed,
                   closing, broken>>
workerVars    == <<predictions, misses, worker, began, batch, inferenceFailed>>
reviewVars    == <<review, report, input>>
forwardVars   == <<time, collectorVars, workerVars, reviewVars, slips>>

Terminal == {"target_reached", "deadline_reached", "stopped_with_evidence"}

\* The records on disk: a raw response, a normalized bar, a source-health transition,
\* a prediction.
RawResponse(rows)   == [at |-> time, rows |-> rows]
Bar(e, r)           == [end |-> e, content |-> r.rows[e], at |-> r.at]
HealthRow(state)    == [at |-> time, state |-> state]
Prediction(b, name) == [model |-> name, cutoff |-> b.cutoff, at |-> b.at, context |-> b.context]

Horizon  == ForwardOutcomeBars * Interval
EndsOf(B)  == {b.end : b \in B}
Slip(n)  == slips + n <= MaxSlips /\ slips' = slips + n

PastEnds(c)    == {c - Interval * k : k \in 1..PastBars}
OutcomeEnds(c) == {c + Interval * k : k \in 1..ForwardOutcomeBars}
BarsAt(B, ends)    == {b \in B : b.end \in ends}

-----------------------------------------------------------------------------
(* The collector *)

\* What the provider says when a response is generated: the interval still open, with
\* the content it has so far, and the one before it.
Klines(generated, content) ==
    LET open == (generated \div Interval + 1) * Interval
    IN  [e \in {open - Interval, open} |-> IF e = open THEN "partial" ELSE content]

\* parse_binance_klines: a row is closed when it is received after its end.
Parsed(response) ==
    {Bar(e, response) : e \in {x \in DOMAIN response.rows : x <= response.at}}

\* ForwardHealthLedger.append: only a change of state makes a row.
Noted(state) ==
    IF healths # <<>> /\ healths[Len(healths)].state = state THEN healths
    ELSE Append(healths, HealthRow(state))

\* What a bar set says of a cutoff: build_v3core_cases.
CaseVerdict(B, c) ==
    IF ~ (PastEnds(c) \subseteq EndsOf(B)) THEN "missing_context_bars"
    ELSE IF ~ (OutcomeEnds(c) \subseteq EndsOf(B)) THEN "missing_one_hour_outcome_bars"
    ELSE IF \E b \in BarsAt(B, PastEnds(c)) : b.at > c THEN "context_not_collected_at_cutoff"
    ELSE "case"

CutoffsIn(B)    == {e \in EndsOf(B) : e % Horizon = 0}
Case(B, c) ==
    [cutoff |-> c, context |-> BarsAt(B, PastEnds(c)), outcome |-> BarsAt(B, OutcomeEnds(c))]
CasesOf(B)      == {Case(B, c) : c \in {x \in CutoffsIn(B) : CaseVerdict(B, x) = "case"}}
RejectionsOf(B) == {<<c, CaseVerdict(B, c)>> :
                        c \in {x \in CutoffsIn(B) : CaseVerdict(B, x) # "case"}}

\* When the last response came.
LastReceipt == IF spool = <<>> THEN -1 ELSE spool[Len(spool)].at

\* Under the lock; a root whose evidence is already terminal is opened again.  A start
\* takes time: its first response is younger than those on file.
StartPoller ==
    /\ poller = "down" /\ LastReceipt < time
    /\ Slip(IF sealed \in Terminal \/ closing # "none" THEN 1 ELSE 0)
    /\ poller' = IF broken = "none" THEN "polling" ELSE "refused"
    /\ UNCHANGED <<time, spool, bars, healths, cases, caseRejections, sealed, parsed,
                   closing, broken,
                   workerVars, reviewVars>>

\* One response, durable before any of its rows is looked at.
Poll(lag, content) ==
    LET response == RawResponse(Klines(time - lag, content)) IN
    /\ poller = "polling" /\ time < ForwardEnd /\ lag <= time
    /\ Slip((IF lag > 0 THEN 1 ELSE 0) + IF content = "final" THEN 0 ELSE 1)
    /\ spool' = Append(spool, response) /\ parsed' = Parsed(response) /\ poller' = "admitting"
    /\ UNCHANGED <<time, bars, healths, cases, caseRejections, sealed, closing, broken,
                   workerVars, reviewVars>>

\* ForwardNormalizedBarSpool.append: the first receipt of a bar is its canonical record,
\* another content is refused and ends the pass over this response.
AdmitBar ==
    LET bar == CHOOSE b \in parsed : \A other \in parsed : b.end <= other.end
        prior == BarsAt(bars, {bar.end})
        conflict == \E b \in prior : b.content # bar.content
    IN
    /\ poller = "admitting" /\ parsed # {}
    /\ bars' = IF prior = {} THEN bars \cup {bar} ELSE bars
    /\ parsed' = IF conflict THEN {} ELSE parsed \ {bar}
    /\ healths' = IF conflict THEN Noted("DEGRADED") ELSE healths
    /\ poller' = IF conflict THEN "refreshing" ELSE poller
    /\ UNCHANGED <<time, spool, cases, caseRejections, sealed, closing, broken, workerVars,
                   reviewVars, slips>>

NoteHealthy ==
    /\ poller = "admitting" /\ parsed = {} /\ poller' = "refreshing" /\ healths' = Noted("HEALTHY")
    /\ UNCHANGED <<time, spool, bars, cases, caseRejections, sealed, parsed, closing, broken,
                   workerVars, reviewVars, slips>>

\* A transport error: a failure row and a health transition.
PollFails ==
    /\ poller = "polling" /\ time < ForwardEnd /\ Slip(1)
    /\ poller' = "refreshing" /\ healths' = Noted("DISCONNECTED")
    /\ UNCHANGED <<time, spool, bars, cases, caseRejections, sealed, parsed, closing, broken,
                   workerVars, reviewVars>>

\* _refresh_cases and the status: a case is never rebuilt differently; the collector
\* writes the terminal state under the lock and once more after releasing it.
Refresh ==
    LET built   == CasesOf(bars)
        changed == \E old \in cases, new \in built : old.cutoff = new.cutoff /\ old # new
        reached == Cardinality(cases \cup built) >= TargetCases
    IN
    /\ poller = "refreshing"
    /\ caseRejections' = caseRejections \cup RejectionsOf(bars)
    /\ cases' = IF changed THEN cases ELSE cases \cup built
    /\ sealed' = IF changed THEN sealed ELSE IF reached THEN "target_reached" ELSE "running"
    /\ closing' = IF reached /\ ~ changed THEN "target_reached" ELSE closing
    /\ poller' = IF changed \/ reached THEN "down" ELSE "sleeping"
    /\ UNCHANGED <<time, spool, bars, healths, parsed, broken, workerVars, reviewVars, slips>>

\* The deadline at the top of the loop, or a stop signal: the lock is released first.
LeaveLoop(state) ==
    /\ poller \in {"polling", "sleeping"} /\ poller' = "down" /\ closing' = state
    /\ IF state = "deadline_reached" THEN poller = "polling" /\ time >= ForwardEnd /\ UNCHANGED slips
       ELSE Slip(1)
    /\ UNCHANGED <<time, spool, bars, healths, cases, caseRejections, sealed, parsed, broken,
                   workerVars, reviewVars>>

\* Summary, status and heartbeat of a collector that no longer holds the lock.
WriteFinal ==
    /\ closing # "none" /\ sealed' = closing /\ closing' = "none"
    /\ UNCHANGED <<time, spool, bars, healths, cases, caseRejections, poller, parsed, broken,
                   workerVars, reviewVars, slips>>

\* The spool a collector that dies may be writing to.
Writing ==
    CASE poller = "polling" -> {"raw"}
      [] poller = "admitting" -> IF parsed = {} THEN {"health"} ELSE {"bars"}
      [] poller = "refreshing" -> {"cases"}
      [] OTHER -> {}

CrashPoller(line) ==
    /\ poller \notin {"down", "refused"} /\ line \in Writing \cup {"none"} /\ Slip(1)
    /\ poller' = "down" /\ parsed' = {} /\ broken' = line
    /\ UNCHANGED <<time, spool, bars, healths, cases, caseRejections, sealed, closing,
                   workerVars, reviewVars>>

\* The collector sleeps between polls.
Tick ==
    /\ time <= ForwardEnd /\ poller \in {"sleeping", "down", "refused"}
    /\ time' = time + 1 /\ poller' = IF poller = "sleeping" THEN "polling" ELSE poller
    /\ UNCHANGED <<spool, bars, healths, cases, caseRejections, sealed, parsed, closing, broken,
                   workerVars, reviewVars, slips>>

-----------------------------------------------------------------------------
(* The prediction worker *)

Batch(c, at, context, models, failing) ==
    [cutoff |-> c, at |-> at, context |-> context, models |-> models, failing |-> failing]
Idle == Batch(0, 0, {}, {}, FALSE)

\* _context_for_cutoff: the bars before the cutoff that were there at the cutoff.
ContextFor(c) ==
    LET context == {b \in BarsAt(bars, PastEnds(c)) : b.at <= c}
    IN  IF EndsOf(context) = PastEnds(c) THEN context ELSE {}

PredictedAt(c)  == {p \in predictions : p.cutoff = c}
Missed(c)     == \E m \in misses : m[1] = c
NextCutoff    == Max(EndsOf(bars)) + Interval

\* _missed_cutoff_reason, and the partial coverage its caller looks for first.
MissReason(c) ==
    LET known == {b \in bars : b.at <= c} IN
    IF PredictedAt(c) # {} THEN "PARTIAL_BASELINE_COVERAGE"
    ELSE IF c \in inferenceFailed THEN "INFERENCE_RUNTIME_FAILURE"
    ELSE IF Cardinality(known) < PastBars THEN "INSUFFICIENT_CONTEXT"
    ELSE IF ~ (PastEnds(c) \subseteq EndsOf(known)) THEN "MISSING_BAR"
    ELSE IF began > c THEN "WORKER_STARTED_TOO_LATE" ELSE "SCHEDULER_DELAY"

\* The worker and the workflow read the files between two passes of the collector or
\* between two bars of one: its other steps commute with theirs.
BetweenWrites == poller \in {"sleeping", "down", "refused", "admitting"}
AtRest        == poller \in {"sleeping", "down", "refused"}

\* A start resumes under the manifest of the first one.
StartWorker ==
    /\ worker = "down" /\ AtRest /\ worker' = "ready"
    /\ UNCHANGED <<time, collectorVars, predictions, misses, began, batch, inferenceFailed,
                   reviewVars, slips>>

Looking == worker = "ready" /\ BetweenWrites /\ time >= began /\ batch = Idle /\ bars # {}

\* The predictions on file must be about the context seen now, otherwise the worker
\* dies of a RuntimeError its main does not catch.
Contradicted(c) ==
    /\ PredictedAt(c) # {}
    /\ IF ContextFor(c) = {} THEN time > c ELSE \E p \in PredictedAt(c) : p.context # ContextFor(c)

\* A look at the bars: only the cutoff that follows the newest one is considered.
LookMissed ==
    LET c == NextCutoff IN
    /\ Looking /\ broken # "bars" /\ c % Horizon = 0
    /\ ~ Contradicted(c) /\ ~ Missed(c) /\ time > c
    /\ {p.model : p \in PredictedAt(c)} # Baselines
    /\ misses' = misses \cup {<<c, MissReason(c)>>}
    /\ UNCHANGED <<time, collectorVars, predictions, worker, began, batch, inferenceFailed,
                   reviewVars, slips>>

LookPending ==
    LET c == NextCutoff
        pending == Baselines \ {p.model : p \in PredictedAt(c)}
    IN
    /\ Looking /\ broken # "bars" /\ c % Horizon = 0
    /\ ~ Contradicted(c) /\ ~ Missed(c) /\ time <= c /\ ContextFor(c) # {} /\ pending # {}
    /\ batch' = Batch(c, time, ContextFor(c), pending, TRUE)
    /\ UNCHANGED <<time, collectorVars, predictions, misses, worker, began, inferenceFailed,
                   reviewVars, slips>>

LookDies ==
    /\ Looking /\ worker' = "dead"
    /\ broken = "bars" \/ (NextCutoff % Horizon = 0 /\ Contradicted(NextCutoff))
    /\ UNCHANGED <<time, collectorVars, predictions, misses, began, batch, inferenceFailed,
                   reviewVars, slips>>

\* The next model in roster order.  Its record carries the time of the look, however
\* long the inference takes.
PredictNext(fails) ==
    LET model == Min(batch.models)
        left  == Batch(batch.cutoff, batch.at, batch.context, batch.models \ {model},
                       batch.failing /\ fails)
    IN
    /\ worker = "ready" /\ AtRest /\ batch # Idle /\ Slip(IF fails THEN 1 ELSE 0)
    /\ predictions' = IF fails THEN predictions
                    ELSE predictions \cup {Prediction(batch, model)}
    /\ batch' = IF left.models = {} THEN Idle ELSE left
    /\ inferenceFailed' =
        IF left.models # {} THEN inferenceFailed
        ELSE IF left.failing THEN inferenceFailed \cup {batch.cutoff}
        ELSE inferenceFailed \ {batch.cutoff}
    /\ UNCHANGED <<time, collectorVars, misses, worker, began, reviewVars>>

\* The worker dies or is stopped; a torn row of its ledger refuses every later start.
CrashWorker(tears) ==
    /\ worker = "ready" /\ AtRest /\ time >= began /\ (tears => batch # Idle) /\ Slip(1)
    /\ worker' = IF tears THEN "torn" ELSE "down"
    /\ batch' = Idle /\ inferenceFailed' = {}
    /\ UNCHANGED <<time, collectorVars, predictions, misses, began, reviewVars>>

-----------------------------------------------------------------------------
(* The sealed-root workflow *)

NoReport == [raw |-> 0, bars |-> {}, cases |-> {}, predictions |-> {}, clean |-> {}, ready |-> FALSE,
             hashed |-> <<0, {}, {}, {}>>]

Fingerprint == <<Len(spool), bars, cases, predictions>>

\* The raw responses that say an interval, and those that say it after its end.
Seen(rows, e)   == {i \in DOMAIN rows : e \in DOMAIN rows[i].rows}
Closed(rows, e) == {i \in Seen(rows, e) : e <= rows[i].at}

\* closed_terminal_repeat_v1: the last closed version, in at least two responses in a row.
TerminalRun(rows, e) ==
    LET seen == Closed(rows, e)
    IN  {i \in seen : \A j \in seen : j >= i => rows[j].rows[e] = rows[Max(seen)].rows[e]}

BarVerdict(rows, B, e) ==
    LET seen == Closed(rows, e) IN
    IF BarsAt(B, {e}) = {} \/ Cardinality(TerminalRun(rows, e)) < 2 THEN "UNRESOLVED"
    ELSE IF \E b \in BarsAt(B, {e}) : b.content # rows[Max(seen)].rows[e]
    THEN "REVISED_CANONICAL_DISAGREES"
    ELSE IF TerminalRun(rows, e) = seen THEN "STABLE"
    ELSE "REVISED_BUT_CANONICAL_FINAL"

Sound(case) == \A b \in case.context \cup case.outcome :
                    BarVerdict(spool, bars, b.end) \in {"STABLE", "REVISED_BUT_CANONICAL_FINAL"}
CleanCases == {c \in cases : Sound(c)}

\* The health on record when a bar was collected must be the one the bar claims.
HealthAgrees ==
    \A b \in bars : LET before == SelectSeq(healths, LAMBDA h : h.at <= b.at)
                    IN  before # <<>> /\ before[Len(before)].state = "HEALTHY"

\* What makes the audit raise, and what its report calls integrity_ready and
\* sample_minimum_met.  An interval seen in a response and never normalized makes the
\* normalized input invalid, the one still open in the last response included.
AuditRaises == broken # "none" \/ worker = "torn" \/ healths = <<>> \/ ~ HealthAgrees
EverySeenIsNormalized == \A i \in DOMAIN spool : DOMAIN spool[i].rows \subseteq EndsOf(bars)
PredictionsAgree ==
    /\ predictions # {}
    /\ \A p \in predictions :
        p.at <= p.cutoff /\ \E c \in cases : c.cutoff = p.cutoff /\ c.context = p.context

\* The linker refuses unless every prediction has its case; only a target-reached root
\* is linked.
Unlinkable ==
    /\ sealed = "target_reached"
    /\ predictions = {} \/ \E p \in predictions : \A c \in cases : c.cutoff # p.cutoff

\* run: a running root is refused without an output, any other failure leaves a refusal.
Qualify ==
    /\ review = "none" /\ AtRest /\ sealed \in Terminal
    /\ IF Unlinkable \/ AuditRaises THEN review' = "refused" /\ UNCHANGED report
       ELSE /\ review' = "read"
            /\ report' = [raw |-> Len(spool), bars |-> bars, cases |-> cases,
                          predictions |-> predictions, clean |-> CleanCases,
                          ready |-> /\ sealed = "target_reached" /\ EverySeenIsNormalized
                                    /\ PredictionsAgree
                                    /\ Cardinality(CleanCases) >= MinimumCases,
                          hashed |-> NoReport.hashed]
    /\ UNCHANGED <<time, collectorVars, workerVars, input, slips>>

\* The files are hashed when the report is put together, after they were read.
HashInputs ==
    /\ review = "read" /\ report' = [report EXCEPT !.hashed = Fingerprint]
    /\ review' = IF report.ready THEN "audited" ELSE "not_ready"
    /\ UNCHANGED <<time, collectorVars, workerVars, input, slips>>

\* The resource evidence decides too; materialize compares the files with the report.
MaterializeAll(resourcesPass) ==
    /\ review = "audited"
    /\ IF ~ resourcesPass THEN review' = "not_ready" /\ UNCHANGED input
       ELSE IF sealed # "target_reached" \/ Fingerprint # report.hashed \/ cases # report.cases
       THEN review' = "refused" /\ UNCHANGED input
       ELSE review' = "materialized" /\ input' = cases
    /\ UNCHANGED <<time, collectorVars, workerVars, report, slips>>

Materialize(resourcesPass) ==
    /\ review = "audited"
    /\ IF ~ resourcesPass THEN review' = "not_ready" /\ UNCHANGED input
       ELSE IF sealed # "target_reached" \/ Fingerprint # report.hashed \/ cases # report.cases
       THEN review' = "refused" /\ UNCHANGED input
       ELSE review' = "materialized" /\ input' = cases \cap report.clean
    /\ UNCHANGED <<time, collectorVars, workerVars, report, slips>>

-----------------------------------------------------------------------------
ForwardInit ==
    /\ time = Interval /\ spool = <<>> /\ bars = {} /\ healths = <<>> /\ cases = {} /\ caseRejections = {}
    /\ sealed = "none" /\ poller = "polling" /\ parsed = {} /\ closing = "none" /\ broken = "none"
    /\ predictions = {} /\ misses = {} /\ worker = "ready" /\ began \in WorkerStarts /\ batch = Idle
    /\ inferenceFailed = {} /\ review = "none" /\ report = NoReport /\ input = {} /\ slips = 0

ForwardNext ==
    \/ StartPoller \/ (\E lag \in 0..MaxLag, content \in {"final", "revised"} : Poll(lag, content))
    \/ AdmitBar \/ NoteHealthy \/ PollFails \/ Refresh
    \/ (\E state \in {"deadline_reached", "stopped_with_evidence"} : LeaveLoop(state))
    \/ WriteFinal \/ (\E line \in Writing \cup {"none"} : CrashPoller(line)) \/ Tick
    \/ StartWorker \/ LookMissed \/ LookPending \/ LookDies
    \/ (\E fails \in BOOLEAN : PredictNext(fails)) \/ (\E tears \in BOOLEAN : CrashWorker(tears))
    \/ Qualify \/ HashInputs \/ (\E pass \in BOOLEAN : Materialize(pass))

ForwardSpec == ForwardInit /\ [][ForwardNext]_forwardVars

-----------------------------------------------------------------------------
\* The two spools of evidence agree, whatever dies or is restarted: a case and the
\* predictions of its cutoff rest on the same bars, all received before the cutoff and
\* first said by the raw receipt of that time; a cutoff rejected for its context never
\* becomes a case; a worker that resumes never finds its ledger contradicted; and a
\* cutoff recorded as missed is one that was not fully predicted.
EvidenceAgrees ==
    /\ \A c \in cases :
        /\ \A b \in c.context : b.at <= c.cutoff
        /\ \A b \in c.context \cup c.outcome :
            \E i \in DOMAIN spool : spool[i].at = b.at /\ b.end \in DOMAIN spool[i].rows
                                    /\ spool[i].rows[b.end] = b.content
        /\ \A p \in predictions : p.cutoff = c.cutoff => p.context = c.context
        /\ \A r \in caseRejections : r[1] = c.cutoff => r[2] = "missing_one_hour_outcome_bars"
    /\ worker = "dead" => broken = "bars"
    /\ \A m \in misses : {p.model : p \in {q \in predictions : q.cutoff = m[1]}} # Baselines

\* The input rests on what was audited: all bars of its cases are confirmed by the last
\* two closed receipts the audit read, and every audited prediction was dated before its
\* cutoff and has its case.
InputIsClean ==
    LET read == SubSeq(spool, 1, report.raw) IN
    /\ \A b \in UNION {c.context \cup c.outcome : c \in input} :
        \E i, j \in Closed(read, b.end) :
            /\ i < j /\ \A k \in Closed(read, b.end) : k \in {i, j} \/ k < i
            /\ read[i].rows[b.end] = b.content /\ read[j].rows[b.end] = b.content
    /\ input # {} =>
        /\ Cardinality(input) >= MinimumCases
        /\ \A p \in report.predictions : p.at <= p.cutoff /\ \E c \in report.cases : c.cutoff = p.cutoff

\* The evidence chain of the forward root holds: the collector's and the worker's files
\* agree and the evaluation input is drawn from what the audit confirmed.
ForwardEvidenceHolds == EvidenceAgrees /\ InputIsClean
=============================================================================
