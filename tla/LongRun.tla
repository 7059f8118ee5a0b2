------------------------------- MODULE LongRun -------------------------------
(***************************************************************************)
(* One generation of the Phase-4 long run: a collector, a candidate, an     *)
(* outcome linker, a watchdog and an auditor are separate processes that    *)
(* share append-only files.  The coordinator's event ledger decides what    *)
(* became of every case (one prediction opportunity per ordinal).           *)
(*                                                                          *)
(* A coordinator method refreshes its projection from the file and checks   *)
(* its arguments, then takes the file lock, refreshes again, validates and  *)
(* appends with the state it saw before the lock.  Another process may      *)
(* append in between: Invoke is the first half (taken with the read its     *)
(* caller decided by), AppendEvent the second.  record_case_excluded then   *)
(* asks whether the clean minimum is still attainable (Reconsider).         *)
(***************************************************************************)
EXTENDS Naturals, FiniteSets, Sequences

CONSTANTS
    Lateness,       \* prediction_lateness_seconds, in bars
    Grace,          \* case_accounting_grace_seconds
    Lag,            \* context_newest_lag_seconds
    Horizon,        \* outcome_bars
    MaxRestarts,    \* bound on the restarts of each process
    Scenarios       \* frozen contracts, with the roles that run and the faults they meet

Processes == {"collector", "candidate", "linker", "watchdog"}

\* validate_contract: cutoffs strictly ordered, the terminal deadline after the
\* last outcome with a margin, the terminal check not before it.
FrozenContract(c) ==
    /\ c.cutoff \in Seq(Nat) /\ c.terminal \in Nat /\ c.check \in Nat /\ c.faults \in Nat
    /\ c.roles \subseteq Processes /\ c.fallible \subseteq Processes
    /\ \A i, j \in DOMAIN c.cutoff : i < j => c.cutoff[i] < c.cutoff[j]
    /\ \A i \in DOMAIN c.cutoff : c.terminal >= c.cutoff[i] + Horizon + 1
    /\ c.check >= c.terminal
    /\ c.minClean \in 1..Cardinality(DOMAIN c.cutoff)

ASSUME WindowAssumption == {Lateness, Grace, Lag, Horizon, MaxRestarts} \subseteq Nat
ASSUME ScenarioAssumption == \A c \in Scenarios : FrozenContract(c)

VARIABLES
    contract,           \* the preregistration
    now, bars,          \* the clock; the end of the newest admitted final bar
    state, fatals, cases, recovered, \* what the event ledger replays to
    entries, durable, links,         \* predictions, attestations, outcome links
    pc, call, at, clock, \* per process: position, pending call, ordinal; time of the pass
    sourceStatus, candidateStatus, outcomeStatus, watchdogStatus, report,
    saw,                \* what the linker's pass and check_once read before acting
    run,                \* incarnation of each process (its pid)
    faults,             \* faults still to come
    stop,               \* SIGTERM was sent to collector and candidate
    repaired            \* FALSE: the scripts as they are (see LaunchLinker)

events == <<state, fatals, cases, recovered>>
ledgers == <<entries, durable, links>>
statuses == <<sourceStatus, candidateStatus, outcomeStatus, watchdogStatus, report>>
time == <<now, bars>>
control == <<pc, call, at, clock>>
rest == <<saw, run, stop, contract, faults, repaired>>
vars == <<time, events, ledgers, control, statuses, rest>>

-----------------------------------------------------------------------------
(* The coordinator's tables.                                                *)

Transitions == [
    PREREGISTERED |-> {"PREFLIGHT_READY", "FATAL"},
    PREFLIGHT_READY |-> {"WARMUP", "FATAL"},
    WARMUP |-> {"RUNNING", "FATAL"},
    RUNNING |-> {"TERMINALIZING", "FATAL"},
    TERMINALIZING |-> {"DEADLINE_REACHED", "FATAL"},
    DEADLINE_REACHED |-> {"FATAL"},
    FATAL |-> {"TERMINALIZING"}]

Active == {"PREFLIGHT_READY", "WARMUP", "RUNNING"}
CaseStates == {"RUNNING", "TERMINALIZING", "DEADLINE_REACHED"}
TerminalStates == {"DEADLINE_REACHED", "TERMINALIZING", "FATAL"}

\* The status files before their first snapshot (the collector publishes at once).
NoSource == [st |-> "RUNNING", run |-> 0, bars |-> 0]
NoCandidate == [st |-> "none", run |-> 0, preds |-> 0, fatals |-> 0, excluded |-> 0]
NoOutcome == [st |-> "none", run |-> 0, sci |-> "none", links |-> 0, preds |-> 0]
NoWatchdog == [decision |-> "none", sci |-> "none", fatals |-> 0, terminal |-> FALSE]

Ordinals == DOMAIN contract.cutoff
Cutoff == contract.cutoff
Terminal == contract.terminal
TerminalCheck == contract.check
MinClean == contract.minClean

Latched == fatals > 0
Scientific == IF Latched THEN "FATAL" ELSE state
Deadline(o) == Cutoff[o] + Lateness
CasesIn(s) == {o \in Ordinals : cases[o].st = s}
Case(s, p) == [st |-> s, pid |-> p]

\* accounting().feasible: pending cases and opportunities not yet accounted for
\* may still become clean.
Feasible == Cardinality(Ordinals \ CasesIn("excluded")) >= MinClean

-----------------------------------------------------------------------------
(* A coordinator call of process p: the label on success and on a raise.    *)

NoCall == [op |-> "none", to |-> "none", o |-> 1, pid |-> FALSE, seen |-> "none",
           ok |-> "dead", raise |-> "dead"]

\* The method returns without appending: what it asks for is already recorded.
AlreadyRecorded(c) ==
    \/ c.op = "pending" /\ cases[c.o] = Case("pending", TRUE)
    \/ c.op = "excluded" /\ ~c.pid /\ cases[c.o] = Case("excluded", FALSE)
    \/ c.op = "clean" /\ cases[c.o] = Case("clean", TRUE)
    \/ c.op = "fail" /\ Latched
    \/ c.op = "transition" /\ c.to = state /\ ~(Latched /\ c.to \in Active)

\* The method raises on the projection it has just refreshed.  An exclusion that
\* names its prediction is refused when the case is excluded already.
RefusedAtOnce(c) ==
    \/ c.op = "pending" /\ cases[c.o].st # "none"
    \/ c.op = "excluded" /\ cases[c.o].st # "none"
                         /\ ~(cases[c.o] = Case("pending", TRUE) /\ c.pid)
    \/ c.op = "clean" /\ cases[c.o] # Case("pending", TRUE)
    \/ c.op = "transition" /\ ((Latched /\ c.to \in Active) \/ c.to \notin Transitions[state])
    \/ c.op = "recovery" /\ Latched
    \/ c.op = "check" /\ (c.to = "FATAL") # Latched

Goto(p, label) == pc' = [pc EXCEPT ![p] = label] /\ UNCHANGED call
Return(p, label) == pc' = [pc EXCEPT ![p] = label] /\ call' = [call EXCEPT ![p] = NoCall]

Invoke(p, op, to, o, pid, ok, raise) ==
    LET c == [op |-> op, to |-> to, o |-> o, pid |-> pid, ok |-> ok, raise |-> raise,
              seen |-> IF op = "check" THEN Scientific ELSE state] IN
    IF AlreadyRecorded(c) THEN Return(p, ok)
    ELSE IF RefusedAtOnce(c) THEN Return(p, raise)
    ELSE pc' = [pc EXCEPT ![p] = "lock"] /\ call' = [call EXCEPT ![p] = c]

Transition(p, to, ok) == Invoke(p, "transition", to, 1, FALSE, ok, "dead")
Fail(p, ok) == Invoke(p, "fail", "FATAL", 1, FALSE, ok, "dead")
Account(p, op, o, pid, ok, raise) == Invoke(p, op, "none", o, pid, ok, raise)

EventState(c) == IF c.op \in {"transition", "fail"} THEN c.to ELSE c.seen

\* A validation that forgets the fatal latch (mutant of Admissible).
AdmissibleAfterFatal(c) ==
    /\ EventState(c) = state \/ EventState(c) \in Transitions[state]
    /\ c.op \in {"pending", "excluded", "clean"} => cases[c.o].st \in {"none", "pending"}

\* _validate_append under the lock, with the event state chosen before it.
Admissible(c) ==
    /\ EventState(c) = state \/ EventState(c) \in Transitions[state]
    /\ ~(Latched /\ EventState(c) \in Active)
    /\ c.op \in {"pending", "excluded", "clean"} =>
          /\ ~Latched
          /\ state \in CaseStates
          /\ \/ cases[c.o].st = "none"
             \/ c.op # "pending" /\ cases[c.o] = Case("pending", c.pid)
    /\ c.op = "recovery" => state \in {"WARMUP", "RUNNING"} /\ c.to \notin recovered
    /\ c.op = "check" => EventState(c) = state

Apply(c) ==
    /\ state' = EventState(c)
    /\ fatals' = IF c.op = "fail" THEN fatals + 1 ELSE fatals
    /\ cases' = IF c.op \in {"pending", "excluded", "clean"}
                THEN [cases EXCEPT ![c.o] = Case(c.op, c.pid)] ELSE cases
    /\ recovered' = IF c.op = "recovery" THEN recovered \union {c.to} ELSE recovered

AppendEvent(p) ==
    /\ pc[p] = "lock"
    /\ LET c == call[p] IN
       IF Admissible(c)
       THEN Apply(c) /\ IF c.op = "excluded" THEN Goto(p, "tail") ELSE Return(p, c.ok)
       ELSE UNCHANGED events /\ Return(p, c.raise)
    /\ UNCHANGED <<time, ledgers, at, clock, statuses, rest>>

\* An exclusion that never asks (mutant of Reconsider).
ReconsiderNever(p) ==
    /\ pc[p] = "tail"
    /\ Return(p, call[p].ok)
    /\ UNCHANGED <<time, events, ledgers, at, clock, statuses, rest>>

Reconsider(p) ==
    /\ pc[p] = "tail"
    /\ IF Feasible THEN Return(p, call[p].ok) ELSE Fail(p, call[p].ok)
    /\ UNCHANGED <<time, events, ledgers, at, clock, statuses, rest>>

Alive(p) == pc[p] \notin {"off", "dead", "done"}

\* The ordinal a walk looks at: the next one after an accounting call returned.
Walks(p) == pc[p] \in {"case", "next"}
Position(p) == IF pc[p] = "next" THEN at[p] + 1 ELSE at[p]
Over(p) == Walks(p) /\ Position(p) \notin Ordinals

Conflict(p) ==
    /\ pc[p] = "conflict"
    /\ Fail(p, "failed")
    /\ UNCHANGED <<time, events, ledgers, at, clock, statuses, rest>>

-----------------------------------------------------------------------------
(* The candidate.  A pass reads the clock once and walks the ordinals.      *)

CandidateStarts ==
    /\ \/ pc.candidate = "boot" /\ state = "PREREGISTERED"
          /\ Transition("candidate", "PREFLIGHT_READY", "ready")
       \/ pc.candidate = "ready" /\ Transition("candidate", "WARMUP", "boot")
       \/ pc.candidate = "boot" /\ state # "PREREGISTERED"
          /\ Goto("candidate", IF Scientific = "WARMUP" THEN "loop" ELSE "dead")
    /\ UNCHANGED <<time, events, ledgers, at, clock, statuses, rest>>

SourceUnusable ==
    sourceStatus.st # "RUNNING" \/ sourceStatus.run # run.collector \/ ~Alive("collector")

CandidateSnapshot(s) == [st |-> s, run |-> run.candidate, preds |-> Cardinality(entries),
                         fatals |-> fatals, excluded |-> Cardinality(CasesIn("excluded"))]

\* A pass reads the clock, ends the warm-up when it is time ("warm" is where it
\* goes on after that) and reads the source's status.
CandidatePass ==
    /\ pc.candidate \in {"loop", "warm"}
    /\ clock' = IF pc.candidate = "loop" THEN now ELSE clock
    /\ at' = [at EXCEPT !.candidate = 1]
    /\ IF pc.candidate = "loop" /\ stop
       THEN IF Latched THEN Goto("candidate", "kept") ELSE Fail("candidate", "stopped")
       ELSE IF pc.candidate = "loop" /\ now >= Terminal THEN Goto("candidate", "end")
       ELSE IF pc.candidate = "loop" /\ now >= Cutoff[1] /\ state = "WARMUP"
       THEN Transition("candidate", "RUNNING", "warm")
       ELSE IF SourceUnusable THEN Fail("candidate", "failed")
       ELSE Goto("candidate", "case")
    /\ UNCHANGED <<time, events, ledgers, statuses, rest>>

\* An attested prediction is pending, or excluded when it was attested too late.
AccountAttested(o, attested, raise) ==
    Account("candidate", IF attested > Deadline(o) THEN "excluded" ELSE "pending", o, TRUE, "next", raise)

CandidateCase ==
    /\ Walks("candidate") /\ ~Over("candidate") /\ ~Latched
    /\ at' = [at EXCEPT !.candidate = Position("candidate")]
    /\ LET o == Position("candidate") IN
       IF o \in entries THEN
            IF cases[o].st # "none" THEN Goto("candidate", IF cases[o].pid THEN "next" ELSE "dead")
            ELSE AccountAttested(o, durable[o], "dead")
       ELSE IF cases[o].st \in {"pending", "clean"} THEN Goto("candidate", "conflict")
       ELSE IF cases[o].st = "excluded" \/ clock < Cutoff[o] THEN Goto("candidate", "next")
       ELSE IF clock >= Deadline(o)
            THEN Account("candidate", "excluded", o, FALSE, "next", "dead")
       ELSE Goto("candidate", IF bars + Lag < Cutoff[o] THEN "next" ELSE "infer")
    /\ UNCHANGED <<time, events, ledgers, clock, statuses, rest>>

\* An inference that ends in time is appended; a late one, or one whose worker
\* timed out, excludes its case; any other failure is fatal.
Infer ==
    /\ pc.candidate = "infer"
    /\ LET o == at.candidate IN
       \/ now <= Deadline(o) /\ entries' = entries \union {o} /\ Goto("candidate", "attest")
          /\ UNCHANGED faults
       \/ now > Deadline(o) /\ Account("candidate", "excluded", o, FALSE, "next", "conflict")
          /\ UNCHANGED <<entries, faults>>
       \/ "candidate" \in contract.fallible /\ faults > 0 /\ faults' = faults - 1 /\ UNCHANGED entries
          /\ \/ Account("candidate", "excluded", o, FALSE, "next", "conflict")
             \/ Fail("candidate", "failed")
    /\ UNCHANGED <<time, events, durable, links, at, clock, statuses, saw, run, stop, contract, repaired>>

\* An attestation is written once and keeps the time at which it was written.
Attested(predictions) ==
    [o \in DOMAIN durable \union predictions |-> IF o \in DOMAIN durable THEN durable[o] ELSE now]

AttestDurability ==
    /\ pc.candidate = "attest"
    /\ durable' = Attested({at.candidate})
    /\ AccountAttested(at.candidate, now, "conflict")
    /\ UNCHANGED <<time, events, entries, links, at, clock, statuses, rest>>

\* The end of a pass: the walk is over, or the generation has become fatal.
CandidatePublishes ==
    /\ pc.candidate = "failed" \/ Over("candidate") \/ (Walks("candidate") /\ Latched)
    /\ candidateStatus' =
         CandidateSnapshot(IF ~Latched /\ clock >= Cutoff[1] THEN "RUNNING" ELSE Scientific)
    /\ Goto("candidate", IF Latched THEN "kept" ELSE "loop")
    /\ clock' = 0 /\ at' = [at EXCEPT !.candidate = 1]
    /\ UNCHANGED <<time, events, ledgers, sourceStatus, outcomeStatus, watchdogStatus, report, rest>>

CandidateEnds ==
    /\ \/ pc.candidate = "end" /\ Latched /\ Goto("candidate", "kept")
       \/ pc.candidate = "end" /\ ~Latched /\ state # "TERMINALIZING"
          /\ Transition("candidate", "TERMINALIZING", "half")
       \/ pc.candidate = "end" /\ ~Latched /\ state = "TERMINALIZING"
          /\ Transition("candidate", "DEADLINE_REACHED", "final")
       \/ pc.candidate = "half" /\ Transition("candidate", "DEADLINE_REACHED", "final")
    /\ UNCHANGED <<time, events, ledgers, at, clock, statuses, rest>>

CandidateFinishes ==
    /\ pc.candidate \in {"final", "stopped", "kept"}
    /\ candidateStatus' = CandidateSnapshot(
         IF pc.candidate = "final" THEN "DEADLINE_REACHED"
         ELSE IF pc.candidate = "stopped" THEN "FATAL"
         ELSE IF candidateStatus.st = "none" THEN "WARMUP" ELSE candidateStatus.st)
    /\ Goto("candidate", "done")
    /\ UNCHANGED <<time, events, ledgers, at, clock, sourceStatus, outcomeStatus, watchdogStatus,
                   report, rest>>

\* Resume after a crash: refused after a fatal status, or when append-only
\* evidence exists without a status (the manifest is written on entering the
\* loop); otherwise one recorded recovery per component and generation.
CandidateRestarts ==
    /\ pc.candidate = "dead" /\ run.candidate < MaxRestarts
    /\ IF candidateStatus.st = "none"
       THEN state \in {"PREREGISTERED", "PREFLIGHT_READY"} /\ Goto("candidate", "fresh")
       ELSE /\ candidateStatus.st \in {"WARMUP", "RUNNING"} /\ repaired
            /\ Invoke("candidate", "recovery", "candidate", 1, FALSE, "fresh", "dead")
    /\ run' = [run EXCEPT !.candidate = @ + 1]
    /\ UNCHANGED <<time, events, ledgers, at, clock, statuses, saw, stop, contract, faults, repaired>>

\* recover_pending_durability attests what lacks an attestation, now.
RecoverDurability ==
    /\ pc.candidate = "fresh"
    /\ durable' = Attested(entries)
    /\ Goto("candidate", IF candidateStatus.st = "none" THEN "boot"
                         ELSE IF Scientific = candidateStatus.st THEN "loop" ELSE "dead")
    /\ UNCHANGED <<time, events, entries, links, at, clock, statuses, rest>>

-----------------------------------------------------------------------------
(* The outcome linker.  A pass works on the attestations, links and bars it *)
(* read when it began.                                                      *)

OutcomeSnapshot(s) == [st |-> s, run |-> run.linker, sci |-> Scientific, links |-> Cardinality(links),
                       preds |-> Cardinality(entries)]

\* The launcher starts the linker when the candidate has published.  Its command
\* carries --outcome-root, which the linker's parser refuses: the launcher then
\* terminates what it has started.  repaired stands for a generation whose
\* scripts agree on that option and on the candidate's published code hash.
LaunchLinker ==
    /\ pc.linker = "off" /\ "linker" \in contract.roles /\ candidateStatus.st # "none"
    /\ Goto("linker", IF repaired THEN "pass" ELSE "dead")
    /\ stop' = ~repaired
    /\ UNCHANGED <<time, events, ledgers, at, clock, statuses, saw, run, contract, faults, repaired>>

LinkerPass ==
    /\ pc.linker = "pass"
    /\ saw' = [saw EXCEPT !.attested = DOMAIN durable, !.bars = bars]
    /\ Goto("linker", IF now >= Terminal THEN "last" ELSE IF Latched THEN "failed" ELSE "case")
    /\ UNCHANGED <<time, events, ledgers, at, clock, statuses, run, stop, contract, faults, repaired>>

\* A linker that never asks whether the attestation was late (mutant).
LinkerCaseIgnoresLateness ==
    /\ Walks("linker") /\ ~Over("linker")
    /\ at' = [at EXCEPT !.linker = Position("linker")]
    /\ LET o == Position("linker") IN
       IF o \notin saw.attested \/ cases[o].st = "excluded" \/ saw.bars < Cutoff[o] + Horizon
       THEN Goto("linker", "next")
       ELSE IF cases[o].st = "none" THEN Account("linker", "pending", o, TRUE, "link", "conflict")
       ELSE Goto("linker", "link")
    /\ UNCHANGED <<time, events, ledgers, clock, statuses, rest>>

LinkerCase ==
    /\ Walks("linker") /\ ~Over("linker")
    /\ at' = [at EXCEPT !.linker = Position("linker")]
    /\ LET o == Position("linker") IN
       IF o \notin saw.attested THEN Goto("linker", "next")
       ELSE IF durable[o] > Deadline(o) THEN
            IF cases[o].st = "none" THEN Account("linker", "excluded", o, TRUE, "late", "dead")
            ELSE Goto("linker", "late")
       ELSE IF cases[o].st = "excluded" THEN Goto("linker", IF cases[o].pid THEN "next" ELSE "conflict")
       ELSE IF o \in links THEN
            IF cases[o].st = "none" THEN Account("linker", "pending", o, TRUE, "clean", "conflict")
            ELSE Goto("linker", "clean")
       ELSE IF saw.bars < Cutoff[o] + Horizon THEN Goto("linker", "next")
       ELSE IF cases[o].st = "none" THEN Account("linker", "pending", o, TRUE, "link", "conflict")
       ELSE Goto("linker", IF cases[o] = Case("pending", TRUE) THEN "link" ELSE "conflict")
    /\ UNCHANGED <<time, events, ledgers, clock, statuses, rest>>

LinkerLate ==
    /\ pc.linker = "late"
    /\ LET o == at.linker IN
       Goto("linker", IF Latched THEN "failed"
                      ELSE IF cases[o] = Case("excluded", TRUE) /\ o \notin links THEN "next"
                      ELSE "conflict")
    /\ UNCHANGED <<time, events, ledgers, at, clock, statuses, rest>>


AppendLink ==
    /\ pc.linker = "link"
    /\ LET o == at.linker IN
       IF now > Terminal
       THEN Account("linker", "excluded", o, TRUE, "next", "conflict") /\ UNCHANGED links
       ELSE links' = links \union {o} /\ Goto("linker", "clean")
    /\ UNCHANGED <<time, events, entries, durable, at, clock, statuses, rest>>

RecordClean ==
    /\ pc.linker = "clean"
    /\ Account("linker", "clean", at.linker, TRUE, "next", "conflict")
    /\ UNCHANGED <<time, events, ledgers, at, clock, statuses, rest>>

\* The status of a pass, or the last one: of the deadline, or of a failure.
LinkerPublishes ==
    /\ pc.linker \in {"last", "failed"} \/ Over("linker")
    /\ outcomeStatus' = OutcomeSnapshot(IF pc.linker = "last" THEN "DEADLINE_REACHED"
                                        ELSE IF pc.linker = "failed" THEN "FATAL" ELSE "RUNNING")
    /\ Goto("linker", IF Over("linker") THEN "pass" ELSE "done")
    /\ saw' = [saw EXCEPT !.attested = {}, !.bars = 0] /\ at' = [at EXCEPT !.linker = 1]
    /\ UNCHANGED <<time, events, ledgers, clock, sourceStatus, candidateStatus, watchdogStatus,
                   report, run, stop, contract, faults, repaired>>

LinkerRestarts ==
    /\ pc.linker = "dead" /\ repaired /\ run.linker < MaxRestarts
    /\ outcomeStatus.st = "RUNNING" \/ (outcomeStatus.st = "none" /\ links = {})
    /\ Goto("linker", "pass")
    /\ run' = [run EXCEPT !.linker = @ + 1] /\ at' = [at EXCEPT !.linker = 1]
    /\ UNCHANGED <<time, events, ledgers, clock, statuses, saw, stop, contract, faults, repaired>>

-----------------------------------------------------------------------------
(* The collector.  LongRunSource details what one fetch does.               *)

SourceSnapshot(s, end) == [st |-> s, run |-> run.collector, bars |-> end]

\* A poll that admits nothing new, or fails in transport, changes nothing here.
CollectorPolls ==
    /\ pc.collector = "poll" /\ ~stop /\ now < Terminal /\ bars < now
    /\ bars' = now /\ sourceStatus' = SourceSnapshot("RUNNING", now)
    /\ UNCHANGED <<now, events, ledgers, control, candidateStatus, outcomeStatus, watchdogStatus,
                   report, rest>>

\* SIGTERM, or a revision of an admitted bar, is fatal.
CollectorFails ==
    /\ pc.collector = "poll"
    /\ \/ stop /\ UNCHANGED faults
       \/ ~stop /\ now < Terminal /\ "collector" \in contract.fallible /\ faults > 0 /\ faults' = faults - 1
    /\ Fail("collector", "failed")
    /\ UNCHANGED <<time, events, ledgers, at, clock, statuses, saw, run, stop, contract, repaired>>

CollectorFinishes ==
    /\ pc.collector = "failed" \/ (pc.collector = "poll" /\ ~stop /\ now >= Terminal)
    /\ sourceStatus' = SourceSnapshot(IF pc.collector = "failed" THEN "FATAL" ELSE "DEADLINE_REACHED", bars)
    /\ Goto("collector", "done")
    /\ UNCHANGED <<time, events, ledgers, at, clock, candidateStatus, outcomeStatus, watchdogStatus,
                   report, rest>>

CollectorRestarts ==
    /\ \/ /\ pc.collector = "dead" /\ run.collector < MaxRestarts /\ sourceStatus.st = "RUNNING"
          /\ Invoke("collector", "recovery", "collector", 1, FALSE, "fresh", "dead")
          /\ run' = [run EXCEPT !.collector = @ + 1] /\ UNCHANGED sourceStatus
       \/ /\ pc.collector = "fresh"
          /\ sourceStatus' = SourceSnapshot("RUNNING", bars)
          /\ Goto("collector", "poll") /\ UNCHANGED run
    /\ UNCHANGED <<time, events, ledgers, at, clock, candidateStatus, outcomeStatus, watchdogStatus,
                   report, saw, stop, contract, faults, repaired>>

-----------------------------------------------------------------------------
(* The watchdog: check_once reads the status files, then the ledgers.       *)

WatchdogStarts ==
    /\ pc.watchdog = "off" /\ "watchdog" \in contract.roles /\ outcomeStatus.st # "none"
    /\ Goto("watchdog", "look")
    /\ UNCHANGED <<time, events, ledgers, at, clock, statuses, rest>>

WatchdogReads ==
    /\ pc.watchdog = "look"
    /\ saw' = [saw EXCEPT !.source = sourceStatus, !.candidate = candidateStatus,
                          !.outcome = outcomeStatus]
    /\ Goto("watchdog", "judge")
    /\ UNCHANGED <<time, events, ledgers, at, clock, statuses, run, stop, contract, faults, repaired>>

\* _check_process, and the state a component reports.
ProcessReason(p, s) ==
    \/ s.st = "FATAL"
    \/ s.st \in TerminalStates \ {"FATAL"} /\ now < Terminal
    \/ s.st \notin TerminalStates /\ now < Terminal /\ ~(Alive(p) /\ s.run = run[p])

SnapshotMismatch ==
    \/ saw.source.bars # bars
    \/ saw.candidate.preds # Cardinality(entries)
    \/ saw.candidate.excluded # Cardinality(CasesIn("excluded"))
    \/ saw.outcome.links # Cardinality(links)

Unaccounted(o) ==
    /\ now >= Deadline(o) + Grace
    /\ IF o \in entries THEN ~cases[o].pid ELSE cases[o].st # "excluded"

FatalReason ==
    \/ ProcessReason("collector", saw.source)
    \/ ProcessReason("candidate", saw.candidate)
    \/ ProcessReason("linker", saw.outcome)
    \/ SnapshotMismatch
    \/ \E o \in Ordinals : Unaccounted(o)
    \/ ~Feasible \/ Latched \/ ~repaired
    \/ run.watchdog > 0 /\ watchdogStatus.decision # "none"

\* The decision is read afresh; a refused record_watchdog_check publishes a
\* failure without counts.
RecordCheck ==
    Invoke("watchdog", "check", IF Latched THEN "FATAL" ELSE "healthy", 1, FALSE,
           IF Latched THEN "failed" ELSE "tell", "blind")

\* A prediction without its attestation fails the snapshot's bounded retries.
Judge ==
    /\ \/ pc.watchdog = "judge" /\ ~Latched
          /\ IF entries # DOMAIN durable \/ FatalReason THEN Fail("watchdog", "decide") ELSE RecordCheck
       \/ pc.watchdog = "judge" /\ Latched /\ RecordCheck
       \/ pc.watchdog = "decide" /\ RecordCheck
    /\ saw' = [saw EXCEPT !.source = NoSource, !.candidate = NoCandidate, !.outcome = NoOutcome]
    /\ UNCHANGED <<time, events, ledgers, at, clock, statuses, run, stop, contract, faults, repaired>>

WatchdogPublishes ==
    /\ pc.watchdog \in {"tell", "failed", "blind"}
    /\ LET fatal == pc.watchdog # "tell"
           last == ~fatal /\ now >= TerminalCheck IN
       /\ watchdogStatus' = [decision |-> IF fatal THEN "FATAL" ELSE "healthy",
                             sci |-> IF pc.watchdog = "blind" THEN "FATAL" ELSE Scientific,
                             fatals |-> IF pc.watchdog = "blind" THEN 0 ELSE fatals,
                             terminal |-> last]
       /\ Goto("watchdog", IF fatal \/ last THEN "done" ELSE "look")
    /\ UNCHANGED <<time, events, ledgers, at, clock, sourceStatus, candidateStatus, outcomeStatus,
                   report, rest>>

WatchdogRestarts ==
    /\ pc.watchdog = "dead" /\ run.watchdog < MaxRestarts
    /\ Goto("watchdog", "look")
    /\ run' = [run EXCEPT !.watchdog = @ + 1]
    /\ UNCHANGED <<time, events, ledgers, at, clock, statuses, saw, stop, contract, faults, repaired>>

-----------------------------------------------------------------------------
(* The terminal audit, written once.                                        *)

CleanAtAudit == {o \in entries : /\ cases[o] = Case("clean", TRUE)
                                   /\ o \in links /\ durable[o] <= Deadline(o)}

CaseIssue(o) ==
    \/ cases[o].st = "none"
    \/ cases[o].st = "excluded" /\ (cases[o].pid # (o \in entries) \/ o \in links)
    \/ cases[o].st = "pending" /\ (o \notin entries \/ o \in links)
    \/ cases[o].st = "clean" /\ (o \notin entries \/ o \notin links)
    \/ o \in entries /\ (o \notin DOMAIN durable
                           \/ (durable[o] > Deadline(o) /\ cases[o].st # "excluded"))

StatusIssue ==
    \/ {sourceStatus.st, candidateStatus.st, outcomeStatus.st, Scientific} \ TerminalStates # {}
    \/ sourceStatus.bars # bars
    \/ candidateStatus.preds # Cardinality(entries) \/ candidateStatus.fatals # fatals
    \/ candidateStatus.excluded # Cardinality(CasesIn("excluded"))
    \/ outcomeStatus.links # Cardinality(links) \/ outcomeStatus.preds # Cardinality(entries)
    \/ outcomeStatus.sci # Scientific
    \/ watchdogStatus # [decision |-> "healthy", sci |-> Scientific, fatals |-> fatals, terminal |-> TRUE]


Certifiable ==
    /\ repaired /\ ~Latched /\ ~StatusIssue
    /\ ~\E o \in Ordinals : CaseIssue(o)
    /\ Cardinality(CleanAtAudit) >= MinClean

Audit ==
    /\ now >= TerminalCheck /\ report = "none"
    /\ report' = IF Certifiable THEN "certified" ELSE "refused"
    /\ UNCHANGED <<time, events, ledgers, control, sourceStatus, candidateStatus, outcomeStatus,
                   watchdogStatus, rest>>

-----------------------------------------------------------------------------
\* The clock moves in units of a bar (five minutes): a process can be that slow
\* where it sleeps, infers, waits for an fsync or for the outcome, not between the
\* two halves of a coordinator call.
Dwellings == {"off", "boot", "loop", "infer", "attest", "pass", "link", "poll", "look", "done", "dead"}

Tick ==
    /\ now < TerminalCheck
    /\ \A p \in Processes : pc[p] \in Dwellings
    /\ now' = now + 1
    /\ IF bars < now /\ pc.collector = "poll" /\ ~stop /\ now < Terminal
       THEN "collector" \in contract.fallible /\ faults > 0 /\ faults' = faults - 1 \* a poll that failed in transport
       ELSE UNCHANGED faults
    /\ UNCHANGED <<bars, events, ledgers, control, statuses, saw, run, stop, contract, repaired>>

Crash(p) ==
    /\ Alive(p) /\ p \in contract.fallible /\ faults > 0
    /\ faults' = faults - 1
    /\ pc' = [pc EXCEPT ![p] = "dead"]
    /\ call' = [call EXCEPT ![p] = NoCall]
    /\ saw' = [source |-> NoSource, candidate |-> NoCandidate, outcome |-> NoOutcome,
               attested |-> IF p = "linker" THEN {} ELSE saw.attested,
               bars |-> IF p = "linker" THEN 0 ELSE saw.bars]
    /\ UNCHANGED <<time, events, ledgers, at, clock, statuses, run, stop, contract, repaired>>

Init ==
    /\ contract \in Scenarios /\ faults = contract.faults
    /\ now = 0 /\ bars = 0
    /\ state = "PREREGISTERED" /\ fatals = 0 /\ recovered = {}
    /\ cases = [o \in Ordinals |-> Case("none", FALSE)]
    /\ entries = {} /\ durable = [o \in {} |-> 0] /\ links = {}
    /\ pc = [collector |-> "poll", candidate |-> "boot", linker |-> "off", watchdog |-> "off"]
    /\ call = [p \in Processes |-> NoCall]
    /\ at = [candidate |-> 1, linker |-> 1] /\ clock = 0
    /\ sourceStatus = NoSource /\ candidateStatus = NoCandidate
    /\ outcomeStatus = NoOutcome /\ watchdogStatus = NoWatchdog /\ report = "none"
    /\ saw = [source |-> NoSource, candidate |-> NoCandidate, outcome |-> NoOutcome,
              attested |-> {}, bars |-> 0]
    /\ run = [p \in Processes |-> 0]
    /\ stop = FALSE /\ repaired \in BOOLEAN

CoordinatorStep(p) == AppendEvent(p) \/ Reconsider(p)

CandidateStep ==
    \/ CandidateStarts \/ CandidatePass \/ CandidateCase \/ Infer \/ AttestDurability
    \/ Conflict("candidate") \/ CandidatePublishes \/ CandidateEnds \/ CandidateFinishes
    \/ CandidateRestarts \/ RecoverDurability

LinkerStep ==
    \/ LaunchLinker \/ LinkerPass \/ LinkerCase \/ LinkerLate \/ AppendLink \/ RecordClean
    \/ Conflict("linker") \/ LinkerPublishes \/ LinkerRestarts

CollectorStep ==
    \/ CollectorPolls \/ CollectorFails \/ CollectorFinishes \/ CollectorRestarts

WatchdogStep ==
    \/ WatchdogStarts \/ WatchdogReads \/ Judge \/ WatchdogPublishes \/ WatchdogRestarts

Next ==
    \/ \E p \in Processes : CoordinatorStep(p) \/ Crash(p)
    \/ CandidateStep \/ LinkerStep \/ CollectorStep \/ WatchdogStep
    \/ Audit \/ Tick

Spec == Init /\ [][Next]_vars

-----------------------------------------------------------------------------
Labels == {"off", "boot", "ready", "fresh", "loop", "warm", "case", "next", "infer", "attest",
           "conflict", "failed", "end", "half", "final", "stopped", "kept", "done", "dead", "lock",
           "tail", "pass", "late", "link", "clean", "last", "poll", "look", "judge", "decide",
           "tell", "blind"}

TypeOK ==
    /\ now \in 0..TerminalCheck /\ bars \in 0..now
    /\ state \in DOMAIN Transitions /\ fatals \in 0..Cardinality(Processes)
    /\ cases \in [Ordinals -> [st : {"none", "pending", "excluded", "clean"}, pid : BOOLEAN]]
    /\ recovered \subseteq {"collector", "candidate"}
    /\ entries \subseteq Ordinals /\ DOMAIN durable \subseteq entries /\ links \subseteq entries
    /\ pc \in [Processes -> Labels]
    /\ report \in {"none", "certified", "refused"}
    /\ stop \in BOOLEAN /\ contract \in Scenarios /\ faults \in 0..contract.faults

\* A clean case has a prediction attested durable by its deadline and an outcome
\* link, whichever of candidate, linker and recovery got there first.
NoLateClean ==
    \A o \in CasesIn("clean") :
        o \in DOMAIN durable /\ durable[o] <= Deadline(o) /\ o \in links

\* A linked prediction is never accounted for as excluded: both the candidate and
\* the linker decide by the same attestation, and no row undoes a link.
LinkedIsNotExcluded == \A o \in links : cases[o].st \in {"pending", "clean"}

\* What the cases say is what predictions, attestations and links say, whoever of
\* candidate, linker and recovery wrote it.
CasesTellTheTruth == NoLateClean /\ LinkedIsNotExcluded

\* Once a fatal row exists no case changes any more, although both writers
\* decided what to append before they took the lock.
FatalIsFinal == [][Latched => cases' = cases]_vars

\* A generation that can no longer reach its clean minimum is latched fatal as
\* soon as the call that excluded the case returns (a crash inside it leaves that
\* to the watchdog).
InfeasibleIsFatal ==
    \/ Feasible \/ Latched
    \/ \E p \in Processes : pc[p] \in {"tail", "lock", "dead"} \/ run[p] > 0

\* A certified report stays true: no row that could contradict it is written
\* after the audit.
CertifiedStands == [][report = "certified" => events' = events]_vars

\* The two verdicts on a generation, fatal and certified, are final.
VerdictsAreFinal == FatalIsFinal /\ CertifiedStands

\* What the watchdog script says of a race between two commits: only a persistent
\* mismatch condemns a generation, and a rejection is a case-level loss.
CondemnedOnlyForCause == repaired /\ Latched => ~Feasible \/ faults < contract.faults
=============================================================================
