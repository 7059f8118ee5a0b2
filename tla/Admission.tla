----------------------------- MODULE Admission ------------------------------
(***************************************************************************)
(* What may leave paper trading: the phase gates (PhaseGateRegistry), the  *)
(* models promoted under them (ModelInventory) and the live control plane  *)
(* (LiveControlPlane), in one process over one append-only ledger.         *)
(*                                                                         *)
(* Time matters: evidence and authorizations expire. A gate record keeps   *)
(* the first instant at which some of its required evidence is no longer   *)
(* valid. Any ledger append may raise, and the process may die anywhere.   *)
(***************************************************************************)
EXTENDS Naturals, Sequences, SequencesExt

CONSTANTS
    LastPhase,   \* the live phase (10 in the code)
    SoakPhase,   \* the phase evaluate_readiness asks for (7)
    ModelPhase,  \* the phase promotions to paper and champion ask for (4)
    Auths,       \* live authorizations
    AuthExpiry,  \* when each expires
    Expiries,    \* instants at which the evidence of a gate record can expire
    MaxTime,     \* bound on the clock
    MaxGates,    \* bound on gate records
    MaxModels,   \* bound on the model's rows
    MaxLive,     \* bound on the live plane's rows
    MaxFailures  \* bound on ledger appends that raise

ASSUME AdmissionAssumption ==
    /\ {LastPhase, SoakPhase, ModelPhase, MaxTime, MaxGates, MaxModels, MaxLive,
        MaxFailures} \cup Expiries \subseteq Nat
    /\ ModelPhase <= SoakPhase /\ SoakPhase <= LastPhase
    /\ AuthExpiry \in [Auths -> Nat]
    /\ "none" \notin Auths

Phases == 0..LastPhase
\* blocked: pending or failed, which is_admitted treats alike.
Decisions == {"passed", "blocked"}
\* The order of promotion; register also admits active_read and retired.
Lifecycle == <<"challenger", "shadow", "paper", "champion">>
LiveStates == {"paper", "ready", "active", "rolled_back"}

VARIABLES
    now,
    gateLog,  \* phase_gate_recorded rows
    records,  \* PhaseGateRegistry._records: the latest of each phase
    modelLog, \* rows of one model
    model,    \* ModelInventory._models of that model
    liveLog,  \* live_authorization_recorded and live_state_changed rows
    live,     \* LiveControlPlane.authorization and ._status
    proc,     \* "up", or "refused": a hydration raised
    failures,
    lost      \* components whose memory an append that raised left ahead

gates == <<gateLog, records>>
models == <<modelLog, model>>
plane == <<liveLog, live>>
vars == <<now, gates, models, plane, proc, failures, lost>>

-----------------------------------------------------------------------------
(* The phase gates.                                                        *)

GateRecords == [phase : Phases, decision : {"passed"}, expires : Expiries]
               \cup [phase : Phases, decision : {"blocked"}, expires : {0}]
NoRecord == [phase |-> 0, decision |-> "none", expires |-> 0]

\* The rows of a phase, and what a replay of all of them leaves.
RowsOf(log, p) == {i \in DOMAIN log : log[i].phase = p}
Project(log) ==
    [p \in Phases |-> IF RowsOf(log, p) = {} THEN NoRecord ELSE log[Max(RowsOf(log, p))]]

ValidAt(r, t) == r.decision = "passed" /\ t < r.expires

\* A phase is admitted when its latest record and those of all earlier phases
\* passed and are still supported: each record's prerequisite is the phase
\* before it.
IsAdmitted(recs, phase, t) == \A p \in 0..phase : ValidAt(recs[p], t)

\* _append_local refuses a pass whose prerequisite is not admitted at the time
\* of the call, also when the call is a replay.
Acceptable(recs, r, t) ==
    r.decision = "passed" /\ r.phase > 0 => IsAdmitted(recs, r.phase - 1, t)

GatesHydrate(log, t) ==
    \A i \in DOMAIN log : Acceptable(Project(SubSeq(log, 1, i - 1)), log[i], t)

\* A ledger append that returns, or raises after memory has changed.
Written(log, row, component) ==
    \/ log' = Append(log, row) /\ UNCHANGED <<failures, lost>>
    \/ /\ failures < MaxFailures /\ failures' = failures + 1
       /\ lost' = lost \cup {component}
       /\ UNCHANGED log

RecordGateOutOfOrder ==
    /\ proc = "up"
    /\ Len(gateLog) < MaxGates
    /\ \E r \in GateRecords :
          /\ records' = [records EXCEPT ![r.phase] = r]
          /\ Written(gateLog, r, "gates")
    /\ UNCHANGED <<now, models, plane, proc>>

RecordGate ==
    /\ proc = "up"
    /\ Len(gateLog) < MaxGates
    /\ \E r \in GateRecords :
          /\ Acceptable(records, r, now)
          /\ records' = [records EXCEPT ![r.phase] = r]
          /\ Written(gateLog, r, "gates")
    /\ UNCHANGED <<now, models, plane, proc>>

-----------------------------------------------------------------------------
(* The model inventory: it writes the ledger first.                        *)

NoModel == [state |-> "none", disabled |-> FALSE]

ModelState(log) ==
    IF log = <<>> THEN NoModel
    ELSE [state |-> Last(log).state, disabled |-> Last(log).type = "model_disabled"]

RecordModel(type, state) ==
    \/ /\ Len(modelLog) < MaxModels
       /\ modelLog' = Append(modelLog, [type |-> type, state |-> state])
       /\ model' = [state |-> state, disabled |-> type = "model_disabled"]
       /\ UNCHANGED <<failures, lost>>
    \/ /\ failures < MaxFailures /\ failures' = failures + 1
       /\ UNCHANGED <<models, lost>>

Register ==
    /\ proc = "up"
    /\ model = NoModel
    /\ \E state \in Range(Lifecycle) \cup {"active_read", "retired"} :
          RecordModel("model_registered", state)
    /\ UNCHANGED <<now, gates, plane, proc>>

\* The evidence is an input that satisfies _validate_promotion.
Promote ==
    /\ proc = "up"
    /\ \E i \in 1..(Len(Lifecycle) - 1) :
          /\ model.state = Lifecycle[i]
          /\ Lifecycle[i + 1] \in {"paper", "champion"} => IsAdmitted(records, ModelPhase, now)
          /\ RecordModel("model_promoted", Lifecycle[i + 1])
    /\ UNCHANGED <<now, gates, plane, proc>>

\* A repetition for the same reason finds its row; another reason conflicts.
Disable ==
    /\ proc = "up"
    /\ model.state # "none"
    /\ ~model.disabled
    /\ RecordModel("model_disabled", model.state)
    /\ UNCHANGED <<now, gates, plane, proc>>

-----------------------------------------------------------------------------
(* The live control plane: it changes memory first.                        *)

Auth(a) == [type |-> "authorization", state |-> "none", auth |-> a]
State(s, a) == [type |-> "state", state |-> s, auth |-> a]
Paper == [authorization |-> "none", status |-> "paper", auth |-> "none"]

\* What _hydrate leaves after the rows of a log: the latest of either type.
RowsOfType(log, type) == {i \in DOMAIN log : log[i].type = type}
LiveState(log) ==
    LET auths == RowsOfType(log, "authorization")
        states == RowsOfType(log, "state")
    IN  [authorization |-> IF auths = {} THEN "none" ELSE log[Max(auths)].auth,
         status |-> IF states = {} THEN "paper" ELSE log[Max(states)].state,
         auth |-> IF states = {} THEN "none" ELSE log[Max(states)].auth]

LiveHydrates(log) ==
    \A i \in DOMAIN log :
        LET before == LiveState(SubSeq(log, 1, i - 1))
        IN  /\ log[i].state = "active" => before.status = "ready"
            /\ log[i].state \in {"ready", "active"} =>
                  before.authorization # "none" /\ before.authorization = log[i].auth

AuthorizationValid == live.authorization # "none" /\ now < AuthExpiry[live.authorization]

RecordAuthorization ==
    /\ proc = "up"
    /\ Len(liveLog) < MaxLive
    /\ \E a \in Auths :
          /\ live.authorization \in {"none", a}
          /\ live' = [live EXCEPT !.authorization = a]
          /\ IF Auth(a) \in Range(liveLog)
             THEN UNCHANGED <<liveLog, failures, lost>>
             ELSE Written(liveLog, Auth(a), "live")
    /\ UNCHANGED <<now, gates, models, proc>>

Transition(s, a) ==
    /\ Len(liveLog) < MaxLive
    /\ live' = [live EXCEPT !.status = s, !.auth = a]
    /\ Written(liveLog, State(s, a), "live")
    /\ UNCHANGED <<now, gates, models, proc>>

\* Soak gate, reconciliation and offline safety are inputs that pass.
EvaluateReadiness ==
    /\ proc = "up"
    /\ AuthorizationValid
    /\ IsAdmitted(records, SoakPhase, now)
    /\ Transition("ready", live.authorization)

StartWithoutReadiness ==
    /\ proc = "up"
    /\ AuthorizationValid
    /\ IsAdmitted(records, LastPhase, now)
    /\ Transition("active", live.auth)

Start ==
    /\ proc = "up"
    /\ AuthorizationValid
    /\ IsAdmitted(records, LastPhase, now)
    /\ live.status = "ready"
    /\ Transition("active", live.auth)

Rollback == proc = "up" /\ Transition("rolled_back", live.auth)
ReturnToPaper == proc = "up" /\ Transition("paper", live.auth)

-----------------------------------------------------------------------------
Tick ==
    /\ now < MaxTime
    /\ now' = now + 1
    /\ UNCHANGED <<gates, models, plane, proc, failures, lost>>

\* The process ends at any point and starts again: the registry, the inventory
\* and the plane hydrate from the ledger, or one of them raises.
Restart ==
    /\ IF GatesHydrate(gateLog, now) /\ LiveHydrates(liveLog)
       THEN /\ proc' = "up"
            /\ records' = Project(gateLog)
            /\ model' = ModelState(modelLog)
            /\ live' = LiveState(liveLog)
       ELSE /\ proc' = "refused"
            /\ records' = Project(<<>>)
            /\ model' = NoModel
            /\ live' = Paper
    /\ lost' = {}
    /\ UNCHANGED <<now, gateLog, modelLog, liveLog, failures>>

Init ==
    /\ now = 0
    /\ gateLog = <<>> /\ records = Project(<<>>)
    /\ modelLog = <<>> /\ model = NoModel
    /\ liveLog = <<>> /\ live = Paper
    /\ proc = "up"
    /\ failures = 0
    /\ lost = {}

Next ==
    \/ RecordGate
    \/ Register \/ Promote \/ Disable
    \/ RecordAuthorization \/ EvaluateReadiness \/ Start \/ Rollback \/ ReturnToPaper
    \/ Tick \/ Restart

Spec == Init /\ [][Next]_vars

-----------------------------------------------------------------------------
(* Properties.                                                             *)

\* Every variable keeps its type.
TypeOK ==
    /\ now \in 0..MaxTime
    /\ \A i \in DOMAIN gateLog : gateLog[i].phase \in Phases /\ gateLog[i].decision \in Decisions
    /\ records \in [Phases -> GateRecords \cup {NoRecord}]
    /\ model.state \in Range(Lifecycle) \cup {"none", "active_read", "retired"}
    /\ live.status \in LiveStates
    /\ live.authorization \in Auths \cup {"none"}
    /\ live.status \in {"ready", "active"} => live.auth = live.authorization
    /\ proc \in {"up", "refused"}

\* "A later phase cannot be recorded as passed while an earlier phase is
\* pending or failed": in the order of the ledger, at every pass the latest
\* records of all earlier phases are passes, whatever was recorded, expired or
\* replayed in between, unless an append of the registry has raised.
PassesFollowAllEarlierPhases ==
    failures = 0 =>
        \A i \in DOMAIN gateLog : gateLog[i].decision = "passed" =>
            LET before == Project(SubSeq(gateLog, 1, i - 1))
            IN  \A p \in 0..(gateLog[i].phase - 1) :
                    before[p].decision = "passed"

\* ModelInventory writes its row before it changes memory, so what it answers
\* is what a restart would answer, also after an append that raised; the gates
\* and the plane are ahead of their ledger only after such an append.
MemoryMatchesLedger ==
    proc = "up" =>
        /\ model = ModelState(modelLog)
        /\ "gates" \notin lost => records = Project(gateLog)
        /\ "live" \notin lost => live = LiveState(liveLog)

\* The plane's own ledger never stops it: without a failed append every active
\* row follows a readiness row of the recorded authorization, so that a rollback
\* is final until a new readiness evaluation, across any restarts.
LiveLedgerReplays == failures = 0 => LiveHydrates(liveLog)

\* The ledger is one that earlier phases allow, and gates, inventory and plane answer
\* what a restart from it would answer.
LedgersReplay == PassesFollowAllEarlierPhases /\ MemoryMatchesLedger /\ LiveLedgerReplays

\* The process comes up again from the ledger it has written itself.
RestartNeverRefused == failures = 0 => proc # "refused"
=============================================================================
