---------------------------- MODULE PaperControl ----------------------------
(***************************************************************************)
(* Who may stop and start paper trading: the KillSwitch, the run loop of   *)
(* PaperRuntime, its owner (halt, resume, stop, reconcile_once) and the    *)
(* operator dashboard, which only writes commands into the incident ledger *)
(* unless a runtime is bound to it.                                        *)
(*                                                                         *)
(* A thread is a sequence of pending operations, one taken per step; every *)
(* ledger write and every write of the switch's attributes is a step.      *)
(***************************************************************************)
EXTENDS Naturals, Sequences, FiniteSets, FiniteSetsExt, SequencesExt

CONSTANTS
    Keys,           \* idempotency keys of dashboard commands
    Command,        \* the command each key carries
    Deployments,    \* whether the API process holds the runtime object, and
                    \* the thread the owner's calls run on
    OrdersPerCycle, \* orders one decision materialises at most
    MaxIncidents,   \* incident rows after which the owner makes no more calls
    MaxStates,      \* account states (hashes) reconciliation can meet
    MaxCrashes      \* bound on crashes and ledger failures

ASSUME ControlAssumption ==
    /\ Command \in [Keys -> {"halt_paper", "resume_paper"}]
    /\ Deployments \subseteq [bound : BOOLEAN, owner : {"loop", "owner"}]
    /\ {OrdersPerCycle, MaxIncidents, MaxStates, MaxCrashes} \subseteq Nat

VARIABLES
    incidents,  \* the incident ledger
    recons,     \* reconciliation_recorded rows of the order ledger
    ks,         \* KillSwitch._tripped and ._reason
    stop,       \* PaperRuntime._stop
    loop,       \* where the run loop is
    left,       \* orders of the cycle not yet handled
    pending,    \* pending operations of each thread
    receipts,   \* DashboardProjection._receipts
    account,    \* the account state's hash
    crashes,
    deployment, \* fixed when the system is set up
    history     \* what the properties remember; no action reads it

state == <<incidents, recons, ks, stop, loop, left, pending, receipts, account, crashes, history>>
vars == <<state, deployment>>
control == <<incidents, ks, stop>>
cycle == <<loop, left>>

Bound == deployment.bound
OwnerThread == deployment.owner
Threads == {"loop", "owner", "api"}
Off == [tripped |-> FALSE, reason |-> "none"]
On(reason) == [tripped |-> TRUE, reason |-> reason]
Op(op, arg, status) == [op |-> op, arg |-> arg, status |-> status]

-----------------------------------------------------------------------------
(* The ledger as its readers see it.                                       *)

Row(type, arg) == [type |-> type, arg |-> arg]
Security == {"kill_switch_tripped", "kill_switch_reset"}
Accepted == {"halt_paper", "resume_paper"}
Latest(log, types) == Max({0} \cup {i \in DOMAIN log : log[i].type \in types})

Hydrate(log) ==
    LET last == Latest(log, Security)
    IN  IF last > 0 /\ log[last].type = "kill_switch_tripped" THEN On(log[last].arg) ELSE Off

ReconciliationState ==
    IF recons = <<>> THEN "no run recorded"
    ELSE IF Last(recons).clean THEN "clean" ELSE "review required"

\* The newest accepted dashboard command is newer than every security event.
Standing(log) == Latest(log, Accepted) > Latest(log, Security)
StandingCommand(log) == IF Standing(log) THEN log[Latest(log, Accepted)].type ELSE "none"

-----------------------------------------------------------------------------
Init ==
    /\ incidents = <<>>
    /\ recons = <<>>
    /\ ks = Off
    /\ stop = FALSE
    /\ loop = "head"
    /\ left = 0
    /\ pending = [t \in Threads |-> <<>>]
    /\ receipts = [k \in Keys |-> "none"]
    /\ account = 0
    /\ crashes = 0
    /\ deployment \in Deployments
    /\ history = [afterTrip |-> 0, underHalt |-> FALSE, clean |-> FALSE, mismatch |-> FALSE]

Doing(t, op) == pending[t] # <<>> /\ Head(pending[t]).op = op
Up == loop # "down"
Continue(t, ops) == pending' = [pending EXCEPT ![t] = ops \o Tail(@)]
Append_(type, arg) == incidents' = Append(incidents, Row(type, arg))

HaltOps(reason) == <<Op("trip", reason, ""), Op("stop", "", "")>>
ResumeOps == <<Op("reset", "", ""), Op("clear", "", "")>>

-----------------------------------------------------------------------------
(* KillSwitch.trip, KillSwitch.reset and the runtime's stop event.         *)

TripForgetful(t) ==
    /\ Doing(t, "trip")
    /\ Continue(t, <<Op("set", Head(pending[t]).arg, "")>>)
    /\ UNCHANGED <<control, cycle, recons, receipts, account, crashes, history>>

Trip(t) ==
    /\ Doing(t, "trip")
    /\ LET reason == Head(pending[t]).arg
       IN  IF ks = On(reason)
           THEN Continue(t, <<>>) /\ UNCHANGED incidents
           ELSE /\ Append_("kill_switch_tripped", reason)
                /\ Continue(t, <<Op("set", reason, "")>>)
    /\ UNCHANGED <<ks, stop, cycle, recons, receipts, account, crashes, history>>

SetTripped(t) ==
    /\ Doing(t, "set")
    /\ ks' = On(Head(pending[t]).arg)
    /\ history' = IF ks.tripped THEN history ELSE [history EXCEPT !.afterTrip = 0]
    /\ Continue(t, <<>>)
    /\ UNCHANGED <<incidents, stop, cycle, recons, receipts, account, crashes>>

Reset(t) ==
    /\ Doing(t, "reset")
    /\ IF ~ks.tripped
       THEN Continue(t, <<>>) /\ UNCHANGED <<incidents, history>>
       ELSE /\ Append_("kill_switch_reset", "")
            /\ Continue(t, <<Op("unset", "", "")>>)
            /\ history' = [history EXCEPT !.underHalt = FALSE]
    /\ UNCHANGED <<ks, stop, cycle, recons, receipts, account, crashes>>

ClearTripped(t) ==
    /\ Doing(t, "unset")
    /\ ks' = Off
    /\ Continue(t, <<>>)
    /\ UNCHANGED <<incidents, stop, cycle, recons, receipts, account, crashes, history>>

SetStop(t) ==
    /\ Doing(t, "stop") \/ Doing(t, "clear")
    /\ stop' = Doing(t, "stop")
    /\ Continue(t, <<>>)
    /\ UNCHANGED <<incidents, ks, cycle, recons, receipts, account, crashes, history>>

-----------------------------------------------------------------------------
(* The run loop.                                                           *)

SyncDashboardControl ==
    /\ Doing("loop", "sync")
    /\ Continue("loop",
          IF StandingCommand(incidents) = "halt_paper"
          THEN HaltOps(incidents[Latest(incidents, Accepted)].arg)
          ELSE IF StandingCommand(incidents) = "resume_paper" /\ ks.tripped
          THEN ResumeOps ELSE <<>>)
    /\ UNCHANGED <<control, cycle, recons, receipts, account, crashes, history>>

LoopIdle(where) == loop = where /\ pending["loop"] = <<>>

RunOnceUnsynced ==
    /\ LoopIdle("head")
    /\ IF stop
       THEN loop' = "out" /\ UNCHANGED pending
       ELSE loop' = "cycle" /\ UNCHANGED pending
    /\ history' = [history EXCEPT !.underHalt = ~stop /\ StandingCommand(incidents) = "halt_paper"]
    /\ UNCHANGED <<control, left, recons, receipts, account, crashes>>

\* The while test of run_forever, and the head of run_once.
RunOnce ==
    /\ LoopIdle("head")
    /\ IF stop
       THEN loop' = "out" /\ UNCHANGED pending
       ELSE /\ loop' = "cycle"
            /\ pending' = [pending EXCEPT !["loop"] = <<Op("sync", "", "")>>]
    /\ history' = [history EXCEPT !.underHalt = ~stop /\ StandingCommand(incidents) = "halt_paper"]
    /\ UNCHANGED <<control, left, recons, receipts, account, crashes>>

\* run_forever is called: after the constructor, or again by the owner.
RunForever ==
    /\ LoopIdle("init") \/ LoopIdle("out")
    /\ loop' = "head"
    /\ UNCHANGED <<control, left, pending, recons, receipts, account, crashes, history>>

\* A cycle is over; run_forever returns when max_cycles is reached.
EndCycle == {"head", "out"}

\* The switch is tripped, readiness, snapshot or decision abstain, or
\* something raises: the cycle ends without a trade.
Abstain ==
    /\ LoopIdle("cycle")
    /\ loop' \in EndCycle
    /\ UNCHANGED <<control, left, pending, recons, receipts, account, crashes, history>>

Decide ==
    /\ LoopIdle("cycle")
    /\ ~ks.tripped
    /\ loop' = "trading"
    /\ left' \in 0..OrdersPerCycle
    /\ UNCHANGED <<control, pending, recons, receipts, account, crashes, history>>

\* create and check_order of one order.
CheckOrder ==
    /\ LoopIdle("trading")
    /\ left > 0
    /\ loop' \in EndCycle \cup (IF ks.tripped THEN {} ELSE {"checked"})
    /\ UNCHANGED <<control, left, pending, recons, receipts, account, crashes, history>>

\* approve_risk and route: acknowledged, or ambiguous, refused or raising.
RouteOrder ==
    /\ LoopIdle("checked")
    /\ left' = left - 1
    /\ loop' \in {"trading"} \cup EndCycle
    /\ history' = [history EXCEPT !.afterTrip = IF ks.tripped THEN @ + 1 ELSE @]
    /\ UNCHANGED <<control, pending, recons, receipts, account, crashes>>

FinishCycle ==
    /\ LoopIdle("trading")
    /\ left = 0
    /\ loop' \in EndCycle
    /\ UNCHANGED <<control, left, pending, recons, receipts, account, crashes, history>>

-----------------------------------------------------------------------------
(* The owner, on the loop's thread between cycles or on one of its own.    *)

OwnerMayCall ==
    /\ Up
    /\ Len(incidents) < MaxIncidents
    /\ pending[OwnerThread] = <<>>
    /\ OwnerThread = "loop" => loop \in {"head", "out"}
    /\ loop # "init"
OwnerCalls(ops) == OwnerMayCall /\ pending' = [pending EXCEPT ![OwnerThread] = ops]

OwnerControl ==
    /\ \/ OwnerCalls(HaltOps("operator"))
       \/ OwnerCalls(ResumeOps)
       \/ OwnerCalls(<<Op("stop", "", "")>>)
    /\ UNCHANGED <<control, cycle, recons, receipts, account, crashes, history>>

\* ReconciliationService.run: one row per account state and outcome.
RecordReconciliation(clean) ==
    LET row == [state |-> account, clean |-> clean]
    IN  recons' = IF row \in Range(recons) THEN recons ELSE Append(recons, row)

ReconcileOnce ==
    \/ \E clean \in BOOLEAN :
          /\ RecordReconciliation(clean)
          /\ OwnerCalls(IF clean THEN <<>> ELSE <<Op("trip", "paper_reconciliation_mismatch", "")>>)
          /\ history' = [history EXCEPT !.clean = clean, !.mismatch = ~clean]
          /\ UNCHANGED <<control, cycle, receipts, account, crashes>>
    \/ \* the adapter's account_snapshot or open_orders raises
       /\ OwnerCalls(<<Op("trip", "paper_venue_reconciliation_error", "")>>)
       /\ UNCHANGED <<control, cycle, recons, receipts, account, crashes, history>>

AccountChanges ==
    /\ Up /\ account < MaxStates
    /\ account' = account + 1
    /\ UNCHANGED <<control, cycle, pending, recons, receipts, crashes, history>>

-----------------------------------------------------------------------------
(* The dashboard.                                                          *)

Record(k, status) == Op("record", k, status)

\* DashboardProjection.execute, up to its ledger write.
Execute(k) ==
    /\ pending["api"] = <<>>
    /\ receipts[k] = "none"
    /\ Bound => Up
    /\ \E incidentOpen \in BOOLEAN :
          LET clean == ~incidentOpen /\ ReconciliationState = "clean"
              calls == IF ~Bound THEN <<>>
                       ELSE IF Command[k] = "halt_paper" THEN HaltOps(k) ELSE ResumeOps
          IN  pending' = [pending EXCEPT !["api"] =
                 IF Command[k] = "resume_paper" /\ ~clean
                 THEN <<Record(k, "rejected")>>
                 ELSE calls \o <<Record(k, "accepted")>>]
    /\ UNCHANGED <<control, cycle, recons, receipts, account, crashes, history>>

\* The receipt is kept, then the command is written to the ledger.
RecordCommand ==
    /\ Doing("api", "record")
    /\ LET k == Head(pending["api"]).arg
           status == Head(pending["api"]).status
       IN  /\ receipts' = [receipts EXCEPT ![k] = status]
           /\ Append_(IF status = "accepted" THEN Command[k] ELSE "rejected", k)
           /\ history' = [history EXCEPT !.mismatch = FALSE,
                 !.underHalt = @ /\ ~(status = "accepted" /\ Command[k] = "resume_paper")]
    /\ Continue("api", <<>>)
    /\ UNCHANGED <<ks, stop, cycle, recons, account, crashes>>

-----------------------------------------------------------------------------
(* Failures.                                                               *)

CountCrash == crashes < MaxCrashes /\ crashes' = crashes + 1

\* The ledger append of thread t raises. A resume of the API turns into a
\* rejected receipt; the loop finishes its cycle as failed; the constructor
\* passes the exception on.
AppendRaises(t) ==
    /\ CountCrash
    /\ \/ Doing(t, "trip") /\ ks # On(Head(pending[t]).arg)
       \/ Doing(t, "reset") /\ ks.tripped
       \/ Doing(t, "record")
    /\ pending' = [pending EXCEPT ![t] =
          IF t = "api" /\ Doing(t, "reset")
          THEN <<Record(Last(@).arg, "rejected")>> ELSE <<>>]
    /\ receipts' = IF Doing(t, "record")
                   THEN [receipts EXCEPT ![Head(pending[t]).arg] = Head(pending[t]).status]
                   ELSE receipts
    /\ loop' = IF t # "loop" THEN loop
               ELSE IF loop = "init" THEN "down"
               ELSE IF loop = "cycle" THEN "head" ELSE loop
    /\ UNCHANGED <<control, left, recons, account, history>>

\* The runtime's process ends: killed, or the loop returned.
Exit ==
    /\ Up
    /\ \/ LoopIdle("out") /\ pending["owner"] = <<>> /\ ~Bound /\ UNCHANGED crashes
       \/ CountCrash
    /\ loop' = "down"
    /\ left' = 0
    /\ pending' = [t \in Threads |-> IF t = "api" /\ ~Bound THEN pending[t] ELSE <<>>]
    /\ UNCHANGED <<control, recons, receipts, account, history>>

HydrateReceipts ==
    [k \in Keys |->
        LET rows == {i \in DOMAIN incidents :
                        incidents[i].type \in Accepted \cup {"rejected"} /\ incidents[i].arg = k}
        IN  IF rows = {} THEN "none"
            ELSE IF incidents[Max(rows)].type = "rejected" THEN "rejected" ELSE "accepted"]

\* The supervisor starts the process again: KillSwitch._hydrate, then
\* PaperRuntime.__init__ applies the dashboard's command.
Restart ==
    /\ loop = "down"
    /\ ks' = Hydrate(incidents)
    /\ stop' = FALSE
    /\ loop' = "init"
    /\ pending' = [pending EXCEPT !["loop"] = <<Op("sync", "", "")>>]
    /\ receipts' = IF Bound THEN HydrateReceipts ELSE receipts
    /\ history' = [history EXCEPT !.afterTrip = 0]
    /\ UNCHANGED <<incidents, left, recons, account, crashes>>

\* An API process of its own dies and comes back.
ApiRestart ==
    /\ ~Bound
    /\ CountCrash
    /\ pending' = [pending EXCEPT !["api"] = <<>>]
    /\ receipts' = HydrateReceipts
    /\ UNCHANGED <<control, cycle, recons, account, history>>

-----------------------------------------------------------------------------
ThreadStep(t) ==
    Trip(t) \/ SetTripped(t) \/ Reset(t) \/ ClearTripped(t) \/ SetStop(t)

LoopStep ==
    \/ SyncDashboardControl \/ RunOnce \/ Abstain \/ Decide
    \/ CheckOrder \/ RouteOrder \/ FinishCycle

Step ==
    \/ \E t \in Threads : ThreadStep(t) \/ AppendRaises(t)
    \/ LoopStep \/ RunForever
    \/ OwnerControl \/ ReconcileOnce \/ AccountChanges
    \/ \E k \in Keys : Execute(k)
    \/ RecordCommand
    \/ Exit \/ Restart \/ ApiRestart

Next == Step /\ UNCHANGED deployment

Spec == Init /\ [][Next]_vars

\* Threads run; the process ends when run_forever has returned (the runbook's
\* last statement) and the supervisor starts it again. An owner who calls on
\* the loop's thread goes back to the loop between calls (strong fairness).
Fairness ==
    /\ \A t \in Threads : WF_state(ThreadStep(t))
    /\ SF_state(LoopStep) /\ WF_state(loop = "init" /\ RunForever)
    /\ SF_state(loop = "out" /\ Exit)
    /\ WF_state(RecordCommand) /\ WF_state(Restart)

FairSpec == Spec /\ Fairness

-----------------------------------------------------------------------------
(* Properties.                                                             *)

\* Every variable keeps its type (the shapes of PaperRuntime, KillSwitch and
\* DashboardProjection).
TypeOK ==
    /\ \A i \in DOMAIN incidents : incidents[i].type \in Security \cup Accepted \cup {"rejected"}
    /\ ks.tripped \in BOOLEAN /\ stop \in BOOLEAN
    /\ ks.tripped <=> ks.reason # "none"
    /\ loop \in {"down", "init", "head", "cycle", "trading", "checked", "out"}
    /\ left \in 0..OrdersPerCycle
    /\ loop = "checked" => left > 0
    /\ receipts \in [Keys -> {"none", "accepted", "rejected"}]

\* The switch in memory is the one a restart would rebuild from the incident
\* ledger (KillSwitch._hydrate), except inside trip and reset, as long as one
\* thread alone writes it.
SwitchMatchesLedger ==
    (Up /\ ~Bound /\ OwnerThread = "loop" /\ \A t \in Threads : ~Doing(t, "set") /\ ~Doing(t, "unset")) => ks = Hydrate(incidents)

\* A cycle that began while an accepted halt stood does not trade, unless a reset or a
\* resume was recorded after that halt (PaperRuntime._sync_dashboard_control), with one
\* exception: the API that holds the runtime executes a second halt, whose trip has its
\* row, which overtakes the first command, but not yet its attribute when the loop reads
\* both.  The switch is then on before that thread does anything else.  Trips and resets
\* of an owner on a thread of its own can undo each other (README).
NoCycleTradesUnderHalt ==
    OwnerThread = "loop" /\ loop \in {"trading", "checked"} /\ history.underHalt =>
        Bound /\ (ks.tripped \/ Doing("api", "set"))

\* After the switch trips, at most the order between check_order and route
\* still reaches the venue, whatever the cycle had left (run_once).
AtMostOneOrderAfterTrip == ks.tripped => history.afterTrip <= 1

\* A halt stops trading: no cycle starts under it and at most one order of the cycle
\* it falls into is still sent.
HaltStopsTrading == NoCycleTradesUnderHalt /\ AtMostOneOrderAfterTrip

\* An accepted command of an API process that does not hold the runtime is
\* applied, or overtaken by a newer command or security event.
CommandTakesEffect ==
    /\ (~Bound /\ StandingCommand(incidents) = "halt_paper") ~>
          (ks.tripped \/ StandingCommand(incidents) # "halt_paper")
    /\ (~Bound /\ StandingCommand(incidents) = "resume_paper") ~>
          (~ks.tripped \/ StandingCommand(incidents) # "resume_paper")

\* _sync_dashboard_control does not reset the switch when reconcile_once found a
\* mismatch after the newest command: its docstring gives a reconciliation trip
\* precedence over an older command.
NewestMismatchHolds ==
    (loop \in {"init", "cycle"} /\ Doing("loop", "reset")) => ~history.mismatch

\* execute accepts a resume only if the last reconcile_once that did not raise
\* was clean.
ResumeNeedsCleanReconciliation ==
    [][\A k \in Keys :
          ( /\ Command[k] = "resume_paper" /\ pending["api"] = <<>>
            /\ pending'["api"] # <<>> /\ Last(pending'["api"]) = Record(k, "accepted") )
          => history.clean]_vars
=============================================================================
