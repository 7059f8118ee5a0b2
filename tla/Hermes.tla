------------------------------- MODULE Hermes -------------------------------
(***************************************************************************)
(* One run of HermesIsolationRunner: a task in a forked child under guards *)
(* that refuse what the policy forbids, a parent that waits for its wall   *)
(* time, and the measured result.  The child's answer goes through a queue *)
(* whose feeder keeps the child alive until a large answer is read, and    *)
(* the parent reads only after the child has ended.                        *)
(***************************************************************************)
EXTENDS Naturals

CONSTANTS WallTime  \* wall_time_seconds

ASSUME HermesAssumption == WallTime \in Nat \ {0}

VARIABLES
    parent,   \* where run() is
    child,    \* [pc, deaf]: the process, and whether SIGTERM ends it
    ticks,    \* seconds since the start
    breached,  \* the forbidden things the task tried
    payload,   \* what is in the queue: none, or [passed, over]
    verdict    \* the HermesTaskResult

hermesVars == <<parent, child, ticks, breached, payload, verdict>>

NoPayload == [st |-> "none", passed |-> FALSE, over |-> {}]
NoResult == [st |-> "none", passed |-> FALSE, flags |-> {}, error |-> "none"]

\* HermesTaskResult and its validator: a pass has no error and no attempt, a
\* failure names one.
Results ==
    {r \in [st : {"measured", "timed_out", "lost"}, passed : BOOLEAN,
            flags : SUBSET {"network", "write", "sensitive", "spawn"},
            error : {"none", "process_start_failed", "wall_time_budget_exceeded", "task_exited_without_a_result",
                     "network", "write", "sensitive", "spawn", "cpu_budget_exceeded", "memory_budget_exceeded",
                     "task_failed"}] :
        /\ r.passed => r.st = "measured" /\ r.flags = {} /\ r.error = "none"
        /\ r.error = "none" => r.passed}

HermesInit ==
    /\ parent = "idle" /\ child = [pc |-> "off", deaf |-> FALSE]
    /\ ticks = 0 /\ breached = {} /\ payload = NoPayload /\ verdict = NoResult

---------------------------------------------------------------------------
\* What a task may do, and what each guard makes of it.
Operations == {"connect_listed", "connect_other", "read", "read_secret", "write", "write_secret", "spawn"}
NetworkGuard(op) == IF op = "connect_other" THEN {"network"} ELSE {}
\* The path is looked at before the mode.
FilesystemGuard(op) ==
    IF op \in {"read_secret", "write_secret"} THEN {"sensitive"}
    ELSE IF op = "write" THEN {"write"} ELSE {}
ProcessGuard(op) == IF op = "spawn" THEN {"spawn"} ELSE {}
Forbidden(op) == NetworkGuard(op) \cup FilesystemGuard(op) \cup ProcessGuard(op)

\* process.start, or the fork fails.
HermesStart ==
    /\ parent = "idle"
    /\ \/ /\ parent' = "joining" /\ child' \in [pc : {"running"}, deaf : BOOLEAN]
          /\ UNCHANGED verdict
       \/ /\ parent' = "done" /\ UNCHANGED child
          /\ verdict' = [NoResult EXCEPT !.st = "lost", !.error = "process_start_failed"]
    /\ UNCHANGED <<ticks, breached, payload>>

\* The guard raises in the task, which may swallow it and go on.
TaskTries(op) ==
    /\ child.pc = "running" /\ Forbidden(op) \ breached # {}
    /\ breached' = breached \cup Forbidden(op)
    /\ UNCHANGED <<parent, child, ticks, payload, verdict>>

\* The task returns or raises; the answer fits the pipe, or keeps the child
\* alive, or cannot be pickled and is dropped.
TaskAnswers ==
    /\ child.pc = "running"
    /\ \E passed \in BOOLEAN, over \in SUBSET {"cpu", "memory"}, fits \in BOOLEAN :
          \/ /\ payload' = [st |-> "sent", passed |-> passed, over |-> over]
             /\ child' = [child EXCEPT !.pc = IF fits THEN "gone" ELSE "feeding"]
          \/ child' = [child EXCEPT !.pc = "gone"] /\ UNCHANGED payload
    /\ UNCHANGED <<parent, ticks, breached, verdict>>

\* SystemExit, KeyboardInterrupt, os._exit and the kernel pass the child's
\* handler by.
TaskVanishes ==
    /\ child.pc = "running"
    /\ child' = [child EXCEPT !.pc = "gone"]
    /\ UNCHANGED <<parent, ticks, breached, payload, verdict>>

\* process.join(wall_time), is_alive, terminate.
JoinReturns ==
    /\ parent = "joining" /\ (child.pc = "gone" \/ ticks = WallTime)
    /\ parent' = IF child.pc = "gone" THEN "reading" ELSE "terminating"
    /\ UNCHANGED <<child, ticks, breached, payload, verdict>>

\* The second join has no limit.
ChildTerminated ==
    /\ parent = "terminating" /\ (child.pc # "gone" => ~child.deaf)
    /\ child' = [child EXCEPT !.pc = "gone"] /\ parent' = "done"
    /\ verdict' = [NoResult EXCEPT !.st = "timed_out", !.error = "wall_time_budget_exceeded"]
    /\ UNCHANGED <<ticks, breached, payload>>

\* A plausible slip: only what the task let escape counts.
PassedAnyway == payload.passed

\* An attempt fails the task although it returned, then the budgets.
ChildPassed == payload.passed /\ breached = {} /\ payload.over = {}

ErrorOf ==
    IF ChildPassed THEN "none"
    ELSE IF "spawn" \in breached THEN "spawn" ELSE IF "sensitive" \in breached THEN "sensitive"
    ELSE IF "write" \in breached THEN "write" ELSE IF "network" \in breached THEN "network"
    ELSE IF payload.passed /\ "cpu" \in payload.over THEN "cpu_budget_exceeded"
    ELSE IF payload.passed /\ "memory" \in payload.over THEN "memory_budget_exceeded"
    ELSE "task_failed"

\* The queue, for half a second after the child has ended.
ReadResult ==
    /\ parent = "reading" /\ parent' = "done"
    /\ verdict' = IF payload.st = "none"
                 THEN [NoResult EXCEPT !.st = "lost", !.error = "task_exited_without_a_result"]
                 ELSE [st |-> "measured", passed |-> ChildPassed, flags |-> breached, error |-> ErrorOf]
    /\ UNCHANGED <<child, ticks, breached, payload>>

WallClock ==
    /\ parent = "joining" /\ ticks < WallTime /\ ticks' = ticks + 1
    /\ UNCHANGED <<parent, child, breached, payload, verdict>>

ParentRuns == HermesStart \/ JoinReturns \/ ChildTerminated \/ ReadResult \/ WallClock

HermesNext ==
    \/ ParentRuns
    \/ \E op \in Operations : TaskTries(op)
    \/ TaskAnswers \/ TaskVanishes

HermesSpec == HermesInit /\ [][HermesNext]_hermesVars /\ WF_hermesVars(ParentRuns)

---------------------------------------------------------------------------
\* A result tells the truth about its task, and there always is one.
\* - a pass: it returned in time and in budget and tried nothing forbidden,
\*   not even something it swallowed the refusal of.
\* - the flags of a measured result are exactly what was tried; only a task
\*   that left no answer may have tried something the result does not say.
\* - the child does not outlive the result.
\* - a task that ignores SIGTERM may keep the parent waiting; nothing else does.
TruthOf(r) ==
    /\ r \in Results
    /\ r.passed => /\ breached = {} /\ payload.st = "sent" /\ payload.passed
                   /\ payload.over = {} /\ ticks <= WallTime
    /\ r.st = "measured" => r.flags = breached
    /\ child.pc \in {"off", "gone"}

HermesAnswersTruthfully ==
    /\ [](verdict # NoResult => TruthOf(verdict))
    /\ parent = "joining" ~> (verdict # NoResult \/ child.deaf)
=============================================================================
