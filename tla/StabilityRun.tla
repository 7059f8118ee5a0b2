---------------------------- MODULE StabilityRun ----------------------------
(***************************************************************************)
(* The day-long stability runs of Phase 0: local models                     *)
(* (phase0/model_stability.py, scripts/run_model_stability.py) and paid     *)
(* remote routes (phase0/remote_stability.py,                               *)
(* scripts/run_remote_route_stability.py).  Runners may be started more     *)
(* than once over one run directory, at the same time too; each may be      *)
(* limited to a number of cycles and may die anywhere.  The hash chain of   *)
(* the log is the log itself; a sample is its time, whether it passed and   *)
(* the memory left after unloading.                                         *)
(***************************************************************************)
EXTENDS Integers, Sequences, FiniteSets

CONSTANTS
    Runners,     \* processes over one run directory
    Target,      \* started_at + duration_hours, with started_at = 0
    LastTick,    \* the clock stops here
    Cap,         \* budget_cap, in calls
    MaxStarts    \* how often runners are started

ASSUME StabilityAssumption == Cap \in Nat /\ Target \in Nat /\ 0 \notin Runners

VARIABLES
    kind,      \* "local" or "remote"
    tick,      \* the clock
    log,       \* cycles.jsonl
    cutShort,      \* its last line was cut short
    owner,     \* who holds the flock on runner.lock, 0 for nobody
    runner,    \* each runner's place and memory
    disk,      \* summary.json and status.json
    paid,      \* remote probes sent
    deaths,    \* runners that died
    starts

stabilityVars == <<kind, tick, log, cutShort, owner, runner, disk, paid, deaths, starts>>

Off == [at |-> "off", mem |-> <<>>, limit |-> 0, terminal |-> FALSE, state |-> "running"]
NoSummary == [status |-> "none", cycles |-> <<>>]

StabilityInit ==
    /\ kind \in {"local", "remote"}
    /\ tick = 0 /\ log = <<>> /\ cutShort = FALSE /\ owner = 0
    /\ runner = [r \in Runners |-> Off]
    /\ disk = [summary |-> NoSummary, state |-> "none", last |-> 0]
    /\ paid = 0 /\ deaths = 0 /\ starts = 0

TickOn == tick < LastTick /\ tick' = tick + 1 /\ UNCHANGED <<kind, log, cutShort, owner, runner, disk, paid, deaths, starts>>

-----------------------------------------------------------------------------
(* What a log amounts to                                                   *)

AllPassed(c) == \A i \in DOMAIN c : c[i].ok

\* evaluate_stability: memory at the end against memory at the beginning.
WindowPasses(c) == c[Len(c)].rss <= c[1].rss

\* summarize_stability measures to the last sample.
LocalStatus(c) ==
    IF c[Len(c)].t < Target THEN "short_smoke_complete"
    ELSE IF AllPassed(c) /\ WindowPasses(c) THEN "passed" ELSE "failed"

\* summarize_records measures to now.
RemoteStatus(c, state) ==
    IF state = "budget_exhausted" THEN "budget_exhausted"
    ELSE IF c = <<>> THEN "not_started"
    ELSE IF ~AllPassed(c) THEN "failed"
    ELSE IF tick >= Target THEN "passed" ELSE "short_smoke_complete"

Summary(c, state) ==
    [status |-> IF kind = "local" THEN LocalStatus(c) ELSE RemoteStatus(c, state), cycles |-> c]

-----------------------------------------------------------------------------
(* A runner                                                                *)

Move(r, f) == runner' = [runner EXCEPT ![r] = f]
Goes(r, a) == Move(r, [runner[r] EXCEPT !.at = a])

\* main up to the lock; a limit of 0 stands for no --max-cycles.
StartRunner(r) ==
    /\ runner[r].at = "off" /\ starts < MaxStarts
    /\ starts' = starts + 1
    /\ \E n \in {0, 1} : Move(r, [Off EXCEPT !.at = "lock", !.limit = n])
    /\ UNCHANGED <<kind, tick, log, cutShort, owner, disk, paid, deaths>>

\* A held lock ends the runner; so does a torn log.
TakeLock(r) ==
    /\ runner[r].at = "lock"
    /\ IF owner # 0 \/ cutShort
       THEN Move(r, Off) /\ UNCHANGED owner
       ELSE owner' = r /\ Move(r, [runner[r] EXCEPT !.at = "loop", !.mem = log])
    /\ UNCHANGED <<kind, tick, log, cutShort, disk, paid, deaths, starts>>

LimitReached(r) == runner[r].limit > 0 /\ Len(runner[r].mem) >= runner[r].limit

\* The log is complete: a sample at or after the target.
TargetReached(c) == c # <<>> /\ c[Len(c)].t >= Target

\* Calls accounted for when the runner decides: one per record.
Reserved(c) == Len(c)

Loop(r) ==
    /\ runner[r].at = "loop"
    /\ LET me == runner[r] IN
       Move(r, IF \/ LimitReached(r)
                  \/ kind = "local" /\ TargetReached(me.mem)
                  \/ kind = "remote" /\ tick >= Target
               THEN [me EXCEPT !.at = "unlock"]
               ELSE IF kind = "remote" /\ Reserved(me.mem) + 1 > Cap
               THEN [me EXCEPT !.at = "unlock", !.state = "budget_exhausted"]
               ELSE [me EXCEPT !.at = "sample", !.terminal = tick >= Target])
    /\ UNCHANGED <<kind, tick, log, cutShort, owner, disk, paid, deaths, starts>>

\* The models are qualified once more, or the route is probed and paid for.
Sample(r) ==
    /\ runner[r].at = "sample"
    /\ paid' = IF kind = "remote" THEN paid + 1 ELSE paid
    /\ Goes(r, "append")
    /\ UNCHANGED <<kind, tick, log, cutShort, owner, disk, deaths, starts>>

\* The record follows the last one in time and in the chain.
AppendSample(r) ==
    /\ runner[r].at = "append"
    /\ (log # <<>> => tick > log[Len(log)].t)
    /\ \E ok \in BOOLEAN, rss \in IF kind = "local" THEN {0, 1} ELSE {0} :
         /\ log' = Append(log, [t |-> tick, ok |-> ok, rss |-> rss])
         /\ Move(r, [runner[r] EXCEPT !.at = "status", !.mem = log'])
    /\ UNCHANGED <<kind, tick, cutShort, owner, disk, paid, deaths, starts>>

\* Whether the loop is left after a sample: a local runner after the terminal
\* one, a remote one after a failed one or when time is up.
Leaves(r) ==
    \/ LimitReached(r)
    \/ kind = "local" /\ runner[r].terminal
    \/ kind = "remote" /\ (~runner[r].mem[Len(runner[r].mem)].ok \/ tick >= Target)

WriteStatus(r) ==
    /\ runner[r].at = "status"
    /\ disk' = [disk EXCEPT !.state = "running", !.last = Len(runner[r].mem)]
    /\ Goes(r, IF Leaves(r) THEN "unlock" ELSE "loop")
    /\ UNCHANGED <<kind, tick, log, cutShort, owner, paid, deaths, starts>>

\* The lock is given back before the summary is written.
Unlock(r) ==
    /\ runner[r].at = "unlock"
    /\ owner' = 0
    /\ Goes(r, "summary")
    /\ UNCHANGED <<kind, tick, log, cutShort, disk, paid, deaths, starts>>

\* write_immutable_json refuses to replace a different summary; the remote
\* runner replaces it.
MayWriteAlways(s) == TRUE
MayWrite(s) == kind = "remote" \/ disk.summary \in {NoSummary, s}

WriteSummary(r) ==
    /\ runner[r].at = "summary"
    /\ LET s == Summary(runner[r].mem, runner[r].state) IN
       IF MayWrite(s)
       THEN /\ disk' = [disk EXCEPT !.summary = s]
            /\ Move(r, [runner[r] EXCEPT !.at = "final", !.state = s.status])
       ELSE UNCHANGED disk /\ Move(r, Off)
    /\ UNCHANGED <<kind, tick, log, cutShort, owner, paid, deaths, starts>>

FinalStatus(r) ==
    /\ runner[r].at = "final"
    /\ disk' = [disk EXCEPT !.state = runner[r].state, !.last = Len(runner[r].mem)]
    /\ Move(r, Off)
    /\ UNCHANGED <<kind, tick, log, cutShort, owner, paid, deaths, starts>>

\* A runner dies; the lock goes with it and a line may be cut short.
Die(r) ==
    /\ runner[r].at # "off"
    /\ deaths' = deaths + 1
    /\ Move(r, Off)
    /\ owner' = IF owner = r THEN 0 ELSE owner
    /\ cutShort' \in IF runner[r].at = "append" THEN {cutShort, TRUE} ELSE {cutShort}
    /\ UNCHANGED <<kind, tick, log, disk, paid, starts>>

StabilityNext ==
    \/ TickOn
    \/ \E r \in Runners :
         \/ StartRunner(r) \/ TakeLock(r) \/ Loop(r) \/ Sample(r) \/ AppendSample(r)
         \/ WriteStatus(r) \/ Unlock(r) \/ WriteSummary(r) \/ FinalStatus(r) \/ Die(r)

StabilitySpec == StabilityInit /\ [][StabilityNext]_stabilityVars

-----------------------------------------------------------------------------
(* Properties                                                              *)

\* validate_model_stability.validate: the review of what is on disk.
ReviewPasses ==
    /\ kind = "local" /\ TargetReached(log) /\ ~cutShort
    /\ AllPassed(log) /\ WindowPasses(log)
    /\ disk.summary = Summary(log, "running")
    /\ disk.last = Len(log) /\ disk.state = disk.summary.status

\* run_model_stability.main: evidence that passed its review still passes after
\* anything another runner, a restart or a death does to the directory.
ReviewStands == [][ReviewPasses => ReviewPasses']_stabilityVars

\* run_remote_route_stability.main: the calls paid for stay within the cap, but
\* for one call of each runner that died between the probe and its record.
SpendIsBounded == paid <= Cap + deaths

\* A stability run keeps what it has proved and what it may pay.
StabilityHolds == []SpendIsBounded /\ [][ReviewPasses => ReviewPasses']_stabilityVars
=============================================================================
