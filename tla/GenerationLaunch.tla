-------------------------- MODULE GenerationLaunch --------------------------
(***************************************************************************)
(* How a long-run generation comes to life: the preregistration and the    *)
(* two preflight reports, the gate that waits for the launch window, the   *)
(* launcher it delegates to, the five components the launcher starts, and  *)
(* the identity half of the terminal audit.  Gates share a gate root,      *)
(* launchers share an evidence root and a host, operators edit the         *)
(* checkout at any time, and processes die.                                *)
(*                                                                         *)
(* All hashes of the frozen contract are folded into tree: "frozen" is the *)
(* checkout, runtime and artifacts of the release, "edited" differs from   *)
(* it anywhere a hash, HEAD or the tag would show.  repaired stands for a  *)
(* generation whose linker takes the launcher's command line and whose     *)
(* scheduler status and launch record carry every field their readers ask  *)
(* for; FALSE is the code as it is, where no launch gets past the linker.  *)
(***************************************************************************)
EXTENDS Naturals, Sequences, FiniteSets

CONSTANTS Gates,      \* gate processes; each may run one launcher of its own
          MaxEdits,   \* bound: changes of the checkout
          MaxKills    \* bound: deaths of gates and launchers

ASSUME LaunchAssumption == MaxEdits \in Nat /\ MaxKills \in Nat

VARIABLES
    hour,       \* "before", "open" or "missed": the 60-second launch window
    tree,       \* "frozen" or "edited"
    bound,      \* what the preregistration hashed, or "none"
    report,     \* the report file handed to the gate
    gate,       \* gate -> where it is
    launcher,   \* gate -> [at, n]: its launcher and the number of components started
    gateRoot,   \* [used, lock, rows]: the gate's directory
    record,     \* launch.json: [st, by], or [st |-> "none"]
    part,       \* component -> [st, by, on]: its process, its starter and the tree it was loaded from
    blunders,   \* [edits, kills, logs, raced]: what has gone wrong so far
    repaired,
    certificate \* "none", "CERTIFIED" or "REFUSED"

launchVars == <<hour, tree, bound, report, gate, launcher, gateRoot, record, part,
                blunders, repaired, certificate>>

Components == <<"collector", "candidate", "outcomes", "watchdog", "scheduler">>
Parts == {Components[i] : i \in 1..5}

\* An attestation folds every hash it carries into one of two checkouts; a
\* contract is bound to the one it was hashed from.
Trees == {"frozen", "edited"}
Contracts == Trees

\* The verdicts of the two reports: ready exactly when all checks passed, and
\* only the launch report's can authorise a launch.
ReleaseReports == {"RELEASE_READY", "REFUSED"}
LaunchReports == {"LONG_RUN_READY", "REFUSED"}

GateStates == {"none", "armed", "late", "refused", "waiting", "delegated", "direct", "done", "died"}
GateEvents == {"MISSED", "FINAL_LAUNCH_ATTESTATION", "LAUNCHED", "NOT_LAUNCHED"}
LaunchRecords == [st : {"STARTING", "RUNNING"}, by : Gates]

Runs(p) == part[p].st \in {"booting", "live"}
RootEmpty == record.st = "none"

LaunchInit ==
    /\ hour = "before" /\ tree = "frozen" /\ bound = "none" /\ report = "none"
    /\ gate = [g \in Gates |-> "none"]
    /\ launcher = [g \in Gates |-> [at |-> "none", n |-> 0]]
    /\ gateRoot = [used |-> FALSE, lock |-> 0, rows |-> <<>>]
    /\ record = [st |-> "none"]
    /\ part = [p \in Parts |-> [st |-> "none"]]
    /\ blunders = [edits |-> 0, kills |-> 0, logs |-> {}, raced |-> FALSE]
    /\ repaired \in BOOLEAN /\ certificate = "none"

---------------------------------------------------------------------------
(* The papers.                                                             *)

\* A contract is created before its frozen start, which opens the window.
Timely == hour = "before"

\* An existing contract is never replaced.
Unwritten == bound = "none"

\* build_preregistration hashes the files as they are and takes HEAD as the
\* commit.
Preregister ==
    /\ Unwritten /\ Timely
    /\ bound' = tree
    /\ UNCHANGED <<hour, tree, report, gate, launcher, gateRoot, record, part, blunders, repaired, certificate>>

\* The attestation of the actual files shows a clean checkout at HEAD.
AttestedClean == tree = "frozen"

\* It equals the preregistration: a contract hashed from an edited checkout
\* is matched by no clean one.
MatchesContract == bound = "frozen" /\ AttestedClean

\* No component of a long run on the host, no process on the GPU; others'
\* processes may be there at any time.
Idle == \A p \in Parts : ~Runs(p)
HostQuiet(quiet) == quiet => Idle

ReleaseVerdict(quiet) == IF MatchesContract /\ quiet THEN "RELEASE_READY" ELSE "REFUSED"
LaunchVerdict(quiet)  == IF MatchesContract /\ quiet THEN "LONG_RUN_READY" ELSE "REFUSED"

\* The draft check of a release candidate; its report never authorises a launch.
ReleasePreflight ==
    \E quiet \in BOOLEAN :
        /\ bound # "none" /\ report = "none"
        /\ report' = ReleaseVerdict(quiet)
        /\ UNCHANGED <<hour, tree, bound, gate, launcher, gateRoot, record, part, blunders, repaired, certificate>>

\* The launch preflight: identity, verification results, host and GPU.  HEAD
\* that differs raises before any report; the report is written once.
LaunchPreflight ==
    \E quiet \in BOOLEAN :
        /\ bound # "none" /\ report \in {"none", "RELEASE_READY"}
        /\ HostQuiet(quiet)
        /\ report' = LaunchVerdict(quiet)
        /\ UNCHANGED <<hour, tree, bound, gate, launcher, gateRoot, record, part, blunders, repaired, certificate>>

---------------------------------------------------------------------------
(* The gate.                                                               *)

Publish(g, state) == gateRoot' = [gateRoot EXCEPT !.rows = Append(@, <<g, state>>)]

\* Everything a gate checks before it takes the lock: the contract, its own
\* code, the report, and that both roots are empty.
Arm(g) ==
    /\ gate[g] = "none" /\ bound # "none"
    /\ gate' = [gate EXCEPT ![g] =
          IF tree = "frozen" /\ bound = "frozen" /\ report = "LONG_RUN_READY" /\ RootEmpty /\ ~gateRoot.used
          THEN IF hour = "missed" THEN "late" ELSE "armed" ELSE "refused"]
    /\ UNCHANGED <<hour, tree, bound, report, launcher, gateRoot, record, part, blunders, repaired, certificate>>

\* The lock is tried once.  A gate whose clock was already past the window
\* publishes that and ends.
Lock(g) ==
    /\ gate[g] \in {"armed", "late"}
    /\ IF gateRoot.lock # 0
       THEN gate' = [gate EXCEPT ![g] = "refused"] /\ UNCHANGED gateRoot
       ELSE IF gate[g] = "late"
       THEN /\ gate' = [gate EXCEPT ![g] = "done"]
            /\ gateRoot' = [gateRoot EXCEPT !.used = TRUE, !.rows = Append(@, <<g, "MISSED">>)]
       ELSE /\ gate' = [gate EXCEPT ![g] = "waiting"]
            /\ gateRoot' = [gateRoot EXCEPT !.used = TRUE, !.lock = g]
    /\ UNCHANGED <<hour, tree, bound, report, launcher, record, part, blunders, repaired, certificate>>

\* _wait_until returns: past the window the gate ends, inside it delegates.
Delegate(g) ==
    /\ gate[g] = "waiting" /\ hour # "before"
    /\ IF hour = "missed"
       THEN /\ gateRoot' = [gateRoot EXCEPT !.rows = Append(@, <<g, "MISSED">>), !.lock = 0]
            /\ gate' = [gate EXCEPT ![g] = "done"] /\ UNCHANGED launcher
       ELSE /\ Publish(g, "FINAL_LAUNCH_ATTESTATION")
            /\ gate' = [gate EXCEPT ![g] = "delegated"]
            /\ launcher' = [launcher EXCEPT ![g].at = "begun"]
    /\ UNCHANGED <<hour, tree, bound, report, record, part, blunders, repaired, certificate>>

\* An operator runs the launcher without a gate.
Direct(g) ==
    /\ gate[g] = "none" /\ bound # "none"
    /\ gate' = [gate EXCEPT ![g] = "direct"]
    /\ launcher' = [launcher EXCEPT ![g].at = "begun"]
    /\ UNCHANGED <<hour, tree, bound, report, gateRoot, record, part, blunders, repaired, certificate>>

\* The launcher's exit as the gate reads it.  The logs are written first, and
\* a log that cannot be written turns a running launch into a refusal.
Conclude(g) ==
    \E logged \in BOOLEAN :
        /\ gate[g] = "delegated" /\ launcher[g].at \in {"RUNNING", "refused", "died"}
        /\ logged \/ blunders.logs = {}
        /\ gateRoot' = [gateRoot EXCEPT !.lock = 0, !.rows = Append(@,
              <<g, IF logged /\ launcher[g].at = "RUNNING" THEN "LAUNCHED" ELSE "NOT_LAUNCHED">>)]
        /\ gate' = [gate EXCEPT ![g] = "done"]
        /\ blunders' = IF logged THEN blunders ELSE [blunders EXCEPT !.logs = {g}]
        /\ UNCHANGED <<hour, tree, bound, report, launcher, record, part, repaired, certificate>>

---------------------------------------------------------------------------
(* The launcher.                                                           *)

Reach(g, at) == launcher' = [launcher EXCEPT ![g].at = at]

\* A plausible slip: an error leaves what was started running.
TerminateNone(g) == UNCHANGED part

\* SIGTERM to every process this launcher has registered.
Terminate(g) ==
    part' = [p \in Parts |-> IF part[p].st # "none" /\ part[p].by = g /\ Runs(p)
                             THEN [part[p] EXCEPT !.st = "terminated"] ELSE part[p]]
Cleanup(g) == Terminate(g) /\ Reach(g, "refused")

\* The report, HEAD, tag and a new attestation that must equal the report's;
\* then the window.
Attest(g) ==
    /\ launcher[g].at = "begun"
    /\ Reach(g, IF report = "LONG_RUN_READY" /\ MatchesContract /\ hour = "open" THEN "attested" ELSE "refused")
    /\ UNCHANGED <<hour, tree, bound, report, gate, gateRoot, record, part, blunders, repaired, certificate>>

\* No other component on the host, no process on the GPU, and the window
\* again, since these checks take time.
Quiesce(g) ==
    \E quiet \in BOOLEAN :
        /\ launcher[g].at = "attested"
        /\ HostQuiet(quiet)
        /\ Reach(g, IF quiet /\ hour = "open" THEN "cleared" ELSE "refused")
        /\ UNCHANGED <<hour, tree, bound, report, gate, gateRoot, record, part, blunders, repaired, certificate>>

\* An empty evidence root.
FindRoot(g) ==
    /\ launcher[g].at = "cleared"
    /\ Reach(g, IF RootEmpty THEN "rooted" ELSE "refused")
    /\ UNCHANGED <<hour, tree, bound, report, gate, gateRoot, record, part, blunders, repaired, certificate>>

\* The directories and the launch intent; both overwrite what another
\* launcher has written since the root was found empty.
Intend(g) ==
    /\ launcher[g].at = "rooted"
    /\ record' = [st |-> "STARTING", by |-> g]
    /\ blunders' = [blunders EXCEPT !.raced = @ \/ record.st # "none"]
    /\ Reach(g, "starting")
    /\ UNCHANGED <<hour, tree, bound, report, gate, gateRoot, part, repaired, certificate>>

\* The next component: its log is opened exclusively, then its process begins.
StartNext(g) ==
    /\ launcher[g].at = "starting" /\ launcher[g].n < 5
    /\ LET p == Components[launcher[g].n + 1] IN
        IF part[p].st # "none"
        THEN Cleanup(g)
        ELSE /\ part' = [part EXCEPT ![p] = [st |-> "booting", by |-> g, on |-> "unread"]]
             /\ launcher' = [launcher EXCEPT ![g] = [at |-> "awaiting", n |-> @.n + 1]]
    /\ UNCHANGED <<hour, tree, bound, report, gate, gateRoot, record, blunders, repaired, certificate>>

\* After the watchdog's status the first four are validated, after the
\* scheduler's its own: alive, identified and active.
Validated(n) == \A i \in 1..5 : (n = 5 /\ i = 5) \/ (n = 4 /\ i <= 4) => part[Components[i]].st = "live"

\* The status a component owes within 120 seconds; a silent or dead one fails
\* the launch.
Await(g) ==
    /\ launcher[g].at = "awaiting"
    /\ LET n == launcher[g].n IN
       IF part[Components[n]].st = "live" /\ Validated(n) THEN Reach(g, IF n = 5 THEN "started" ELSE "starting") /\ UNCHANGED part ELSE Cleanup(g)
    /\ UNCHANGED <<hour, tree, bound, report, gate, gateRoot, record, blunders, repaired, certificate>>

\* The final record; when it cannot be written everything is taken down.
Announce(g) ==
    /\ launcher[g].at = "started"
    /\ \/ record' = [st |-> "RUNNING", by |-> g] /\ Reach(g, "RUNNING") /\ UNCHANGED part
       \/ Cleanup(g) /\ UNCHANGED record
    /\ UNCHANGED <<hour, tree, bound, report, gate, gateRoot, blunders, repaired, certificate>>

---------------------------------------------------------------------------
(* The components, the operators and the end.                              *)

\* Collector, candidate, linker and watchdog compare HEAD, runtime and their
\* own code with the contract before their first status; the scheduler
\* compares nothing.  The linker refuses the launcher's --outcome-root.
Boots(p) == /\ p = "scheduler" \/ tree = bound
            /\ p \in {"outcomes", "scheduler"} => repaired

Boot(p) ==
    /\ part[p].st = "booting"
    /\ part' = [part EXCEPT ![p].st = IF Boots(p) THEN "live" ELSE "exited", ![p].on = tree]
    /\ UNCHANGED <<hour, tree, bound, report, gate, launcher, gateRoot, record, blunders, repaired, certificate>>

\* A component dies on its own.
Exit(p) ==
    /\ Runs(p) /\ blunders.kills < MaxKills
    /\ part' = [part EXCEPT ![p].st = "exited"]
    /\ blunders' = [blunders EXCEPT !.kills = @ + 1]
    /\ UNCHANGED <<hour, tree, bound, report, gate, launcher, gateRoot, record, repaired, certificate>>

\* A launcher dies: its components are sessions of their own and go on.
LauncherDies(g) ==
    /\ launcher[g].at \notin {"none", "RUNNING", "refused", "died"} /\ blunders.kills < MaxKills
    /\ Reach(g, "died")
    /\ blunders' = [blunders EXCEPT !.kills = @ + 1]
    /\ UNCHANGED <<hour, tree, bound, report, gate, gateRoot, record, part, repaired, certificate>>

\* A gate dies: the lock goes, its launcher goes on.
GateDies(g) ==
    /\ gate[g] \in {"waiting", "delegated"} /\ blunders.kills < MaxKills
    /\ gate' = [gate EXCEPT ![g] = "died"]
    /\ gateRoot' = [gateRoot EXCEPT !.lock = 0]
    /\ blunders' = [blunders EXCEPT !.kills = @ + 1]
    /\ UNCHANGED <<hour, tree, bound, report, launcher, record, part, repaired, certificate>>

Edit ==
    /\ blunders.edits < MaxEdits
    /\ tree' = IF tree = "frozen" THEN "edited" ELSE "frozen"
    /\ blunders' = [blunders EXCEPT !.edits = @ + 1]
    /\ UNCHANGED <<hour, bound, report, gate, launcher, gateRoot, record, part, repaired, certificate>>

Later ==
    /\ hour # "missed"
    /\ hour' = IF hour = "before" THEN "open" ELSE "missed"
    /\ UNCHANGED <<tree, bound, report, gate, launcher, gateRoot, record, part, blunders, repaired, certificate>>

\* What the auditor asks of identities: HEAD; the last status of collector,
\* candidate, linker and watchdog; the manifests of the first two; a launch
\* record that is RUNNING; and the scheduler's status with its code hash.
HeadIssues == tree # bound
StatusIssues == \E p \in Parts \ {"scheduler"} : part[p].st # "live"
ManifestIssues == \E p \in {"collector", "candidate"} : part[p].on # bound
RecordIssues == record.st # "RUNNING" \/ ~repaired
SchedulerIssues == part["scheduler"].st # "live" \/ tree # bound

Audit ==
    /\ hour = "missed" /\ certificate = "none" /\ record.st # "none"
    /\ \A g \in Gates : launcher[g].at \in {"none", "RUNNING", "refused", "died"}
    /\ certificate' = IF HeadIssues \/ StatusIssues \/ ManifestIssues \/ RecordIssues \/ SchedulerIssues
                      THEN "REFUSED" ELSE "CERTIFIED"
    /\ UNCHANGED <<hour, tree, bound, report, gate, launcher, gateRoot, record, part, blunders, repaired>>

LaunchNext ==
    \/ Preregister \/ ReleasePreflight \/ LaunchPreflight \/ Edit \/ Later \/ Audit
    \/ \E g \in Gates : \/ Arm(g) \/ Lock(g) \/ Delegate(g) \/ Direct(g) \/ Conclude(g)
                        \/ Attest(g) \/ Quiesce(g) \/ FindRoot(g) \/ Intend(g)
                        \/ StartNext(g) \/ Await(g) \/ Announce(g)
                        \/ LauncherDies(g) \/ GateDies(g)
    \/ \E p \in Parts : Boot(p) \/ Exit(p)

LaunchSpec == LaunchInit /\ [][LaunchNext]_launchVars

---------------------------------------------------------------------------
Rows == {gateRoot.rows[i] : i \in DOMAIN gateRoot.rows}

\* The type invariant: contracts, reports, gate states, gate events and the
\* launch record are of the code's kinds, and only the gate that waits holds
\* the lock.
LaunchTypeOK ==
    /\ tree \in Trees /\ bound \in Contracts \cup {"none"}
    /\ report \in ReleaseReports \cup LaunchReports \cup {"none"}
    /\ \A g \in Gates : gate[g] \in GateStates
    /\ Rows \subseteq Gates \X GateEvents
    /\ gateRoot.lock # 0 => gate[gateRoot.lock] \in {"waiting", "delegated"}
    /\ record = [st |-> "none"] \/ record \in LaunchRecords

\* What the launch leaves behind is true, whoever raced or died.
\* - LAUNCHED in the gate's events means that this gate's launcher saw all
\*   five components live, each started by it and, but for the scheduler,
\*   on the frozen checkout; and launch.json says so unless another
\*   launcher overwrote it.
\* - NOT_LAUNCHED means that nothing this launcher started still runs,
\*   unless the launcher died or the gate could not write its logs.
\* - a certificate is given only to such a launch.
LaunchTellsTheTruth ==
    /\ \A g \in Gates : <<g, "LAUNCHED">> \in Rows =>
          /\ \A p \in Parts : part[p].st # "none" /\ part[p].by = g
          /\ \A p \in Parts \ {"scheduler"} : part[p].on = bound
          /\ record = [st |-> "RUNNING", by |-> g] \/ blunders.raced
    /\ \A g \in Gates : <<g, "NOT_LAUNCHED">> \in Rows =>
          \/ launcher[g].at = "died" \/ g \in blunders.logs
          \/ \A p \in Parts : part[p].st # "none" /\ part[p].by = g => ~Runs(p)
    /\ certificate = "CERTIFIED" =>
          /\ \A p, q \in Parts : part[p].by = part[q].by
          /\ \A p \in Parts \ {"scheduler"} : part[p].on = "frozen"
=============================================================================
