----------------------------- MODULE EvidenceRun -----------------------------
(***************************************************************************)
(* The evidence scripts of Phases 0 and 1: a drill in a directory of its   *)
(* own, one immutable report, and a pointer latest.json that every run     *)
(* under the same root replaces through one shared temporary file.  Three  *)
(* drills are modelled: the provider recovery with its configuration       *)
(* rollback, read-only probe and fresh child process, the local rebuild,   *)
(* and the archive qualification, whose work is module Archive.            *)
(***************************************************************************)
EXTENDS Naturals, Sequences

CONSTANTS
    EvidenceRuns,      \* runs under one output root
    EvidenceKinds,     \* subset of {"recovery", "rebuild", "archive"}
    ReadOnlyOperations,\* number of operations of the read contract
    MaxDrillFaults     \* bound on failing steps and deaths

ASSUME EvidenceAssumption ==
    /\ EvidenceRuns \subseteq Nat \ {0} /\ ReadOnlyOperations \in Nat \ {0}
    /\ EvidenceKinds \subseteq {"recovery", "rebuild", "archive"} /\ MaxDrillFaults \in Nat

VARIABLES
    kind,         \* the script that is run
    run,          \* per run: [pc, step, ok]
    restartChild, \* per run: [pc, read, st, file] of the child process
    reportFile,   \* per run: the report file, "none", "torn", "passed" or "failed"
    tmp,          \* inode of the shared temporary file, named by its creator, or 0
    latest,       \* inode of latest.json, or 0
    inode,        \* per inode: the run its pointer names, or 0 when it is empty
    handle,       \* per run: the inode it has open, or 0
    drillFaults

pointerVars  == <<tmp, latest, inode, handle>>
evidenceVars == <<kind, run, restartChild, reportFile, pointerVars, drillFaults>>

DrillFault(bad) ==
    IF bad THEN drillFaults < MaxDrillFaults /\ drillFaults' = drillFaults + 1
    ELSE UNCHANGED drillFaults

Goto(r, pc)      == run' = [run EXCEPT ![r].pc = pc]
Conclude(r, ok)  == run' = [run EXCEPT ![r].pc = "report", ![r].ok = ok]

-----------------------------------------------------------------------------
(* The drills *)

\* _configuration_rollback, as the writes of ConfigBundleStore.
Rollback == <<"create", "create", "log", "initial", "log", "revision", "log", "initial">>

\* The bundle the pointer of the deployed state names after n of these writes.
ActiveBundle(n) ==
    LET pointed == {i \in 1..n : Rollback[i] \in {"initial", "revision"}}
    IN  IF pointed = {} THEN "none" ELSE Rollback[CHOOSE i \in pointed : \A j \in pointed : j <= i]

Read == [i \in 1..ReadOnlyOperations |-> "read"]

Work == IF kind = "recovery" THEN Rollback \o Read \o <<"restart">>
        ELSE IF kind = "rebuild" THEN Rollback \o <<"deployed lake", "rebuilt lake">>
        ELSE <<"archive">>

AtWork(r, what) ==
    run[r].pc = "work" /\ run[r].step \in DOMAIN Work /\ Work[run[r].step] = what

\* The run directory is new; its id is looked for, not reserved.
StartEvidence(r) ==
    /\ run[r].pc = "idle" /\ Goto(r, "work")
    /\ UNCHANGED <<kind, restartChild, reportFile, pointerVars, drillFaults>>

\* One write or read of the drill.  The recovery reports what raises, the rebuild ends
\* without a report, the archive concludes "failed" on its own.
WorkStep(r, bad) ==
    /\ run[r].pc = "work" /\ run[r].step \in DOMAIN Work /\ Work[run[r].step] # "restart"
    /\ DrillFault(bad)
    /\ IF bad
       THEN IF kind = "rebuild" THEN Goto(r, "raised") ELSE Conclude(r, FALSE)
       ELSE IF run[r].step < Len(Work) THEN run' = [run EXCEPT ![r].step = @ + 1]
       ELSE Conclude(r, TRUE)
    /\ UNCHANGED <<kind, restartChild, reportFile, pointerVars>>

\* _run_restart_child: a fresh process that inherits nothing but its arguments.
SpawnChild(r) ==
    /\ AtWork(r, "restart") /\ restartChild[r].pc = "none"
    /\ restartChild' = [restartChild EXCEPT ![r].pc = "check"]
    /\ UNCHANGED <<kind, run, reportFile, pointerVars, drillFaults>>

ChildAlive(r) == restartChild[r].pc \in {"check", "probe", "open", "write", "exit"}

\* The pointer must name the expected bundle after the process boundary.
ChildChecks(r) ==
    /\ restartChild[r].pc = "check"
    /\ restartChild' = [restartChild EXCEPT ![r].pc =
         IF ActiveBundle(Len(Rollback)) = "initial" THEN "probe" ELSE "open"]
    /\ UNCHANGED <<kind, run, reportFile, pointerVars, drillFaults>>

\* A probe that goes on after a failure and reports its last operation.
ChildProbesOn(r, bad) ==
    /\ restartChild[r].pc = "probe" /\ DrillFault(bad)
    /\ restartChild' = [restartChild EXCEPT ![r] =
         [@ EXCEPT !.read = IF bad THEN @ ELSE @ + 1, !.pc = IF bad THEN "probe" ELSE "open",
                   !.st = IF bad THEN "failed" ELSE "passed"]]
    /\ UNCHANGED <<kind, run, reportFile, pointerVars>>

\* _read_only_probe stops at the first operation that fails.
ChildProbes(r, bad) ==
    /\ restartChild[r].pc = "probe" /\ DrillFault(bad)
    /\ LET c == restartChild[r]
           all == ~ bad /\ c.read + 1 = ReadOnlyOperations
       IN  restartChild' = [restartChild EXCEPT ![r] =
             [c EXCEPT !.read = IF bad THEN @ ELSE @ + 1,
                       !.pc = IF bad \/ all THEN "open" ELSE "probe",
                       !.st = IF all THEN "passed" ELSE "failed"]]
    /\ UNCHANGED <<kind, run, reportFile, pointerVars>>

\* _write_immutable_json of the child's report, then the exit code.
ChildReports(r) ==
    /\ restartChild[r].pc \in {"open", "write", "exit"}
    /\ restartChild' = [restartChild EXCEPT ![r] =
         CASE restartChild[r].pc = "open"  -> [@ EXCEPT !.pc = "write", !.file = "torn"]
           [] restartChild[r].pc = "write" -> [@ EXCEPT !.pc = "exit", !.file = restartChild[r].st]
           [] restartChild[r].pc = "exit"  -> [@ EXCEPT !.pc = "exited"]]
    /\ UNCHANGED <<kind, run, reportFile, pointerVars, drillFaults>>

ChildDies(r) ==
    /\ ChildAlive(r) /\ DrillFault(TRUE)
    /\ restartChild' = [restartChild EXCEPT ![r].pc = "killed"]
    /\ UNCHANGED <<kind, run, reportFile, pointerVars>>

\* subprocess.run kills a child that is late; whatever it has written is not read.
ChildTimesOut(r) ==
    /\ AtWork(r, "restart") /\ ChildAlive(r) /\ DrillFault(TRUE)
    /\ restartChild' = [restartChild EXCEPT ![r].pc = "killed"] /\ Conclude(r, FALSE)
    /\ UNCHANGED <<kind, reportFile, pointerVars>>

\* Exit code and report must both say that it passed.
JudgeChild(r) ==
    /\ AtWork(r, "restart") /\ restartChild[r].pc \in {"exited", "killed"}
    /\ Conclude(r, restartChild[r].pc = "exited" /\ restartChild[r].file = "passed")
    /\ UNCHANGED <<kind, restartChild, reportFile, pointerVars, drillFaults>>

-----------------------------------------------------------------------------
(* The publication *)

\* _write_immutable_json creates the file and then writes it.
CreateReport(r) ==
    /\ run[r].pc = "report" /\ reportFile' = [reportFile EXCEPT ![r] = "torn"] /\ Goto(r, "write")
    /\ UNCHANGED <<kind, restartChild, pointerVars, drillFaults>>

WriteReport(r) ==
    /\ run[r].pc = "write" /\ Goto(r, "open")
    /\ reportFile' = [reportFile EXCEPT ![r] = IF run[r].ok THEN "passed" ELSE "failed"]
    /\ UNCHANGED <<kind, restartChild, pointerVars, drillFaults>>

\* open("w") truncates the temporary file another run may be writing.
OpenPointer(r) ==
    LET i == IF tmp = 0 THEN r ELSE tmp
    IN  /\ run[r].pc = "open" /\ Goto(r, "point")
        /\ tmp' = i /\ handle' = [handle EXCEPT ![r] = i] /\ inode' = [inode EXCEPT ![i] = 0]
        /\ UNCHANGED <<kind, restartChild, reportFile, latest, drillFaults>>

\* The handle stays with its file when another run has renamed it.
WritePointer(r) ==
    /\ run[r].pc = "point" /\ Goto(r, "replace") /\ inode' = [inode EXCEPT ![handle[r]] = r]
    /\ UNCHANGED <<kind, restartChild, reportFile, tmp, latest, handle, drillFaults>>

\* os.replace raises when another run has taken the file away.
ReplacePointer(r) ==
    /\ run[r].pc = "replace"
    /\ IF tmp = 0 THEN Goto(r, "raised") /\ UNCHANGED <<tmp, latest>>
       ELSE Goto(r, "done") /\ latest' = tmp /\ tmp' = 0
    /\ UNCHANGED <<kind, restartChild, reportFile, inode, handle, drillFaults>>

EvidenceDies(r) ==
    /\ run[r].pc \notin {"idle", "done", "raised", "dead"} /\ DrillFault(TRUE) /\ Goto(r, "dead")
    /\ UNCHANGED <<kind, restartChild, reportFile, pointerVars>>

EvidenceInit ==
    /\ kind \in EvidenceKinds
    /\ run = [r \in EvidenceRuns |-> [pc |-> "idle", step |-> 1, ok |-> FALSE]]
    /\ restartChild = [r \in EvidenceRuns |->
         [pc |-> "none", read |-> 0, st |-> "failed", file |-> "none"]]
    /\ reportFile = [r \in EvidenceRuns |-> "none"] /\ tmp = 0 /\ latest = 0
    /\ inode = [r \in EvidenceRuns |-> 0] /\ handle = [r \in EvidenceRuns |-> 0]
    /\ drillFaults = 0

EvidenceNext == \E r \in EvidenceRuns :
    \/ StartEvidence(r) \/ \E bad \in BOOLEAN : WorkStep(r, bad) \/ ChildProbes(r, bad)
    \/ SpawnChild(r) \/ ChildChecks(r) \/ ChildReports(r) \/ ChildDies(r)
    \/ ChildTimesOut(r) \/ JudgeChild(r)
    \/ CreateReport(r) \/ WriteReport(r)
    \/ OpenPointer(r) \/ WritePointer(r) \/ ReplacePointer(r) \/ EvidenceDies(r)

EvidenceSpec == EvidenceInit /\ [][EvidenceNext]_evidenceVars

-----------------------------------------------------------------------------
\* Runs that have had the temporary file open.
Publishers == {r \in EvidenceRuns : handle[r] # 0}

\* A passed recovery report means that both processes read everything and the child's own
\* report is whole.  latest.json names a run whose report is on disk complete; it is empty
\* only while, or after, another run truncated the file its publisher had written; and the
\* run that was told it has published is the one it names unless another published too.
PublishedEvidenceHolds ==
    /\ \A r \in EvidenceRuns : reportFile[r] = "passed" /\ kind = "recovery" =>
         /\ run[r].step = Len(Work)
         /\ restartChild[r].read = ReadOnlyOperations /\ restartChild[r].file = "passed"
    /\ latest # 0 =>
         IF inode[latest] # 0 THEN reportFile[inode[latest]] \in {"passed", "failed"}
         ELSE \E r \in Publishers :
                 handle[r] = latest /\ run[r].pc \in {"point", "dead"} /\ Publishers # {r}
    /\ \A r \in EvidenceRuns : run[r].pc = "done" =>
         latest # 0 /\ (Publishers = {r} => inode[latest] = r)
=============================================================================
