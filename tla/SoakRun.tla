------------------------------- MODULE SoakRun -------------------------------
(***************************************************************************)
(* The durable paper soak: DurablePaperSoakRunner appends one record per   *)
(* decision cycle to an evidence root until sixty days are over, through   *)
(* crashes and restarts; PaperSoakController keeps the samples it judges   *)
(* in memory and in the ledger.  One tick stands for the sample interval.  *)
(*                                                                         *)
(* Two processes over one root, each constructed with its own config.  The *)
(* decision cycle is the caller's: here only that it ran.                  *)
(***************************************************************************)
EXTENDS Naturals, Sequences, FiniteSets

CONSTANTS
    SoakConfigs,    \* the run configurations processes are constructed with
    SoakTarget,     \* required_calendar_days, in ticks after started_at
    MaxSoakTicks,   \* bound on the clock
    MaxSoakFaults   \* bound on deaths and failing writes

ASSUME SoakAssumption ==
    /\ SoakTarget \in Nat \ {0} /\ MaxSoakTicks \in Nat /\ MaxSoakFaults \in Nat

Runners == {1, 2}

VARIABLES
    soakClock,
    soakConfig,   \* config.json: {} or the one configuration in it
    soakLog,      \* samples.jsonl: [config, at, clean]
    soakTorn,     \* its last line was cut short
    soakSummary,  \* summary.json: {} or the configuration it is about
    soakFile,     \* the state in status.json
    soaker,       \* runner -> [pc, config, limit, now]
    cyclesRun,    \* decision cycles that were run
    board,        \* the controller: [memory, ledger], each a set of samples
    soakFaults

soakVars == <<soakClock, soakConfig, soakLog, soakTorn, soakSummary, soakFile, soaker, cyclesRun, board, soakFaults>>

OffSoaker == [pc |-> "off", config |-> 0, limit |-> 0, now |-> 0]

SoakInit ==
    /\ soakClock = 0 /\ soakConfig = {} /\ soakLog = <<>> /\ soakTorn = FALSE
    /\ soakSummary = {} /\ soakFile = "none"
    /\ soaker = [p \in Runners |-> OffSoaker] /\ cyclesRun = 0
    /\ board = [memory |-> {}, ledger |-> {}] /\ soakFaults = 0

SoakFault == soakFaults < MaxSoakFaults /\ soakFaults' = soakFaults + 1
LastAt == IF soakLog = <<>> THEN 0 ELSE soakLog[Len(soakLog)].at
At(p, pc) == soaker[p].pc = pc
Goes(p, pc) == soaker' = [soaker EXCEPT ![p].pc = pc]
Ends(p) == soaker' = [soaker EXCEPT ![p] = OffSoaker]
SoakEvidence == <<soakConfig, soakLog, soakTorn, soakSummary, soakFile>>

---------------------------------------------------------------------------
(* Construction and lock.                                                  *)

\* __init__ looks for config.json: another one there is refused.
SoakConstruct(p, c, limit) ==
    /\ At(p, "off") /\ soakConfig \subseteq {c} /\ soakClock > 0
    /\ soaker' = [soaker EXCEPT ![p] = [OffSoaker EXCEPT !.pc = IF soakConfig = {} THEN "writing" ELSE "made",
                                                         !.config = c, !.limit = limit]]
    /\ UNCHANGED <<soakClock, SoakEvidence, cyclesRun, board, soakFaults>>

\* The replacement after the look: a second constructor that also found
\* nothing puts its own configuration over the first one.
SoakConfigure(p) ==
    /\ At(p, "writing")
    /\ soakConfig' = {soaker[p].config} /\ Goes(p, "made")
    /\ UNCHANGED <<soakClock, soakLog, soakTorn, soakSummary, soakFile, cyclesRun, board, soakFaults>>

\* run: the lock or nothing; then the log must read and belong to the config.
SoakLockFree == \A q \in Runners : soaker[q].pc \in {"off", "writing", "made"}
Readable(p) == ~soakTorn /\ \A i \in DOMAIN soakLog : soakLog[i].config = soaker[p].config

SoakLock(p) ==
    /\ At(p, "made")
    /\ IF SoakLockFree /\ Readable(p) THEN Goes(p, "top") ELSE Ends(p)
    /\ UNCHANGED <<soakClock, SoakEvidence, cyclesRun, board, soakFaults>>

---------------------------------------------------------------------------
(* The loop.                                                               *)

\* A plausible slip: a resumed run does not look at what it already has.
DoneNever(p) == soakLog # <<>> /\ soaker[p].now >= SoakTarget + 1

\* A terminal record, or enough of them for a bounded run.
SoakDone(p) ==
    \/ soakLog # <<>> /\ LastAt >= SoakTarget + 1
    \/ soaker[p].limit > 0 /\ Len(soakLog) >= soaker[p].limit

\* The clock may not stand still between two records.
SoakTop(p) ==
    /\ At(p, "top")
    /\ IF SoakDone(p) THEN Goes(p, "finish")
       ELSE IF soakLog # <<>> /\ soakClock <= LastAt THEN Ends(p)
       ELSE soaker' = [soaker EXCEPT ![p].pc = "cycle", ![p].now = soakClock]
    /\ UNCHANGED <<soakClock, SoakEvidence, cyclesRun, board, soakFaults>>

\* The decision cycle runs, then its record is appended; either may fail, the
\* append with half a line on disk.
SoakCycle(p) ==
    /\ At(p, "cycle") /\ cyclesRun' = cyclesRun + 1
    /\ \/ /\ \E clean \in BOOLEAN :
                soakLog' = Append(soakLog, [config |-> soaker[p].config, at |-> soaker[p].now, clean |-> clean])
          /\ Goes(p, "recorded") /\ UNCHANGED <<soakTorn, soakFile, soakFaults>>
       \/ /\ SoakFault /\ soakTorn' \in BOOLEAN
          /\ soakFile' = "failed" /\ Ends(p) /\ UNCHANGED soakLog
    /\ UNCHANGED <<soakClock, soakConfig, soakSummary, board>>

\* The running status, the two exits, and the sleep.
SoakRecorded(p) ==
    /\ At(p, "recorded")
    /\ soakFile' = "running" /\ Goes(p, IF SoakDone(p) THEN "finish" ELSE "sleep")
    /\ UNCHANGED <<soakClock, soakConfig, soakLog, soakTorn, soakSummary, cyclesRun, board, soakFaults>>

SoakWakes(p) ==
    /\ At(p, "sleep") /\ soakClock > soaker[p].now /\ Goes(p, "top")
    /\ UNCHANGED <<soakClock, SoakEvidence, cyclesRun, board, soakFaults>>

\* Only a terminal run writes summary.json, once and before its status.
SoakSummarise(p) ==
    /\ At(p, "finish") /\ Goes(p, "ended")
    /\ soakSummary' = IF LastAt >= SoakTarget + 1 THEN {soaker[p].config} ELSE soakSummary
    /\ UNCHANGED <<soakClock, soakConfig, soakLog, soakTorn, soakFile, cyclesRun, board, soakFaults>>

SoakSaysEnd(p) ==
    /\ At(p, "ended") /\ Ends(p)
    /\ soakFile' = IF LastAt >= SoakTarget + 1 THEN "completed_60_calendar_days" ELSE "short_smoke_complete"
    /\ UNCHANGED <<soakClock, soakConfig, soakLog, soakTorn, soakSummary, cyclesRun, board, soakFaults>>

SoakDies(p) ==
    /\ ~At(p, "off") /\ SoakFault
    /\ soakTorn' \in IF At(p, "cycle") THEN BOOLEAN ELSE {soakTorn}
    /\ Ends(p)
    /\ cyclesRun' \in IF At(p, "cycle") THEN {cyclesRun, cyclesRun + 1} ELSE {cyclesRun}
    /\ UNCHANGED <<soakClock, soakConfig, soakLog, soakSummary, soakFile, board>>

---------------------------------------------------------------------------
(* The controller.                                                         *)

\* record: memory first; a sample it has is not written again, also when the
\* first write raised.
BoardRecord(i) ==
    /\ soakLog[i] \notin board.memory
    /\ \/ board' = [memory |-> board.memory \cup {soakLog[i]}, ledger |-> board.ledger \cup {soakLog[i]}]
          /\ UNCHANGED soakFaults
       \/ board' = [board EXCEPT !.memory = @ \cup {soakLog[i]}] /\ SoakFault
    /\ UNCHANGED <<soakClock, SoakEvidence, soaker, cyclesRun>>

\* _hydrate.
BoardRestarts ==
    /\ board.memory # board.ledger
    /\ board' = [board EXCEPT !.memory = board.ledger]
    /\ UNCHANGED <<soakClock, SoakEvidence, soaker, cyclesRun, soakFaults>>

\* gate: whole days to the latest sample, and no sample that is not clean.
SoakGate(samples) ==
    /\ \E s \in samples : s.at >= SoakTarget + 1
    /\ \A s \in samples : s.clean

SoakTick ==
    /\ soakClock < MaxSoakTicks /\ soakClock' = soakClock + 1
    /\ UNCHANGED <<SoakEvidence, soaker, cyclesRun, board, soakFaults>>

SoakNext ==
    \/ \E p \in Runners :
          \/ \E c \in SoakConfigs, limit \in {0, 1} : SoakConstruct(p, c, limit)
          \/ SoakConfigure(p) \/ SoakLock(p) \/ SoakTop(p) \/ SoakCycle(p) \/ SoakRecorded(p)
          \/ SoakWakes(p) \/ SoakSummarise(p) \/ SoakSaysEnd(p) \/ SoakDies(p)
    \/ \E i \in DOMAIN soakLog : BoardRecord(i)
    \/ BoardRestarts \/ SoakTick

SoakSpec == SoakInit /\ [][SoakNext]_soakVars

---------------------------------------------------------------------------
\* The evidence of a soak holds through races, failures and restarts.
\* - records are of one configuration and strictly ordered in time, also when
\*   two configurations raced for config.json.
\* - nothing follows the terminal record, and a summary is about the
\*   configuration of the records and comes after the terminal one.
\* - a cycle that ran has its record, but for one per failure and the one
\*   under way.
\* - the gate cannot pass on the ledger and fail in the memory of the same
\*   process unless the write of a sample failed.
SoakEvidenceHolds ==
    /\ \A i, j \in DOMAIN soakLog :
          soakLog[i].config = soakLog[j].config /\ (i < j => soakLog[i].at < soakLog[j].at)
    /\ \A i \in DOMAIN soakLog : soakLog[i].at >= SoakTarget + 1 => i = Len(soakLog)
    /\ soakSummary # {} => soakLog # <<>> /\ LastAt >= SoakTarget + 1 /\ soakSummary = {soakLog[1].config}
    /\ soakFile = "completed_60_calendar_days" => soakSummary # {}
    /\ cyclesRun <= Len(soakLog) + soakFaults
    /\ SoakGate(board.ledger) /\ ~SoakGate(board.memory) => soakFaults > 0
=============================================================================
