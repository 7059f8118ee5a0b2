--------------------------- MODULE ResearchProofs ---------------------------
(***************************************************************************)
(* Proofs about components of the research suite, for every value of their *)
(* constants: the rows of a durable flow, the evidence its scripts         *)
(* publish, the capabilities that are active, the soak's summary, the      *)
(* artifacts that lake, archive and rebuild hand over, and the verdicts of *)
(* the canary.                                                             *)
(***************************************************************************)
EXTENDS Forward, Canary, Archive, DurableFlow, EvidenceRun, Capability, SoakRun, SharedLemmas, SequenceTheorems

---------------------------------------------------------------------------
(* DurableFlow *)

FlowTypeOK ==
    /\ flow \in [pc : FlowEvents \cup {"task", "succeeded", "failed", "end"}, attempt : Nat]
    /\ flowRows \subseteq [event : FlowEvents, attempt : Nat]
    /\ done \subseteq Nat /\ finished \subseteq done /\ IsFiniteSet(finished)
    /\ returned \in {"none", "succeeded", "failed", "raised"}
    /\ flowFaults \in Nat

\* run never looks back: what is written or done is of this attempt or an
\* earlier one.
NothingAhead ==
    /\ flow.pc = "flow_pending" => flow.attempt = 0
    /\ \A r \in flowRows : r.attempt <= flow.attempt
    /\ \A a \in done : a <= flow.attempt

\* The last row of this attempt's success.
SuccessRow == [event |-> "flow_succeeded", attempt |-> flow.attempt]

\* A final row is the last, and only its answer follows it.
FinalRows ==
    /\ \A r \in flowRows : r.event = "flow_succeeded" =>
          /\ flow.pc \in {"succeeded", "end"} /\ returned \in {"none", "succeeded"}
          /\ flow.pc = "end" /\ returned = "none" => flowFaults > 0
          /\ r.attempt = flow.attempt /\ r.attempt \in finished
          /\ \A q \in flowRows : q.event # "flow_failed"
    /\ \A r \in flowRows : r.event = "flow_failed" => flow.pc \in {"failed", "end"}
    /\ flow.pc = "succeeded" \/ returned = "succeeded" => SuccessRow \in flowRows
    /\ returned # "none" => flow.pc = "end"

\* Whether this attempt has had its effect depends on where run is, and an attempt
\* that took effect before this one has its row of a retry.
EffectOfAttempt ==
    /\ flow.pc = "flow_pending" => flow.attempt \notin done
    /\ flow.pc = "flow_succeeded" => flow.attempt \in finished
    /\ \A a \in done : a < flow.attempt => [event |-> "flow_retrying", attempt |-> a] \in flowRows

\* A task that returned has its row, is about to get it, or lost it to a fault.
LostRows ==
    /\ flow.pc = "flow_succeeded" => Cardinality(finished \ SuccessRows) <= flowFaults + 1
    /\ flow.pc # "flow_succeeded" => Cardinality(finished \ SuccessRows) <= flowFaults

FlowInv == FlowTypeOK /\ NothingAhead /\ FinalRows /\ EffectOfAttempt /\ LostRows

\* The first state of a flow satisfies the invariant.
LEMMA FlowInitInv == FlowInit => FlowInv
<1> SUFFICES ASSUME FlowInit PROVE FlowInv
  OBVIOUS
<1>1. finished \ SuccessRows = {} /\ flowFaults = 0 /\ IsFiniteSet({}) /\ Cardinality({}) = 0
  BY FS_EmptySet DEF FlowInit
<1> QED
  BY <1>1 DEF FlowInit, FlowInv, FlowTypeOK, NothingAhead, FinalRows, EffectOfAttempt, LostRows, FlowEvents

\* The attempts that wait for their row are finitely many.
LEMMA WaitingIsFinite ==
    ASSUME FlowTypeOK
    PROVE  IsFiniteSet(finished \ SuccessRows) /\ Cardinality(finished \ SuccessRows) \in Nat
BY FS_Difference, FS_CardinalityType DEF FlowTypeOK

\* A row that is written.
LEMMA FlowWritesInv ==
    ASSUME FlowInv, FlowWrites
    PROVE  FlowInv'
<1> DEFINE new == [event |-> flow.pc, attempt |-> flow.attempt]
<1> USE FlowAssumption
<1>1. /\ flow.pc \in FlowEvents /\ flowRows' = flowRows \cup {new}
      /\ new \in [event : FlowEvents, attempt : Nat]
      /\ new.event = flow.pc /\ new.attempt = flow.attempt
      /\ flow' = AfterRow /\ done' = done /\ finished' = finished /\ flowFaults' = flowFaults
      /\ returned = "none" /\ returned' = "none" /\ flow.attempt \in Nat
  BY DEF FlowWrites, FlowRow, FlowInv, FlowTypeOK, FinalRows, FlowEvents
<1> HIDE DEF new
<1>2. /\ flow.pc = "flow_pending" => flow'.pc = "flow_running" /\ flow'.attempt = 1
      /\ flow.pc = "flow_running" => flow'.pc = "task" /\ flow'.attempt = flow.attempt
      /\ flow.pc = "flow_retrying" =>
            \/ flow'.pc = "flow_running" /\ flow'.attempt = flow.attempt + 1
            \/ flow'.pc = "flow_failed" /\ flow'.attempt = flow.attempt
      /\ flow.pc = "flow_succeeded" => flow'.pc = "succeeded" /\ flow'.attempt = flow.attempt
      /\ flow.pc = "flow_failed" => flow'.pc = "failed" /\ flow'.attempt = flow.attempt
      /\ flow' \in [pc : FlowEvents \cup {"task", "succeeded", "failed", "end"}, attempt : Nat]
  BY <1>1 DEF AfterRow, FlowInv, FlowTypeOK, FlowEvents
<1>3. \A r \in flowRows : r.event \notin {"flow_succeeded", "flow_failed"}
  BY <1>1 DEF FlowInv, FinalRows, FlowEvents
<1>4. FlowTypeOK'
  BY <1>1, <1>2 DEF FlowInv, FlowTypeOK
<1>5. NothingAhead'
  BY <1>1, <1>2 DEF FlowInv, FlowTypeOK, NothingAhead, FlowEvents
<1>6. FinalRows'
  BY <1>1, <1>2, <1>3 DEF FlowInv, FlowTypeOK, FinalRows, EffectOfAttempt, FlowEvents, SuccessRow, new
<1>7. EffectOfAttempt'
  <2>1. ASSUME NEW a \in done, a < flow'.attempt
        PROVE  [event |-> "flow_retrying", attempt |-> a] \in flowRows'
    <3>1. CASE a < flow.attempt
      BY <1>1, <3>1 DEF FlowInv, EffectOfAttempt
    <3>2. CASE ~ (a < flow.attempt)
      <4>1. a = flow.attempt /\ flow.pc \in {"flow_pending", "flow_retrying"}
        BY <1>1, <1>2, <2>1, <3>2 DEF FlowInv, FlowTypeOK, NothingAhead, FlowEvents
      <4>2. flow.pc = "flow_retrying"
        BY <2>1, <4>1 DEF FlowInv, EffectOfAttempt
      <4> QED
        BY <1>1, <4>1, <4>2 DEF new
    <3> QED
      BY <3>1, <3>2
  <2> QED
    BY <1>1, <1>2, <2>1 DEF EffectOfAttempt, FlowEvents
<1>8. LostRows'
  <2>1. CASE flow.pc = "flow_succeeded"
    <3>1. SuccessRows = {} /\ SuccessRows' = {flow.attempt} /\ flow.attempt \in finished
      BY <1>1, <1>3, <2>1 DEF SuccessRows, FlowInv, EffectOfAttempt, new
    <3>2. IsFiniteSet(finished) /\ finished' \ SuccessRows' = finished \ {flow.attempt} /\ finished \ SuccessRows = finished
      BY <1>1, <3>1 DEF FlowInv, FlowTypeOK
    <3>3. Cardinality(finished \ {flow.attempt}) = Cardinality(finished) - 1 /\ Cardinality(finished) \in Nat
      BY <3>1, <3>2, FS_RemoveElement, FS_CardinalityType
    <3>4. Cardinality(finished) <= flowFaults + 1 /\ flowFaults \in Nat
      BY <2>1, <3>2 DEF FlowInv, LostRows, FlowTypeOK
    <3>5. Cardinality(finished' \ SuccessRows') = Cardinality(finished) - 1
      BY <3>2, <3>3
    <3>6. Cardinality(finished) - 1 <= flowFaults
      <4> DEFINE c == Cardinality(finished)
      <4>1. c \in Nat /\ flowFaults \in Nat /\ c <= flowFaults + 1
        BY <3>3, <3>4
      <4> HIDE DEF c
      <4>2. c - 1 <= flowFaults
        BY <4>1
      <4> QED
        BY <4>2 DEF c
    <3>7. Cardinality(finished' \ SuccessRows') <= flowFaults'
      BY <1>1, <3>5, <3>6
    <3> QED
      BY <1>2, <2>1, <3>7 DEF LostRows
  <2>2. CASE flow.pc # "flow_succeeded"
    <3>1. SuccessRows' = SuccessRows
      BY <1>1, <2>2 DEF SuccessRows
    <3>2. Cardinality(finished \ SuccessRows) <= flowFaults
      BY <2>2 DEF FlowInv, LostRows, FlowTypeOK
    <3> QED
      BY <1>1, <1>2, <2>2, <3>1, <3>2 DEF LostRows, FlowEvents
  <2> QED
    BY <2>1, <2>2
<1> QED
  BY <1>4, <1>5, <1>6, <1>7, <1>8 DEF FlowInv

\* The answer that follows a final row.
LEMMA FlowReturnsInv ==
    ASSUME FlowInv, FlowReturns
    PROVE  FlowInv'
<1>1. /\ flow.pc \in {"succeeded", "failed"} /\ returned = "none" /\ returned' = flow.pc
      /\ flow'.attempt = flow.attempt /\ flow'.pc = "end"
      /\ flow' \in [pc : FlowEvents \cup {"task", "succeeded", "failed", "end"}, attempt : Nat]
      /\ flowRows' = flowRows /\ done' = done /\ finished' = finished /\ flowFaults' = flowFaults
  BY DEF FlowReturns, FlowInv, FlowTypeOK, FinalRows
<1>2. SuccessRows' = SuccessRows /\ SuccessRow' = SuccessRow
  BY <1>1 DEF SuccessRows, SuccessRow
<1>3. FlowTypeOK' /\ NothingAhead' /\ EffectOfAttempt'
  BY <1>1 DEF FlowInv, FlowTypeOK, NothingAhead, EffectOfAttempt
<1>4. FinalRows'
  BY <1>1, <1>2 DEF FlowInv, FinalRows
<1>5. LostRows'
  BY <1>1, <1>2 DEF FlowInv, LostRows
<1> QED
  BY <1>3, <1>4, <1>5 DEF FlowInv

\* A ledger that refuses a row ends the flow where it is.
LEMMA FlowRowRaisesInv ==
    ASSUME FlowInv, FlowRowRaises
    PROVE  FlowInv'
<1>1. /\ flow.pc \in FlowEvents /\ returned = "none"
      /\ flow'.attempt = flow.attempt /\ flowFaults \in Nat
      /\ flow.pc = "flow_succeeded" => flow'.pc = "flow_retrying" /\ returned' = "none"
      /\ flow.pc # "flow_succeeded" => flow'.pc = "end" /\ returned' = "raised"
      /\ flow' \in [pc : FlowEvents \cup {"task", "succeeded", "failed", "end"}, attempt : Nat]
      /\ flowRows' = flowRows /\ done' = done /\ finished' = finished
      /\ flowFaults' = flowFaults + 1 /\ flowFaults' > 0
  BY DEF FlowRowRaises, FlowFault, RaisedRow, FlowInv, FlowTypeOK, FinalRows, FlowEvents
<1>2. FlowTypeOK' /\ NothingAhead' /\ EffectOfAttempt'
  BY <1>1 DEF FlowInv, FlowTypeOK, NothingAhead, EffectOfAttempt, FlowEvents
<1>3. FinalRows'
  BY <1>1 DEF FlowInv, FinalRows, FlowEvents
<1>4. LostRows'
  <2>1. SuccessRows' = SuccessRows /\ Cardinality(finished \ SuccessRows) \in Nat
    BY <1>1, WaitingIsFinite DEF SuccessRows, FlowInv
  <2> QED
    BY <1>1, <2>1 DEF FlowInv, LostRows
<1> QED
  BY <1>2, <1>3, <1>4 DEF FlowInv

\* A task that returns or raises moves the flow to the row of its result.
LEMMA FlowTaskInv ==
    ASSUME FlowInv, FlowTask
    PROVE  FlowInv'
<1>1. /\ flow.pc = "task" /\ flow'.attempt = flow.attempt
      /\ done' \in {done, done \cup {flow.attempt}}
      /\ \/ /\ done' = done \cup {flow.attempt} /\ finished' = finished \cup {flow.attempt}
            /\ flow'.pc = "flow_succeeded"
         \/ finished' = finished /\ flow'.pc = "flow_retrying"
      /\ flow' \in [pc : FlowEvents \cup {"task", "succeeded", "failed", "end"}, attempt : Nat]
      /\ flowRows' = flowRows /\ returned' = returned /\ flowFaults' = flowFaults
      /\ returned = "none" /\ flow.attempt \in Nat
  BY DEF FlowTask, FlowInv, FlowTypeOK, FinalRows, FlowEvents
<1>2. FlowTypeOK'
  <2>1. finished' \subseteq done' /\ done' \subseteq Nat
    BY <1>1 DEF FlowInv, FlowTypeOK
  <2>2. IsFiniteSet(finished)
    BY DEF FlowInv, FlowTypeOK
  <2>3. finished' = finished \/ finished' = finished \cup {flow.attempt}
    BY <1>1
  <2>4. IsFiniteSet(finished')
    BY <2>2, <2>3, FS_AddElement
  <2> QED
    BY <1>1, <2>1, <2>4 DEF FlowInv, FlowTypeOK
<1>3. NothingAhead' /\ EffectOfAttempt'
  BY <1>1 DEF FlowInv, NothingAhead, EffectOfAttempt
<1>4. FinalRows'
  BY <1>1 DEF FlowInv, FinalRows
<1>5. LostRows'
  <2>1. /\ SuccessRows' = SuccessRows /\ Cardinality(finished \ SuccessRows) <= flowFaults /\ flowFaults \in Nat
        /\ IsFiniteSet(finished \ SuccessRows) /\ Cardinality(finished \ SuccessRows) \in Nat
    BY <1>1, WaitingIsFinite DEF SuccessRows, FlowInv, FlowTypeOK, LostRows
  <2>2. CASE finished' = finished /\ flow'.pc = "flow_retrying"
    BY <1>1, <2>1, <2>2 DEF LostRows
  <2>3. CASE finished' = finished \cup {flow.attempt} /\ flow'.pc = "flow_succeeded"
    <3> DEFINE waiting == finished \ SuccessRows
               after == finished' \ SuccessRows'
    <3>1. after = waiting \/ (flow.attempt \notin waiting /\ after = waiting \cup {flow.attempt})
      BY <2>1, <2>3
    <3>2. IsFiniteSet(waiting) /\ Cardinality(waiting) \in Nat /\ Cardinality(waiting) <= flowFaults
      BY <2>1
    <3> HIDE DEF waiting, after
    <3>3. Cardinality(after) = Cardinality(waiting) \/ Cardinality(after) = Cardinality(waiting) + 1
      BY <3>1, <3>2, FS_AddElement
    <3>4. Cardinality(after) <= flowFaults + 1
      BY <2>1, <3>2, <3>3
    <3> QED
      BY <1>1, <2>3, <3>4 DEF LostRows, after
  <2> QED
    BY <1>1, <2>2, <2>3
<1> QED
  BY <1>2, <1>3, <1>4, <1>5 DEF FlowInv

\* A process that dies leaves its rows.
LEMMA FlowDiesInv ==
    ASSUME FlowInv, FlowDies
    PROVE  FlowInv'
<1>1. /\ flow.pc # "end" /\ flow'.attempt = flow.attempt /\ flow'.pc = "end"
      /\ flow' \in [pc : FlowEvents \cup {"task", "succeeded", "failed", "end"}, attempt : Nat]
      /\ flowRows' = flowRows /\ returned' = returned /\ done' = done /\ finished' = finished
      /\ flowFaults' = flowFaults + 1 /\ flowFaults' > 0 /\ returned = "none" /\ flowFaults \in Nat
  BY DEF FlowDies, FlowFault, FlowInv, FlowTypeOK, FinalRows, FlowEvents
<1>2. SuccessRows' = SuccessRows /\ Cardinality(finished \ SuccessRows) \in Nat
  BY <1>1, WaitingIsFinite DEF SuccessRows, FlowInv
<1>3. FlowTypeOK' /\ NothingAhead' /\ EffectOfAttempt'
  BY <1>1 DEF FlowInv, FlowTypeOK, NothingAhead, EffectOfAttempt
<1>4. FinalRows'
  BY <1>1 DEF FlowInv, FinalRows
<1>5. LostRows'
  BY <1>1, <1>2 DEF FlowInv, LostRows
<1> QED
  BY <1>3, <1>4, <1>5 DEF FlowInv

\* The invariant makes the rows of a flow true.
LEMMA FlowInvHoldsTrue == FlowInv => FlowRowsAreTrue
<1> SUFFICES ASSUME FlowInv PROVE FlowRowsAreTrue
  OBVIOUS
<1>1. returned = "succeeded" => SuccessRows # {}
  BY DEF FlowInv, FinalRows, SuccessRow, SuccessRows
<1>2. ASSUME NEW a \in SuccessRows
      PROVE  /\ a \in finished /\ a = flow.attempt
             /\ \A q \in flowRows : q.attempt <= a /\ q.event # "flow_failed"
             /\ returned \in {"succeeded", "none"}
             /\ returned = "none" => flow.pc = "succeeded" \/ flowFaults > 0
  <2>1. PICK r \in flowRows : r.event = "flow_succeeded" /\ r.attempt = a
    BY <1>2 DEF SuccessRows
  <2> QED
    BY <2>1 DEF FlowInv, FinalRows, NothingAhead
<1>3. ASSUME NEW a \in done, NEW r \in flowRows, r.attempt > a
      PROVE  a \notin SuccessRows /\ [event |-> "flow_retrying", attempt |-> a] \in flowRows
  <2>1. r.attempt \in Nat /\ a \in Nat /\ flow.attempt \in Nat /\ r.attempt <= flow.attempt
    BY DEF FlowInv, FlowTypeOK, NothingAhead
  <2>2. a < flow.attempt
    BY <1>3, <2>1
  <2> QED
    BY <1>2, <2>1, <2>2 DEF FlowInv, EffectOfAttempt
<1>4. flow.pc # "flow_succeeded" => Cardinality(finished \ SuccessRows) <= flowFaults
  BY DEF FlowInv, LostRows, FlowTypeOK
<1> QED
  BY <1>1, <1>2, <1>3, <1>4 DEF FlowRowsAreTrue

\* DurableFlow.run, for any number of retries and any placing of faults: what
\* the caller was told, the durable rows and the effects of the task agree.
THEOREM FlowRowsTheorem == FlowSpec => []FlowRowsAreTrue
<1>1. FlowInv /\ [FlowNext]_flowVars => FlowInv'
  <2> SUFFICES ASSUME FlowInv, [FlowNext]_flowVars PROVE FlowInv'
    OBVIOUS
  <2>1. CASE UNCHANGED flowVars
    BY <2>1 DEF flowVars, FlowInv, FlowTypeOK, NothingAhead, FinalRows, EffectOfAttempt, LostRows, SuccessRows, SuccessRow
  <2>2. CASE FlowNext
    BY <2>2, FlowWritesInv, FlowReturnsInv, FlowRowRaisesInv, FlowTaskInv, FlowDiesInv DEF FlowNext
  <2> QED
    BY <2>1, <2>2
<1> QED
  BY <1>1, FlowInitInv, FlowInvHoldsTrue, PTL DEF FlowSpec

---------------------------------------------------------------------------
(* EvidenceRun *)

RunPcs == {"idle", "work", "report", "write", "open", "point", "replace", "done", "raised", "dead"}
ChildPcs == {"none", "check", "probe", "open", "write", "exit", "exited", "killed"}
Complete == {"passed", "failed"}

EvidenceTypeOK ==
    /\ kind \in EvidenceKinds
    /\ run \in [EvidenceRuns -> [pc : RunPcs, step : Nat, ok : BOOLEAN]]
    /\ restartChild \in [EvidenceRuns -> [pc : ChildPcs, read : Nat, st : Complete,
                                          file : {"none", "torn"} \cup Complete]]
    /\ reportFile \in [EvidenceRuns -> {"none", "torn"} \cup Complete]
    /\ tmp \in EvidenceRuns \cup {0} /\ latest \in EvidenceRuns \cup {0}
    /\ inode \in [EvidenceRuns -> EvidenceRuns \cup {0}]
    /\ handle \in [EvidenceRuns -> EvidenceRuns \cup {0}]

\* What the child has said of itself is what it has read.
ChildTellsTruth(r) ==
    /\ restartChild[r].st = "passed" =>
          restartChild[r].read = ReadOnlyOperations /\ restartChild[r].pc \notin {"none", "check", "probe"}
    /\ restartChild[r].file = "passed" => restartChild[r].st = "passed"

\* A verdict is reached once, at the end of the work, and the report repeats it.
VerdictTellsTruth(r) ==
    /\ run[r].pc \in {"idle", "work"} => ~ run[r].ok
    /\ run[r].pc \in {"idle", "work", "report"} => reportFile[r] = "none"
    /\ run[r].ok /\ kind = "recovery" =>
          /\ run[r].step = Len(Work)
          /\ restartChild[r].pc = "exited" /\ restartChild[r].file = "passed"
    /\ reportFile[r] = "passed" => run[r].ok
    /\ run[r].pc \in {"open", "point", "replace", "done"} => reportFile[r] \in Complete

DrillInv == \A r \in EvidenceRuns : ChildTellsTruth(r) /\ VerdictTellsTruth(r)

\* Who has had the pointer's files open, and what they hold.
HandlesInv ==
    /\ \A r \in EvidenceRuns :
          /\ run[r].pc \in {"idle", "work", "report", "write", "open"} => handle[r] = 0
          /\ run[r].pc \in {"point", "replace", "done"} => handle[r] # 0
    /\ \A i \in EvidenceRuns : inode[i] # 0 =>
          /\ run[inode[i]].pc \in {"replace", "done", "raised", "dead"}
          /\ reportFile[inode[i]] \in Complete
    /\ \A s \in Publishers : inode[handle[s]] = 0 =>
          \E r \in Publishers : handle[r] = handle[s] /\ run[r].pc \in {"point", "dead"}

PointersInv ==
    /\ tmp # 0 => \E s \in Publishers : handle[s] = tmp
    /\ latest # 0 => \E s \in Publishers : handle[s] = latest
    /\ latest # 0 => \E s \in Publishers : run[s].pc = "done"
    /\ \A r \in EvidenceRuns : run[r].pc = "done" => latest # 0

\* A run that is alone finds the files as it left them.
AloneInv == \A r \in EvidenceRuns : Publishers = {r} =>
    /\ run[r].pc = "point" => tmp = handle[r]
    /\ run[r].pc = "replace" => tmp = handle[r] /\ inode[tmp] = r
    /\ run[r].pc = "done" => inode[latest] = r

PublishInv == HandlesInv /\ PointersInv /\ AloneInv
EvidenceInv == EvidenceTypeOK /\ DrillInv /\ PublishInv

\* What the drill of the recovery has the child do comes last, and only once.
LEMMA RestartIsLast ==
    ASSUME kind = "recovery"
    PROVE  /\ Len(Work) \in Nat /\ DOMAIN Work = 1..Len(Work)
           /\ \A i \in DOMAIN Work : Work[i] = "restart" <=> i = Len(Work)
<1> DEFINE body == Rollback \o Read
           Words == {"create", "log", "initial", "revision", "read"}
<1>1. Rollback \in Seq(Words) /\ Len(Rollback) = 8 /\ \A i \in 1..8 : Rollback[i] # "restart"
  <2>1. Len(Rollback) = 8
    BY DEF Rollback
  <2>4. Rollback \in [1..8 -> Words]
    BY DEF Rollback
  <2>5. Rollback \in Seq(Words)
    BY <2>4, SeqDef, Zenon
  <2>2. \A i \in 1..8 : i = 1 \/ i = 2 \/ i = 3 \/ i = 4 \/ i = 5 \/ i = 6 \/ i = 7 \/ i = 8
    OBVIOUS
  <2>3. /\ Rollback[1] # "restart" /\ Rollback[2] # "restart" /\ Rollback[3] # "restart"
        /\ Rollback[4] # "restart" /\ Rollback[5] # "restart" /\ Rollback[6] # "restart"
        /\ Rollback[7] # "restart" /\ Rollback[8] # "restart"
    BY DEF Rollback
  <2> QED
    BY <2>1, <2>2, <2>3, <2>5
<1>2. Read \in Seq(Words) /\ Len(Read) = ReadOnlyOperations /\ \A i \in 1..Len(Read) : Read[i] # "restart"
  <2>1. ReadOnlyOperations \in Nat
    BY EvidenceAssumption
  <2>2. Len(Read) = ReadOnlyOperations /\ \A i \in 1..ReadOnlyOperations : Read[i] = "read"
    BY <2>1 DEF Read
  <2>3. Read \in [1..ReadOnlyOperations -> Words]
    BY DEF Read
  <2>4. Read \in Seq(Words)
    BY <2>1, <2>3, SeqDef, Zenon
  <2> QED
    BY <2>2, <2>4
<1>3. /\ body \in Seq(Words) /\ Len(body) = 8 + Len(Read)
      /\ \A i \in 1..Len(body) : body[i] # "restart"
  <2>1. /\ body \in Seq(Words) /\ Len(body) = 8 + Len(Read) /\ Len(Read) \in Nat
        /\ \A i \in 1..Len(body) : body[i] = IF i <= 8 THEN Rollback[i] ELSE Read[i - 8]
    <3>1. Rollback \in Seq(Words) /\ Read \in Seq(Words) /\ Len(Rollback) = 8 /\ Len(Read) \in Nat
      BY <1>1, <1>2, EvidenceAssumption
    <3>2. /\ body \in Seq(Words) /\ Len(body) = Len(Rollback) + Len(Read)
          /\ \A i \in 1..(Len(Rollback) + Len(Read)) :
                body[i] = IF i <= Len(Rollback) THEN Rollback[i] ELSE Read[i - Len(Rollback)]
      BY <3>1, ConcatProperties, Zenon
    <3> HIDE DEF body
    <3> QED
      BY <3>1, <3>2
  <2> HIDE DEF body
  <2>2. \A i \in 1..Len(body) : i \in 1..8 \/ (i > 8 /\ i - 8 \in 1..Len(Read))
    BY <2>1
  <2> QED
    BY <1>1, <1>2, <2>1, <2>2
<1>4. Work = body \o <<"restart">>
  BY DEF Work
<1> HIDE DEF body
<1>5. /\ Len(Work) = Len(body) + 1 /\ DOMAIN Work = 1..Len(Work)
      /\ \A i \in 1..Len(body) : Work[i] = body[i]
      /\ Work[Len(body) + 1] = "restart"
  BY <1>3, <1>4
<1> QED
  BY <1>3, <1>5

\* The invariant makes the published evidence hold.
LEMMA EvidenceSuffices == EvidenceInv => PublishedEvidenceHolds
<1> SUFFICES ASSUME EvidenceInv PROVE PublishedEvidenceHolds
  OBVIOUS
<1>1. ASSUME NEW r \in EvidenceRuns, reportFile[r] = "passed", kind = "recovery"
      PROVE  /\ run[r].step = Len(Work)
             /\ restartChild[r].read = ReadOnlyOperations /\ restartChild[r].file = "passed"
  BY <1>1 DEF EvidenceInv, DrillInv, ChildTellsTruth, VerdictTellsTruth
<1>2. ASSUME latest # 0, inode[latest] # 0
      PROVE  reportFile[inode[latest]] \in {"passed", "failed"}
  BY <1>2 DEF EvidenceInv, EvidenceTypeOK, PublishInv, HandlesInv, Complete
<1>3. ASSUME latest # 0, inode[latest] = 0
      PROVE  \E r \in Publishers :
                 handle[r] = latest /\ run[r].pc \in {"point", "dead"} /\ Publishers # {r}
  <2>1. PICK s \in Publishers : handle[s] = latest
    BY <1>3 DEF EvidenceInv, PublishInv, PointersInv
  <2>2. PICK r \in Publishers : handle[r] = latest /\ run[r].pc \in {"point", "dead"}
    BY <1>3, <2>1 DEF EvidenceInv, PublishInv, HandlesInv
  <2>3. PICK t \in Publishers : run[t].pc = "done"
    BY <1>3 DEF EvidenceInv, PublishInv, PointersInv
  <2> QED
    BY <2>2, <2>3
<1>4. ASSUME NEW r \in EvidenceRuns, run[r].pc = "done"
      PROVE  latest # 0 /\ (Publishers = {r} => inode[latest] = r)
  BY <1>4 DEF EvidenceInv, PublishInv, PointersInv, AloneInv
<1> QED
  BY <1>1, <1>2, <1>3, <1>4 DEF PublishedEvidenceHolds

\* Nothing is published in the first state.
LEMMA InitEvidence == EvidenceInit => EvidenceInv
<1> SUFFICES ASSUME EvidenceInit PROVE EvidenceInv
  OBVIOUS
<1>1. EvidenceTypeOK
  BY DEF EvidenceInit, EvidenceTypeOK, RunPcs, ChildPcs, Complete
<1>2. DrillInv
  BY DEF EvidenceInit, DrillInv, ChildTellsTruth, VerdictTellsTruth
<1>3. Publishers = {}
  BY DEF EvidenceInit, Publishers
<1>4. PublishInv
  BY <1>3 DEF EvidenceInit, PublishInv, HandlesInv, PointersInv, AloneInv
<1> QED
  BY <1>1, <1>2, <1>4 DEF EvidenceInv

\* The steps of the child, and of the work, do not touch the publication.
LEMMA PublicationStays ==
    ASSUME EvidenceInv, NEW r \in EvidenceRuns, UNCHANGED pointerVars,
           \A s \in EvidenceRuns \ {r} : run'[s] = run[s] /\ reportFile'[s] = reportFile[s],
           \/ run'[r].pc = run[r].pc /\ reportFile'[r] = reportFile[r]
           \/ /\ run[r].pc \in {"idle", "work", "report", "write"}
              /\ run'[r].pc \in {"work", "report", "write", "open", "raised"}
    PROVE  PublishInv'
<1>1. Publishers' = Publishers /\ UNCHANGED <<tmp, latest, inode, handle>>
  BY DEF Publishers, pointerVars
<1>2. run[r].pc \in {"idle", "work", "report", "write"} => handle[r] = 0 /\ r \notin Publishers
  BY DEF EvidenceInv, PublishInv, HandlesInv, Publishers
<1>3. \A s \in Publishers : s \in EvidenceRuns
  BY DEF Publishers
<1>4. HandlesInv'
  <2>1. \A s \in EvidenceRuns :
          /\ run'[s].pc \in {"idle", "work", "report", "write", "open"} => handle'[s] = 0
          /\ run'[s].pc \in {"point", "replace", "done"} => handle'[s] # 0
    BY <1>1, <1>2 DEF EvidenceInv, PublishInv, HandlesInv
  <2>2. ASSUME NEW i \in EvidenceRuns, inode[i] # 0
        PROVE  /\ run'[inode[i]].pc \in {"replace", "done", "raised", "dead"}
               /\ reportFile'[inode[i]] \in Complete
    <3>1. /\ inode[i] \in EvidenceRuns /\ reportFile[inode[i]] \in Complete
          /\ run[inode[i]].pc \in {"replace", "done", "raised", "dead"}
      BY <2>2 DEF EvidenceInv, EvidenceTypeOK, PublishInv, HandlesInv
    <3> QED
      BY <3>1
  <2>3. \A s \in Publishers : inode[handle[s]] = 0 =>
          \E t \in Publishers : handle[t] = handle[s] /\ run'[t].pc \in {"point", "dead"}
    <3> SUFFICES ASSUME NEW s \in Publishers, inode[handle[s]] = 0
                 PROVE  \E t \in Publishers : handle[t] = handle[s] /\ run'[t].pc \in {"point", "dead"}
      OBVIOUS
    <3>1. PICK t \in Publishers : handle[t] = handle[s] /\ run[t].pc \in {"point", "dead"}
      BY DEF EvidenceInv, PublishInv, HandlesInv
    <3>2. run'[t].pc = run[t].pc
      BY <1>2, <1>3, <3>1
    <3> QED
      BY <3>1, <3>2
  <2> QED
    BY <1>1, <2>1, <2>2, <2>3 DEF HandlesInv
<1>5. \A s \in EvidenceRuns : (run'[s].pc = "done") <=> (run[s].pc = "done")
  OBVIOUS
<1>6. PointersInv'
  BY <1>1, <1>3, <1>5 DEF EvidenceInv, PublishInv, PointersInv
<1>7. AloneInv'
  <2> SUFFICES ASSUME NEW s \in EvidenceRuns, Publishers = {s}
               PROVE  /\ run'[s].pc = "point" => tmp = handle[s]
                      /\ run'[s].pc = "replace" => tmp = handle[s] /\ inode[tmp] = s
                      /\ run'[s].pc = "done" => inode[latest] = s
    BY <1>1 DEF AloneInv
  <2>1. run'[s].pc = run[s].pc
    BY <1>2
  <2> QED
    BY <2>1 DEF EvidenceInv, PublishInv, AloneInv
<1> QED
  BY <1>4, <1>6, <1>7 DEF PublishInv

\* Only run r, its child and its report change.
LEMMA OtherDrillsStay ==
    ASSUME EvidenceInv, NEW r \in EvidenceRuns, UNCHANGED kind,
           \A s \in EvidenceRuns \ {r} : /\ run'[s] = run[s] /\ reportFile'[s] = reportFile[s]
                                         /\ restartChild'[s] = restartChild[s],
           ChildTellsTruth(r)', VerdictTellsTruth(r)'
    PROVE  DrillInv'
<1>1. Len(Work)' = Len(Work)
  BY DEF Work
<1>2. ASSUME NEW s \in EvidenceRuns \ {r} PROVE ChildTellsTruth(s)' /\ VerdictTellsTruth(s)'
  BY <1>1, <1>2 DEF EvidenceInv, DrillInv, ChildTellsTruth, VerdictTellsTruth
<1> QED
  BY <1>2 DEF DrillInv

\* The steps of the drill: what run r and its child do before there is a report.
LEMMA WorkPreserves ==
    ASSUME EvidenceInv, NEW r \in EvidenceRuns,
           \/ StartEvidence(r) \/ (\E bad \in BOOLEAN : WorkStep(r, bad))
           \/ ChildTimesOut(r) \/ JudgeChild(r)
    PROVE  EvidenceInv'
<1> DEFINE was == run[r]
           child == restartChild[r]
<1>1. /\ was \in [pc : RunPcs, step : Nat, ok : BOOLEAN] /\ EvidenceTypeOK
      /\ child \in [pc : ChildPcs, read : Nat, st : Complete, file : {"none", "torn"} \cup Complete]
  BY DEF EvidenceInv, EvidenceTypeOK
<1>2. /\ UNCHANGED <<kind, reportFile, pointerVars>>
      /\ \A s \in EvidenceRuns \ {r} : run'[s] = run[s] /\ restartChild'[s] = restartChild[s]
      /\ restartChild' \in {restartChild, [restartChild EXCEPT ![r].pc = "killed"]}
  BY <1>1 DEF StartEvidence, WorkStep, ChildTimesOut, JudgeChild, Goto, Conclude, EvidenceTypeOK
<1>3. /\ was.pc \in {"idle", "work"}
      /\ \/ run' = [run EXCEPT ![r].pc = "work"]
         \/ run' = [run EXCEPT ![r].pc = "raised"]
         \/ run' = [run EXCEPT ![r].step = @ + 1] /\ was.pc = "work"
         \/ run' = [run EXCEPT ![r].pc = "report", ![r].ok = FALSE]
         \/ /\ run' = [run EXCEPT ![r].pc = "report", ![r].ok = TRUE]
            /\ restartChild' = restartChild
            /\ kind = "recovery" => was.step = Len(Work) /\ child.pc = "exited" /\ child.file = "passed"
  <2>1. CASE StartEvidence(r)
    BY <2>1 DEF StartEvidence, Goto
  <2>2. CASE \E bad \in BOOLEAN : WorkStep(r, bad)
    <3>1. PICK bad \in BOOLEAN : WorkStep(r, bad)
      BY <2>2
    <3>2. was.pc = "work" /\ was.step \in DOMAIN Work /\ Work[was.step] # "restart"
      BY <3>1 DEF WorkStep
    <3>3. kind = "recovery" => was.step < Len(Work)
      BY <3>2, RestartIsLast
    <3> QED
      BY <3>1, <3>2, <3>3 DEF WorkStep, Goto, Conclude
  <2>3. CASE ChildTimesOut(r)
    BY <2>3 DEF ChildTimesOut, AtWork, Conclude
  <2>4. CASE JudgeChild(r)
    <3>1. AtWork(r, "restart") /\ restartChild' = restartChild
          /\ run' = [run EXCEPT ![r].pc = "report",
                               ![r].ok = (child.pc = "exited" /\ child.file = "passed")]
      BY <2>4 DEF JudgeChild, Conclude
    <3>2. was.pc = "work" /\ (kind = "recovery" => was.step = Len(Work))
      BY <3>1, RestartIsLast DEF AtWork
    <3>3. CASE child.pc = "exited" /\ child.file = "passed"
      BY <3>1, <3>2, <3>3
    <3>4. CASE ~ (child.pc = "exited" /\ child.file = "passed")
      BY <3>1, <3>2, <3>4
    <3> QED
      BY <3>3, <3>4
  <2> QED
    BY <2>1, <2>2, <2>3, <2>4
<1>4. /\ run'[r].pc \in {"work", "report", "raised"}
      /\ run' \in [EvidenceRuns -> [pc : RunPcs, step : Nat, ok : BOOLEAN]]
      /\ run'[r].ok => \/ was.ok
                       \/ /\ run'[r].pc = "report" /\ run'[r].step = was.step /\ restartChild' = restartChild
                          /\ kind = "recovery" => was.step = Len(Work) /\ child.pc = "exited"
                                                   /\ child.file = "passed"
  <2> DEFINE Runs == [pc : RunPcs, step : Nat, ok : BOOLEAN]
  <2>1. /\ [was EXCEPT !.pc = "work"] \in Runs /\ [was EXCEPT !.pc = "raised"] \in Runs
        /\ [was EXCEPT !.step = @ + 1] \in Runs
        /\ [was EXCEPT !.pc = "report", !.ok = FALSE] \in Runs
        /\ [was EXCEPT !.pc = "report", !.ok = TRUE] \in Runs
    <3>1. \A pc \in RunPcs : [was EXCEPT !.pc = pc] \in Runs
      BY <1>1
    <3>2. [was EXCEPT !.step = @ + 1] \in Runs
      BY <1>1
    <3>3. \A pc \in RunPcs, ok \in BOOLEAN : [was EXCEPT !.pc = pc, !.ok = ok] \in Runs
      BY <1>1
    <3>4. {"work", "raised", "report"} \subseteq RunPcs
      BY DEF RunPcs
    <3> HIDE DEF Runs
    <3> QED
      BY <3>1, <3>2, <3>3, <3>4
  <2>2. /\ [was EXCEPT !.pc = "work"].pc = "work" /\ [was EXCEPT !.pc = "work"].ok = was.ok
        /\ [was EXCEPT !.pc = "raised"].pc = "raised" /\ [was EXCEPT !.pc = "raised"].ok = was.ok
        /\ [was EXCEPT !.step = @ + 1].pc = was.pc /\ [was EXCEPT !.step = @ + 1].ok = was.ok
        /\ [was EXCEPT !.pc = "report", !.ok = FALSE].pc = "report"
        /\ [was EXCEPT !.pc = "report", !.ok = FALSE].ok = FALSE
        /\ [was EXCEPT !.pc = "report", !.ok = TRUE].pc = "report"
        /\ [was EXCEPT !.pc = "report", !.ok = TRUE].step = was.step
    BY <1>1
  <2>3. run \in [EvidenceRuns -> Runs]
    BY <1>1 DEF EvidenceTypeOK
  <2>4. CASE run' = [run EXCEPT ![r] = [was EXCEPT !.pc = "work"]]
    BY <2>1, <2>2, <2>3, <2>4
  <2>5. CASE run' = [run EXCEPT ![r] = [was EXCEPT !.pc = "raised"]]
    BY <2>1, <2>2, <2>3, <2>5
  <2>6. CASE run' = [run EXCEPT ![r] = [was EXCEPT !.step = @ + 1]] /\ was.pc = "work"
    BY <2>1, <2>2, <2>3, <2>6
  <2>7. CASE run' = [run EXCEPT ![r] = [was EXCEPT !.pc = "report", !.ok = FALSE]]
    BY <2>1, <2>2, <2>3, <2>7
  <2>8. CASE run' = [run EXCEPT ![r] = [was EXCEPT !.pc = "report", !.ok = TRUE]]
    BY <1>3, <2>1, <2>2, <2>3, <2>8
  <2> QED
    BY <1>3, <2>4, <2>5, <2>6, <2>7, <2>8
<1>5. EvidenceTypeOK'
  <2>1. restartChild' \in [EvidenceRuns -> [pc : ChildPcs, read : Nat, st : Complete,
                                           file : {"none", "torn"} \cup Complete]]
    BY <1>1, <1>2 DEF EvidenceTypeOK, ChildPcs
  <2> QED
    BY <1>1, <1>2, <1>4, <2>1 DEF EvidenceTypeOK, pointerVars
<1>6. /\ restartChild'[r].st = child.st /\ restartChild'[r].file = child.file /\ restartChild'[r].read = child.read
      /\ restartChild'[r].pc \in {child.pc, "killed"}
  BY <1>1, <1>2 DEF EvidenceTypeOK
<1>7. ChildTellsTruth(r)'
  BY <1>6 DEF EvidenceInv, DrillInv, ChildTellsTruth
<1>8. VerdictTellsTruth(r)'
  <2>1. ~ was.ok /\ reportFile[r] = "none"
    BY <1>3 DEF EvidenceInv, DrillInv, VerdictTellsTruth
  <2>2. Len(Work)' = Len(Work)
    BY <1>2 DEF Work
  <2>3. run'[r].ok => /\ run'[r].pc = "report" /\ run'[r].step = was.step /\ restartChild'[r] = child
                      /\ kind = "recovery" => was.step = Len(Work) /\ child.pc = "exited"
                                               /\ child.file = "passed"
    BY <1>4, <2>1
  <2> QED
    BY <1>2, <1>4, <2>1, <2>2, <2>3 DEF VerdictTellsTruth
<1>9. DrillInv'
  BY <1>2, <1>7, <1>8, OtherDrillsStay
<1>10. PublishInv'
  BY <1>2, <1>3, <1>4, PublicationStays
<1> QED
  BY <1>5, <1>9, <1>10 DEF EvidenceInv

\* The steps of the child process of run r.
LEMMA ChildPreserves ==
    ASSUME EvidenceInv, NEW r \in EvidenceRuns,
           \/ SpawnChild(r) \/ ChildChecks(r) \/ (\E bad \in BOOLEAN : ChildProbes(r, bad))
           \/ ChildReports(r) \/ ChildDies(r)
    PROVE  EvidenceInv'
<1> DEFINE child == restartChild[r]
           now == restartChild'[r]
           Children == [pc : ChildPcs, read : Nat, st : Complete, file : {"none", "torn"} \cup Complete]
<1>1. /\ child \in Children /\ EvidenceTypeOK /\ restartChild \in [EvidenceRuns -> Children]
      /\ ChildTellsTruth(r) /\ VerdictTellsTruth(r)
  BY DEF EvidenceInv, EvidenceTypeOK, DrillInv
<1>2. /\ UNCHANGED <<kind, run, reportFile, pointerVars>>
      /\ \A s \in EvidenceRuns \ {r} : restartChild'[s] = restartChild[s]
  BY <1>1 DEF SpawnChild, ChildChecks, ChildProbes, ChildReports, ChildDies
<1>3. /\ child.pc \in {"none", "check", "probe", "open", "write", "exit"}
      /\ restartChild' \in [EvidenceRuns -> Children]
      /\ now.st = "passed" => now.read = ReadOnlyOperations /\ now.pc \notin {"none", "check", "probe"}
      /\ now.file = "passed" => now.st = "passed"
  <2>1. CASE SpawnChild(r)
    <3>1. child.pc = "none" /\ restartChild' = [restartChild EXCEPT ![r].pc = "check"]
      BY <2>1 DEF SpawnChild
    <3> QED
      BY <1>1, <3>1 DEF ChildTellsTruth, ChildPcs
  <2>2. CASE ChildChecks(r)
    <3>1. PICK pc \in {"probe", "open"} : child.pc = "check" /\ restartChild' = [restartChild EXCEPT ![r].pc = pc]
      BY <2>2 DEF ChildChecks
    <3> QED
      BY <1>1, <3>1 DEF ChildTellsTruth, ChildPcs
  <2>3. CASE \E bad \in BOOLEAN : ChildProbes(r, bad)
    <3>1. PICK bad \in BOOLEAN : ChildProbes(r, bad)
      BY <2>3
    <3> DEFINE all == ~ bad /\ child.read + 1 = ReadOnlyOperations
               next == [child EXCEPT !.read = IF bad THEN @ ELSE @ + 1,
                                     !.pc = IF bad \/ all THEN "open" ELSE "probe",
                                     !.st = IF all THEN "passed" ELSE "failed"]
    <3>2. child.pc = "probe" /\ restartChild' = [restartChild EXCEPT ![r] = next]
      BY <3>1 DEF ChildProbes
    <3>3. /\ next.read \in Nat /\ next.pc \in {"open", "probe"} /\ next.st \in Complete
          /\ next.st = "passed" => next.read = ReadOnlyOperations /\ next.pc = "open"
          /\ next.file = child.file /\ next \in Children
      <4>1. \A read \in Nat, pc \in ChildPcs, st \in Complete :
              LET c == [child EXCEPT !.read = read, !.pc = pc, !.st = st]
              IN  c.read = read /\ c.pc = pc /\ c.st = st /\ c.file = child.file /\ c \in Children
        BY <1>1
      <4>2. PICK read, pc, st : /\ read = (IF bad THEN child.read ELSE child.read + 1)
                                /\ pc = (IF bad \/ all THEN "open" ELSE "probe")
                                /\ st = (IF all THEN "passed" ELSE "failed")
        OBVIOUS
      <4>3. read \in Nat /\ pc \in {"open", "probe"} /\ st \in {"passed", "failed"}
            /\ (st = "passed" => read = ReadOnlyOperations /\ pc = "open")
        BY <1>1, <4>2
      <4>4. next = [child EXCEPT !.read = read, !.pc = pc, !.st = st]
        BY <4>2
      <4>5. pc \in ChildPcs /\ st \in Complete
        BY <4>3 DEF ChildPcs, Complete
      <4> HIDE DEF next, all
      <4> QED
        BY <4>1, <4>3, <4>4, <4>5
    <3> HIDE DEF next
    <3>4. child.file # "passed"
      BY <1>1, <3>2 DEF ChildTellsTruth
    <3> QED
      BY <1>1, <3>2, <3>3, <3>4
  <2>4. CASE ChildReports(r)
    <3>1. CASE child.pc = "open" /\ restartChild' = [restartChild EXCEPT ![r] =
                                                        [@ EXCEPT !.pc = "write", !.file = "torn"]]
      <4> DEFINE next == [child EXCEPT !.pc = "write", !.file = "torn"]
      <4>1. /\ next \in Children /\ next.pc = "write" /\ next.file = "torn"
            /\ next.st = child.st /\ next.read = child.read
        BY <1>1 DEF ChildPcs
      <4>2. restartChild' = [restartChild EXCEPT ![r] = next]
        BY <3>1
      <4> HIDE DEF next
      <4> QED
        BY <1>1, <3>1, <4>1, <4>2 DEF ChildTellsTruth
    <3>2. CASE child.pc = "write" /\ restartChild' = [restartChild EXCEPT ![r] =
                                                         [@ EXCEPT !.pc = "exit", !.file = child.st]]
      <4> DEFINE next == [child EXCEPT !.pc = "exit", !.file = child.st]
      <4>1. /\ next \in Children /\ next.pc = "exit" /\ next.file = child.st
            /\ next.st = child.st /\ next.read = child.read
        BY <1>1 DEF ChildPcs, Complete
      <4>2. restartChild' = [restartChild EXCEPT ![r] = next]
        BY <3>2
      <4> HIDE DEF next
      <4> QED
        BY <1>1, <3>2, <4>1, <4>2 DEF ChildTellsTruth
    <3>3. CASE child.pc = "exit" /\ restartChild' = [restartChild EXCEPT ![r] = [@ EXCEPT !.pc = "exited"]]
      BY <1>1, <3>3 DEF ChildTellsTruth, ChildPcs
    <3>4. child.pc \in {"open", "write", "exit"}
      BY <2>4 DEF ChildReports
    <3> QED
      BY <2>4, <3>1, <3>2, <3>3, <3>4 DEF ChildReports
  <2>5. CASE ChildDies(r)
    <3>1. child.pc \in {"check", "probe", "open", "write", "exit"}
          /\ restartChild' = [restartChild EXCEPT ![r].pc = "killed"]
      BY <2>5 DEF ChildDies, ChildAlive
    <3> QED
      BY <1>1, <3>1 DEF ChildTellsTruth, ChildPcs
  <2> QED
    BY <2>1, <2>2, <2>3, <2>4, <2>5
<1>4. EvidenceTypeOK'
  BY <1>1, <1>2, <1>3 DEF EvidenceTypeOK, pointerVars
<1>5. ChildTellsTruth(r)'
  BY <1>3 DEF ChildTellsTruth
\* No verdict rests on this child yet.
<1>6. VerdictTellsTruth(r)'
  <2>1. Len(Work)' = Len(Work)
    BY <1>2 DEF Work
  <2>2. ~ (run[r].ok /\ kind = "recovery")
    BY <1>1, <1>3 DEF VerdictTellsTruth
  <2> QED
    BY <1>1, <1>2, <2>1, <2>2 DEF VerdictTellsTruth
<1>7. DrillInv'
  BY <1>2, <1>5, <1>6, OtherDrillsStay
<1>8. PublishInv'
  BY <1>2, PublicationStays
<1> QED
  BY <1>4, <1>7, <1>8 DEF EvidenceInv

\* A run with a verdict moves on: verdict and child stay as they are.
LEMMA RunMoves ==
    ASSUME EvidenceInv, NEW r \in EvidenceRuns, NEW pc \in RunPcs \ {"idle", "work", "report"},
           run' = [run EXCEPT ![r].pc = pc], UNCHANGED <<kind, restartChild>>,
           reportFile' \in [EvidenceRuns -> {"none", "torn"} \cup Complete],
           \A s \in EvidenceRuns \ {r} : reportFile'[s] = reportFile[s],
           reportFile'[r] = "passed" => run[r].ok,
           pc \in {"open", "point", "replace", "done"} => reportFile'[r] \in Complete
    PROVE  /\ run' \in [EvidenceRuns -> [pc : RunPcs, step : Nat, ok : BOOLEAN]]
           /\ run'[r].pc = pc
           /\ \A s \in EvidenceRuns \ {r} : run'[s] = run[s]
           /\ DrillInv'
<1> DEFINE Runs == [pc : RunPcs, step : Nat, ok : BOOLEAN]
           next == [run[r] EXCEPT !.pc = pc]
<1>1. run \in [EvidenceRuns -> Runs]
  BY DEF EvidenceInv, EvidenceTypeOK
<1>2. next \in Runs /\ next.pc = pc /\ next.step = run[r].step /\ next.ok = run[r].ok
  BY <1>1
<1>3. run' = [run EXCEPT ![r] = next]
  OBVIOUS
<1> HIDE DEF next
<1>4. /\ run' \in [EvidenceRuns -> Runs] /\ run'[r] = next
      /\ \A s \in EvidenceRuns \ {r} : run'[s] = run[s]
  BY <1>1, <1>2, <1>3
<1>5. ChildTellsTruth(r)'
  BY DEF EvidenceInv, DrillInv, ChildTellsTruth
<1>6. VerdictTellsTruth(r)'
  <2>1. Len(Work)' = Len(Work)
    BY DEF Work
  <2>2. VerdictTellsTruth(r)
    BY DEF EvidenceInv, DrillInv
  <2> QED
    BY <1>2, <1>4, <2>1, <2>2 DEF VerdictTellsTruth
<1>7. DrillInv'
  BY <1>4, <1>5, <1>6, OtherDrillsStay
<1> QED
  BY <1>2, <1>4, <1>7

\* The two steps of a report, its creation and its content, keep the invariant.
LEMMA ReportPreserves ==
    ASSUME EvidenceInv, NEW r \in EvidenceRuns, CreateReport(r) \/ WriteReport(r)
    PROVE  EvidenceInv'
<1>1. EvidenceTypeOK /\ VerdictTellsTruth(r)
  BY DEF EvidenceInv, DrillInv
<1>2. PICK pc \in {"write", "open"}, file \in {"torn"} \cup Complete :
        /\ run' = [run EXCEPT ![r].pc = pc] /\ reportFile' = [reportFile EXCEPT ![r] = file]
        /\ run[r].pc \in {"report", "write"}
        /\ pc = "open" => file \in Complete
        /\ file = "passed" => run[r].ok
  <2>1. CASE CreateReport(r)
    <3>1. /\ run' = [run EXCEPT ![r].pc = "write"] /\ reportFile' = [reportFile EXCEPT ![r] = "torn"]
          /\ run[r].pc = "report"
      BY <2>1 DEF CreateReport, Goto
    <3> WITNESS "write" \in {"write", "open"}, "torn" \in {"torn"} \cup Complete
    <3> QED
      BY <3>1
  <2>2. CASE WriteReport(r)
    <3>1. PICK file \in Complete : file = IF run[r].ok THEN "passed" ELSE "failed"
      BY DEF Complete
    <3>2. /\ run' = [run EXCEPT ![r].pc = "open"] /\ reportFile' = [reportFile EXCEPT ![r] = file]
          /\ run[r].pc = "write"
      BY <2>2, <3>1 DEF WriteReport, Goto
    <3>3. file = "passed" => run[r].ok
      BY <3>1
    <3>4. file \in {"torn"} \cup Complete /\ "open" \in {"write", "open"}
      OBVIOUS
    <3> WITNESS "open" \in {"write", "open"}, file \in {"torn"} \cup Complete
    <3> QED
      BY <3>2, <3>3
  <2> QED
    BY <2>1, <2>2
<1>3. UNCHANGED <<kind, restartChild, pointerVars>>
  BY DEF CreateReport, WriteReport
<1>4. /\ reportFile' \in [EvidenceRuns -> {"none", "torn"} \cup Complete] /\ reportFile'[r] = file
      /\ \A s \in EvidenceRuns \ {r} : reportFile'[s] = reportFile[s]
  BY <1>1, <1>2 DEF EvidenceTypeOK
<1>5. pc \in RunPcs \ {"idle", "work", "report"}
  BY DEF RunPcs
<1>6. /\ run' \in [EvidenceRuns -> [pc : RunPcs, step : Nat, ok : BOOLEAN]]
      /\ run'[r].pc = pc
      /\ \A s \in EvidenceRuns \ {r} : run'[s] = run[s]
      /\ DrillInv'
  BY <1>2, <1>3, <1>4, <1>5, RunMoves
<1>7. PublishInv'
  BY <1>2, <1>3, <1>4, <1>6, PublicationStays
<1>8. EvidenceTypeOK'
  BY <1>1, <1>3, <1>4, <1>6 DEF EvidenceTypeOK, pointerVars
<1> QED
  BY <1>6, <1>7, <1>8 DEF EvidenceInv

\* open("w"): the file r has open now is empty, and r is one who will write it.
LEMMA OpenPreserves ==
    ASSUME EvidenceInv, NEW r \in EvidenceRuns, OpenPointer(r)
    PROVE  EvidenceInv'
<1> DEFINE i == IF tmp = 0 THEN r ELSE tmp
<1>1. /\ EvidenceTypeOK /\ VerdictTellsTruth(r) /\ HandlesInv /\ PointersInv /\ AloneInv
      /\ EvidenceRuns \subseteq Nat \ {0}
  BY EvidenceAssumption DEF EvidenceInv, DrillInv, PublishInv
<1>2. /\ run[r].pc = "open" /\ run' = [run EXCEPT ![r].pc = "point"] /\ tmp' = i
      /\ handle' = [handle EXCEPT ![r] = i] /\ inode' = [inode EXCEPT ![i] = 0]
      /\ UNCHANGED <<kind, restartChild, reportFile, latest>>
  BY DEF OpenPointer, Goto
<1>3. i \in EvidenceRuns /\ i # 0
  BY <1>1 DEF EvidenceTypeOK
<1> HIDE DEF i
<1>4. /\ run' \in [EvidenceRuns -> [pc : RunPcs, step : Nat, ok : BOOLEAN]]
      /\ run'[r].pc = "point"
      /\ \A s \in EvidenceRuns \ {r} : run'[s] = run[s]
      /\ DrillInv'
  <2>1. "point" \in RunPcs \ {"idle", "work", "report"}
    BY DEF RunPcs
  <2>2. /\ reportFile \in [EvidenceRuns -> {"none", "torn"} \cup Complete]
        /\ reportFile[r] = "passed" => run[r].ok
        /\ reportFile[r] \in Complete
    BY <1>1, <1>2 DEF EvidenceTypeOK, VerdictTellsTruth
  <2> QED
    BY <1>2, <2>1, <2>2, RunMoves
<1>5. /\ handle' \in [EvidenceRuns -> EvidenceRuns \cup {0}] /\ handle'[r] = i
      /\ \A s \in EvidenceRuns \ {r} : handle'[s] = handle[s]
      /\ inode' \in [EvidenceRuns -> EvidenceRuns \cup {0}] /\ inode'[i] = 0
      /\ \A j \in EvidenceRuns \ {i} : inode'[j] = inode[j]
      /\ handle[r] = 0 /\ r \notin Publishers /\ Publishers' = Publishers \cup {r}
  BY <1>1, <1>2, <1>3 DEF EvidenceTypeOK, HandlesInv, Publishers
<1>6. EvidenceTypeOK'
  BY <1>1, <1>2, <1>3, <1>4, <1>5 DEF EvidenceTypeOK
<1>7. HandlesInv'
  <2>1. ASSUME NEW s \in EvidenceRuns
        PROVE  /\ run'[s].pc \in {"idle", "work", "report", "write", "open"} => handle'[s] = 0
               /\ run'[s].pc \in {"point", "replace", "done"} => handle'[s] # 0
    BY <1>1, <1>3, <1>4, <1>5 DEF HandlesInv
  <2>2. ASSUME NEW j \in EvidenceRuns, inode'[j] # 0
        PROVE  /\ run'[inode'[j]].pc \in {"replace", "done", "raised", "dead"}
               /\ reportFile'[inode'[j]] \in Complete
    <3>1. /\ inode'[j] = inode[j] /\ inode[j] \in EvidenceRuns /\ reportFile[inode[j]] \in Complete
          /\ run[inode[j]].pc \in {"replace", "done", "raised", "dead"}
      BY <1>1, <1>5, <2>2 DEF HandlesInv, EvidenceTypeOK
    <3> QED
      BY <1>2, <1>4, <3>1
  <2>3. ASSUME NEW s \in Publishers', inode'[handle'[s]] = 0
        PROVE  \E t \in Publishers' : handle'[t] = handle'[s] /\ run'[t].pc \in {"point", "dead"}
    <3>1. CASE handle'[s] = i
      BY <1>4, <1>5, <3>1
    <3>2. CASE handle'[s] # i
      <4>1. s \in Publishers /\ s # r /\ handle'[s] = handle[s] /\ handle[s] \in EvidenceRuns
        BY <1>1, <1>5, <2>3, <3>2 DEF Publishers, EvidenceTypeOK
      <4>2. inode[handle[s]] = 0
        BY <1>5, <2>3, <3>2, <4>1
      <4>3. PICK t \in Publishers : handle[t] = handle[s] /\ run[t].pc \in {"point", "dead"}
        BY <1>1, <4>1, <4>2 DEF HandlesInv
      <4>4. t \in EvidenceRuns \ {r}
        BY <1>5, <4>3 DEF Publishers
      <4> QED
        BY <1>4, <1>5, <4>1, <4>3, <4>4
    <3> QED
      BY <3>1, <3>2
  <2> QED
    BY <2>1, <2>2, <2>3 DEF HandlesInv
<1>8. PointersInv'
  <2>1. \A s \in Publishers : s \in EvidenceRuns \ {r}
    BY <1>5 DEF Publishers
  <2>2. \A s \in EvidenceRuns : run'[s].pc = "done" => run[s].pc = "done"
    BY <1>4
  <2>3. tmp' # 0 => \E s \in Publishers' : handle'[s] = tmp'
    BY <1>2, <1>5
  <2>4. latest # 0 => \E s \in Publishers' : handle'[s] = latest
    BY <1>1, <1>5, <2>1 DEF PointersInv
  <2>5. latest # 0 => \E s \in Publishers' : run'[s].pc = "done"
    BY <1>1, <1>4, <1>5, <2>1 DEF PointersInv
  <2> QED
    BY <1>1, <1>2, <2>2, <2>3, <2>4, <2>5 DEF PointersInv
<1>9. AloneInv'
  <2> SUFFICES ASSUME NEW s \in EvidenceRuns, Publishers' = {s}
               PROVE  /\ run'[s].pc = "point" => tmp' = handle'[s]
                      /\ run'[s].pc \notin {"replace", "done"}
    BY DEF AloneInv
  <2>1. s = r
    BY <1>5
  <2> QED
    BY <1>2, <1>4, <1>5, <2>1
<1> QED
  BY <1>4, <1>6, <1>7, <1>8, <1>9 DEF EvidenceInv, PublishInv

\* The pointer names r, whose report is complete.
LEMMA WritePointerPreserves ==
    ASSUME EvidenceInv, NEW r \in EvidenceRuns, WritePointer(r)
    PROVE  EvidenceInv'
<1> DEFINE i == handle[r]
<1>1. /\ EvidenceTypeOK /\ VerdictTellsTruth(r) /\ HandlesInv /\ PointersInv /\ AloneInv
      /\ EvidenceRuns \subseteq Nat \ {0}
  BY EvidenceAssumption DEF EvidenceInv, DrillInv, PublishInv
<1>2. /\ run[r].pc = "point" /\ run' = [run EXCEPT ![r].pc = "replace"]
      /\ inode' = [inode EXCEPT ![i] = r]
      /\ UNCHANGED <<kind, restartChild, reportFile, tmp, latest, handle>>
  BY DEF WritePointer, Goto
<1>3. i \in EvidenceRuns /\ i # 0 /\ r \in Publishers /\ Publishers' = Publishers /\ r # 0
  BY <1>1, <1>2 DEF EvidenceTypeOK, HandlesInv, Publishers
<1>4. /\ run' \in [EvidenceRuns -> [pc : RunPcs, step : Nat, ok : BOOLEAN]]
      /\ run'[r].pc = "replace"
      /\ \A s \in EvidenceRuns \ {r} : run'[s] = run[s]
      /\ DrillInv' /\ reportFile[r] \in Complete
  <2>1. "replace" \in RunPcs \ {"idle", "work", "report"}
    BY DEF RunPcs
  <2>2. /\ reportFile \in [EvidenceRuns -> {"none", "torn"} \cup Complete]
        /\ reportFile[r] = "passed" => run[r].ok
        /\ reportFile[r] \in Complete
    BY <1>1, <1>2 DEF EvidenceTypeOK, VerdictTellsTruth
  <2> QED
    BY <1>2, <2>1, <2>2, RunMoves
<1> HIDE DEF i
<1>5. /\ inode' \in [EvidenceRuns -> EvidenceRuns \cup {0}] /\ inode'[i] = r
      /\ \A j \in EvidenceRuns \ {i} : inode'[j] = inode[j]
  BY <1>1, <1>2, <1>3 DEF EvidenceTypeOK
<1>6. EvidenceTypeOK'
  BY <1>1, <1>2, <1>4, <1>5 DEF EvidenceTypeOK
<1>7. HandlesInv'
  <2>1. ASSUME NEW s \in EvidenceRuns
        PROVE  /\ run'[s].pc \in {"idle", "work", "report", "write", "open"} => handle'[s] = 0
               /\ run'[s].pc \in {"point", "replace", "done"} => handle'[s] # 0
    BY <1>1, <1>2, <1>4 DEF HandlesInv
  <2>2. ASSUME NEW j \in EvidenceRuns, inode'[j] # 0
        PROVE  /\ run'[inode'[j]].pc \in {"replace", "done", "raised", "dead"}
               /\ reportFile'[inode'[j]] \in Complete
    <3>1. CASE inode'[j] = r
      BY <1>2, <1>4, <3>1
    <3>2. CASE inode'[j] # r
      <4>1. /\ inode'[j] = inode[j] /\ inode[j] \in EvidenceRuns /\ reportFile[inode[j]] \in Complete
            /\ run[inode[j]].pc \in {"replace", "done", "raised", "dead"}
        BY <1>1, <1>5, <2>2, <3>2 DEF HandlesInv, EvidenceTypeOK
      <4> QED
        BY <1>2, <1>4, <3>2, <4>1
    <3> QED
      BY <3>1, <3>2
  <2>3. ASSUME NEW s \in Publishers, inode'[handle[s]] = 0
        PROVE  \E t \in Publishers : handle[t] = handle[s] /\ run'[t].pc \in {"point", "dead"}
    <3>1. handle[s] \in EvidenceRuns /\ handle[s] # i
      BY <1>1, <1>3, <1>5, <2>3 DEF Publishers, EvidenceTypeOK
    <3>2. PICK t \in Publishers : handle[t] = handle[s] /\ run[t].pc \in {"point", "dead"}
      BY <1>1, <1>5, <2>3, <3>1 DEF HandlesInv
    <3>3. t \in EvidenceRuns \ {r}
      BY <3>1, <3>2 DEF Publishers, i
    <3> QED
      BY <1>4, <3>2, <3>3
  <2> QED
    BY <1>2, <1>3, <2>1, <2>2, <2>3 DEF HandlesInv
<1>8. PointersInv'
  <2>1. \A s \in EvidenceRuns : run'[s].pc = "done" <=> run[s].pc = "done"
    BY <1>2, <1>4
  <2>2. \A s \in Publishers : s \in EvidenceRuns
    BY DEF Publishers
  <2> QED
    BY <1>1, <1>2, <1>3, <2>1, <2>2 DEF PointersInv
<1>9. AloneInv'
  <2> SUFFICES ASSUME NEW s \in EvidenceRuns, Publishers = {s}
               PROVE  /\ run'[s].pc \notin {"point", "done"}
                      /\ tmp = handle[s] /\ inode'[tmp] = s
    BY <1>2, <1>3 DEF AloneInv
  <2>1. s = r /\ tmp = handle[r]
    BY <1>1, <1>2, <1>3 DEF AloneInv
  <2> QED
    BY <1>4, <1>5, <2>1 DEF i
<1> QED
  BY <1>4, <1>6, <1>7, <1>8, <1>9 DEF EvidenceInv, PublishInv

\* os.replace, or its failure.
LEMMA ReplacePreserves ==
    ASSUME EvidenceInv, NEW r \in EvidenceRuns, ReplacePointer(r)
    PROVE  EvidenceInv'
<1>1. /\ EvidenceTypeOK /\ VerdictTellsTruth(r) /\ HandlesInv /\ PointersInv /\ AloneInv
  BY DEF EvidenceInv, DrillInv, PublishInv
<1>2. PICK pc \in {"raised", "done"} :
        /\ run[r].pc = "replace" /\ run' = [run EXCEPT ![r].pc = pc]
        /\ UNCHANGED <<kind, restartChild, reportFile, inode, handle>>
        /\ IF pc = "raised" THEN tmp = 0 /\ UNCHANGED <<tmp, latest>>
           ELSE tmp # 0 /\ latest' = tmp /\ tmp' = 0
  BY DEF ReplacePointer, Goto
<1>3. /\ run' \in [EvidenceRuns -> [pc : RunPcs, step : Nat, ok : BOOLEAN]]
      /\ run'[r].pc = pc
      /\ \A s \in EvidenceRuns \ {r} : run'[s] = run[s]
      /\ DrillInv'
  <2>1. pc \in RunPcs \ {"idle", "work", "report"}
    BY DEF RunPcs
  <2>2. /\ reportFile \in [EvidenceRuns -> {"none", "torn"} \cup Complete]
        /\ reportFile[r] = "passed" => run[r].ok
        /\ reportFile[r] \in Complete
    BY <1>1, <1>2 DEF EvidenceTypeOK, VerdictTellsTruth
  <2> QED
    BY <1>2, <2>1, <2>2, RunMoves
<1>4. r \in Publishers /\ Publishers' = Publishers /\ \A s \in Publishers : s \in EvidenceRuns
  BY <1>1, <1>2 DEF HandlesInv, Publishers
<1>5. EvidenceTypeOK'
  BY <1>1, <1>2, <1>3 DEF EvidenceTypeOK
<1>6. HandlesInv'
  <2>1. ASSUME NEW s \in EvidenceRuns
        PROVE  /\ run'[s].pc \in {"idle", "work", "report", "write", "open"} => handle'[s] = 0
               /\ run'[s].pc \in {"point", "replace", "done"} => handle'[s] # 0
    BY <1>1, <1>2, <1>3 DEF HandlesInv
  <2>2. ASSUME NEW j \in EvidenceRuns, inode'[j] # 0
        PROVE  /\ run'[inode'[j]].pc \in {"replace", "done", "raised", "dead"}
               /\ reportFile'[inode'[j]] \in Complete
    <3>1. /\ inode'[j] = inode[j] /\ inode[j] \in EvidenceRuns /\ reportFile[inode[j]] \in Complete
          /\ run[inode[j]].pc \in {"replace", "done", "raised", "dead"}
      BY <1>1, <1>2, <2>2 DEF HandlesInv, EvidenceTypeOK
    <3> QED
      BY <1>2, <1>3, <3>1
  <2>3. ASSUME NEW s \in Publishers, inode[handle[s]] = 0
        PROVE  \E t \in Publishers : handle[t] = handle[s] /\ run'[t].pc \in {"point", "dead"}
    <3>1. PICK t \in Publishers : handle[t] = handle[s] /\ run[t].pc \in {"point", "dead"}
      BY <1>1, <2>3 DEF HandlesInv
    <3>2. t \in EvidenceRuns \ {r}
      BY <1>2, <1>4, <3>1
    <3> QED
      BY <1>3, <3>1, <3>2
  <2> QED
    BY <1>2, <1>4, <2>1, <2>2, <2>3 DEF HandlesInv
<1>7. PointersInv'
  <2>1. \A s \in EvidenceRuns : run[s].pc = "done" => run'[s].pc = "done"
    BY <1>2, <1>3
  <2>2. \A s \in EvidenceRuns : run'[s].pc = "done" => run[s].pc = "done" \/ (s = r /\ pc = "done")
    BY <1>3
  <2>3. CASE pc = "raised"
    BY <1>1, <1>2, <1>4, <2>1, <2>2, <2>3 DEF PointersInv
  <2>4. CASE pc = "done"
    BY <1>1, <1>2, <1>3, <1>4, <2>4 DEF PointersInv
  <2> QED
    BY <2>3, <2>4
<1>8. AloneInv'
  <2> SUFFICES ASSUME NEW s \in EvidenceRuns, Publishers = {s}
               PROVE  /\ run'[s].pc \notin {"point", "replace"}
                      /\ run'[s].pc = "done" => inode[latest'] = s
    BY <1>2, <1>4 DEF AloneInv
  <2>1. s = r /\ inode[tmp] = s
    BY <1>1, <1>2, <1>4 DEF AloneInv
  <2> QED
    BY <1>2, <1>3, <2>1
<1> QED
  BY <1>3, <1>5, <1>6, <1>7, <1>8 DEF EvidenceInv, PublishInv

\* A run that dies leaves its files as they are; one that dies before it wrote its
\* pointer may leave that empty.
LEMMA DeathPreserves ==
    ASSUME EvidenceInv, NEW r \in EvidenceRuns, EvidenceDies(r)
    PROVE  EvidenceInv'
<1>1. /\ EvidenceTypeOK /\ VerdictTellsTruth(r) /\ HandlesInv /\ PointersInv /\ AloneInv
  BY DEF EvidenceInv, DrillInv, PublishInv
<1>2. /\ run[r].pc \notin {"idle", "done", "raised", "dead"} /\ run' = [run EXCEPT ![r].pc = "dead"]
      /\ UNCHANGED <<kind, restartChild, reportFile, tmp, latest, inode, handle>>
  BY DEF EvidenceDies, Goto, pointerVars
<1>3. /\ run' \in [EvidenceRuns -> [pc : RunPcs, step : Nat, ok : BOOLEAN]]
      /\ run'[r].pc = "dead"
      /\ \A s \in EvidenceRuns \ {r} : run'[s] = run[s]
      /\ DrillInv'
  <2>1. "dead" \in RunPcs \ {"idle", "work", "report"}
    BY DEF RunPcs
  <2>2. /\ reportFile \in [EvidenceRuns -> {"none", "torn"} \cup Complete]
        /\ reportFile[r] = "passed" => run[r].ok
    BY <1>1 DEF EvidenceTypeOK, VerdictTellsTruth
  <2> QED
    BY <1>2, <2>1, <2>2, RunMoves
<1>4. Publishers' = Publishers /\ \A s \in Publishers : s \in EvidenceRuns
  BY <1>2 DEF Publishers
<1>5. EvidenceTypeOK'
  BY <1>1, <1>2, <1>3 DEF EvidenceTypeOK
<1>6. HandlesInv'
  <2>1. ASSUME NEW s \in EvidenceRuns
        PROVE  /\ run'[s].pc \in {"idle", "work", "report", "write", "open"} => handle'[s] = 0
               /\ run'[s].pc \in {"point", "replace", "done"} => handle'[s] # 0
    BY <1>1, <1>2, <1>3 DEF HandlesInv
  <2>2. ASSUME NEW j \in EvidenceRuns, inode'[j] # 0
        PROVE  /\ run'[inode'[j]].pc \in {"replace", "done", "raised", "dead"}
               /\ reportFile'[inode'[j]] \in Complete
    <3>1. /\ inode'[j] = inode[j] /\ inode[j] \in EvidenceRuns /\ reportFile[inode[j]] \in Complete
          /\ run[inode[j]].pc \in {"replace", "done", "raised", "dead"}
      BY <1>1, <1>2, <2>2 DEF HandlesInv, EvidenceTypeOK
    <3> QED
      BY <1>2, <1>3, <3>1
  <2>3. ASSUME NEW s \in Publishers, inode[handle[s]] = 0
        PROVE  \E t \in Publishers : handle[t] = handle[s] /\ run'[t].pc \in {"point", "dead"}
    <3>1. PICK t \in Publishers : handle[t] = handle[s] /\ run[t].pc \in {"point", "dead"}
      BY <1>1, <2>3 DEF HandlesInv
    <3>2. run'[t].pc \in {"point", "dead"}
      BY <1>3, <1>4, <3>1
    <3> QED
      BY <3>1, <3>2
  <2> QED
    BY <1>2, <1>4, <2>1, <2>2, <2>3 DEF HandlesInv
<1>7. \A s \in EvidenceRuns : run'[s].pc = "done" <=> run[s].pc = "done"
  BY <1>2, <1>3
<1>8. PointersInv'
  BY <1>1, <1>2, <1>4, <1>7 DEF PointersInv
<1>9. AloneInv'
  BY <1>1, <1>2, <1>3, <1>4 DEF AloneInv
<1> QED
  BY <1>3, <1>5, <1>6, <1>8, <1>9 DEF EvidenceInv, PublishInv

\* Every step of the evidence scripts preserves the invariant.
LEMMA NextEvidence == EvidenceInv /\ [EvidenceNext]_evidenceVars => EvidenceInv'
<1> SUFFICES ASSUME EvidenceInv, [EvidenceNext]_evidenceVars PROVE EvidenceInv'
  OBVIOUS
<1>1. CASE UNCHANGED evidenceVars
  <2>1. UNCHANGED <<kind, run, restartChild, reportFile, tmp, latest, inode, handle>>
    BY <1>1 DEF evidenceVars, pointerVars
  <2>2. Publishers' = Publishers /\ Len(Work)' = Len(Work)
    BY <2>1 DEF Publishers, Work
  <2>3. EvidenceTypeOK' /\ DrillInv'
    BY <2>1, <2>2 DEF EvidenceInv, EvidenceTypeOK, DrillInv, ChildTellsTruth, VerdictTellsTruth
  <2>4. PublishInv'
    BY <2>1, <2>2 DEF EvidenceInv, PublishInv, HandlesInv, PointersInv, AloneInv
  <2> QED
    BY <2>3, <2>4 DEF EvidenceInv
<1>2. ASSUME NEW r \in EvidenceRuns,
             \/ StartEvidence(r) \/ (\E bad \in BOOLEAN : WorkStep(r, bad) \/ ChildProbes(r, bad))
             \/ SpawnChild(r) \/ ChildChecks(r) \/ ChildReports(r) \/ ChildDies(r)
             \/ ChildTimesOut(r) \/ JudgeChild(r)
             \/ CreateReport(r) \/ WriteReport(r)
             \/ OpenPointer(r) \/ WritePointer(r) \/ ReplacePointer(r) \/ EvidenceDies(r)
      PROVE  EvidenceInv'
  <2>1. CASE \/ StartEvidence(r) \/ (\E bad \in BOOLEAN : WorkStep(r, bad))
             \/ ChildTimesOut(r) \/ JudgeChild(r)
    BY <2>1, WorkPreserves
  <2>2. CASE \/ SpawnChild(r) \/ ChildChecks(r) \/ (\E bad \in BOOLEAN : ChildProbes(r, bad))
             \/ ChildReports(r) \/ ChildDies(r)
    BY <2>2, ChildPreserves
  <2>3. CASE CreateReport(r) \/ WriteReport(r)
    BY <2>3, ReportPreserves
  <2>4. CASE OpenPointer(r)
    BY <2>4, OpenPreserves
  <2>5. CASE WritePointer(r)
    BY <2>5, WritePointerPreserves
  <2>6. CASE ReplacePointer(r)
    BY <2>6, ReplacePreserves
  <2>7. CASE EvidenceDies(r)
    BY <2>7, DeathPreserves
  <2> QED
    BY <1>2, <2>1, <2>2, <2>3, <2>4, <2>5, <2>6, <2>7
<1> QED
  BY <1>1, <1>2 DEF EvidenceNext

\* However many runs share one output root, whatever fails or dies: a passed recovery
\* report rests on a child that read everything, and latest.json names a complete report
\* unless another run emptied the file.
THEOREM PublishedEvidenceTheorem == EvidenceSpec => []PublishedEvidenceHolds
<1>1. EvidenceInit => EvidenceInv
  BY InitEvidence
<1>2. EvidenceInv /\ [EvidenceNext]_evidenceVars => EvidenceInv'
  BY NextEvidence
<1>3. EvidenceInv => PublishedEvidenceHolds
  BY EvidenceSuffices
<1> QED
  BY <1>1, <1>2, <1>3, PTL DEF EvidenceSpec

---------------------------------------------------------------------------
(* Capability *)

\* The ladder has no stage twice, so a stage has one place on it.
Place(s) ==
    IF s = "gap" THEN 1 ELSE IF s = "scout" THEN 2 ELSE IF s = "pin" THEN 3
    ELSE IF s = "inspect" THEN 4 ELSE IF s = "sandbox" THEN 5 ELSE IF s = "wrap_build" THEN 6
    ELSE IF s = "contract_tested" THEN 7 ELSE IF s = "security_tested" THEN 8
    ELSE IF s = "performance_benchmarked" THEN 9 ELSE IF s = "shadow" THEN 10
    ELSE IF s = "active_read" THEN 11 ELSE IF s = "active_write_limited" THEN 12 ELSE 13

\* The rank of a stage is its place in the lifecycle.
LEMMA Ranks ==
    /\ DOMAIN LifecycleOrder = 1..13
    /\ \A i \in 1..13 : Rank(LifecycleOrder[i]) = i
    /\ \A s \in Lifecycle : Rank(s) \in 1..13 /\ LifecycleOrder[Rank(s)] = s
<1>1. DOMAIN LifecycleOrder = 1..13
  BY DEF LifecycleOrder
<1>2. \A i \in 1..13 : \/ i = 1 \/ i = 2 \/ i = 3 \/ i = 4 \/ i = 5 \/ i = 6 \/ i = 7 \/ i = 8
                       \/ i = 9 \/ i = 10 \/ i = 11 \/ i = 12 \/ i = 13
  OBVIOUS
<1>3. /\ Place(LifecycleOrder[1]) = 1 /\ Place(LifecycleOrder[2]) = 2 /\ Place(LifecycleOrder[3]) = 3
      /\ Place(LifecycleOrder[4]) = 4 /\ Place(LifecycleOrder[5]) = 5 /\ Place(LifecycleOrder[6]) = 6
      /\ Place(LifecycleOrder[7]) = 7 /\ Place(LifecycleOrder[8]) = 8 /\ Place(LifecycleOrder[9]) = 9
      /\ Place(LifecycleOrder[10]) = 10 /\ Place(LifecycleOrder[11]) = 11
      /\ Place(LifecycleOrder[12]) = 12 /\ Place(LifecycleOrder[13]) = 13
  BY DEF LifecycleOrder, Place
<1>4. \A i \in 1..13 : Place(LifecycleOrder[i]) = i
  BY <1>2, <1>3
<1>5. ASSUME NEW i \in 1..13 PROVE Rank(LifecycleOrder[i]) = i
  <2> DEFINE j == Rank(LifecycleOrder[i])
  <2>1. j \in 1..13 /\ LifecycleOrder[j] = LifecycleOrder[i]
    BY <1>1 DEF Rank
  <2> HIDE DEF j
  <2> QED
    BY <1>4, <2>1 DEF j
<1>6. ASSUME NEW s \in Lifecycle PROVE Rank(s) \in 1..13 /\ LifecycleOrder[Rank(s)] = s
  <2>1. PICK i \in 1..13 : s = LifecycleOrder[i]
    BY <1>1 DEF Lifecycle
  <2> QED
    BY <1>5, <2>1
<1> QED
  BY <1>1, <1>5, <1>6

\* The stages the registry names, at their places.
LEMMA StageRanks ==
    /\ Rank("gap") = 1 /\ Rank("contract_tested") = 7 /\ Rank("security_tested") = 8
    /\ Rank("performance_benchmarked") = 9 /\ Rank("active_read") = 11
    /\ Rank("active_write_limited") = 12 /\ Rank("deprecated") = 13
    /\ Active \subseteq Lifecycle /\ {"gap", "deprecated"} \subseteq Lifecycle /\ "none" \notin Lifecycle
<1>1. /\ LifecycleOrder[1] = "gap" /\ LifecycleOrder[7] = "contract_tested"
      /\ LifecycleOrder[8] = "security_tested" /\ LifecycleOrder[9] = "performance_benchmarked"
      /\ LifecycleOrder[11] = "active_read" /\ LifecycleOrder[12] = "active_write_limited"
      /\ LifecycleOrder[13] = "deprecated"
  BY DEF LifecycleOrder
<1>2. {1, 7, 8, 9, 11, 12, 13} \subseteq 1..13
  OBVIOUS
<1>3. /\ Rank("gap") = 1 /\ Rank("contract_tested") = 7 /\ Rank("security_tested") = 8
      /\ Rank("performance_benchmarked") = 9 /\ Rank("active_read") = 11
      /\ Rank("active_write_limited") = 12 /\ Rank("deprecated") = 13
  BY <1>1, <1>2, Ranks
<1>4. Active \subseteq Lifecycle /\ {"gap", "deprecated"} \subseteq Lifecycle
  BY <1>1, <1>2, Ranks DEF Active, Lifecycle
<1>5. "none" \notin Lifecycle
  BY DEF Lifecycle, LifecycleOrder
<1> QED
  BY <1>3, <1>4, <1>5

CapRow == [card : CardIds, stage : Lifecycle, by : Registries, approval : BOOLEAN, gated : BOOLEAN]
HasRow(c, s) == \E i \in DOMAIN capRows : capRows[i].card = c /\ capRows[i].stage = s

\* What is on a shelf, or lent out, is in the ledger, and no row is there unearned.
RowsEarnedInv ==
    \A i \in DOMAIN capRows :
        LET entry == capRows[i] IN
        /\ Tested(entry.card, entry.stage)
        /\ entry.stage \in Active => entry.gated
        /\ entry.stage = "active_write_limited" => entry.approval
        /\ entry.stage # "deprecated" => Climbed(entry.card, entry.stage)

ShelvesInv == \A r \in Registries : shelf[r] # NoCard => HasRow(shelf[r].card, shelf[r].stage)
LentInv == \A l \in lent : HasRow(l.card, l.stage)

\* A registry that wrote all rows replays them, and remembers the last one while it is up.
OneWriter == \A i, j \in DOMAIN capRows : capRows[i].by = capRows[j].by
LastCard == [card |-> capRows[Len(capRows)].card, stage |-> capRows[Len(capRows)].stage]
OneWriterInv ==
    OneWriter => /\ Replays
                 /\ \A i \in DOMAIN capRows :
                        registry[capRows[i].by] = "up" => shelf[capRows[i].by] = LastCard
RefusedInv == (\E r \in Registries : registry[r] = "refused") => ~ OneWriter

CapInv ==
    CapTypeOK /\ RowsEarnedInv /\ ShelvesInv /\ LentInv /\ OneWriterInv /\ RefusedInv

\* What the types say of one row.
LEMMA RowTypes ==
    ASSUME CapTypeOK
    PROVE  /\ capRows \in Seq(CapRow) /\ Len(capRows) \in Nat /\ DOMAIN capRows = 1..Len(capRows)
           /\ \A i \in DOMAIN capRows :
                /\ capRows[i].card \in CardIds /\ capRows[i].stage \in Lifecycle
                /\ capRows[i].by \in Registries /\ capRows[i] \in CapRow
<1>1. capRows \in Seq(CapRow)
  BY DEF CapTypeOK, CapRow
<1>2. Len(capRows) \in Nat /\ DOMAIN capRows = 1..Len(capRows)
  BY <1>1
<1>3. \A i \in DOMAIN capRows : capRows[i] \in CapRow
  BY <1>1
<1> QED
  BY <1>1, <1>2, <1>3 DEF CapRow

\* Along rows that replay the ranks never fall: a registry that hydrates from them meets
\* no stage twice but the last of the ladder.
LEMMA RanksAscend ==
    ASSUME CapTypeOK, Replays, NEW i \in DOMAIN capRows, NEW j \in DOMAIN capRows, i <= j
    PROVE  Rank(capRows[i].stage) <= Rank(capRows[j].stage)
<1> DEFINE R(k) == Rank(capRows[k].stage)
           J == {k \in DOMAIN capRows : i <= k /\ ~ (R(i) <= R(k))}
<1>1. /\ DOMAIN capRows = 1..Len(capRows) /\ Len(capRows) \in Nat
      /\ \A k \in DOMAIN capRows : capRows[k].stage \in Lifecycle /\ R(k) \in 1..13
  BY Ranks, RowTypes
<1>2. SUFFICES ASSUME J # {} PROVE FALSE
  OBVIOUS
<1>3. PICK k \in J : \A m \in J : k <= m
  <2>1. J \in SUBSET Nat
    BY <1>1
  <2> HIDE DEF J
  <2> QED
    BY <1>2, <2>1, LeastNat
<1>4. k \in DOMAIN capRows /\ i < k /\ k - 1 \in DOMAIN capRows /\ i <= k - 1
  <2>1. k # i
    BY <1>1, <1>3
  <2> QED
    BY <1>1, <1>3, <2>1
<1>5. R(i) <= R(k - 1)
  <2>1. k - 1 \notin J
    BY <1>1, <1>3, <1>4
  <2> QED
    BY <1>4, <2>1
<1>6. R(k - 1) <= R(k)
  <2>1. RowReplays(k) /\ k # 1
    BY <1>1, <1>4 DEF Replays
  <2>2. CASE capRows[k].stage = "gap"
    BY <2>1, <2>2, <1>1, <1>4, SMTT(30) DEF RowReplays
  <2>3. CASE capRows[k].stage # "gap"
    <3>1. R(k) = R(k - 1) + 1 \/ capRows[k].stage = "deprecated"
      BY <2>1, <2>3 DEF RowReplays, ValidTransition
    <3>2. capRows[k].stage = "deprecated" => R(k) = 13
      BY StageRanks
    <3> HIDE DEF R
    <3> QED
      BY <3>1, <3>2, <1>1, <1>4, SMTT(30)
  <2> QED
    BY <2>2, <2>3
<1>7. R(i) \in 1..13 /\ R(k - 1) \in 1..13 /\ R(k) \in 1..13 /\ ~ (R(i) <= R(k))
  BY <1>1, <1>3, <1>4
<1> HIDE DEF R
<1> QED
  BY <1>5, <1>6, <1>7

\* The invariant makes what is active earned.
LEMMA CapSuffices == CapInv => ActiveIsEarned
<1> SUFFICES ASSUME CapInv PROVE ActiveIsEarned
  OBVIOUS
<1>1. ASSUME NEW l \in lent
      PROVE  /\ Climbed(l.card, l.stage) /\ References[l.card] = TestKinds
             /\ \A i \in DOMAIN capRows : capRows[i].card = l.card =>
                   /\ capRows[i].stage \in Active => capRows[i].gated
                   /\ capRows[i].stage = "active_write_limited" => capRows[i].approval
  <2>1. PICK i \in DOMAIN capRows : capRows[i].card = l.card /\ capRows[i].stage = l.stage
    BY <1>1 DEF CapInv, LentInv, HasRow
  <2>2. l.stage \in Active /\ l.card \in CardIds
    BY <1>1 DEF CapInv, CapTypeOK
  <2>3. l.stage # "deprecated" /\ Rank(l.stage) \in {11, 12}
    BY <2>2, StageRanks DEF Active
  <2>4. Climbed(l.card, l.stage)
    BY <2>1, <2>3 DEF CapInv, RowsEarnedInv
  <2>5. ASSUME NEW k \in 2..10, NEW t, t = LifecycleOrder[k] PROVE Tested(l.card, t)
    <3>1. k \in 2..Rank(l.stage)
      BY <2>3
    <3>2. PICK j \in DOMAIN capRows : capRows[j].card = l.card /\ capRows[j].stage = LifecycleOrder[k]
      BY <2>4, <3>1 DEF Climbed
    <3> QED
      BY <2>5, <3>2 DEF CapInv, RowsEarnedInv
  <2>6. /\ Tested(l.card, "contract_tested") /\ Tested(l.card, "security_tested")
        /\ Tested(l.card, "performance_benchmarked")
    <3>1. LifecycleOrder[7] = "contract_tested" /\ LifecycleOrder[8] = "security_tested"
          /\ LifecycleOrder[9] = "performance_benchmarked"
      BY DEF LifecycleOrder
    <3> QED
      BY <2>5, <3>1
  <2>7. References[l.card] = TestKinds
    BY <2>2, <2>6, CapabilityAssumption DEF Tested, TestKinds
  <2> QED
    BY <2>4, <2>7 DEF CapInv, RowsEarnedInv
<1>2. ASSUME NEW r \in Registries, shelf[r] # NoCard
      PROVE  \E i \in DOMAIN capRows : capRows[i].card = shelf[r].card /\ capRows[i].stage = shelf[r].stage
  BY <1>2 DEF CapInv, ShelvesInv, HasRow
<1>3. ASSUME Replays, NEW i \in DOMAIN capRows, capRows[i].stage = "deprecated"
      PROVE  capRows[Len(capRows)].stage = "deprecated"
  <2> DEFINE n == Len(capRows)
  <2>0. CapTypeOK
    BY DEF CapInv
  <2>1. /\ n \in DOMAIN capRows /\ i <= n /\ capRows[n].stage \in Lifecycle
    BY <2>0, RowTypes
  <2>2. Rank(capRows[i].stage) <= Rank(capRows[n].stage)
    BY <2>0, <1>3, <2>1, RanksAscend
  <2>3. Rank(capRows[n].stage) = 13 /\ LifecycleOrder[13] = capRows[n].stage
    BY <1>3, <2>1, <2>2, Ranks, StageRanks
  <2> QED
    BY <2>3 DEF LifecycleOrder
<1>4. (\E r \in Registries : registry[r] = "refused") =>
          \E i, j \in DOMAIN capRows : capRows[i].by # capRows[j].by
  BY DEF CapInv, RefusedInv, OneWriter
<1> QED
  BY <1>1, <1>2, <1>3, <1>4 DEF ActiveIsEarned

\* What appending a row does to the ledger.
LEMMA AppendedCapRow ==
    ASSUME NEW entry \in CapRow, capRows \in Seq(CapRow)
    PROVE  /\ Append(capRows, entry) \in Seq(CapRow)
           /\ DOMAIN Append(capRows, entry) = DOMAIN capRows \cup {Len(capRows) + 1}
           /\ Len(Append(capRows, entry)) = Len(capRows) + 1
           /\ Append(capRows, entry)[Len(capRows) + 1] = entry
           /\ \A i \in DOMAIN capRows : Append(capRows, entry)[i] = capRows[i]
<1>1. capRows \in Seq(CapRow) /\ entry \in CapRow
  OBVIOUS
<1> QED
  BY <1>1, AppendedLog

\* A row, or the same row again, is recorded for a card that has come this far.
LEMMA RecordPreserves ==
    ASSUME CapInv, NEW r \in Registries, NEW c \in CardIds, NEW s \in Lifecycle, NEW approval \in BOOLEAN,
           Record(r, c, s, approval), registry[r] = "up",
           Tested(c, s), s \in Active => gate8 # "closed", s = "active_write_limited" => approval,
           \/ s = "gap" /\ shelf[r] = NoCard
           \/ /\ s # "gap" /\ shelf[r] # NoCard /\ shelf[r].card = c
              /\ ValidTransition(shelf[r].stage, s)
    PROVE  CapInv'
<1> DEFINE n == Len(capRows)
           entry == [card |-> c, stage |-> s, by |-> r, approval |-> approval, gated |-> gate8 # "closed"]
           new == [card |-> c, stage |-> s]
<1>1. /\ CapTypeOK /\ capRows \in Seq(CapRow) /\ n \in Nat /\ DOMAIN capRows = 1..n
      /\ \A i \in DOMAIN capRows : capRows[i] \in CapRow
      /\ shelf \in [Registries -> [card : CardIds, stage : Lifecycle] \cup {NoCard}]
      /\ registry \in [Registries -> {"down", "up", "refused"}]
  <2>1. CapTypeOK
    BY DEF CapInv
  <2> QED
    BY <2>1, RowTypes DEF CapTypeOK
<1>2. entry \in CapRow /\ new \in [card : CardIds, stage : Lifecycle] /\ new # NoCard
  <2>1. entry \in CapRow
    BY DEF CapRow
  <2>2. new.stage # NoCard.stage
    BY StageRanks DEF NoCard
  <2> QED
    BY <2>1, <2>2
<1>3. \/ capRows' = capRows /\ HasRow(c, s)
      \/ capRows' = Append(capRows, entry)
  BY DEF Record, Recorded, HasRow
<1>4. /\ \A q \in Registries \ {r} : shelf'[q] = shelf[q] /\ registry'[q] = registry[q]
      /\ registry'[r] \in {"up", "down"}
      /\ registry'[r] = "up" => shelf'[r] = new
      /\ shelf'[r] \in {new, NoCard}
      /\ UNCHANGED <<gate8, lent>>
      /\ shelf' \in [Registries -> [card : CardIds, stage : Lifecycle] \cup {NoCard}]
      /\ registry' \in [Registries -> {"down", "up", "refused"}]
      /\ capMishaps' \in 0..MaxRegistryDeaths
  <2>1. UNCHANGED <<gate8, lent>> /\ capMishaps \in 0..MaxRegistryDeaths /\ MaxRegistryDeaths \in Nat
    BY CapabilityAssumption DEF Record, CapInv, CapTypeOK
  <2>2. CASE shelf' = [shelf EXCEPT ![r] = new] /\ UNCHANGED <<registry, capMishaps>>
    <3> HIDE DEF new
    <3> QED
      BY <1>1, <1>2, <2>1, <2>2
  <2>3. CASE CapMishap /\ registry' = [registry EXCEPT ![r] = "down"] /\ shelf' = [shelf EXCEPT ![r] = NoCard]
    <3> HIDE DEF new
    <3> QED
      BY <1>1, <1>2, <2>1, <2>3 DEF CapMishap
  <2> QED
    BY <2>2, <2>3 DEF Record
<1> HIDE DEF entry, new, n
<1>5. /\ capRows' \in Seq(CapRow) /\ DOMAIN capRows \subseteq DOMAIN capRows'
      /\ \A i \in DOMAIN capRows : capRows'[i] = capRows[i]
      /\ \A i \in DOMAIN capRows' : i \in DOMAIN capRows \/ capRows'[i] = entry
      /\ \E i \in DOMAIN capRows' : capRows'[i].card = c /\ capRows'[i].stage = s
  <2>1. CASE capRows' = capRows /\ HasRow(c, s)
    BY <1>1, <2>1 DEF HasRow
  <2>2. CASE capRows' = Append(capRows, entry)
    <3>1. /\ Append(capRows, entry) \in Seq(CapRow)
          /\ DOMAIN Append(capRows, entry) = DOMAIN capRows \cup {n + 1}
          /\ Append(capRows, entry)[n + 1] = entry
          /\ \A i \in DOMAIN capRows : Append(capRows, entry)[i] = capRows[i]
      BY <1>1, <1>2, AppendedCapRow DEF n
    <3>2. entry.card = c /\ entry.stage = s
      BY DEF entry
    <3> QED
      BY <2>2, <3>1, <3>2
  <2> QED
    BY <1>3, <2>1, <2>2
<1>6. CapTypeOK'
  <2>1. /\ gate8' \in {"absent", "open", "closed"} /\ lent' \subseteq [card : CardIds, stage : Active]
    BY <1>1, <1>4 DEF CapTypeOK
  <2> QED
    BY <1>4, <1>5, <2>1 DEF CapTypeOK, CapRow
<1>7. /\ \A x, y : HasRow(x, y) => HasRow(x, y)'
      /\ \A x, y : Climbed(x, y) => Climbed(x, y)'
  <2>1. \A x, y : HasRow(x, y) => HasRow(x, y)'
    BY <1>5 DEF HasRow
  <2>2. ASSUME NEW x, NEW y, Climbed(x, y) PROVE Climbed(x, y)'
    <3> SUFFICES ASSUME NEW k \in 2..Rank(y)
                 PROVE  \E i, j \in DOMAIN capRows' :
                          /\ i < j /\ capRows'[i].card = x /\ capRows'[j].card = x
                          /\ capRows'[i].stage = LifecycleOrder[k - 1]
                          /\ capRows'[j].stage = LifecycleOrder[k]
      BY DEF Climbed
    <3>1. PICK i, j \in DOMAIN capRows :
            /\ i < j /\ capRows[i].card = x /\ capRows[j].card = x
            /\ capRows[i].stage = LifecycleOrder[k - 1] /\ capRows[j].stage = LifecycleOrder[k]
      BY <2>2 DEF Climbed
    <3> QED
      BY <1>5, <3>1
  <2> QED
    BY <2>1, <2>2
\* The new row is one step above a row of the card, which has climbed to there.
<1>8. capRows' = Append(capRows, entry) =>
         /\ DOMAIN capRows' = DOMAIN capRows \cup {n + 1} /\ DOMAIN capRows' = 1..(n + 1)
         /\ Len(capRows') = n + 1 /\ capRows'[n + 1] = entry
  <2>1. /\ DOMAIN Append(capRows, entry) = DOMAIN capRows \cup {n + 1}
        /\ Len(Append(capRows, entry)) = n + 1 /\ Append(capRows, entry)[n + 1] = entry
    BY <1>1, <1>2, AppendedCapRow DEF n
  <2>2. DOMAIN capRows \cup {n + 1} = 1..(n + 1)
    BY <1>1
  <2> QED
    BY <2>1, <2>2
\* The new row is one step above a row of the card, which has climbed to there.
<1>9. ASSUME s # "deprecated", capRows' = Append(capRows, entry) PROVE Climbed(c, s)'
  <2>1. CASE s = "gap"
    <3>1. 2..Rank(s) = {}
      BY <2>1, StageRanks
    <3> QED
      BY <3>1 DEF Climbed
  <2>2. CASE s # "gap"
    <3>0. PICK old : old = shelf[r].stage
      OBVIOUS
    <3>1. /\ old \in Lifecycle /\ Rank(s) = Rank(old) + 1 /\ Rank(old) \in 1..13 /\ Rank(s) \in 1..13
          /\ LifecycleOrder[Rank(s)] = s /\ LifecycleOrder[Rank(old)] = old
      BY <1>1, <1>9, <2>2, <3>0, Ranks DEF ValidTransition
    <3>2. PICK i \in DOMAIN capRows : capRows[i].card = c /\ capRows[i].stage = old
      BY <2>2, <3>0 DEF CapInv, ShelvesInv, HasRow
    <3>3. old # "deprecated"
      BY <3>1, StageRanks
    <3>4. Climbed(c, old)'
      <4>1. Climbed(c, old)
        BY <3>2, <3>3 DEF CapInv, RowsEarnedInv
      <4> QED
        BY <1>7, <4>1
    <3>5. /\ n + 1 \in DOMAIN capRows' /\ capRows'[n + 1] = entry /\ i < n + 1
          /\ i \in DOMAIN capRows' /\ capRows'[i] = capRows[i]
      BY <1>1, <1>5, <1>8, <1>9
    <3>6. entry.card = c /\ entry.stage = s
      BY DEF entry
    <3> SUFFICES ASSUME NEW k \in 2..Rank(s)
                 PROVE  \E h, j \in DOMAIN capRows' :
                          /\ h < j /\ capRows'[h].card = c /\ capRows'[j].card = c
                          /\ capRows'[h].stage = LifecycleOrder[k - 1]
                          /\ capRows'[j].stage = LifecycleOrder[k]
      BY DEF Climbed
    <3>7. CASE k = Rank(s)
      <4>1. LifecycleOrder[k] = s /\ LifecycleOrder[k - 1] = old
        BY <3>1, <3>7
      <4> QED
        BY <3>2, <3>5, <3>6, <4>1
    <3>8. CASE k # Rank(s)
      <4>1. k \in 2..Rank(old)
        BY <3>1, <3>8
      <4> QED
        BY <3>4, <4>1 DEF Climbed
    <3> QED
      BY <3>7, <3>8
  <2> QED
    BY <2>1, <2>2
<1>10. RowsEarnedInv'
  <2> SUFFICES ASSUME NEW i \in DOMAIN capRows', NEW old, old = capRows'[i]
               PROVE  /\ Tested(old.card, old.stage)
                      /\ old.stage \in Active => old.gated
                      /\ old.stage = "active_write_limited" => old.approval
                      /\ old.stage # "deprecated" => Climbed(old.card, old.stage)'
    BY DEF RowsEarnedInv, Climbed
  <2>1. CASE i \in DOMAIN capRows
    <3>1. old = capRows[i]
      BY <1>5, <2>1
    <3>2. /\ Tested(old.card, old.stage) /\ (old.stage \in Active => old.gated)
          /\ old.stage = "active_write_limited" => old.approval
          /\ old.stage # "deprecated" => Climbed(old.card, old.stage)
      BY <2>1, <3>1 DEF CapInv, RowsEarnedInv
    <3> QED
      BY <1>7, <3>2
  <2>2. CASE i \notin DOMAIN capRows
    <3>1. capRows' = Append(capRows, entry)
      BY <1>3, <2>2
    <3>2. old = entry
      BY <1>5, <2>2
    <3>3. entry.card = c /\ entry.stage = s /\ entry.approval = approval
      BY DEF entry
    <3>4. entry.gated <=> gate8 # "closed"
      BY Zenon DEF entry
    <3> QED
      BY <1>9, <3>1, <3>2, <3>3, <3>4
  <2> QED
    BY <2>1, <2>2
<1>11. ShelvesInv'
  <2> SUFFICES ASSUME NEW q \in Registries, shelf'[q] # NoCard
               PROVE  \E i \in DOMAIN capRows' : /\ capRows'[i].card = shelf'[q].card
                                                 /\ capRows'[i].stage = shelf'[q].stage
    BY DEF ShelvesInv, HasRow
  <2>1. CASE q = r
    BY <1>4, <1>5, <2>1 DEF new
  <2>2. CASE q # r
    <3>1. \E i \in DOMAIN capRows : capRows[i].card = shelf[q].card /\ capRows[i].stage = shelf[q].stage
      BY <1>4, <2>2 DEF CapInv, ShelvesInv, HasRow
    <3> QED
      BY <1>4, <1>5, <2>2, <3>1
  <2> QED
    BY <2>1, <2>2
<1>12. LentInv'
  <2> SUFFICES ASSUME NEW l \in lent
               PROVE  \E i \in DOMAIN capRows' : capRows'[i].card = l.card /\ capRows'[i].stage = l.stage
    BY <1>4 DEF LentInv, HasRow
  <2>1. \E i \in DOMAIN capRows : capRows[i].card = l.card /\ capRows[i].stage = l.stage
    BY DEF CapInv, LentInv, HasRow
  <2> QED
    BY <1>5, <2>1
<1>13. OneWriter' => OneWriter
  BY <1>5 DEF OneWriter
<1>14. RefusedInv'
  <2>1. (\E q \in Registries : registry'[q] = "refused") => (\E q \in Registries : registry[q] = "refused")
    BY <1>4
  <2> QED
    BY <1>13, <2>1 DEF CapInv, RefusedInv
\* The only writer remembers the last row: it repeats none but a retirement.
<1>15. ASSUME OneWriter, capRows' = capRows, n # 0
       PROVE  capRows[n].by = r => new = LastCard
  <2> SUFFICES ASSUME capRows[n].by = r PROVE new = LastCard
    OBVIOUS
  <2>1. n \in DOMAIN capRows
    BY <1>1, <1>15
  <2>2. /\ Replays /\ shelf[r] = LastCard /\ LastCard.card = capRows[n].card
        /\ LastCard.stage = capRows[n].stage /\ LastCard.stage \in Lifecycle
    BY <1>1, <1>15, <2>1, RowTypes DEF CapInv, OneWriterInv, LastCard, n
  <2>3. s # "gap" /\ shelf[r].card = c /\ ValidTransition(LastCard.stage, s)
    <3>1. shelf[r].stage # "none"
      BY <2>2, StageRanks
    <3> QED
      BY <2>2, <3>1 DEF NoCard
  <2>4. PICK i \in DOMAIN capRows : capRows[i].card = c /\ capRows[i].stage = s
    BY <1>15, <1>5
  <2>5. Rank(s) <= Rank(LastCard.stage)
    <3>1. i <= n
      BY <1>1
    <3> QED
      BY <1>1, <2>1, <2>2, <2>4, <3>1, RanksAscend
  <2>6. Rank(s) \in 1..13 /\ Rank(LastCard.stage) \in 1..13 /\ LifecycleOrder[Rank(LastCard.stage)] = LastCard.stage
    BY <2>2, Ranks
  <2>7. s = "deprecated"
    BY <2>3, <2>5, <2>6 DEF ValidTransition
  <2>8. LastCard.stage = "deprecated"
    <3>1. Rank(LastCard.stage) = 13 /\ LifecycleOrder[13] = "deprecated"
      BY <2>5, <2>6, <2>7, StageRanks, Ranks
    <3> QED
      BY <2>6, <3>1
  <2> QED
    BY <2>2, <2>3, <2>7, <2>8 DEF LastCard, new
<1>16. OneWriterInv'
  <2> SUFFICES ASSUME OneWriter'
               PROVE  /\ Replays'
                      /\ \A i \in DOMAIN capRows' :
                            registry'[capRows'[i].by] = "up" => shelf'[capRows'[i].by] = LastCard'
    BY DEF OneWriterInv
  <2>1. /\ OneWriter /\ Replays
        /\ \A i \in DOMAIN capRows : registry[capRows[i].by] = "up" => shelf[capRows[i].by] = LastCard
    BY <1>13 DEF CapInv, OneWriterInv
  <2>2. CASE capRows' = capRows
    <3>1. Replays'
      BY <2>1, <2>2 DEF Replays, RowReplays
    <3>2. ASSUME NEW i \in DOMAIN capRows, registry'[capRows[i].by] = "up"
          PROVE  shelf'[capRows[i].by] = LastCard
      <4>1. capRows[i].by \in Registries
        BY <1>1, RowTypes
      <4>2. CASE capRows[i].by # r
        BY <1>4, <2>1, <3>2, <4>1, <4>2
      <4>3. CASE capRows[i].by = r
        <5>1. n \in DOMAIN capRows /\ n # 0
          BY <1>1
        <5>2. capRows[n].by = r
          BY <2>1, <4>3, <5>1 DEF OneWriter
        <5>3. new = LastCard
          BY <1>15, <2>1, <2>2, <5>1, <5>2
        <5> QED
          BY <1>4, <3>2, <4>3, <5>3
      <4> QED
        BY <4>2, <4>3
    <3>3. LastCard' = LastCard
      BY <2>2 DEF LastCard
    <3> QED
      BY <2>2, <3>1, <3>2, <3>3
  <2>3. CASE capRows' = Append(capRows, entry)
    <3>1. /\ entry.card = c /\ entry.stage = s /\ entry.by = r /\ entry.approval = approval
      BY DEF entry
    <3>2. \A i \in DOMAIN capRows' : capRows'[i].by = r
      BY <1>8, <2>3, <3>1 DEF OneWriter
    <3>3. LastCard' = new
      BY <1>8, <2>3, <3>1 DEF LastCard, new
    <3>4. \A i \in DOMAIN capRows' :
             registry'[capRows'[i].by] = "up" => shelf'[capRows'[i].by] = LastCard'
      BY <1>4, <3>2, <3>3
    <3>5. \A i \in DOMAIN capRows : RowReplays(i)'
      <4> SUFFICES ASSUME NEW i \in DOMAIN capRows PROVE RowReplays(i)'
        OBVIOUS
      <4>1. RowReplays(i) /\ i \in DOMAIN capRows' /\ capRows'[i] = capRows[i] /\ i \in 1..n
        BY <1>1, <1>5, <2>1 DEF Replays
      <4>2. i # 1 => capRows'[i - 1] = capRows[i - 1]
        <5>1. i # 1 => i - 1 \in 1..n
          BY <1>1, <4>1
        <5> QED
          BY <1>1, <1>5, <5>1
      <4>3. i > 1 <=> i # 1
        BY <1>1, <4>1
      <4> QED
        BY <4>1, <4>2, <4>3 DEF RowReplays
    <3>6. ASSUME NEW m, m = n + 1 PROVE RowReplays(m)'
      <4>1. capRows'[m] = entry /\ m \in Nat
        BY <1>1, <1>8, <2>3, <3>6
      <4>2. CASE n = 0
        <5>1. s = "gap"
          <6>1. ASSUME shelf[r] # NoCard PROVE FALSE
            <7>1. DOMAIN capRows = {}
              BY <1>1, <4>2
            <7> QED
              BY <6>1, <7>1 DEF CapInv, ShelvesInv, HasRow
          <6> QED
            BY <6>1
        <5>2. m = 1
          BY <3>6, <4>2
        <5> QED
          BY <3>1, <4>1, <5>1, <5>2 DEF RowReplays
      <4>3. CASE n # 0
        <5>1. n \in DOMAIN capRows /\ m > 1 /\ m # 1 /\ m - 1 = n
          BY <1>1, <3>6, <4>3
        <5>2. capRows'[n].by = r /\ capRows'[n] = capRows[n]
          BY <1>5, <3>2, <5>1
        <5>3. shelf[r] = LastCard /\ LastCard.stage = capRows[n].stage /\ LastCard.stage \in Lifecycle
          <6>1. capRows[n].by = r /\ capRows[n].stage \in Lifecycle
            BY <1>1, <5>1, <5>2, RowTypes
          <6> QED
            BY <2>1, <5>1, <6>1 DEF LastCard, n
        <5>4. shelf[r] # NoCard
          BY <5>3, StageRanks DEF NoCard
        <5>5. s # "gap" /\ ValidTransition(capRows[n].stage, s)
          BY <5>3, <5>4
        <5>6. capRows'[m - 1].stage = capRows[n].stage
          BY <5>1, <5>2
        <5> HIDE DEF n
        <5> QED
          BY <3>1, <4>1, <5>1, <5>5, <5>6 DEF RowReplays
      <4> QED
        BY <4>2, <4>3
    <3>7. Replays'
      <4>1. PICK m : m = n + 1
        OBVIOUS
      <4>2. DOMAIN capRows' = DOMAIN capRows \cup {m} /\ RowReplays(m)'
        BY <1>8, <2>3, <3>6, <4>1
      <4> QED
        BY <3>5, <4>2 DEF Replays
    <3> QED
      BY <3>4, <3>7
  <2> QED
    BY <1>3, <2>2, <2>3
<1> QED
  BY <1>6, <1>10, <1>11, <1>12, <1>14, <1>16 DEF CapInv

\* A fresh registry over an empty ledger.
LEMMA InitCap == CapInit => CapInv
<1> SUFFICES ASSUME CapInit PROVE CapInv
  OBVIOUS
<1>1. CapTypeOK
  BY CapabilityAssumption DEF CapInit, CapTypeOK
<1>2. RowsEarnedInv /\ ShelvesInv /\ LentInv
  BY DEF CapInit, RowsEarnedInv, ShelvesInv, LentInv
<1>3. OneWriterInv /\ RefusedInv
  BY DEF CapInit, OneWriterInv, RefusedInv, Replays
<1> QED
  BY <1>1, <1>2, <1>3 DEF CapInv

\* Every step of a registry keeps the invariant.
LEMMA NextCap == CapInv /\ [CapNext]_capVars => CapInv'
<1> SUFFICES ASSUME CapInv, [CapNext]_capVars PROVE CapInv'
  OBVIOUS
<1>1. /\ CapTypeOK /\ Len(capRows) \in Nat /\ DOMAIN capRows = 1..Len(capRows)
      /\ \A i \in DOMAIN capRows : capRows[i].card \in CardIds /\ capRows[i].stage \in Lifecycle
      /\ MaxRegistryDeaths \in Nat
  <2>1. CapTypeOK
    BY DEF CapInv
  <2> QED
    BY <2>1, RowTypes, CapabilityAssumption
\* What keeps the rows keeps all that is said of them alone.
<1>2. ASSUME capRows' = capRows
      PROVE  /\ RowsEarnedInv' /\ (OneWriter' <=> OneWriter) /\ (Replays' <=> Replays) /\ LastCard' = LastCard
             /\ \A x, y : HasRow(x, y) => HasRow(x, y)'
  <2>1. RowsEarnedInv'
    BY <1>2 DEF CapInv, RowsEarnedInv, Climbed, Tested
  <2>2. (OneWriter' <=> OneWriter) /\ LastCard' = LastCard
    BY <1>2 DEF OneWriter, LastCard
  <2>3. Replays' <=> Replays
    BY <1>2 DEF Replays, RowReplays
  <2>4. \A x, y : HasRow(x, y) => HasRow(x, y)'
    BY <1>2 DEF HasRow
  <2> QED
    BY <2>1, <2>2, <2>3, <2>4
<1>3. ASSUME NEW r \in Registries, NEW c \in CardIds, Register(r, c) PROVE CapInv'
  <2>1. /\ registry[r] = "up" /\ shelf[r] = NoCard /\ Record(r, c, "gap", FALSE)
        /\ Tested(c, "gap") /\ "gap" \in Lifecycle /\ "gap" \notin Active
    BY <1>3, StageRanks DEF Register, Tested, Active
  <2> QED
    BY <2>1, RecordPreserves
<1>4. ASSUME NEW r \in Registries, NEW t \in Lifecycle \ {"gap"}, NEW approval \in BOOLEAN,
             PromoteCard(r, t, approval)
      PROVE  CapInv'
  <2>1. shelf[r].card \in CardIds
    BY <1>1, <1>4 DEF CapTypeOK, PromoteCard
  <2> QED
    BY <1>4, <2>1, RecordPreserves DEF PromoteCard
<1>5. ASSUME NEW r \in Registries, Hydrate(r) PROVE CapInv'
  <2>1. /\ UNCHANGED <<capRows, gate8, lent, capMishaps>> /\ registry[r] = "down"
        /\ \A q \in Registries \ {r} : registry'[q] = registry[q] /\ shelf'[q] = shelf[q]
        /\ registry'[r] = IF Replays THEN "up" ELSE "refused"
        /\ shelf'[r] = IF Replays /\ capRows # <<>> THEN LastCard ELSE NoCard
        /\ registry' \in [Registries -> {"down", "up", "refused"}]
    BY <1>1, <1>5 DEF Hydrate, CapTypeOK, LastCard
  <2>2. capRows # <<>> => /\ Len(capRows) \in DOMAIN capRows /\ HasRow(LastCard.card, LastCard.stage)
                          /\ LastCard \in [card : CardIds, stage : Lifecycle]
    <3>1. capRows # <<>> => Len(capRows) \in DOMAIN capRows
      BY <1>1 DEF CapTypeOK
    <3> QED
      BY <1>1, <3>1 DEF HasRow, LastCard
  <2>3. CapTypeOK'
    <3>1. shelf' \in [Registries -> [card : CardIds, stage : Lifecycle] \cup {NoCard}]
      <4>1. shelf' = [shelf EXCEPT ![r] = IF Replays /\ capRows # <<>> THEN LastCard ELSE NoCard]
        BY <1>5 DEF Hydrate, LastCard
      <4> QED
        BY <1>1, <2>2, <4>1 DEF CapTypeOK
    <3> QED
      BY <1>1, <2>1, <3>1 DEF CapTypeOK
  <2>4. ShelvesInv'
    BY <1>2, <2>1, <2>2 DEF CapInv, ShelvesInv, HasRow
  <2>5. LentInv'
    BY <2>1 DEF CapInv, LentInv, HasRow
  <2>6. OneWriterInv'
    <3> SUFFICES ASSUME OneWriter
                 PROVE  Replays /\ \A i \in DOMAIN capRows :
                            registry'[capRows[i].by] = "up" => shelf'[capRows[i].by] = LastCard
      BY <1>2, <2>1 DEF OneWriterInv
    <3>1. Replays /\ \A i \in DOMAIN capRows : registry[capRows[i].by] = "up" => shelf[capRows[i].by] = LastCard
      BY DEF CapInv, OneWriterInv
    <3>2. \A i \in DOMAIN capRows : capRows # <<>> /\ capRows[i].by \in Registries
      BY <1>1, RowTypes DEF CapTypeOK
    <3> QED
      BY <2>1, <3>1, <3>2
  <2>7. RefusedInv'
    <3>1. ~ Replays => ~ OneWriter
      BY DEF CapInv, OneWriterInv
    <3> QED
      BY <1>2, <2>1, <3>1 DEF CapInv, RefusedInv
  <2> QED
    BY <1>2, <2>1, <2>3, <2>4, <2>5, <2>6, <2>7 DEF CapInv
<1>6. ASSUME NEW r \in Registries, RegistryDies(r) PROVE CapInv'
  <2>1. /\ UNCHANGED <<capRows, gate8, lent>> /\ capMishaps' \in 0..MaxRegistryDeaths
        /\ \A q \in Registries \ {r} : registry'[q] = registry[q] /\ shelf'[q] = shelf[q]
        /\ registry'[r] = "down" /\ shelf'[r] = NoCard
        /\ registry' \in [Registries -> {"down", "up", "refused"}]
        /\ shelf' \in [Registries -> [card : CardIds, stage : Lifecycle] \cup {NoCard}]
    BY <1>1, <1>6 DEF RegistryDies, CapMishap, CapTypeOK
  <2>2. CapTypeOK'
    BY <1>1, <2>1 DEF CapTypeOK
  <2>3. ShelvesInv' /\ LentInv' /\ RefusedInv'
    BY <1>2, <2>1 DEF CapInv, ShelvesInv, LentInv, RefusedInv, HasRow
  <2>4. OneWriterInv'
    <3>1. \A i \in DOMAIN capRows : capRows[i].by \in Registries
      BY <1>1, RowTypes
    <3> QED
      BY <1>2, <2>1, <3>1 DEF CapInv, OneWriterInv
  <2> QED
    BY <1>2, <2>1, <2>2, <2>3, <2>4 DEF CapInv
<1>7. ASSUME GateMoves PROVE CapInv'
  <2>1. CapTypeOK' /\ UNCHANGED <<capRows, shelf, registry, lent>>
    BY <1>1, <1>7 DEF GateMoves, CapMishap, CapTypeOK
  <2>2. ShelvesInv' /\ LentInv' /\ RefusedInv' /\ OneWriterInv'
    BY <1>2, <2>1 DEF CapInv, ShelvesInv, LentInv, RefusedInv, OneWriterInv, HasRow
  <2> QED
    BY <1>2, <2>1, <2>2 DEF CapInv
<1>8. ASSUME NEW r \in Registries, Expose(r) PROVE CapInv'
  <2>1. /\ UNCHANGED <<capRows, shelf, registry, gate8, capMishaps>> /\ lent' = lent \cup {shelf[r]}
        /\ shelf[r].stage \in Active
    BY <1>8 DEF Expose
  <2>2. shelf[r] # NoCard /\ shelf[r] \in [card : CardIds, stage : Active]
    BY <1>1, <2>1, StageRanks DEF CapTypeOK, NoCard
  <2>3. CapTypeOK'
    BY <1>1, <2>1, <2>2 DEF CapTypeOK
  <2>4. LentInv'
    BY <2>1, <2>2 DEF CapInv, LentInv, ShelvesInv, HasRow
  <2>5. ShelvesInv' /\ RefusedInv' /\ OneWriterInv'
    BY <1>2, <2>1 DEF CapInv, ShelvesInv, RefusedInv, OneWriterInv, HasRow
  <2> QED
    BY <1>2, <2>1, <2>3, <2>4, <2>5 DEF CapInv
<1>9. CASE UNCHANGED capVars
  <2>1. CapTypeOK' /\ UNCHANGED <<capRows, shelf, registry, lent>>
    BY <1>1, <1>9 DEF capVars, CapTypeOK
  <2>2. ShelvesInv' /\ LentInv' /\ RefusedInv' /\ OneWriterInv'
    BY <1>2, <2>1 DEF CapInv, ShelvesInv, LentInv, RefusedInv, OneWriterInv, HasRow
  <2> QED
    BY <1>2, <2>1, <2>2 DEF CapInv
<1> QED
  BY <1>3, <1>4, <1>5, <1>6, <1>7, <1>8, <1>9 DEF CapNext

\* However many registries share the ledger and whatever dies: an executor is handed out
\* only for a card whose every stage has its row in order; no memory runs ahead of the
\* ledger; a ledger that replays brings no retired card back; and a registry refuses its
\* own ledger only when two of them wrote to it.
THEOREM ActiveIsEarnedTheorem == CapSpec => []ActiveIsEarned
<1>1. CapInit => CapInv
  BY InitCap
<1>2. CapInv /\ [CapNext]_capVars => CapInv'
  BY NextCap
<1>3. CapInv => ActiveIsEarned
  BY CapSuffices
<1> QED
  BY <1>1, <1>2, <1>3, PTL DEF CapSpec
---------------------------------------------------------------------------
(* Soak runner *)

SoakSamples == [config : SoakConfigs, at : Nat, clean : BOOLEAN]
SoakStates == {"off", "writing", "made", "top", "cycle", "recorded", "sleep", "finish", "ended"}
SoakHolding == {"top", "cycle", "recorded", "sleep", "finish", "ended"}
SoakLimits == {0, 1}
SoakRecs == [pc : SoakStates, config : SoakConfigs \cup {0}, limit : SoakLimits, now : Nat]

SoakTypes ==
    /\ soakClock \in Nat /\ soakConfig \subseteq SoakConfigs /\ soakLog \in Seq(SoakSamples)
    /\ soaker \in [Runners -> SoakRecs] /\ cyclesRun \in Nat /\ soakFaults \in Nat
    /\ \A p \in Runners : soaker[p].pc # "off" => soaker[p].config \in SoakConfigs

\* One configuration, in the order of time, none after the terminal record and none ahead
\* of the clock.
SoakLogInv ==
    /\ \A i, j \in DOMAIN soakLog :
          soakLog[i].config = soakLog[j].config /\ (i < j => soakLog[i].at < soakLog[j].at)
    /\ \A i \in DOMAIN soakLog : soakLog[i].at >= SoakTarget + 1 => i = Len(soakLog)

\* Who holds the lock holds it alone, over a log of its own configuration.
SoakLockInv ==
    /\ \A p, q \in Runners : soaker[p].pc \in SoakHolding /\ soaker[q].pc \in SoakHolding => p = q
    /\ \A p \in Runners : soaker[p].pc \in SoakHolding =>
          \A i \in DOMAIN soakLog : soakLog[i].config = soaker[p].config

\* A cycle starts after the last record, which is not terminal; the end comes after the
\* summary of a terminal run.
SoakCycleInv ==
    \A p \in Runners : soaker[p].pc = "cycle" /\ soakLog # <<>> =>
        LastAt < soaker[p].now /\ LastAt < SoakTarget + 1
SoakEndInv ==
    \A p \in Runners : soaker[p].pc = "ended" /\ LastAt >= SoakTarget + 1 => soakSummary # {}

SoakSummaryInv ==
    /\ soakSummary # {} => soakLog # <<>> /\ LastAt >= SoakTarget + 1 /\ soakSummary = {soakLog[1].config}
    /\ soakFile = "completed_60_calendar_days" => soakSummary # {}

SoakCountInv ==
    /\ cyclesRun <= Len(soakLog) + soakFaults
    /\ soakFaults = 0 => board.memory = board.ledger

SoakInv ==
    /\ SoakTypes /\ SoakLogInv /\ SoakLockInv /\ SoakCycleInv /\ SoakEndInv /\ SoakSummaryInv
    /\ SoakCountInv

\* The invariant gives the property.
LEMMA SoakSuffices == SoakInv => SoakEvidenceHolds
<1> SUFFICES ASSUME SoakInv PROVE SoakEvidenceHolds
  OBVIOUS
<1>1. soakFaults \in Nat
  BY DEF SoakInv, SoakTypes
<1>2. SoakGate(board.ledger) /\ ~ SoakGate(board.memory) => soakFaults > 0
  <2>1. SUFFICES ASSUME soakFaults = 0 PROVE board.memory = board.ledger
    BY <1>1
  <2> QED
    BY <2>1 DEF SoakInv, SoakCountInv
<1>3. /\ SoakLogInv /\ SoakSummaryInv /\ cyclesRun <= Len(soakLog) + soakFaults
  BY DEF SoakInv, SoakCountInv
<1> QED
  BY <1>2, <1>3 DEF SoakEvidenceHolds, SoakLogInv, SoakSummaryInv

\* A count that grows no faster than what bounds it.
LEMMA Slack ==
    ASSUME NEW a \in Nat, NEW b \in Nat, NEW n \in Nat, NEW aNext \in Nat, NEW bNext \in Nat,
           a <= n + b, aNext + b <= a + bNext
    PROVE  aNext <= n + bNext
OBVIOUS

\* The places of a log with one more row.
LEMMA OneMore == \A n \in Nat : \A i \in 1..(n + 1) : i \in 1..n \/ i = n + 1
OBVIOUS

\* A number is not both at least and below a bound.
LEMMA NotBoth == ASSUME NEW a \in Nat, NEW b \in Nat, a >= b + 1, a < b + 1 PROVE FALSE
OBVIOUS

\* What a construction puts into a runner's record.
Fresh(pc, c, limit) == [OffSoaker EXCEPT !.pc = pc, !.config = c, !.limit = limit]

\* A run starts with the configuration it is given.
LEMMA FreshSoaker ==
    ASSUME NEW pc \in SoakStates, NEW c \in SoakConfigs, NEW limit \in SoakLimits
    PROVE  /\ Fresh(pc, c, limit) \in SoakRecs
           /\ Fresh(pc, c, limit).pc = pc /\ Fresh(pc, c, limit).config = c
BY DEF Fresh, OffSoaker, SoakRecs

\* A runner moves while the log and the clock stand still: what must hold of where it goes.
LEMMA SoakMoves ==
    ASSUME SoakInv, NEW p \in Runners, NEW x \in SoakRecs, soaker' = [soaker EXCEPT ![p] = x],
           UNCHANGED <<soakClock, soakLog>>, soakConfig' \subseteq SoakConfigs,
           x.pc # "off" => x.config \in SoakConfigs,
           x.pc \in SoakHolding =>
              /\ soaker[p].pc \in SoakHolding \/ SoakLockFree
              /\ \A i \in DOMAIN soakLog : soakLog[i].config = x.config,
           x.pc = "cycle" /\ soakLog # <<>> => LastAt < x.now /\ LastAt < SoakTarget + 1,
           x.pc = "ended" /\ LastAt >= SoakTarget + 1 => soakSummary' # {},
           soakSummary # {} => soakSummary' # {},
           cyclesRun' \in Nat, soakFaults' \in Nat, cyclesRun' + soakFaults <= cyclesRun + soakFaults',
           soakFaults' = 0 => soakFaults = 0,
           board' = board,
           SoakSummaryInv'
    PROVE  SoakInv'
<1>1. /\ soaker \in [Runners -> SoakRecs] /\ cyclesRun \in Nat /\ soakFaults \in Nat
      /\ soakLog \in Seq(SoakSamples) /\ Len(soakLog) \in Nat /\ soakClock \in Nat
  <2>1. SoakTypes
    BY DEF SoakInv
  <2> QED
    BY <2>1 DEF SoakTypes
<1>2. soaker'[p] = x /\ \A q \in Runners \ {p} : soaker'[q] = soaker[q]
  BY <1>1
<1>3. SoakTypes'
  <2>1. soaker' \in [Runners -> SoakRecs]
    BY <1>1
  <2>2. \A q \in Runners : soaker'[q].pc # "off" => soaker'[q].config \in SoakConfigs
    BY <1>2 DEF SoakInv, SoakTypes
  <2> QED
    BY <1>1, <2>1, <2>2 DEF SoakTypes
<1>4. SoakLogInv'
  BY DEF SoakInv, SoakLogInv
<1>5. SoakLockInv'
  <2>1. SoakLockFree => \A q \in Runners : soaker[q].pc \notin SoakHolding
    BY DEF SoakLockFree, SoakHolding
  <2>2. \A q \in Runners \ {p} : x.pc \in SoakHolding => soaker[q].pc \notin SoakHolding
    BY <2>1 DEF SoakInv, SoakLockInv
  <2>3. \A q, s \in Runners : soaker'[q].pc \in SoakHolding /\ soaker'[s].pc \in SoakHolding => q = s
    BY <1>2, <2>2 DEF SoakInv, SoakLockInv
  <2>4. \A q \in Runners : soaker'[q].pc \in SoakHolding =>
          \A i \in DOMAIN soakLog : soakLog[i].config = soaker'[q].config
    BY <1>2 DEF SoakInv, SoakLockInv
  <2> QED
    BY <2>3, <2>4 DEF SoakLockInv
<1>6. LastAt' = LastAt
  BY DEF LastAt
<1>7. SoakCycleInv'
  BY <1>2, <1>6 DEF SoakInv, SoakCycleInv
<1>8. SoakEndInv'
  BY <1>2, <1>6 DEF SoakInv, SoakEndInv
<1>9. SoakCountInv'
  <2>1. cyclesRun <= Len(soakLog) + soakFaults
    BY DEF SoakInv, SoakCountInv
  <2>2. cyclesRun' <= Len(soakLog) + soakFaults'
    <3>1. /\ cyclesRun \in Nat /\ soakFaults \in Nat /\ Len(soakLog) \in Nat
          /\ cyclesRun' \in Nat /\ soakFaults' \in Nat
      BY <1>1
    <3>2. cyclesRun' + soakFaults <= cyclesRun + soakFaults'
      OBVIOUS
    <3> QED
      BY <2>1, <3>1, <3>2, Slack, Zenon
  <2> QED
    BY <2>2 DEF SoakInv, SoakCountInv
<1> QED
  BY <1>3, <1>4, <1>5, <1>7, <1>8, <1>9 DEF SoakInv

\* A sample is appended: the holder is in its cycle, after the last record, which was not
\* the terminal one.
LEMMA SoakAppends ==
    ASSUME SoakInv, NEW p \in Runners, soaker[p].pc = "cycle", NEW entry \in SoakSamples,
           entry.config = soaker[p].config, entry.at = soaker[p].now, soakLog' = Append(soakLog, entry),
           NEW x \in SoakRecs, x.pc = "recorded", x.config = soaker[p].config,
           soaker' = [soaker EXCEPT ![p] = x],
           cyclesRun' = cyclesRun + 1,
           UNCHANGED <<soakClock, soakConfig, soakSummary, soakFile, board, soakFaults>>
    PROVE  SoakInv'
<1> DEFINE n == Len(soakLog)
<1>1. /\ soaker \in [Runners -> SoakRecs] /\ cyclesRun \in Nat /\ soakFaults \in Nat /\ SoakTypes
      /\ soakLog \in Seq(SoakSamples) /\ n \in Nat /\ DOMAIN soakLog = 1..n
      /\ \A i \in 1..n : soakLog[i].at \in Nat
  <2>1. SoakTypes
    BY DEF SoakInv
  <2>2. soakLog \in Seq(SoakSamples)
    BY <2>1 DEF SoakTypes
  <2>3. \A i \in DOMAIN soakLog : soakLog[i] \in SoakSamples
    BY <2>2
  <2> QED
    BY <2>1, <2>2, <2>3 DEF SoakTypes, SoakSamples
<1>2. /\ soakLog' \in Seq(SoakSamples) /\ Len(soakLog') = n + 1 /\ DOMAIN soakLog' = 1..(n + 1)
      /\ soakLog'[n + 1] = entry /\ \A i \in 1..n : soakLog'[i] = soakLog[i]
  <2>1. /\ soakLog' \in Seq(SoakSamples) /\ Len(soakLog') = n + 1
        /\ DOMAIN soakLog' = DOMAIN soakLog \cup {n + 1} /\ soakLog'[n + 1] = entry
        /\ \A i \in DOMAIN soakLog : soakLog'[i] = soakLog[i]
    BY <1>1, AppendedLog
  <2> QED
    BY <1>1, <2>1
<1>3. /\ soaker'[p] = x /\ soaker' \in [Runners -> SoakRecs]
      /\ \A q \in Runners \ {p} : soaker'[q] = soaker[q]
  BY <1>1
<1>4. SoakTypes'
  <2>1. \A q \in Runners : soaker'[q].pc # "off" => soaker'[q].config \in SoakConfigs
    BY <1>1, <1>3 DEF SoakTypes
  <2> QED
    BY <1>1, <1>2, <1>3, <2>1 DEF SoakTypes
<1>5. /\ n # 0 => LastAt = soakLog[n].at /\ soakLog[n].at < entry.at /\ soakLog[n].at < SoakTarget + 1
      /\ \A q \in Runners : soaker[q].pc \in SoakHolding => q = p
      /\ \A i \in 1..n : soakLog[i].config = entry.config
      /\ SoakTarget \in Nat
  <2>1. n # 0 <=> soakLog # <<>>
    BY <1>1
  <2>2. \A q \in Runners : soaker[q].pc \in SoakHolding => q = p
    BY DEF SoakInv, SoakLockInv, SoakHolding
  <2>3. \A i \in 1..n : soakLog[i].config = entry.config
    BY <1>1 DEF SoakInv, SoakLockInv, SoakHolding
  <2>4. n # 0 => LastAt < entry.at /\ LastAt < SoakTarget + 1
    BY <2>1 DEF SoakInv, SoakCycleInv
  <2> QED
    BY <2>1, <2>2, <2>3, <2>4, SoakAssumption DEF LastAt
<1> HIDE DEF n
<1>6. \A i \in 1..n : soakLog[i].at < entry.at /\ soakLog[i].at < SoakTarget + 1
  <2> SUFFICES ASSUME NEW i \in 1..n PROVE soakLog[i].at < entry.at /\ soakLog[i].at < SoakTarget + 1
    OBVIOUS
  <2>1. i = n \/ i < n
    BY <1>1
  <2>2. n \in 1..n /\ n # 0
    BY <1>1
  <2>3. i < n => soakLog[i].at < soakLog[n].at
    BY <1>1, <2>2 DEF SoakInv, SoakLogInv
  <2>4. soakLog[i].at \in Nat /\ soakLog[n].at \in Nat /\ entry.at \in Nat
    BY <1>1, <2>2 DEF SoakSamples
  <2> QED
    BY <1>5, <2>1, <2>2, <2>3, <2>4
<1>7. SoakLogInv'
  <2>1. ASSUME NEW i \in 1..(n + 1), NEW j \in 1..(n + 1)
        PROVE  soakLog'[i].config = soakLog'[j].config /\ (i < j => soakLog'[i].at < soakLog'[j].at)
    <3>1. (i \in 1..n \/ i = n + 1) /\ (j \in 1..n \/ j = n + 1)
      BY <1>1, OneMore, Zenon
    <3>2. CASE i \in 1..n /\ j \in 1..n
      BY <1>1, <1>2, <3>2, ZenonT(60) DEF SoakInv, SoakLogInv
    <3>3. CASE i \in 1..n /\ j = n + 1
      BY <1>2, <1>5, <1>6, <3>3
    <3>4. CASE i = n + 1
      <4>1. ~ (i < j)
        BY <1>1, <3>4
      <4> QED
        BY <1>2, <1>5, <3>1, <3>4, <4>1
    <3> QED
      BY <3>1, <3>2, <3>3, <3>4
  <2>2. ASSUME NEW i \in 1..(n + 1), soakLog'[i].at >= SoakTarget + 1 PROVE i = n + 1
    <3>1. i \in 1..n => soakLog'[i].at = soakLog[i].at /\ soakLog[i].at < SoakTarget + 1 /\ soakLog[i].at \in Nat
      BY <1>1, <1>2, <1>6
    <3>2. i \notin 1..n
      <4>1. SoakTarget \in Nat
        BY SoakAssumption
      <4> QED
        BY <2>2, <3>1, <4>1, NotBoth
    <3> QED
      BY <1>1, <3>2
  <2> QED
    BY <1>2, <2>1, <2>2 DEF SoakLogInv
<1>8. SoakLockInv'
  <2>1. \A q \in Runners : soaker'[q].pc \in SoakHolding => q = p
    BY <1>3, <1>5
  <2>2. \A i \in 1..(n + 1) : soakLog'[i].config = soaker'[p].config
    <3>1. \A i \in 1..(n + 1) : i \in 1..n \/ i = n + 1
      BY <1>1
    <3> QED
      BY <1>2, <1>3, <1>5, <3>1
  <2> QED
    BY <1>2, <2>1, <2>2 DEF SoakLockInv
<1>9. SoakCycleInv' /\ SoakEndInv'
  <2>1. \A q \in Runners : soaker'[q].pc # "cycle" /\ soaker'[q].pc # "ended"
    BY <1>3, <1>5 DEF SoakHolding
  <2> QED
    BY <2>1 DEF SoakCycleInv, SoakEndInv
\* The last record was not terminal, so there is no summary yet.
<1>10. SoakSummaryInv'
  <2>1. soakSummary = {}
    <3>1. soakSummary # {} => soakLog # <<>> /\ LastAt >= SoakTarget + 1
      BY DEF SoakInv, SoakSummaryInv
    <3>2. soakLog # <<>> => n \in 1..n /\ n # 0
      BY <1>1 DEF n
    <3>3. n \in 1..n => soakLog[n].at \in Nat
      BY <1>1
    <3> QED
      BY <1>5, <3>1, <3>2, <3>3
  <2> QED
    BY <2>1 DEF SoakInv, SoakSummaryInv
<1>11. SoakCountInv'
  <2>1. cyclesRun <= n + soakFaults
    BY DEF SoakInv, SoakCountInv, n
  <2>2. cyclesRun' <= Len(soakLog') + soakFaults
    BY <1>1, <1>2, <2>1
  <2> QED
    BY <2>2 DEF SoakInv, SoakCountInv
<1> QED
  BY <1>4, <1>7, <1>8, <1>9, <1>10, <1>11 DEF SoakInv

\* Nothing has run and nothing is recorded.
LEMMA InitSoak == SoakInit => SoakInv
<1> SUFFICES ASSUME SoakInit PROVE SoakInv
  OBVIOUS
<1>1. /\ OffSoaker \in SoakRecs /\ OffSoaker.pc = "off" /\ "off" \notin SoakHolding
      /\ \A p \in Runners : soaker[p] = OffSoaker
  BY DEF OffSoaker, SoakRecs, SoakStates, SoakLimits, SoakHolding, SoakInit
<1>2. soakLog \in Seq(SoakSamples) /\ Len(soakLog) = 0 /\ DOMAIN soakLog = {}
  BY DEF SoakInit
<1>3. SoakTypes
  BY <1>1, <1>2 DEF SoakInit, SoakTypes
<1>4. SoakLogInv /\ SoakLockInv /\ SoakCycleInv /\ SoakEndInv
  BY <1>1, <1>2 DEF SoakInit, SoakLogInv, SoakLockInv, SoakCycleInv, SoakEndInv
<1>5. SoakSummaryInv /\ SoakCountInv
  BY <1>2 DEF SoakInit, SoakSummaryInv, SoakCountInv
<1> QED
  BY <1>3, <1>4, <1>5 DEF SoakInv

\* Every step of the runners, the controller and the clock keeps the invariant.
LEMMA NextSoak == SoakInv /\ [SoakNext]_soakVars => SoakInv'
<1> SUFFICES ASSUME SoakInv, [SoakNext]_soakVars PROVE SoakInv'
  OBVIOUS
<1>1. /\ soaker \in [Runners -> SoakRecs] /\ cyclesRun \in Nat /\ soakFaults \in Nat
      /\ soakLog \in Seq(SoakSamples) /\ Len(soakLog) \in Nat /\ soakClock \in Nat
      /\ soakConfig \subseteq SoakConfigs
      /\ \A p \in Runners : soaker[p].pc # "off" => soaker[p].config \in SoakConfigs
  <2>1. SoakTypes
    BY DEF SoakInv
  <2> QED
    BY <2>1 DEF SoakTypes
<1>2. /\ OffSoaker \in SoakRecs /\ OffSoaker.pc = "off" /\ "off" \notin SoakHolding
      /\ "cycle" # "off" /\ "ended" # "off"
  BY DEF OffSoaker, SoakRecs, SoakStates, SoakLimits, SoakHolding
\* Putting the lock down, or never having it, asks for nothing.
<1>3. ASSUME NEW p \in Runners, Ends(p), UNCHANGED <<soakClock, soakLog, board>>,
             UNCHANGED <<soakConfig, soakSummary>>, SoakSummaryInv',
             cyclesRun' \in Nat, soakFaults' \in Nat, cyclesRun' + soakFaults <= cyclesRun + soakFaults',
             soakFaults' = 0 => soakFaults = 0
      PROVE  SoakInv'
  BY <1>1, <1>2, <1>3, SoakMoves DEF Ends
<1>4. SoakFault => soakFaults' \in Nat /\ soakFaults' = soakFaults + 1 /\ soakFaults' # 0
  BY <1>1 DEF SoakFault
\* The pc of a runner moves: what that changes of its record.
<1>5. ASSUME NEW p \in Runners, NEW pc \in SoakStates, Goes(p, pc)
      PROVE  \E x \in SoakRecs : /\ soaker' = [soaker EXCEPT ![p] = x]
                                 /\ x.pc = pc /\ x.config = soaker[p].config /\ x.now = soaker[p].now
  <2>1. [soaker[p] EXCEPT !.pc = pc] \in SoakRecs
    BY <1>1 DEF SoakRecs
  <2>2. /\ [soaker[p] EXCEPT !.pc = pc].pc = pc
        /\ [soaker[p] EXCEPT !.pc = pc].config = soaker[p].config
        /\ [soaker[p] EXCEPT !.pc = pc].now = soaker[p].now
    BY <1>1 DEF SoakRecs
  <2>3. soaker' = [soaker EXCEPT ![p] = [soaker[p] EXCEPT !.pc = pc]]
    BY <1>5 DEF Goes
  <2> QED
    BY <2>1, <2>2, <2>3
<1>6. ASSUME UNCHANGED <<soakSummary, soakLog>>, soakFile' \in {soakFile, "failed", "running", "short_smoke_complete"}
      PROVE  SoakSummaryInv' /\ LastAt' = LastAt
  BY <1>6 DEF SoakInv, SoakSummaryInv, LastAt
\* Keeping the lock, on the way to anything but a cycle or the end.
<1>7. ASSUME NEW p \in Runners, NEW pc \in SoakStates \ {"off", "cycle", "ended"}, Goes(p, pc),
             soaker[p].pc # "off",
             pc \in SoakHolding => soaker[p].pc \in SoakHolding \/ (SoakLockFree /\ Readable(p)),
             UNCHANGED <<soakClock, soakLog, soakSummary, cyclesRun, board, soakFaults>>,
             soakConfig' \subseteq SoakConfigs, soakFile' \in {soakFile, "running"}
      PROVE  SoakInv'
  <2>1. PICK x \in SoakRecs : /\ soaker' = [soaker EXCEPT ![p] = x]
                              /\ x.pc = pc /\ x.config = soaker[p].config
    BY <1>5, <1>7
  <2>2. x.config \in SoakConfigs
    BY <1>1, <1>7, <2>1
  <2>3. pc \in SoakHolding => \A i \in DOMAIN soakLog : soakLog[i].config = x.config
    BY <1>7, <2>1 DEF Readable, SoakInv, SoakLockInv
  <2>4. SoakSummaryInv'
    BY <1>6, <1>7
  <2>5. cyclesRun' + soakFaults <= cyclesRun + soakFaults'
    BY <1>1, <1>7
  <2> QED
    BY <1>1, <1>7, <2>1, <2>2, <2>3, <2>4, <2>5, SoakMoves
<1>8. ASSUME NEW p \in Runners, NEW c \in SoakConfigs, NEW limit \in {0, 1}, SoakConstruct(p, c, limit)
      PROVE  SoakInv'
  <2> DEFINE pc == IF soakConfig = {} THEN "writing" ELSE "made"
  <2>1. pc \in {"writing", "made"}
    OBVIOUS
  <2> HIDE DEF pc
  <2> DEFINE x == Fresh(pc, c, limit)
  <2>2. x \in SoakRecs /\ x.pc = pc /\ x.config = c
    <3>1. pc \in SoakStates /\ limit \in SoakLimits
      BY <2>1 DEF SoakStates, SoakLimits
    <3> QED
      BY <3>1, FreshSoaker
  <2>3. /\ soaker' = [soaker EXCEPT ![p] = x]
        /\ UNCHANGED <<soakClock, soakConfig, soakLog, soakSummary, soakFile, cyclesRun, board, soakFaults>>
    BY <1>8 DEF SoakConstruct, SoakEvidence, pc, Fresh
  <2> HIDE DEF x
  <2>4. x.pc \notin SoakHolding /\ x.pc \notin {"cycle", "ended"}
    <3>1. pc \notin SoakHolding /\ pc \notin {"cycle", "ended"}
      BY <2>1 DEF SoakHolding
    <3> QED
      BY <2>2, <3>1
  <2>5. cyclesRun' + soakFaults <= cyclesRun + soakFaults'
    BY <1>1, <2>3
  <2> QED
    BY <1>1, <1>6, <2>2, <2>3, <2>4, <2>5, SoakMoves
<1>9. ASSUME NEW p \in Runners, SoakConfigure(p) PROVE SoakInv'
  <2>1. "made" \in SoakStates \ {"off", "cycle", "ended"} /\ "made" \notin SoakHolding
    BY DEF SoakStates, SoakHolding
  <2>2. soakConfig' \subseteq SoakConfigs
    BY <1>1, <1>9 DEF SoakConfigure, At
  <2> QED
    BY <1>7, <1>9, <2>1, <2>2 DEF SoakConfigure, At
<1>10. ASSUME NEW p \in Runners, SoakLock(p) PROVE SoakInv'
  <2>1. /\ UNCHANGED <<soakClock, soakConfig, soakLog, soakSummary, soakFile, cyclesRun, board, soakFaults>>
        /\ soaker[p].pc = "made"
    BY <1>10 DEF SoakLock, SoakEvidence, At
  <2>2. CASE SoakLockFree /\ Readable(p) /\ Goes(p, "top")
    <3>1. "top" \in SoakStates \ {"off", "cycle", "ended"}
      BY DEF SoakStates
    <3> QED
      BY <1>1, <1>7, <2>1, <2>2, <3>1
  <2>3. CASE Ends(p)
    BY <1>1, <1>3, <1>6, <2>1, <2>3
  <2> QED
    BY <1>10, <2>2, <2>3 DEF SoakLock
<1>11. ASSUME NEW p \in Runners, SoakTop(p) PROVE SoakInv'
  <2>1. /\ UNCHANGED <<soakClock, soakConfig, soakLog, soakSummary, soakFile, cyclesRun, board, soakFaults>>
        /\ soaker[p].pc = "top" /\ "top" \in SoakHolding
    BY <1>11 DEF SoakTop, SoakEvidence, At, SoakHolding
  <2>2. CASE Goes(p, "finish")
    <3>1. "finish" \in SoakStates \ {"off", "cycle", "ended"}
      BY DEF SoakStates
    <3> QED
      BY <1>1, <1>7, <2>1, <2>2, <3>1
  <2>3. CASE Ends(p)
    BY <1>1, <1>3, <1>6, <2>1, <2>3
  <2>4. CASE /\ ~ SoakDone(p) /\ ~ (soakLog # <<>> /\ soakClock <= LastAt)
             /\ soaker' = [soaker EXCEPT ![p].pc = "cycle", ![p].now = soakClock]
    <3> DEFINE x == [soaker[p] EXCEPT !.pc = "cycle", !.now = soakClock]
    <3>1. /\ x \in SoakRecs /\ x.pc = "cycle" /\ x.now = soakClock /\ x.config = soaker[p].config
          /\ soaker' = [soaker EXCEPT ![p] = x]
      <4>1. x \in SoakRecs
        BY <1>1 DEF SoakRecs, SoakStates
      <4>2. x.pc = "cycle" /\ x.now = soakClock /\ x.config = soaker[p].config
        BY <1>1 DEF SoakRecs
      <4>3. soaker' = [soaker EXCEPT ![p] = x]
        BY <1>1, <2>4
      <4> QED
        BY <4>1, <4>2, <4>3
    <3> HIDE DEF x
    <3>2. soakLog # <<>> => LastAt < soakClock /\ LastAt < SoakTarget + 1
      <4>1. soakLog # <<>> => LastAt \in Nat
        <5>1. soakLog # <<>> => Len(soakLog) \in DOMAIN soakLog
          BY <1>1
        <5>2. \A i \in DOMAIN soakLog : soakLog[i] \in SoakSamples
          BY <1>1
        <5> QED
          BY <5>1, <5>2 DEF LastAt, SoakSamples
      <4> QED
        BY <1>1, <2>4, <4>1, SoakAssumption DEF SoakDone
    <3>3. \A i \in DOMAIN soakLog : soakLog[i].config = x.config
      BY <2>1, <3>1 DEF SoakInv, SoakLockInv
    <3>4. x.config \in SoakConfigs
      BY <1>1, <2>1, <3>1
    <3>5. cyclesRun' + soakFaults <= cyclesRun + soakFaults'
      BY <1>1, <2>1
    <3> QED
      BY <1>1, <1>6, <2>1, <3>1, <3>2, <3>3, <3>4, <3>5, SoakMoves
  <2> QED
    BY <1>11, <2>2, <2>3, <2>4 DEF SoakTop
<1>12. ASSUME NEW p \in Runners, SoakCycle(p) PROVE SoakInv'
  <2>1. /\ soaker[p].pc = "cycle" /\ cyclesRun' = cyclesRun + 1
        /\ UNCHANGED <<soakClock, soakConfig, soakSummary, board>>
    BY <1>12 DEF SoakCycle, At
  <2>2. ASSUME NEW clean \in BOOLEAN,
               soakLog' = Append(soakLog, [config |-> soaker[p].config, at |-> soaker[p].now, clean |-> clean]),
               Goes(p, "recorded"), UNCHANGED <<soakTorn, soakFile, soakFaults>>
        PROVE  SoakInv'
    <3>1. PICK entry : entry = [config |-> soaker[p].config, at |-> soaker[p].now, clean |-> clean]
      OBVIOUS
    <3>2. soaker[p].config \in SoakConfigs /\ soaker[p].now \in Nat
      BY <1>1, <2>1 DEF SoakRecs
    <3>3. entry \in SoakSamples /\ entry.config = soaker[p].config /\ entry.at = soaker[p].now
      BY <3>1, <3>2 DEF SoakSamples
    <3>4. soakLog' = Append(soakLog, entry) /\ "recorded" \in SoakStates
      BY <2>2, <3>1 DEF SoakStates
    <3>5. PICK x \in SoakRecs : /\ soaker' = [soaker EXCEPT ![p] = x]
                                /\ x.pc = "recorded" /\ x.config = soaker[p].config
      BY <1>5, <2>2, <3>4
    <3> QED
      BY <2>1, <2>2, <3>3, <3>4, <3>5, SoakAppends
  <2>3. CASE SoakFault /\ soakTorn' \in BOOLEAN /\ soakFile' = "failed" /\ Ends(p) /\ UNCHANGED soakLog
    <3>1. cyclesRun' \in Nat /\ cyclesRun' + soakFaults <= cyclesRun + soakFaults'
      BY <1>1, <1>4, <2>1, <2>3
    <3> QED
      BY <1>3, <1>4, <1>6, <2>1, <2>3, <3>1
  <2> QED
    BY <1>12, <2>2, <2>3 DEF SoakCycle
<1>13. ASSUME NEW p \in Runners, SoakRecorded(p) PROVE SoakInv'
  <2>1. PICK pc \in {"finish", "sleep"} : Goes(p, pc)
    BY <1>13 DEF SoakRecorded
  <2>2. pc \in SoakStates \ {"off", "cycle", "ended"} /\ "recorded" \in SoakHolding
    BY <2>1 DEF SoakStates, SoakHolding
  <2> QED
    BY <1>1, <1>7, <1>13, <2>1, <2>2 DEF SoakRecorded, At
<1>14. ASSUME NEW p \in Runners, SoakWakes(p) PROVE SoakInv'
  <2>1. "top" \in SoakStates \ {"off", "cycle", "ended"} /\ "sleep" \in SoakHolding
    BY DEF SoakStates, SoakHolding
  <2> QED
    BY <1>1, <1>7, <1>14, <2>1 DEF SoakWakes, SoakEvidence, At
<1>15. ASSUME NEW p \in Runners, SoakSummarise(p) PROVE SoakInv'
  <2>1. /\ soaker[p].pc = "finish" /\ Goes(p, "ended")
        /\ soakSummary' = IF LastAt >= SoakTarget + 1 THEN {soaker[p].config} ELSE soakSummary
        /\ UNCHANGED <<soakClock, soakConfig, soakLog, soakFile, cyclesRun, board, soakFaults>>
    BY <1>15 DEF SoakSummarise, At
  <2>2. "ended" \in SoakStates /\ "finish" \in SoakHolding /\ "ended" \in SoakHolding
    BY DEF SoakStates, SoakHolding
  <2>3. PICK x \in SoakRecs : /\ soaker' = [soaker EXCEPT ![p] = x]
                              /\ x.pc = "ended" /\ x.config = soaker[p].config
    BY <1>5, <2>1, <2>2
  <2>4. x.config \in SoakConfigs
    BY <1>1, <2>1, <2>3
  <2>5. \A i \in DOMAIN soakLog : soakLog[i].config = x.config
    BY <2>1, <2>2, <2>3 DEF SoakInv, SoakLockInv
  <2>6. SoakSummaryInv'
    <3>1. LastAt' = LastAt
      BY <2>1 DEF LastAt
    <3>2. CASE LastAt >= SoakTarget + 1
      <4>1. soakLog # <<>>
        BY <3>2, SoakAssumption DEF LastAt
      <4>2. 1 \in DOMAIN soakLog
        BY <1>1, <4>1
      <4>3. soakLog[1].config = soaker[p].config /\ soakSummary' = {soaker[p].config}
        BY <2>1, <2>3, <2>5, <3>2, <4>2
      <4> QED
        BY <2>1, <3>1, <3>2, <4>1, <4>3 DEF SoakSummaryInv
    <3>3. CASE ~ (LastAt >= SoakTarget + 1)
      BY <2>1, <3>1, <3>3 DEF SoakInv, SoakSummaryInv
    <3> QED
      BY <3>2, <3>3
  <2>7. /\ LastAt >= SoakTarget + 1 => soakSummary' # {}
        /\ soakSummary # {} => soakSummary' # {}
    BY <2>1
  <2>8. cyclesRun' + soakFaults <= cyclesRun + soakFaults'
    BY <1>1, <2>1
  <2> QED
    BY <1>1, <2>1, <2>2, <2>3, <2>4, <2>5, <2>6, <2>7, <2>8, SoakMoves
<1>16. ASSUME NEW p \in Runners, SoakSaysEnd(p) PROVE SoakInv'
  <2>1. /\ soaker[p].pc = "ended" /\ Ends(p)
        /\ soakFile' = IF LastAt >= SoakTarget + 1 THEN "completed_60_calendar_days" ELSE "short_smoke_complete"
        /\ UNCHANGED <<soakClock, soakConfig, soakLog, soakSummary, cyclesRun, board, soakFaults>>
    BY <1>16 DEF SoakSaysEnd, At
  <2>2. LastAt >= SoakTarget + 1 => soakSummary # {}
    BY <2>1 DEF SoakInv, SoakEndInv
  <2>3. SoakSummaryInv'
    BY <2>1, <2>2 DEF SoakInv, SoakSummaryInv, LastAt
  <2> QED
    BY <1>1, <1>3, <2>1, <2>3
<1>17. ASSUME NEW p \in Runners, SoakDies(p) PROVE SoakInv'
  <2>1. /\ SoakFault /\ Ends(p) /\ cyclesRun' \in {cyclesRun, cyclesRun + 1}
        /\ UNCHANGED <<soakClock, soakConfig, soakLog, soakSummary, soakFile, board>>
    BY <1>17 DEF SoakDies
  <2>2. cyclesRun' \in Nat /\ cyclesRun' + soakFaults <= cyclesRun + soakFaults'
    <3>1. cyclesRun \in Nat /\ soakFaults \in Nat /\ soakFaults' = soakFaults + 1
      BY <1>1, <1>4, <2>1
    <3>2. CASE cyclesRun' = cyclesRun
      BY <3>1, <3>2
    <3>3. CASE cyclesRun' = cyclesRun + 1
      BY <3>1, <3>3
    <3> QED
      BY <2>1, <3>2, <3>3
  <2> QED
    BY <1>3, <1>4, <1>6, <2>1, <2>2
\* The controller and the clock touch nothing of the evidence.
<1>18. ASSUME UNCHANGED <<soakConfig, soakLog, soakTorn, soakSummary, soakFile, soaker, cyclesRun>>,
              soakClock' \in Nat, soakFaults' \in Nat, soakFaults <= soakFaults',
              soakFaults' = 0 => board'.memory = board'.ledger
       PROVE  SoakInv'
  <2>1. SoakTypes' /\ SoakLogInv' /\ SoakLockInv'
    BY <1>18 DEF SoakInv, SoakTypes, SoakLogInv, SoakLockInv
  <2>2. SoakCycleInv' /\ SoakEndInv' /\ SoakSummaryInv'
    BY <1>18 DEF SoakInv, SoakCycleInv, SoakEndInv, SoakSummaryInv, LastAt
  <2>3. SoakCountInv'
    <3>1. cyclesRun <= Len(soakLog) + soakFaults
      BY DEF SoakInv, SoakCountInv
    <3>2. cyclesRun <= Len(soakLog) + soakFaults'
      BY <1>1, <1>18, <3>1
    <3> QED
      BY <1>18, <3>2 DEF SoakCountInv
  <2> QED
    BY <2>1, <2>2, <2>3 DEF SoakInv
<1>19. ASSUME NEW i \in DOMAIN soakLog, BoardRecord(i) PROVE SoakInv'
  <2>1. UNCHANGED <<soakClock, soakConfig, soakLog, soakTorn, soakSummary, soakFile, soaker, cyclesRun>>
    BY <1>19 DEF BoardRecord, SoakEvidence
  <2>2. CASE /\ board' = [memory |-> board.memory \cup {soakLog[i]}, ledger |-> board.ledger \cup {soakLog[i]}]
             /\ UNCHANGED soakFaults
    <3>1. soakFaults = 0 => board.memory = board.ledger
      BY DEF SoakInv, SoakCountInv
    <3>2. soakFaults' = 0 => board'.memory = board'.ledger
      BY <2>2, <3>1
    <3> QED
      BY <1>1, <1>18, <2>1, <2>2, <3>2
  <2>3. CASE SoakFault
    BY <1>1, <1>4, <1>18, <2>1, <2>3
  <2> QED
    BY <1>19, <2>2, <2>3 DEF BoardRecord
<1>20. ASSUME BoardRestarts PROVE SoakInv'
  <2>1. /\ UNCHANGED <<soakClock, soakConfig, soakLog, soakTorn, soakSummary, soakFile, soaker, cyclesRun, soakFaults>>
        /\ board.memory # board.ledger
    BY <1>20 DEF BoardRestarts, SoakEvidence
  <2>2. soakFaults # 0
    BY <2>1 DEF SoakInv, SoakCountInv
  <2> QED
    BY <1>1, <1>18, <2>1, <2>2
<1>21. ASSUME SoakTick PROVE SoakInv'
  <2>1. /\ UNCHANGED <<soakConfig, soakLog, soakTorn, soakSummary, soakFile, soaker, cyclesRun, board, soakFaults>>
        /\ soakClock' = soakClock + 1
    BY <1>21 DEF SoakTick, SoakEvidence
  <2>2. soakFaults = 0 => board.memory = board.ledger
    BY DEF SoakInv, SoakCountInv
  <2> QED
    BY <1>1, <1>18, <2>1, <2>2
<1>22. CASE UNCHANGED soakVars
  <2>1. soakFaults = 0 => board.memory = board.ledger
    BY DEF SoakInv, SoakCountInv
  <2> QED
    BY <1>1, <1>18, <1>22, <2>1 DEF soakVars
<1> QED
  BY <1>8, <1>9, <1>10, <1>11, <1>12, <1>13, <1>14, <1>15, <1>16, <1>17, <1>19, <1>20, <1>21, <1>22
  DEF SoakNext

\* However the two runners race for the root, fail, die and resume: the records are of one
\* configuration and in order, nothing follows the terminal one, a summary and the word
\* "completed" come after it, and no cycle goes unrecorded without a failure.
THEOREM SoakEvidenceTheorem == SoakSpec => []SoakEvidenceHolds
<1>1. SoakInit => SoakInv
  BY InitSoak
<1>2. SoakInv /\ [SoakNext]_soakVars => SoakInv'
  BY NextSoak
<1>3. SoakInv => SoakEvidenceHolds
  BY SoakSuffices
<1> QED
  BY <1>1, <1>2, <1>3, PTL DEF SoakSpec

---------------------------------------------------------------------------
(* The archive.  The lake and the script share no variable but the bound   *)
(* on faults; a rebuild reads both.                                        *)

LakePcs == {"idle", "linking", "describing", "writing", "returned", "refused", "dead"}
Ledgers == {"none", "passed", "failed"}

ArchiveTypes ==
    /\ linked \in BOOLEAN
    /\ manifest = [st |-> manifest.st, schema |-> manifest.schema, by |-> manifest.by]
    /\ manifest.st \in {"none", "torn", "whole"}
    /\ writers \in [LakeWriters -> [pc : LakePcs, schema : SchemaVersions \cup {0}]]
    /\ store \in [Providers -> BOOLEAN] /\ lossAt \in [Providers -> Nat]
    /\ script \in [line : Nat \ {0}, failed : BOOLEAN, ledgered : BOOLEAN, runs : Nat]
    /\ archiveVerdict \in Ledgers \cup {"raised"} /\ row \in Ledgers
    /\ rebuilt \in Ledgers \cup {"raised"} /\ storageFaults \in Nat

\* The artifact is at its path before anyone describes it, and whoever opened the
\* manifest is the one who writes it; a writer that finds the path empty did not.
LakeInv ==
    /\ manifest.st # "none" => linked
    /\ \A w \in LakeWriters :
          /\ writers[w].pc \in {"describing", "writing", "returned"} => linked
          /\ writers[w].pc \in {"linking", "describing"} => manifest.st = "none" \/ manifest.by # w
          /\ writers[w].pc = "writing" =>
                manifest.st = "torn" /\ manifest.by = w /\ manifest.schema = writers[w].schema
          /\ writers[w].pc = "returned" =>
                manifest.st # "none" /\ (manifest.by = w => LakeReadable(writers[w].schema))

\* A run without a failure found the payload at every last read behind it, and what was
\* lost since was lost later.
PayloadsKept ==
    ~ script.failed =>
        \A p \in Providers : script.line > LastRead(p) => store[p] \/ lossAt[p] > LastRead(p)

\* A verdict and a rebuild come after the script's last line.
VerdictsLast ==
    /\ archiveVerdict # "none" \/ rebuilt # "none" => ~ Running
    /\ archiveVerdict = "passed" => ~ script.failed
    /\ rebuilt = "passed" => manifest.st = "whole" /\ archiveVerdict = "passed"

ArchiveInv == ArchiveTypes /\ LakeInv /\ PayloadsKept /\ VerdictsLast

\* There are two providers: A is one, B the other.
LEMMA TwoProviders == A \in Providers /\ B \in Providers /\ A # B /\ Providers = {A, B}
<1>1. PICK f : f \in Bijection(1..2, Providers)
  BY ArchiveAssumption, FS_CardinalityType DEF ExistsBijection
<1>2. f[1] \in Providers /\ f[2] \in Providers /\ f[1] # f[2] /\ Providers = {f[1], f[2]}
  <2>1. f \in [1..2 -> Providers] /\ (\A i, j \in 1..2 : f[i] = f[j] => i = j)
        /\ \A p \in Providers : \E i \in 1..2 : f[i] = p
    BY <1>1 DEF Bijection, Injection, Surjection, IsInjective
  <2> QED
    BY <2>1
<1>3. \E p \in Providers : \A q \in Providers : p <= q
  <2>1. f[1] \in Nat /\ f[2] \in Nat
    BY <1>2, ArchiveAssumption
  <2>2. CASE f[1] <= f[2]
    BY <1>2, <2>1, <2>2
  <2>3. CASE f[2] <= f[1]
    BY <1>2, <2>1, <2>3
  <2> QED
    BY <2>1, <2>2, <2>3
<1>4. A \in Providers
  BY <1>3 DEF A
<1>5. \E p \in Providers : p # A
  BY <1>2
<1>6. B \in Providers /\ B # A
  BY <1>5 DEF B
<1> QED
  BY <1>2, <1>4, <1>6

\* Uploads are the first and the third line; each provider is read last by a restore that
\* comes after both.
LEMMA ScriptFacts ==
  ASSUME script.ledgered \in BOOLEAN
  PROVE  /\ DOMAIN Script = 1..Len(Script) /\ Len(Script) \in Nat
         /\ \A i \in DOMAIN Script : Script[i].op = "put" => i <= 3
         /\ \A i \in DOMAIN Script : Script[i].op = "record" => i = Len(Script)
         /\ \A p \in Providers :
               /\ LastRead(p) \in DOMAIN Script /\ LastRead(p) >= 5
               /\ Script[LastRead(p)].op = "restore" /\ Script[LastRead(p)].p = p
<1> DEFINE Commands == [op : {"put", "verify", "list", "restore", "missing", "retry", "checksum", "record"},
                        p : Providers]
<1>a. \A p \in Providers : \A op \in {"put", "verify", "list", "restore", "missing", "retry", "checksum", "record"} :
         Command(op, p) \in Commands
  BY DEF Command
<1>b. /\ Command("put", A) \in Commands /\ Command("put", B) \in Commands
      /\ Command("verify", A) \in Commands /\ Command("verify", B) \in Commands
      /\ Command("list", A) \in Commands /\ Command("list", B) \in Commands
      /\ Command("restore", A) \in Commands /\ Command("restore", B) \in Commands
      /\ Command("missing", A) \in Commands /\ Command("retry", B) \in Commands
      /\ Command("checksum", A) \in Commands /\ Command("record", A) \in Commands
  BY <1>a, TwoProviders
<1> HIDE DEF Commands
<1>1. Automation \in Seq(Commands) /\ Len(Automation) = 6
  BY <1>b DEF Automation
<1>2. Drills \in Seq(Commands) /\ Len(Drills) = 8
  BY <1>b DEF Drills
<1>3. <<Command("record", A)>> \in Seq(Commands) /\ Len(<<Command("record", A)>>) = 1
  BY <1>b
<1>4. /\ Automation[1].op = "put" /\ Automation[2].op = "verify" /\ Automation[3].op = "put"
      /\ Automation[4].op = "verify"
      /\ Automation[5] = Command("restore", A) /\ Automation[6] = Command("restore", B)
  BY DEF Automation, Command
<1>5. /\ Drills[1].op = "list" /\ Drills[2].op = "list"
      /\ Drills[3] = Command("restore", B) /\ Drills[4] = Command("restore", A)
      /\ Drills[5].op = "missing" /\ Drills[6].op = "retry" /\ Drills[7].op = "checksum"
      /\ Drills[8] = Command("restore", A)
  BY DEF Drills, Command
<1>6. ASSUME NEW t \in Seq(Commands), NEW s, s = Automation \o t
      PROVE  /\ s \in Seq(Commands) /\ Len(s) = 6 + Len(t)
             /\ \A i \in 1..6 : s[i] = Automation[i]
             /\ \A i \in 1..Len(t) : s[6 + i] = t[i]
  <2>1. /\ Automation \o t \in Seq(Commands) /\ Len(Automation \o t) = Len(Automation) + Len(t)
        /\ \A i \in 1..(Len(Automation) + Len(t)) :
              (Automation \o t)[i] = IF i <= Len(Automation) THEN Automation[i] ELSE t[i - Len(Automation)]
    BY <1>1, ConcatProperties, Zenon
  <2>2. /\ s \in Seq(Commands) /\ Len(s) = Len(Automation) + Len(t)
        /\ \A i \in 1..(Len(Automation) + Len(t)) :
              s[i] = IF i <= Len(Automation) THEN Automation[i] ELSE t[i - Len(Automation)]
    BY <1>6, <2>1, Zenon
  <2> QED
    BY <1>1, <2>2
<1>7. /\ Script \in Seq(Commands) /\ Len(Script) >= 7
      /\ \A i \in 1..6 : Script[i] = Automation[i]
      /\ \A i \in DOMAIN Script : i > 6 => Script[i].op # "put"
      /\ \A i \in DOMAIN Script : i > 6 /\ Script[i].op = "record" => i = Len(Script)
  <2>1. CASE script.ledgered
    <3> DEFINE t == <<Command("record", A)>>
    <3>1. Script = Automation \o t
      BY <2>1 DEF Script
    <3>2. t[1].op = "record"
      BY DEF Command
    <3>3. t \in Seq(Commands) /\ Len(t) = 1
      BY <1>3
    <3> HIDE DEF t
    <3>4. /\ Script \in Seq(Commands) /\ Len(Script) = 6 + Len(t)
          /\ \A i \in 1..6 : Script[i] = Automation[i]
          /\ \A i \in 1..Len(t) : Script[6 + i] = t[i]
      BY <1>6, <3>1, <3>3, Zenon
    <3>5. \A i \in DOMAIN Script : i > 6 => i = 6 + 1
      BY <3>3, <3>4
    <3> QED
      BY <3>2, <3>3, <3>4, <3>5
  <2>2. CASE ~ script.ledgered
    <3>1. Script = Automation \o Drills
      BY <2>2 DEF Script
    <3>2. \A i \in 1..8 : Drills[i].op # "put" /\ Drills[i].op # "record"
      BY <1>5 DEF Command
    <3>a. /\ Script \in Seq(Commands) /\ Len(Script) = 6 + Len(Drills)
          /\ \A i \in 1..6 : Script[i] = Automation[i]
          /\ \A i \in 1..Len(Drills) : Script[6 + i] = Drills[i]
      BY <1>2, <1>6, <3>1, Zenon
    <3>3. Script \in Seq(Commands) /\ Len(Script) = 14 /\ \A i \in 1..8 : Script[6 + i] = Drills[i]
      BY <1>2, <3>a
    <3>4. ASSUME NEW i \in DOMAIN Script, i > 6
          PROVE  Script[i].op # "put" /\ Script[i].op # "record"
      <4>1. i - 6 \in 1..8 /\ i = 6 + (i - 6)
        BY <3>3, <3>4
      <4> QED
        BY <3>2, <3>3, <4>1
    <3> QED
      <4>1. Len(Script) >= 7
        BY <3>3
      <4> QED
        BY <3>a, <3>3, <3>4, <4>1, Zenon
  <2> QED
    BY <2>1, <2>2
<1>8. \A i \in DOMAIN Script : Script[i].op = "put" => i <= 3
  <2> SUFFICES ASSUME NEW i \in DOMAIN Script, Script[i].op = "put", i > 3
               PROVE  FALSE
    BY <1>7
  <2>1. i \in {4, 5, 6} \/ i > 6
    BY <1>7
  <2> QED
    BY <1>4, <1>7, <2>1 DEF Command
<1>c. \A i \in DOMAIN Script : Script[i].op = "record" => i = Len(Script)
  <2> SUFFICES ASSUME NEW i \in DOMAIN Script, Script[i].op = "record", ~ (i > 6)
               PROVE  FALSE
    BY <1>7
  <2>1. i \in {1, 2, 3, 4, 5, 6} /\ Script[i] = Automation[i]
    BY <1>7
  <2> QED
    BY <1>4, <2>1 DEF Command
<1>9. ASSUME NEW p \in Providers
      PROVE  /\ LastRead(p) \in DOMAIN Script /\ LastRead(p) >= 5
             /\ Script[LastRead(p)].op = "restore" /\ Script[LastRead(p)].p = p
  <2> DEFINE Reads == {i \in DOMAIN Script : Script[i].op = "restore" /\ Script[i].p = p}
  <2>1. \E i \in Reads : i >= 5
    <3>1. CASE p = A
      BY <1>4, <1>7, <3>1 DEF Command
    <3>2. CASE p = B
      BY <1>4, <1>7, <3>2 DEF Command
    <3> QED
      BY <3>1, <3>2, TwoProviders
  <2>2. \E i \in Reads : \A j \in Reads : j <= i
    <3>1. Reads \in SUBSET Nat /\ Reads # {} /\ Len(Script) \in Nat /\ \A j \in Reads : j <= Len(Script)
      BY <1>7, <2>1
    <3> HIDE DEF Reads
    <3> QED
      BY <3>1, MaxOfNats, Zenon
  <2>3. PICK i \in Reads : \A j \in Reads : j <= i
    BY <2>2
  <2>4. \E k \in DOMAIN Script : /\ Script[k].op = "restore" /\ Script[k].p = p
                                 /\ \A j \in DOMAIN Script : Script[j].op = "restore" /\ Script[j].p = p => j <= k
    BY <2>3
  <2>5. /\ LastRead(p) \in DOMAIN Script
        /\ Script[LastRead(p)].op = "restore" /\ Script[LastRead(p)].p = p
        /\ \A j \in DOMAIN Script : Script[j].op = "restore" /\ Script[j].p = p => j <= LastRead(p)
    BY <2>4 DEF LastRead
  <2>6. LastRead(p) >= 5
    <3>1. PICK k \in Reads : k >= 5
      BY <2>1
    <3>2. k <= LastRead(p) /\ k \in Int /\ LastRead(p) \in Int
      BY <1>7, <2>5, <3>1
    <3> QED
      BY <3>1, <3>2
  <2> QED
    BY <2>5, <2>6
<1> QED
  BY <1>7, <1>8, <1>9, <1>c

---------------------------------------------------------------------------

\* What the lake's parts rest on is the lake's.
LEMMA LakeFrame == ASSUME LakeInv, UNCHANGED lakeVars PROVE LakeInv'
  BY DEF LakeInv, lakeVars, LakeReadable

\* The script rests on nothing of the lake but that a whole manifest stays.
LEMMA ScriptFrame ==
  ASSUME PayloadsKept, VerdictsLast, UNCHANGED <<scriptVars, rebuilt>>, manifest.st = "whole" => manifest' = manifest
  PROVE  PayloadsKept' /\ VerdictsLast'
<1>1. /\ script' = script /\ store' = store /\ lossAt' = lossAt
      /\ archiveVerdict' = archiveVerdict /\ rebuilt' = rebuilt
  BY DEF scriptVars
<1>2. Script' = Script /\ (\A p \in Providers : LastRead(p)' = LastRead(p)) /\ (Running' <=> Running)
  BY <1>1 DEF Script, LastRead, Running
<1> QED
  BY <1>1, <1>2 DEF PayloadsKept, VerdictsLast

\* A step of one writer.
LEMMA LakeStep ==
  ASSUME ArchiveInv, NEW w \in LakeWriters,
         \/ WriteObservations(w) \/ LakeLink(w) \/ LakeDescribe(w) \/ LakeDescribed(w)
         \/ LakeDies(w) \/ LakeRetries(w)
  PROVE  ArchiveInv' /\ (manifest.st = "whole" => UNCHANGED <<linked, manifest>>)
<1> USE DEF ArchiveInv
<1>1. UNCHANGED <<scriptVars, rebuilt>> /\ storageFaults' \in Nat
  BY DEF WriteObservations, LakeLook, LakeLink, LakeDescribe, LakeDescribed, LakeDies, LakeRetries, ArchiveTypes,
         Fault
<1>2. ASSUME NEW pc \in LakePcs, NEW schema \in SchemaVersions \cup {0},
             writers' = [writers EXCEPT ![w] = [pc |-> pc, schema |-> schema]]
      PROVE  /\ writers' \in [LakeWriters -> [pc : LakePcs, schema : SchemaVersions \cup {0}]]
             /\ writers'[w].pc = pc /\ writers'[w].schema = schema
             /\ \A v \in LakeWriters : v # w => writers'[v] = writers[v]
  BY <1>2 DEF ArchiveTypes
<1>3. ASSUME NEW pc \in LakePcs, LakeAt(w, pc)
      PROVE  /\ writers' \in [LakeWriters -> [pc : LakePcs, schema : SchemaVersions \cup {0}]]
             /\ writers'[w].pc = pc /\ writers'[w].schema = writers[w].schema
             /\ \A v \in LakeWriters : v # w => writers'[v] = writers[v]
  BY <1>3 DEF ArchiveTypes, LakeAt
<1>4. ASSUME ArchiveTypes', LakeInv', manifest.st = "whole" => UNCHANGED <<linked, manifest>>
      PROVE  ArchiveInv' /\ (manifest.st = "whole" => UNCHANGED <<linked, manifest>>)
  BY <1>1, <1>4, ScriptFrame
<1>5. CASE WriteObservations(w)
  <2>1. PICK schema \in SchemaVersions : LakeLook(w, schema)
    BY <1>5 DEF WriteObservations
  <2>2. PICK pc \in {"linking", "returned", "refused"} :
            /\ writers' = [writers EXCEPT ![w] = [pc |-> pc, schema |-> schema]]
            /\ pc = "linking" => manifest.st = "none"
            /\ pc = "returned" => LakeReadable(schema)
    BY <2>1 DEF LakeLook
  <2>3. UNCHANGED <<linked, manifest>>
    BY <2>1 DEF LakeLook
  <2>4. ArchiveTypes' /\ LakeInv'
    BY <1>1, <1>2, <2>2, <2>3 DEF ArchiveTypes, LakeInv, LakePcs, LakeReadable, scriptVars
  <2> QED
    BY <1>4, <2>3, <2>4
<1>6. CASE LakeLink(w)
  <2>1. ArchiveTypes' /\ LakeInv' /\ (manifest.st = "whole" => UNCHANGED <<linked, manifest>>)
    BY <1>1, <1>3, <1>6 DEF ArchiveTypes, LakeInv, LakePcs, LakeReadable, LakeLink, scriptVars
  <2> QED
    BY <1>4, <2>1
<1>7. CASE LakeDescribe(w)
  <2>1. writers[w].pc = "describing" /\ linked' = linked
    BY <1>7 DEF LakeDescribe
  <2>2. CASE manifest.st = "none"
    <3>1. LakeAt(w, "writing") /\ manifest' = [st |-> "torn", schema |-> writers[w].schema, by |-> w]
      BY <1>7, <2>2 DEF LakeDescribe
    <3>2. ArchiveTypes' /\ LakeInv'
      BY <1>1, <1>3, <2>1, <2>2, <3>1 DEF ArchiveTypes, LakeInv, LakePcs, LakeReadable, scriptVars
    <3> QED
      BY <1>4, <2>2, <3>2
  <2>3. CASE manifest.st # "none"
    <3>1. LakeAt(w, "returned") /\ manifest' = manifest
      BY <1>7, <2>3 DEF LakeDescribe
    <3>2. ArchiveTypes' /\ LakeInv'
      BY <1>1, <1>3, <2>1, <2>3, <3>1 DEF ArchiveTypes, LakeInv, LakePcs, LakeReadable, scriptVars
    <3> QED
      BY <1>4, <2>1, <3>1, <3>2
  <2> QED
    BY <2>2, <2>3
<1>8. CASE LakeDescribed(w)
  <2>1. /\ writers[w].pc = "writing" /\ LakeAt(w, "returned") /\ linked' = linked
        /\ manifest' = [manifest EXCEPT !.st = "whole"]
    BY <1>8 DEF LakeDescribed
  <2>2. ArchiveTypes' /\ LakeInv'
    BY <1>1, <1>3, <2>1 DEF ArchiveTypes, LakeInv, LakePcs, LakeReadable, scriptVars
  <2>3. manifest.st = "torn"
    BY <2>1 DEF LakeInv
  <2> QED
    BY <1>4, <2>2, <2>3
<1>9. ASSUME NEW pc \in {"dead", "idle"}, LakeAt(w, pc), UNCHANGED <<linked, manifest>>
      PROVE  ArchiveTypes' /\ LakeInv'
  BY <1>1, <1>3, <1>9 DEF ArchiveTypes, LakeInv, LakePcs, LakeReadable, scriptVars
<1>10. CASE LakeDies(w) \/ LakeRetries(w)
  <2>1. LakeAt(w, "dead") \/ LakeAt(w, "idle")
    BY <1>10 DEF LakeDies, LakeRetries
  <2>2. UNCHANGED <<linked, manifest>>
    BY <1>10 DEF LakeDies, LakeRetries
  <2> QED
    BY <1>4, <1>9, <2>1, <2>2
<1> QED
  BY <1>5, <1>6, <1>7, <1>8, <1>10

\* A line of the script that is not the last one of its provider's, or finds the payload,
\* keeps what was found; one that fails has nothing to keep.
LEMMA Proceeds ==
  ASSUME ArchiveTypes, PayloadsKept, Running, UNCHANGED <<store, lossAt>>,
         NEW step \in {1, 2}, NEW failed \in BOOLEAN,
         script' = [script EXCEPT !.line = script.line + step, !.failed = failed],
         ~ failed => ~ script.failed /\ step = 1,
         ~ failed => (Line.op = "restore" => store[Line.p])
  PROVE  /\ script' \in [line : Nat \ {0}, failed : BOOLEAN, ledgered : BOOLEAN, runs : Nat]
         /\ Script' = Script /\ script'.line = script.line + step /\ script'.failed = failed
         /\ PayloadsKept'
<1>1. /\ script' \in [line : Nat \ {0}, failed : BOOLEAN, ledgered : BOOLEAN, runs : Nat]
      /\ script'.line = script.line + step /\ script'.failed = failed /\ script'.ledgered = script.ledgered
  <2>1. /\ script.line \in Nat \ {0} /\ script.ledgered \in BOOLEAN /\ script.runs \in Nat
        /\ script = [line |-> script.line, failed |-> script.failed, ledgered |-> script.ledgered, runs |-> script.runs]
    BY DEF ArchiveTypes
  <2>2. script' = [line |-> script.line + step, failed |-> failed, ledgered |-> script.ledgered, runs |-> script.runs]
    BY <2>1, Zenon
  <2>3. script.line + step \in Nat \ {0}
    BY <2>1
  <2> QED
    BY <2>1, <2>2, <2>3
<1>2. Script' = Script
  BY <1>1 DEF Script
<1>3. \A p \in Providers : LastRead(p)' = LastRead(p)
  BY <1>2 DEF LastRead
<1>4. ASSUME ~ failed, NEW p \in Providers, script.line + 1 > LastRead(p)
      PROVE  store[p] \/ lossAt[p] > LastRead(p)
  <2>1. /\ LastRead(p) \in Int /\ script.line \in Int
        /\ Script[LastRead(p)].op = "restore" /\ Script[LastRead(p)].p = p
    BY ScriptFacts DEF ArchiveTypes
  <2>2. CASE script.line > LastRead(p)
    BY <1>4, <2>2 DEF PayloadsKept
  <2>3. CASE script.line = LastRead(p)
    BY <1>4, <2>1, <2>3 DEF Line
  <2> QED
    BY <1>4, <2>1, <2>2, <2>3
<1>5. PayloadsKept'
  BY <1>1, <1>3, <1>4 DEF PayloadsKept
<1> QED
  BY <1>1, <1>2, <1>5

\* A step of the script.
LEMMA ScriptStep ==
  ASSUME ArchiveInv,
         \/ \E bad \in BOOLEAN : \/ \E stored \in BOOLEAN : Upload(bad, stored)
                                 \/ Restore(bad) \/ List(bad) \/ Drill(bad)
         \/ RecordVerification \/ Qualified \/ ArchiveAgain
         \/ \E p \in Providers : ProviderLoses(p)
  PROVE  ArchiveInv' /\ UNCHANGED lakeVars
<1> USE DEF ArchiveInv
<1>1. UNCHANGED <<lakeVars, rebuilt>> /\ storageFaults' \in Nat
  <2>1. storageFaults \in Nat
    BY DEF ArchiveTypes
  <2>2. ASSUME NEW bad \in BOOLEAN, NEW stored \in BOOLEAN,
               Upload(bad, stored) \/ Restore(bad) \/ List(bad) \/ Drill(bad)
        PROVE  UNCHANGED <<lakeVars, rebuilt>> /\ storageFaults' \in Nat
    <3>1. MayFault(bad) /\ UNCHANGED <<lakeVars, rebuilt>>
      BY <2>2 DEF Upload, Restore, List, Drill
    <3> QED
      BY <2>1, <3>1 DEF MayFault, Fault
  <2>3. CASE RecordVerification \/ Qualified \/ ArchiveAgain
    BY <2>1, <2>3 DEF RecordVerification, Qualified, ArchiveAgain
  <2>4. ASSUME NEW p \in Providers, ProviderLoses(p)
        PROVE  UNCHANGED <<lakeVars, rebuilt>> /\ storageFaults' \in Nat
    BY <2>1, <2>4 DEF ProviderLoses, Fault
  <2> QED
    BY <2>2, <2>3, <2>4
<1>2. LakeInv'
  BY <1>1, LakeFrame
<1>3. ASSUME Running, archiveVerdict' = archiveVerdict PROVE VerdictsLast'
  BY <1>1, <1>3 DEF VerdictsLast, lakeVars
<1>4. ASSUME NEW bad \in BOOLEAN, NEW stored \in BOOLEAN, Upload(bad, stored)
      PROVE  ArchiveInv'
  <2>1. /\ Running /\ Line.op = "put" /\ UNCHANGED <<archiveVerdict, row>>
        /\ store' = [store EXCEPT ![Line.p] = @ \/ stored]
        /\ lossAt' = [lossAt EXCEPT ![Line.p] = IF stored THEN 0 ELSE @]
        /\ script' = [script EXCEPT !.line = @ + (IF bad THEN 2 ELSE 1), !.failed = @ \/ ~ ~ bad]
    BY <1>4 DEF Upload, Proceed
  <2>2. /\ script' \in [line : Nat \ {0}, failed : BOOLEAN, ledgered : BOOLEAN, runs : Nat]
        /\ script'.line <= script.line + 2 /\ script'.ledgered = script.ledgered
    <3>1. /\ script.line \in Nat \ {0} /\ script.ledgered \in BOOLEAN /\ script.runs \in Nat
          /\ script = [line |-> script.line, failed |-> script.failed, ledgered |-> script.ledgered, runs |-> script.runs]
      BY DEF ArchiveTypes
    <3>2. script' = [line |-> script.line + (IF bad THEN 2 ELSE 1), failed |-> script.failed \/ ~ ~ bad,
                     ledgered |-> script.ledgered, runs |-> script.runs]
      BY <2>1, <3>1, Zenon
    <3>3. script.line + (IF bad THEN 2 ELSE 1) \in Nat \ {0} /\ (script.failed \/ ~ ~ bad) \in BOOLEAN
      BY <3>1
    <3> QED
      BY <3>1, <3>2, <3>3
  <2>3. store' \in [Providers -> BOOLEAN] /\ lossAt' \in [Providers -> Nat]
    BY <2>1 DEF ArchiveTypes
  <2>4. ArchiveTypes'
    BY <1>1, <2>1, <2>2, <2>3 DEF ArchiveTypes, lakeVars
  <2>5. PayloadsKept'
    <3>1. Script' = Script
      BY <2>2 DEF Script
    <3>2. \A p \in Providers : LastRead(p)' = LastRead(p) /\ LastRead(p) \in Int /\ LastRead(p) >= 5
      BY <3>1, ScriptFacts DEF LastRead, ArchiveTypes
    <3>3. script.line <= 3 /\ script.line \in Int /\ script'.line \in Int
      BY <2>1, <2>2, ScriptFacts DEF Running, Line, ArchiveTypes
    <3> QED
      BY <2>2, <3>2, <3>3 DEF PayloadsKept
  <2> QED
    BY <1>2, <1>3, <2>1, <2>4, <2>5
<1>5. ASSUME NEW good \in BOOLEAN, Running, Proceed(good, FALSE), UNCHANGED <<store, lossAt>>,
             good => (Line.op = "restore" => store[Line.p])
      PROVE  /\ script' \in [line : Nat \ {0}, failed : BOOLEAN, ledgered : BOOLEAN, runs : Nat]
             /\ Script' = Script /\ script'.line = script.line + 1 /\ PayloadsKept'
             /\ script'.failed = (script.failed \/ ~ good)
  <2> DEFINE failed == script.failed \/ ~ good
  <2>1. script' = [script EXCEPT !.line = script.line + 1, !.failed = failed]
    BY <1>5 DEF Proceed
  <2>2. failed \in BOOLEAN
    OBVIOUS
  <2>3. ~ failed => ~ script.failed /\ good
    OBVIOUS
  <2> HIDE DEF failed
  <2>4. /\ script' \in [line : Nat \ {0}, failed : BOOLEAN, ledgered : BOOLEAN, runs : Nat]
        /\ Script' = Script /\ script'.line = script.line + 1 /\ script'.failed = failed
        /\ PayloadsKept'
    BY <1>5, <2>1, <2>2, <2>3, Proceeds
  <2> QED
    BY <2>4 DEF failed
<1>6. ASSUME NEW good \in BOOLEAN, Running, Proceed(good, FALSE), UNCHANGED <<store, lossAt, archiveVerdict, row>>,
             good => (Line.op = "restore" => store[Line.p])
      PROVE  ArchiveInv'
  <2>1. ArchiveTypes'
    BY <1>1, <1>5, <1>6 DEF ArchiveTypes, lakeVars
  <2> QED
    BY <1>2, <1>3, <1>5, <1>6, <2>1
<1>7. ASSUME NEW bad \in BOOLEAN, Restore(bad) \/ List(bad) \/ Drill(bad)
      PROVE  ArchiveInv'
  <2>1. Running /\ UNCHANGED <<store, lossAt, archiveVerdict, row>>
    BY <1>7 DEF Restore, List, Drill
  <2>2. \E good \in BOOLEAN : Proceed(good, FALSE) /\ (good => (Line.op = "restore" => store[Line.p]))
    <3>1. CASE Restore(bad) \/ List(bad)
      <4> DEFINE good == store[Line.p] /\ ~ bad
      <4>1. good \in BOOLEAN /\ (good => store[Line.p])
        OBVIOUS
      <4>2. Proceed(good, FALSE)
        BY <3>1 DEF Restore, List
      <4> HIDE DEF good
      <4>3. 1 \in Nat \ {0} /\ 1 \in Nat /\ FALSE \in BOOLEAN
        OBVIOUS
      <4> QED
        BY <4>1, <4>2, <4>3, Zenon
    <3>2. CASE Drill(bad)
      <4> DEFINE good == Line.op = "retry" => ~ bad
      <4>1. good \in BOOLEAN /\ Line.op # "restore"
        BY <3>2 DEF Drill
      <4>2. Proceed(good, FALSE)
        BY <3>2 DEF Drill
      <4> HIDE DEF good
      <4>3. 1 \in Nat \ {0} /\ 1 \in Nat /\ FALSE \in BOOLEAN
        OBVIOUS
      <4> QED
        BY <4>1, <4>2, <4>3, Zenon
    <3> QED
      BY <1>7, <3>1, <3>2
  <2> QED
    BY <1>6, <2>1, <2>2
<1>8. CASE RecordVerification
  <2>1. /\ Running /\ Line.op = "record" /\ Proceed(TRUE, FALSE) /\ UNCHANGED <<store, lossAt>>
        /\ archiveVerdict' \in {Conclusion, "raised"} /\ row' \in {row, Conclusion}
    BY <1>8 DEF RecordVerification
  <2>2. /\ script' \in [line : Nat \ {0}, failed : BOOLEAN, ledgered : BOOLEAN, runs : Nat]
        /\ Script' = Script /\ script'.line = script.line + 1 /\ PayloadsKept'
        /\ script'.failed = script.failed
    <3>1. \E good \in BOOLEAN : good /\ Proceed(good, FALSE)
      BY <2>1, Zenon
    <3>2. PICK good \in BOOLEAN : good /\ Proceed(good, FALSE)
      BY <3>1
    <3>3. script'.failed = (script.failed \/ ~ good) /\ script.failed \in BOOLEAN
      BY <1>5, <2>1, <3>2 DEF ArchiveTypes
    <3>4. script'.failed = script.failed
      BY <3>2, <3>3
    <3> QED
      BY <1>5, <2>1, <3>2, <3>4
  <2>3. Conclusion \in {"passed", "failed"} /\ (Conclusion = "passed" => ~ script.failed)
    BY DEF Conclusion
  <2>4. ArchiveTypes'
    BY <1>1, <2>1, <2>2, <2>3 DEF ArchiveTypes, lakeVars, Ledgers
  <2>5. ~ Running'
    BY <2>1, <2>2, ScriptFacts DEF ArchiveTypes, Running, Line
  <2>6. rebuilt = "none"
    BY <2>1 DEF VerdictsLast
  <2>7. VerdictsLast'
    BY <1>1, <2>1, <2>2, <2>3, <2>5, <2>6 DEF VerdictsLast
  <2> QED
    BY <1>1, <1>2, <2>2, <2>4, <2>7
<1>9. CASE Qualified
  <2>1. /\ ~ Running /\ archiveVerdict = "none" /\ archiveVerdict' = Conclusion
        /\ UNCHANGED <<store, lossAt, script, row>>
    BY <1>9 DEF Qualified
  <2>2. Conclusion \in {"passed", "failed"} /\ (Conclusion = "passed" => ~ script.failed)
    BY DEF Conclusion
  <2>3. ArchiveTypes'
    BY <1>1, <2>1, <2>2 DEF ArchiveTypes, lakeVars, Ledgers
  <2>4. Script' = Script /\ (\A p \in Providers : LastRead(p)' = LastRead(p)) /\ ~ Running'
    BY <2>1 DEF Script, LastRead, Running
  <2>5. PayloadsKept' /\ VerdictsLast'
    BY <1>1, <2>1, <2>2, <2>4 DEF PayloadsKept, VerdictsLast
  <2> QED
    BY <1>1, <1>2, <2>3, <2>5
<1>10. CASE ArchiveAgain
  <2>1. /\ rebuilt = "none" /\ archiveVerdict' = "none" /\ UNCHANGED <<store, lossAt, row>>
        /\ script' = [script EXCEPT !.line = 1, !.failed = FALSE, !.runs = @ + 1]
    BY <1>10 DEF ArchiveAgain
  <2>2. /\ script' \in [line : Nat \ {0}, failed : BOOLEAN, ledgered : BOOLEAN, runs : Nat]
        /\ script'.line = 1 /\ script'.ledgered = script.ledgered
    <3>1. /\ script.ledgered \in BOOLEAN /\ script.runs \in Nat
          /\ script = [line |-> script.line, failed |-> script.failed, ledgered |-> script.ledgered, runs |-> script.runs]
      BY DEF ArchiveTypes
    <3>2. script' = [line |-> 1, failed |-> FALSE, ledgered |-> script.ledgered, runs |-> script.runs + 1]
      BY <2>1, <3>1, Zenon
    <3> QED
      BY <3>1, <3>2
  <2>3. \A p \in Providers : LastRead(p)' \in Int /\ LastRead(p)' >= 5
    <3>1. Script' = Script
      BY <2>2 DEF Script
    <3>2. \A p \in Providers : LastRead(p)' = LastRead(p)
      BY <3>1 DEF LastRead
    <3> QED
      BY <3>2, ScriptFacts DEF ArchiveTypes
  <2>4. ArchiveTypes'
    BY <1>1, <2>1, <2>2 DEF ArchiveTypes, lakeVars, Ledgers
  <2>5. PayloadsKept' /\ VerdictsLast'
    BY <1>1, <2>1, <2>2, <2>3 DEF PayloadsKept, VerdictsLast
  <2> QED
    BY <1>1, <1>2, <2>4, <2>5
<1>11. ASSUME NEW p \in Providers, ProviderLoses(p) PROVE ArchiveInv'
  <2>1. /\ Running /\ UNCHANGED <<script, archiveVerdict, row>>
        /\ store' = [store EXCEPT ![p] = FALSE] /\ lossAt' = [lossAt EXCEPT ![p] = script.line]
    BY <1>11 DEF ProviderLoses
  <2>2. ArchiveTypes'
    BY <1>1, <2>1 DEF ArchiveTypes, lakeVars
  <2>3. Script' = Script /\ \A q \in Providers : LastRead(q)' = LastRead(q)
    BY <2>1 DEF Script, LastRead
  <2>4. PayloadsKept'
    BY <2>1, <2>3 DEF PayloadsKept, ArchiveTypes
  <2> QED
    BY <1>2, <1>3, <2>1, <2>2, <2>4
<1> QED
  BY <1>1, <1>4, <1>7, <1>8, <1>9, <1>10, <1>11

\* A rebuild, which writes nothing else.
LEMMA RebuildStep ==
  ASSUME ArchiveInv, NEW w \in LakeWriters, Rebuild(w)
  PROVE  ArchiveInv' /\ UNCHANGED lakeVars
<1>1. /\ UNCHANGED <<lakeVars, scriptVars, storageFaults>> /\ ~ Running
      /\ rebuilt' \in {"raised", "passed", "failed"}
      /\ rebuilt' = "passed" => LakeReadable(writers[w].schema) /\ archiveVerdict = "passed"
  BY DEF Rebuild
<1>2. ArchiveTypes' /\ LakeInv'
  BY <1>1, LakeFrame DEF ArchiveInv, ArchiveTypes, lakeVars, scriptVars, Ledgers
<1>3. Script' = Script /\ (\A p \in Providers : LastRead(p)' = LastRead(p)) /\ ~ Running'
  BY <1>1 DEF Script, LastRead, Running, scriptVars
<1>4. PayloadsKept' /\ VerdictsLast'
  BY <1>1, <1>3 DEF ArchiveInv, PayloadsKept, VerdictsLast, lakeVars, scriptVars, LakeReadable
<1> QED
  BY <1>1, <1>2, <1>4 DEF ArchiveInv

\* The invariant holds at first and is kept, and a whole manifest stays.
LEMMA ArchiveInduction ==
  /\ ArchiveInit => ArchiveInv
  /\ ArchiveInv /\ [ArchiveNext]_archiveVars =>
        ArchiveInv' /\ (manifest.st = "whole" => UNCHANGED <<linked, manifest>>)
<1>1. ASSUME ArchiveInit PROVE ArchiveInv
  <2>1. /\ linked = FALSE /\ manifest = NoManifest
        /\ writers = [w \in LakeWriters |-> [pc |-> "idle", schema |-> 0]]
        /\ store = [p \in Providers |-> FALSE] /\ lossAt = [p \in Providers |-> 0]
        /\ script \in [line : {1}, failed : {FALSE}, ledgered : BOOLEAN, runs : {1}]
        /\ archiveVerdict = "none" /\ row = "none" /\ rebuilt = "none" /\ storageFaults = 0
    BY <1>1 DEF ArchiveInit
  <2>2. ArchiveTypes
    <3>1. script \in [line : Nat \ {0}, failed : BOOLEAN, ledgered : BOOLEAN, runs : Nat]
      <4>1. /\ script = [line |-> script.line, failed |-> script.failed, ledgered |-> script.ledgered, runs |-> script.runs]
            /\ script.line = 1 /\ script.failed = FALSE /\ script.ledgered \in BOOLEAN /\ script.runs = 1
        BY <2>1
      <4>2. script = [line |-> 1, failed |-> FALSE, ledgered |-> script.ledgered, runs |-> 1]
        BY <4>1, Zenon
      <4>3. 1 \in Nat \ {0} /\ 1 \in Nat /\ FALSE \in BOOLEAN
        OBVIOUS
      <4> QED
        BY <4>1, <4>2, <4>3, Zenon
    <3>2. writers \in [LakeWriters -> [pc : LakePcs, schema : SchemaVersions \cup {0}]]
      BY <2>1 DEF LakePcs
    <3>3. store \in [Providers -> BOOLEAN] /\ lossAt \in [Providers -> Nat]
      BY <2>1
    <3> QED
      BY <2>1, <3>1, <3>2, <3>3 DEF ArchiveTypes, NoManifest, Ledgers
  <2>3. LakeInv /\ VerdictsLast
    BY <2>1 DEF LakeInv, NoManifest, VerdictsLast
  <2>4. PayloadsKept
    BY <2>1, ScriptFacts DEF PayloadsKept
  <2> QED
    BY <2>2, <2>3, <2>4 DEF ArchiveInv
<1>2. ASSUME ArchiveInv, [ArchiveNext]_archiveVars
      PROVE  ArchiveInv' /\ (manifest.st = "whole" => UNCHANGED <<linked, manifest>>)
  <2>1. CASE UNCHANGED archiveVars
    <3>1. ArchiveTypes' /\ UNCHANGED lakeVars /\ UNCHANGED <<scriptVars, rebuilt>>
      BY <1>2, <2>1 DEF ArchiveInv, ArchiveTypes, archiveVars, lakeVars, scriptVars
    <3> QED
      BY <1>2, <3>1, LakeFrame, ScriptFrame DEF ArchiveInv, lakeVars
  <2>2. CASE ArchiveNext
    BY <1>2, <2>2, LakeStep, ScriptStep, RebuildStep DEF ArchiveNext, lakeVars
  <2> QED
    BY <1>2, <2>1, <2>2
<1> QED
  BY <1>1, <1>2

\* A manifest that was returned reads back for the writer that wrote it, and a whole one
\* stays as it is; a passed archive means that each provider had the payload when it was
\* read last, and a passed rebuild rests on both: for any number of writers, runs and faults.
THEOREM ArtifactsTheorem == ArchiveSpec => ArtifactsSurvive
<1>1. ArchiveInv => /\ \A w \in LakeWriters : writers[w].pc = "returned" =>
                          /\ linked /\ manifest.st # "none"
                          /\ manifest.by = w => LakeReadable(writers[w].schema)
                    /\ archiveVerdict = "passed" => \A p \in Providers : store[p] \/ lossAt[p] > LastRead(p)
                    /\ rebuilt = "passed" => manifest.st = "whole" /\ archiveVerdict = "passed"
  <2> SUFFICES ASSUME ArchiveInv, archiveVerdict = "passed", NEW p \in Providers
               PROVE  store[p] \/ lossAt[p] > LastRead(p)
    BY DEF ArchiveInv, LakeInv, VerdictsLast
  <2>1. ~ Running /\ ~ script.failed /\ script.line \in Nat \ {0}
    BY DEF ArchiveInv, VerdictsLast, ArchiveTypes
  <2>2. /\ DOMAIN Script = 1..Len(Script) /\ Len(Script) \in Nat /\ LastRead(p) \in DOMAIN Script
    BY ScriptFacts DEF ArchiveInv, ArchiveTypes
  <2>3. script.line > LastRead(p)
    BY <2>1, <2>2 DEF Running
  <2> QED
    BY <2>1, <2>3 DEF ArchiveInv, PayloadsKept
<1>2. ArchiveInv /\ [ArchiveNext]_archiveVars => [manifest.st = "whole" => UNCHANGED <<linked, manifest>>]_archiveVars
  BY ArchiveInduction
<1> QED
  BY <1>1, <1>2, ArchiveInduction, PTL DEF ArchiveSpec, ArtifactsSurvive

---------------------------------------------------------------------------
(* The canary.  Bars and predictions are only ever added; a rejection ends *)
(* the run that made it, and no run makes one after the deadline.          *)

SourcePcs == {"off", "boot", "loop", "CANARY_FAILED", "deadline_reached", "dead"}
ChronosPcs == {"off", "boot", "dead", "top", "cases", "infer", "failed", "CANARY_FAILED", "deadline_reached"}
SourceRecs == [pc : SourcePcs, run : Nat, polled : BOOLEAN, stop : BOOLEAN]
ChronosRecs == [pc : ChronosPcs, run : Nat, at : Nat, seen : [CanarySymbols -> SUBSET Nat],
                case : Cases \cup {<<0, 0>>}, stop : BOOLEAN]
Working == {"cases", "infer", "failed"}

CanaryTypes ==
    /\ targetEnd \in Nat /\ minute \in Nat
    /\ source \in SourceRecs /\ chronos \in ChronosRecs
    /\ finals \in [CanarySymbols -> SUBSET Nat]
    /\ forecasts \subseteq [s : CanarySymbols, c : Cutoffs, at : Nat] /\ rejected \subseteq Cases
    /\ candidateFile.st \in {"none", "running", "CANARY_FAILED", "deadline_reached"}

\* Bars are admitted up to now and before the deadline, and seen once they are admitted.
SeenInv ==
    /\ \A s \in CanarySymbols : \A b \in finals[s] : b <= minute /\ b < targetEnd
    /\ \A s \in CanarySymbols : chronos.seen[s] \subseteq finals[s]

\* A run that may still predict has rejected nothing, and asks for what is not predicted yet.
AskedInv ==
    /\ chronos.pc \in {"top", "cases", "infer", "deadline_reached"} => rejected = {}
    /\ chronos.pc = "infer" =>
          /\ chronos.case \in Cases /\ ~ Predicted(chronos.case[1], chronos.case[2])
          /\ Context(chronos.case[2]) \subseteq finals[chronos.case[1]]

\* Nothing more is predicted or rejected once a complete run has come to its deadline.
Settled == Covered /\ rejected = {} /\ minute >= targetEnd /\ chronos.pc \notin Working
SettledInv ==
    \/ chronos.pc = "deadline_reached" \/ candidateFile.st = "deadline_reached"
    \/ "CANARY_COMPLETE_PENDING_AUDIT" \in watchRows \/ verdict = "qualified"
    => Settled

AuditInv ==
    /\ source.pc = "deadline_reached" \/ sourceFile.st = "deadline_reached" => minute >= targetEnd
    /\ verdict = "qualified" => Linked

CanaryInv == CanaryTypes /\ SeenInv /\ AskedInv /\ PredictedOnTime /\ SettledInv /\ AuditInv

\* The latest mandatory cutoff is one, and cutoffs are times.
LEMMA CutoffFacts ==
  /\ FirstCutoff \in Nat /\ LastCutoff \in Nat /\ LastCutoff \in Cutoffs /\ Cutoffs \subseteq Nat
  /\ \A c \in Nat : Context(c) \subseteq Int
<1> DEFINE earliest == (ContextBars - 1) + ContextLag
<1>1. earliest \in Nat /\ Hour \in Nat \ {0} /\ CutoffsPerSymbol \in Nat \ {0}
  BY CanaryAssumption
<1>2. (earliest + Hour - 1) \div Hour \in Nat
  BY <1>1
<1>3. FirstCutoff \in Nat
  <2>1. \A x, y \in Nat : x * y \in Nat
    OBVIOUS
  <2> QED
    BY <1>1, <1>2, <2>1 DEF FirstCutoff
<1>4. \A k \in 0..(CutoffsPerSymbol - 1) : k * Hour \in Nat
  BY <1>1
<1>5. LastCutoff \in Nat /\ LastCutoff \in Cutoffs /\ Cutoffs \subseteq Nat
  BY <1>1, <1>3, <1>4 DEF LastCutoff, Cutoffs
<1> QED
  BY <1>3, <1>5, CanaryAssumption DEF Context

\* What all the steps that neither predict nor reject leave of the invariant.
LEMMA Frame ==
  ASSUME CanaryInv, UNCHANGED <<targetEnd, forecasts, rejected>>,
         source' \in SourceRecs, chronos' \in ChronosRecs, minute' \in {minute, minute + 1},
         finals' \in [CanarySymbols -> SUBSET Nat],
         candidateFile'.st \in {"none", "running", "CANARY_FAILED", "deadline_reached"},
         \A s \in CanarySymbols : finals[s] \subseteq finals'[s],
         SeenInv', AuditInv',
         chronos'.pc \in {"top", "cases", "infer", "deadline_reached"} => rejected = {},
         chronos'.pc = "infer" =>
            \/ chronos.pc = "infer" /\ chronos'.case = chronos.case
            \/ /\ chronos'.case \in Cases /\ ~ Predicted(chronos'.case[1], chronos'.case[2])
               /\ Context(chronos'.case[2]) \subseteq finals[chronos'.case[1]],
         SettledInv'
  PROVE  CanaryInv'
<1>1. CanaryTypes'
  BY DEF CanaryInv, CanaryTypes
<1>2. \A s, c : Predicted(s, c)' <=> Predicted(s, c)
  BY DEF Predicted
<1>3. AskedInv'
  <2>1. ASSUME chronos'.pc = "infer"
        PROVE  /\ chronos'.case \in Cases /\ ~ Predicted(chronos'.case[1], chronos'.case[2])
               /\ Context(chronos'.case[2]) \subseteq finals[chronos'.case[1]]
    BY <2>1 DEF CanaryInv, AskedInv
  <2>2. ASSUME chronos'.pc = "infer" PROVE chronos'.case[1] \in CanarySymbols
    BY <2>1, <2>2 DEF Cases
  <2> QED
    BY <1>2, <2>1, <2>2 DEF AskedInv, Predicted
<1>4. PredictedOnTime'
  <2>1. \A f \in forecasts : f.s \in CanarySymbols
    BY DEF CanaryInv, CanaryTypes
  <2> QED
    BY <2>1 DEF CanaryInv, PredictedOnTime
<1> QED
  BY <1>1, <1>3, <1>4 DEF CanaryInv

\* Coverage is a matter of the predictions alone.
LEMMA Kept ==
  ASSUME UNCHANGED forecasts
  PROVE  (Covered' <=> Covered)
  BY DEF Covered, Predicted

\* Steps of collector, launcher and watchdog's files.
LEMMA SourceSteps ==
  ASSUME CanaryInv,
         \/ CanaryPreflight \/ LaunchCollector \/ LaunchWatchdog \/ LaunchFails
         \/ CollectorBoots \/ CollectorEnds \/ CollectorSays \/ StopCollector \/ WatchPublishes
  PROVE  CanaryInv' /\ watchRows' = watchRows
<1>1. /\ UNCHANGED <<targetEnd, minute, finals, chronos, forecasts, rejected, candidateFile, watchRows, verdict>>
  BY DEF CanaryPreflight, LaunchCollector, LaunchWatchdog, LaunchFails, CollectorBoots, CollectorEnds, CollectorSays,
         StopCollector, WatchPublishes, candidateSide, watchSide, sourceSide
<1>2. source' \in SourceRecs
  BY DEF CanaryPreflight, LaunchCollector, LaunchWatchdog, LaunchFails, CollectorBoots, CollectorEnds, CollectorSays,
         StopCollector, WatchPublishes, sourceSide, CanaryInv, CanaryTypes, SourceRecs, SourcePcs
<1>3. source'.pc = "deadline_reached" \/ sourceFile'.st = "deadline_reached" => minute >= targetEnd
  <2>0. source \in SourceRecs /\ (source.pc = "deadline_reached" \/ sourceFile.st = "deadline_reached" => minute >= targetEnd)
    BY DEF CanaryInv, CanaryTypes, AuditInv
  <2>1. CASE CanaryPreflight \/ LaunchWatchdog \/ WatchPublishes
    BY <2>0, <2>1 DEF CanaryPreflight, LaunchWatchdog, WatchPublishes, sourceSide
  <2>2. CASE LaunchCollector \/ LaunchFails \/ StopCollector \/ CollectorBoots
    <3>1. sourceFile' = sourceFile
      BY <2>2 DEF LaunchCollector, LaunchFails, StopCollector, CollectorBoots
    <3>2. source'.pc \in {source.pc, "boot", "dead", "loop"}
      BY <2>0, <2>2 DEF LaunchCollector, LaunchFails, StopCollector, CollectorBoots, SourceRecs
    <3> QED
      BY <2>0, <3>1, <3>2
  <2>3. CASE CollectorEnds
    BY <2>0, <2>3 DEF CollectorEnds, SourceRecs
  <2>4. CASE CollectorSays
    BY <2>0, <2>4 DEF CollectorSays, SourceSays, SourceRecs
  <2> QED
    BY <2>1, <2>2, <2>3, <2>4
<1>4. SeenInv' /\ SettledInv' /\ AuditInv'
  BY <1>1, <1>3 DEF CanaryInv, SeenInv, SettledInv, Settled, AuditInv, Covered, Predicted, Linked
<1> QED
  BY <1>1, <1>2, <1>4, Frame DEF CanaryInv, CanaryTypes, AskedInv

\* A pass of the collector adds the bar of this interval.
LEMMA PassStep ==
  ASSUME CanaryInv, CollectorPass
  PROVE  CanaryInv' /\ watchRows' = watchRows
<1>1. UNCHANGED <<targetEnd, minute, chronos, forecasts, rejected, candidateFile, watchRows, verdict>> /\ minute < targetEnd
  BY DEF CollectorPass, candidateSide, watchSide
<1>2. PICK ok : Admit(ok)
  BY DEF CollectorPass
<1>3. source \in SourceRecs /\ finals \in [CanarySymbols -> SUBSET Nat] /\ minute \in Nat /\ targetEnd \in Nat
  BY DEF CanaryInv, CanaryTypes
<1>4. source' \in SourceRecs /\ source'.pc \in {"loop", "CANARY_FAILED"}
  BY <1>3 DEF CollectorPass, SourceRecs, SourcePcs
<1>5. sourceFile' = sourceFile \/ sourceFile'.st = "running"
  <2>1. sourceFile' = sourceFile \/ sourceFile' = [st |-> "running", run |-> source.run]
    BY Zenon DEF CollectorPass, SourceSays
  <2> QED
    BY <2>1
<1>6. /\ finals' \in [CanarySymbols -> SUBSET Nat]
      /\ \A s \in CanarySymbols : finals[s] \subseteq finals'[s] /\ finals'[s] \subseteq finals[s] \cup {minute}
  BY <1>2, <1>3 DEF Admit
<1>7. SeenInv'
  BY <1>1, <1>3, <1>6 DEF CanaryInv, SeenInv
<1>8. AuditInv'
  <2>1. \A f \in forecasts : f.s \in CanarySymbols
    BY DEF CanaryInv, CanaryTypes
  <2>2. Linked => Linked'
    BY <1>1, <1>6, <2>1 DEF Linked
  <2> QED
    BY <1>1, <1>4, <1>5, <2>2 DEF CanaryInv, AuditInv
<1>9. SettledInv'
  BY <1>1 DEF CanaryInv, SettledInv, Settled, Covered, Predicted
<1> QED
  BY <1>1, <1>3, <1>4, <1>6, <1>7, <1>8, <1>9, Frame DEF CanaryInv, CanaryTypes, AskedInv

\* A tick is before the deadline, so nothing is settled yet.
LEMMA TickStep ==
  ASSUME CanaryInv, CanaryTick
  PROVE  CanaryInv' /\ watchRows' = watchRows
<1>1. /\ UNCHANGED <<targetEnd, finals, chronos, forecasts, rejected, candidateFile, watchRows, verdict, sourceFile>>
      /\ minute < targetEnd /\ minute' = minute + 1
  BY DEF CanaryTick, candidateSide, watchSide
<1>2. source \in SourceRecs /\ minute \in Nat /\ targetEnd \in Nat /\ finals \in [CanarySymbols -> SUBSET Nat]
  BY DEF CanaryInv, CanaryTypes
<1>3. source' \in SourceRecs /\ source'.pc = source.pc
  BY <1>2 DEF CanaryTick, SourceRecs
<1>4. SeenInv'
  BY <1>1, <1>2 DEF CanaryInv, SeenInv
<1>5. AuditInv'
  BY <1>1, <1>2, <1>3 DEF CanaryInv, AuditInv, Linked
<1>6. SettledInv'
  BY <1>1, <1>2 DEF CanaryInv, SettledInv, Settled
<1> QED
  BY <1>1, <1>2, <1>3, <1>4, <1>5, <1>6, Frame DEF CanaryInv, CanaryTypes, AskedInv

\* The candidate's steps that neither take a case nor answer one.
LEMMA CandidateSteps ==
  ASSUME CanaryInv,
         LaunchCandidate \/ CandidateBoots \/ LookAround \/ PassFails \/ ChronosEnds \/ ChronosReports \/ StopCandidate
  PROVE  CanaryInv' /\ watchRows' = watchRows
<1>1. /\ UNCHANGED <<targetEnd, minute, source, finals, sourceFile, forecasts, rejected, watchRows, verdict>>
  BY DEF LaunchCandidate, CandidateBoots, LookAround, PassFails, ChronosEnds, ChronosReports, StopCandidate, sourceSide, watchSide
<1>2. chronos \in ChronosRecs /\ minute \in Nat /\ targetEnd \in Nat /\ finals \in [CanarySymbols -> SUBSET Nat] /\ source \in SourceRecs
  BY DEF CanaryInv, CanaryTypes
<1>3. Stopped \in ChronosRecs /\ Stopped.pc = "dead" /\ Stopped.seen = Unseen
  BY <1>2 DEF Stopped, Idling, Unseen, ChronosRecs, ChronosPcs
<1>4. chronos' \in ChronosRecs /\ (chronos'.seen \in {chronos.seen, finals, Unseen})
  <2>1. CASE LaunchCandidate \/ CandidateBoots \/ PassFails \/ ChronosEnds \/ StopCandidate
    BY <1>2, <2>1 DEF LaunchCandidate, CandidateBoots, PassFails, ChronosEnds, StopCandidate, Resume, ChronosRecs, ChronosPcs
  <2>2. CASE LookAround
    BY <1>2, <2>2 DEF LookAround, ChronosRecs, ChronosPcs
  <2>3. CASE ChronosReports
    BY <1>3, <2>3 DEF ChronosReports
  <2> QED
    BY <2>1, <2>2, <2>3
<1>5. SeenInv'
  BY <1>1, <1>2, <1>4 DEF CanaryInv, SeenInv, Unseen
<1>6. AuditInv'
  BY <1>1 DEF CanaryInv, AuditInv, Linked
<1>7. /\ chronos'.pc \notin {"infer", "failed"}
      /\ chronos'.pc = "top" => rejected = {}
      /\ chronos'.pc = "cases" => rejected = {} /\ minute < targetEnd
      /\ chronos'.pc = "deadline_reached" => Settled'
  <2>1. CASE LaunchCandidate
    BY <1>2, <2>1 DEF LaunchCandidate, ChronosRecs
  <2>2. CASE CandidateBoots
    BY <1>2, <2>2 DEF CandidateBoots, Resume, ChronosRecs
  <2>3. CASE LookAround
    BY <1>2, <2>3 DEF LookAround, ChronosRecs, CanaryInv, AskedInv
  <2>4. CASE PassFails
    BY <1>2, <2>4 DEF PassFails, ChronosRecs
  <2>5. CASE ChronosEnds
    <3>1. rejected = {} /\ (Covered' <=> Covered)
      BY <1>1, <2>5, Kept DEF ChronosEnds, CanaryInv, AskedInv
    <3>2. chronos'.pc = (IF ~chronos.stop /\ Covered THEN "deadline_reached" ELSE "CANARY_FAILED")
      BY <1>2, <2>5 DEF ChronosEnds, ChronosRecs
    <3>3. chronos'.pc = "deadline_reached" => Covered /\ minute >= targetEnd
      BY <3>2, <2>5 DEF ChronosEnds
    <3>4. chronos'.pc \in {"deadline_reached", "CANARY_FAILED"}
      BY <3>2
    <3> QED
      BY <1>1, <3>1, <3>3, <3>4 DEF Settled, Working
  <2>6. CASE ChronosReports
    BY <1>3, <2>6 DEF ChronosReports
  <2>7. CASE StopCandidate
    BY <1>2, <2>7 DEF StopCandidate, ChronosRecs, CanaryInv, AskedInv
  <2> QED
    BY <2>1, <2>2, <2>3, <2>4, <2>5, <2>6, <2>7
<1>8. /\ candidateFile'.st \in {"none", "running", "CANARY_FAILED", "deadline_reached"}
      /\ candidateFile'.st = "deadline_reached" => candidateFile.st = "deadline_reached" \/ chronos.pc = "deadline_reached"
  BY DEF LaunchCandidate, CandidateBoots, LookAround, PassFails, ChronosEnds, ChronosReports, StopCandidate, CandidateSays, CanaryInv, CanaryTypes
<1>9. SettledInv'
  <2>1. Covered' <=> Covered
    BY <1>1, Kept
  <2>2. Settled => Settled'
    BY <1>1, <1>2, <1>7, <2>1 DEF Settled, Working
  <2> QED
    BY <1>1, <1>7, <1>8, <2>2 DEF CanaryInv, SettledInv
<1> QED
  BY <1>1, <1>2, <1>4, <1>5, <1>6, <1>7, <1>8, <1>9, Frame DEF CanaryInv, CanaryTypes, Settled

\* A case is taken by a run that has rejected nothing.
LEMMA TakeStep ==
  ASSUME CanaryInv, TakeCase
  PROVE  CanaryInv' /\ watchRows' = watchRows
<1>1. /\ UNCHANGED <<targetEnd, minute, source, finals, sourceFile, forecasts, watchRows, verdict>>
      /\ chronos.pc = "cases"
  BY DEF TakeCase, sourceSide, watchSide
<1>2. chronos \in ChronosRecs /\ minute \in Nat /\ targetEnd \in Nat /\ finals \in [CanarySymbols -> SUBSET Nat] /\ source \in SourceRecs
  BY DEF CanaryInv, CanaryTypes
<1>3. rejected = {} /\ ~ Settled
  BY <1>1 DEF CanaryInv, AskedInv, Settled, Working
<1>4. /\ chronos.pc # "deadline_reached" /\ candidateFile.st # "deadline_reached"
      /\ "CANARY_COMPLETE_PENDING_AUDIT" \notin watchRows /\ verdict # "qualified"
  BY <1>3 DEF CanaryInv, SettledInv
<1>5. AuditInv'
  BY <1>1 DEF CanaryInv, AuditInv, Linked
<1>6. CASE Upcoming = {}
  <2>1. /\ chronos' = [chronos EXCEPT !.pc = "top", !.seen = Unseen] /\ rejected' = rejected
        /\ candidateFile' = [st |-> "running", run |-> chronos.run, rejections |-> Cardinality(rejected)]
    BY <1>6 DEF TakeCase, CandidateSays
  <2>2. chronos' \in ChronosRecs /\ chronos'.pc = "top" /\ chronos'.seen = Unseen /\ candidateFile'.st = "running"
    BY <1>2, <2>1 DEF ChronosRecs, ChronosPcs, Unseen
  <2>3. SeenInv'
    BY <1>1, <2>2 DEF CanaryInv, SeenInv, Unseen
  <2>4. SettledInv'
    BY <1>1, <1>4, <2>2 DEF SettledInv
  <2> QED
    BY <1>1, <1>2, <1>3, <1>5, <2>1, <2>2, <2>3, <2>4, Frame DEF CanaryInv, CanaryTypes
<1>7. CASE Upcoming # {}
  <2> DEFINE k == CHOOSE k \in Upcoming : TRUE
             e == Eligibility(k, chronos.seen, chronos.at)
  <2>1. k \in Cases
    BY <1>7 DEF Upcoming
  <2>2. k[1] \in CanarySymbols /\ k[2] \in Cutoffs /\ k = <<k[1], k[2]>>
    BY <2>1 DEF Cases
  <2>3. /\ e = "eligible" => ~ Predicted(k[1], k[2]) /\ Context(k[2]) \subseteq chronos.seen[k[1]]
        /\ e \in {"missed", "unavailable"} => ~ Predicted(k[1], k[2])
    BY DEF Eligibility
  <2>4. /\ chronos' = [chronos EXCEPT !.case = k, !.pc = IF e = "eligible" THEN "infer" ELSE "failed"]
        /\ rejected' = IF e \in {"missed", "unavailable"} THEN rejected \cup {k} ELSE rejected
        /\ candidateFile' = candidateFile
    BY <1>7 DEF TakeCase
  <2> HIDE DEF k, e
  <2>5. /\ chronos' \in ChronosRecs /\ chronos'.pc = (IF e = "eligible" THEN "infer" ELSE "failed") /\ chronos'.case = k
        /\ chronos'.seen = chronos.seen
    BY <1>2, <2>1, <2>4 DEF ChronosRecs, ChronosPcs
  <2>6. SeenInv'
    BY <1>1, <2>5 DEF CanaryInv, SeenInv
  <2>7. SettledInv'
    BY <1>1, <1>4, <2>4, <2>5 DEF SettledInv
  <2>8. CASE rejected' = rejected
    <3>1. chronos'.pc \in {"infer", "failed"} /\ (chronos'.pc = "infer" => e = "eligible")
      BY <2>5
    <3>2. e = "eligible" => Context(k[2]) \subseteq finals[k[1]]
      BY <2>2, <2>3 DEF CanaryInv, SeenInv
    <3> QED
      BY <1>1, <1>2, <1>3, <1>5, <2>1, <2>3, <2>4, <2>5, <2>6, <2>7, <2>8, <3>1, <3>2, Frame DEF CanaryInv, CanaryTypes
  <2>9. CASE rejected' = rejected \cup {k} /\ e \in {"missed", "unavailable"}
    <3>1. chronos'.pc = "failed"
      BY <2>5, <2>9
    <3>2. CanaryTypes'
      BY <1>1, <1>2, <2>1, <2>4, <2>5, <2>9 DEF CanaryInv, CanaryTypes
    <3>3. PredictedOnTime'
      <4>1. \A f \in forecasts : <<f.s, f.c>> # k
        BY <2>2, <2>3, <2>9 DEF Predicted
      <4> QED
        BY <1>1, <2>9, <4>1 DEF CanaryInv, PredictedOnTime
    <3> QED
      BY <1>1, <1>5, <2>6, <2>7, <3>1, <3>2, <3>3 DEF CanaryInv, AskedInv
  <2> QED
    BY <2>4, <2>8, <2>9
<1> QED
  BY <1>6, <1>7

\* The answer to an inference is a prediction made in time or a rejection.
LEMMA AnswerStep ==
  ASSUME CanaryInv, Predict \/ InferenceFails
  PROVE  CanaryInv' /\ watchRows' = watchRows
<1> DEFINE k == chronos.case
           f0 == [s |-> k[1], c |-> k[2], at |-> minute]
<1>1. /\ UNCHANGED <<targetEnd, minute, source, finals, sourceFile, candidateFile, watchRows, verdict>>
      /\ chronos.pc = "infer"
  BY DEF Predict, InferenceFails, sourceSide, watchSide
<1>2. chronos \in ChronosRecs /\ minute \in Nat /\ targetEnd \in Nat /\ finals \in [CanarySymbols -> SUBSET Nat] /\ source \in SourceRecs
  BY DEF CanaryInv, CanaryTypes
<1>3. rejected = {} /\ ~ Settled /\ k \in Cases /\ ~ Predicted(k[1], k[2]) /\ Context(k[2]) \subseteq finals[k[1]]
  BY <1>1 DEF CanaryInv, AskedInv, Settled, Working
<1>4. k[1] \in CanarySymbols /\ k[2] \in Cutoffs /\ k = <<k[1], k[2]>>
  BY <1>3 DEF Cases
<1>5. /\ chronos.pc # "deadline_reached" /\ candidateFile.st # "deadline_reached"
      /\ "CANARY_COMPLETE_PENDING_AUDIT" \notin watchRows /\ verdict # "qualified"
  BY <1>3 DEF CanaryInv, SettledInv
<1>6. AuditInv'
  BY <1>1, <1>5 DEF CanaryInv, AuditInv
<1> HIDE DEF k
<1>7. CASE Predict /\ InTime
  <2>1. forecasts' = forecasts \cup {f0} /\ chronos' = [chronos EXCEPT !.pc = "cases"] /\ rejected' = rejected
    BY <1>7 DEF Predict, k
  <2>2. minute < k[2] /\ f0 \in [s : CanarySymbols, c : Cutoffs, at : Nat]
    BY <1>2, <1>4, <1>7 DEF InTime, k
  <2>3. chronos' \in ChronosRecs /\ chronos'.pc = "cases" /\ chronos'.seen = chronos.seen
    BY <1>2, <2>1 DEF ChronosRecs, ChronosPcs
  <2>4. SeenInv' /\ SettledInv' /\ AskedInv'
    BY <1>1, <1>3, <1>5, <2>1, <2>3 DEF CanaryInv, SeenInv, SettledInv, AskedInv
  <2>5. CanaryTypes'
    BY <1>1, <1>2, <2>1, <2>2, <2>3 DEF CanaryInv, CanaryTypes
  <2>6. PredictedOnTime'
    <3>1. Context(k[2]) \subseteq finals[k[1]] \cap 0..minute
      BY <1>2, <1>3, <1>4 DEF CanaryInv, SeenInv
    <3>2. \A f \in forecasts : ~ (f.s = k[1] /\ f.c = k[2])
      BY <1>3 DEF Predicted
    <3>3. f0.s = k[1] /\ f0.c = k[2] /\ f0.at = minute
      OBVIOUS
    <3> HIDE DEF f0
    <3> QED
      BY <1>1, <1>3, <2>1, <2>2, <3>1, <3>2, <3>3 DEF CanaryInv, PredictedOnTime
  <2> QED
    BY <1>1, <1>6, <2>4, <2>5, <2>6 DEF CanaryInv
<1>8. CASE ~ (Predict /\ InTime)
  <2>1. forecasts' = forecasts /\ chronos' = [chronos EXCEPT !.pc = "failed"] /\ rejected' = rejected \cup {k}
    BY <1>8 DEF Predict, InferenceFails, k
  <2>2. chronos' \in ChronosRecs /\ chronos'.pc = "failed" /\ chronos'.seen = chronos.seen
    BY <1>2, <2>1 DEF ChronosRecs, ChronosPcs
  <2>3. SeenInv' /\ SettledInv' /\ AskedInv'
    BY <1>1, <1>3, <1>5, <2>1, <2>2 DEF CanaryInv, SeenInv, SettledInv, AskedInv
  <2>4. CanaryTypes'
    BY <1>1, <1>2, <1>3, <2>1, <2>2 DEF CanaryInv, CanaryTypes
  <2>5. PredictedOnTime'
    <3>1. \A f \in forecasts : <<f.s, f.c>> # k
      BY <1>3, <1>4 DEF Predicted
    <3> QED
      BY <1>1, <2>1, <3>1 DEF CanaryInv, PredictedOnTime
  <2> QED
    BY <1>1, <1>6, <2>3, <2>4, <2>5 DEF CanaryInv
<1> QED
  BY <1>7, <1>8
\* A component that dies or starts again has no case in hand.
LEMMA RestartSteps ==
  ASSUME CanaryInv, Kill \/ Rerun
  PROVE  CanaryInv' /\ watchRows' = watchRows
<1>1. /\ UNCHANGED <<targetEnd, minute, finals, sourceFile, forecasts, rejected, candidateFile, watchRows, verdict>>
  BY DEF Kill, Rerun
<1>2. chronos \in ChronosRecs /\ minute \in Nat /\ targetEnd \in Nat /\ finals \in [CanarySymbols -> SUBSET Nat] /\ source \in SourceRecs
  BY DEF CanaryInv, CanaryTypes
<1>3. Stopped \in ChronosRecs /\ Stopped.pc = "dead" /\ Stopped.seen = Unseen
  BY <1>2 DEF Stopped, Idling, Unseen, ChronosRecs, ChronosPcs
<1>4. chronos' \in ChronosRecs /\ (chronos' = chronos \/ (chronos'.pc \in {"boot", "dead"} /\ chronos'.seen = Unseen))
  <2>1. \/ chronos' = chronos \/ chronos' = Stopped
        \/ chronos' = [Idling EXCEPT !.pc = "boot", !.run = chronos.run + 1]
    BY Zenon DEF Kill, Rerun
  <2>2. CASE chronos' = [Idling EXCEPT !.pc = "boot", !.run = chronos.run + 1]
    <3>1. chronos.run + 1 \in Nat
      BY <1>2 DEF ChronosRecs
    <3>2. Idling \in ChronosRecs /\ Idling.seen = Unseen
      BY DEF Idling, Unseen, ChronosRecs, ChronosPcs
    <3> QED
      BY <2>2, <3>1, <3>2 DEF ChronosRecs, ChronosPcs
  <2> QED
    BY <1>2, <1>3, <2>1, <2>2
<1>5. source' \in SourceRecs /\ (source' = source \/ source'.pc \in {"boot", "dead"})
  <2>1. \/ source' = source \/ source' = [source EXCEPT !.pc = "dead", !.polled = FALSE, !.stop = FALSE]
        \/ source' = [pc |-> "boot", run |-> source.run + 1, polled |-> FALSE, stop |-> FALSE]
    BY Zenon DEF Kill, Rerun
  <2>2. [source EXCEPT !.pc = "dead", !.polled = FALSE, !.stop = FALSE] \in SourceRecs
    BY <1>2 DEF SourceRecs, SourcePcs
  <2>3. [source EXCEPT !.pc = "dead", !.polled = FALSE, !.stop = FALSE].pc = "dead"
    BY <1>2 DEF SourceRecs
  <2>4. [pc |-> "boot", run |-> source.run + 1, polled |-> FALSE, stop |-> FALSE] \in SourceRecs
    BY <1>2 DEF SourceRecs, SourcePcs
  <2>5. CASE source' = source
    BY <1>2, <2>5
  <2>6. CASE source' = [source EXCEPT !.pc = "dead", !.polled = FALSE, !.stop = FALSE]
    BY <2>2, <2>3, <2>6, Zenon
  <2>7. CASE source' = [pc |-> "boot", run |-> source.run + 1, polled |-> FALSE, stop |-> FALSE]
    BY <2>4, <2>7
  <2> QED
    BY <2>1, <2>5, <2>6, <2>7
<1>6. SeenInv'
  BY <1>1, <1>2, <1>4 DEF CanaryInv, SeenInv, Unseen
<1>7. AuditInv'
  BY <1>1, <1>5 DEF CanaryInv, AuditInv, Linked
<1>8. SettledInv'
  BY <1>1, <1>4 DEF CanaryInv, SettledInv, Settled, Covered, Predicted, Working
<1> QED
  BY <1>1, <1>2, <1>4, <1>5, <1>6, <1>7, <1>8, Frame DEF CanaryInv, CanaryTypes, AskedInv

\* The watchdog writes COMPLETE only over a complete candidate, and a failure for ever.
LEMMA JudgeStep ==
  ASSUME CanaryInv, WatchJudges
  PROVE  CanaryInv' /\ ("CANARY_FAILED" \in watchRows => watchRows' = watchRows)
<1>1. /\ UNCHANGED <<targetEnd, minute, source, finals, chronos, sourceFile, forecasts, rejected, candidateFile, verdict>>
  BY DEF WatchJudges, sourceSide, candidateSide
<1>2. PICK now \in {minute, minute + 1} : watchRows' = watchRows \cup ({CanaryDecision(now)} \ {"CANARY_HEALTHY"})
  BY DEF WatchJudges, AppendWatchEvent
<1>3. "CANARY_FAILED" \in watchRows => watchRows' = watchRows
  <2>1. ASSUME "CANARY_FAILED" \in watchRows PROVE CanaryDecision(now) = "CANARY_FAILED"
    BY <2>1 DEF CanaryDecision, Condemned, FatalLatched
  <2> QED
    BY <1>2, <2>1
<1>4. now \in Nat /\ targetEnd \in Nat
  BY DEF CanaryInv, CanaryTypes
<1>5. CanaryDecision(now) = "CANARY_COMPLETE_PENDING_AUDIT" => Settled
  <2>1. ASSUME CanaryDecision(now) = "CANARY_COMPLETE_PENDING_AUDIT"
        PROVE  candidateFile.st = "deadline_reached"
    <3>1. ~ Condemned(now) /\ now >= targetEnd
      BY <2>1 DEF CanaryDecision
    <3>2. candidateFile.st \notin {"none", "CANARY_FAILED"} /\ candidateFile.st # "running"
      BY <1>4, <3>1 DEF Condemned
    <3> QED
      BY <3>2 DEF CanaryInv, CanaryTypes
  <2> QED
    BY <2>1 DEF CanaryInv, SettledInv
<1>6. Settled => Settled'
  BY <1>1, Kept DEF Settled
<1>7. SettledInv'
  BY <1>1, <1>2, <1>5, <1>6 DEF CanaryInv, SettledInv
<1>8. SeenInv' /\ AuditInv'
  BY <1>1 DEF CanaryInv, SeenInv, AuditInv, Linked
<1>9. CanaryInv'
  BY <1>1, <1>7, <1>8, Frame DEF CanaryInv, CanaryTypes, AskedInv
<1> QED
  BY <1>3, <1>9

\* The audit qualifies a covered canary after the deadline.
LEMMA AuditStep ==
  ASSUME CanaryInv, CanaryAudit
  PROVE  CanaryInv' /\ watchRows' = watchRows
<1>1. /\ UNCHANGED <<targetEnd, minute, source, finals, chronos, sourceFile, forecasts, rejected, candidateFile, watchRows>>
  BY DEF CanaryAudit, sourceSide, candidateSide, watchSide
<1>2. chronos.pc \notin Working /\ minute >= targetEnd
  BY DEF CanaryAudit, Auditable, Lives, Working, CanaryInv, AuditInv
<1>3. verdict' = "qualified" => Covered /\ rejected = {} /\ Linked
  BY DEF CanaryAudit
<1>4. (Linked' <=> Linked) /\ (Covered' <=> Covered)
  BY <1>1, Kept DEF Linked
<1>5. SeenInv' /\ AuditInv'
  BY <1>1, <1>3, <1>4 DEF CanaryInv, SeenInv, AuditInv
<1>6. SettledInv'
  BY <1>1, <1>2, <1>3, <1>4 DEF CanaryInv, SettledInv, Settled
<1> QED
  BY <1>1, <1>5, <1>6, Frame DEF CanaryInv, CanaryTypes, AskedInv

\* What the invariant says of the verdicts.
LEMMA VerdictFacts ==
  ASSUME CanaryInv
  PROVE  PredictedOnTime /\ CompleteIsCovered /\ QualifiedIsLinked
<1>1. CompleteIsCovered
  BY DEF CanaryInv, SettledInv, Settled, CompleteIsCovered
<1>2. ASSUME verdict = "qualified"
      PROVE  Covered /\ rejected = {} /\ Linked /\ targetEnd > LastCutoff + Hour
  <2>1. Covered /\ rejected = {} /\ Linked
    BY <1>2 DEF CanaryInv, SettledInv, Settled, AuditInv
  <2>2. PICK s \in CanarySymbols : TRUE
    BY CanaryAssumption
  <2>3. <<s, LastCutoff>> \in Cases /\ LastCutoff \in Nat /\ Hour \in Nat \ {0}
    BY CutoffFacts, CanaryAssumption DEF Cases
  <2>4. PICK f \in forecasts : f.s = s /\ f.c = LastCutoff
    BY <2>1, <2>3 DEF Covered, Predicted
  <2>5. LastCutoff + Hour \in finals[s]
    BY <2>1, <2>3, <2>4 DEF Linked, OutcomeBars
  <2> QED
    BY <2>1, <2>3, <2>5 DEF CanaryInv, CanaryTypes, SeenInv
<1> QED
  BY <1>1, <1>2 DEF CanaryInv, QualifiedIsLinked

\* Nothing has happened before the preflight.
LEMMA CanaryStarts == CanaryInit => CanaryInv
<1> SUFFICES ASSUME CanaryInit PROVE CanaryInv
  OBVIOUS
<1>1. CanaryTypes
  BY CanaryAssumption DEF CanaryInit, CanaryTypes, Idling, Unseen, NoFile, SourceRecs, SourcePcs, ChronosRecs, ChronosPcs
<1>2. SeenInv /\ AskedInv /\ PredictedOnTime /\ SettledInv /\ AuditInv
  BY DEF CanaryInit, SeenInv, AskedInv, PredictedOnTime, SettledInv, AuditInv, Idling, Unseen, NoFile
<1> QED
  BY <1>1, <1>2 DEF CanaryInv

\* Every step keeps the invariant, and none adds to a log that has a failure.
LEMMA CanarySteps ==
  CanaryInv /\ [CanaryNext]_canaryVars => CanaryInv' /\ ("CANARY_FAILED" \in watchRows => watchRows' = watchRows)
<1> SUFFICES ASSUME CanaryInv, [CanaryNext]_canaryVars
             PROVE  CanaryInv' /\ ("CANARY_FAILED" \in watchRows => watchRows' = watchRows)
  OBVIOUS
<1>1. CASE UNCHANGED canaryVars
  <2>1. UNCHANGED <<targetEnd, minute, source, finals, chronos, sourceFile, forecasts, rejected, candidateFile, watchRows, verdict>>
    BY <1>1 DEF canaryVars
  <2>2. SeenInv' /\ AuditInv' /\ SettledInv'
    BY <2>1, Kept DEF CanaryInv, SeenInv, AuditInv, Linked, SettledInv, Settled
  <2> QED
    BY <2>1, <2>2, Frame DEF CanaryInv, CanaryTypes, AskedInv
<1>2. CASE CanaryNext
  BY <1>2, SourceSteps, PassStep, TickStep, CandidateSteps, TakeStep, AnswerStep, RestartSteps, JudgeStep, AuditStep DEF CanaryNext
<1> QED
  BY <1>1, <1>2

\* The canary's verdicts agree, for any cadence, any number of mishaps and any
\* number of components started again: the invariant holds at the start and
\* every step keeps it (evaluate_once, run_chronos and the terminal audit).
THEOREM CanaryTheorem == CanarySpec => CanaryVerdictsAgree
<1>1. CanaryInv => PredictedOnTime /\ CompleteIsCovered /\ QualifiedIsLinked
  BY VerdictFacts
<1>2. CanaryInv /\ [CanaryNext]_canaryVars => ["CANARY_FAILED" \in watchRows => UNCHANGED watchRows]_canaryVars
  BY CanarySteps
<1> QED
  BY <1>1, <1>2, CanaryStarts, CanarySteps, PTL DEF CanarySpec, CanaryVerdictsAgree

(* The forward evidence root *)

RowContents == {"partial", "final", "revised"}
ResponseRows == UNION {[D -> RowContents] : D \in SUBSET Nat}
Receipts == [at : Nat, rows : ResponseRows]
ReportShape(r) ==
    r = [raw |-> r.raw, bars |-> r.bars, cases |-> r.cases, predictions |-> r.predictions,
         clean |-> r.clean, ready |-> r.ready, hashed |-> r.hashed]
BatchShape(b) ==
    b = [cutoff |-> b.cutoff, at |-> b.at, context |-> b.context, models |-> b.models,
         failing |-> b.failing]
ForwardTypes ==
    /\ time \in Nat /\ spool \in Seq(Receipts)
    /\ report.ready \in BOOLEAN /\ ReportShape(report)
    /\ batch.failing \in BOOLEAN /\ BatchShape(batch)

\* Receipts come in the order of time, rows are pending only while a response is looked at,
\* and a torn spool stops the collector.
ReceiptsInOrder ==
    /\ LastReceipt <= time /\ (poller = "polling" => LastReceipt < time)
    /\ poller # "admitting" => parsed = {}
    /\ broken # "none" => poller \in {"down", "refused"}

\* A bar is the only one of its interval, closed when it was received, and on some receipt.
Received(b) ==
    /\ b.end \in Nat /\ b.at \in Nat /\ b.end <= b.at /\ b.at <= LastReceipt
    /\ \E i \in DOMAIN spool : spool[i].at = b.at /\ b.end \in DOMAIN spool[i].rows
                               /\ spool[i].rows[b.end] = b.content
BarsAreReceived ==
    /\ \A a, b \in bars : a.end = b.end => a = b
    /\ \A b \in bars \cup parsed : Received(b)

\* A case is what the bars of now still say of its cutoff.
CasesStand ==
    \A c \in cases : c.cutoff \in Nat /\ c = Case(bars, c.cutoff) /\ CaseVerdict(bars, c.cutoff) = "case"

\* A cutoff rejected for its context can never have one: some past bar is not there and would
\* come too late, or came too late.
Spoiled(c) ==
    /\ c \in Int /\ c <= LastReceipt
    /\ \E e \in PastEnds(c) : \A b \in bars \cup parsed : b.end = e => b.at > c
RejectionsStand ==
    \A r \in caseRejections : r[2] # "missing_one_hour_outcome_bars" => Spoiled(r[1])

\* The context of a prediction, recorded or being made, is complete and was there in time.
ContextStands(c, context) ==
    /\ context = BarsAt(bars, PastEnds(c)) /\ EndsOf(context) = PastEnds(c)
    /\ \A b \in context : b.at <= c
PredictionsStand ==
    /\ \A p \in predictions : ContextStands(p.cutoff, p.context)
    /\ batch # Idle => ContextStands(batch.cutoff, batch.context)
    /\ worker = "dead" => broken = "bars"
MissesStand ==
    \A m \in misses : /\ {p.model : p \in PredictedAt(m[1])} # Baselines
                      /\ batch # Idle => batch.cutoff # m[1]

\* What the report says stays true of the receipts it read.
LastTwo(read, b) ==
    \E i, j \in Closed(read, b.end) :
        /\ i < j /\ \A k \in Closed(read, b.end) : k \in {i, j} \/ k < i
        /\ read[i].rows[b.end] = b.content /\ read[j].rows[b.end] = b.content
Confirmed(r, rows) ==
    /\ r.raw \in 0..Len(rows) /\ r.clean \subseteq r.cases
    /\ \A c \in r.clean : \A b \in c.context \cup c.outcome : LastTwo(SubSeq(rows, 1, r.raw), b)
SampleIsReady(r) ==
    /\ Cardinality(r.clean) >= MinimumCases
    /\ \A p \in r.predictions : p.at <= p.cutoff /\ \E c \in r.cases : c.cutoff = p.cutoff
ReportStands ==
    /\ Confirmed(report, spool)
    /\ report.ready => SampleIsReady(report)
    /\ review = "audited" => report.ready
    /\ review = "materialized" => report.ready /\ input = report.clean
    /\ review # "materialized" => input = {}

ForwardInv ==
    /\ ForwardTypes /\ ReceiptsInOrder /\ BarsAreReceived /\ CasesStand /\ RejectionsStand
    /\ PredictionsStand /\ MissesStand /\ ReportStands

\* A bar of another interval adds nothing to the bars of these.
LEMMA BarsStay ==
    ASSUME NEW file, NEW bar, bar.end \notin EndsOf(file), NEW ends, ends \subseteq EndsOf(file)
    PROVE  BarsAt(file \cup {bar}, ends) = BarsAt(file, ends) /\ ends \subseteq EndsOf(file \cup {bar})
BY DEF BarsAt, EndsOf

\* The verdict on a cutoff whose case stands, spelled out.
LEMMA CaseMeans ==
    ASSUME NEW file, NEW c
    PROVE  CaseVerdict(file, c) = "case" <=>
             /\ PastEnds(c) \subseteq EndsOf(file) /\ OutcomeEnds(c) \subseteq EndsOf(file)
             /\ \A b \in BarsAt(file, PastEnds(c)) : ~ (b.at > c)
BY DEF CaseVerdict

\* A case stands when a bar of another interval is added.
LEMMA CaseStays ==
    ASSUME NEW file, NEW bar, bar.end \notin EndsOf(file), NEW c, CaseVerdict(file, c) = "case"
    PROVE  CaseVerdict(file \cup {bar}, c) = "case" /\ Case(file \cup {bar}, c) = Case(file, c)
<1>1. /\ PastEnds(c) \subseteq EndsOf(file) /\ OutcomeEnds(c) \subseteq EndsOf(file)
      /\ \A b \in BarsAt(file, PastEnds(c)) : ~ (b.at > c)
  BY CaseMeans
<1>2. /\ BarsAt(file \cup {bar}, PastEnds(c)) = BarsAt(file, PastEnds(c))
      /\ BarsAt(file \cup {bar}, OutcomeEnds(c)) = BarsAt(file, OutcomeEnds(c))
      /\ PastEnds(c) \subseteq EndsOf(file \cup {bar}) /\ OutcomeEnds(c) \subseteq EndsOf(file \cup {bar})
  BY <1>1, BarsStay
<1>3. CaseVerdict(file \cup {bar}, c) = "case"
  BY <1>1, <1>2, CaseMeans
<1> QED
  BY <1>2, <1>3 DEF Case

\* The bars a case or a prediction rests on are on file.
LEMMA PartsAreBars ==
    ASSUME NEW file, NEW ends
    PROVE  BarsAt(file, ends) \subseteq file
BY DEF BarsAt

----------------------------------------------------------------------------
\* What a step leaves alone of the invariant, by the variables it does not touch.
LEMMA ForwardKept ==
    /\ ForwardTypes /\ UNCHANGED <<time, spool, report, batch>> => ForwardTypes'
    /\ BarsAreReceived /\ UNCHANGED <<spool, bars>> /\ parsed' \subseteq parsed => BarsAreReceived'
    /\ CasesStand /\ UNCHANGED <<cases, bars>> => CasesStand'
    /\ RejectionsStand /\ UNCHANGED <<caseRejections, spool, bars>> /\ parsed' \subseteq parsed => RejectionsStand'
    /\ PredictionsStand /\ UNCHANGED <<predictions, batch, worker, broken, bars>> => PredictionsStand'
    /\ MissesStand /\ UNCHANGED <<misses, predictions, batch>> => MissesStand'
    /\ ReportStands /\ UNCHANGED <<spool, report, review, input>> => ReportStands'
<1>1. ForwardTypes /\ UNCHANGED <<time, spool, report, batch>> => ForwardTypes'
  BY Zenon DEF ForwardTypes, ReportShape, BatchShape
<1>2. UNCHANGED spool => LastReceipt' = LastReceipt
  BY DEF LastReceipt
<1>3. BarsAreReceived /\ UNCHANGED <<spool, bars>> /\ parsed' \subseteq parsed => BarsAreReceived'
  <2> SUFFICES ASSUME BarsAreReceived, UNCHANGED <<spool, bars>>, parsed' \subseteq parsed
               PROVE  BarsAreReceived'
    OBVIOUS
  <2>1. \A b \in bars \cup parsed : Received(b)'
    BY <1>2 DEF BarsAreReceived, Received
  <2> QED
    BY <2>1 DEF BarsAreReceived
<1>4. CasesStand /\ UNCHANGED <<cases, bars>> => CasesStand'
  BY DEF CasesStand
<1>5. RejectionsStand /\ UNCHANGED <<caseRejections, spool, bars>> /\ parsed' \subseteq parsed => RejectionsStand'
  <2> SUFFICES ASSUME RejectionsStand, UNCHANGED <<caseRejections, spool, bars>>, parsed' \subseteq parsed
               PROVE  RejectionsStand'
    OBVIOUS
  <2>1. ASSUME NEW c, Spoiled(c) PROVE Spoiled(c)'
    BY <1>2, <2>1 DEF Spoiled
  <2> QED
    BY <2>1 DEF RejectionsStand
<1>6. PredictionsStand /\ UNCHANGED <<predictions, batch, worker, broken, bars>> => PredictionsStand'
  BY DEF PredictionsStand, ContextStands
<1>7. MissesStand /\ UNCHANGED <<misses, predictions, batch>> => MissesStand'
  BY DEF MissesStand, PredictedAt
<1>8. ReportStands /\ UNCHANGED <<spool, report, review, input>> => ReportStands'
  BY Zenon DEF ReportStands, Confirmed, SampleIsReady
<1> QED
  BY <1>1, <1>3, <1>4, <1>5, <1>6, <1>7, <1>8

----------------------------------------------------------------------------
\* A log of responses that grows: what it said it still says, and its last one is the newest.
LEMMA SpoolGrows ==
    ASSUME ForwardTypes, NEW response \in Receipts, spool' = Append(spool, response)
    PROVE  /\ spool' \in Seq(Receipts) /\ LastReceipt' = response.at
           /\ DOMAIN spool' = DOMAIN spool \cup {Len(spool) + 1} /\ spool'[Len(spool) + 1] = response
           /\ \A i \in DOMAIN spool : spool'[i] = spool[i]
           /\ Len(spool) \in Nat /\ Len(spool') = Len(spool) + 1
           /\ \A n \in 0..Len(spool) : SubSeq(spool', 1, n) = SubSeq(spool, 1, n)
<1>1. spool \in Seq(Receipts)
  BY DEF ForwardTypes
<1>2. /\ spool' \in Seq(Receipts) /\ Len(spool) \in Nat
      /\ Len(spool') = Len(spool) + 1
      /\ DOMAIN spool' = DOMAIN spool \cup {Len(spool) + 1}
      /\ spool'[Len(spool) + 1] = response
      /\ \A i \in DOMAIN spool : spool'[i] = spool[i]
  BY <1>1, AppendedLog
<1>3. spool' # <<>>
  BY <1>2
<1>4. LastReceipt' = response.at
  BY <1>2, <1>3 DEF LastReceipt
<1>5. ASSUME NEW n \in 0..Len(spool) PROVE SubSeq(spool', 1, n) = SubSeq(spool, 1, n)
  <2>1. n + 1 \in 1..(Len(spool) + 1) /\ (n + 1) - 1 = n
    BY <1>2
  <2>2. SubSeq(Append(spool, response), 1, (n + 1) - 1) = SubSeq(spool, 1, (n + 1) - 1)
    BY <1>1, <2>1, EarlierLog
  <2> QED
    BY <2>1, <2>2
<1> QED
  BY <1>2, <1>4, <1>5

\* What the provider says has the shape of a response.
LEMMA KlinesAreRows ==
    ASSUME NEW generated \in Nat, NEW content \in {"final", "revised"}
    PROVE  Klines(generated, content) \in ResponseRows
<1> DEFINE open == (generated \div Interval + 1) * Interval
<1>1. open \in Nat /\ open - Interval \in Nat
  <2> DEFINE q == generated \div Interval
  <2>1. Interval \in Nat /\ Interval > 0
    BY ForwardAssumption
  <2>2. q \in Nat
    BY <2>1
  <2> HIDE DEF q
  <2>3. q * Interval \in Nat /\ (q + 1) * Interval = q * Interval + Interval
    BY <2>1, <2>2
  <2>4. open = q * Interval + Interval
    BY <2>3 DEF q
  <2> QED
    BY <2>1, <2>3, <2>4
<1> HIDE DEF open
<1>2. Klines(generated, content) = [e \in {open - Interval, open} |-> IF e = open THEN "partial" ELSE content]
  BY Zenon DEF Klines, open
<1>3. {open - Interval, open} \in SUBSET Nat
  BY <1>1
<1>4. Klines(generated, content) \in [{open - Interval, open} -> RowContents]
  BY <1>2 DEF RowContents
<1> QED
  BY <1>3, <1>4 DEF ResponseRows

\* A response: what is pending now was closed when it was received and is on the newest receipt,
\* and what was spoiled before is, because it comes too late for it.
LEMMA PollKeeps ==
    ASSUME ForwardInv, NEW lag \in 0..MaxLag, NEW content \in {"final", "revised"}, Poll(lag, content)
    PROVE  ForwardInv'
<1> DEFINE response == RawResponse(Klines(time - lag, content))
<1>1. /\ ForwardTypes /\ ReceiptsInOrder /\ BarsAreReceived /\ CasesStand /\ RejectionsStand
      /\ PredictionsStand /\ MissesStand /\ ReportStands
  BY DEF ForwardInv
<1>2. /\ poller = "polling" /\ poller' = "admitting" /\ spool' = Append(spool, response)
      /\ parsed' = Parsed(response)
      /\ UNCHANGED <<time, bars, healths, cases, caseRejections, sealed, closing, broken,
                     workerVars, reviewVars>>
  BY DEF Poll
<1>3. /\ UNCHANGED <<predictions, misses, worker, began, batch, inferenceFailed>>
      /\ UNCHANGED <<review, report, input>>
  BY <1>2 DEF workerVars, reviewVars
<1>4. time \in Nat /\ LastReceipt < time /\ parsed = {} /\ time - lag \in Nat
  <2>1. lag <= time /\ lag \in Nat
    BY ForwardAssumption DEF Poll
  <2> QED
    BY <1>1, <1>2, <2>1 DEF ForwardTypes, ReceiptsInOrder
<1>5. response = [at |-> time, rows |-> Klines(time - lag, content)] /\ Klines(time - lag, content) \in ResponseRows
  BY <1>4, KlinesAreRows DEF RawResponse
<1> HIDE DEF response
<1>6. response \in Receipts /\ response.at = time
  BY <1>4, <1>5 DEF Receipts
<1>7. /\ spool' \in Seq(Receipts) /\ LastReceipt' = time
      /\ DOMAIN spool' = DOMAIN spool \cup {Len(spool) + 1} /\ spool'[Len(spool) + 1] = response
      /\ \A i \in DOMAIN spool : spool'[i] = spool[i]
      /\ Len(spool) \in Nat /\ Len(spool') = Len(spool) + 1
      /\ \A n \in 0..Len(spool) : SubSeq(spool', 1, n) = SubSeq(spool, 1, n)
  BY <1>1, <1>2, <1>6, SpoolGrows
<1>8. ForwardTypes'
  BY <1>1, <1>2, <1>3, <1>7, Zenon DEF ForwardTypes, ReportShape, BatchShape
<1>9. ReceiptsInOrder'
  BY <1>1, <1>2, <1>4, <1>7 DEF ReceiptsInOrder
<1>10. LastReceipt \in Int
  <2>1. CASE spool = <<>>
    BY <2>1 DEF LastReceipt
  <2>2. CASE spool # <<>>
    <3>1. spool[Len(spool)] \in Receipts
      BY <1>1, <2>2 DEF ForwardTypes
    <3> QED
      BY <2>2, <3>1 DEF LastReceipt, Receipts
  <2> QED
    BY <2>1, <2>2
<1>11. \A b \in parsed' : Received(b)' /\ b.at = time
  <2> SUFFICES ASSUME NEW b \in Parsed(response) PROVE Received(b)' /\ b.at = time
    BY <1>2
  <2>1. PICK e \in DOMAIN response.rows : e <= response.at /\ b = Bar(e, response)
    BY DEF Parsed
  <2>2. b.end = e /\ b.content = response.rows[e] /\ b.at = time
    BY <1>6, <2>1 DEF Bar
  <2>3. e \in Nat
    BY <1>5, <2>1 DEF ResponseRows
  <2> QED
    BY <1>4, <1>6, <1>7, <2>1, <2>2, <2>3 DEF Received
<1>12. \A b \in bars : Received(b)'
  <2> SUFFICES ASSUME NEW b \in bars PROVE Received(b)'
    OBVIOUS
  <2>1. Received(b)
    BY <1>1 DEF BarsAreReceived
  <2>2. b.at <= LastReceipt'
    BY <1>4, <1>7, <1>10, <2>1 DEF Received
  <2> QED
    BY <1>7, <2>1, <2>2 DEF Received
<1>13. BarsAreReceived'
  BY <1>1, <1>2, <1>11, <1>12 DEF BarsAreReceived
<1>14. RejectionsStand'
  <2>1. ASSUME NEW c, Spoiled(c) PROVE Spoiled(c)'
    <3>1. c \in Int /\ c <= LastReceipt
      BY <2>1 DEF Spoiled
    <3>2. PICK e \in PastEnds(c) : \A b \in bars \cup parsed : b.end = e => b.at > c
      BY <2>1 DEF Spoiled
    <3>3. \A b \in bars' \cup parsed' : b.end = e => b.at > c
      BY <1>2, <1>4, <1>10, <1>11, <3>1, <3>2
    <3>4. c <= LastReceipt'
      BY <1>4, <1>7, <1>10, <3>1
    <3> QED
      BY <3>1, <3>2, <3>3, <3>4 DEF Spoiled
  <2> QED
    BY <1>1, <1>2, <2>1 DEF RejectionsStand
<1>15. CasesStand' /\ PredictionsStand' /\ MissesStand'
  BY <1>1, <1>2, <1>3, ForwardKept
<1>16. ReportStands'
  <2>1. Confirmed(report, spool)'
    <3>1. report.raw \in 0..Len(spool)
      BY <1>1 DEF ReportStands, Confirmed
    <3>2. SubSeq(spool', 1, report.raw) = SubSeq(spool, 1, report.raw)
      BY <1>7, <3>1
    <3>3. report.raw \in 0..Len(spool')
      BY <1>7, <3>1
    <3>4. \A c \in report.clean : \A b \in c.context \cup c.outcome : LastTwo(SubSeq(spool', 1, report.raw), b)
      BY <1>1, <3>2 DEF ReportStands, Confirmed
    <3>5. PICK rows : rows = spool'
      OBVIOUS
    <3>6. PICK r : r = report /\ r = report'
      BY <1>3
    <3>7. Confirmed(r, rows)
      BY <1>1, <3>3, <3>4, <3>5, <3>6 DEF ReportStands, Confirmed
    <3> QED
      BY <3>5, <3>6, <3>7
  <2>2. SampleIsReady(report)' <=> SampleIsReady(report)
    BY <1>3 DEF SampleIsReady
  <2> QED
    BY <1>1, <1>3, <2>1, <2>2, Zenon DEF ReportStands
<1> QED
  BY <1>8, <1>9, <1>13, <1>14, <1>15, <1>16 DEF ForwardInv

\* The oldest pending row is one of them.
LEMMA OldestIsPending ==
    ASSUME BarsAreReceived, parsed # {}
    PROVE  (CHOOSE b \in parsed : \A other \in parsed : b.end <= other.end) \in parsed
<1> DEFINE ends == {b.end : b \in parsed}
<1>1. ends \in SUBSET Nat /\ ends # {}
  BY DEF BarsAreReceived, Received
<1>2. PICK e \in ends : \A x \in ends : e <= x
  <2> HIDE DEF ends
  <2> QED
    BY <1>1, LeastNat
<1>3. \E b \in parsed : \A other \in parsed : b.end <= other.end
  BY <1>2
<1> QED
  BY <1>3

\* A row is admitted: the bars of other intervals, and what rests on them, stay as they are.
LEMMA AdmitKeeps ==
    ASSUME ForwardInv, AdmitBar
    PROVE  ForwardInv'
<1> DEFINE bar == CHOOSE b \in parsed : \A other \in parsed : b.end <= other.end
           prior == BarsAt(bars, {bar.end})
           conflict == \E b \in prior : b.content # bar.content
<1>1. /\ ForwardTypes /\ ReceiptsInOrder /\ BarsAreReceived /\ CasesStand /\ RejectionsStand
      /\ PredictionsStand /\ MissesStand /\ ReportStands
  BY DEF ForwardInv
<1>2. /\ poller = "admitting" /\ parsed # {}
      /\ bars' = (IF prior = {} THEN bars \cup {bar} ELSE bars)
      /\ parsed' = (IF conflict THEN {} ELSE parsed \ {bar})
      /\ poller' = (IF conflict THEN "refreshing" ELSE poller)
      /\ UNCHANGED <<time, spool, cases, caseRejections, sealed, closing, broken, workerVars,
                     reviewVars, slips>>
  BY DEF AdmitBar
<1>3. bar \in parsed
  BY <1>1, <1>2, OldestIsPending
<1> HIDE DEF bar, conflict
<1>4. /\ UNCHANGED <<predictions, misses, worker, began, batch, inferenceFailed>>
      /\ UNCHANGED <<review, report, input>>
  BY <1>2 DEF workerVars, reviewVars
<1>5. prior = {} => bar.end \notin EndsOf(bars)
  BY DEF BarsAt, EndsOf
<1>6. parsed' \subseteq parsed /\ bars' \cup parsed' \subseteq bars \cup parsed
  BY <1>2, <1>3
<1>7. LastReceipt' = LastReceipt
  BY <1>2 DEF LastReceipt
<1>8. ForwardTypes' /\ MissesStand' /\ ReportStands'
  BY <1>1, <1>2, <1>4, ForwardKept
<1>9. ReceiptsInOrder'
  BY <1>1, <1>2, <1>7 DEF ReceiptsInOrder
<1>10. BarsAreReceived'
  <2>1. \A b \in bars' \cup parsed' : Received(b)'
    BY <1>1, <1>2, <1>6, <1>7 DEF BarsAreReceived, Received
  <2>2. \A a, b \in bars' : a.end = b.end => a = b
    <3>1. CASE prior = {}
      BY <1>1, <1>2, <1>5, <3>1 DEF BarsAreReceived, EndsOf
    <3>2. CASE prior # {}
      BY <1>1, <1>2, <3>2 DEF BarsAreReceived
    <3> QED
      BY <3>1, <3>2
  <2> QED
    BY <2>1, <2>2 DEF BarsAreReceived
<1>11. CasesStand'
  <2> SUFFICES ASSUME NEW c \in cases
               PROVE  c = Case(bars', c.cutoff) /\ CaseVerdict(bars', c.cutoff) = "case"
    BY <1>1, <1>2 DEF CasesStand
  <2>1. c = Case(bars, c.cutoff) /\ CaseVerdict(bars, c.cutoff) = "case"
    BY <1>1 DEF CasesStand
  <2>2. CASE prior = {}
    BY <1>2, <1>5, <2>1, <2>2, CaseStays
  <2>3. CASE prior # {}
    BY <1>2, <2>1, <2>3
  <2> QED
    BY <2>2, <2>3
<1>12. RejectionsStand'
  <2>1. ASSUME NEW c, Spoiled(c) PROVE Spoiled(c)'
    BY <1>6, <1>7, <2>1 DEF Spoiled
  <2> QED
    BY <1>1, <1>2, <2>1 DEF RejectionsStand
<1>13. PredictionsStand'
  <2>1. ASSUME NEW c, NEW context, ContextStands(c, context) PROVE ContextStands(c, context)'
    <3>1. PastEnds(c) \subseteq EndsOf(bars)
      BY <2>1 DEF ContextStands, EndsOf, BarsAt
    <3>2. BarsAt(bars', PastEnds(c)) = BarsAt(bars, PastEnds(c))
      <4>1. CASE prior = {}
        BY <1>2, <1>5, <3>1, <4>1, BarsStay
      <4>2. CASE prior # {}
        BY <1>2, <4>2
      <4> QED
        BY <4>1, <4>2
    <3> QED
      BY <2>1, <3>2 DEF ContextStands
  <2> QED
    BY <1>1, <1>2, <1>4, <2>1 DEF PredictionsStand
<1> QED
  BY <1>8, <1>9, <1>10, <1>11, <1>12, <1>13 DEF ForwardInv

\* Cases are built from the bars of now; a rejection for the context names a bar that is not
\* there or came too late.
LEMMA RefreshKeeps ==
    ASSUME ForwardInv, Refresh
    PROVE  ForwardInv'
<1>1. /\ ForwardTypes /\ ReceiptsInOrder /\ BarsAreReceived /\ CasesStand /\ RejectionsStand
      /\ PredictionsStand /\ MissesStand /\ ReportStands
  BY DEF ForwardInv
<1>2. /\ poller = "refreshing" /\ poller' \in {"down", "sleeping"}
      /\ caseRejections' = caseRejections \cup RejectionsOf(bars)
      /\ cases' = cases \/ cases' = cases \cup CasesOf(bars)
      /\ UNCHANGED <<time, spool, bars, healths, parsed, broken, workerVars, reviewVars, slips>>
  BY DEF Refresh
<1>3. /\ UNCHANGED <<predictions, misses, worker, began, batch, inferenceFailed>>
      /\ UNCHANGED <<review, report, input>>
  BY <1>2 DEF workerVars, reviewVars
<1>4. LastReceipt' = LastReceipt /\ parsed = {}
  BY <1>1, <1>2 DEF LastReceipt, ReceiptsInOrder
<1>5. ForwardTypes' /\ BarsAreReceived' /\ PredictionsStand' /\ MissesStand' /\ ReportStands'
  BY <1>1, <1>2, <1>3, ForwardKept
<1>6. ReceiptsInOrder'
  BY <1>1, <1>2, <1>4 DEF ReceiptsInOrder
<1>7. CasesStand'
  <2>1. \A c \in CasesOf(bars) : c.cutoff \in CutoffsIn(bars) /\ c = Case(bars, c.cutoff)
                                 /\ CaseVerdict(bars, c.cutoff) = "case"
    BY DEF CasesOf, Case
  <2>2. \A e \in CutoffsIn(bars) : e \in Nat
    BY <1>1 DEF CutoffsIn, EndsOf, BarsAreReceived, Received
  <2> QED
    BY <1>1, <1>2, <2>1, <2>2 DEF CasesStand
<1>8. RejectionsStand'
  <2>1. ASSUME NEW r \in RejectionsOf(bars), r[2] # "missing_one_hour_outcome_bars" PROVE Spoiled(r[1])
    <3>1. PICK c \in CutoffsIn(bars) : CaseVerdict(bars, c) # "case" /\ r = <<c, CaseVerdict(bars, c)>>
      BY DEF RejectionsOf
    <3>2. PICK bar \in bars : bar.end = c
      BY DEF CutoffsIn, EndsOf
    <3>3. c \in Int /\ c <= LastReceipt
      <4>1. Received(bar)
        BY <1>1 DEF BarsAreReceived
      <4>2. LastReceipt \in Int
        <5>1. spool # <<>> => spool[Len(spool)] \in Receipts
          BY <1>1 DEF ForwardTypes
        <5> QED
          BY <5>1 DEF LastReceipt, Receipts
      <4> QED
        BY <3>2, <4>1, <4>2 DEF Received
    <3>4. \E e \in PastEnds(c) : \A b \in bars \cup parsed : b.end = e => b.at > c
      <4>1. CASE ~ (PastEnds(c) \subseteq EndsOf(bars))
        <5>1. PICK e \in PastEnds(c) : e \notin EndsOf(bars)
          BY <4>1
        <5> QED
          BY <1>4, <5>1 DEF EndsOf
      <4>2. CASE PastEnds(c) \subseteq EndsOf(bars)
        <5>1. CaseVerdict(bars, c) # "missing_one_hour_outcome_bars"
          BY <2>1, <3>1
        <5>2. OutcomeEnds(c) \subseteq EndsOf(bars)
          BY <4>2, <5>1 DEF CaseVerdict
        <5>3. PICK b \in BarsAt(bars, PastEnds(c)) : b.at > c
          BY <3>1, <4>2, <5>2, CaseMeans
        <5>4. b \in bars /\ b.end \in PastEnds(c)
          BY <5>3 DEF BarsAt
        <5>5. \A x \in bars \cup parsed : x.end = b.end => x.at > c
          BY <1>1, <1>4, <5>3, <5>4 DEF BarsAreReceived
        <5> QED
          BY <5>4, <5>5
      <4> QED
        BY <4>1, <4>2
    <3> QED
      BY <3>1, <3>3, <3>4 DEF Spoiled
  <2>2. \A c : Spoiled(c)' <=> Spoiled(c)
    BY <1>2, <1>4 DEF Spoiled
  <2> QED
    BY <1>1, <1>2, <2>1, <2>2 DEF RejectionsStand
<1> QED
  BY <1>5, <1>6, <1>7, <1>8 DEF ForwardInv

\* The other steps of the collector: only where it stands, what it has pending and the clock.
LEMMA CollectorKeeps ==
    ASSUME ForwardInv,
           \/ StartPoller \/ NoteHealthy \/ PollFails \/ WriteFinal \/ Tick
           \/ \E state \in {"deadline_reached", "stopped_with_evidence"} : LeaveLoop(state)
           \/ \E line \in Writing \cup {"none"} : CrashPoller(line)
    PROVE  ForwardInv'
<1>1. /\ ForwardTypes /\ ReceiptsInOrder /\ BarsAreReceived /\ CasesStand /\ RejectionsStand
      /\ PredictionsStand /\ MissesStand /\ ReportStands
  BY DEF ForwardInv
<1>2. /\ UNCHANGED <<spool, bars, cases, caseRejections, workerVars, reviewVars>>
      /\ parsed' = parsed \/ parsed' = {}
      /\ time' = time \/ time' = time + 1
  BY DEF StartPoller, NoteHealthy, PollFails, WriteFinal, Tick, LeaveLoop, CrashPoller
<1>3. /\ UNCHANGED <<predictions, misses, worker, began, batch, inferenceFailed>>
      /\ UNCHANGED <<review, report, input>>
  BY <1>2 DEF workerVars, reviewVars
<1>4. LastReceipt' = LastReceipt
  BY <1>2 DEF LastReceipt
<1>5. LastReceipt \in Int /\ time \in Nat
  <2>1. spool # <<>> => spool[Len(spool)] \in Receipts
    BY <1>1 DEF ForwardTypes
  <2> QED
    BY <1>1, <2>1 DEF LastReceipt, Receipts, ForwardTypes
<1>6. ReceiptsInOrder'
  <2>1. CASE StartPoller
    BY <1>1, <1>4, <2>1 DEF ReceiptsInOrder, StartPoller
  <2>2. CASE NoteHealthy \/ PollFails
    BY <1>1, <1>4, <2>2 DEF ReceiptsInOrder, NoteHealthy, PollFails
  <2>3. CASE WriteFinal
    BY <1>1, <1>4, <2>3 DEF ReceiptsInOrder, WriteFinal
  <2>4. CASE Tick
    BY <1>1, <1>4, <1>5, <2>4 DEF ReceiptsInOrder, Tick
  <2>5. CASE \E state \in {"deadline_reached", "stopped_with_evidence"} : LeaveLoop(state)
    BY <1>1, <1>4, <2>5 DEF ReceiptsInOrder, LeaveLoop
  <2>6. CASE \E line \in Writing \cup {"none"} : CrashPoller(line)
    BY <1>1, <1>4, <2>6 DEF ReceiptsInOrder, CrashPoller
  <2> QED
    BY <2>1, <2>2, <2>3, <2>4, <2>5, <2>6
<1>7. worker = "dead" => broken' = broken
  BY <1>1 DEF StartPoller, NoteHealthy, PollFails, WriteFinal, Tick, LeaveLoop, CrashPoller,
              PredictionsStand, ReceiptsInOrder
<1>8. PredictionsStand'
  <2>1. \A c, context : ContextStands(c, context)' <=> ContextStands(c, context)
    BY <1>2 DEF ContextStands
  <2> QED
    BY <1>1, <1>3, <1>7, <2>1 DEF PredictionsStand
<1>9. ForwardTypes'
  <2>1. time' \in Nat
    BY <1>2, <1>5
  <2> QED
    BY <1>1, <1>2, <1>3, <2>1, Zenon DEF ForwardTypes, ReportShape, BatchShape
<1>10. BarsAreReceived' /\ CasesStand' /\ RejectionsStand' /\ MissesStand' /\ ReportStands'
  BY <1>1, <1>2, <1>3, ForwardKept
<1> QED
  BY <1>6, <1>8, <1>9, <1>10 DEF ForwardInv

----------------------------------------------------------------------------
\* What the worker sees as context is what a prediction of that cutoff rested on.
LEMMA ContextIsSettled ==
    ASSUME BarsAreReceived, NEW c
    PROVE  /\ ContextFor(c) # {} => ContextStands(c, ContextFor(c))
           /\ \A context : ContextStands(c, context) => ContextFor(c) = context /\ context # {}
<1> DEFINE now == {b \in BarsAt(bars, PastEnds(c)) : b.at <= c}
<1>1. PastEnds(c) # {}
  <2>1. 1 \in 1..PastBars
    BY ForwardAssumption
  <2> QED
    BY <2>1 DEF PastEnds
<1>2. ContextFor(c) = IF EndsOf(now) = PastEnds(c) THEN now ELSE {}
  BY DEF ContextFor
<1>3. EndsOf(now) = PastEnds(c) => now = BarsAt(bars, PastEnds(c))
  BY DEF EndsOf, BarsAt, BarsAreReceived
<1>4. ContextFor(c) # {} => ContextStands(c, ContextFor(c))
  BY <1>2, <1>3 DEF ContextStands
<1>5. ASSUME NEW context, ContextStands(c, context) PROVE ContextFor(c) = context /\ context # {}
  <2>1. context = now /\ EndsOf(now) = PastEnds(c)
    BY <1>5 DEF ContextStands
  <2> HIDE DEF now
  <2> QED
    BY <1>1, <1>2, <2>1 DEF EndsOf
<1> QED
  BY <1>4, <1>5

\* The worker never finds its ledger contradicted.
LEMMA NeverContradicted ==
    ASSUME BarsAreReceived, PredictionsStand, NEW c
    PROVE  ~ Contradicted(c)
<1> SUFFICES ASSUME PredictedAt(c) # {} PROVE ContextFor(c) # {} /\ \A p \in PredictedAt(c) : p.context = ContextFor(c)
  BY DEF Contradicted
<1>1. \A p \in PredictedAt(c) : ContextStands(c, p.context)
  BY DEF PredictedAt, PredictionsStand
<1> QED
  BY <1>1, ContextIsSettled

\* What the worker's steps leave alone.
LEMMA WorkerFrame ==
    ASSUME ForwardInv, UNCHANGED <<time, collectorVars, reviewVars>>
    PROVE  /\ ReceiptsInOrder' /\ BarsAreReceived' /\ CasesStand' /\ RejectionsStand' /\ ReportStands'
           /\ UNCHANGED <<time, spool, bars, cases, parsed, broken, poller, report>>
           /\ \A c, context : ContextStands(c, context)' <=> ContextStands(c, context)
<1>1. /\ ReceiptsInOrder /\ BarsAreReceived /\ CasesStand /\ RejectionsStand /\ ReportStands
  BY DEF ForwardInv
<1>2. /\ UNCHANGED <<spool, bars, healths, cases, caseRejections, sealed, poller, parsed, closing, broken>>
      /\ UNCHANGED <<review, report, input>>
  BY DEF collectorVars, reviewVars
<1>3. LastReceipt' = LastReceipt
  BY <1>2 DEF LastReceipt
<1>4. ReceiptsInOrder'
  BY <1>1, <1>2, <1>3 DEF ReceiptsInOrder
<1>5. BarsAreReceived' /\ CasesStand' /\ RejectionsStand' /\ ReportStands'
  BY <1>1, <1>2, ForwardKept
<1> QED
  BY <1>2, <1>4, <1>5 DEF ContextStands

\* What a batch keeps, whatever its models and its outcome are.
LEMMA BatchTyped ==
    ASSUME NEW c, NEW at, NEW context, NEW m, NEW f \in BOOLEAN, NEW some, some = Batch(c, at, context, m, f)
    PROVE  some.failing \in BOOLEAN /\ some.cutoff = c /\ some.context = context /\ BatchShape(some)
<1>1. \A x : Batch(c, at, context, m, x).failing = x
  BY DEF Batch
<1>2. \A x : Batch(c, at, context, m, x).cutoff = c /\ Batch(c, at, context, m, x).context = context
  BY DEF Batch
<1>3. \A x : BatchShape(Batch(c, at, context, m, x))
  BY DEF Batch, BatchShape
<1>4. some.failing = f
  BY <1>1, Zenon
<1>5. some.failing \in BOOLEAN
  BY <1>4, Zenon
<1>6. some.cutoff = c /\ some.context = context
  BY <1>2, Zenon
<1>7. BatchShape(some)
  BY <1>3, Zenon
<1> QED
  BY <1>5, <1>6, <1>7

\* The worker's steps keep the invariant: a batch and its records carry the context of the look,
\* and a cutoff once recorded as missed is never looked at again.
LEMMA WorkerKeeps ==
    ASSUME ForwardInv,
           \/ StartWorker \/ LookMissed \/ LookPending \/ LookDies
           \/ \E tears \in BOOLEAN : CrashWorker(tears)
    PROVE  ForwardInv'
<1>1. ForwardTypes /\ BarsAreReceived /\ PredictionsStand /\ MissesStand
  BY DEF ForwardInv
<1>2. UNCHANGED <<time, collectorVars, reviewVars>>
  BY DEF StartWorker, LookMissed, LookPending, LookDies, CrashWorker
<1>3. /\ ReceiptsInOrder' /\ BarsAreReceived' /\ CasesStand' /\ RejectionsStand' /\ ReportStands'
      /\ UNCHANGED <<time, spool, bars, cases, parsed, broken, poller, report>>
      /\ \A c, context : ContextStands(c, context)' <=> ContextStands(c, context)
  BY <1>2, WorkerFrame
<1>4. ForwardTypes' /\ PredictionsStand' /\ MissesStand'
  <2>1. CASE StartWorker
    <3>1. worker' = "ready" /\ UNCHANGED <<predictions, misses, batch>>
      BY <2>1 DEF StartWorker
    <3>2. ForwardTypes' /\ MissesStand'
      BY <1>1, <1>3, <3>1, ForwardKept
    <3> QED
      BY <1>1, <1>3, <3>1, <3>2 DEF PredictionsStand
  <2>2. CASE LookMissed
    <3> DEFINE c == NextCutoff
    <3>1. /\ batch = Idle /\ {p.model : p \in PredictedAt(c)} # Baselines
          /\ misses' = misses \cup {<<c, MissReason(c)>>} /\ UNCHANGED <<predictions, worker, batch>>
      BY <2>2 DEF LookMissed, Looking
    <3> HIDE DEF c
    <3>2. ForwardTypes' /\ PredictionsStand'
      BY <1>1, <1>3, <3>1, ForwardKept
    <3>3. \A x : PredictedAt(x)' = PredictedAt(x)
      BY <3>1 DEF PredictedAt
    <3>4. MissesStand'
      BY <1>1, <3>1, <3>3 DEF MissesStand
    <3> QED
      BY <3>2, <3>4
  <2>3. CASE LookPending
    <3> DEFINE c == NextCutoff
    <3>1. PICK pending : batch' = Batch(c, time, ContextFor(c), pending, TRUE)
      BY <2>3 DEF LookPending
    <3>2. /\ ~ Missed(c) /\ ContextFor(c) # {} /\ UNCHANGED <<predictions, misses, worker>>
      BY <2>3 DEF LookPending
    <3> HIDE DEF c
    <3>4. /\ batch'.cutoff = c /\ batch'.context = ContextFor(c)
          /\ batch'.failing \in BOOLEAN /\ BatchShape(batch')
      <4>1. PICK g \in BOOLEAN : g = TRUE
        OBVIOUS
      <4>2. PICK some, d, at, context, m : /\ some = batch' /\ some = Batch(d, at, context, m, g)
                                           /\ d = c /\ context = ContextFor(c)
        BY <3>1, <4>1, Zenon
      <4>3. some.failing \in BOOLEAN /\ some.cutoff = d /\ some.context = context /\ BatchShape(some)
        BY <4>2, BatchTyped
      <4> QED
        BY <4>2, <4>3, Zenon
    <3>5. ForwardTypes'
      BY <1>1, <1>3, <3>4, Zenon DEF ForwardTypes, ReportShape, BatchShape
    <3>6. PredictionsStand'
      BY <1>1, <1>3, <3>2, <3>4, ContextIsSettled DEF PredictionsStand
    <3>7. MissesStand'
      BY <1>1, <3>2, <3>4 DEF MissesStand, Missed, PredictedAt
    <3> QED
      BY <3>5, <3>6, <3>7
  <2>4. CASE LookDies
    <3>1. broken = "bars" /\ UNCHANGED <<predictions, misses, batch>>
      BY <1>1, <2>4, NeverContradicted DEF LookDies
    <3>2. ForwardTypes' /\ MissesStand'
      BY <1>1, <1>3, <3>1, ForwardKept
    <3> QED
      BY <1>1, <1>3, <3>1, <3>2 DEF PredictionsStand
  <2>5. CASE \E tears \in BOOLEAN : CrashWorker(tears)
    <3>1. /\ batch' = Idle /\ worker' \in {"torn", "down"} /\ UNCHANGED <<predictions, misses>>
      BY <2>5 DEF CrashWorker
    <3>2. batch'.failing \in BOOLEAN /\ BatchShape(batch')
      BY <3>1, BatchTyped, Zenon DEF Idle
    <3>3. ForwardTypes'
      BY <1>1, <1>3, <3>2, Zenon DEF ForwardTypes, ReportShape, BatchShape
    <3>4. PredictionsStand'
      BY <1>1, <1>3, <3>1 DEF PredictionsStand
    <3>5. MissesStand'
      BY <1>1, <3>1 DEF MissesStand, PredictedAt
    <3> QED
      BY <3>3, <3>4, <3>5
  <2> QED
    BY <2>1, <2>2, <2>3, <2>4, <2>5
<1> QED
  BY <1>3, <1>4 DEF ForwardInv

\* The next model of a batch: its record is about the context of the look.
LEMMA PredictKeeps ==
    ASSUME ForwardInv, NEW fails \in BOOLEAN, PredictNext(fails)
    PROVE  ForwardInv'
<1> DEFINE model == Min(batch.models)
           f == batch.failing /\ fails
           left == Batch(batch.cutoff, batch.at, batch.context, batch.models \ {model}, f)
<1>1. ForwardTypes /\ BarsAreReceived /\ PredictionsStand /\ MissesStand
  BY DEF ForwardInv
<1>2. /\ UNCHANGED <<time, collectorVars, misses, worker, reviewVars>> /\ batch # Idle
      /\ predictions' = predictions \/ predictions' = predictions \cup {Prediction(batch, model)}
  BY DEF PredictNext
<1>3. batch' = Idle \/ batch' = left
  BY Zenon DEF PredictNext
<1>4. /\ ReceiptsInOrder' /\ BarsAreReceived' /\ CasesStand' /\ RejectionsStand' /\ ReportStands'
      /\ UNCHANGED <<time, spool, bars, cases, parsed, broken, poller, report>>
      /\ \A c, context : ContextStands(c, context)' <=> ContextStands(c, context)
  BY <1>2, WorkerFrame
<1>5. f \in BOOLEAN
  BY Zenon
<1>6. /\ left.failing \in BOOLEAN /\ left.cutoff = batch.cutoff /\ left.context = batch.context
      /\ BatchShape(left)
  <2>1. PICK g \in BOOLEAN : g = f
    BY <1>5
  <2>2. PICK some, c, at, context, m : /\ some = left /\ some = Batch(c, at, context, m, g)
                                       /\ c = batch.cutoff /\ context = batch.context
    BY <2>1, Zenon
  <2>3. some.failing \in BOOLEAN /\ some.cutoff = c /\ some.context = context /\ BatchShape(some)
    BY <2>2, BatchTyped
  <2> HIDE DEF left
  <2> QED
    BY <2>2, <2>3, Zenon
<1> HIDE DEF left, f, model
<1>9. ForwardTypes'
  <2>1. Idle.failing \in BOOLEAN /\ BatchShape(Idle)
    BY BatchTyped, Zenon DEF Idle
  <2> HIDE DEF Idle
  <2>2. batch'.failing \in BOOLEAN /\ BatchShape(batch')
    BY <1>3, <1>6, <2>1, Zenon
  <2> QED
    BY <1>1, <1>4, <2>2, Zenon DEF ForwardTypes, ReportShape, BatchShape
<1>10. batch' # Idle => batch'.cutoff = batch.cutoff /\ batch'.context = batch.context
  BY <1>3, <1>6
<1>11. Prediction(batch, model).cutoff = batch.cutoff /\ Prediction(batch, model).context = batch.context
  BY DEF Prediction
<1>12. PredictionsStand'
  BY <1>1, <1>2, <1>4, <1>10, <1>11 DEF PredictionsStand
<1>13. MissesStand'
  <2> SUFFICES ASSUME NEW m \in misses
               PROVE  /\ {p.model : p \in PredictedAt(m[1])'} # Baselines
                      /\ batch' # Idle => batch'.cutoff # m[1]
    BY <1>2 DEF MissesStand
  <2>1. batch.cutoff # m[1] /\ {p.model : p \in PredictedAt(m[1])} # Baselines
    BY <1>1, <1>2 DEF MissesStand
  <2>2. PredictedAt(m[1])' = PredictedAt(m[1])
    BY <1>2, <1>11, <2>1 DEF PredictedAt
  <2> QED
    BY <1>10, <2>1, <2>2
<1> QED
  BY <1>4, <1>9, <1>12, <1>13 DEF ForwardInv

----------------------------------------------------------------------------
\* A set of receipts with two members has one beside any of them.
LEMMA OneBeside ==
    ASSUME NEW S, IsFiniteSet(S), Cardinality(S) >= 2, NEW x \in S
    PROVE  \E y \in S : y # x
<1> SUFFICES ASSUME S = {x} PROVE FALSE
  OBVIOUS
<1>1. Cardinality({x}) = 1
  BY FS_Singleton
<1> QED
  BY <1>1

\* A bar the audit calls sound is confirmed by the last two closed receipts of its interval.
LEMMA SoundIsConfirmed ==
    ASSUME NEW rows \in Seq(Receipts), NEW file, NEW b \in file,
           BarVerdict(rows, file, b.end) \in {"STABLE", "REVISED_BUT_CANONICAL_FINAL"}
    PROVE  LastTwo(rows, b)
<1> DEFINE e == b.end
           seen == Closed(rows, e)
           tail == TerminalRun(rows, e)
           last == Max(seen)
           earlier == {i \in seen : i < last}
<1>1. seen \in SUBSET Nat /\ Len(rows) \in Nat /\ \A i \in seen : i <= Len(rows)
  BY DEF Closed, Seen
<1>2. IsFiniteSet(seen)
  <2>1. seen \subseteq 1..Len(rows)
    BY DEF Closed, Seen
  <2>2. IsFiniteSet(1..Len(rows))
    BY <1>1, FS_Interval
  <2> QED
    BY <2>1, <2>2, FS_Subset
<1>3. tail = {i \in seen : \A j \in seen : j >= i => rows[j].rows[e] = rows[last].rows[e]}
  BY DEF TerminalRun
<1>4. /\ ~ (Cardinality(tail) < 2) /\ \A x \in BarsAt(file, {e}) : x.content = rows[last].rows[e]
  BY DEF BarVerdict
<1>5. b.content = rows[last].rows[e]
  BY <1>4 DEF BarsAt
<1> HIDE DEF e, seen, tail
<1>6. IsFiniteSet(tail) /\ tail \subseteq seen
  BY <1>2, <1>3, FS_Subset
<1>7. Cardinality(tail) \in Nat /\ Cardinality(tail) >= 2
  BY <1>4, <1>6, FS_CardinalityType
<1> HIDE DEF last, earlier
<1>8. tail # {}
  <2>1. tail = {} => Cardinality(tail) = 0
    BY FS_EmptySet, Zenon
  <2> QED
    BY <1>7, <2>1
<1>9. last \in seen /\ \A i \in seen : i <= last
  BY <1>1, <1>2, <1>6, <1>8, MaxOfNats DEF last
<1>10. last \in tail
  BY <1>1, <1>3, <1>9
<1>11. PICK first \in tail : first # last
  BY <1>6, <1>7, <1>10, OneBeside
<1>12. first \in seen /\ first < last /\ first \in Nat /\ last \in Nat
  BY <1>1, <1>3, <1>9, <1>11
<1>13. earlier \in SUBSET Nat /\ earlier # {} /\ first \in earlier /\ \A i \in earlier : i <= last
  BY <1>1, <1>9, <1>12 DEF earlier
<1>14. Max(earlier) \in earlier /\ \A i \in earlier : i <= Max(earlier)
  BY <1>12, <1>13, MaxOfNats
<1>15. PICK i \in earlier : \A k \in earlier : k <= i
  BY <1>14
<1>16. i \in seen /\ i \in Nat /\ i < last /\ i >= first
  BY <1>13, <1>15 DEF earlier
<1>17. rows[i].rows[e] = rows[last].rows[e]
  BY <1>3, <1>11, <1>16
<1>18. \A k \in seen : k \in {i, last} \/ k < i
  <2> SUFFICES ASSUME NEW k \in seen, k # last PROVE k = i \/ k < i
    OBVIOUS
  <2>1. k \in earlier
    BY <1>1, <1>9, <1>12 DEF earlier
  <2> QED
    BY <1>1, <1>15, <1>16, <2>1
<1> QED
  BY <1>5, <1>9, <1>16, <1>17, <1>18 DEF LastTwo, e, seen

\* The audit's findings about the root of now.
LEMMA QualifyFinds ==
    ASSUME ForwardInv
    PROVE  \A c \in CleanCases : \A b \in c.context \cup c.outcome : LastTwo(spool, b)
<1> SUFFICES ASSUME NEW c \in CleanCases, NEW b \in c.context \cup c.outcome PROVE LastTwo(spool, b)
  OBVIOUS
<1>1. c \in cases /\ BarVerdict(spool, bars, b.end) \in {"STABLE", "REVISED_BUT_CANONICAL_FINAL"}
  BY DEF CleanCases, Sound
<1>2. c = Case(bars, c.cutoff)
  BY <1>1 DEF ForwardInv, CasesStand
<1>3. c.context = BarsAt(bars, PastEnds(c.cutoff)) /\ c.outcome = BarsAt(bars, OutcomeEnds(c.cutoff))
  BY <1>2 DEF Case
<1>4. b \in bars
  BY <1>3, PartsAreBars
<1>5. spool \in Seq(Receipts)
  BY DEF ForwardInv, ForwardTypes
<1> QED
  BY <1>1, <1>4, <1>5, SoundIsConfirmed

\* What the workflow's steps leave alone.
LEMMA ReviewFrame ==
    ASSUME ForwardInv, UNCHANGED <<time, collectorVars, workerVars>>
    PROVE  /\ ReceiptsInOrder' /\ BarsAreReceived' /\ CasesStand' /\ RejectionsStand'
           /\ PredictionsStand' /\ MissesStand' /\ UNCHANGED <<time, spool, cases, predictions, batch>>
<1>1. /\ ReceiptsInOrder /\ BarsAreReceived /\ CasesStand /\ RejectionsStand /\ PredictionsStand /\ MissesStand
  BY DEF ForwardInv
<1>2. /\ UNCHANGED <<spool, bars, healths, cases, caseRejections, sealed, poller, parsed, closing, broken>>
      /\ UNCHANGED <<predictions, misses, worker, began, batch, inferenceFailed>>
  BY DEF collectorVars, workerVars
<1>3. LastReceipt' = LastReceipt
  BY <1>2 DEF LastReceipt
<1>4. ReceiptsInOrder'
  BY <1>1, <1>2, <1>3 DEF ReceiptsInOrder
<1>5. BarsAreReceived' /\ CasesStand' /\ RejectionsStand' /\ PredictionsStand' /\ MissesStand'
  BY <1>1, <1>2, ForwardKept
<1> QED
  BY <1>2, <1>4, <1>5

\* The audit reads the root; what it reports holds of what it read.
LEMMA QualifyKeeps ==
    ASSUME ForwardInv, Qualify
    PROVE  ForwardInv'
<1> DEFINE ok == /\ sealed = "target_reached" /\ EverySeenIsNormalized
                 /\ PredictionsAgree
                 /\ Cardinality(CleanCases) >= MinimumCases
<1>1. ForwardTypes /\ ReportStands
  BY DEF ForwardInv
<1>2. UNCHANGED <<time, collectorVars, workerVars, input, slips>> /\ review = "none"
  BY DEF Qualify
<1>3. /\ ReceiptsInOrder' /\ BarsAreReceived' /\ CasesStand' /\ RejectionsStand'
      /\ PredictionsStand' /\ MissesStand' /\ UNCHANGED <<time, spool, cases, predictions, batch>>
  BY <1>2, ReviewFrame
<1>4. CASE review' = "refused" /\ UNCHANGED report
  <2>1. ForwardTypes'
    BY <1>1, <1>3, <1>4, ForwardKept
  <2>2. ReportStands'
    BY <1>1, <1>2, <1>3, <1>4, Zenon DEF ReportStands, Confirmed, SampleIsReady
  <2> QED
    BY <1>3, <2>1, <2>2 DEF ForwardInv
<1>5. CASE /\ review' = "read"
           /\ report' = [raw |-> Len(spool), bars |-> bars, cases |-> cases, predictions |-> predictions,
                         clean |-> CleanCases, ready |-> ok, hashed |-> NoReport.hashed]
  <2>1. ok \in BOOLEAN
    BY Zenon
  <2> HIDE DEF ok
  <2>4. PICK r : r = report'
    OBVIOUS
  <2>5. /\ r.raw = Len(spool) /\ r.cases = cases /\ r.predictions = predictions
        /\ r.clean = CleanCases /\ r.ready = ok /\ ReportShape(r)
    <3>1. r = [raw |-> Len(spool), bars |-> bars, cases |-> cases, predictions |-> predictions,
               clean |-> CleanCases, ready |-> ok, hashed |-> NoReport.hashed]
      BY <1>5, <2>4
    <3> QED
      BY <3>1, Zenon DEF ReportShape
  <2>6. ForwardTypes'
    BY <1>1, <1>3, <2>1, <2>4, <2>5, Zenon DEF ForwardTypes, ReportShape, BatchShape
  <2>7. spool \in Seq(Receipts) /\ Len(spool) \in Nat
    BY <1>1 DEF ForwardTypes
  <2>8. SubSeq(spool, 1, Len(spool)) = spool
    BY <2>7, WholeLog
  <2>9. Confirmed(r, spool)
    <3>1. r.raw \in 0..Len(spool)
      BY <2>5, <2>7
    <3>2. r.clean \subseteq r.cases
      BY <2>5 DEF CleanCases
    <3>3. \A c \in CleanCases : \A b \in c.context \cup c.outcome : LastTwo(SubSeq(spool, 1, Len(spool)), b)
      BY <2>8, QualifyFinds, Zenon
    <3> QED
      BY <2>5, <3>1, <3>2, <3>3, Zenon DEF Confirmed
  <2>10. r.ready => SampleIsReady(r)
    <3>1. ok => /\ Cardinality(CleanCases) >= MinimumCases
                /\ \A p \in predictions : p.at <= p.cutoff /\ \E c \in cases : c.cutoff = p.cutoff
      BY DEF ok, PredictionsAgree
    <3> QED
      BY <2>5, <3>1, Zenon DEF SampleIsReady
  <2>11. ReportStands'
    <3>1. PICK rows : rows = spool /\ rows = spool'
      BY <1>3
    <3>2. Confirmed(r, rows)
      BY <2>9, <3>1
    <3>3. input' = {}
      BY <1>1, <1>2 DEF ReportStands
    <3> QED
      BY <1>5, <2>4, <2>10, <3>1, <3>2, <3>3, Zenon DEF ReportStands
  <2> QED
    BY <1>3, <2>6, <2>11 DEF ForwardInv
<1> QED
  BY <1>4, <1>5, Zenon DEF Qualify

\* Hashing the files changes nothing else of a report.
LEMMA HashedReport ==
    ASSUME NEW r, ReportShape(r), NEW h, NEW s, s = [r EXCEPT !.hashed = h]
    PROVE  /\ s.raw = r.raw /\ s.cases = r.cases /\ s.predictions = r.predictions
           /\ s.clean = r.clean /\ s.ready = r.ready /\ ReportShape(s)
BY DEF ReportShape

\* The files are hashed after they were read: what was found about them still holds.
LEMMA HashKeeps ==
    ASSUME ForwardInv, HashInputs
    PROVE  ForwardInv'
<1>1. ForwardTypes /\ ReportStands
  BY DEF ForwardInv
<1>2. /\ UNCHANGED <<time, collectorVars, workerVars, input>> /\ review = "read"
      /\ report' = [report EXCEPT !.hashed = Fingerprint]
      /\ review' \in {"audited", "not_ready"} /\ (review' = "audited" => report.ready)
  BY Zenon DEF HashInputs
<1>3. /\ ReceiptsInOrder' /\ BarsAreReceived' /\ CasesStand' /\ RejectionsStand'
      /\ PredictionsStand' /\ MissesStand' /\ UNCHANGED <<time, spool, cases, predictions, batch>>
  BY <1>2, ReviewFrame
<1>4. PICK r, s, h, rows : /\ r = report /\ s = report' /\ h = Fingerprint /\ rows = spool /\ rows = spool'
                           /\ s = [r EXCEPT !.hashed = h] /\ ReportShape(r)
  BY <1>1, <1>2, <1>3, Zenon DEF ForwardTypes
<1>5. /\ s.raw = r.raw /\ s.cases = r.cases /\ s.predictions = r.predictions
      /\ s.clean = r.clean /\ s.ready = r.ready /\ ReportShape(s)
  BY <1>4, HashedReport
<1>6. ForwardTypes'
  BY <1>1, <1>3, <1>4, <1>5, Zenon DEF ForwardTypes, ReportShape
<1>7. Confirmed(s, rows)
  <2>1. Confirmed(r, rows)
    BY <1>1, <1>4, Zenon DEF ReportStands
  <2> QED
    BY <1>5, <2>1, Zenon DEF Confirmed
<1>8. s.ready => SampleIsReady(s)
  <2>1. r.ready => SampleIsReady(r)
    BY <1>1, <1>4, Zenon DEF ReportStands
  <2> QED
    BY <1>5, <2>1, Zenon DEF SampleIsReady
<1>9. review' = "audited" => s.ready
  BY <1>2, <1>4, <1>5, Zenon
<1>10. input' = {} /\ review' # "materialized"
  BY <1>1, <1>2 DEF ReportStands
<1>11. ReportStands'
  BY <1>4, <1>7, <1>8, <1>9, <1>10, Zenon DEF ReportStands
<1> QED
  BY <1>3, <1>6, <1>11 DEF ForwardInv

\* The input is the clean cases of the report.
LEMMA MaterializeKeeps ==
    ASSUME ForwardInv, NEW pass \in BOOLEAN, Materialize(pass)
    PROVE  ForwardInv'
<1>1. ForwardTypes /\ ReportStands
  BY DEF ForwardInv
<1>2. /\ UNCHANGED <<time, collectorVars, workerVars, report>> /\ review = "audited"
      /\ \/ review' \in {"not_ready", "refused"} /\ input' = input
         \/ /\ review' = "materialized" /\ input' = cases \cap report.clean /\ cases = report.cases
  BY DEF Materialize
<1>3. /\ ReceiptsInOrder' /\ BarsAreReceived' /\ CasesStand' /\ RejectionsStand'
      /\ PredictionsStand' /\ MissesStand' /\ UNCHANGED <<time, spool, cases, predictions, batch>>
  BY <1>2, ReviewFrame
<1>4. ForwardTypes'
  BY <1>1, <1>2, <1>3, ForwardKept
<1>5. input = {} /\ report.ready /\ Confirmed(report, spool) /\ (report.ready => SampleIsReady(report))
  BY <1>1, <1>2, Zenon DEF ReportStands
<1>6. PICK r, rows : r = report /\ r = report' /\ rows = spool /\ rows = spool'
  BY <1>2, <1>3
<1>7. r.ready /\ Confirmed(r, rows) /\ SampleIsReady(r)
  BY <1>5, <1>6, Zenon
<1>8. review' = "materialized" => input' = r.clean
  <2>1. r.clean \subseteq r.cases
    BY <1>7 DEF Confirmed
  <2> QED
    BY <1>2, <1>6, <2>1
<1>9. review' # "audited" /\ (review' # "materialized" => input' = {})
  BY <1>2, <1>5
<1>10. ReportStands'
  BY <1>6, <1>7, <1>8, <1>9, Zenon DEF ReportStands
<1> QED
  BY <1>3, <1>4, <1>10 DEF ForwardInv

LEMMA InitForward == ForwardInit => ForwardInv
<1> SUFFICES ASSUME ForwardInit PROVE ForwardInv
  OBVIOUS
<1>1. /\ time = Interval /\ spool = <<>> /\ bars = {} /\ cases = {} /\ caseRejections = {}
      /\ poller = "polling" /\ parsed = {} /\ broken = "none" /\ predictions = {} /\ misses = {}
      /\ worker = "ready" /\ batch = Idle /\ review = "none" /\ report = NoReport /\ input = {}
  BY DEF ForwardInit
<1>2. Interval \in Nat \ {0}
  BY ForwardAssumption
<1>3. ForwardTypes
  <2>1. batch.failing \in BOOLEAN /\ BatchShape(batch)
    BY <1>1 DEF Idle, Batch, BatchShape
  <2>2. report.ready \in BOOLEAN /\ ReportShape(report)
    BY <1>1 DEF NoReport, ReportShape
  <2>3. time \in Nat /\ spool \in Seq(Receipts)
    BY <1>1, <1>2
  <2> QED
    BY <2>1, <2>2, <2>3 DEF ForwardTypes
<1>4. ReceiptsInOrder
  BY <1>1, <1>2 DEF ReceiptsInOrder, LastReceipt
<1>5. BarsAreReceived /\ CasesStand /\ RejectionsStand /\ PredictionsStand /\ MissesStand
  BY <1>1 DEF BarsAreReceived, CasesStand, RejectionsStand, PredictionsStand, MissesStand
<1>6. ReportStands
  <2>1. report.raw = 0 /\ report.clean = {} /\ report.cases = {} /\ ~ report.ready
    BY <1>1 DEF NoReport
  <2>2. Len(spool) = 0
    BY <1>1
  <2>3. Confirmed(report, spool)
    BY <2>1, <2>2 DEF Confirmed
  <2> QED
    BY <1>1, <2>1, <2>3 DEF ReportStands
<1> QED
  BY <1>3, <1>4, <1>5, <1>6 DEF ForwardInv

LEMMA NextForward == ForwardInv /\ [ForwardNext]_forwardVars => ForwardInv'
<1> SUFFICES ASSUME ForwardInv, [ForwardNext]_forwardVars PROVE ForwardInv'
  OBVIOUS
<1>1. CASE \/ StartPoller \/ NoteHealthy \/ PollFails \/ WriteFinal \/ Tick
           \/ \E state \in {"deadline_reached", "stopped_with_evidence"} : LeaveLoop(state)
           \/ \E line \in Writing \cup {"none"} : CrashPoller(line)
  BY <1>1, CollectorKeeps
<1>2. CASE \E lag \in 0..MaxLag, content \in {"final", "revised"} : Poll(lag, content)
  BY <1>2, PollKeeps
<1>3. CASE AdmitBar
  BY <1>3, AdmitKeeps
<1>4. CASE Refresh
  BY <1>4, RefreshKeeps
<1>5. CASE \/ StartWorker \/ LookMissed \/ LookPending \/ LookDies
           \/ \E tears \in BOOLEAN : CrashWorker(tears)
  BY <1>5, WorkerKeeps
<1>6. CASE \E fails \in BOOLEAN : PredictNext(fails)
  BY <1>6, PredictKeeps
<1>7. CASE Qualify
  BY <1>7, QualifyKeeps
<1>8. CASE HashInputs
  BY <1>8, HashKeeps
<1>9. CASE \E pass \in BOOLEAN : Materialize(pass)
  BY <1>9, MaterializeKeeps
<1>10. CASE UNCHANGED forwardVars
  <2>1. UNCHANGED <<time, collectorVars, workerVars, reviewVars>>
    BY <1>10 DEF forwardVars
  <2>2. /\ ReceiptsInOrder' /\ BarsAreReceived' /\ CasesStand' /\ RejectionsStand'
        /\ PredictionsStand' /\ MissesStand' /\ UNCHANGED <<time, spool, cases, predictions, batch>>
    BY <2>1, ReviewFrame
  <2>3. ForwardTypes /\ ReportStands /\ UNCHANGED <<report, review, input>>
    BY <2>1 DEF ForwardInv, reviewVars
  <2>4. ForwardTypes' /\ ReportStands'
    BY <2>2, <2>3, ForwardKept
  <2> QED
    BY <2>2, <2>4 DEF ForwardInv
<1> QED
  BY <1>1, <1>2, <1>3, <1>4, <1>5, <1>6, <1>7, <1>8, <1>9, <1>10 DEF ForwardNext

\* What the invariant says of the collector's and the worker's files.
LEMMA FilesAgree == ForwardInv => EvidenceAgrees
<1> SUFFICES ASSUME ForwardInv PROVE EvidenceAgrees
  OBVIOUS
<1>1. BarsAreReceived /\ CasesStand /\ RejectionsStand /\ PredictionsStand /\ MissesStand
  BY DEF ForwardInv
<1>2. ASSUME NEW c \in cases
      PROVE  /\ \A b \in c.context : b.at <= c.cutoff
             /\ \A b \in c.context \cup c.outcome :
                 \E i \in DOMAIN spool : spool[i].at = b.at /\ b.end \in DOMAIN spool[i].rows
                                         /\ spool[i].rows[b.end] = b.content
             /\ \A p \in predictions : p.cutoff = c.cutoff => p.context = c.context
             /\ \A r \in caseRejections : r[1] = c.cutoff => r[2] = "missing_one_hour_outcome_bars"
  <2>1. c.cutoff \in Nat /\ c = Case(bars, c.cutoff) /\ CaseVerdict(bars, c.cutoff) = "case"
    BY <1>1, <1>2 DEF CasesStand
  <2>2. c.context = BarsAt(bars, PastEnds(c.cutoff)) /\ c.outcome = BarsAt(bars, OutcomeEnds(c.cutoff))
    BY <2>1 DEF Case
  <2>3. /\ PastEnds(c.cutoff) \subseteq EndsOf(bars)
        /\ \A b \in BarsAt(bars, PastEnds(c.cutoff)) : ~ (b.at > c.cutoff)
    BY <2>1, CaseMeans
  <2>4. c.context \subseteq bars /\ c.outcome \subseteq bars
    BY <2>2, PartsAreBars
  <2>5. \A b \in c.context : b.at <= c.cutoff
    BY <1>1, <2>1, <2>2, <2>3, <2>4 DEF BarsAreReceived, Received
  <2>6. \A b \in c.context \cup c.outcome :
            \E i \in DOMAIN spool : spool[i].at = b.at /\ b.end \in DOMAIN spool[i].rows
                                    /\ spool[i].rows[b.end] = b.content
    BY <1>1, <2>4 DEF BarsAreReceived, Received
  <2>7. \A p \in predictions : p.cutoff = c.cutoff => p.context = c.context
    BY <1>1, <2>2 DEF PredictionsStand, ContextStands
  <2>8. ASSUME Spoiled(c.cutoff) PROVE FALSE
    <3>1. PICK e \in PastEnds(c.cutoff) : \A b \in bars \cup parsed : b.end = e => b.at > c.cutoff
      BY <2>8 DEF Spoiled
    <3>2. PICK b \in bars : b.end = e
      BY <2>3 DEF EndsOf
    <3>3. b \in BarsAt(bars, PastEnds(c.cutoff))
      BY <3>2 DEF BarsAt
    <3> QED
      BY <2>3, <3>1, <3>2, <3>3
  <2>9. \A r \in caseRejections : r[1] = c.cutoff => r[2] = "missing_one_hour_outcome_bars"
    BY <1>1, <2>8 DEF RejectionsStand
  <2> QED
    BY <2>5, <2>6, <2>7, <2>9
<1>3. worker = "dead" => broken = "bars"
  BY <1>1 DEF PredictionsStand
<1>4. \A m \in misses : {p.model : p \in {q \in predictions : q.cutoff = m[1]}} # Baselines
  BY <1>1 DEF MissesStand, PredictedAt
<1> QED
  BY <1>2, <1>3, <1>4 DEF EvidenceAgrees

\* What it says of the evaluation input.
LEMMA InputFollows == ForwardInv => InputIsClean
<1> SUFFICES ASSUME ForwardInv PROVE InputIsClean
  OBVIOUS
<1>1. ReportStands
  BY DEF ForwardInv
<1>2. CASE input = {}
  BY <1>2 DEF InputIsClean
<1>3. CASE input # {}
  <2>1. report.ready /\ input = report.clean
    BY <1>1, <1>3, Zenon DEF ReportStands
  <2>2. Confirmed(report, spool) /\ SampleIsReady(report)
    BY <1>1, <2>1, Zenon DEF ReportStands
  <2>3. \A b \in UNION {c.context \cup c.outcome : c \in input} : LastTwo(SubSeq(spool, 1, report.raw), b)
    BY <2>1, <2>2 DEF Confirmed
  <2> QED
    BY <2>1, <2>2, <2>3, Zenon DEF InputIsClean, LastTwo, SampleIsReady
<1> QED
  BY <1>2, <1>3

\* The evidence chain of the forward root holds, for every interval, context length and roster:
\* a case and the predictions of its cutoff rest on the same bars, received in time and on
\* file; a rejected cutoff stays rejected; a resumed worker never finds its ledger
\* contradicted; and the evaluation input is what two receipts in a row confirmed.
THEOREM ForwardEvidenceTheorem == ForwardSpec => []ForwardEvidenceHolds
<1>1. ForwardInv => ForwardEvidenceHolds
  BY FilesAgree, InputFollows DEF ForwardEvidenceHolds
<1> QED
  BY InitForward, NextForward, <1>1, PTL DEF ForwardSpec
=============================================================================
