---------------------------- MODULE DurableFlow ----------------------------
(***************************************************************************)
(* DurableFlow.run: a task tried up to max_retries + 1 times, each step    *)
(* with a row in the MISSION ledger.  Whatever raises inside the try, the  *)
(* task after it took effect or the ledger at the row of a success, makes  *)
(* run repeat the task; a ledger that raises anywhere else ends run with   *)
(* the error.                                                              *)
(***************************************************************************)
EXTENDS Naturals, FiniteSets

CONSTANTS MaxRetries, MaxFlowFaults  \* the latter bounds rows that raise and deaths

ASSUME FlowAssumption == MaxRetries \in Nat /\ MaxFlowFaults \in Nat

VARIABLES
    flow,      \* [pc, attempt]: where run is
    flowRows,  \* the rows: [event, attempt]
    done,      \* the attempts in which the task took effect
    finished,  \* the attempts in which the task returned
    returned,  \* what run gave its caller: none, succeeded, failed or raised
    flowFaults

flowVars == <<flow, flowRows, done, finished, returned, flowFaults>>

FlowEvents == {"flow_pending", "flow_running", "flow_succeeded", "flow_retrying", "flow_failed"}

FlowInit ==
    /\ flow = [pc |-> "flow_pending", attempt |-> 0]
    /\ flowRows = {} /\ done = {} /\ finished = {} /\ returned = "none" /\ flowFaults = 0

FlowFault == flowFaults < MaxFlowFaults /\ flowFaults' = flowFaults + 1
FlowRow(event) == flowRows' = flowRows \cup {[event |-> event, attempt |-> flow.attempt]}

\* The row was written: what run does next.
AfterRow ==
    CASE flow.pc = "flow_pending" -> [pc |-> "flow_running", attempt |-> 1]
      [] flow.pc = "flow_running" -> [flow EXCEPT !.pc = "task"]
      [] flow.pc = "flow_retrying" ->
            IF flow.attempt <= MaxRetries THEN [pc |-> "flow_running", attempt |-> flow.attempt + 1]
            ELSE [flow EXCEPT !.pc = "flow_failed"]
      [] flow.pc = "flow_succeeded" -> [flow EXCEPT !.pc = "succeeded"]
      [] flow.pc = "flow_failed" -> [flow EXCEPT !.pc = "failed"]

FlowWrites ==
    /\ flow.pc \in FlowEvents
    /\ FlowRow(flow.pc) /\ flow' = AfterRow
    /\ UNCHANGED <<done, finished, returned, flowFaults>>

\* The answer follows the row; a process that dies between them leaves a row without one.
FlowReturns ==
    /\ flow.pc \in {"succeeded", "failed"}
    /\ returned' = flow.pc /\ flow' = [flow EXCEPT !.pc = "end"]
    /\ UNCHANGED <<flowRows, done, finished, flowFaults>>

\* A plausible slip: a success whose row raised is returned all the same.
SwallowRow == [pc |-> "end", to |-> "succeeded"]

\* Where an append that raises leads: into the handler, or out of run.
RaisedRow == IF flow.pc = "flow_succeeded" THEN [pc |-> "flow_retrying", to |-> "none"]
             ELSE [pc |-> "end", to |-> "raised"]

FlowRowRaises ==
    /\ flow.pc \in FlowEvents /\ FlowFault
    /\ flow' = [flow EXCEPT !.pc = RaisedRow.pc] /\ returned' = RaisedRow.to
    /\ UNCHANGED <<flowRows, done, finished>>

\* The task returns, or raises before or after it took effect.
FlowTask ==
    /\ flow.pc = "task"
    /\ \/ /\ flow' = [flow EXCEPT !.pc = "flow_succeeded"]
          /\ done' = done \cup {flow.attempt} /\ finished' = finished \cup {flow.attempt}
       \/ /\ flow' = [flow EXCEPT !.pc = "flow_retrying"]
          /\ done' \in {done, done \cup {flow.attempt}} /\ UNCHANGED finished
    /\ UNCHANGED <<flowRows, returned, flowFaults>>

\* Nothing resumes a flow whose process died.
FlowDies ==
    /\ flow.pc # "end" /\ FlowFault
    /\ flow' = [flow EXCEPT !.pc = "end"]
    /\ UNCHANGED <<flowRows, done, finished, returned>>

FlowNext == FlowWrites \/ FlowReturns \/ FlowRowRaises \/ FlowTask \/ FlowDies

FlowSpec == FlowInit /\ [][FlowNext]_flowVars

---------------------------------------------------------------------------
\* The attempts whose success has its row.
SuccessRows == {r.attempt : r \in {q \in flowRows : q.event = "flow_succeeded"}}

\* A success is final for its caller and for the ledger, and what may happen twice is known.
\* - succeeded is returned only with a durable row of a task that returned, which is the
\*   last thing in the ledger; such a row is never followed by another answer, and
\*   remains without one only if the process dies right behind it.
\* - a task runs again after it took effect only behind the row of a retry: because it
\*   raised, or because the row of its success did.
\* - every return of the task without a row, also in a flow that fails, was paid for
\*   with one row that raised or one death.
FlowRowsAreTrue ==
    /\ returned = "succeeded" => SuccessRows # {}
    /\ \A a \in SuccessRows :
          /\ a \in finished
          /\ \A q \in flowRows : q.attempt <= a /\ q.event # "flow_failed"
          /\ returned \in {"succeeded", "none"}
          /\ returned = "none" => flow.pc = "succeeded" \/ flowFaults > 0
    /\ \A a \in done : \A r \in flowRows :
          r.attempt > a => a \notin SuccessRows /\ [event |-> "flow_retrying", attempt |-> a] \in flowRows
    /\ flow.pc # "flow_succeeded" => Cardinality(finished \ SuccessRows) <= flowFaults
=============================================================================
