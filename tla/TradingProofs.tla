--------------------------- MODULE TradingProofs ----------------------------
(***************************************************************************)
(* Proofs about the supervised order at its venue, the risk book, the      *)
(* qualification of a model runtime, the account ledger and the isolated   *)
(* task: an order reaches the venue once, the report of its run is true, a *)
(* fresh fill keeps the limits of the account, a target is reduced or      *)
(* rejected for cause, what is recorded as measured was measured, the      *)
(* books of an account balance and a ledger written by one process replays *)
(* to it, and the verdict on an isolated task is true of it.               *)
(***************************************************************************)
EXTENDS Hermes, Account, Venue, RiskBook, RuntimeQualification, SharedLemmas,
        SequenceTheorems, TLAPS

(* The supervised order *)

Statuses == OpenStatus \cup TerminalStatus \cup {"none"}
OrderStates == {"ROUTED", "ACKNOWLEDGED", "PARTIALLY_FILLED", "FILLED", "CANCEL_PENDING",
                "CANCELLED", "REJECTED", "RECONCILED"}
JobPcs == Requests \cup Ended \cup {"decide", "close", "crashed"}
VenueRecs == [queued : Nat, arrived : Nat, fills : 0..Quantity, status : Statuses]
OrderRecs == [state : OrderStates, fills : 0..Quantity, cancelRow : BOOLEAN]
JobRecs == [pc : JobPcs, tries : 0..MaxRetries, answer : Answers, got : 0..Quantity,
            known : BOOLEAN, late : BOOLEAN, submits : 0..1, cancels : 0..1]
HttpRecs == [fails : 0..FailureThreshold, open : BOOLEAN]

\* The breaker counts below its threshold while it is closed.
VenueTypes ==
    /\ provider \in Providers /\ http \in HttpRecs /\ (http.open \/ http.fails < FailureThreshold)
    /\ venue \in VenueRecs /\ order \in OrderRecs /\ job \in JobRecs

\* The venue's own books: filled is fully traded, and what never arrived never traded.
VenueTruth ==
    /\ venue.status = "FILLED" <=> venue.fills = Quantity
    /\ venue.status = "none" => venue.fills = 0

\* A terminal answer stays true, and fills read are fills that happened.
AnswersHold ==
    /\ job.answer \in TerminalStatus => venue.status = job.answer
    /\ job.got <= venue.fills

\* The order manager closes an order only after the venue did.
Closing == {"FILLED", "CANCELLED", "REJECTED", "RECONCILED"}
ClosedAtVenue == order.state \in Closing => venue.status \in TerminalStatus

\* The closing checks are about a reconciled order, whose fills no longer change.
Checks == {"final_open", "account", "restart", "passed"}
ChecksHold ==
    /\ job.pc \in Checks => order.state = "RECONCILED"
    /\ job.pc = "account" /\ job.answer \notin {"none", "error"} => job.got = venue.fills
    /\ job.pc \in {"restart", "passed"} => order.fills = venue.fills

\* Every write that may exist was an attempt; Binance makes one.
Written == venue.arrived + venue.queued
WritesCounted ==
    /\ Written <= MaxRetries + 1
    /\ job.pc = "submit" /\ job.answer = "none" => Written <= job.tries
    /\ provider = "binance" => /\ Written <= job.submits
                               /\ job.pc = "submit" => job.tries = 0

\* The row of a cancellation is there before the cancellation.
CancelsOwned ==
    /\ job.cancels = 1 => order.cancelRow
    /\ job.pc = "cancel" => order.cancelRow

VenueInv ==
    /\ VenueTypes /\ VenueTruth /\ AnswersHold /\ ClosedAtVenue /\ ChecksHold /\ WritesCounted
    /\ CancelsOwned

\* The invariant gives the types and both properties.
LEMMA VenueSuffices == VenueInv => VenueTypeOK /\ WrittenOnce /\ ReportIsTrue
<1> SUFFICES ASSUME VenueInv PROVE VenueTypeOK /\ WrittenOnce /\ ReportIsTrue
  OBVIOUS
<1>1. /\ provider \in Providers /\ http \in HttpRecs /\ venue \in VenueRecs /\ order \in OrderRecs
      /\ job \in JobRecs
  BY DEF VenueInv, VenueTypes
<1>2. /\ venue.arrived \in Nat /\ venue.queued \in Nat /\ job.submits \in 0..1 /\ job.cancels \in 0..1
      /\ MaxRetries \in Nat
  BY <1>1, VenueConstants DEF VenueRecs, JobRecs
<1>3. /\ Written <= MaxRetries + 1 /\ Written = venue.arrived + venue.queued
      /\ provider = "binance" => Written <= job.submits
  BY DEF VenueInv, WritesCounted, Written
<1>4. VenueTypeOK
  <2>1. venue.arrived \in 0..MaxRetries + 1 /\ venue.queued \in 0..MaxRetries + 1
    BY <1>2, <1>3
  <2>2. venue \in [queued : 0..MaxRetries + 1, arrived : 0..MaxRetries + 1, fills : 0..Quantity,
                   status : OpenStatus \cup TerminalStatus \cup {"none"}]
    BY <1>1, <2>1 DEF VenueRecs, Statuses
  <2> QED
    BY <1>1, <2>2 DEF VenueTypeOK, HttpRecs, OrderRecs, JobRecs, JobPcs, OrderStates
<1>5. WrittenOnce
  BY <1>2, <1>3 DEF WrittenOnce
<1>6. PassedMatchesVenue
  BY DEF VenueInv, ChecksHold, ClosedAtVenue, Checks, Closing, PassedMatchesVenue
<1>7. EvidenceOwnsUp
  <2> SUFFICES ASSUME provider = "binance", job.pc \in Ended
               PROVE  Written <= Evidence.submits /\ job.cancels <= Evidence.cancels
    BY DEF EvidenceOwnsUp, Written
  <2>1. CASE job.pc = "passed"
    <3>1. Evidence.submits = job.submits /\ Evidence.cancels = job.cancels
      BY <2>1 DEF Evidence
    <3> QED
      BY <1>2, <1>3, <3>1
  <2>2. CASE job.pc # "passed"
    <3>1. Evidence.submits = 1 /\ Evidence.cancels = IF order.cancelRow THEN 1 ELSE 0
      BY <2>2 DEF Evidence
    <3>2. job.cancels = 1 => order.cancelRow
      BY DEF VenueInv, CancelsOwned
    <3> QED
      BY <1>2, <1>3, <3>1, <3>2
  <2> QED
    BY <2>1, <2>2
<1> QED
  BY <1>4, <1>5, <1>6, <1>7 DEF ReportIsTrue

\* What a request does to the venue: a terminal order stays as it is, fills are the
\* market's business, and only a submission arrives.
LEMMA ExecutedEffects ==
    ASSUME NEW v \in VenueRecs, NEW op, NEW w \in Executed(v, op)
    PROVE  /\ w \in VenueRecs /\ w.queued = v.queued /\ w.fills = v.fills
           /\ w.arrived = IF op = "submit" THEN v.arrived + 1 ELSE v.arrived
           /\ v.status \in TerminalStatus => w.status = v.status
           /\ w.status = "FILLED" <=> v.status = "FILLED"
           /\ w.status = "none" => v.status = "none" /\ op # "submit"
<1>1. CASE op = "submit"
  <2>1. PICK s \in {"NEW", "REJECTED"} :
           w = [v EXCEPT !.arrived = @ + 1, !.status = IF @ = "none" THEN s ELSE @]
    BY <1>1 DEF Executed
  <2> DEFINE x == IF v.status = "none" THEN s ELSE v.status
             y == v.arrived + 1
  <2>2. x \in Statuses /\ y \in Nat
    BY DEF Statuses, OpenStatus, TerminalStatus, VenueRecs
  <2>3. w = [v EXCEPT !.arrived = y, !.status = x]
    BY <2>1
  <2> HIDE DEF x, y
  <2>4. /\ w.queued = v.queued /\ w.fills = v.fills /\ w.arrived = y /\ w.status = x
        /\ w \in VenueRecs
    BY <2>2, <2>3 DEF VenueRecs
  <2> QED
    BY <1>1, <2>4 DEF TerminalStatus, x, y
<1>2. CASE op = "cancel"
  <2>1. w = [v EXCEPT !.status = IF @ \in OpenStatus THEN "CANCELED" ELSE @]
    BY <1>2 DEF Executed
  <2>2. /\ w.queued = v.queued /\ w.fills = v.fills /\ w.arrived = v.arrived
        /\ w.status = IF v.status \in OpenStatus THEN "CANCELED" ELSE v.status
        /\ w \in VenueRecs
    BY <2>1 DEF VenueRecs, Statuses, OpenStatus, TerminalStatus
  <2> QED
    BY <1>2, <2>2 DEF TerminalStatus, OpenStatus
<1>3. CASE op \notin {"submit", "cancel"}
  <2>1. w = v
    BY <1>3 DEF Executed
  <2> QED
    BY <1>3, <2>1
<1> QED
  BY <1>1, <1>2, <1>3
\* Where the script goes next, with what it has read and done so far.
LEMMA GotoFields ==
    ASSUME VenueTypes, NEW pc \in JobPcs
    PROVE  /\ Goto(pc) \in JobRecs /\ Goto(pc).pc = pc /\ Goto(pc).answer = "none"
           /\ Goto(pc).got = job.got /\ Goto(pc).submits = job.submits /\ Goto(pc).cancels = job.cancels
<1>1. job \in JobRecs /\ 0 \in 0..MaxRetries /\ "none" \in Answers
  BY VenueConstants DEF VenueTypes, Answers
<1> QED
  BY <1>1 DEF Goto, JobRecs

\* Only its state changes in an order.
LEMMA OrderMoves ==
    ASSUME order \in OrderRecs, NEW s \in OrderStates
    PROVE  /\ [order EXCEPT !.state = s] \in OrderRecs /\ [order EXCEPT !.state = s].state = s
           /\ [order EXCEPT !.state = s].fills = order.fills
           /\ [order EXCEPT !.state = s].cancelRow = order.cancelRow
BY DEF OrderRecs

\* A cancellation writes its row; a fill writes its quantity; a restart forgets the identity.
LEMMA OrderCancels ==
    ASSUME order \in OrderRecs, NEW s \in OrderStates
    PROVE  /\ [order EXCEPT !.state = s, !.cancelRow = TRUE] \in OrderRecs
           /\ [order EXCEPT !.state = s, !.cancelRow = TRUE].state = s
           /\ [order EXCEPT !.state = s, !.cancelRow = TRUE].cancelRow
BY DEF OrderRecs

\* A fill writes its quantity and leaves the row of a cancellation.
LEMMA OrderFills ==
    ASSUME order \in OrderRecs, NEW s \in OrderStates, NEW n \in 0..Quantity
    PROVE  /\ [order EXCEPT !.fills = n, !.state = s] \in OrderRecs
           /\ [order EXCEPT !.fills = n, !.state = s].state = s
           /\ [order EXCEPT !.fills = n, !.state = s].cancelRow = order.cancelRow
BY DEF OrderRecs

\* A restart forgets the venue's identity for the order, and nothing else.
LEMMA JobForgets ==
    ASSUME NEW g \in JobRecs
    PROVE  /\ [g EXCEPT !.known = FALSE] \in JobRecs /\ [g EXCEPT !.known = FALSE].pc = g.pc
           /\ [g EXCEPT !.known = FALSE].answer = g.answer /\ [g EXCEPT !.known = FALSE].got = g.got
           /\ [g EXCEPT !.known = FALSE].submits = g.submits
           /\ [g EXCEPT !.known = FALSE].cancels = g.cancels
BY DEF JobRecs

\* A step of the script between two requests: what must hold where it goes.
LEMMA ScriptMoves ==
    ASSUME VenueInv, UNCHANGED <<provider, venue>>,
           http' \in HttpRecs, http'.open \/ http'.fails < FailureThreshold,
           NEW j \in JobRecs, job' = j, j.answer = "none", j.got = job.got, j.submits = job.submits,
           j.cancels = job.cancels, j.pc # "submit",
           NEW o \in OrderRecs, order' = o, order.cancelRow => o.cancelRow,
           o.state \in Closing => venue.status \in TerminalStatus,
           j.pc = "cancel" => o.cancelRow,
           j.pc \in Checks => o.state = "RECONCILED",
           j.pc \in {"restart", "passed"} => o.fills = venue.fills
    PROVE  VenueInv'
<1>1. VenueTypes'
  BY DEF VenueInv, VenueTypes
<1>2. VenueTruth' /\ Written' = Written
  BY DEF VenueInv, VenueTruth, Written
<1>3. AnswersHold'
  <2>1. "none" \notin TerminalStatus
    BY DEF TerminalStatus
  <2> QED
    BY <2>1 DEF VenueInv, AnswersHold
<1>4. ClosedAtVenue' /\ ChecksHold'
  BY DEF ClosedAtVenue, ChecksHold
<1>5. WritesCounted'
  BY <1>2 DEF VenueInv, WritesCounted
<1>6. CancelsOwned'
  BY DEF VenueInv, CancelsOwned
<1> QED
  BY <1>1, <1>2, <1>3, <1>4, <1>5, <1>6 DEF VenueInv

\* The script waits for a reply, or decides with one in hand: every step between requests.
LEMMA ScriptKeeps ==
    ASSUME VenueInv,
           \/ AfterSubmit \/ AfterReconcile \/ AfterQuery \/ AfterCancel \/ AfterCancelQuery
           \/ IngestFills \/ Close \/ AfterFinalOpen \/ AfterAccount \/ AfterRestart
    PROVE  VenueInv'
<1>1. /\ VenueTypes /\ http \in HttpRecs /\ (http.open \/ http.fails < FailureThreshold)
      /\ order \in OrderRecs /\ job \in JobRecs /\ venue \in VenueRecs
  BY DEF VenueInv, VenueTypes
<1>2. /\ order.state \in Closing => venue.status \in TerminalStatus
      /\ job.answer \in TerminalStatus => venue.status = job.answer
      /\ job.pc \in Checks => order.state = "RECONCILED"
      /\ job.got <= venue.fills
      /\ job.pc = "cancel" => order.cancelRow
  BY DEF VenueInv, ClosedAtVenue, AnswersHold, ChecksHold, CancelsOwned
<1>3. {"reconcile", "reconcile_open", "query", "poll", "fills", "cancel", "after_cancel", "late_fills",
       "blocked", "done", "close", "final_open", "account", "restart", "passed"} \subseteq JobPcs
  BY DEF JobPcs, Requests, Ended
<1>4. "done" \notin Checks /\ "query" \notin Checks /\ Continue \in {"query", "done"}
  BY DEF Checks, Continue
\* To a request or an end that asks for nothing, with the order as it was.
<1>5. ASSUME NEW pc \in {"reconcile", "reconcile_open", "query", "poll", "fills", "after_cancel",
                         "late_fills", "blocked", "done", "close"},
             job' = Goto(pc), UNCHANGED <<provider, http, venue, order>>
      PROVE  VenueInv'
  <2>1. pc \in JobPcs /\ pc \notin Checks /\ pc # "cancel" /\ pc # "submit" /\ pc \notin {"restart", "passed"}
    BY <1>3 DEF Checks
  <2>2. PICK j \in JobRecs : /\ j = Goto(pc) /\ j.pc = pc /\ j.answer = "none" /\ j.got = job.got
                             /\ j.submits = job.submits /\ j.cancels = job.cancels
    BY <1>1, <2>1, GotoFields
  <2> QED
    BY <1>1, <1>2, <1>5, <2>1, <2>2, ScriptMoves
\* The same, with the order in another state.
<1>6. ASSUME NEW pc \in {"query", "done", "close", "final_open"}, NEW s \in OrderStates,
             job' = Goto(pc), order' = [order EXCEPT !.state = s], UNCHANGED <<provider, http, venue>>,
             s \in Closing => venue.status \in TerminalStatus, pc = "final_open" => s = "RECONCILED"
      PROVE  VenueInv'
  <2>1. pc \in JobPcs /\ (pc \in Checks => pc = "final_open") /\ pc # "cancel" /\ pc # "submit"
        /\ pc \notin {"restart", "passed"}
    BY <1>3 DEF Checks
  <2>2. PICK j \in JobRecs : /\ j = Goto(pc) /\ j.pc = pc /\ j.answer = "none" /\ j.got = job.got
                             /\ j.submits = job.submits /\ j.cancels = job.cancels
    BY <1>1, <2>1, GotoFields
  <2>3. PICK o \in OrderRecs : o = [order EXCEPT !.state = s] /\ o.state = s /\ o.cancelRow = order.cancelRow
    BY <1>1, OrderMoves
  <2> QED
    BY <1>1, <1>6, <2>1, <2>2, <2>3, ScriptMoves
<1>7. ASSUME AfterSubmit PROVE VenueInv'
  <2>1. CASE job' = Goto("reconcile") /\ UNCHANGED order
    BY <1>5, <1>7, <2>1 DEF AfterSubmit
  <2>2. CASE job' = Goto(Continue) /\ order' = [order EXCEPT !.state = "ACKNOWLEDGED"]
    <3>1. "ACKNOWLEDGED" \in OrderStates /\ "ACKNOWLEDGED" \notin Closing
      BY DEF OrderStates, Closing
    <3> QED
      BY <1>4, <1>6, <1>7, <2>2, <3>1 DEF AfterSubmit
  <2> QED
    BY <1>7, <2>1, <2>2 DEF AfterSubmit
<1>8. ASSUME AfterReconcile PROVE VenueInv'
  <2>1. UNCHANGED <<provider, http, venue>>
    BY <1>8 DEF AfterReconcile
  <2>2. CASE job' = Goto("reconcile_open") /\ UNCHANGED order
    BY <1>5, <2>1, <2>2
  <2>3. CASE Blocked
    BY <1>5, <2>1, <2>3 DEF Blocked
  <2>4. CASE /\ order' = [order EXCEPT !.state = IF Accepted(job.answer) THEN "ACKNOWLEDGED" ELSE "REJECTED"]
             /\ job' = Goto(Continue)
    <3>1. PICK s \in OrderStates : /\ s = (IF Accepted(job.answer) THEN "ACKNOWLEDGED" ELSE "REJECTED")
      BY DEF OrderStates
    <3>2. s \in Closing => venue.status \in TerminalStatus
      BY <1>2, <3>1 DEF Accepted, Closing
    <3> QED
      BY <1>4, <1>6, <2>1, <2>4, <3>1, <3>2
  <2> QED
    BY <1>8, <2>2, <2>3, <2>4 DEF AfterReconcile
<1>9. ASSUME AfterQuery PROVE VenueInv'
  <2>1. UNCHANGED <<provider, http, venue>>
    BY <1>9 DEF AfterQuery
  <2>2. CASE Blocked
    BY <1>5, <2>1, <2>2 DEF Blocked
  <2>3. CASE \E pc \in {"poll", "fills", "close"} : job' = Goto(pc) /\ UNCHANGED order
    BY <1>5, <2>1, <2>3
  <2>4. CASE /\ order.state = "ACKNOWLEDGED" /\ job' = Goto("cancel")
             /\ order' = [order EXCEPT !.state = "CANCEL_PENDING", !.cancelRow = TRUE]
    <3>1. PICK o \in OrderRecs : /\ o = [order EXCEPT !.state = "CANCEL_PENDING", !.cancelRow = TRUE]
                                 /\ o.state = "CANCEL_PENDING" /\ o.cancelRow
      <4>1. "CANCEL_PENDING" \in OrderStates
        BY DEF OrderStates
      <4> QED
        BY <1>1, <4>1, OrderCancels
    <3>2. PICK j \in JobRecs : /\ j = Goto("cancel") /\ j.pc = "cancel" /\ j.answer = "none" /\ j.got = job.got
                               /\ j.submits = job.submits /\ j.cancels = job.cancels
      BY <1>1, <1>3, GotoFields
    <3>3. "CANCEL_PENDING" \notin Closing /\ "cancel" \notin Checks
      BY DEF Closing, Checks
    <3> QED
      BY <1>1, <2>1, <2>4, <3>1, <3>2, <3>3, ScriptMoves
  <2> QED
    BY <1>9, <2>2, <2>3, <2>4 DEF AfterQuery
<1>10. ASSUME AfterCancel PROVE VenueInv'
  BY <1>5, <1>10 DEF AfterCancel
<1>11. ASSUME AfterCancelQuery PROVE VenueInv'
  <2>1. UNCHANGED <<provider, http, venue>>
    BY <1>11 DEF AfterCancelQuery
  <2>2. CASE Blocked
    BY <1>5, <2>1, <2>2 DEF Blocked
  <2>3. CASE job' = Goto("late_fills") /\ UNCHANGED order
    BY <1>5, <2>1, <2>3
  <2>4. CASE /\ order' = [order EXCEPT !.state = IF job.answer = "CANCELED" THEN "CANCELLED" ELSE @]
             /\ job' = Goto("close")
    <3>1. order.state \in OrderStates
      BY <1>1 DEF OrderRecs
    <3>2. PICK s \in OrderStates : s = (IF job.answer = "CANCELED" THEN "CANCELLED" ELSE order.state)
      BY <3>1 DEF OrderStates
    <3>3. s \in Closing => venue.status \in TerminalStatus
      BY <1>2, <3>2 DEF TerminalStatus
    <3> QED
      BY <1>6, <2>1, <2>4, <3>2, <3>3
  <2> QED
    BY <1>11, <2>2, <2>3, <2>4 DEF AfterCancelQuery
\* All of the order's quantity read as traded: the venue has filled it.
<1>12. ASSUME IngestFills PROVE VenueInv'
  <2>1. UNCHANGED <<provider, http, venue>>
    BY <1>12 DEF IngestFills
  <2>2. CASE Blocked
    BY <1>5, <2>1, <2>2 DEF Blocked
  <2>3. CASE /\ order' = [order EXCEPT !.fills = job.got,
                             !.state = IF job.got = Quantity THEN "FILLED"
                                       ELSE IF job.got > order.fills THEN "PARTIALLY_FILLED" ELSE @]
             /\ job' = Goto("close")
    <3>1. order.state \in OrderStates /\ job.got \in 0..Quantity
      BY <1>1 DEF OrderRecs, JobRecs
    <3>2. PICK s \in OrderStates : s = (IF job.got = Quantity THEN "FILLED"
                                        ELSE IF job.got > order.fills THEN "PARTIALLY_FILLED" ELSE order.state)
      BY <3>1 DEF OrderStates
    <3>3. PICK o \in OrderRecs : /\ o = [order EXCEPT !.fills = job.got, !.state = s]
                                 /\ o.state = s /\ o.cancelRow = order.cancelRow
      BY <1>1, <3>1, OrderFills
    <3>4. job.got = Quantity => venue.status = "FILLED"
      <4>1. venue.fills \in 0..Quantity /\ Quantity \in Nat
        BY <1>1, VenueConstants DEF VenueRecs
      <4>2. job.got = Quantity => venue.fills = Quantity
        BY <1>2, <3>1, <4>1
      <4> QED
        BY <4>2 DEF VenueInv, VenueTruth
    <3>5. s \in Closing => venue.status \in TerminalStatus
      BY <1>2, <3>2, <3>4 DEF TerminalStatus, Closing
    <3>6. PICK j \in JobRecs : /\ j = Goto("close") /\ j.pc = "close" /\ j.answer = "none" /\ j.got = job.got
                               /\ j.submits = job.submits /\ j.cancels = job.cancels
      BY <1>1, <1>3, GotoFields
    <3>7. "close" \notin Checks
      BY DEF Checks
    <3>8. order' = o
      BY <2>3, <3>2, <3>3
    <3> QED
      BY <1>1, <2>1, <2>3, <3>3, <3>5, <3>6, <3>7, <3>8, ScriptMoves, ZenonT(60)
  <2> QED
    BY <1>12, <2>2, <2>3 DEF IngestFills
<1>13. ASSUME Close PROVE VenueInv'
  <2>1. UNCHANGED <<provider, http, venue>>
    BY <1>13 DEF Close
  <2>2. CASE Blocked
    BY <1>5, <2>1, <2>2 DEF Blocked
  <2>3. CASE /\ order.state \in {"FILLED", "CANCELLED", "REJECTED"}
             /\ order' = [order EXCEPT !.state = "RECONCILED"] /\ job' = Goto("final_open")
    <3>1. venue.status \in TerminalStatus /\ "RECONCILED" \in OrderStates
      BY <1>2, <2>3 DEF Closing, OrderStates
    <3> QED
      BY <1>6, <2>1, <2>3, <3>1
  <2> QED
    BY <1>13, <2>2, <2>3 DEF Close
\* The closing checks: the order stays as it is.
<1>14. ASSUME NEW pc \in {"account", "restart", "passed"}, NEW j \in JobRecs, job' = j, j.pc = pc,
              j.answer = "none", j.got = job.got, j.submits = job.submits, j.cancels = job.cancels,
              http' \in HttpRecs, http'.open \/ http'.fails < FailureThreshold,
              UNCHANGED <<provider, venue, order>>, job.pc \in Checks,
              pc \in {"restart", "passed"} => order.fills = venue.fills
       PROVE  VenueInv'
  <2>1. pc # "cancel" /\ pc # "submit"
    OBVIOUS
  <2> QED
    BY <1>1, <1>2, <1>14, <2>1, ScriptMoves
<1>15. ASSUME AfterFinalOpen PROVE VenueInv'
  <2>1. UNCHANGED <<provider, http, venue>> /\ job.pc \in Checks
    BY <1>15 DEF AfterFinalOpen, At, Checks
  <2>2. CASE Blocked
    BY <1>5, <2>1, <2>2 DEF Blocked
  <2>3. CASE job' = Goto("account") /\ UNCHANGED order
    <3>1. PICK j \in JobRecs : /\ j = Goto("account") /\ j.pc = "account" /\ j.answer = "none" /\ j.got = job.got
                               /\ j.submits = job.submits /\ j.cancels = job.cancels
      BY <1>1, <1>3, GotoFields
    <3> QED
      BY <1>1, <1>14, <2>1, <2>3, <3>1
  <2> QED
    BY <1>15, <2>2, <2>3 DEF AfterFinalOpen
<1>16. ASSUME AfterAccount PROVE VenueInv'
  <2>1. UNCHANGED <<provider, venue>> /\ job.pc \in Checks /\ job.pc = "account" /\ job.answer # "none"
    BY <1>16 DEF AfterAccount, At, Checks
  <2>2. CASE Blocked /\ UNCHANGED http
    BY <1>5, <2>1, <2>2 DEF Blocked
  <2>3. CASE /\ BooksAgree /\ job' = [Goto("restart") EXCEPT !.known = FALSE]
             /\ http' = [fails |-> 0, open |-> FALSE] /\ UNCHANGED order
    <3>1. PICK g \in JobRecs : /\ g = Goto("restart") /\ g.pc = "restart" /\ g.answer = "none" /\ g.got = job.got
                               /\ g.submits = job.submits /\ g.cancels = job.cancels
      BY <1>1, <1>3, GotoFields
    <3>2. PICK j \in JobRecs : /\ j = [g EXCEPT !.known = FALSE] /\ j.pc = "restart" /\ j.answer = "none"
                               /\ j.got = job.got /\ j.submits = job.submits /\ j.cancels = job.cancels
      BY <3>1, JobForgets, ZenonT(60)
    <3>3. http' \in HttpRecs /\ http'.fails < FailureThreshold
      BY <2>3, VenueConstants DEF HttpRecs
    <3>4. order.fills = venue.fills
      BY <2>1, <2>3 DEF VenueInv, ChecksHold, BooksAgree
    <3>5. job' = j
      BY <2>3, <3>1, <3>2
    <3> QED
      BY <1>14, <2>1, <2>3, <3>2, <3>3, <3>4, <3>5
  <2> QED
    BY <1>16, <2>2, <2>3 DEF AfterAccount
<1>17. ASSUME AfterRestart PROVE VenueInv'
  <2>1. UNCHANGED <<provider, http, venue, order>> /\ job.pc \in Checks /\ job.pc = "restart"
    BY <1>17 DEF AfterRestart, At, Checks
  <2>2. CASE job' = Goto("blocked")
    BY <1>5, <2>1, <2>2
  <2>3. CASE job' = Goto("passed")
    <3>1. PICK j \in JobRecs : /\ j = Goto("passed") /\ j.pc = "passed" /\ j.answer = "none" /\ j.got = job.got
                               /\ j.submits = job.submits /\ j.cancels = job.cancels
      BY <1>1, <1>3, GotoFields
    <3>2. order.fills = venue.fills
      BY <2>1 DEF VenueInv, ChecksHold
    <3> QED
      BY <1>1, <1>14, <2>1, <2>3, <3>1, <3>2
  <2> QED
    BY <1>17, <2>2, <2>3 DEF AfterRestart
<1> QED
  BY <1>7, <1>8, <1>9, <1>10, <1>11, <1>12, <1>13, <1>15, <1>16, <1>17
\* Between two steps of the script the venue moves on its own: a late write arrives, the
\* order trades.
LEMMA VenueMoves ==
    ASSUME VenueInv, UNCHANGED <<provider, http, order, job>>,
           NEW v \in VenueRecs, venue' = v, venue.fills <= v.fills,
           venue.status \in TerminalStatus => v.status = venue.status /\ v.fills = venue.fills,
           v.status = "FILLED" <=> v.fills = Quantity, v.status = "none" => v.fills = 0,
           v.arrived + v.queued = venue.arrived + venue.queued
    PROVE  VenueInv'
<1>1. VenueTypes /\ venue \in VenueRecs /\ job \in JobRecs
  BY DEF VenueInv, VenueTypes
<1>2. VenueTypes' /\ VenueTruth' /\ Written' = Written
  BY <1>1 DEF VenueTypes, VenueTruth, Written
<1>3. AnswersHold'
  <2>1. job.got <= venue.fills /\ job.got \in Nat /\ venue.fills \in Nat /\ v.fills \in Nat
    BY <1>1 DEF VenueInv, AnswersHold, JobRecs, VenueRecs
  <2>2. job.got <= v.fills
    BY <2>1
  <2> QED
    BY <2>2 DEF VenueInv, AnswersHold
<1>4. ClosedAtVenue'
  BY DEF VenueInv, ClosedAtVenue
<1>5. ChecksHold'
  <2>1. job.pc \in {"account", "restart", "passed"} => venue.status \in TerminalStatus
    BY DEF VenueInv, ChecksHold, ClosedAtVenue, Checks, Closing
  <2> QED
    BY <2>1 DEF VenueInv, ChecksHold
<1>6. WritesCounted' /\ CancelsOwned'
  BY <1>2 DEF VenueInv, WritesCounted, CancelsOwned
<1> QED
  BY <1>2, <1>3, <1>4, <1>5, <1>6 DEF VenueInv

\* An attempt of a request, whatever comes of it.
LEMMA RequestMoves ==
    ASSUME VenueInv, Asking, UNCHANGED <<provider, order>>,
           http' \in HttpRecs, http'.open \/ http'.fails < FailureThreshold,
           NEW v \in VenueRecs, venue' = v, v.fills = venue.fills,
           venue.status \in TerminalStatus => v.status = venue.status,
           v.status = "FILLED" <=> venue.status = "FILLED", v.status = "none" => venue.status = "none",
           v.arrived + v.queued <= (venue.arrived + venue.queued) + (IF job.pc = "submit" THEN 1 ELSE 0),
           NEW j \in JobRecs, job' = j, j.pc = job.pc,
           j.submits = IF job.pc = "submit" THEN 1 ELSE job.submits,
           j.cancels = IF job.pc = "cancel" THEN 1 ELSE job.cancels,
           \/ j.answer # "none" /\ j.tries = job.tries
           \/ j.answer = "none" /\ j.tries = job.tries + 1 /\ job.tries < Retries(job.pc),
           j.answer \in TerminalStatus => v.status = j.answer, j.got <= v.fills,
           j.pc = "account" /\ j.answer \notin {"none", "error"} => j.got = v.fills
    PROVE  VenueInv'
<1>1. /\ VenueTypes /\ venue \in VenueRecs /\ job \in JobRecs
      /\ venue.arrived \in Nat /\ venue.queued \in Nat /\ v.arrived \in Nat /\ v.queued \in Nat
      /\ job.tries \in Nat /\ j.tries \in Nat /\ job.tries <= MaxRetries /\ MaxRetries \in Nat
      /\ job.submits \in Nat
  BY VenueConstants DEF VenueInv, VenueTypes, VenueRecs, JobRecs
<1>2. VenueTypes' /\ VenueTruth'
  BY <1>1 DEF VenueInv, VenueTypes, VenueTruth
<1>3. AnswersHold' /\ ClosedAtVenue' /\ ChecksHold'
  BY DEF VenueInv, AnswersHold, ClosedAtVenue, ChecksHold
<1>4. WritesCounted'
  <2>1. job.answer = "none" /\ Written \in Nat /\ Written' = v.arrived + v.queued /\ Written' \in Nat
        /\ Written = venue.arrived + venue.queued
    BY <1>1 DEF Asking, Written
  <2>2. CASE job.pc = "submit"
    <3>1. Written <= job.tries /\ Written' <= Written + 1
      BY <2>1, <2>2 DEF VenueInv, WritesCounted
    <3>2. Written' <= MaxRetries + 1 /\ (j.answer = "none" => Written' <= j.tries)
      BY <1>1, <2>1, <3>1
    <3>3. provider = "binance" => Written' <= j.submits /\ j.tries = 0
      <4>1. provider = "binance" => job.tries = 0 /\ Retries(job.pc) = 0
        BY <2>2 DEF VenueInv, WritesCounted, Retries, Writes
      <4> QED
        BY <1>1, <2>1, <2>2, <3>1, <4>1
    <3> QED
      BY <2>2, <3>2, <3>3 DEF WritesCounted
  <2>3. CASE job.pc # "submit"
    <3>1. Written' <= Written /\ Written <= MaxRetries + 1
      BY <1>1, <2>1, <2>3 DEF VenueInv, WritesCounted
    <3>2. Written' <= MaxRetries + 1
      BY <1>1, <2>1, <3>1
    <3>3. provider = "binance" => Written' <= j.submits
      <4>1. provider = "binance" => Written <= job.submits
        BY DEF VenueInv, WritesCounted
      <4> QED
        BY <1>1, <2>1, <2>3, <3>1, <4>1
    <3> QED
      BY <2>3, <3>2, <3>3 DEF WritesCounted
  <2> QED
    BY <2>2, <2>3
<1>5. CancelsOwned'
  BY DEF VenueInv, CancelsOwned
<1> QED
  BY <1>2, <1>3, <1>4, <1>5 DEF VenueInv

\* An attempt is counted as it is entered; its outcome is an answer or another attempt.
LEMMA EnteredFields ==
    ASSUME job \in JobRecs
    PROVE  /\ Entered(job) \in JobRecs /\ Entered(job).pc = job.pc /\ Entered(job).tries = job.tries
           /\ Entered(job).got = job.got /\ Entered(job).known = job.known /\ Entered(job).answer = job.answer
           /\ Entered(job).submits = IF job.pc = "submit" THEN 1 ELSE job.submits
           /\ Entered(job).cancels = IF job.pc = "cancel" THEN 1 ELSE job.cancels
<1>1. PICK s \in 0..1 : s = IF job.pc = "submit" THEN 1 ELSE job.submits
  BY DEF JobRecs
<1>2. PICK c \in 0..1 : c = IF job.pc = "cancel" THEN 1 ELSE job.cancels
  BY DEF JobRecs
<1>3. Entered(job) = [job EXCEPT !.submits = s, !.cancels = c]
  BY <1>1, <1>2 DEF Entered
<1> QED
  BY <1>1, <1>2, <1>3 DEF JobRecs

\* What is on its way to the venue, and nothing else.
LEMMA QueueFields ==
    ASSUME NEW v \in VenueRecs, NEW n \in Nat
    PROVE  /\ [v EXCEPT !.queued = n] \in VenueRecs /\ [v EXCEPT !.queued = n].queued = n
           /\ [v EXCEPT !.queued = n].arrived = v.arrived /\ [v EXCEPT !.queued = n].fills = v.fills
           /\ [v EXCEPT !.queued = n].status = v.status
BY DEF VenueRecs

\* The deadline of the poll is noted, and nothing else.
LEMMA LateFields ==
    ASSUME NEW j \in JobRecs
    PROVE  /\ [j EXCEPT !.late = TRUE] \in JobRecs /\ [j EXCEPT !.late = TRUE].pc = j.pc
           /\ [j EXCEPT !.late = TRUE].tries = j.tries /\ [j EXCEPT !.late = TRUE].answer = j.answer
           /\ [j EXCEPT !.late = TRUE].got = j.got /\ [j EXCEPT !.late = TRUE].submits = j.submits
           /\ [j EXCEPT !.late = TRUE].cancels = j.cancels
BY DEF JobRecs

\* A late submission arrives: what was on its way has come, and nothing else changes.
LEMMA ArrivalMoves ==
    ASSUME VenueInv, LateArrival
    PROVE  VenueInv'
<1>1. /\ VenueTypes /\ venue \in VenueRecs /\ venue.queued \in Nat /\ venue.arrived \in Nat /\ venue.queued > 0
      /\ UNCHANGED <<provider, http, order, job>>
  BY DEF VenueInv, VenueTypes, VenueRecs, LateArrival
<1>2. PICK n \in Nat : n = venue.queued - 1
  BY <1>1
<1>3. PICK u \in VenueRecs : /\ u = [venue EXCEPT !.queued = @ - 1] /\ u.queued = n /\ u.arrived = venue.arrived
                             /\ u.fills = venue.fills /\ u.status = venue.status
  BY <1>1, <1>2, QueueFields
<1>4. venue' \in Executed(u, "submit")
  BY <1>3 DEF LateArrival
<1>5. PICK v \in VenueRecs : /\ venue' = v /\ v.queued = u.queued /\ v.fills = u.fills
                             /\ v.arrived = u.arrived + 1
                             /\ u.status \in TerminalStatus => v.status = u.status
                             /\ v.status = "FILLED" <=> u.status = "FILLED"
                             /\ v.status # "none"
  BY <1>4, ExecutedEffects
<1>6. v.arrived + v.queued = venue.arrived + venue.queued
  BY <1>1, <1>2, <1>3, <1>5
<1>7. /\ v.status = "FILLED" <=> v.fills = Quantity
      /\ venue.fills <= v.fills
  BY <1>1, <1>3, <1>5 DEF VenueInv, VenueTruth, VenueRecs
<1> QED
  BY <1>1, <1>3, <1>5, <1>6, <1>7, VenueMoves

\* The order trades: an open order has quantity left.
LEMMA TradeMoves ==
    ASSUME VenueInv, VenueTrades
    PROVE  VenueInv'
<1>1. /\ VenueTypes /\ venue \in VenueRecs /\ venue.fills \in 0..Quantity /\ venue.status \in OpenStatus
      /\ Quantity \in Nat /\ UNCHANGED <<provider, http, order, job>>
  BY VenueConstants DEF VenueInv, VenueTypes, VenueRecs, VenueTrades
<1>2. venue.status # "FILLED" /\ venue.status # "none" /\ venue.status \notin TerminalStatus
  BY <1>1 DEF OpenStatus, TerminalStatus
<1>3. venue.fills # Quantity
  BY <1>2 DEF VenueInv, VenueTruth
<1>4. PICK n \in 0..Quantity : n = venue.fills + 1
  BY <1>1, <1>3
<1>5. PICK s \in Statuses : s = IF n = Quantity THEN "FILLED" ELSE "PARTIALLY_FILLED"
  BY DEF Statuses, OpenStatus, TerminalStatus
<1>6. venue' = [venue EXCEPT !.fills = n, !.status = s]
  BY <1>4, <1>5 DEF VenueTrades
<1>7. PICK v \in VenueRecs : /\ venue' = v /\ v.fills = n /\ v.status = s /\ v.arrived = venue.arrived
                             /\ v.queued = venue.queued
  <2>1. venue \in VenueRecs
    BY <1>1
  <2>2. PICK w \in VenueRecs : /\ w = [venue EXCEPT !.fills = n, !.status = s] /\ w.fills = n /\ w.status = s
                              /\ w.arrived = venue.arrived /\ w.queued = venue.queued
    <3>1. /\ [venue EXCEPT !.fills = n, !.status = s] \in VenueRecs
          /\ [venue EXCEPT !.fills = n, !.status = s].fills = n
          /\ [venue EXCEPT !.fills = n, !.status = s].status = s
          /\ [venue EXCEPT !.fills = n, !.status = s].arrived = venue.arrived
          /\ [venue EXCEPT !.fills = n, !.status = s].queued = venue.queued
      BY <2>1 DEF VenueRecs
    <3> QED
      BY <3>1
  <2>4. venue' = w
    BY <1>6, <2>2
  <2> QED
    BY <2>2, <2>4
<1>8. venue.fills <= v.fills
  BY <1>1, <1>4, <1>7
<1>9. (v.status = "FILLED" <=> v.fills = Quantity) /\ v.status # "none"
  BY <1>5, <1>7
<1> QED
  BY <1>1, <1>2, <1>7, <1>8, <1>9, VenueMoves

\* The clock and the death of the process change neither the venue nor the order.
LEMMA ClockMoves ==
    ASSUME VenueInv, CircuitCools \/ DeadlinePasses \/ VenueCrash
    PROVE  VenueInv'
<1>1. VenueTypes /\ job \in JobRecs
  BY DEF VenueInv, VenueTypes
<1>2. CASE CircuitCools
  <2>1. http' \in HttpRecs /\ http'.fails < FailureThreshold
    BY <1>2, VenueConstants DEF CircuitCools, HttpRecs
  <2>2. UNCHANGED <<provider, venue, order, job>>
    BY <1>2 DEF CircuitCools
  <2> QED
    BY <2>1, <2>2 DEF VenueInv, VenueTypes, VenueTruth, AnswersHold, ClosedAtVenue, ChecksHold, WritesCounted,
       CancelsOwned, Written
<1>3. CASE DeadlinePasses
  <2>1. UNCHANGED <<provider, http, venue, order>>
    BY <1>3 DEF DeadlinePasses
  <2>2. PICK j \in JobRecs : /\ job' = j /\ j.pc = job.pc /\ j.tries = job.tries /\ j.answer = job.answer
                             /\ j.got = job.got /\ j.submits = job.submits /\ j.cancels = job.cancels
    BY <1>1, <1>3, LateFields DEF DeadlinePasses
  <2> QED
    BY <2>1, <2>2 DEF VenueInv, VenueTypes, VenueTruth, AnswersHold, ClosedAtVenue, ChecksHold, WritesCounted,
       CancelsOwned, Written
<1>4. CASE VenueCrash
  <2>1. UNCHANGED <<provider, http, venue, order>>
    BY <1>4 DEF VenueCrash
  <2>2. "crashed" \in JobPcs /\ "none" \in Answers /\ "crashed" \notin Checks /\ "none" \notin TerminalStatus
    BY DEF JobPcs, Answers, Checks, TerminalStatus
  <2>3. PICK j \in JobRecs : /\ job' = j /\ j.pc = "crashed" /\ j.answer = "none"
                             /\ j.got = job.got /\ j.submits = job.submits /\ j.cancels = job.cancels
    <3>1. job \in JobRecs /\ job' = [job EXCEPT !.pc = "crashed", !.answer = "none"]
      BY <1>1, <1>4 DEF VenueCrash
    <3>2. PICK w \in JobRecs : /\ w = [job EXCEPT !.pc = "crashed", !.answer = "none"] /\ w.pc = "crashed"
                               /\ w.answer = "none" /\ w.got = job.got
                               /\ w.submits = job.submits /\ w.cancels = job.cancels
      <4>1. /\ [job EXCEPT !.pc = "crashed", !.answer = "none"] \in JobRecs
            /\ [job EXCEPT !.pc = "crashed", !.answer = "none"].pc = "crashed"
            /\ [job EXCEPT !.pc = "crashed", !.answer = "none"].answer = "none"
            /\ [job EXCEPT !.pc = "crashed", !.answer = "none"].got = job.got
            /\ [job EXCEPT !.pc = "crashed", !.answer = "none"].submits = job.submits
            /\ [job EXCEPT !.pc = "crashed", !.answer = "none"].cancels = job.cancels
        BY <2>2, <3>1 DEF JobRecs
      <4> QED
        BY <4>1
    <3>4. job' = w
      BY <3>1, <3>2
    <3> QED
      BY <3>2, <3>4
  <2>4. order.cancelRow' = order.cancelRow /\ http' \in HttpRecs /\ (http'.open \/ http'.fails < FailureThreshold)
        /\ order \in OrderRecs
    BY <1>1, <2>1 DEF VenueTypes
  <2>5. order.state \in Closing => venue.status \in TerminalStatus
    BY DEF VenueInv, ClosedAtVenue
  <2> QED
    BY <2>1, <2>2, <2>3, <2>4, <2>5, ScriptMoves DEF Checks
<1> QED
  BY <1>2, <1>3, <1>4

\* The breaker: a failure is counted, and the count that reaches the threshold opens it.
LEMMA BreakerCounts ==
    ASSUME VenueTypes, ~http.open
    PROVE  Failed(http) \in HttpRecs /\ (Failed(http).open \/ Failed(http).fails < FailureThreshold)
<1>1. http.fails \in Nat /\ http.fails < FailureThreshold /\ FailureThreshold \in Nat
  BY VenueConstants DEF VenueTypes, HttpRecs
<1>2. PICK n \in 0..FailureThreshold : n = http.fails + 1
  BY <1>1
<1>3. Failed(http) = [fails |-> n, open |-> n >= FailureThreshold]
  BY <1>2 DEF Failed
<1>4. CASE n >= FailureThreshold
  <2>1. Failed(http) = [fails |-> n, open |-> TRUE]
    BY <1>3, <1>4
  <2> QED
    BY <2>1 DEF HttpRecs
<1>5. CASE ~(n >= FailureThreshold)
  <2>0. (n >= FailureThreshold) = FALSE /\ n < FailureThreshold
    BY <1>1, <1>5
  <2>1. Failed(http) = [fails |-> n, open |-> FALSE] /\ n < FailureThreshold
    BY <1>3, <2>0, Zenon
  <2> QED
    BY <2>1 DEF HttpRecs
<1> QED
  BY <1>4, <1>5
\* A reply: what it says was true of the venue when it was given.
LEMMA AnsweredMoves ==
    ASSUME VenueInv, Answered
    PROVE  VenueInv'
<1>1. /\ VenueTypes /\ venue \in VenueRecs /\ job \in JobRecs /\ http \in HttpRecs
      /\ Asking /\ UNCHANGED <<provider, order>> /\ venue' \in Executed(venue, job.pc)
  BY DEF VenueInv, VenueTypes, Answered
<1>2. PICK v \in VenueRecs : /\ venue' = v /\ v.queued = venue.queued /\ v.fills = venue.fills
                             /\ v.arrived = IF job.pc = "submit" THEN venue.arrived + 1 ELSE venue.arrived
                             /\ venue.status \in TerminalStatus => v.status = venue.status
                             /\ v.status = "FILLED" <=> venue.status = "FILLED"
                             /\ v.status = "none" => venue.status = "none" /\ job.pc # "submit"
  BY <1>1, ExecutedEffects
<1>3. PICK e \in JobRecs : /\ e = Entered(job) /\ e.pc = job.pc /\ e.tries = job.tries /\ e.got = job.got
                           /\ e.submits = IF job.pc = "submit" THEN 1 ELSE job.submits
                           /\ e.cancels = IF job.pc = "cancel" THEN 1 ELSE job.cancels
  BY <1>1, EnteredFields
<1> DEFINE seen == Seen(v, job.pc)
           a == IF job.pc = "submit" THEN v.status ELSE seen
           n == IF job.pc \in {"fills", "late_fills", "account"} THEN venue.fills ELSE e.got
           k == e.known \/ (seen # "absent" /\ ~(job.pc = "submit" /\ v.status = "REJECTED"))
<1>4. seen = "absent" \/ (seen = v.status /\ v.status # "none")
  BY DEF Seen
<1>5. v.status \in Statuses /\ e.got \in 0..Quantity /\ venue.fills \in 0..Quantity
  BY <1>1 DEF VenueRecs, JobRecs
<1>6. a \in Answers /\ a # "none" /\ (a \in TerminalStatus => v.status = a)
  <2> HIDE DEF seen
  <2>1. "absent" \notin TerminalStatus /\ "absent" \in Answers /\ Statuses \subseteq Answers
    BY DEF TerminalStatus, Answers, Statuses
  <2> QED
    BY <1>2, <1>4, <1>5, <2>1
<1>7. /\ n \in 0..Quantity /\ n <= v.fills
      /\ job.pc = "account" => n = v.fills
  <2>1. job.got <= venue.fills
    BY DEF VenueInv, AnswersHold
  <2> QED
    BY <1>2, <1>3, <1>5, <2>1
<1>8. k \in BOOLEAN
  OBVIOUS
<1>9. job' = [e EXCEPT !.answer = a, !.got = n, !.known = k]
  <2>1. /\ job' = [Entered(job) EXCEPT
                     !.answer = IF job.pc = "submit" THEN venue'.status ELSE Seen(venue', job.pc),
                     !.got = IF job.pc \in {"fills", "late_fills", "account"} THEN venue.fills ELSE @,
                     !.known = @ \/ (Seen(venue', job.pc) # "absent"
                                     /\ ~(job.pc = "submit" /\ venue'.status = "REJECTED"))]
    BY DEF Answered
  <2> QED
    BY <1>2, <1>3, <2>1
<1> HIDE DEF a, n, k
<1>10. PICK j \in JobRecs : /\ job' = j /\ j.pc = job.pc /\ j.tries = job.tries /\ j.answer = a /\ j.got = n
                            /\ j.submits = e.submits /\ j.cancels = e.cancels
  <2>1. /\ [e EXCEPT !.answer = a, !.got = n, !.known = k] \in JobRecs
        /\ [e EXCEPT !.answer = a, !.got = n, !.known = k].pc = e.pc
        /\ [e EXCEPT !.answer = a, !.got = n, !.known = k].tries = e.tries
        /\ [e EXCEPT !.answer = a, !.got = n, !.known = k].answer = a
        /\ [e EXCEPT !.answer = a, !.got = n, !.known = k].got = n
        /\ [e EXCEPT !.answer = a, !.got = n, !.known = k].submits = e.submits
        /\ [e EXCEPT !.answer = a, !.got = n, !.known = k].cancels = e.cancels
    BY <1>6, <1>7, <1>8 DEF JobRecs
  <2> QED
    BY <1>3, <1>9, <2>1
<1>11. http' \in HttpRecs /\ (http'.open \/ http'.fails < FailureThreshold)
  BY <1>1, VenueConstants DEF Answered, HttpRecs
<1>12. v.arrived + v.queued <= (venue.arrived + venue.queued) + (IF job.pc = "submit" THEN 1 ELSE 0)
  <2>1. venue.arrived \in Nat /\ venue.queued \in Nat
    BY <1>1 DEF VenueRecs
  <2> QED
    BY <1>2, <2>1
<1>13. /\ j.submits = IF job.pc = "submit" THEN 1 ELSE job.submits
       /\ j.cancels = IF job.pc = "cancel" THEN 1 ELSE job.cancels
       /\ j.answer # "none" /\ j.tries = job.tries
       /\ j.answer \in TerminalStatus => v.status = j.answer
       /\ j.got <= v.fills
       /\ j.pc = "account" /\ j.answer \notin {"none", "error"} => j.got = v.fills
  BY <1>3, <1>6, <1>7, <1>10
<1> QED
  BY <1>1, <1>2, <1>10, <1>11, <1>12, <1>13, RequestMoves

\* No usable reply, or a refusal: the attempt ends in an error, an absence or another try,
\* whatever became of the request at the venue.
LEMMA FailedMoves ==
    ASSUME VenueInv, Asking, UNCHANGED <<provider, order>>,
           http' \in HttpRecs, http'.open \/ http'.fails < FailureThreshold,
           NEW v \in VenueRecs, venue' = v, v.fills = venue.fills,
           venue.status \in TerminalStatus => v.status = venue.status,
           v.status = "FILLED" <=> venue.status = "FILLED", v.status = "none" => venue.status = "none",
           v.arrived + v.queued <= (venue.arrived + venue.queued) + (IF job.pc = "submit" THEN 1 ELSE 0),
           \/ job' = [Entered(job) EXCEPT !.answer = "error"]
           \/ job' = [Entered(job) EXCEPT !.answer = "absent"] /\ job.pc # "account"
           \/ job' = [Entered(job) EXCEPT !.tries = @ + 1] /\ job.tries < Retries(job.pc)
    PROVE  VenueInv'
<1>1. /\ VenueTypes /\ venue \in VenueRecs /\ job \in JobRecs /\ job.answer = "none"
      /\ job.tries \in 0..MaxRetries /\ MaxRetries \in Nat
  BY VenueConstants DEF VenueInv, VenueTypes, Asking, JobRecs
<1>2. PICK e \in JobRecs : /\ e = Entered(job) /\ e.pc = job.pc /\ e.tries = job.tries /\ e.got = job.got
                           /\ e.answer = job.answer
                           /\ e.submits = IF job.pc = "submit" THEN 1 ELSE job.submits
                           /\ e.cancels = IF job.pc = "cancel" THEN 1 ELSE job.cancels
  BY <1>1, EnteredFields
<1>3. job.got <= v.fills
  BY DEF VenueInv, AnswersHold
<1>4. CASE \E a \in {"error", "absent"} : /\ job' = [e EXCEPT !.answer = a]
                                          /\ a = "error" \/ job.pc # "account"
  <2>1. PICK a \in {"error", "absent"} : /\ job' = [e EXCEPT !.answer = a] /\ (a = "error" \/ job.pc # "account")
    BY <1>4
  <2>2. a \in Answers /\ a \notin TerminalStatus /\ a # "none"
    BY DEF Answers, TerminalStatus
  <2>3. PICK j \in JobRecs : /\ job' = j /\ j.pc = e.pc /\ j.tries = e.tries /\ j.answer = a /\ j.got = e.got
                             /\ j.submits = e.submits /\ j.cancels = e.cancels
    BY <2>1, <2>2 DEF JobRecs
  <2> QED
    BY <1>1, <1>2, <1>3, <2>1, <2>2, <2>3, RequestMoves
<1>5. CASE job' = [e EXCEPT !.tries = @ + 1] /\ job.tries < Retries(job.pc)
  <2>1. PICK n \in 0..MaxRetries : n = job.tries + 1
    <3>1. job.tries < MaxRetries
      BY <1>1, <1>5 DEF Retries
    <3> QED
      BY <1>1, <3>1
  <2>2. job' = [e EXCEPT !.tries = n]
    BY <1>2, <1>5, <2>1
  <2>3. PICK j \in JobRecs : /\ job' = j /\ j.pc = e.pc /\ j.tries = n /\ j.answer = e.answer /\ j.got = e.got
                             /\ j.submits = e.submits /\ j.cancels = e.cancels
    BY <2>2 DEF JobRecs
  <2>4. "none" \notin TerminalStatus
    BY DEF TerminalStatus
  <2> QED
    BY <1>1, <1>2, <1>3, <1>5, <2>1, <2>3, <2>4, RequestMoves
<1> QED
  BY <1>2, <1>4, <1>5

\* A request that does not get its reply, in every way that happens.
LEMMA RequestsFail ==
    ASSUME VenueInv, Refused \/ Unanswered \/ CircuitRefuses
    PROVE  VenueInv'
<1>1. /\ VenueTypes /\ venue \in VenueRecs /\ http \in HttpRecs /\ (http.open \/ http.fails < FailureThreshold)
      /\ venue.arrived \in Nat /\ venue.queued \in Nat
  BY DEF VenueInv, VenueTypes, VenueRecs
<1>2. CASE UNCHANGED <<provider, http, venue, order>> /\ Asking
           /\ \E a \in {"error", "absent"} : /\ job' = [Entered(job) EXCEPT !.answer = a]
                                             /\ a = "error" \/ job.pc # "account"
  <2>1. venue.arrived + venue.queued
           <= (venue.arrived + venue.queued) + (IF job.pc = "submit" THEN 1 ELSE 0)
    BY <1>1
  <2> QED
    BY <1>1, <1>2, <2>1, FailedMoves
<1>3. CASE Refused
  BY <1>2, <1>3 DEF Refused
<1>4. CASE CircuitRefuses
  BY <1>2, <1>4 DEF CircuitRefuses
<1>5. CASE Unanswered
  <2>1. /\ Asking /\ ~http.open /\ UNCHANGED <<provider, order>>
        /\ http' = Failed(http)
        /\ \/ job' = [Entered(job) EXCEPT !.tries = @ + 1] /\ job.tries < Retries(job.pc)
           \/ job' = [Entered(job) EXCEPT !.answer = "error"]
    BY <1>5 DEF Unanswered
  <2>2. http' \in HttpRecs /\ (http'.open \/ http'.fails < FailureThreshold)
    BY <1>1, <2>1, BreakerCounts
  <2>3. PICK v \in VenueRecs :
           /\ venue' = v /\ v.fills = venue.fills
           /\ venue.status \in TerminalStatus => v.status = venue.status
           /\ v.status = "FILLED" <=> venue.status = "FILLED"
           /\ v.status = "none" => venue.status = "none"
           /\ v.arrived + v.queued <= (venue.arrived + venue.queued) + (IF job.pc = "submit" THEN 1 ELSE 0)
    <3>1. CASE venue' \in Executed(venue, job.pc)
      <4>1. PICK v \in VenueRecs :
                /\ venue' = v /\ v.queued = venue.queued /\ v.fills = venue.fills
                /\ v.arrived = IF job.pc = "submit" THEN venue.arrived + 1 ELSE venue.arrived
                /\ venue.status \in TerminalStatus => v.status = venue.status
                /\ v.status = "FILLED" <=> venue.status = "FILLED"
                /\ v.status = "none" => venue.status = "none"
        BY <1>1, <3>1, ExecutedEffects
      <4> QED
        BY <1>1, <4>1
    <3>2. CASE venue' = venue
      BY <1>1, <3>2
    <3>3. CASE job.pc = "submit" /\ venue' = [venue EXCEPT !.queued = @ + 1]
      <4>1. PICK n \in Nat : n = venue.queued + 1
        BY <1>1
      <4>2. venue' = [venue EXCEPT !.queued = n]
        BY <3>3, <4>1
      <4>3. PICK v \in VenueRecs : /\ venue' = v /\ v.queued = n /\ v.arrived = venue.arrived
                                   /\ v.fills = venue.fills /\ v.status = venue.status
        BY <1>1, <4>2, QueueFields
      <4>4. v.arrived + v.queued <= (venue.arrived + venue.queued) + 1
        BY <1>1, <4>1, <4>3
      <4> QED
        BY <3>3, <4>3, <4>4
    <3> QED
      BY <1>5, <3>1, <3>2, <3>3 DEF Unanswered
  <2> QED
    BY <2>1, <2>2, <2>3, FailedMoves
<1> QED
  BY <1>3, <1>4, <1>5

\* The first state satisfies the invariant.
LEMMA InitVenue == VenueInit => VenueInv
<1> SUFFICES ASSUME VenueInit PROVE VenueInv
  OBVIOUS
<1>1. /\ provider \in Providers /\ http = [fails |-> 0, open |-> FALSE]
      /\ venue = [queued |-> 0, arrived |-> 0, status |-> "none", fills |-> 0]
      /\ order = [state |-> "ROUTED", fills |-> 0, cancelRow |-> FALSE]
      /\ job = [pc |-> "submit", tries |-> 0, answer |-> "none", got |-> 0, known |-> FALSE,
                late |-> FALSE, submits |-> 0, cancels |-> 0]
  BY DEF VenueInit
<1>2. /\ MaxRetries \in Nat /\ FailureThreshold \in Nat \ {0} /\ Quantity \in Nat \ {0}
  BY VenueConstants
<1>3. "none" \in Statuses /\ "ROUTED" \in OrderStates /\ "submit" \in JobPcs /\ "none" \in Answers
  BY DEF Statuses, OrderStates, JobPcs, Requests, Answers
<1>4. VenueTypes
  <2>1. http \in HttpRecs /\ http.fails < FailureThreshold
    BY <1>1, <1>2 DEF HttpRecs
  <2>2. venue \in VenueRecs
    BY <1>1, <1>2, <1>3 DEF VenueRecs
  <2>3. order \in OrderRecs
    BY <1>1, <1>2, <1>3 DEF OrderRecs
  <2>4. job \in JobRecs
    BY <1>1, <1>2, <1>3 DEF JobRecs
  <2> QED
    BY <1>1, <2>1, <2>2, <2>3, <2>4 DEF VenueTypes
<1>5. VenueTruth /\ AnswersHold /\ ClosedAtVenue
  BY <1>1, <1>2 DEF VenueTruth, AnswersHold, ClosedAtVenue, TerminalStatus, Closing
<1>6. ChecksHold /\ WritesCounted /\ CancelsOwned
  BY <1>1, <1>2 DEF ChecksHold, WritesCounted, CancelsOwned, Checks, Written
<1> QED
  BY <1>4, <1>5, <1>6 DEF VenueInv

\* Every step keeps it.
LEMMA NextVenue == VenueInv /\ [VenueNext]_venueVars => VenueInv'
<1> SUFFICES ASSUME VenueInv, [VenueNext]_venueVars PROVE VenueInv'
  OBVIOUS
<1>1. CASE LifecycleStep
  BY <1>1, AnsweredMoves, RequestsFail, ScriptKeeps DEF LifecycleStep
<1>2. CASE LateArrival \/ VenueTrades
  BY <1>2, ArrivalMoves, TradeMoves
<1>3. CASE CircuitCools \/ DeadlinePasses \/ VenueCrash
  BY <1>3, ClockMoves
<1>4. CASE UNCHANGED venueVars
  <2>1. UNCHANGED <<provider, http, venue, order, job>>
    BY <1>4 DEF venueVars
  <2> QED
    BY <2>1 DEF VenueInv, VenueTypes, VenueTruth, AnswersHold, ClosedAtVenue, ChecksHold, WritesCounted,
       CancelsOwned, Written
<1> QED
  BY <1>1, <1>2, <1>3, <1>4 DEF VenueNext

\* The records keep their types for every number of retries, threshold and quantity.
THEOREM VenueTypesTheorem == VenueSpec => []VenueTypeOK
<1>1. VenueInit => VenueInv
  BY InitVenue
<1>2. VenueInv /\ [VenueNext]_venueVars => VenueInv'
  BY NextVenue
<1>3. VenueInv => VenueTypeOK
  BY VenueSuffices
<1> QED
  BY <1>1, <1>2, <1>3, PTL DEF VenueSpec

\* A Binance order is put before the venue at most once, whatever reply is lost, however many
\* retries the client is configured with and however late a write arrives
\* (SafeHttpClient.request under the connector's never-retry of signed writes).
THEOREM WrittenOnceTheorem == VenueSpec => []WrittenOnce
<1>1. VenueInit => VenueInv
  BY InitVenue
<1>2. VenueInv /\ [VenueNext]_venueVars => VenueInv'
  BY NextVenue
<1>3. VenueInv => WrittenOnce
  BY VenueSuffices
<1> QED
  BY <1>1, <1>2, <1>3, PTL DEF VenueSpec

\* A lifecycle run that reports success has closed its order at the venue and booked every
\* fill, and the evidence of any ended Binance run owns up to its signed calls.
THEOREM ReportIsTrueTheorem == VenueSpec => []ReportIsTrue
<1>1. VenueInit => VenueInv
  BY InitVenue
<1>2. VenueInv /\ [VenueNext]_venueVars => VenueInv'
  BY NextVenue
<1>3. VenueInv => ReportIsTrue
  BY VenueSuffices
<1> QED
  BY <1>1, <1>2, <1>3, PTL DEF VenueSpec

-----------------------------------------------------------------------------
(* The risk book *)

\* The limits a fill must keep, of positions and cash at the market's marks.
WithinLimits(pos, cash, marks) ==
    /\ GrossOf(Notionals(pos, marks)) <= Limit.max_gross
    /\ NetOf(Notionals(pos, marks)) <= Limit.max_net
    /\ cash >= -Limit.max_cash_deficit

OrderShape(o) == o = [id |-> o.id, inst |-> o.inst, qty |-> o.qty, price |-> o.price, fresh |-> o.fresh]
RiskShapes ==
    /\ book = [cash |-> book.cash, pos |-> book.pos, marks |-> book.marks]
    /\ market = [marks |-> market.marks, veto |-> market.veto]
    /\ fills = [count |-> fills.count, since |-> fills.since, fees |-> fills.fees]
    /\ \A o \in working : OrderShape(o)

\* A fresh order keeps the limits if it fills now, but for its fee: its check saw this
\* account's positions and cash and these marks.
FreshOrdersFit ==
    \A o \in working : o.fresh =>
        WithinLimits(AfterOrder(book, o), book.cash - o.qty * o.price, market.marks)

RiskInv == RiskShapes /\ FreshOrdersFit

\* Orders whose check is out of date keep what they ask for.
LEMMA StaleOrders ==
    ASSUME NEW orders, \A o \in orders : OrderShape(o)
    PROVE  \A x \in Stale(orders) : OrderShape(x) /\ x.fresh = FALSE
<1> SUFFICES ASSUME NEW x \in Stale(orders) PROVE OrderShape(x) /\ x.fresh = FALSE
  OBVIOUS
<1>1. PICK o \in orders : x = [o EXCEPT !.fresh = FALSE]
  BY DEF Stale
<1>2. PICK k, a, b, c, d : o = [id |-> k, inst |-> a, qty |-> b, price |-> c, fresh |-> d]
  BY DEF OrderShape
<1>3. x = [id |-> k, inst |-> a, qty |-> b, price |-> c, fresh |-> FALSE]
  BY <1>1, <1>2
<1> QED
  BY <1>3 DEF OrderShape

\* A fill changes the book by the order's quantity, its price and its fee, and nothing else.
LEMMA FillIs ==
    ASSUME RiskShapes, NEW o, NEW fee, FillOrder(o, fee)
    PROVE  LET follows == fills.since >= 0 /\ o.price = market.marks[o.inst]
           IN  /\ UNCHANGED <<market, decision>> /\ working' = Stale(working \ {o})
               /\ book'.cash = book.cash - o.qty * o.price - fee /\ book'.pos = AfterOrder(book, o)
               /\ book' = [cash |-> book'.cash, pos |-> book'.pos, marks |-> book'.marks]
               /\ fills' = [count |-> fills'.count, since |-> fills'.since, fees |-> fills'.fees]
               /\ fills'.since = IF o.fresh THEN 0 ELSE IF follows THEN fills.since + 1 ELSE Unknown
               /\ fills'.fees = IF o.fresh THEN fee ELSE IF follows THEN fills.fees + fee ELSE 0
<1> DEFINE follows == fills.since >= 0 /\ o.price = market.marks[o.inst]
           since == IF o.fresh THEN 0 ELSE IF follows THEN fills.since + 1 ELSE Unknown
           fees == IF o.fresh THEN fee ELSE IF follows THEN fills.fees + fee ELSE 0
<1>1. PICK c, p, m : book = [cash |-> c, pos |-> p, marks |-> m]
  BY DEF RiskShapes
<1>2. book' = [book EXCEPT !.pos[o.inst] = @ + o.qty, !.cash = @ - o.qty * o.price - fee]
  BY DEF FillOrder
<1>3. book' = [cash |-> c - o.qty * o.price - fee, pos |-> [p EXCEPT ![o.inst] = @ + o.qty], marks |-> m]
  BY <1>1, <1>2
<1>4. /\ book'.cash = book.cash - o.qty * o.price - fee /\ book'.pos = AfterOrder(book, o)
      /\ book' = [cash |-> book'.cash, pos |-> book'.pos, marks |-> book'.marks]
  BY <1>1, <1>3 DEF AfterOrder
<1>5. fills' = [count |-> fills.count + 1, since |-> since, fees |-> fees]
  BY DEF FillOrder
<1> HIDE DEF since, fees
<1>6. /\ fills'.since = since /\ fills'.fees = fees
      /\ fills' = [count |-> fills'.count, since |-> fills'.since, fees |-> fills'.fees]
  BY <1>5
<1>7. UNCHANGED <<market, decision>> /\ working' = Stale(working \ {o})
  BY DEF FillOrder
<1> QED
  BY <1>4, <1>6, <1>7 DEF since, fees

\* The marks and the veto of the market move apart, as do those of the account.
LEMMA RiskRecords ==
    ASSUME RiskShapes, NEW m, NEW v
    PROVE  /\ [market EXCEPT !.marks = m] = [marks |-> m, veto |-> market.veto]
           /\ [market EXCEPT !.veto = v] = [marks |-> market.marks, veto |-> v]
           /\ [book EXCEPT !.marks = m] = [cash |-> book.cash, pos |-> book.pos, marks |-> m]
           /\ \E a : [fills EXCEPT !.since = Unknown, !.fees = 0] = [count |-> a, since |-> Unknown, fees |-> 0]
<1>1. /\ \E a, b : market = [marks |-> a, veto |-> b]
      /\ \E a, b, c : book = [cash |-> a, pos |-> b, marks |-> c]
      /\ \E a, b, c : fills = [count |-> a, since |-> b, fees |-> c]
  BY DEF RiskShapes
<1>2. /\ [market EXCEPT !.marks = m] = [marks |-> m, veto |-> market.veto]
      /\ [market EXCEPT !.veto = v] = [marks |-> market.marks, veto |-> v]
  BY <1>1
<1>3. [book EXCEPT !.marks = m] = [cash |-> book.cash, pos |-> book.pos, marks |-> m]
  BY <1>1
<1>4. \E a : [fills EXCEPT !.since = Unknown, !.fees = 0] = [count |-> a, since |-> Unknown, fees |-> 0]
  <2>1. PICK a, b, c : fills = [count |-> a, since |-> b, fees |-> c]
    BY <1>1
  <2>2. \A d : [fills EXCEPT !.since = d] = [count |-> a, since |-> d, fees |-> c]
    BY <2>1
  <2>3. \A d : [[count |-> a, since |-> d, fees |-> c] EXCEPT !.fees = 0] = [count |-> a, since |-> d, fees |-> 0]
    OBVIOUS
  <2>4. [fills EXCEPT !.since = Unknown, !.fees = 0] = [[fills EXCEPT !.since = Unknown] EXCEPT !.fees = 0]
    BY <2>1
  <2> QED
    BY <2>2, <2>3, <2>4, Zenon
<1> QED
  BY <1>2, <1>3, <1>4

\* No order is worked and none has filled in the first state.
LEMMA InitRisk == RiskInit => RiskInv
<1> SUFFICES ASSUME RiskInit PROVE RiskInv
  OBVIOUS
<1>1. RiskShapes
  BY DEF RiskInit, RiskShapes
<1>2. FreshOrdersFit
  BY DEF RiskInit, FreshOrdersFit
<1> QED
  BY <1>1, <1>2 DEF RiskInv

\* What a step leaves of the fit of the orders: with the same positions, cash and marks, and
\* no new order, all of it.
LEMMA FitKept ==
    ASSUME RiskInv, book'.pos = book.pos, book'.cash = book.cash, market'.marks = market.marks,
           UNCHANGED working
    PROVE  FreshOrdersFit'
<1>1. \A o : AfterOrder(book, o)' = AfterOrder(book, o)
  BY DEF AfterOrder
<1> QED
  BY <1>1 DEF RiskInv, FreshOrdersFit, WithinLimits

\* Every step keeps the invariant: a check looks at the whole account before an order is
\* fresh, and a fill or a move of a mark ends the freshness of the others.
LEMMA NextRisk == RiskInv /\ [RiskNext]_riskVars => RiskInv'
<1> SUFFICES ASSUME RiskInv, [RiskNext]_riskVars PROVE RiskInv'
  OBVIOUS
<1>1. RiskShapes /\ FreshOrdersFit
  BY DEF RiskInv
<1>2. ASSUME NEW S, NEW ask, Decide(ask) PROVE RiskInv'
  <2>1. UNCHANGED <<book, market, working, fills>>
    BY <1>2 DEF Decide
  <2>2. RiskShapes'
    BY <1>1, <2>1 DEF RiskShapes, OrderShape
  <2> QED
    BY <2>1, <2>2, FitKept DEF RiskInv
<1>3. ASSUME NEW i, CheckOrder(i) PROVE RiskInv'
  <2>1. UNCHANGED <<book, market, fills>>
    BY <1>3 DEF CheckOrder
  <2>2. PICK k, q : LET o == [id |-> k, inst |-> i, qty |-> q, price |-> market.marks[i], fresh |-> TRUE]
                    IN WithinOrderLimits(book, market.marks, o) /\ working' = working \cup {o}
    BY <1>3 DEF CheckOrder
  <2>3. PICK o : /\ o = [id |-> k, inst |-> i, qty |-> q, price |-> market.marks[i], fresh |-> TRUE]
                 /\ WithinOrderLimits(book, market.marks, o) /\ working' = working \cup {o}
    BY <2>2
  <2>4. OrderShape(o)
    BY <2>3 DEF OrderShape
  <2>5. WithinLimits(AfterOrder(book, o), book.cash - o.qty * o.price, market.marks)
    BY <2>3 DEF WithinOrderLimits, WithinLimits
  <2>6. RiskShapes'
    BY <1>1, <2>1, <2>3, <2>4 DEF RiskShapes, OrderShape
  <2>7. \A x : AfterOrder(book, x)' = AfterOrder(book, x)
    BY <2>1 DEF AfterOrder
  <2>8. FreshOrdersFit'
    <3> SUFFICES ASSUME NEW x \in working', x.fresh
                 PROVE  WithinLimits(AfterOrder(book, x), book.cash - x.qty * x.price, market.marks)'
      BY DEF FreshOrdersFit
    <3>1. WithinLimits(AfterOrder(book, x), book.cash - x.qty * x.price, market.marks)
      BY <1>1, <2>3, <2>5 DEF FreshOrdersFit
    <3> QED
      BY <2>1, <2>7, <3>1 DEF WithinLimits
  <2> QED
    BY <2>6, <2>8 DEF RiskInv
<1>4. ASSUME NEW i, AccountMarked(i) PROVE RiskInv'
  <2>1. UNCHANGED <<market, working, fills>>
    BY <1>4 DEF AccountMarked
  <2>2. PICK m : book' = [book EXCEPT !.marks = m]
    BY <1>1, <1>4 DEF AccountMarked, RiskShapes
  <2>3. book' = [cash |-> book.cash, pos |-> book.pos, marks |-> m]
    BY <1>1, <2>2, RiskRecords
  <2>4. RiskShapes'
    BY <1>1, <2>1, <2>3 DEF RiskShapes, OrderShape
  <2> QED
    BY <2>1, <2>3, <2>4, FitKept DEF RiskInv
<1>5. ASSUME NEW i, NEW p, MarketMoves(i, p) PROVE RiskInv'
  <2>1. /\ UNCHANGED book /\ working' = Stale(working) /\ fills' = [fills EXCEPT !.since = Unknown, !.fees = 0]
    BY <1>5 DEF MarketMoves
  <2>2. PICK m : market' = [market EXCEPT !.marks = m]
    BY <1>1, <1>5 DEF MarketMoves, RiskShapes
  <2>3. /\ market' = [marks |-> m, veto |-> market.veto]
        /\ \E a : fills' = [count |-> a, since |-> Unknown, fees |-> 0]
    BY <1>1, <2>1, <2>2, RiskRecords
  <2>4. \A x \in working' : OrderShape(x) /\ x.fresh = FALSE
    BY <1>1, <2>1, StaleOrders DEF RiskShapes
  <2>5. RiskShapes'
    BY <1>1, <2>1, <2>3, <2>4 DEF RiskShapes, OrderShape
  <2>6. FreshOrdersFit'
    BY <2>4 DEF FreshOrdersFit
  <2> QED
    BY <2>5, <2>6 DEF RiskInv
<1>6. ASSUME NEW o \in working, NEW fee, FillOrder(o, fee) PROVE RiskInv'
  <2>1. UNCHANGED market /\ working' = Stale(working \ {o})
    BY <1>1, <1>6, FillIs
  <2>2. /\ book' = [cash |-> book'.cash, pos |-> book'.pos, marks |-> book'.marks]
        /\ fills' = [count |-> fills'.count, since |-> fills'.since, fees |-> fills'.fees]
    BY <1>1, <1>6, FillIs
  <2>3. \A x \in working' : OrderShape(x) /\ x.fresh = FALSE
    BY <1>1, <2>1, StaleOrders DEF RiskShapes
  <2>4. RiskShapes'
    BY <1>1, <2>1, <2>2, <2>3 DEF RiskShapes, OrderShape
  <2>5. FreshOrdersFit'
    BY <2>3 DEF FreshOrdersFit
  <2> QED
    BY <2>4, <2>5 DEF RiskInv
<1>7. ASSUME NEW v, VetoChanges(v) PROVE RiskInv'
  <2>1. UNCHANGED <<book, working, fills>>
    BY <1>7 DEF VetoChanges
  <2>2. PICK w : market' = [market EXCEPT !.veto = w]
    BY <1>1, <1>7 DEF VetoChanges, RiskShapes
  <2>3. market' = [marks |-> market.marks, veto |-> w]
    BY <1>1, <2>2, RiskRecords
  <2>4. RiskShapes'
    BY <1>1, <2>1, <2>3 DEF RiskShapes, OrderShape
  <2> QED
    BY <2>1, <2>3, <2>4, FitKept DEF RiskInv
<1>8. CASE UNCHANGED riskVars
  <2>1. UNCHANGED <<book, market, working, fills>>
    BY <1>8 DEF riskVars
  <2>2. RiskShapes'
    BY <1>1, <2>1 DEF RiskShapes, OrderShape
  <2> QED
    BY <2>1, <2>2, FitKept DEF RiskInv
<1> QED
  BY <1>2, <1>3, <1>4, <1>5, <1>6, <1>7, <1>8 DEF RiskNext

-----------------------------------------------------------------------------
(* The reduction of a target *)

\* The powers of two that the depths of the bisection stand for, by the least depth at which
\* their recursion would have no solution.
LEMMA PowersExist == Pow2 = [n \in 0..Depth |-> IF n = 0 THEN 1 ELSE 2 * Pow2[n - 1]]
<1> DEFINE Good(N) == \E f : f = [n \in 0..N |-> IF n = 0 THEN 1 ELSE 2 * f[n - 1]]
           B == {N \in Nat : ~ Good(N)}
<1>1. SUFFICES ASSUME B # {} PROVE FALSE
  <2>1. Good(Depth)
    BY <1>1, RiskConstants
  <2> QED
    BY <2>1, Zenon DEF Pow2
<1>2. PICK N \in B : \A y \in B : N <= y
  <2>1. B \in SUBSET Nat
    OBVIOUS
  <2> HIDE DEF B
  <2> QED
    BY <1>1, <2>1, LeastNat
<1>3. N # 0
  <2>1. [n \in 0..0 |-> 1] = [n \in 0..0 |-> IF n = 0 THEN 1 ELSE 2 * [k \in 0..0 |-> 1][n - 1]]
    OBVIOUS
  <2>2. Good(0)
    BY <2>1
  <2> QED
    BY <2>2
<1>4. PICK f : f = [n \in 0..(N - 1) |-> IF n = 0 THEN 1 ELSE 2 * f[n - 1]]
  <2>1. N - 1 \in Nat /\ ~ (N <= N - 1)
    BY <1>3
  <2>2. Good(N - 1)
    BY <1>2, <2>1
  <2> QED
    BY <2>2
<1> DEFINE g == [n \in 0..N |-> IF n = 0 THEN 1 ELSE 2 * f[n - 1]]
<1>5. \A n \in 0..(N - 1) : g[n] = f[n]
  BY <1>4
<1>6. \A n \in 0..N : n # 0 => n - 1 \in 0..(N - 1)
  OBVIOUS
<1>7. g = [n \in 0..N |-> IF n = 0 THEN 1 ELSE 2 * g[n - 1]]
  <2>1. \A n \in 0..N : g[n] = IF n = 0 THEN 1 ELSE 2 * g[n - 1]
    BY <1>5, <1>6
  <2>2. DOMAIN g = 0..N /\ g = [n \in DOMAIN g |-> g[n]]
    OBVIOUS
  <2> HIDE DEF g
  <2> QED
    BY <2>1, <2>2
<1>8. Good(N)
  <2> HIDE DEF g
  <2> QED
    BY <1>7, Zenon
<1> QED
  BY <1>8

\* They double, and are positive.
LEMMA PowersDouble ==
    /\ Pow2[0] = 1 /\ \A n \in 1..Depth : Pow2[n] = 2 * Pow2[n - 1]
    /\ \A n \in 0..Depth : Pow2[n] \in Nat \ {0}
    /\ Unit \in Nat /\ Unit > 1
<1>1. Depth \in Nat \ {0}
  BY RiskConstants
<1>2. Pow2[0] = 1 /\ \A n \in 1..Depth : Pow2[n] = 2 * Pow2[n - 1]
  <2>1. \A n \in 0..Depth : Pow2[n] = IF n = 0 THEN 1 ELSE 2 * Pow2[n - 1]
    BY PowersExist
  <2> QED
    BY <1>1, <2>1
<1>3. \A n \in 0..Depth : Pow2[n] \in Nat \ {0}
  <2> DEFINE B == {n \in 0..Depth : Pow2[n] \notin Nat \ {0}}
  <2>1. SUFFICES ASSUME B # {} PROVE FALSE
    OBVIOUS
  <2>2. PICK n \in B : \A y \in B : n <= y
    <3>1. B \in SUBSET Nat
      BY <1>1
    <3> HIDE DEF B
    <3> QED
      BY <2>1, <3>1, LeastNat
  <2>3. n # 0 /\ n \in 1..Depth
    BY <1>1, <1>2
  <2>4. n - 1 \in 0..Depth /\ ~ (n <= n - 1)
    BY <1>1, <2>3
  <2>5. Pow2[n - 1] \in Nat \ {0}
    BY <2>2, <2>4
  <2> QED
    BY <1>2, <2>3, <2>5
<1>4. Pow2[Depth - 1] \in Nat \ {0} /\ Unit = 2 * Pow2[Depth - 1]
  BY <1>1, <1>2, <1>3 DEF Unit
<1> QED
  BY <1>1, <1>2, <1>3, <1>4

\* The bisection has its Depth steps, by the least number of steps it could not have.
LEMMA BisectionRuns ==
    ASSUME NEW b, NEW mk, NEW want
    PROVE  \E low : /\ low = [n \in 0..Depth |-> IF n = 0 THEN 0 ELSE Midpoint(b, mk, want, low[n - 1], n)]
                    /\ Bisect(b, mk, want) = low[Depth]
<1> DEFINE Mid(x, n) == Midpoint(b, mk, want, x, n)
           Good(N) == \E f : f = [n \in 0..N |-> IF n = 0 THEN 0 ELSE Mid(f[n - 1], n)]
           B == {N \in Nat : ~ Good(N)}
<1> HIDE DEF Mid
<1>1. SUFFICES ASSUME B # {} PROVE FALSE
  <2>1. Good(Depth)
    BY <1>1, RiskConstants
  <2> DEFINE low == CHOOSE f : f = [n \in 0..Depth |-> IF n = 0 THEN 0 ELSE Mid(f[n - 1], n)]
  <2>2. low = [n \in 0..Depth |-> IF n = 0 THEN 0 ELSE Mid(low[n - 1], n)]
    BY <2>1, Zenon
  <2>3. Bisect(b, mk, want) = low[Depth]
    BY Zenon DEF Bisect, Mid
  <2> HIDE DEF low
  <2> QED
    BY <2>2, <2>3, Zenon DEF Mid
<1>2. PICK N \in B : \A y \in B : N <= y
  <2>1. B \in SUBSET Nat
    OBVIOUS
  <2> HIDE DEF B
  <2> QED
    BY <1>1, <2>1, LeastNat
<1>3. N # 0
  <2> DEFINE z == [n \in 0..0 |-> 0]
  <2>1. z = [n \in 0..0 |-> IF n = 0 THEN 0 ELSE Mid(z[n - 1], n)]
    OBVIOUS
  <2>2. Good(0)
    BY <2>1
  <2> QED
    BY <2>2
<1>4. PICK f : f = [n \in 0..(N - 1) |-> IF n = 0 THEN 0 ELSE Mid(f[n - 1], n)]
  <2>1. N - 1 \in Nat /\ ~ (N <= N - 1)
    BY <1>3
  <2>2. Good(N - 1)
    BY <1>2, <2>1
  <2> QED
    BY <2>2
<1> DEFINE g == [n \in 0..N |-> IF n = 0 THEN 0 ELSE Mid(f[n - 1], n)]
<1>5. \A n \in 0..(N - 1) : g[n] = f[n]
  BY <1>4
<1>6. \A n \in 0..N : n # 0 => n - 1 \in 0..(N - 1)
  OBVIOUS
<1>7. g = [n \in 0..N |-> IF n = 0 THEN 0 ELSE Mid(g[n - 1], n)]
  <2>1. \A n \in 0..N : g[n] = IF n = 0 THEN 0 ELSE Mid(g[n - 1], n)
    BY <1>5, <1>6
  <2>2. DOMAIN g = 0..N /\ g = [n \in DOMAIN g |-> g[n]]
    OBVIOUS
  <2> HIDE DEF g
  <2> QED
    BY <2>1, <2>2
<1>8. Good(N)
  <2> HIDE DEF g
  <2> QED
    BY <1>7, Zenon
<1> QED
  BY <1>8

\* What the bisection finds, with no assumption on the limits: a factor below the whole
\* target, clean unless it is none, and none only where the smallest step is not clean.
LEMMA BisectionFinds ==
    ASSUME NEW b, NEW mk, NEW want
    PROVE  /\ Bisect(b, mk, want) \in 0..(Unit - 1)
           /\ Bisect(b, mk, want) # 0 => Clean(b, mk, want, Bisect(b, mk, want))
           /\ Bisect(b, mk, want) = 0 => ~ Clean(b, mk, want, 1)
<1> DEFINE C(k) == Clean(b, mk, want, k)
<1>1. PICK low : /\ low = [n \in 0..Depth |-> IF n = 0 THEN 0 ELSE Midpoint(b, mk, want, low[n - 1], n)]
                 /\ Bisect(b, mk, want) = low[Depth]
  BY BisectionRuns
<1>2. low[0] = 0
  BY <1>1, RiskConstants
<1>3. \A n \in 1..Depth : LET mid == low[n - 1] + Pow2[Depth - n]
                          IN low[n] = IF C(mid) THEN mid ELSE low[n - 1]
  <2>1. \A n \in 0..Depth : low[n] = IF n = 0 THEN 0 ELSE Midpoint(b, mk, want, low[n - 1], n)
    BY <1>1
  <2>2. \A n \in 1..Depth : n \in 0..Depth /\ n # 0
    BY RiskConstants
  <2>3. \A n \in 1..Depth : low[n] = Midpoint(b, mk, want, low[n - 1], n)
    BY <2>1, <2>2
  <2> QED
    BY <2>3, Zenon DEF Midpoint
<1> HIDE DEF C
<1> DEFINE Loop(n) == /\ low[n] \in Nat /\ low[n] + Pow2[Depth - n] <= Unit
                      /\ low[n] # 0 => C(low[n])
                      /\ n # 0 /\ low[n] = 0 => ~ C(Pow2[Depth - n])
           B == {n \in 0..Depth : ~ Loop(n)}
<1>4. Loop(Depth)
  <2>1. SUFFICES ASSUME B # {} PROVE FALSE
    BY RiskConstants
  <2>2. PICK n \in B : \A y \in B : n <= y
    <3>1. B \in SUBSET Nat
      BY RiskConstants
    <3> HIDE DEF B
    <3> QED
      BY <2>1, <3>1, LeastNat
  <2>3. n # 0
    <3>1. Loop(0)
      BY <1>2, PowersDouble, RiskConstants DEF Unit
    <3> QED
      BY <3>1
  <2>4. n \in 1..Depth /\ n - 1 \in 0..Depth /\ ~ (n <= n - 1)
    BY <2>3, RiskConstants
  <2>5. Loop(n - 1)
    BY <2>2, <2>4
  <2>6. PICK p \in Nat : /\ p > 0 /\ p = Pow2[Depth - n]
                         /\ Pow2[Depth - (n - 1)] = 2 * p
    <3>1. /\ Depth - n \in 0..Depth /\ Depth - (n - 1) \in 1..Depth
          /\ (Depth - (n - 1)) - 1 = Depth - n
      BY <2>4, RiskConstants
    <3> QED
      BY <3>1, PowersDouble
  <2>7. low[n] = IF C(low[n - 1] + p) THEN low[n - 1] + p ELSE low[n - 1]
    BY <1>3, <2>4, <2>6
  <2>8. low[n - 1] \in Nat /\ low[n - 1] + 2 * p <= Unit /\ (low[n - 1] # 0 => C(low[n - 1]))
    BY <2>5, <2>6
  <2>9. Unit \in Nat
    BY PowersDouble
  <2>10. low[n] \in Nat /\ low[n] + p <= Unit
    BY <2>6, <2>7, <2>8, <2>9
  <2>11. low[n] # 0 => C(low[n])
    BY <2>7, <2>8
  <2>12. low[n] = 0 => ~ C(p)
    <3>1. CASE C(low[n - 1] + p)
      BY <2>6, <2>7, <2>8, <3>1
    <3>2. CASE ~ C(low[n - 1] + p)
      <4>1. low[n] = low[n - 1]
        BY <2>7, <3>2
      <4>2. low[n - 1] = 0 => low[n - 1] + p = p
        BY <2>6
      <4> QED
        BY <3>2, <4>1, <4>2
    <3> QED
      BY <3>1, <3>2
  <2>13. Loop(n)
    BY <2>6, <2>10, <2>11, <2>12
  <2> QED
    BY <2>13
<1>5. Pow2[Depth - Depth] = 1 /\ Depth # 0
  BY PowersDouble, RiskConstants
<1>6. /\ low[Depth] \in Nat /\ low[Depth] + 1 <= Unit
      /\ low[Depth] # 0 => C(low[Depth])
      /\ low[Depth] = 0 => ~ C(1)
  BY <1>4, <1>5
<1>7. low[Depth] \in 0..(Unit - 1)
  BY <1>6, PowersDouble
<1> QED
  BY <1>1, <1>6, <1>7 DEF C

\* A sum of zeros is zero.
LEMMA SumOfZeros ==
    ASSUME NEW q, NEW S, IsFiniteSet(S), \A x \in S : q[x] = 0
    PROVE  SumFunctionOnSet(q, S) = 0
<1> DEFINE B == {T \in SUBSET S : SumFunctionOnSet(q, T) # 0}
<1>1. SUFFICES ASSUME B # {} PROVE FALSE
  OBVIOUS
<1>2. PICK T \in B : \A U \in SUBSET T : U # T => U \notin B
  <2>1. B \in SUBSET SUBSET S
    OBVIOUS
  <2> HIDE DEF B
  <2> QED
    BY <1>1, <2>1, LeastSubset
<1>3. IsFiniteSet(T) /\ T \in SUBSET S /\ SumFunctionOnSet(q, T) # 0
  BY <1>2, FS_Subset
<1>4. T # {}
  BY <1>3, SumOfNone
<1>5. Picked(T) \in T /\ T \ {Picked(T)} \in SUBSET T /\ T \ {Picked(T)} # T
  BY <1>4, PickedIs
<1>6. SumFunctionOnSet(q, T \ {Picked(T)}) = 0
  BY <1>2, <1>3, <1>5
<1>7. SumFunctionOnSet(q, T) = q[Picked(T)] + SumFunctionOnSet(q, T \ {Picked(T)})
  BY <1>3, <1>4, SumUnfold
<1> QED
  BY <1>3, <1>5, <1>6, <1>7

\* The quantities and prices a target is judged by are integers, for instruments the account
\* knows.
Judged(b, m, want) ==
    /\ DOMAIN want \in SUBSET Instruments /\ want \in [DOMAIN want -> Int]
    /\ b.pos \in [Instruments -> Int] /\ m \in [Instruments -> Int]

\* A target that trades nothing is the same at every factor, and so is the kernel's answer.
LEMMA NothingToScale ==
    ASSUME NEW b, NEW mk, NEW want, Judged(b, mk.marks, want), \A i \in DOMAIN want : want[i] = b.pos[i],
           NEW k \in Int, NEW j \in Int
    PROVE  Clean(b, mk, want, k) <=> Clean(b, mk, want, j)
<1> DEFINE m == mk.marks
<1>1. /\ \A i \in DOMAIN want : want[i] \in Int /\ b.pos[i] \in Int /\ m[i] \in Int
      /\ IsFiniteSet(DOMAIN want)
  BY RiskConstants, FS_Subset DEF Judged
<1> HIDE DEF m
<1>2. Scaled(b, want, k) = Scaled(b, want, j)
  <2>1. \A i \in DOMAIN want : (want[i] - b.pos[i]) * k = (want[i] - b.pos[i]) * j
    BY <1>1
  <2> QED
    BY <2>1 DEF Scaled
<1>3. CashTarget(b, m, want, k) = CashTarget(b, m, want, j)
  <2> DEFINE delta == [i \in DOMAIN want |-> (want[i] - b.pos[i]) * m[i]]
             cost == [i \in DOMAIN want |-> Abs2(delta[i]) \div 10]
             d == SumFunctionOnSet(delta, DOMAIN want)
             c == SumFunctionOnSet(cost, DOMAIN want)
  <2>1. \A i \in DOMAIN want : delta[i] = 0
    BY <1>1
  <2>2. \A i \in DOMAIN want : cost[i] = 0
    BY <2>1 DEF Abs2
  <2> HIDE DEF delta, cost
  <2>3. d = 0 /\ c = 0
    BY <1>1, <2>1, <2>2, SumOfZeros
  <2>4. \A x : CashTarget(b, m, want, x) = b.cash * Unit - x * (d + c)
    BY Zenon DEF CashTarget, delta, cost
  <2> HIDE DEF d, c
  <2>5. k * (d + c) = j * (d + c)
    BY <2>3
  <2> QED
    BY <2>4, <2>5
<1>4. LimitReasons(b, m, want, k) = LimitReasons(b, m, want, j)
  <2>1. \A r : r \in LimitReasons(b, m, want, k) <=> r \in LimitReasons(b, m, want, j)
    BY <1>2, <1>3 DEF LimitReasons
  <2> QED
    BY <2>1, \A r \in LimitReasons(b, m, want, k) : TRUE DEF LimitReasons
<1> QED
  BY <1>4, Zenon DEF Clean, Reasons, m

\* A target that scales to the account itself at some factor trades nothing.
LEMMA ScaledToNothing ==
    ASSUME NEW b, NEW m, NEW want, Judged(b, m, want), NEW k \in Int, k # 0,
           Scaled(b, want, k) = Scaled(b, want, 0)
    PROVE  \A i \in DOMAIN want : want[i] = b.pos[i]
<1> SUFFICES ASSUME NEW i \in DOMAIN want PROVE want[i] = b.pos[i]
  OBVIOUS
<1>1. want[i] \in Int /\ b.pos[i] \in Int /\ Unit \in Int
  BY PowersDouble DEF Judged
<1>2. b.pos[i] * Unit + (want[i] - b.pos[i]) * k = b.pos[i] * Unit + (want[i] - b.pos[i]) * 0
  <2>1. /\ Scaled(b, want, k)[i] = b.pos[i] * Unit + (want[i] - b.pos[i]) * k
        /\ Scaled(b, want, 0)[i] = b.pos[i] * Unit + (want[i] - b.pos[i]) * 0
    BY DEF Scaled
  <2> QED
    BY <2>1
<1>3. \A x, d \in Int : x + d * k = x + d * 0 => d = 0
  OBVIOUS
<1>4. b.pos[i] * Unit \in Int /\ want[i] - b.pos[i] \in Int
  BY <1>1
<1>5. want[i] - b.pos[i] = 0
  BY <1>2, <1>3, <1>4
<1> QED
  BY <1>1, <1>5

\* The answer of evaluate to a target: what a reduction grants and what is rejected.
LEMMA OutcomeIsExact ==
    ASSUME NEW b, NEW mk, NEW want, Judged(b, mk.marks, want), NEW r, r = Outcome(b, mk, want)
    PROVE  /\ r.want = want /\ r.target \in [DOMAIN want -> Int]
           /\ r.outcome = "REDUCED" => /\ mk.veto = {}
                                       /\ r.target # Scaled(b, want, 0)
                                       /\ \E k \in 1..(Unit - 1) : r.target = Scaled(b, want, k) /\ Clean(b, mk, want, k)
           /\ r.outcome = "REJECTED" /\ mk.veto = {} =>
                 DOMAIN want = {} \/ ~ Clean(b, mk, want, 0) \/ ~ Clean(b, mk, want, 1)
<1> DEFINE k == Bisect(b, mk, want)
           whole == Clean(b, mk, want, Unit)
           granted == ~ whole /\ Reducible(b, mk, want) /\ k > 0
<1>1. Unit \in Nat /\ Unit > 1
  BY PowersDouble
<1>2. k \in 0..(Unit - 1) /\ (k # 0 => Clean(b, mk, want, k)) /\ (k = 0 => ~ Clean(b, mk, want, 1))
  BY BisectionFinds
<1>3. \A x \in Int : Scaled(b, want, x) \in [DOMAIN want -> Int]
  <2>1. \A i \in DOMAIN want : want[i] \in Int /\ b.pos[i] \in Int
    BY DEF Judged
  <2>2. \A x \in Int : \A i \in DOMAIN want : b.pos[i] * Unit + (want[i] - b.pos[i]) * x \in Int
    BY <1>1, <2>1
  <2> QED
    BY <2>2 DEF Scaled
<1>4. \/ whole /\ r = [outcome |-> "APPROVED", want |-> want, target |-> Scaled(b, want, Unit)]
      \/ granted /\ r = [outcome |-> "REDUCED", want |-> want, target |-> Scaled(b, want, k)]
      \/ ~ whole /\ ~ granted /\ r = [outcome |-> "REJECTED", want |-> want, target |-> Scaled(b, want, 0)]
  BY Zenon DEF Outcome
<1>5. granted => mk.veto = {} /\ Clean(b, mk, want, 0)
  BY DEF Reducible
<1>6. ~ whole /\ ~ granted /\ mk.veto = {} =>
         DOMAIN want = {} \/ ~ Clean(b, mk, want, 0) \/ ~ Clean(b, mk, want, 1)
  <2>1. Reducible(b, mk, want) <=> mk.veto = {} /\ DOMAIN want # {} /\ Clean(b, mk, want, 0)
    BY DEF Reducible
  <2>2. ~ whole /\ ~ granted => ~ Reducible(b, mk, want) \/ k = 0
    <3> HIDE DEF k, whole
    <3> QED
      BY <1>1, <1>2
  <2> QED
    BY <1>2, <2>1, <2>2, Zenon
<1> HIDE DEF k
<1>7. granted => Scaled(b, want, k) # Scaled(b, want, 0)
  <2> SUFFICES ASSUME granted, Scaled(b, want, k) = Scaled(b, want, 0) PROVE FALSE
    OBVIOUS
  <2>1. k \in Int /\ k # 0 /\ Unit \in Int /\ 0 \in Int
    BY <1>1, <1>2
  <2>2. \A i \in DOMAIN want : want[i] = b.pos[i]
    BY <2>1, ScaledToNothing
  <2>3. Clean(b, mk, want, 0) <=> whole
    BY <2>1, <2>2, NothingToScale
  <2> QED
    BY <1>5, <2>3
<1>8. granted => k \in 1..(Unit - 1) /\ Clean(b, mk, want, k)
  BY <1>1, <1>2
<1> HIDE DEF whole, granted
<1>9. r.want = want /\ r.target \in [DOMAIN want -> Int]
  BY <1>1, <1>2, <1>3, <1>4
<1>10. r.outcome = "REDUCED" => granted /\ r.target = Scaled(b, want, k)
  BY <1>4
<1>11. r.outcome = "REJECTED" => ~ whole /\ ~ granted
  BY <1>4
<1> QED
  BY <1>5, <1>6, <1>7, <1>8, <1>9, <1>10, <1>11

\* Quantities are integers: those of the account, of an approved target and of the orders
\* worked for it.
Tradable(o) ==
    /\ o.inst \in Instruments /\ o.qty \in Int /\ o.price \in Nat
    /\ Abs2(o.qty) * o.price <= Limit.max_order
Traded ==
    /\ book.pos \in [Instruments -> Int] /\ market.marks \in [Instruments -> Nat]
    /\ decision.outcome \in {"APPROVED", "REDUCED"} =>
          DOMAIN decision.target \in SUBSET Instruments /\ decision.target \in [DOMAIN decision.target -> Int]
    /\ \A o \in working : Tradable(o)

\* Orders whose check is out of date trade what they asked for.
LEMMA StaleTrades ==
    ASSUME NEW orders, \A o \in orders : OrderShape(o) /\ Tradable(o), NEW x \in Stale(orders)
    PROVE  Tradable(x)
<1>1. PICK o \in orders : x = [o EXCEPT !.fresh = FALSE]
  BY DEF Stale
<1>2. PICK k, i, q, c, d : o = [id |-> k, inst |-> i, qty |-> q, price |-> c, fresh |-> d]
  BY DEF OrderShape
<1>3. x = [id |-> k, inst |-> i, qty |-> q, price |-> c, fresh |-> FALSE]
  BY <1>1, <1>2
<1>4. x.inst = o.inst /\ x.qty = o.qty /\ x.price = o.price
  BY <1>2, <1>3
<1> QED
  BY <1>4 DEF Tradable

\* What is wanted of an account and its market is for instruments the account knows.
LEMMA WantedIs ==
    ASSUME Traded, NEW S \in SUBSET Instruments, NEW ask \in [S -> Lots]
    PROVE  Judged(book, market.marks, Wanted(book, market.marks, ask))
<1>1. \A i \in S : ask[i] \in Int /\ book.pos[i] \in Int
  BY DEF Traded, Lots
<1>2. Wanted(book, market.marks, ask) \in [S -> Int]
  BY <1>1 DEF Wanted
<1>3. DOMAIN Wanted(book, market.marks, ask) = S
  BY <1>2
<1>4. book.pos \in [Instruments -> Int] /\ market.marks \in [Instruments -> Int]
  BY DEF Traded
<1> QED
  BY <1>2, <1>3, <1>4 DEF Judged

\* The first book, market and orders.
LEMMA InitTraded == RiskInit => Traded
<1> SUFFICES ASSUME RiskInit PROVE Traded
  OBVIOUS
<1>1. PICK held \in {0, 3} :
          book = [cash |-> 60, marks |-> [j \in Instruments |-> 10],
                  pos |-> [j \in Instruments |-> IF j = CHOOSE i \in Instruments : TRUE THEN held ELSE 0]]
  BY DEF RiskInit
<1>2. book.pos \in [Instruments -> Int]
  BY <1>1
<1>3. market.marks \in [Instruments -> Nat] /\ working = {} /\ decision.outcome = "none"
  BY DEF RiskInit, NoDecision
<1> QED
  BY <1>2, <1>3 DEF Traded

\* Every step trades integers of known instruments.
LEMMA NextTraded == RiskShapes /\ Traded /\ [RiskNext]_riskVars => Traded'
<1> SUFFICES ASSUME RiskShapes, Traded, [RiskNext]_riskVars PROVE Traded'
  OBVIOUS
<1>1. ASSUME NEW S \in SUBSET Instruments, NEW ask \in [S -> Lots], Decide(ask) PROVE Traded'
  <2> DEFINE want == Wanted(book, market.marks, ask)
  <2>1. decision' = Outcome(book, market, want) /\ UNCHANGED <<book, market, working>>
    BY <1>1 DEF Decide
  <2>2. Judged(book, market.marks, want)
    BY WantedIs
  <2>3. DOMAIN want \in SUBSET Instruments
    BY <2>2 DEF Judged
  <2> HIDE DEF want
  <2>4. decision'.target \in [DOMAIN want -> Int]
    BY <2>1, <2>2, OutcomeIsExact
  <2>5. DOMAIN decision'.target \in SUBSET Instruments /\ decision'.target \in [DOMAIN decision'.target -> Int]
    BY <2>3, <2>4
  <2> QED
    BY <2>1, <2>5 DEF Traded
<1>2. ASSUME NEW i, CheckOrder(i) PROVE Traded'
  <2>1. /\ decision.outcome \in {"APPROVED", "REDUCED"} /\ i \in DOMAIN decision.target
        /\ UNCHANGED <<book, market, decision>>
    BY <1>2 DEF CheckOrder
  <2> DEFINE delta == decision.target[i] - book.pos[i] * Unit
             q == IF delta >= 0 THEN delta \div Unit ELSE -(-delta \div Unit)
             k == CHOOSE n \in 1..MaxWorking : \A w \in working : w.id # n
             o == [id |-> k, inst |-> i, qty |-> q, price |-> market.marks[i], fresh |-> TRUE]
  <2>2. working' = working \cup {o} /\ WithinOrderLimits(book, market.marks, o)
    BY <1>2 DEF CheckOrder
  <2>3. Unit \in Nat /\ Unit > 0
    BY PowersDouble
  <2>4. i \in Instruments /\ decision.target[i] \in Int /\ book.pos[i] \in Int
    BY <2>1 DEF Traded
  <2>5. delta \in Int
    BY <2>3, <2>4
  <2> HIDE DEF delta
  <2>6. q \in Int
    BY <2>3, <2>5
  <2> HIDE DEF q
  <2>7. o.inst \in Instruments /\ o.qty \in Int /\ o.price \in Nat
    BY <2>4, <2>6 DEF Traded
  <2>8. Tradable(o)
    BY <2>2, <2>7 DEF WithinOrderLimits, Tradable
  <2> HIDE DEF o
  <2> QED
    BY <2>1, <2>2, <2>8 DEF Traded
<1>3. ASSUME NEW i, AccountMarked(i) PROVE Traded'
  <2>1. UNCHANGED <<market, decision, working>>
    BY <1>3 DEF AccountMarked
  <2>2. PICK m : book' = [book EXCEPT !.marks = m]
    BY <1>3 DEF AccountMarked, RiskShapes
  <2>3. book'.pos = book.pos
    BY <2>2, RiskRecords
  <2> QED
    BY <2>1, <2>3 DEF Traded
<1>4. ASSUME NEW i \in Instruments, NEW p \in Marks, MarketMoves(i, p) PROVE Traded'
  <2>1. UNCHANGED <<book, decision>> /\ working' = Stale(working)
    BY <1>4 DEF MarketMoves
  <2>2. p \in Nat
    BY RiskConstants
  <2>3. PICK a, b : market = [marks |-> a, veto |-> b]
    BY DEF RiskShapes
  <2>4. market' = [marks |-> [a EXCEPT ![i] = p], veto |-> b]
    BY <1>4, <2>3 DEF MarketMoves
  <2>5. market'.marks \in [Instruments -> Nat]
    BY <2>2, <2>3, <2>4 DEF Traded
  <2>6. \A x \in working' : Tradable(x)
    BY <2>1, StaleTrades DEF Traded, RiskShapes
  <2> QED
    BY <2>1, <2>5, <2>6 DEF Traded
<1>5. ASSUME NEW o \in working, NEW fee, FillOrder(o, fee) PROVE Traded'
  <2>1. UNCHANGED <<market, decision>> /\ working' = Stale(working \ {o})
    BY <1>5, FillIs
  <2>2. book'.pos = AfterOrder(book, o)
    BY <1>5, FillIs
  <2>3. AfterOrder(book, o) \in [Instruments -> Int]
    BY DEF AfterOrder, Traded, Tradable
  <2>4. \A x \in working' : Tradable(x)
    BY <2>1, StaleTrades DEF Traded, RiskShapes
  <2> QED
    BY <2>1, <2>2, <2>3, <2>4 DEF Traded
<1>6. ASSUME NEW v, VetoChanges(v) PROVE Traded'
  <2>1. UNCHANGED <<book, decision, working>>
    BY <1>6 DEF VetoChanges
  <2>2. PICK w : market' = [market EXCEPT !.veto = w]
    BY <1>6 DEF VetoChanges, RiskShapes
  <2>3. market'.marks = market.marks
    BY <2>2, RiskRecords
  <2> QED
    BY <2>1, <2>3 DEF Traded
<1>7. CASE UNCHANGED riskVars
  BY <1>7 DEF riskVars, Traded
<1> QED
  BY <1>1, <1>2, <1>3, <1>4, <1>5, <1>6, <1>7 DEF RiskNext

-----------------------------------------------------------------------------
(* The fills *)

\* The size of a number is that of its product with a positive one, and a sum is no larger
\* than its parts.
LEMMA SizeOfProduct ==
    ASSUME NEW q \in Int, NEW p \in Nat
    PROVE  q * p \in Int /\ Abs2(q * p) = Abs2(q) * p /\ q * p <= Abs2(q) * p
<1>1. CASE q < 0
  <2>1. q * p <= 0 /\ (-q) * p = -(q * p) /\ q * p \in Int
    BY <1>1
  <2> QED
    BY <1>1, <2>1 DEF Abs2
<1>2. CASE q >= 0
  <2>1. q * p >= 0 /\ q * p \in Int
    BY <1>2
  <2> QED
    BY <1>2, <2>1 DEF Abs2
<1> QED
  BY <1>1, <1>2

\* A sum in which one term changed.
OneChanged(f, g, S, i) ==
    /\ \A x \in S : f[x] \in Int /\ g[x] \in Int
    /\ \A x \in S \ {i} : f[x] = g[x]

LEMMA SumChanged ==
    ASSUME NEW S, IsFiniteSet(S), NEW i \in S, NEW f, NEW g, OneChanged(f, g, S, i)
    PROVE  /\ SumFunctionOnSet(f, S) \in Int /\ SumFunctionOnSet(g, S) \in Int
           /\ SumFunctionOnSet(g, S) = SumFunctionOnSet(f, S) - f[i] + g[i]
<1> USE DEF OneChanged
<1>1. SumFunctionOnSet(f, S) \in Int /\ SumFunctionOnSet(g, S) \in Int
  BY SumIsInt
<1>2. /\ SumFunctionOnSet(f, S) = f[i] + SumFunctionOnSet(f, S \ {i})
      /\ SumFunctionOnSet(g, S) = g[i] + SumFunctionOnSet(g, S \ {i})
  BY SumRemove
<1>3. IsFiniteSet(S \ {i})
  BY FS_Subset
<1>4. SumFunctionOnSet(f, S \ {i}) = SumFunctionOnSet(g, S \ {i}) /\ SumFunctionOnSet(f, S \ {i}) \in Int
  BY <1>3, SumAgrees, SumIsInt
<1> QED
  BY <1>1, <1>2, <1>4

\* An order moves the gross and the net of an account by no more than its own notional.
LEMMA OrderMovesBy ==
    ASSUME NEW pos \in [Instruments -> Int], NEW m \in [Instruments -> Nat], NEW i \in Instruments, NEW q \in Int
    PROVE  LET n == Notionals(pos, m)
               after == Notionals([pos EXCEPT ![i] = @ + q], m)
           IN  /\ GrossOf(n) \in Int /\ GrossOf(after) \in Int /\ NetOf(n) \in Int /\ NetOf(after) \in Int
               /\ GrossOf(after) <= GrossOf(n) + Abs2(q) * m[i]
               /\ NetOf(after) <= NetOf(n) + Abs2(q) * m[i]
<1> DEFINE n == Notionals(pos, m)
           after == Notionals([pos EXCEPT ![i] = @ + q], m)
           sizes == [x \in Instruments |-> Abs2(n[x])]
           sizesAfter == [x \in Instruments |-> Abs2(after[x])]
           d == q * m[i]
<1>1. IsFiniteSet(Instruments)
  BY RiskConstants
<1>2. /\ n = [x \in Instruments |-> pos[x] * m[x]]
      /\ after = [x \in Instruments |-> (IF x = i THEN pos[x] + q ELSE pos[x]) * m[x]]
  BY DEF Notionals
<1>3. \A x \in Instruments : pos[x] \in Int /\ m[x] \in Nat
  OBVIOUS
<1>4. d \in Int /\ Abs2(q) * m[i] = Abs2(d)
  BY <1>3, SizeOfProduct
<1>5. /\ \A x \in Instruments : n[x] \in Int /\ after[x] \in Int
      /\ \A x \in Instruments \ {i} : n[x] = after[x]
      /\ after[i] = n[i] + d
  <2>1. \A a, b \in Int, c \in Nat : a * c \in Int /\ (a + b) * c = a * c + b * c
    OBVIOUS
  <2>2. \A x \in Instruments : n[x] \in Int /\ after[x] \in Int
    BY <1>2, <1>3
  <2>3. n[i] = pos[i] * m[i] /\ after[i] = (pos[i] + q) * m[i]
    BY <1>2
  <2>4. after[i] = n[i] + d
    BY <1>3, <2>1, <2>3
  <2> QED
    BY <1>2, <2>2, <2>4
<1>6. DOMAIN n = Instruments /\ DOMAIN after = Instruments
  BY <1>2
<1> HIDE DEF n, after, d
<1>7. /\ \A x \in Instruments : sizes[x] \in Int /\ sizesAfter[x] \in Int
      /\ \A x \in Instruments \ {i} : sizes[x] = sizesAfter[x]
      /\ sizesAfter[i] <= sizes[i] + Abs2(d)
  BY <1>4, <1>5 DEF Abs2
<1>8. GrossOf(n) = SumFunctionOnSet(sizes, Instruments) /\ GrossOf(after) = SumFunctionOnSet(sizesAfter, Instruments)
  BY <1>6 DEF GrossOf
<1>9. NetOf(n) = Abs2(SumFunctionOnSet(n, Instruments)) /\ NetOf(after) = Abs2(SumFunctionOnSet(after, Instruments))
  BY <1>6 DEF NetOf
<1> HIDE DEF sizes, sizesAfter
<1>10. /\ GrossOf(n) \in Int /\ GrossOf(after) \in Int
       /\ GrossOf(after) = GrossOf(n) - sizes[i] + sizesAfter[i]
  <2> DEFINE before == SumFunctionOnSet(sizes, Instruments)
             then == SumFunctionOnSet(sizesAfter, Instruments)
  <2>1. before \in Int /\ then \in Int /\ then = before - sizes[i] + sizesAfter[i]
    <3>1. OneChanged(sizes, sizesAfter, Instruments, i)
      BY <1>7 DEF OneChanged
    <3> QED
      BY <1>1, <3>1, SumChanged
  <2> QED
    BY <1>8, <2>1
<1>11. /\ SumFunctionOnSet(n, Instruments) \in Int /\ SumFunctionOnSet(after, Instruments) \in Int
       /\ SumFunctionOnSet(after, Instruments) = SumFunctionOnSet(n, Instruments) - n[i] + after[i]
  <2>1. OneChanged(n, after, Instruments, i)
    BY <1>5 DEF OneChanged
  <2> QED
    BY <1>1, <2>1, SumChanged
<1>12. SumFunctionOnSet(after, Instruments) = SumFunctionOnSet(n, Instruments) + d
  BY <1>4, <1>5, <1>11
<1>13. NetOf(n) \in Int /\ NetOf(after) \in Int /\ NetOf(after) <= NetOf(n) + Abs2(d)
  BY <1>4, <1>9, <1>11, <1>12 DEF Abs2
<1>14. GrossOf(after) <= GrossOf(n) + Abs2(d)
  BY <1>4, <1>7, <1>10 DEF Abs2
<1> QED
  BY <1>4, <1>10, <1>13, <1>14 DEF n, after

FillsInv ==
    /\ book.cash \in Int /\ fills.since \in Nat \cup {Unknown} /\ fills.fees \in Nat
    /\ FillsKeepLimits

\* A step that keeps positions, cash, marks and fills.
LEMMA FillsKept ==
    ASSUME FillsInv, book'.pos = book.pos, book'.cash = book.cash, market'.marks = market.marks, UNCHANGED fills
    PROVE  FillsInv'
BY DEF FillsInv, FillsKeepLimits

\* A fill of a fresh order keeps the limits but for its fee; one behind it adds no more than
\* an order, and its fee.
LEMMA FillsStep ==
    ASSUME RiskInv, Traded, FillsInv, NEW o \in working, NEW fee \in Fees, FillOrder(o, fee)
    PROVE  FillsInv'
<1> DEFINE n == Notionals(book.pos, market.marks)
           after == Notionals(AfterOrder(book, o), market.marks)
           cost == o.qty * o.price
           follows == fills.since >= 0 /\ o.price = market.marks[o.inst]
<1>1. /\ book'.cash = book.cash - cost - fee /\ book'.pos = AfterOrder(book, o)
      /\ UNCHANGED market
      /\ fills'.since = IF o.fresh THEN 0 ELSE IF follows THEN fills.since + 1 ELSE Unknown
      /\ fills'.fees = IF o.fresh THEN fee ELSE IF follows THEN fills.fees + fee ELSE 0
  BY FillIs DEF RiskInv
<1>2. fee \in Nat /\ book.cash \in Int /\ fills.since \in Nat \cup {Unknown} /\ fills.fees \in Nat
  BY RiskConstants DEF FillsInv
<1>3. /\ o.inst \in Instruments /\ o.qty \in Int /\ o.price \in Nat /\ Abs2(o.qty) * o.price <= Limit.max_order
      /\ book.pos \in [Instruments -> Int] /\ market.marks \in [Instruments -> Nat]
  BY DEF Traded, Tradable
<1>4. Limit.max_gross = 60 /\ Limit.max_net = 50 /\ Limit.max_order = 40 /\ Limit.max_cash_deficit = 0
  BY DEF Limit
<1>5. cost \in Int /\ cost <= Abs2(o.qty) * o.price
  BY <1>3, SizeOfProduct
<1>6. /\ GrossOf(n) \in Int /\ GrossOf(after) \in Int /\ NetOf(n) \in Int /\ NetOf(after) \in Int
      /\ GrossOf(after) <= GrossOf(n) + Abs2(o.qty) * market.marks[o.inst]
      /\ NetOf(after) <= NetOf(n) + Abs2(o.qty) * market.marks[o.inst]
  BY <1>3, OrderMovesBy DEF AfterOrder
<1>7. Notionals(book.pos, market.marks)' = after
  BY <1>1 DEF Notionals
<1> HIDE DEF n, after, cost
<1>8. CASE o.fresh
  <2>1. GrossOf(after) <= 60 /\ NetOf(after) <= 50 /\ book.cash - cost >= 0
    BY <1>4, <1>8 DEF RiskInv, FreshOrdersFit, WithinLimits, after, cost
  <2>2. fills'.since = 0 /\ fills'.fees = fee /\ book'.cash \in Int /\ book'.cash >= -fee
    BY <1>1, <1>2, <1>5, <1>8, <2>1
  <2>3. fills'.since * Limit.max_order = 0
    BY <1>4, <2>2
  <2> QED
    BY <1>2, <1>4, <1>7, <2>1, <2>2, <2>3 DEF FillsInv, FillsKeepLimits
<1>9. CASE ~ o.fresh /\ follows
  <2>1. /\ GrossOf(n) <= 60 + fills.since * 40 /\ NetOf(n) <= 50 + fills.since * 40
        /\ book.cash >= -(fills.since * 40 + fills.fees)
    <3>1. fills.since >= 0
      BY <1>9
    <3>2. /\ GrossOf(n) <= Limit.max_gross + fills.since * Limit.max_order
          /\ NetOf(n) <= Limit.max_net + fills.since * Limit.max_order
          /\ book.cash >= -(Limit.max_cash_deficit + fills.since * Limit.max_order + fills.fees)
      BY <3>1 DEF FillsInv, FillsKeepLimits, n
    <3> DEFINE excess == fills.since * 40
    <3>3. /\ GrossOf(n) <= 60 + excess /\ NetOf(n) <= 50 + excess
          /\ book.cash >= -(0 + excess + fills.fees)
      BY <1>4, <3>2
    <3>4. excess \in Int
      BY <1>2, <1>9 DEF Unknown
    <3> HIDE DEF excess
    <3>5. 0 + excess + fills.fees = excess + fills.fees
      BY <1>2, <3>4
    <3>6. book.cash >= -(excess + fills.fees)
      BY <3>3, <3>5
    <3> QED
      BY <3>3, <3>6 DEF excess
  <2>2. /\ Abs2(o.qty) * market.marks[o.inst] = Abs2(o.qty) * o.price /\ Abs2(o.qty) * o.price \in Int
        /\ Abs2(o.qty) * o.price <= 40
    BY <1>3, <1>4, <1>9 DEF Abs2
  <2> DEFINE size == Abs2(o.qty) * o.price
  <2>3. /\ size \in Int /\ size <= 40 /\ cost <= size
        /\ GrossOf(after) <= GrossOf(n) + size /\ NetOf(after) <= NetOf(n) + size
    BY <1>5, <1>6, <2>2
  <2> HIDE DEF size
  <2>4. fills'.since = fills.since + 1 /\ fills'.fees = fills.fees + fee /\ fills.since \in Nat
    BY <1>1, <1>2, <1>9 DEF Unknown
  <2>5. /\ GrossOf(after) <= 60 + fills'.since * 40 /\ NetOf(after) <= 50 + fills'.since * 40
        /\ book'.cash >= -(fills'.since * 40 + fills'.fees) /\ book'.cash \in Int
    BY <1>1, <1>2, <1>5, <1>6, <2>1, <2>3, <2>4
  <2> QED
    BY <1>2, <1>4, <1>7, <2>4, <2>5 DEF FillsInv, FillsKeepLimits
<1>10. CASE ~ o.fresh /\ ~ follows
  <2>1. fills'.since = Unknown /\ fills'.fees = 0 /\ book'.cash \in Int
    BY <1>1, <1>2, <1>5, <1>10
  <2> QED
    BY <2>1 DEF FillsInv, FillsKeepLimits, Unknown
<1> QED
  BY <1>8, <1>9, <1>10

\* An order that fills in the account and at the marks it was checked with (check_order) leaves
\* the whole account within its gross, net and cash limits, but for the fee; every further
\* order that was checked before it exceeds them by no more than the size of an order and
\* its fee: for every set of instruments, every price and fee, every number of orders and
\* every depth of the reduction.
THEOREM FillsTheorem == RiskSpec => []FillsKeepLimits
<1>1. RiskInit => RiskInv /\ Traded /\ FillsInv
  <2>1. RiskInit => FillsInv
    BY DEF RiskInit, FillsInv, FillsKeepLimits, Unknown
  <2> QED
    BY <2>1, InitRisk, InitTraded
<1>2. RiskInv /\ Traded /\ FillsInv /\ [RiskNext]_riskVars => RiskInv' /\ Traded' /\ FillsInv'
  <2> SUFFICES ASSUME RiskInv, Traded, FillsInv, [RiskNext]_riskVars PROVE FillsInv'
    BY NextRisk, NextTraded DEF RiskInv
  <2>1. ASSUME NEW S, NEW ask, Decide(ask) PROVE FillsInv'
    BY <2>1, FillsKept DEF Decide
  <2>2. ASSUME NEW i, CheckOrder(i) PROVE FillsInv'
    BY <2>2, FillsKept DEF CheckOrder
  <2>3. ASSUME NEW i, AccountMarked(i) PROVE FillsInv'
    <3>1. PICK m : book' = [book EXCEPT !.marks = m] /\ UNCHANGED <<market, fills>>
      BY <2>3 DEF AccountMarked, RiskInv, RiskShapes
    <3>2. book'.pos = book.pos /\ book'.cash = book.cash
      BY <3>1, RiskRecords DEF RiskInv
    <3> QED
      BY <3>1, <3>2, FillsKept
  <2>4. ASSUME NEW i, NEW p, MarketMoves(i, p) PROVE FillsInv'
    <3>1. fills'.since = Unknown /\ fills'.fees = 0 /\ UNCHANGED book
      BY <2>4, RiskRecords DEF MarketMoves, RiskInv
    <3> QED
      BY <3>1 DEF FillsInv, FillsKeepLimits, Unknown
  <2>5. ASSUME NEW o \in working, NEW fee \in Fees, FillOrder(o, fee) PROVE FillsInv'
    BY <2>5, FillsStep
  <2>6. ASSUME NEW v, VetoChanges(v) PROVE FillsInv'
    <3>1. PICK w : market' = [market EXCEPT !.veto = w] /\ UNCHANGED <<book, fills>>
      BY <2>6 DEF VetoChanges, RiskInv, RiskShapes
    <3>2. market'.marks = market.marks
      BY <3>1, RiskRecords DEF RiskInv
    <3> QED
      BY <3>1, <3>2, FillsKept
  <2>7. CASE UNCHANGED riskVars
    BY <2>7, FillsKept DEF riskVars
  <2> QED
    BY <2>1, <2>2, <2>3, <2>4, <2>5, <2>6, <2>7 DEF RiskNext
<1>3. FillsInv => FillsKeepLimits
  BY DEF FillsInv
<1> QED
  BY <1>1, <1>2, <1>3, PTL DEF RiskSpec

-----------------------------------------------------------------------------
(* The answers of evaluate *)

\* Only an evaluation of a target changes the decision.
LEMMA OnlyDecide ==
    ASSUME RiskNext, decision' # decision
    PROVE  \E S \in SUBSET Instruments : \E ask \in [S -> Lots] : Decide(ask)
<1>1. \A i, p, v : CheckOrder(i) \/ AccountMarked(i) \/ MarketMoves(i, p) \/ VetoChanges(v) => decision' = decision
  BY DEF CheckOrder, AccountMarked, MarketMoves, VetoChanges
<1>2. \A o, fee : FillOrder(o, fee) => decision' = decision
  BY Zenon DEF FillOrder
<1> QED
  BY <1>1, <1>2 DEF RiskNext

\* What each answer of evaluate promises.
Sound ==
    decision' # decision /\ decision'.outcome = "REDUCED" =>
        /\ market.veto = {}
        /\ decision'.target # Scaled(book, decision'.want, 0)
        /\ \E k \in 1..(Unit - 1) : /\ decision'.target = Scaled(book, decision'.want, k)
                                    /\ Clean(book, market, decision'.want, k)
Irreducible ==
    decision' # decision /\ decision'.outcome = "REJECTED" /\ market.veto = {} =>
        DOMAIN decision'.want = {} \/ ~ Clean(book, market, decision'.want, 0)
                                   \/ ~ Clean(book, market, decision'.want, 1)

LEMMA StepIsExact == Traded /\ [RiskNext]_riskVars => [Sound]_riskVars /\ [Irreducible]_riskVars
<1> SUFFICES ASSUME Traded, RiskNext, decision' # decision PROVE Sound /\ Irreducible
  BY DEF Sound, Irreducible
<1>1. PICK S \in SUBSET Instruments : \E ask \in [S -> Lots] : Decide(ask)
  BY OnlyDecide
<1>2. PICK ask \in [S -> Lots] : Decide(ask)
  BY <1>1
<1> DEFINE want == Wanted(book, market.marks, ask)
<1>3. Judged(book, market.marks, want)
  BY WantedIs
<1>4. decision' = Outcome(book, market, want)
  BY <1>2 DEF Decide
<1> HIDE DEF want
<1>5. /\ decision'.want = want
      /\ decision'.outcome = "REDUCED" =>
            /\ market.veto = {}
            /\ decision'.target # Scaled(book, want, 0)
            /\ \E k \in 1..(Unit - 1) : decision'.target = Scaled(book, want, k) /\ Clean(book, market, want, k)
      /\ decision'.outcome = "REJECTED" /\ market.veto = {} =>
            DOMAIN want = {} \/ ~ Clean(book, market, want, 0) \/ ~ Clean(book, market, want, 1)
  BY <1>3, <1>4, OutcomeIsExact
<1> QED
  BY <1>5, Zenon DEF Sound, Irreducible

\* A target is reduced (_reduced_target) only to a factor at which it still trades and the whole
\* kernel passes it, and never against a veto; a target without a veto is rejected only
\* when trading nothing, or the smallest step towards it, is already refused: for every
\* depth, every set of instruments and every price, however the limits depend on the factor.
THEOREM ReductionTheorem == RiskSpec => ReductionIsExact
<1>1. RiskInit => RiskInv /\ Traded
  BY InitRisk, InitTraded
<1>2. RiskInv /\ Traded /\ [RiskNext]_riskVars => RiskInv' /\ Traded'
  BY NextRisk, NextTraded DEF RiskInv
<1>3. Traded /\ [RiskNext]_riskVars => [Sound]_riskVars /\ [Irreducible]_riskVars
  BY StepIsExact
<1>4. RiskSpec => [][Sound]_riskVars /\ [][Irreducible]_riskVars
  BY <1>1, <1>2, <1>3, PTL DEF RiskSpec
<1> QED
  BY <1>4 DEF ReductionIsExact, ReductionIsSound, RejectsOnlyTheIrreducible, Sound, Irreducible

-----------------------------------------------------------------------------
(* The qualification of a model runtime *)

Versions == [Files -> Int]
Pins == [PinnedFiles -> Int]
WorkerStates == {"off", "started", "identified", "loaded", "exited", "killed"}
HelperStates == {"none", "attached", "orphan", "gone"}
Before == {"idle", "verify", "recheck", "popen", "run"}
OutOfProcess == {"verify", "recheck", "popen", "wait", "drain", "judge"}
Stages == OutOfProcess \cup {"idle", "run", "done"}
Hashed == {"interpreter", "script"}

QualTypes ==
    /\ files \in Versions /\ pin = [st |-> pin.st, of |-> pin.of] /\ pin.of \in Pins
    /\ worker \in [at : WorkerStates, ran : Versions, id : Pins]
    /\ helper \in [at : HelperStates, pipe : BOOLEAN, seen : BOOLEAN]
    /\ stage \in Stages

\* Only an external candidate has a worker, and none before the process is started.
StagesFit ==
    /\ worker.at # "off" => stage \notin Before /\ spec.external
    /\ stage \in OutOfProcess => spec.external
    /\ stage = "run" => ~spec.external

\* A file changes once and for good, so a version verified before the start and found again
\* by the worker is the version the worker was started with.
PinnedVersions ==
    /\ \A f \in Files : files[f] >= 0
    /\ stage = "popen" => \A f \in Hashed : pin.of[f] <= files[f]
    /\ worker.at = "started" => \A f \in Hashed : pin.of[f] <= worker.ran[f] /\ worker.ran[f] <= files[f]
    /\ worker.at \in {"identified", "loaded"} => \A f \in PinnedFiles : worker.ran[f] = pin.of[f]

\* A success was reported by a worker that ran what the pin lists, and has exited.
SuccessIsReported ==
    reply.kind = "success" =>
        /\ worker.at = "exited" /\ reply.m \in Inferences
        /\ \A f \in PinnedFiles : worker.ran[f] = pin.of[f]

QualInv ==
    /\ QualTypes /\ StagesFit /\ PinnedVersions /\ SuccessIsReported
    /\ result = "measured" => stage = "done" /\ worker.at \in {"off", "exited"}
    /\ MeasuredIsEarned

\* A step of the parent that starts nothing and measures nothing.
LEMMA StageMoves ==
    ASSUME QualInv, UNCHANGED <<spec, files, pin, worker, helper, reply>>,
           NEW s \in Stages, stage' = s, result' # "measured",
           worker.at # "off" => s \notin Before, s \in OutOfProcess => spec.external,
           s = "run" => ~spec.external, s = "popen" => \A f \in Hashed : pin.of[f] <= files[f]
    PROVE  QualInv'
<1>1. QualTypes'
  BY DEF QualInv, QualTypes
<1>2. StagesFit'
  BY DEF QualInv, StagesFit
<1>3. PinnedVersions' /\ SuccessIsReported'
  BY DEF QualInv, PinnedVersions, SuccessIsReported
<1> QED
  BY <1>1, <1>2, <1>3 DEF QualInv, MeasuredIsEarned

\* A step in which only a process of the worker's moves.
LEMMA HelperMoves ==
    ASSUME QualInv, UNCHANGED <<spec, files, pin, stage, worker, reply, result>>,
           NEW h \in [at : HelperStates, pipe : BOOLEAN, seen : BOOLEAN], helper' = h,
           result = "measured" => h.at \notin {"attached", "orphan"}
    PROVE  QualInv'
<1>1. QualTypes' /\ StagesFit' /\ PinnedVersions' /\ SuccessIsReported'
  BY DEF QualInv, QualTypes, StagesFit, PinnedVersions, SuccessIsReported
<1>2. result' = "measured" => ~HelperAlive'
  BY DEF HelperAlive
<1>3. MeasuredIsEarned'
  BY <1>2 DEF QualInv, MeasuredIsEarned
<1> QED
  BY <1>1, <1>3 DEF QualInv

\* A step of the worker that leaves the files and the verdict alone.
LEMMA WorkerMoves ==
    ASSUME QualInv, UNCHANGED <<spec, files, pin, stage, result>>, worker.at \notin {"off", "exited"},
           NEW w \in [at : WorkerStates, ran : Versions, id : Pins], worker' = w, w.at \notin {"off", "started"},
           NEW h \in [at : HelperStates, pipe : BOOLEAN, seen : BOOLEAN], helper' = h,
           w.at \in {"identified", "loaded"} => \A f \in PinnedFiles : w.ran[f] = pin.of[f],
           reply'.kind = "success" => /\ w.at = "exited" /\ reply'.m \in Inferences
                                      /\ \A f \in PinnedFiles : w.ran[f] = pin.of[f]
    PROVE  QualInv'
<1>1. QualTypes' /\ StagesFit'
  BY DEF QualInv, QualTypes, StagesFit
<1>2. PinnedVersions'
  <2>1. stage # "popen"
    BY DEF QualInv, StagesFit, Before
  <2> QED
    BY <2>1 DEF QualInv, PinnedVersions
<1>3. SuccessIsReported'
  BY DEF SuccessIsReported
<1>4. result # "measured"
  BY DEF QualInv
<1> QED
  BY <1>1, <1>2, <1>3, <1>4 DEF QualInv, MeasuredIsEarned

\* The machine: a file changes, the pin is taken, another job has the GPU.
LEMMA MachineMoves ==
    ASSUME QualInv, (\E f \in Files : ChangeFile(f)) \/ FreezeInventory \/ FreezeHashes \/ OtherLease
    PROVE  QualInv'
<1>1. QualTypes /\ StagesFit /\ PinnedVersions /\ SuccessIsReported
  BY DEF QualInv
<1>2. ASSUME NEW f \in Files, ChangeFile(f) PROVE QualInv'
  <2>1. /\ UNCHANGED <<spec, pin, stage, worker, helper, reply, lease, result>> /\ result = "none" /\ files[f] = 0
    BY <1>2 DEF ChangeFile
  <2>2. PICK v \in Nat : files' = [files EXCEPT ![f] = v]
    <3>1. NotCached \in Nat /\ 1 \in Nat
      BY QualificationConstants DEF NotCached
    <3> QED
      BY <1>2, <3>1 DEF ChangeFile
  <2>3. files' \in Versions /\ \A g \in Files : files[g] \in Int /\ files'[g] \in Int /\ files[g] <= files'[g]
    <3>1. files \in Versions
      BY <1>1 DEF QualTypes
    <3>2. files' \in Versions /\ files'[f] = v /\ \A g \in Files \ {f} : files'[g] = files[g]
      BY <2>2, <3>1 DEF Versions
    <3>3. \A g \in Files : files[g] \in Int
      BY <3>1 DEF Versions
    <3> QED
      BY <2>1, <3>2, <3>3
  <2>4. Hashed \subseteq Files /\ Hashed \subseteq PinnedFiles
    BY DEF Hashed, Files, PinnedFiles
  <2>5. QualTypes' /\ StagesFit' /\ SuccessIsReported'
    BY <1>1, <2>1, <2>3 DEF QualTypes, StagesFit, SuccessIsReported
  <2>6. PinnedVersions'
    <3>1. \A g \in Files : files'[g] >= 0
      BY <1>1, <2>3 DEF PinnedVersions
    <3>2. \A g \in Hashed : pin.of[g] \in Int /\ worker.ran[g] \in Int
      BY <1>1, <2>4 DEF QualTypes, Pins, Versions
    <3>3. stage = "popen" => \A g \in Hashed : pin.of[g] <= files'[g]
      BY <1>1, <2>3, <2>4, <3>2 DEF PinnedVersions
    <3>4. worker.at = "started" => \A g \in Hashed : pin.of[g] <= worker.ran[g] /\ worker.ran[g] <= files'[g]
      BY <1>1, <2>3, <2>4, <3>2 DEF PinnedVersions
    <3> QED
      BY <1>1, <2>1, <3>1, <3>3, <3>4 DEF PinnedVersions
  <2> QED
    BY <2>1, <2>5, <2>6 DEF QualInv, MeasuredIsEarned
<1>3. CASE FreezeInventory \/ FreezeHashes
  <2>1. /\ UNCHANGED <<spec, files, stage, worker, helper, reply, result>> /\ stage = "idle"
    BY <1>3 DEF FreezeInventory, FreezeHashes
  <2>2. worker.at = "off" /\ result # "measured" /\ reply.kind # "success"
    BY <1>1, <2>1 DEF QualInv, StagesFit, Before, SuccessIsReported
  <2>3. PICK st, of : pin' = [st |-> st, of |-> of] /\ of \in Pins
    <3>1. pin.of \in Pins /\ \A f \in Files : files[f] \in Int
      BY <1>1 DEF QualTypes, Versions
    <3>2. PinnedFiles \subseteq Files
      BY DEF PinnedFiles, Files
    <3>3. CASE FreezeInventory
      <4>1. pin' = [st |-> "listed", of |-> [pin.of EXCEPT !["environment"] = files["environment"]]]
        BY <3>3 DEF FreezeInventory
      <4>2. [pin.of EXCEPT !["environment"] = files["environment"]] \in Pins
        BY <3>1 DEF Pins, PinnedFiles, Files
      <4> QED
        BY <4>1, <4>2
    <3>4. CASE FreezeHashes
      <4>1. pin' = [st |-> "approved", of |-> [pin.of EXCEPT !["interpreter"] = files["interpreter"],
                                                          !["script"] = files["script"]]]
        BY <3>4 DEF FreezeHashes
      <4>2. [pin.of EXCEPT !["interpreter"] = files["interpreter"], !["script"] = files["script"]] \in Pins
        BY <3>1 DEF Pins, PinnedFiles, Files
      <4> QED
        BY <4>1, <4>2
    <3> QED
      BY <1>3, <3>3, <3>4
  <2>4. QualTypes'
    BY <1>1, <2>1, <2>3 DEF QualTypes
  <2>5. StagesFit' /\ PinnedVersions' /\ SuccessIsReported'
    BY <1>1, <2>1, <2>2 DEF StagesFit, PinnedVersions, SuccessIsReported
  <2> QED
    BY <2>1, <2>2, <2>4, <2>5 DEF QualInv, MeasuredIsEarned
<1>4. CASE OtherLease
  <2>1. UNCHANGED <<spec, files, pin, stage, worker, helper, reply, result>>
    BY <1>4 DEF OtherLease
  <2> QED
    BY <2>1 DEF QualInv, QualTypes, StagesFit, PinnedVersions, SuccessIsReported, MeasuredIsEarned, HelperAlive
<1> QED
  BY <1>2, <1>3, <1>4

\* Up to the start of the worker, and after it: the parent waits and gives up.
LEMMA ParentMoves ==
    ASSUME QualInv, BeginQualification \/ VerifyPins \/ RecheckPins \/ Collect \/ Drain
    PROVE  QualInv'
<1>1. QualTypes /\ StagesFit /\ PinnedVersions
  BY DEF QualInv
<1>2. UNCHANGED <<spec, files, pin, worker, helper, reply>>
  BY DEF BeginQualification, VerifyPins, RecheckPins, Collect, Drain
<1>3. {"verify", "run", "recheck", "popen", "judge", "done"} \subseteq Stages
  BY DEF Stages, OutOfProcess
<1>4. ASSUME NEW r, Verdict(r), r # "measured" PROVE QualInv'
  <2>1. "done" \notin Before /\ "done" \notin OutOfProcess /\ stage' = "done" /\ result' = r
    BY <1>4 DEF Before, OutOfProcess, Verdict
  <2> QED
    BY <1>2, <1>3, <1>4, <2>1, StageMoves
<1>5. stage # "done" => result # "measured"
  BY DEF QualInv
<1>6. CASE BeginQualification
  <2>1. stage = "idle" /\ worker.at = "off" /\ result # "measured"
    BY <1>1, <1>5, <1>6 DEF BeginQualification, StagesFit, Before
  <2>2. CASE stage' = (IF spec.external THEN "verify" ELSE "run") /\ UNCHANGED result
    <3>1. PICK s \in Stages : s = (IF spec.external THEN "verify" ELSE "run")
      BY <1>3
    <3>2. s \in OutOfProcess => spec.external
      BY <3>1 DEF OutOfProcess
    <3> QED
      BY <1>2, <2>1, <2>2, <3>1, <3>2, StageMoves
  <2>3. CASE Verdict("quarantined") \/ Verdict("raised")
    BY <1>4, <2>3
  <2> QED
    BY <1>6, <2>2, <2>3 DEF BeginQualification
<1>7. CASE VerifyPins
  <2>1. stage = "verify" /\ worker.at = "off" /\ spec.external /\ result # "measured"
    BY <1>1, <1>5, <1>7 DEF VerifyPins, StagesFit, Before, OutOfProcess
  <2>2. CASE stage' = "recheck" /\ UNCHANGED result
    BY <1>2, <1>3, <2>1, <2>2, StageMoves
  <2>3. CASE Verdict("quarantined")
    BY <1>4, <2>3
  <2> QED
    BY <1>7, <2>2, <2>3 DEF VerifyPins
<1>8. CASE RecheckPins
  <2>1. stage = "recheck" /\ worker.at = "off" /\ spec.external /\ result # "measured"
    BY <1>1, <1>5, <1>8 DEF RecheckPins, StagesFit, Before, OutOfProcess
  <2>2. CASE stage' = "popen" /\ UNCHANGED result /\ RuntimeVerified
    <3>1. \A f \in Hashed : pin.of[f] <= files[f]
      <4>1. Hashed \subseteq PinnedFiles
        BY DEF Hashed, PinnedFiles
      <4>2. \A f \in Hashed : pin.of[f] \in Int /\ files[f] = pin.of[f]
        BY <1>1, <2>2, <4>1 DEF QualTypes, Pins, RuntimeVerified, Hashed
      <4> QED
        BY <4>2
    <3> QED
      BY <1>2, <1>3, <2>1, <2>2, <3>1, StageMoves
  <2>3. CASE Verdict("quarantined")
    BY <1>4, <2>3
  <2> QED
    BY <1>8, <2>2, <2>3 DEF RecheckPins
<1>9. CASE Collect
  <2>1. stage = "wait" /\ spec.external /\ result # "measured"
    BY <1>1, <1>5, <1>9 DEF Collect, StagesFit, OutOfProcess
  <2>2. CASE stage' = "judge" /\ UNCHANGED result
    <3>1. "judge" \notin Before
      BY DEF Before
    <3> QED
      BY <1>2, <1>3, <2>1, <2>2, <3>1, StageMoves
  <2>3. CASE Verdict("failed")
    BY <1>4, <2>3
  <2> QED
    BY <1>9, <2>2, <2>3 DEF Collect
<1>10. CASE Drain
  BY <1>4, <1>10 DEF Drain
<1> QED
  BY <1>6, <1>7, <1>8, <1>9, <1>10

\* The worker is started with the files as they are now.
LEMMA StartMoves == ASSUME QualInv, StartWorker PROVE QualInv'
<1>1. /\ QualTypes /\ StagesFit /\ PinnedVersions /\ SuccessIsReported
      /\ UNCHANGED <<spec, files, pin, helper, reply, result>> /\ stage = "popen" /\ stage' = "wait"
  BY DEF QualInv, StartWorker
<1>2. PICK w \in [at : WorkerStates, ran : Versions, id : Pins] :
         worker' = w /\ w.at = "started" /\ w.ran = files
  <2>1. worker \in [at : WorkerStates, ran : Versions, id : Pins] /\ files \in Versions /\ "started" \in WorkerStates
    BY <1>1 DEF QualTypes, WorkerStates
  <2>2. worker' = [worker EXCEPT !.at = "started", !.ran = files]
    BY DEF StartWorker
  <2>3. /\ [worker EXCEPT !.at = "started", !.ran = files] \in [at : WorkerStates, ran : Versions, id : Pins]
        /\ [worker EXCEPT !.at = "started", !.ran = files].at = "started"
        /\ [worker EXCEPT !.at = "started", !.ran = files].ran = files
    BY <2>1
  <2> QED
    BY <2>2, <2>3
<1>3. /\ worker.at = "off" /\ reply.kind # "success" /\ spec.external /\ result # "measured"
      /\ "wait" \in Stages /\ "wait" \notin Before /\ "wait" \in OutOfProcess
  BY <1>1 DEF QualInv, StagesFit, SuccessIsReported, Before, OutOfProcess, Stages
<1>4. QualTypes' /\ StagesFit' /\ SuccessIsReported'
  BY <1>1, <1>2, <1>3 DEF QualTypes, StagesFit, SuccessIsReported
<1>5. PinnedVersions'
  <2>1. \A f \in Hashed : pin.of[f] <= w.ran[f] /\ w.ran[f] <= files[f]
    <3>1. Hashed \subseteq Files
      BY DEF Hashed, Files
    <3>2. \A f \in Hashed : files[f] \in Int /\ pin.of[f] <= files[f]
      BY <1>1, <3>1 DEF QualTypes, Versions, PinnedVersions
    <3> QED
      BY <1>2, <3>2
  <2> QED
    BY <1>1, <1>2, <2>1 DEF PinnedVersions
<1> QED
  BY <1>1, <1>3, <1>4, <1>5 DEF QualInv, MeasuredIsEarned

\* The worker says its last line, or none; a process it started outlives it.
LEMMA ExitMoves ==
    ASSUME QualInv, worker.at \notin {"off", "exited"}, NEW r, Exits(r),
           r.kind = "success" => /\ r.m \in Inferences
                                 /\ \A f \in PinnedFiles : worker.ran[f] = pin.of[f]
    PROVE  QualInv'
<1>1. /\ QualTypes /\ UNCHANGED <<spec, files, pin, stage, result>> /\ reply' = r
      /\ worker \in [at : WorkerStates, ran : Versions, id : Pins]
      /\ helper \in [at : HelperStates, pipe : BOOLEAN, seen : BOOLEAN]
  BY DEF QualInv, QualTypes, Exits
<1>2. PICK w \in [at : WorkerStates, ran : Versions, id : Pins] :
         worker' = w /\ w.at = "exited" /\ w.ran = worker.ran
  <2>1. worker' = [worker EXCEPT !.at = "exited"] /\ "exited" \in WorkerStates
    BY DEF Exits, WorkerStates
  <2>2. /\ [worker EXCEPT !.at = "exited"] \in [at : WorkerStates, ran : Versions, id : Pins]
        /\ [worker EXCEPT !.at = "exited"].at = "exited" /\ [worker EXCEPT !.at = "exited"].ran = worker.ran
    BY <1>1, <2>1
  <2> QED
    BY <2>1, <2>2
<1>3. PICK h \in [at : HelperStates, pipe : BOOLEAN, seen : BOOLEAN] : helper' = h
  <2>1. "orphan" \in HelperStates
    BY DEF HelperStates
  <2>2. [helper EXCEPT !.at = "orphan"] \in [at : HelperStates, pipe : BOOLEAN, seen : BOOLEAN]
    BY <1>1, <2>1
  <2> QED
    BY <1>1, <2>2 DEF Exits
<1> QED
  BY <1>1, <1>2, <1>3, WorkerMoves

\* What runs is what the pin lists from the moment the worker has compared it.
LEMMA WorkerSteps ==
    ASSUME QualInv, Identify \/ LoadModel \/ InferAndReply \/ WorkerDies
    PROVE  QualInv'
<1>1. /\ QualTypes /\ PinnedVersions /\ files \in Versions /\ pin.of \in Pins
      /\ worker \in [at : WorkerStates, ran : Versions, id : Pins] /\ worker.ran \in Versions
      /\ helper \in [at : HelperStates, pipe : BOOLEAN, seen : BOOLEAN]
      /\ worker.at \in {"started", "identified", "loaded"}
  BY DEF QualInv, QualTypes, Identify, LoadModel, InferAndReply, WorkerDies
<1>2. worker.at \notin {"off", "exited"} /\ reply.kind # "success"
  BY <1>1 DEF QualInv, SuccessIsReported
<1>3. worker.at \in {"identified", "loaded"} => \A f \in PinnedFiles : worker.ran[f] = pin.of[f]
  BY <1>1 DEF PinnedVersions
<1>4. ASSUME NEW k \in {"error", "network", "none"}, Exits([kind |-> k]) PROVE QualInv'
  <2>1. [kind |-> k].kind # "success"
    BY <1>4
  <2> QED
    BY <1>2, <1>4, <2>1, ExitMoves
<1>5. CASE Identify
  <2>1. CASE Reported = pin.of
    <3>1. /\ worker.at = "started" /\ UNCHANGED <<spec, files, pin, stage, helper, reply, result>>
          /\ worker' = [at |-> "identified", id |-> Reported,
                        ran |-> [worker.ran EXCEPT !["environment"] = files["environment"]]]
      BY <1>5, <2>1 DEF Identify
    <3> DEFINE new == [worker.ran EXCEPT !["environment"] = files["environment"]]
    <3>2. /\ "environment" \in Files /\ PinnedFiles = Hashed \cup {"environment"}
          /\ PinnedFiles \subseteq Files /\ "environment" \notin Hashed /\ "identified" \in WorkerStates
      BY DEF Files, PinnedFiles, Hashed, WorkerStates
    <3>3. /\ new \in Versions /\ new["environment"] = files["environment"]
          /\ \A f \in Hashed : new[f] = worker.ran[f]
      BY <1>1, <3>2 DEF Versions
    <3>4. \A f \in PinnedFiles : files[f] = pin.of[f]
      <4>1. \A f \in PinnedFiles : Reported[f] = files[f]
        BY DEF Reported
      <4> QED
        BY <2>1, <4>1
    <3>5. \A f \in Hashed : worker.ran[f] = pin.of[f]
      <4>1. \A f \in Hashed : /\ worker.ran[f] \in Int /\ pin.of[f] \in Int /\ files[f] = pin.of[f]
                              /\ pin.of[f] <= worker.ran[f] /\ worker.ran[f] <= files[f]
        BY <1>1, <3>1, <3>2, <3>4 DEF PinnedVersions, Versions, Pins
      <4> QED
        BY <4>1
    <3>6. \A f \in PinnedFiles : new[f] = pin.of[f]
      BY <3>2, <3>3, <3>4, <3>5
    <3> HIDE DEF new
    <3>7. [at |-> "identified", id |-> Reported, ran |-> new] \in [at : WorkerStates, ran : Versions, id : Pins]
      BY <1>1, <2>1, <3>2, <3>3
    <3>8. PICK w \in [at : WorkerStates, ran : Versions, id : Pins] :
             worker' = w /\ w.at = "identified" /\ w.ran = new
      BY <3>1, <3>7 DEF new
    <3> QED
      BY <1>1, <1>2, <3>1, <3>6, <3>8, WorkerMoves
  <2>2. CASE Exits([kind |-> "error"])
    BY <1>4, <2>2
  <2> QED
    BY <1>5, <2>1, <2>2 DEF Identify
<1>6. CASE LoadModel
  <2>1. CASE /\ worker' = [worker EXCEPT !.at = "loaded", !.ran["weights"] = files["weights"]]
             /\ UNCHANGED <<spec, files, pin, stage, helper, reply, lease, result>>
    <3> DEFINE new == [worker.ran EXCEPT !["weights"] = files["weights"]]
    <3>1. "weights" \in Files /\ PinnedFiles \subseteq Files \ {"weights"} /\ "loaded" \in WorkerStates
      BY DEF Files, PinnedFiles, WorkerStates
    <3>2. new \in Versions /\ \A f \in PinnedFiles : new[f] = worker.ran[f]
      BY <1>1, <3>1 DEF Versions
    <3>3. worker' = [worker EXCEPT !.at = "loaded", !.ran = new]
      BY <1>1, <2>1
    <3> HIDE DEF new
    <3>4. /\ [worker EXCEPT !.at = "loaded", !.ran = new] \in [at : WorkerStates, ran : Versions, id : Pins]
          /\ [worker EXCEPT !.at = "loaded", !.ran = new].at = "loaded"
          /\ [worker EXCEPT !.at = "loaded", !.ran = new].ran = new
      BY <1>1, <3>1, <3>2
    <3>5. PICK w \in [at : WorkerStates, ran : Versions, id : Pins] :
             worker' = w /\ w.at = "loaded" /\ w.ran = new
      BY <3>3, <3>4
    <3>6. worker.at = "identified"
      BY <1>6 DEF LoadModel
    <3> QED
      BY <1>1, <1>2, <1>3, <2>1, <3>2, <3>5, <3>6, WorkerMoves
  <2>2. CASE \E k \in {"network", "error"} : Exits([kind |-> k])
    BY <1>4, <2>2
  <2> QED
    BY <1>6, <2>1, <2>2 DEF LoadModel
<1>7. CASE InferAndReply
  <2>1. CASE \E k \in {"network", "error"} : Exits([kind |-> k])
    BY <1>4, <2>1
  <2>2. CASE \E m \in Inferences : Exits([kind |-> "success", id |-> worker.id, m |-> m,
                                          seeded |-> spec.policy = "seeded_reproducible"])
    <3>1. PICK m \in Inferences : Exits([kind |-> "success", id |-> worker.id, m |-> m,
                                         seeded |-> spec.policy = "seeded_reproducible"])
      BY <2>2
    <3>2. [kind |-> "success", id |-> worker.id, m |-> m, seeded |-> spec.policy = "seeded_reproducible"].m
             \in Inferences
      <4>1. \A d : [kind |-> "success", id |-> worker.id, m |-> m, seeded |-> d].m = m
        OBVIOUS
      <4> QED
        BY <4>1, Zenon
    <3>3. worker.at = "loaded"
      BY <1>7 DEF InferAndReply
    <3> QED
      BY <1>2, <1>3, <3>1, <3>2, <3>3, ExitMoves
  <2> QED
    BY <1>7, <2>1, <2>2 DEF InferAndReply
<1>8. CASE WorkerDies
  BY <1>4, <1>8 DEF WorkerDies, NoReply
<1> QED
  BY <1>5, <1>6, <1>7, <1>8

\* The processes the worker starts, and the samples of the monitor.
LEMMA HelperSteps ==
    ASSUME QualInv, StartHelper \/ HelperEnds \/ SampleTree
    PROVE  QualInv'
<1>1. /\ helper \in [at : HelperStates, pipe : BOOLEAN, seen : BOOLEAN]
      /\ UNCHANGED <<spec, files, pin, stage, worker, reply, result>>
      /\ "gone" \in HelperStates /\ "attached" \in HelperStates
  BY DEF QualInv, QualTypes, StartHelper, HelperEnds, SampleTree, HelperStates
<1>2. CASE StartHelper
  <2>1. PICK p \in BOOLEAN : helper' = [at |-> "attached", pipe |-> p, seen |-> FALSE]
    BY <1>2 DEF StartHelper
  <2>2. [at |-> "attached", pipe |-> p, seen |-> FALSE] \in [at : HelperStates, pipe : BOOLEAN, seen : BOOLEAN]
    BY <1>1
  <2>3. result # "measured"
    BY <1>2 DEF QualInv, StartHelper
  <2> QED
    BY <1>1, <2>1, <2>2, <2>3, HelperMoves
<1>3. CASE HelperEnds
  <2>1. helper' = [helper EXCEPT !.at = "gone"]
    BY <1>3 DEF HelperEnds
  <2>2. PICK h \in [at : HelperStates, pipe : BOOLEAN, seen : BOOLEAN] : helper' = h /\ h.at = "gone"
    <3>1. /\ [helper EXCEPT !.at = "gone"] \in [at : HelperStates, pipe : BOOLEAN, seen : BOOLEAN]
          /\ [helper EXCEPT !.at = "gone"].at = "gone"
      BY <1>1
    <3> QED
      BY <2>1, <3>1
  <2> QED
    BY <1>1, <2>2, HelperMoves
<1>4. CASE SampleTree
  <2>1. helper' = [helper EXCEPT !.seen = TRUE] /\ result # "measured"
    BY <1>4 DEF QualInv, SampleTree
  <2>2. [helper EXCEPT !.seen = TRUE] \in [at : HelperStates, pipe : BOOLEAN, seen : BOOLEAN]
    BY <1>1
  <2> QED
    BY <1>1, <2>1, <2>2, HelperMoves
<1> QED
  BY <1>2, <1>3, <1>4

\* The time limit kills the worker's tree, unless the worker has exited.
LEMMA TimeoutMoves == ASSUME QualInv, Timeout PROVE QualInv'
<1>1. /\ QualTypes /\ StagesFit /\ PinnedVersions /\ SuccessIsReported
      /\ UNCHANGED <<spec, files, pin, reply, result>> /\ stage = "wait" /\ stage' = "drain"
      /\ worker \in [at : WorkerStates, ran : Versions, id : Pins]
      /\ helper \in [at : HelperStates, pipe : BOOLEAN, seen : BOOLEAN]
  BY DEF QualInv, QualTypes, Timeout
<1>2. /\ spec.external /\ result # "measured" /\ "drain" \in Stages /\ "drain" \notin Before
  BY <1>1 DEF QualInv, StagesFit, Before, OutOfProcess, Stages
<1>3. PICK h \in [at : HelperStates, pipe : BOOLEAN, seen : BOOLEAN] : helper' = h
  <2>1. "gone" \in HelperStates
    BY DEF HelperStates
  <2>2. [helper EXCEPT !.at = "gone"] \in [at : HelperStates, pipe : BOOLEAN, seen : BOOLEAN]
    BY <1>1, <2>1
  <2> QED
    BY <1>1, <2>2 DEF Timeout
<1>4. PICK w \in [at : WorkerStates, ran : Versions, id : Pins] :
         worker' = w /\ (w = worker \/ (w.at = "killed" /\ worker.at # "exited"))
  <2>1. "killed" \in WorkerStates
    BY DEF WorkerStates
  <2>2. /\ [worker EXCEPT !.at = "killed"] \in [at : WorkerStates, ran : Versions, id : Pins]
        /\ [worker EXCEPT !.at = "killed"].at = "killed"
    BY <1>1, <2>1
  <2> QED
    BY <1>1, <2>2 DEF Timeout
<1>5. QualTypes'
  BY <1>1, <1>2, <1>3, <1>4 DEF QualTypes
<1>6. StagesFit' /\ PinnedVersions' /\ SuccessIsReported'
  BY <1>1, <1>2, <1>4 DEF StagesFit, PinnedVersions, SuccessIsReported
<1> QED
  BY <1>1, <1>2, <1>5, <1>6 DEF QualInv, MeasuredIsEarned

\* A measurement repeats as the policy of the candidate asks.
LEMMA RepeatableMeans ==
    ASSUME NEW m \in Measures, Repeatable(m)
    PROVE  m.same <=> spec.policy # "stochastic_characterized"
<1>1. m.same \in BOOLEAN
  BY DEF Measures
<1> QED
  BY <1>1 DEF Repeatable

\* The verdict on a worker's reply, or on a runner in this process.
LEMMA JudgeMoves == ASSUME QualInv, JudgeWorker \/ RunLoaded PROVE QualInv'
<1>1. /\ QualTypes /\ StagesFit /\ PinnedVersions /\ SuccessIsReported
      /\ UNCHANGED <<spec, files, pin, worker, helper>> /\ stage' = "done"
      /\ "done" \in Stages /\ "done" \notin Before /\ "done" \notin OutOfProcess
  BY DEF QualInv, JudgeWorker, RunLoaded, Verdict, Stages, Before, OutOfProcess
<1>2. QualTypes' /\ StagesFit' /\ PinnedVersions'
  BY <1>1 DEF QualTypes, StagesFit, PinnedVersions
<1>3. HelperAlive' = HelperAlive
  BY <1>1 DEF HelperAlive
<1>4. CASE JudgeWorker
  <2>1. UNCHANGED reply /\ stage = "judge" /\ spec.external
    BY <1>1, <1>4 DEF JudgeWorker, StagesFit, OutOfProcess
  <2>2. SuccessIsReported'
    BY <1>1, <2>1 DEF SuccessIsReported
  <2>3. result' = "measured" =>
           /\ reply.kind = "success" /\ OutputsValid(reply.m) /\ Repeatable(reply.m)
           /\ reply.m.fits /\ MemoryReleased(reply.m)
    BY <1>4 DEF JudgeWorker, Verdict
  <2>4. ASSUME result' = "measured"
        PROVE  /\ ~reply.m.net /\ reply.m.fits /\ reply.m.valid /\ worker.at = "exited"
               /\ (reply.m.same <=> spec.policy # "stochastic_characterized")
               /\ \A f \in PinnedFiles : worker.ran[f] = pin.of[f]
               /\ (~reply.m.released /\ helper.seen => ~HelperAlive)
    <3>1. worker.at = "exited" /\ reply.m \in Inferences /\ \A f \in PinnedFiles : worker.ran[f] = pin.of[f]
      BY <1>1, <2>3, <2>4 DEF SuccessIsReported
    <3>2. reply.m \in Measures /\ ~reply.m.net
      BY <3>1 DEF Inferences
    <3> QED
      BY <2>3, <2>4, <3>1, <3>2, RepeatableMeans DEF OutputsValid, MemoryReleased
  <2>5. MeasuredIsEarned'
    BY <1>1, <1>3, <2>1, <2>4 DEF MeasuredIsEarned
  <2> QED
    BY <1>1, <1>2, <2>2, <2>4, <2>5 DEF QualInv
<1>5. CASE RunLoaded
  <2>1. stage = "run" /\ ~spec.external /\ worker.at = "off"
    BY <1>1, <1>5 DEF RunLoaded, StagesFit, Before
  <2>2. PICK m \in Measures :
           /\ reply' = [kind |-> "in-process", m |-> m]
           /\ result' = "measured" => Guarded(m) /\ OutputsValid(m) /\ Repeatable(m) /\ m.fits /\ m.released
    BY <1>5 DEF RunLoaded, Verdict
  <2>3. reply'.kind = "in-process" /\ reply'.m = m
    BY <2>2
  <2>4. SuccessIsReported'
    BY <2>3 DEF SuccessIsReported
  <2>5. result' = "measured" =>
           /\ ~m.net /\ m.fits /\ m.valid /\ m.released
           /\ (m.same <=> spec.policy # "stochastic_characterized")
    BY <2>2, RepeatableMeans DEF Guarded, OutputsValid
  <2>6. MeasuredIsEarned'
    BY <1>1, <2>1, <2>3, <2>5 DEF MeasuredIsEarned
  <2> QED
    BY <1>1, <1>2, <2>1, <2>4, <2>6 DEF QualInv
<1> QED
  BY <1>4, <1>5

\* The first state: no worker, no pin, no measurement.
LEMMA InitQual == QualificationInit => QualInv
<1> SUFFICES ASSUME QualificationInit PROVE QualInv
  OBVIOUS
<1>1. /\ files = [f \in Files |-> 0] /\ pin = [st |-> "pending", of |-> [f \in PinnedFiles |-> -1]]
      /\ stage = "idle" /\ result = "none" /\ reply = [kind |-> "none"]
      /\ worker = [at |-> "off", ran |-> files, id |-> pin.of]
      /\ helper = [at |-> "none", pipe |-> FALSE, seen |-> FALSE]
  BY DEF QualificationInit, NoReply
<1>2. files \in Versions /\ pin.of \in Pins /\ \A f \in Files : files[f] >= 0
  BY <1>1 DEF Versions, Pins
<1>3. worker \in [at : WorkerStates, ran : Versions, id : Pins]
  BY <1>1, <1>2 DEF WorkerStates
<1>4. helper \in [at : HelperStates, pipe : BOOLEAN, seen : BOOLEAN]
  BY <1>1 DEF HelperStates
<1>5. QualTypes
  BY <1>1, <1>2, <1>3, <1>4 DEF QualTypes, Stages
<1>6. StagesFit /\ PinnedVersions /\ SuccessIsReported /\ MeasuredIsEarned
  BY <1>1, <1>2 DEF StagesFit, PinnedVersions, SuccessIsReported, MeasuredIsEarned, OutOfProcess
<1> QED
  BY <1>1, <1>5, <1>6 DEF QualInv

\* Every step keeps the invariant.
LEMMA NextQual == QualInv /\ [QualificationNext]_qualVars => QualInv'
<1> SUFFICES ASSUME QualInv, [QualificationNext]_qualVars PROVE QualInv'
  OBVIOUS
<1>1. CASE (\E f \in Files : ChangeFile(f)) \/ FreezeInventory \/ FreezeHashes \/ OtherLease
  BY <1>1, MachineMoves
<1>2. CASE BeginQualification \/ RunLoaded
  BY <1>2, ParentMoves, JudgeMoves
<1>3. CASE ParentStep
  BY <1>3, ParentMoves, StartMoves, TimeoutMoves, JudgeMoves DEF ParentStep
<1>4. CASE Identify \/ LoadModel \/ InferAndReply \/ WorkerDies
  BY <1>4, WorkerSteps
<1>5. CASE StartHelper \/ HelperEnds \/ SampleTree
  BY <1>5, HelperSteps
<1>6. CASE UNCHANGED qualVars
  <2>1. UNCHANGED <<spec, files, pin, stage, worker, helper, reply, lease, result>>
    BY <1>6 DEF qualVars
  <2> QED
    BY <2>1 DEF QualInv, QualTypes, StagesFit, PinnedVersions, SuccessIsReported, MeasuredIsEarned, HelperAlive
<1> QED
  BY <1>1, <1>2, <1>3, <1>4, <1>5, <1>6 DEF QualificationNext

\* A candidate is measured only if what ran is what its pin lists, its outputs repeat as its
\* policy asks and its memory is back, however often files change under the qualification,
\* however its worker ends and whatever it leaves behind (run_runtime_qualification).
THEOREM MeasuredIsEarnedTheorem == QualificationSpec => []MeasuredIsEarned
<1>1. QualificationInit => QualInv
  BY InitQual
<1>2. QualInv /\ [QualificationNext]_qualVars => QualInv'
  BY NextQual
<1>3. QualInv => MeasuredIsEarned
  BY DEF QualInv
<1> QED
  BY <1>1, <1>2, <1>3, PTL DEF QualificationSpec

---------------------------------------------------------------------------
(* The account ledger.                                                     *)

\* f replays the first n rows.
Replays(f, rows, n) == f = [i \in 0..n |-> IF i = 0 THEN Opening ELSE Applied(f[i - 1], rows[i].event)]

\* One row more can always be replayed.
LEMMA ReplayGrows ==
  ASSUME NEW rows, NEW n \in Nat, NEW f, Replays(f, rows, n)
  PROVE  \E g : Replays(g, rows, n + 1)
<1> DEFINE g == [i \in 0..(n + 1) |-> IF i = n + 1 THEN Applied(f[n], rows[n + 1].event) ELSE f[i]]
<1>1. \A i \in 0..n : f[i] = IF i = 0 THEN Opening ELSE Applied(f[i - 1], rows[i].event)
  BY DEF Replays
<1>2. \A i \in 0..n : g[i] = f[i]
  OBVIOUS
<1>3. \A i \in 0..(n + 1) : g[i] = IF i = 0 THEN Opening ELSE Applied(g[i - 1], rows[i].event)
  <2> SUFFICES ASSUME NEW i \in 0..(n + 1)
               PROVE  g[i] = IF i = 0 THEN Opening ELSE Applied(g[i - 1], rows[i].event)
    OBVIOUS
  <2>1. CASE i = 0
    BY <1>1, <1>2, <2>1
  <2>2. CASE i \in 1..n
    <3>1. i - 1 \in 0..n /\ i \in 0..n /\ i # 0
      BY <2>2
    <3>2. g[i - 1] = f[i - 1] /\ g[i] = f[i]
      BY <1>2, <3>1
    <3> HIDE DEF g
    <3> QED
      BY <1>1, <3>1, <3>2
  <2>3. CASE i = n + 1
    <3>1. g[i] = Applied(f[n], rows[i].event) /\ g[i - 1] = f[n] /\ i # 0
      BY <2>3
    <3> HIDE DEF g
    <3> QED
      BY <3>1
  <2> QED
    BY <2>1, <2>2, <2>3
<1>4. g = [i \in 0..(n + 1) |-> g[i]]
  OBVIOUS
<1> HIDE DEF g
<1>5. g = [i \in 0..(n + 1) |-> IF i = 0 THEN Opening ELSE Applied(g[i - 1], rows[i].event)]
  BY <1>3, <1>4
<1> QED
  BY <1>5 DEF Replays

\* The replay is what its definition says: one account per row.
LEMMA ReplayIs ==
  ASSUME NEW S, NEW rows \in Seq(S)
  PROVE  /\ Replay(rows)[0] = Opening
         /\ \A n \in 1..Len(rows) : Replay(rows)[n] = Applied(Replay(rows)[n - 1], rows[n].event)
<1>1. \A n \in Nat : \E f : Replays(f, rows, n)
  <2> SUFFICES ASSUME NEW m \in Nat, ~ \E f : Replays(f, rows, m)
               PROVE  FALSE
    OBVIOUS
  <2> DEFINE Bad == {n \in Nat : ~ \E f : Replays(f, rows, n)}
  <2>1. PICK k \in Bad : \A j \in Bad : k <= j
    <3>1. Bad \subseteq Nat /\ Bad # {}
      OBVIOUS
    <3> HIDE DEF Bad
    <3> QED
      BY <3>1, LeastNat
  <2>2. CASE k = 0
    <3>1. Replays([i \in 0..0 |-> Opening], rows, 0)
      BY DEF Replays
    <3> QED
      BY <2>1, <2>2, <3>1
  <2>3. CASE k # 0
    <3>1. k - 1 \in Nat /\ k - 1 \notin Bad
      BY <2>1, <2>3
    <3>2. PICK f : Replays(f, rows, k - 1)
      BY <3>1
    <3>3. \E g : Replays(g, rows, k - 1 + 1)
      BY <3>1, <3>2, ReplayGrows
    <3> QED
      BY <2>1, <3>3
  <2> QED
    BY <2>2, <2>3
<1>2. Len(rows) \in Nat
  OBVIOUS
<1>3. Replays(Replay(rows), rows, Len(rows))
  <2>1. Replay(rows) = CHOOSE f : Replays(f, rows, Len(rows))
    BY DEF Replay, Replays
  <2> QED
    BY <1>1, <1>2, <2>1
<1> QED
  BY <1>2, <1>3 DEF Replays
\* A row more changes nothing about the replay of the earlier ones.
LEMMA ReplayPrefix ==
  ASSUME NEW S, NEW rows \in Seq(S), NEW r \in S, NEW more, more = Append(rows, r)
  PROVE  \A n \in 0..Len(rows) : Replay(more)[n] = Replay(rows)[n]
<1> SUFFICES ASSUME NEW m \in 0..Len(rows), Replay(more)[m] # Replay(rows)[m]
             PROVE  FALSE
  OBVIOUS
<1>1. /\ more \in Seq(S) /\ Len(more) = Len(rows) + 1 /\ Len(rows) \in Nat
      /\ \A i \in 1..Len(rows) : more[i] = rows[i]
  BY AppendProperties
<1> DEFINE Bad == {n \in 0..Len(rows) : Replay(more)[n] # Replay(rows)[n]}
<1>2. PICK k \in Bad : \A j \in Bad : k <= j
  <2>1. Bad \in SUBSET Nat /\ Bad # {}
    BY <1>1
  <2> HIDE DEF Bad
  <2> QED
    BY <2>1, LeastNat
<1>3. /\ Replay(rows)[0] = Opening /\ Replay(more)[0] = Opening
      /\ \A n \in 1..Len(rows) : Replay(rows)[n] = Applied(Replay(rows)[n - 1], rows[n].event)
      /\ \A n \in 1..Len(more) : Replay(more)[n] = Applied(Replay(more)[n - 1], more[n].event)
  BY <1>1, ReplayIs
<1>4. CASE k = 0
  BY <1>2, <1>3, <1>4
<1>5. CASE k # 0
  <2>1. k \in 1..Len(rows) /\ k \in 1..Len(more) /\ k - 1 \in 0..Len(rows) /\ k - 1 \notin Bad
    BY <1>1, <1>2, <1>5
  <2>2. Replay(more)[k - 1] = Replay(rows)[k - 1] /\ more[k] = rows[k]
    BY <1>1, <2>1
  <2>3. Replay(more)[k] = Replay(rows)[k]
    BY <1>3, <2>1, <2>2
  <2> QED
    BY <1>2, <2>3
<1> QED
  BY <1>4, <1>5

\* Rows and processes are what the steps build.
AccountShape ==
    /\ \E S : accountRows \in Seq(S)
    /\ DOMAIN holder = Writers
    /\ \A w \in Writers : DOMAIN holder[w] = {"up", "acct", "applied"}

\* A process that wrote every row has applied every row, in their order.
Sole(w) == \A n \in DOMAIN accountRows : accountRows[n].by = w
SoleInv ==
    \A w \in Writers : Sole(w) =>
        /\ Hydratable(accountRows)
        /\ holder[w].up =>
              /\ holder[w].acct = Replay(accountRows)[Len(accountRows)]
              /\ holder[w].applied = {accountRows[n].event : n \in DOMAIN accountRows}

AccountInv == AccountShape /\ SoleInv

\* What the rows record.
EventsOf(rows) == {rows[n].event : n \in DOMAIN rows}

\* The row of a sole writer leads to the state whose hash it carries.
LEMMA RowReplays ==
  ASSUME NEW S, NEW rows \in Seq(S), NEW r \in S, NEW more, more = Append(rows, r),
         Hydratable(rows), r.hash = Applied(Replay(rows)[Len(rows)], r.event)
  PROVE  /\ Hydratable(more) /\ Replay(more)[Len(more)] = r.hash
         /\ EventsOf(more) = EventsOf(rows) \cup {r.event}
<1>1. /\ more \in Seq(S) /\ Len(more) = Len(rows) + 1 /\ Len(rows) \in Nat
      /\ DOMAIN more = 1..Len(more) /\ DOMAIN rows = 1..Len(rows)
      /\ more[Len(more)] = r /\ \A i \in 1..Len(rows) : more[i] = rows[i]
  BY AppendProperties
<1>2. Replay(more)[Len(rows)] = Replay(rows)[Len(rows)]
  <2>1. Len(rows) \in 0..Len(rows)
    BY <1>1
  <2>2. \A n \in 0..Len(rows) : Replay(more)[n] = Replay(rows)[n]
    BY ReplayPrefix
  <2> QED
    BY <2>1, <2>2
<1>3. Replay(more)[Len(more)] = Applied(Replay(more)[Len(more) - 1], more[Len(more)].event)
  <2>1. Len(more) \in 1..Len(more)
    BY <1>1
  <2> QED
    BY <1>1, <2>1, ReplayIs
<1>4. Replay(more)[Len(more)] = r.hash
  BY <1>1, <1>2, <1>3
<1>5. \A n \in DOMAIN more : more[n].hash = Replay(more)[n]
  <2> SUFFICES ASSUME NEW n \in DOMAIN more PROVE more[n].hash = Replay(more)[n]
    OBVIOUS
  <2>1. CASE n = Len(more)
    BY <1>1, <1>4, <2>1
  <2>2. CASE n \in 1..Len(rows)
    <3>1. n \in 0..Len(rows) /\ more[n] = rows[n] /\ n \in DOMAIN rows
      BY <1>1, <2>2
    <3>2. Replay(more)[n] = Replay(rows)[n]
      BY <3>1, ReplayPrefix
    <3>3. rows[n].hash = Replay(rows)[n]
      BY <3>1 DEF Hydratable
    <3> QED
      BY <3>1, <3>2, <3>3
  <2> QED
    BY <1>1, <2>1, <2>2
<1>6. EventsOf(more) = EventsOf(rows) \cup {r.event}
  <2>1. DOMAIN more = DOMAIN rows \cup {Len(more)}
    BY <1>1
  <2> QED
    BY <1>1, <2>1 DEF EventsOf
<1> QED
  BY <1>4, <1>5, <1>6 DEF Hydratable

\* The state after the last row of an empty ledger is the opening.
LEMMA EmptyReplay == Hydratable(<<>>) /\ Replay(<<>>)[0] = Opening
<1>1. <<>> \in Seq({}) /\ Len(<<>>) = 0 /\ DOMAIN <<>> = {}
  OBVIOUS
<1> QED
  BY <1>1, ReplayIs DEF Hydratable

\* A booking adds the row of the account that was booked, or meets an equal one.
LEMMA BookStep ==
  ASSUME AccountInv, NEW w \in Writers, NEW e \in Inputs, Book(w, e)
  PROVE  AccountInv'
<1> DEFINE same == {n \in DOMAIN accountRows : accountRows[n].event.key = e.key}
           h == Applied(holder[w].acct, e)
<1>1. DOMAIN holder = Writers /\ \A v \in Writers : DOMAIN holder[v] = {"up", "acct", "applied"}
  BY DEF AccountInv, AccountShape
<1>2. holder' = [holder EXCEPT ![w].acct = Applied(@, e), ![w].applied = @ \cup {e}] /\ holder[w].up
  BY DEF Book, Commit
<1> HIDE DEF h
<1>3. /\ DOMAIN holder' = Writers
      /\ \A v \in Writers : v # w => holder'[v] = holder[v]
      /\ holder'[w].up = holder[w].up /\ holder'[w].acct = h /\ holder'[w].applied = holder[w].applied \cup {e}
      /\ DOMAIN holder'[w] = {"up", "acct", "applied"}
  <2>1. holder' = [holder EXCEPT ![w] = [holder[w] EXCEPT !.acct = h, !.applied = holder[w].applied \cup {e}]]
    BY <1>1, <1>2 DEF h
  <2>2. PICK r : r = [holder[w] EXCEPT !.acct = h, !.applied = holder[w].applied \cup {e}]
    OBVIOUS
  <2>3. /\ r.up = holder[w].up /\ r.acct = h /\ r.applied = holder[w].applied \cup {e}
        /\ DOMAIN r = {"up", "acct", "applied"}
    BY <1>1, <2>2
  <2>4. holder' = [holder EXCEPT ![w] = r]
    BY <2>1, <2>2
  <2> QED
    BY <1>1, <2>3, <2>4
<1>4. \A v \in Writers : DOMAIN holder'[v] = {"up", "acct", "applied"}
  BY <1>1, <1>3
<1>5. PICK S : accountRows \in Seq(S)
  BY DEF AccountInv, AccountShape
<1>6. CASE same = {} /\ accountRows' = Append(accountRows, Row(w, e))
  <2> DEFINE r == [event |-> e, hash |-> h, by |-> w]
             T == S \cup {r}
  <2>1. accountRows \in Seq(T) /\ accountRows' = Append(accountRows, r) /\ r \in T
    <3>1. S \subseteq T
      OBVIOUS
    <3>2. accountRows \in Seq(T)
      BY <1>5, <3>1
    <3> QED
      BY <1>6, <3>2 DEF Row, h
  <2>2. r.event = e /\ r.hash = h /\ r.by = w
    OBVIOUS
  <2> HIDE DEF r, T
  <2>3. /\ accountRows' \in Seq(T) /\ Len(accountRows') = Len(accountRows) + 1 /\ Len(accountRows) \in Nat
        /\ DOMAIN accountRows' = 1..Len(accountRows') /\ DOMAIN accountRows = 1..Len(accountRows)
        /\ accountRows'[Len(accountRows')] = r /\ \A i \in 1..Len(accountRows) : accountRows'[i] = accountRows[i]
    BY <2>1, AppendProperties
  <2>0. PICK more : more = accountRows'
    OBVIOUS
  <2>4. AccountShape'
    BY <1>3, <1>4, <2>3 DEF AccountShape
  <2>5. ASSUME NEW v \in Writers, Sole(v)' PROVE v = w /\ Sole(w)
    <3>1. Len(accountRows') \in DOMAIN accountRows' /\ DOMAIN accountRows \subseteq DOMAIN accountRows'
      BY <2>3
    <3> QED
      BY <2>2, <2>3, <2>5, <3>1 DEF Sole
  <2>6. ASSUME Sole(w)
        PROVE  /\ Hydratable(more) /\ holder'[w].acct = Replay(more)[Len(more)]
               /\ holder'[w].applied = {more[n].event : n \in DOMAIN more}
    <3>1. /\ Hydratable(accountRows) /\ holder[w].acct = Replay(accountRows)[Len(accountRows)]
          /\ holder[w].applied = {accountRows[n].event : n \in DOMAIN accountRows}
      BY <1>2, <2>6 DEF AccountInv, SoleInv
    <3>2. r.hash = Applied(Replay(accountRows)[Len(accountRows)], r.event)
      BY <2>2, <3>1 DEF h
    <3>3. /\ Hydratable(more) /\ Replay(more)[Len(more)] = r.hash
          /\ {more[n].event : n \in DOMAIN more} = {accountRows[n].event : n \in DOMAIN accountRows} \cup {r.event}
      <4>1. more = Append(accountRows, r)
        BY <2>1, <2>0
      <4>2. PICK old : old = accountRows
        OBVIOUS
      <4>3. old \in Seq(T) /\ r \in T /\ more = Append(old, r)
        BY <2>1, <4>1, <4>2
      <4>4. Hydratable(old) /\ r.hash = Applied(Replay(old)[Len(old)], r.event)
        BY <3>1, <3>2, <4>2
      <4>5. /\ Hydratable(more) /\ Replay(more)[Len(more)] = r.hash
            /\ EventsOf(more) = EventsOf(old) \cup {r.event}
        BY <4>3, <4>4, RowReplays
      <4> QED
        BY <4>2, <4>5 DEF EventsOf
    <3> QED
      BY <1>3, <2>0, <2>2, <3>1, <3>3
  <2>7. SoleInv'
    BY <2>0, <2>5, <2>6 DEF SoleInv, Hydratable, Replay
  <2> QED
    BY <2>4, <2>7 DEF AccountInv
<1>7. CASE same # {} /\ accountRows' = accountRows
  <2>1. AccountShape'
    BY <1>3, <1>4, <1>5, <1>7 DEF AccountShape
  <2>2. ~ Sole(w)
    <3>1. PICK n \in DOMAIN accountRows : accountRows[n].event.key = e.key
      BY <1>7
    <3>2. \A f \in holder[w].applied : f.key # e.key
      BY DEF Book
    <3> QED
      BY <1>2, <3>1, <3>2 DEF AccountInv, SoleInv
  <2>3. SoleInv'
    <3> SUFFICES ASSUME NEW v \in Writers, Sole(v)'
                 PROVE  /\ Hydratable(accountRows)
                        /\ holder'[v].up =>
                              /\ holder'[v].acct = Replay(accountRows)[Len(accountRows)]
                              /\ holder'[v].applied = {accountRows[n].event : n \in DOMAIN accountRows}
      BY <1>7 DEF SoleInv
    <3>1. Sole(v) /\ v # w
      BY <1>7, <2>2 DEF Sole
    <3> QED
      BY <1>3, <3>1 DEF AccountInv, SoleInv
  <2> QED
    BY <2>1, <2>3 DEF AccountInv
<1> QED
  BY <1>6, <1>7 DEF Book

\* A process that opens the ledger, and one that dies.
LEMMA HolderStep ==
  ASSUME AccountInv, NEW w \in Writers, Hydrate(w) \/ Die(w)
  PROVE  AccountInv'
<1>1. DOMAIN holder = Writers /\ \A v \in Writers : DOMAIN holder[v] = {"up", "acct", "applied"}
  BY DEF AccountInv, AccountShape
<1>2. accountRows' = accountRows
  BY DEF Hydrate, Die
<1> DEFINE f == [up |-> TRUE, acct |-> Replay(accountRows)[Len(accountRows)],
                 applied |-> {accountRows[n].event : n \in DOMAIN accountRows}]
           g == [up |-> FALSE, acct |-> Opening, applied |-> {}]
<1>3. PICK u \in {f, g} : holder' = [holder EXCEPT ![w] = u]
  BY DEF Hydrate, Die
<1>4. /\ DOMAIN u = {"up", "acct", "applied"}
      /\ u.up => u.acct = Replay(accountRows)[Len(accountRows)] /\ u.applied = {accountRows[n].event : n \in DOMAIN accountRows}
  OBVIOUS
<1> HIDE DEF f, g
<1>5. DOMAIN holder' = Writers /\ holder'[w] = u /\ \A v \in Writers : v # w => holder'[v] = holder[v]
  BY <1>1, <1>3
<1>6. AccountShape'
  BY <1>1, <1>2, <1>4, <1>5 DEF AccountInv, AccountShape
<1>7. SoleInv'
  <2> SUFFICES ASSUME NEW v \in Writers, Sole(v)'
               PROVE  /\ Hydratable(accountRows)
                      /\ holder'[v].up =>
                            /\ holder'[v].acct = Replay(accountRows)[Len(accountRows)]
                            /\ holder'[v].applied = {accountRows[n].event : n \in DOMAIN accountRows}
    BY <1>2 DEF SoleInv
  <2>1. Sole(v)
    BY <1>2 DEF Sole
  <2> QED
    BY <1>4, <1>5, <2>1 DEF AccountInv, SoleInv
<1> QED
  BY <1>6, <1>7 DEF AccountInv

\* An empty ledger replays to the opening.
LEMMA AccountStarts == AccountInit => AccountInv
<1> SUFFICES ASSUME AccountInit PROVE AccountInv
  OBVIOUS
<1>1. accountRows = <<>> /\ holder = [w \in Writers |-> [up |-> FALSE, acct |-> Opening, applied |-> {}]]
  BY DEF AccountInit
<1>2. AccountShape
  <2>1. accountRows \in Seq({})
    BY <1>1
  <2> QED
    BY <1>1, <2>1 DEF AccountShape
<1>3. SoleInv
  BY <1>1, EmptyReplay DEF SoleInv
<1> QED
  BY <1>2, <1>3 DEF AccountInv

LEMMA AccountSteps == AccountInv /\ [AccountNext]_accountVars => AccountInv'
<1> SUFFICES ASSUME AccountInv, [AccountNext]_accountVars PROVE AccountInv'
  OBVIOUS
<1>1. CASE UNCHANGED accountVars
  BY <1>1 DEF accountVars, AccountInv, AccountShape, SoleInv, Sole
<1>2. CASE AccountNext
  BY <1>2, BookStep, HolderStep DEF AccountNext
<1> QED
  BY <1>1, <1>2

\* As long as one process writes the ledger, every restart is accepted and leads to
\* the account that process holds, for any number of rows and of crashes.
THEOREM SoleWriterTheorem == AccountSpec => []SoleWriterRestarts
<1>1. AccountInv => SoleWriterRestarts
  BY DEF AccountInv, SoleInv, Sole, SoleWriterRestarts
<1> QED
  BY <1>1, AccountSteps, AccountStarts, PTL DEF AccountSpec

(***************************************************************************)
(* The books of an account.                                                *)
(*                                                                         *)
(* Booking is proved to keep the books balanced as an operator, for all    *)
(* amounts: what a fill changes in the cost of the position is what was    *)
(* paid and the gain, also when it closes or crosses zero.  A restart      *)
(* takes over a state whose hash a row carries, so the invariant is about  *)
(* the rows as well.                                                       *)
(***************************************************************************)

Fields == {"cash", "pos", "avg", "mark", "fees", "paid", "real", "adj", "moved", "daily", "margin", "peak"}

\* What the position cost.
Cost(s) == s.pos * s.avg

\* An account whose books balance, and the same before its peak is brought up to date.
BeforePeak(s) ==
    /\ DOMAIN s = Fields
    /\ s.cash \in Int /\ s.pos \in Int /\ s.avg \in Int /\ s.mark \in Int /\ s.fees \in Int /\ s.paid \in Int
    /\ s.real \in Int /\ s.adj \in Int /\ s.moved \in Int /\ s.daily \in Int /\ s.peak \in Int
    /\ s.cash + Cost(s) = StartingCash + s.real - s.fees - s.paid + s.adj + s.moved
    /\ s.daily = s.real - s.fees - s.paid
Balanced(s) == BeforePeak(s) /\ s.peak >= Equity(s)

\* What a product with a size and its sign comes to.
LEMMA SignedSize ==
    ASSUME NEW x \in Int
    PROVE  /\ x > 0 => Sign(x) = 1 /\ Abs(x) = x
           /\ x < 0 => Sign(x) = -1 /\ Abs(x) = -x
           /\ x = 0 => Sign(x) = 0 /\ Abs(x) = 0
BY DEF Sign, Abs

\* A position that shrinks keeps its average, one that closes or crosses realises all of it.
LEMMA CostOfTheRest ==
    ASSUME NEW pos \in Int, NEW avg \in Int, NEW q \in Int, NEW p \in Int
    PROVE  /\ (pos + q) * avg = pos * avg + q * p + (p - avg) * (-q)
           /\ (pos + q) * p = pos * avg + q * p + (p - avg) * pos
           /\ pos + q = 0 => (pos + q) * 0 = pos * avg + q * p + (p - avg) * pos
<1>1. ASSUME pos + q = 0 PROVE (pos + q) * 0 = pos * avg + q * p + (p - avg) * pos
  <2>1. q = -pos
    BY <1>1
  <2> QED
    BY <2>1
<1>2. (pos + q) * avg = pos * avg + q * p + (p - avg) * (-q)
  OBVIOUS
<1>3. (pos + q) * p = pos * avg + q * p + (p - avg) * pos
  OBVIOUS
<1> QED
  BY <1>1, <1>2, <1>3

\* The average after a fill and the gain it realises, for the amounts alone.
NewAverage(pos, avg, q, p) ==
    IF pos + q = 0 THEN 0
    ELSE IF Sign(pos) * Sign(q) >= 0 THEN (avg * Abs(pos) + p * Abs(q)) \div (Abs(pos) + Abs(q))
    ELSE IF Sign(pos) # Sign(pos + q) THEN p
    ELSE avg
Gain(pos, avg, q, p) ==
    IF Sign(pos) * Sign(q) >= 0 THEN 0
    ELSE (p - avg) * Sign(pos) * (IF Abs(q) < Abs(pos) THEN Abs(q) ELSE Abs(pos))

WholeAverage(pos, avg, q, p) ==
    pos + q # 0 /\ Sign(pos) * Sign(q) >= 0 => (avg * Abs(pos) + p * Abs(q)) % (Abs(pos) + Abs(q)) = 0

\* A fill against the position.
LEMMA ClosingFill ==
    ASSUME NEW pos \in Int, NEW avg \in Int, NEW q \in Int, NEW p \in Int,
           (pos > 0 /\ q < 0) \/ (pos < 0 /\ q > 0)
    PROVE  \/ NewAverage(pos, avg, q, p) = avg /\ Gain(pos, avg, q, p) = (p - avg) * (-q)
           \/ NewAverage(pos, avg, q, p) = p /\ Gain(pos, avg, q, p) = (p - avg) * pos
           \/ pos + q = 0 /\ NewAverage(pos, avg, q, p) = 0 /\ Gain(pos, avg, q, p) = (p - avg) * pos
<1> DEFINE closed == IF Abs(q) < Abs(pos) THEN Abs(q) ELSE Abs(pos)
<1>1. Sign(pos) * Sign(q) = -1
  BY SignedSize
<1>2. /\ Gain(pos, avg, q, p) = (p - avg) * Sign(pos) * closed
      /\ NewAverage(pos, avg, q, p) = IF pos + q = 0 THEN 0 ELSE IF Sign(pos) # Sign(pos + q) THEN p ELSE avg
  BY <1>1 DEF Gain, NewAverage
<1>3. /\ Abs(q) < Abs(pos) => Sign(pos) * closed = -q /\ Sign(pos) = Sign(pos + q) /\ pos + q # 0
      /\ ~ Abs(q) < Abs(pos) => Sign(pos) * closed = pos /\ (pos + q = 0 \/ Sign(pos) # Sign(pos + q))
  BY SignedSize
<1>4. (p - avg) * Sign(pos) * closed = (p - avg) * (Sign(pos) * closed)
  <2>1. Sign(pos) \in Int /\ closed \in Int
    BY SignedSize
  <2> HIDE DEF closed
  <2> QED
    BY <2>1
<1> HIDE DEF closed
<1> QED
  BY <1>2, <1>3, <1>4

\* The cost of the position after a fill is its cost before, what was paid, and the gain of
\* what was closed: growing, shrinking, closing and crossing zero.
LEMMA FillCost ==
    ASSUME NEW pos \in Int, NEW avg \in Int, NEW q \in Int, NEW p \in Int,
           WholeAverage(pos, avg, q, p)
    PROVE  /\ NewAverage(pos, avg, q, p) \in Int /\ Gain(pos, avg, q, p) \in Int
           /\ (pos + q) * NewAverage(pos, avg, q, p) = pos * avg + q * p + Gain(pos, avg, q, p)
<1>1. CASE (pos > 0 /\ q < 0) \/ (pos < 0 /\ q > 0)
  <2>1. /\ (p - avg) * (-q) \in Int /\ (p - avg) * pos \in Int
    OBVIOUS
  <2>2. PICK a, gain : a = NewAverage(pos, avg, q, p) /\ gain = Gain(pos, avg, q, p)
    OBVIOUS
  <2>3. /\ (pos + q) * avg = pos * avg + q * p + (p - avg) * (-q)
        /\ (pos + q) * p = pos * avg + q * p + (p - avg) * pos
        /\ pos + q = 0 => (pos + q) * 0 = pos * avg + q * p + (p - avg) * pos
    BY CostOfTheRest
  <2>4. \/ a = avg /\ gain = (p - avg) * (-q)
        \/ a = p /\ gain = (p - avg) * pos
        \/ pos + q = 0 /\ a = 0 /\ gain = (p - avg) * pos
    BY <1>1, <2>2, ClosingFill
  <2>5. a \in Int /\ gain \in Int /\ (pos + q) * a = pos * avg + q * p + gain
    <3>1. 0 \in Int
      OBVIOUS
    <3>2. CASE a = avg /\ gain = (p - avg) * (-q)
      BY <2>1, <2>3, <3>2, Zenon
    <3>3. CASE a = p /\ gain = (p - avg) * pos
      BY <2>1, <2>3, <3>3, Zenon
    <3>4. CASE pos + q = 0 /\ a = 0 /\ gain = (p - avg) * pos
      BY <2>1, <2>3, <3>1, <3>4, Zenon
    <3> QED
      BY <2>4, <3>2, <3>3, <3>4
  <2> QED
    BY <2>2, <2>5
<1>2. CASE pos = 0 /\ q = 0
  <2>1. NewAverage(pos, avg, q, p) = 0 /\ Gain(pos, avg, q, p) = 0
    BY <1>2, SignedSize DEF NewAverage, Gain
  <2> QED
    BY <1>2, <2>1
<1>3. CASE \/ pos >= 0 /\ q >= 0 /\ pos + q > 0
           \/ pos <= 0 /\ q <= 0 /\ pos + q < 0
  <2> DEFINE d == Abs(pos) + Abs(q)
             n == avg * Abs(pos) + p * Abs(q)
  <2>1. Sign(pos) * Sign(q) >= 0 /\ pos + q # 0
    BY <1>3, SignedSize
  <2>2. NewAverage(pos, avg, q, p) = n \div d /\ Gain(pos, avg, q, p) = 0
    BY <2>1 DEF NewAverage, Gain
  <2>3. n % d = 0
    BY <2>1 DEF WholeAverage
  <2>4. \/ pos + q > 0 /\ Abs(pos) = pos /\ Abs(q) = q
        \/ pos + q < 0 /\ Abs(pos) = -pos /\ Abs(q) = -q
    BY <1>3, SignedSize
  <2>5. /\ d \in Nat \ {0} /\ n \in Int
        /\ \/ d = pos + q /\ n = avg * pos + p * q
           \/ d = -(pos + q) /\ n = -(avg * pos + p * q)
    BY <2>4
  <2> HIDE DEF d, n
  <2>6. PICK a \in Int : a = n \div d /\ a * d = n
    BY <2>3, <2>5
  <2>7. (pos + q) * a = pos * avg + q * p
    BY <2>5, <2>6
  <2>8. NewAverage(pos, avg, q, p) = a
    BY <2>2, <2>6
  <2>9. (pos + q) * a = pos * avg + q * p + 0 /\ a \in Int /\ 0 \in Int
    BY <2>7
  <2> QED
    BY <2>2, <2>8, <2>9, Zenon
<1> QED
  BY <1>1, <1>2, <1>3

\* From s to r, cash and the other accounts move by these amounts and the position's cost
\* by what balances them.
Moves(s, r, cash, fees, paid, real, adj, moved) ==
    /\ r.cash = s.cash + cash /\ r.fees = s.fees + fees /\ r.paid = s.paid + paid /\ r.real = s.real + real
    /\ r.adj = s.adj + adj /\ r.moved = s.moved + moved /\ r.daily = s.daily + (real - fees - paid)
    /\ cash + (Cost(r) - Cost(s)) = real - fees - paid + adj + moved

LEMMA BooksMove ==
    ASSUME NEW s, BeforePeak(s), NEW r, DOMAIN r = Fields, r.pos \in Int, r.avg \in Int, r.mark \in Int,
           r.peak = s.peak, Cost(r) \in Int,
           NEW cash \in Int, NEW fees \in Int, NEW paid \in Int, NEW real \in Int, NEW adj \in Int,
           NEW moved \in Int, Moves(s, r, cash, fees, paid, real, adj, moved)
    PROVE  BeforePeak(r)
<1>1. PICK c \in Int, f \in Int, p \in Int, g \in Int, a \in Int, m \in Int, d \in Int, old \in Int, new \in Int :
          /\ c = s.cash /\ f = s.fees /\ p = s.paid /\ g = s.real /\ a = s.adj /\ m = s.moved /\ d = s.daily
          /\ old = Cost(s) /\ new = Cost(r)
  <2>1. Cost(s) \in Int
    BY DEF BeforePeak, Cost
  <2> QED
    BY <2>1 DEF BeforePeak
<1>2. c + old = StartingCash + g - f - p + a + m /\ d = g - f - p
  BY <1>1 DEF BeforePeak
<1>3. cash + (new - old) = real - fees - paid + adj + moved
  BY <1>1 DEF Moves
<1>4. /\ (c + cash) + new =
            StartingCash + (g + real) - (f + fees) - (p + paid) + (a + adj) + (m + moved)
      /\ d + (real - fees - paid) = (g + real) - (f + fees) - (p + paid)
  BY <1>2, <1>3, AccountConstants
<1>5. /\ r.cash = c + cash /\ r.fees = f + fees /\ r.paid = p + paid /\ r.real = g + real
      /\ r.adj = a + adj /\ r.moved = m + moved /\ r.daily = d + (real - fees - paid) /\ Cost(r) = new
  BY <1>1 DEF Moves
<1>6. /\ r.cash \in Int /\ r.fees \in Int /\ r.paid \in Int /\ r.real \in Int /\ r.adj \in Int
      /\ r.moved \in Int /\ r.daily \in Int /\ r.peak \in Int
  BY <1>5 DEF BeforePeak
<1>7. /\ r.cash + Cost(r) = StartingCash + r.real - r.fees - r.paid + r.adj + r.moved
      /\ r.daily = r.real - r.fees - r.paid
  BY <1>4, <1>5, Zenon
<1> QED
  BY <1>6, <1>7 DEF BeforePeak

\* Each kind of booking keeps the books balanced, whatever the amounts.
LEMMA FillBalances ==
    ASSUME NEW s, BeforePeak(s), NEW e, e.a \in Int, e.b \in Int, e.kind = "fill", Whole(s, e)
    PROVE  BeforePeak(FillApplied(s, e))
<1>1. PICK a \in Int, b \in Int, pos \in Int, avg \in Int : a = e.a /\ b = e.b /\ pos = s.pos /\ avg = s.avg
  BY DEF BeforePeak
<1>2. PICK average \in Int, gain \in Int :
          /\ average = Average(s, a, b) /\ gain = Realised(s, a, b)
          /\ (pos + a) * average = pos * avg + a * b + gain
  <2>1. Average(s, a, b) = NewAverage(pos, avg, a, b) /\ Realised(s, a, b) = Gain(pos, avg, a, b)
    BY <1>1 DEF Average, Realised, NewAverage, Gain
  <2>2. WholeAverage(pos, avg, a, b)
    BY <1>1 DEF Whole, WholeAverage
  <2>3. /\ NewAverage(pos, avg, a, b) \in Int /\ Gain(pos, avg, a, b) \in Int
        /\ (pos + a) * NewAverage(pos, avg, a, b) = pos * avg + a * b + Gain(pos, avg, a, b)
    BY <2>2, FillCost
  <2> QED
    BY <2>1, <2>3
<1>3. PICK r : r = [s EXCEPT !.pos = s.pos + a, !.avg = average, !.cash = s.cash - a * b - 1,
                             !.fees = s.fees + 1, !.real = s.real + gain, !.daily = s.daily + gain - 1]
  OBVIOUS
<1>4. FillApplied(s, e) = r
  BY <1>1, <1>2, <1>3 DEF FillApplied
<1>5. /\ DOMAIN r = Fields /\ r.pos = s.pos + a /\ r.avg = average /\ r.cash = s.cash - a * b - 1
      /\ r.fees = s.fees + 1 /\ r.real = s.real + gain /\ r.daily = s.daily + gain - 1
      /\ r.mark = s.mark /\ r.paid = s.paid /\ r.adj = s.adj /\ r.moved = s.moved /\ r.peak = s.peak
  BY <1>3 DEF BeforePeak, Fields
<1>6. PICK paid \in Int : paid = a * b
  BY <1>1
<1>7. PICK cost \in Int : cost = pos * avg
  BY <1>1
<1>8. r.cash = s.cash - paid - 1 /\ Cost(r) = cost + paid + gain /\ Cost(s) = cost
  <2>1. Cost(r) = (pos + a) * average
    BY <1>1, <1>5 DEF Cost
  <2>2. Cost(s) = cost
    BY <1>1, <1>7 DEF Cost
  <2> QED
    BY <1>2, <1>5, <1>6, <1>7, <2>1, <2>2
<1>9. r.pos \in Int /\ r.avg \in Int /\ r.mark \in Int /\ Cost(r) \in Int
  BY <1>1, <1>2, <1>5, <1>6, <1>7, <1>8 DEF BeforePeak
<1>10. PICK cash \in Int : cash = -paid - 1
  OBVIOUS
<1>11. Moves(s, r, cash, 1, 0, gain, 0, 0)
  BY <1>5, <1>6, <1>7, <1>8, <1>10 DEF BeforePeak, Moves
<1>12. 0 \in Int /\ 1 \in Int
  OBVIOUS
<1> QED
  BY <1>4, <1>5, <1>9, <1>11, <1>12, BooksMove

LEMMA CashBalances ==
    ASSUME NEW s, BeforePeak(s), NEW e, e.a \in Int
    PROVE  /\ BeforePeak(CostApplied(s, e)) /\ BeforePeak(TransferApplied(s, e))
           /\ BeforePeak(AdjustmentApplied(s, e)) /\ BeforePeak(DividendApplied(s, e))
           /\ BeforePeak(MarkApplied(s, e)) /\ BeforePeak(MarginApplied(s, e))
<1>0. 0 \in Int
  OBVIOUS
<1>1. PICK a \in Int, drop \in Int, pay \in Int : a = e.a /\ drop = -a /\ pay = s.pos * e.a
  BY DEF BeforePeak
<1>2. Cost(s) \in Int /\ \A r : r.pos = s.pos /\ r.avg = s.avg => Cost(r) = Cost(s)
  BY DEF BeforePeak, Cost
<1>3. BeforePeak(CostApplied(s, e))
  <2>1. PICK r : r = CostApplied(s, e) /\ r = [s EXCEPT !.paid = s.paid + a, !.cash = s.cash - a, !.daily = s.daily - a]
    BY <1>1 DEF CostApplied
  <2>2. /\ DOMAIN r = Fields /\ r.pos = s.pos /\ r.avg = s.avg /\ r.cash = s.cash - a
        /\ r.fees = s.fees /\ r.real = s.real /\ r.daily = s.daily - a
        /\ r.mark = s.mark /\ r.paid = s.paid + a /\ r.adj = s.adj /\ r.moved = s.moved /\ r.peak = s.peak
    BY <2>1 DEF BeforePeak, Fields
  <2>3. Cost(r) = Cost(s)
    BY <1>2, <2>2
  <2>4. Moves(s, r, drop, 0, a, 0, 0, 0)
    <3>1. s.cash - a = s.cash + drop /\ s.daily - a = s.daily + (0 - 0 - a) /\ drop + (Cost(r) - Cost(s)) = 0 - 0 - a + 0 + 0
      BY <1>1, <1>2, <2>3 DEF BeforePeak
    <3>2. s.fees = s.fees + 0 /\ s.real = s.real + 0 /\ s.adj = s.adj + 0 /\ s.moved = s.moved + 0
      BY DEF BeforePeak
    <3> QED
      BY <2>2, <3>1, <3>2 DEF Moves
  <2>5. r.pos \in Int /\ r.avg \in Int /\ r.mark \in Int /\ Cost(r) \in Int
    BY <1>2, <2>2, <2>3 DEF BeforePeak
  <2> QED
    BY <1>0, <2>1, <2>2, <2>4, <2>5, BooksMove
<1>4. BeforePeak(TransferApplied(s, e))
  <2>1. PICK r : r = TransferApplied(s, e) /\ r = [s EXCEPT !.cash = s.cash + a, !.moved = s.moved + a]
    BY <1>1 DEF TransferApplied
  <2>2. /\ DOMAIN r = Fields /\ r.pos = s.pos /\ r.avg = s.avg /\ r.cash = s.cash + a
        /\ r.fees = s.fees /\ r.real = s.real /\ r.daily = s.daily
        /\ r.mark = s.mark /\ r.paid = s.paid /\ r.adj = s.adj /\ r.moved = s.moved + a /\ r.peak = s.peak
    BY <2>1 DEF BeforePeak, Fields
  <2>3. Cost(r) = Cost(s)
    BY <1>2, <2>2
  <2>4. Moves(s, r, a, 0, 0, 0, 0, a)
    BY <1>1, <1>2, <2>2, <2>3 DEF BeforePeak, Moves
  <2>5. r.pos \in Int /\ r.avg \in Int /\ r.mark \in Int /\ Cost(r) \in Int
    BY <1>2, <2>2, <2>3 DEF BeforePeak
  <2> QED
    BY <1>0, <2>1, <2>2, <2>4, <2>5, BooksMove
<1>5. BeforePeak(AdjustmentApplied(s, e))
  <2>1. PICK r : r = AdjustmentApplied(s, e) /\ r = [s EXCEPT !.adj = s.adj + a, !.cash = s.cash + a]
    BY <1>1 DEF AdjustmentApplied
  <2>2. /\ DOMAIN r = Fields /\ r.pos = s.pos /\ r.avg = s.avg /\ r.cash = s.cash + a
        /\ r.fees = s.fees /\ r.real = s.real /\ r.daily = s.daily
        /\ r.mark = s.mark /\ r.paid = s.paid /\ r.adj = s.adj + a /\ r.moved = s.moved /\ r.peak = s.peak
    BY <2>1 DEF BeforePeak, Fields
  <2>3. Cost(r) = Cost(s)
    BY <1>2, <2>2
  <2>4. Moves(s, r, a, 0, 0, 0, a, 0)
    BY <1>1, <1>2, <2>2, <2>3 DEF BeforePeak, Moves
  <2>5. r.pos \in Int /\ r.avg \in Int /\ r.mark \in Int /\ Cost(r) \in Int
    BY <1>2, <2>2, <2>3 DEF BeforePeak
  <2> QED
    BY <1>0, <2>1, <2>2, <2>4, <2>5, BooksMove
<1>6. BeforePeak(DividendApplied(s, e))
  <2>1. PICK r : r = DividendApplied(s, e) /\ r = [s EXCEPT !.adj = s.adj + pay, !.cash = s.cash + pay]
    BY <1>1 DEF DividendApplied
  <2>2. /\ DOMAIN r = Fields /\ r.pos = s.pos /\ r.avg = s.avg /\ r.cash = s.cash + pay
        /\ r.fees = s.fees /\ r.real = s.real /\ r.daily = s.daily
        /\ r.mark = s.mark /\ r.paid = s.paid /\ r.adj = s.adj + pay /\ r.moved = s.moved /\ r.peak = s.peak
    BY <2>1 DEF BeforePeak, Fields
  <2>3. Cost(r) = Cost(s)
    BY <1>2, <2>2
  <2>4. Moves(s, r, pay, 0, 0, 0, pay, 0)
    BY <1>1, <1>2, <2>2, <2>3 DEF BeforePeak, Moves
  <2>5. r.pos \in Int /\ r.avg \in Int /\ r.mark \in Int /\ Cost(r) \in Int
    BY <1>2, <2>2, <2>3 DEF BeforePeak
  <2> QED
    BY <1>0, <2>1, <2>2, <2>4, <2>5, BooksMove
<1>7. BeforePeak(MarkApplied(s, e))
  <2>1. PICK r : r = MarkApplied(s, e) /\ r = [s EXCEPT !.mark = a]
    BY <1>1 DEF MarkApplied
  <2>2. /\ DOMAIN r = Fields /\ r.pos = s.pos /\ r.avg = s.avg /\ r.cash = s.cash
        /\ r.fees = s.fees /\ r.real = s.real /\ r.daily = s.daily /\ r.mark \in Int
        /\ r.paid = s.paid /\ r.adj = s.adj /\ r.moved = s.moved /\ r.peak = s.peak
    BY <1>1, <2>1 DEF BeforePeak, Fields
  <2>3. Cost(r) = Cost(s)
    BY <1>2, <2>2
  <2> QED
    BY <2>1, <2>2, <2>3 DEF BeforePeak
<1>8. BeforePeak(MarginApplied(s, e))
  <2>1. PICK r : r = MarginApplied(s, e) /\ r = [s EXCEPT !.margin = a]
    BY <1>1 DEF MarginApplied
  <2>2. /\ DOMAIN r = Fields /\ r.pos = s.pos /\ r.avg = s.avg /\ r.cash = s.cash
        /\ r.fees = s.fees /\ r.real = s.real /\ r.daily = s.daily /\ r.mark \in Int
        /\ r.paid = s.paid /\ r.adj = s.adj /\ r.moved = s.moved /\ r.peak = s.peak
    BY <1>1, <2>1 DEF BeforePeak, Fields
  <2>3. Cost(r) = Cost(s)
    BY <1>2, <2>2
  <2> QED
    BY <2>1, <2>2, <2>3 DEF BeforePeak
<1> QED
  BY <1>3, <1>4, <1>5, <1>6, <1>7, <1>8

\* A split multiplies the position and divides its average: the cost is what it was.
LEMMA SplitBalances ==
    ASSUME NEW s, BeforePeak(s), NEW e, e.a \in Int, e.a > 0, e.kind = "split", Whole(s, e)
    PROVE  BeforePeak(SplitApplied(s, e))
<1>1. PICK a \in Nat \ {0}, pos \in Int, avg \in Int, mark \in Int :
          a = e.a /\ pos = s.pos /\ avg = s.avg /\ mark = s.mark
  BY DEF BeforePeak
<1>2. avg % a = 0
  BY <1>1 DEF Whole
<1>3. PICK average \in Int, m \in Int : average = avg \div a /\ m = mark \div a
  OBVIOUS
<1>4. average * a = avg
  BY <1>2, <1>3
<1>5. PICK r : r = SplitApplied(s, e) /\ r = [s EXCEPT !.pos = pos * a, !.avg = average, !.mark = m]
  BY <1>1, <1>3 DEF SplitApplied
<1>6. /\ DOMAIN r = Fields /\ r.pos = pos * a /\ r.avg = average /\ r.mark = m /\ r.cash = s.cash
      /\ r.fees = s.fees /\ r.real = s.real /\ r.daily = s.daily
      /\ r.paid = s.paid /\ r.adj = s.adj /\ r.moved = s.moved /\ r.peak = s.peak
  BY <1>5 DEF BeforePeak, Fields
<1>7. (pos * a) * average = pos * avg
  BY <1>4
<1>8. pos * a \in Int
  BY <1>1
<1>9. Cost(r) = Cost(s)
  BY <1>1, <1>6, <1>7 DEF Cost
<1> QED
  BY <1>1, <1>5, <1>6, <1>8, <1>9 DEF BeforePeak

\* A booking keeps the books balanced and the peak where it belongs.
LEMMA BookingBalances ==
    ASSUME NEW s, Balanced(s), NEW e, e.kind \in Kinds, e.a \in Int, e.b \in Int,
           e.kind = "split" => e.a > 0, Whole(s, e)
    PROVE  Balanced(Applied(s, e))
<1>1. PICK done : Applied(s, e) = WithPeak(done) /\ BeforePeak(done)
  <2>1. BeforePeak(s)
    BY DEF Balanced
  <2>2. CASE e.kind = "fill"
    BY <2>1, <2>2, FillBalances DEF Applied
  <2>3. CASE e.kind \in {"funding", "borrow"}
    BY <2>1, <2>3, CashBalances DEF Applied
  <2>4. CASE e.kind = "transfer"
    BY <2>1, <2>4, CashBalances DEF Applied
  <2>5. CASE e.kind \in {"fx", "corporate"}
    BY <2>1, <2>5, CashBalances DEF Applied
  <2>6. CASE e.kind = "split"
    BY <2>1, <2>6, SplitBalances DEF Applied
  <2>7. CASE e.kind = "dividend"
    BY <2>1, <2>7, CashBalances DEF Applied
  <2>8. CASE e.kind = "mark"
    BY <2>1, <2>8, CashBalances DEF Applied
  <2>9. CASE e.kind = "margin"
    BY <2>1, <2>9, CashBalances DEF Applied
  <2> QED
    BY <2>2, <2>3, <2>4, <2>5, <2>6, <2>7, <2>8, <2>9 DEF Kinds
<1>2. PICK top \in Int : /\ top = IF Equity(done) > done.peak THEN Equity(done) ELSE done.peak
                         /\ top >= Equity(done) /\ Equity(done) \in Int
  <2>1. Equity(done) \in Int /\ done.peak \in Int
    BY <1>1 DEF BeforePeak, Equity
  <2> QED
    BY <2>1
<1>3. PICK r : r = [done EXCEPT !.peak = top] /\ r = WithPeak(done)
  BY <1>2 DEF WithPeak
<1>4. /\ DOMAIN r = Fields /\ r.peak = top
      /\ \A f \in Fields \ {"peak"} : r[f] = done[f]
  BY <1>1, <1>3 DEF BeforePeak, Fields
<1>5. /\ r.cash = done.cash /\ r.pos = done.pos /\ r.avg = done.avg /\ r.mark = done.mark /\ r.fees = done.fees
      /\ r.paid = done.paid /\ r.real = done.real /\ r.adj = done.adj /\ r.moved = done.moved /\ r.daily = done.daily
  BY <1>4 DEF Fields
<1>6. Equity(r) = Equity(done) /\ Cost(r) = Cost(done)
  BY <1>5 DEF Equity, Cost
<1>7. BeforePeak(r)
  BY <1>1, <1>4, <1>5, <1>6 DEF BeforePeak
<1> QED
  BY <1>1, <1>2, <1>3, <1>4, <1>6, <1>7 DEF Balanced

\* The opening balances.
LEMMA OpeningBalances == Balanced(Opening)
<1>1. PICK r : r = Opening
  OBVIOUS
<1>2. /\ DOMAIN r = Fields /\ r.cash = StartingCash /\ r.pos = 0 /\ r.avg = 0 /\ r.mark = 0 /\ r.fees = 0
      /\ r.paid = 0 /\ r.real = 0 /\ r.adj = 0 /\ r.moved = 0 /\ r.daily = 0 /\ r.peak = StartingCash
  BY <1>1 DEF Opening, Fields
<1>3. Cost(r) = 0 /\ Equity(r) = StartingCash
  BY <1>2, AccountConstants DEF Cost, Equity
<1> QED
  BY <1>1, <1>2, <1>3, AccountConstants DEF Balanced, BeforePeak

\* The books of every process balance, and those of every state a row was hashed from.
BalanceInv ==
    /\ \A w \in Writers : Balanced(holder[w].acct)
    /\ \A n \in DOMAIN accountRows : Balanced(accountRows[n].hash)

LEMMA BookBalance ==
  ASSUME AccountInv, BalanceInv, NEW w \in Writers, NEW e \in Inputs, Book(w, e)
  PROVE  BalanceInv'
<1> DEFINE h == Applied(holder[w].acct, e)
<1>1. DOMAIN holder = Writers /\ DOMAIN holder[w] = {"up", "acct", "applied"}
  BY DEF AccountInv, AccountShape
<1>2. Balanced(h)
  <2>1. PICK s : s = holder[w].acct /\ Balanced(s)
    BY DEF BalanceInv
  <2>2. e.kind \in Kinds /\ e.a \in Int /\ e.b \in Int /\ (e.kind = "split" => e.a > 0) /\ Whole(s, e)
    BY <2>1, AccountConstants DEF Book
  <2>3. Balanced(Applied(s, e))
    BY <2>1, <2>2, BookingBalances
  <2> QED
    BY <2>1, <2>3
<1>3. holder' = [holder EXCEPT ![w].acct = h, ![w].applied = @ \cup {e}]
  BY DEF Book, Commit
<1> HIDE DEF h
<1>4. holder'[w].acct = h /\ \A v \in Writers : v # w => holder'[v] = holder[v]
  BY <1>1, <1>3
<1>5. \A v \in Writers : Balanced(holder'[v].acct)
  BY <1>2, <1>4 DEF BalanceInv
<1>6. \A n \in DOMAIN accountRows' : Balanced(accountRows'[n].hash)
  <2>1. CASE accountRows' = accountRows
    BY <2>1 DEF BalanceInv
  <2>2. CASE accountRows' = Append(accountRows, Row(w, e))
    <3>1. PICK S : accountRows \in Seq(S)
      BY DEF AccountInv, AccountShape
    <3>2. Row(w, e).hash = h
      BY DEF Row, h
    <3> DEFINE r == Row(w, e)
    <3> HIDE DEF r
    <3>3. \A n \in DOMAIN accountRows' : accountRows'[n] = r \/ (n \in DOMAIN accountRows /\ accountRows'[n] = accountRows[n])
      <4>1. accountRows \in Seq(S \cup {r}) /\ r \in S \cup {r} /\ accountRows' = Append(accountRows, r)
        <5>1. S \subseteq S \cup {r}
          OBVIOUS
        <5> QED
          BY <2>2, <3>1, <5>1 DEF r
      <4>2. PICK T : accountRows \in Seq(T) /\ r \in T
        BY <4>1
      <4> QED
        BY <4>1, <4>2, AppendProperties
    <3> QED
      BY <1>2, <3>2, <3>3 DEF BalanceInv, r
  <2> QED
    BY <2>1, <2>2 DEF Book
<1> QED
  BY <1>5, <1>6 DEF BalanceInv

LEMMA HolderBalance ==
  ASSUME AccountInv, BalanceInv, NEW w \in Writers, Hydrate(w) \/ Die(w)
  PROVE  BalanceInv'
<1>1. DOMAIN holder = Writers /\ accountRows' = accountRows
  BY DEF AccountInv, AccountShape, Hydrate, Die
<1>2. Hydrate(w) => Balanced(Replay(accountRows)[Len(accountRows)])
  <2> SUFFICES ASSUME Hydratable(accountRows) PROVE Balanced(Replay(accountRows)[Len(accountRows)])
    BY DEF Hydrate
  <2>1. PICK S, rows : rows = accountRows /\ rows \in Seq(S)
    BY DEF AccountInv, AccountShape
  <2>2. CASE Len(rows) = 0
    BY <2>1, <2>2, ReplayIs, OpeningBalances
  <2>3. CASE Len(rows) # 0
    <3>1. Len(rows) \in DOMAIN rows
      BY <2>1, <2>3
    <3>2. rows[Len(rows)].hash = Replay(rows)[Len(rows)]
      BY <2>1, <3>1 DEF Hydratable
    <3> QED
      BY <2>1, <3>1, <3>2 DEF BalanceInv
  <2> QED
    BY <2>2, <2>3
<1>3. PICK u : holder' = [holder EXCEPT ![w] = u] /\ Balanced(u.acct)
  <2>1. CASE Hydrate(w)
    <3> DEFINE f == [up |-> TRUE, acct |-> Replay(accountRows)[Len(accountRows)],
                     applied |-> {accountRows[n].event : n \in DOMAIN accountRows}]
    <3>1. holder' = [holder EXCEPT ![w] = f] /\ f.acct = Replay(accountRows)[Len(accountRows)]
      BY <2>1 DEF Hydrate
    <3> HIDE DEF f
    <3> QED
      BY <1>2, <2>1, <3>1
  <2>2. CASE Die(w)
    <3> DEFINE f == [up |-> FALSE, acct |-> Opening, applied |-> {}]
    <3>1. holder' = [holder EXCEPT ![w] = f] /\ f.acct = Opening
      BY <2>2 DEF Die
    <3> HIDE DEF f
    <3> QED
      BY <3>1, OpeningBalances
  <2> QED
    BY <2>1, <2>2
<1>4. holder'[w] = u /\ \A v \in Writers : v # w => holder'[v] = holder[v]
  BY <1>1, <1>3
<1> QED
  BY <1>1, <1>3, <1>4 DEF BalanceInv

LEMMA BalanceStarts == AccountInit => BalanceInv
<1> SUFFICES ASSUME AccountInit PROVE BalanceInv
  OBVIOUS
<1>1. DOMAIN accountRows = {} /\ \A w \in Writers : holder[w].acct = Opening
  BY DEF AccountInit
<1> QED
  BY <1>1, OpeningBalances DEF BalanceInv

\* Balanced books say what the run checks.
LEMMA BalancedBooks == BalanceInv => BooksBalance
<1> SUFFICES ASSUME BalanceInv, NEW w \in Writers, NEW s, s = holder[w].acct
             PROVE  /\ s.cash + s.pos * s.avg = StartingCash + s.real - s.fees - s.paid + s.adj + s.moved
                    /\ s.daily = s.real - s.fees - s.paid /\ s.peak >= Equity(s)
  BY DEF BooksBalance
<1>1. Balanced(s)
  BY DEF BalanceInv
<1> QED
  BY <1>1 DEF Balanced, BeforePeak, Cost

\* The books of the account balance and survive a restart, for any set of bookings, any
\* number of rows, of processes and of crashes: cash and the cost of the position are the
\* opening balance with every gain, fee, financing, adjustment and transfer, in the account
\* of every process that booked or replayed.
THEOREM BooksHoldTheorem == AccountSpec => []BooksHold
<1>1. AccountInv /\ BalanceInv /\ [AccountNext]_accountVars => BalanceInv'
  <2> SUFFICES ASSUME AccountInv, BalanceInv, [AccountNext]_accountVars PROVE BalanceInv'
    OBVIOUS
  <2>1. CASE UNCHANGED accountVars
    BY <2>1 DEF accountVars, BalanceInv
  <2>2. CASE AccountNext
    BY <2>2, BookBalance, HolderBalance DEF AccountNext
  <2> QED
    BY <2>1, <2>2
<1>2. AccountInv /\ [AccountNext]_accountVars => AccountInv'
  BY AccountSteps
<1> QED
  BY <1>1, <1>2, AccountStarts, BalanceStarts, BalancedBooks, SoleWriterTheorem, PTL DEF AccountSpec, BooksHold

---------------------------------------------------------------------------
(* The Hermes task.                                                        *)

Harms == {"network", "write", "sensitive", "spawn"}
Payloads == [st : {"none", "sent"}, passed : BOOLEAN, over : SUBSET {"cpu", "memory"}]

\* Without an answer the queue says nothing; without a verdict no child is forgotten.
HermesTypes ==
    /\ parent \in {"idle", "joining", "reading", "terminating", "done"}
    /\ child \in [pc : {"off", "running", "feeding", "gone"}, deaf : BOOLEAN]
    /\ ticks \in 0..WallTime /\ breached \in SUBSET Harms /\ payload \in Payloads
    /\ (payload.st = "none" => ~ payload.passed)

\* Where the parent is tells what the child is; nothing but ended children are judged.
ParentFits ==
    /\ parent = "idle" => child.pc = "off"
    /\ parent = "reading" => child.pc = "gone"
    /\ parent # "done" => verdict = NoResult
    /\ parent = "done" => child.pc \in {"off", "gone"} /\ TruthOf(verdict)

HermesInv == HermesTypes /\ ParentFits

\* What a guard reports is one of the four.
LEMMA ForbiddenHarms == \A op \in Operations : Forbidden(op) \in SUBSET Harms
  BY DEF Operations, Forbidden, NetworkGuard, FilesystemGuard, ProcessGuard, Harms

\* The judgement of the parent is one its validator accepts.
LEMMA MeasuredResult ==
  ASSUME HermesInv, NEW passed \in BOOLEAN, passed = ChildPassed
  PROVE  [st |-> "measured", passed |-> passed, flags |-> breached, error |-> ErrorOf] \in Results
<1>1. /\ passed => breached = {} /\ ErrorOf = "none"
      /\ ErrorOf = "none" => passed
      /\ ErrorOf \in {"none", "process_start_failed", "wall_time_budget_exceeded", "task_exited_without_a_result",
                      "network", "write", "sensitive", "spawn", "cpu_budget_exceeded", "memory_budget_exceeded",
                      "task_failed"}
  BY DEF ErrorOf, ChildPassed
<1>2. breached \in SUBSET {"network", "write", "sensitive", "spawn"}
  BY DEF HermesInv, HermesTypes, Harms
<1> DEFINE e == ErrorOf
<1> HIDE DEF e
<1>3. \A f : f = breached /\ f \in SUBSET {"network", "write", "sensitive", "spawn"} =>
         [st |-> "measured", passed |-> passed, flags |-> f, error |-> e] \in Results
  BY <1>1 DEF Results, e
<1> QED
  BY <1>2, <1>3 DEF e

\* A result without an answer is a failure with its reason.
LEMMA LostResult ==
  /\ [NoResult EXCEPT !.st = "lost", !.error = "process_start_failed"] \in Results
  /\ [NoResult EXCEPT !.st = "lost", !.error = "task_exited_without_a_result"] \in Results
  /\ [NoResult EXCEPT !.st = "timed_out", !.error = "wall_time_budget_exceeded"] \in Results
  BY DEF NoResult, Results

LEMMA HermesStartStep == ASSUME HermesInv, HermesStart PROVE HermesInv'
<1>1. CASE parent' = "joining" /\ child' \in [pc : {"running"}, deaf : BOOLEAN] /\ UNCHANGED verdict
  BY <1>1 DEF HermesInv, HermesTypes, ParentFits, HermesStart
<1>2. CASE /\ parent' = "done" /\ UNCHANGED child
           /\ verdict' = [NoResult EXCEPT !.st = "lost", !.error = "process_start_failed"]
  <2>1. verdict'.st = "lost" /\ verdict'.passed = FALSE /\ verdict' \in Results
    BY <1>2, LostResult DEF NoResult
  <2>2. TruthOf(verdict)'
    BY <1>2, <2>1 DEF HermesInv, HermesTypes, ParentFits, HermesStart, TruthOf, Results
  <2> QED
    BY <1>2, <2>2 DEF HermesInv, HermesTypes, ParentFits, HermesStart
<1> QED
  BY <1>1, <1>2 DEF HermesStart

LEMMA HermesTaskStep ==
  ASSUME HermesInv, (\E op \in Operations : TaskTries(op)) \/ TaskAnswers \/ TaskVanishes
  PROVE  HermesInv'
<1>1. ASSUME NEW op \in Operations, TaskTries(op) PROVE HermesInv'
  BY <1>1, ForbiddenHarms DEF HermesInv, HermesTypes, ParentFits, TaskTries
<1>2. CASE TaskAnswers
  <2>1. parent' = parent /\ ticks' = ticks /\ breached' = breached /\ verdict' = verdict /\ child.pc = "running"
    BY <1>2 DEF TaskAnswers
  <2>2. payload' \in Payloads /\ (payload'.st = "none" => ~ payload'.passed)
    BY <1>2 DEF TaskAnswers, Payloads, HermesInv, HermesTypes
  <2>3. child' \in [pc : {"feeding", "gone"}, deaf : BOOLEAN]
    BY <1>2 DEF TaskAnswers, HermesInv, HermesTypes
  <2>4. parent \notin {"idle", "reading", "done"}
    BY <2>1 DEF HermesInv, ParentFits
  <2> QED
    BY <2>1, <2>2, <2>3, <2>4 DEF HermesInv, HermesTypes, ParentFits
<1>3. CASE TaskVanishes
  BY <1>3 DEF HermesInv, HermesTypes, ParentFits, TaskVanishes
<1> QED
  BY <1>1, <1>2, <1>3

LEMMA HermesWaitStep == ASSUME HermesInv, JoinReturns \/ WallClock PROVE HermesInv'
<1>1. CASE JoinReturns
  BY <1>1 DEF HermesInv, HermesTypes, ParentFits, JoinReturns
<1>2. CASE WallClock
  BY <1>2, HermesAssumption DEF HermesInv, HermesTypes, ParentFits, WallClock
<1> QED
  BY <1>1, <1>2

LEMMA HermesKillStep == ASSUME HermesInv, ChildTerminated PROVE HermesInv'
<1>1. verdict'.st = "timed_out" /\ verdict'.passed = FALSE /\ verdict' \in Results
  BY LostResult DEF ChildTerminated, NoResult
<1>2. child' \in [pc : {"gone"}, deaf : BOOLEAN]
  BY DEF ChildTerminated, HermesInv, HermesTypes
<1>3. TruthOf(verdict)'
  BY <1>1, <1>2 DEF TruthOf
<1> QED
  BY <1>2, <1>3 DEF HermesInv, HermesTypes, ParentFits, ChildTerminated

LEMMA HermesReadStep == ASSUME HermesInv, ReadResult PROVE HermesInv'
<1>1. parent' = "done" /\ UNCHANGED <<child, ticks, breached, payload>> /\ child.pc = "gone"
  BY DEF ReadResult, HermesInv, ParentFits
<1>2. TruthOf(verdict)'
  <2>1. CASE payload.st = "none"
    <3>1. verdict'.st = "lost" /\ verdict'.passed = FALSE /\ verdict' \in Results
      BY <2>1, LostResult DEF ReadResult, NoResult
    <3> QED
      BY <1>1, <3>1 DEF TruthOf
  <2>2. CASE payload.st # "none"
    <3>1. PICK passed \in BOOLEAN : passed = ChildPassed
      BY DEF ChildPassed, HermesInv, HermesTypes, Payloads
    <3>2. verdict' = [st |-> "measured", passed |-> passed, flags |-> breached, error |-> ErrorOf]
      BY <2>2, <3>1, Zenon DEF ReadResult
    <3>3. verdict' \in Results
      BY <3>1, <3>2, MeasuredResult
    <3>4. verdict'.passed = passed /\ verdict'.flags = breached /\ payload.st = "sent" /\ ticks <= WallTime
      BY <2>2, <3>2 DEF HermesInv, HermesTypes, Payloads
    <3>5. passed => payload.passed /\ breached = {} /\ payload.over = {}
      BY <3>1 DEF ChildPassed
    <3> QED
      BY <1>1, <3>3, <3>4, <3>5 DEF TruthOf
  <2> QED
    BY <2>1, <2>2
<1> QED
  BY <1>1, <1>2 DEF HermesInv, HermesTypes, ParentFits

\* The safety half of HermesAnswersTruthfully (HermesIsolationRunner.run): whatever the
\* task does, a pass is a pass, a measured result names exactly what was tried, and no
\* child outlives a result, for any wall time.
THEOREM HermesTheorem == HermesSpec => [](verdict # NoResult => TruthOf(verdict))
<1>1. HermesInit => HermesInv
  BY HermesAssumption DEF HermesInit, HermesInv, HermesTypes, ParentFits, Payloads, NoPayload, Harms
<1>2. HermesInv /\ [HermesNext]_hermesVars => HermesInv'
  <2> SUFFICES ASSUME HermesInv, [HermesNext]_hermesVars PROVE HermesInv'
    OBVIOUS
  <2>1. CASE UNCHANGED hermesVars
    BY <2>1 DEF hermesVars, HermesInv, HermesTypes, ParentFits, TruthOf
  <2>2. CASE HermesNext
    BY <2>2, HermesStartStep, HermesTaskStep, HermesWaitStep, HermesKillStep, HermesReadStep
    DEF HermesNext, ParentRuns
  <2> QED
    BY <2>1, <2>2
<1>3. HermesInv => (verdict # NoResult => TruthOf(verdict))
  BY DEF HermesInv, HermesTypes, ParentFits
<1> QED
  BY <1>1, <1>2, <1>3, PTL DEF HermesSpec
=============================================================================
