------------------------------- MODULE Venue -------------------------------
(***************************************************************************)
(* One supervised order on its way to a paper venue: the retrying HTTP     *)
(* client with its circuit breaker, the Binance and Coinbase connectors,   *)
(* the order manager's handling of a lost acknowledgement, and the         *)
(* lifecycle qualification that polls, cancels, books the fills,           *)
(* reconciles, restarts and writes its evidence.  The venue moves on its   *)
(* own while the program waits, replies get lost, and a request may reach  *)
(* the venue after its caller gave up.                                     *)
(***************************************************************************)
EXTENDS Integers, FiniteSets

CONSTANTS
    MaxRetries,         \* HttpClientConfig.max_retries
    FailureThreshold,   \* HttpClientConfig.circuit_failure_threshold
    Quantity            \* fills that complete the order

ASSUME VenueConstants == MaxRetries \in Nat /\ FailureThreshold \in Nat \ {0} /\ Quantity \in Nat \ {0}

VARIABLES
    provider,   \* which connector routes the order
    http,       \* [fails, open]: the circuit breaker of the client
    venue,      \* [queued, arrived, status, fills]: the venue's own truth
    order,      \* [state, fills, cancelRow]: the order manager and its rows
    job         \* [pc, tries, answer, got, known, late, submits, cancels]: the lifecycle run

venueVars == <<provider, http, venue, order, job>>

Providers == {"binance", "coinbase"}
OpenStatus == {"NEW", "PARTIALLY_FILLED"}
TerminalStatus == {"FILLED", "CANCELED", "REJECTED"}
Requests == {"submit", "reconcile", "reconcile_open", "query", "poll", "fills",
             "cancel", "after_cancel", "late_fills", "final_open", "account", "restart"}
Writes == {"submit", "cancel"}
Ended == {"passed", "blocked", "done"}
Answers == OpenStatus \cup TerminalStatus \cup {"none", "error", "absent"}

VenueTypeOK ==
    /\ provider \in Providers
    /\ http \in [fails : 0..FailureThreshold, open : BOOLEAN]
    /\ venue \in [queued : 0..MaxRetries + 1, arrived : 0..MaxRetries + 1, fills : 0..Quantity,
                  status : OpenStatus \cup TerminalStatus \cup {"none"}]
    /\ order \in [state : {"ROUTED", "ACKNOWLEDGED", "PARTIALLY_FILLED", "FILLED", "CANCEL_PENDING",
                           "CANCELLED", "REJECTED", "RECONCILED"},
                  fills : 0..Quantity, cancelRow : BOOLEAN]
    /\ job \in [pc : Requests \cup Ended \cup {"decide", "close", "crashed"}, tries : 0..MaxRetries,
                answer : Answers, got : 0..Quantity, known : BOOLEAN, late : BOOLEAN,
                submits : 0..1, cancels : 0..1]

\* The row of the ROUTED state is durable before the connector is called.
VenueInit ==
    /\ provider \in Providers
    /\ http = [fails |-> 0, open |-> FALSE]
    /\ venue = [queued |-> 0, arrived |-> 0, status |-> "none", fills |-> 0]
    /\ order = [state |-> "ROUTED", fills |-> 0, cancelRow |-> FALSE]
    /\ job = [pc |-> "submit", tries |-> 0, answer |-> "none", got |-> 0, known |-> FALSE,
              late |-> FALSE, submits |-> 0, cancels |-> 0]
-----------------------------------------------------------------------------
(* The venue. *)

\* What a request does to the venue's state when it gets there.
Executed(v, op) ==
    CASE op = "submit" ->
            { [v EXCEPT !.arrived = @ + 1, !.status = IF @ = "none" THEN s ELSE @] :
                  s \in {"NEW", "REJECTED"} }
      [] op = "cancel" -> {[v EXCEPT !.status = IF @ \in OpenStatus THEN "CANCELED" ELSE @]}
      [] OTHER -> {v}

\* A write whose caller gave up arrives after all.
LateArrival ==
    /\ venue.queued > 0
    /\ venue' \in Executed([venue EXCEPT !.queued = @ - 1], "submit")
    /\ UNCHANGED <<provider, http, order, job>>

\* The order trades.
VenueTrades ==
    /\ venue.status \in OpenStatus
    /\ venue' = [venue EXCEPT !.fills = @ + 1,
                              !.status = IF venue.fills + 1 = Quantity THEN "FILLED" ELSE "PARTIALLY_FILLED"]
    /\ UNCHANGED <<provider, http, order, job>>
-----------------------------------------------------------------------------
(* SafeHttpClient.request *)

\* A signed Binance write is never retried; every other request is.
RetriesWritesToo(op) == MaxRetries
Retries(op) == IF provider = "binance" /\ op \in Writes THEN 0 ELSE MaxRetries

\* _failure: the count that reaches the threshold opens the circuit.
Failed(h) == [fails |-> h.fails + 1, open |-> h.fails + 1 >= FailureThreshold]

\* What a read finds.  Coinbase finds an order whose venue identity it does not
\* know among the open orders only.
Seen(v, op) ==
    IF \/ v.status = "none"
       \/ op \in {"reconcile_open", "final_open"} /\ v.status \notin OpenStatus
       \/ provider = "coinbase" /\ ~job.known /\ v.status \notin OpenStatus
    THEN "absent" ELSE v.status

Asking == job.pc \in Requests /\ job.answer = "none"

\* RecordingTransport counts a signed call as it is entered.
Entered(j) == [j EXCEPT !.submits = IF j.pc = "submit" THEN 1 ELSE @,
                        !.cancels = IF j.pc = "cancel" THEN 1 ELSE @]

\* The reply arrives; an acceptable status resets the failure count.
Answered ==
    /\ Asking /\ ~http.open
    /\ job.pc = "cancel" => venue.status \in OpenStatus
    /\ venue' \in Executed(venue, job.pc)
    /\ http' = [http EXCEPT !.fails = 0]
    /\ LET seen == Seen(venue', job.pc)
       IN job' = [Entered(job) EXCEPT
                     !.answer = IF job.pc = "submit" THEN venue'.status ELSE seen,
                     !.got = IF job.pc \in {"fills", "late_fills", "account"} THEN venue.fills ELSE @,
                     !.known = @ \/ (seen # "absent" /\ ~(job.pc = "submit" /\ venue'.status = "REJECTED"))]
    /\ UNCHANGED <<provider, order>>

\* A refusal (4xx other than 429) is neither counted nor retried.  Binance
\* reports an absent order as HTTP 400, so any 400 of a query means absence.
Refused ==
    /\ Asking /\ ~http.open
    /\ \E a \in {"error"} \cup (IF provider = "binance" /\ job.pc \in {"reconcile", "query", "poll", "after_cancel", "restart"}
                                THEN {"absent"} ELSE {}) :
          job' = [Entered(job) EXCEPT !.answer = a]
    /\ UNCHANGED <<provider, http, venue, order>>

\* No usable reply: a timeout, a lost connection, 429 or 5xx.  The venue may have
\* executed the request, may execute it later, or may never see it.
Unanswered ==
    /\ Asking /\ ~http.open
    /\ venue' \in Executed(venue, job.pc) \cup {venue} \cup
                  (IF job.pc = "submit" THEN {[venue EXCEPT !.queued = @ + 1]} ELSE {})
    /\ http' = Failed(http)
    /\ job' = IF job.tries < Retries(job.pc)
              THEN [Entered(job) EXCEPT !.tries = @ + 1]
              ELSE [Entered(job) EXCEPT !.answer = "error"]
    /\ UNCHANGED <<provider, order>>

\* _before_request under an open circuit raises, also between two attempts.
CircuitRefuses ==
    /\ Asking /\ http.open
    /\ job' = [Entered(job) EXCEPT !.answer = "error"]
    /\ UNCHANGED <<provider, http, venue, order>>

\* circuit_reset_seconds pass.
CircuitCools ==
    /\ http.open
    /\ http' = [fails |-> 0, open |-> FALSE]
    /\ UNCHANGED <<provider, venue, order, job>>
-----------------------------------------------------------------------------
(* The lifecycle run. *)

Goto(pc) == [job EXCEPT !.pc = pc, !.tries = 0, !.answer = "none"]
At(pc) == job.pc = pc /\ job.answer # "none"
Blocked == job' = Goto("blocked") /\ UNCHANGED order

\* Only the Binance run goes on after the acknowledgement.
Continue == IF provider = "binance" THEN "query" ELSE "done"

\* _normalize_order: an order in a terminal status is reported as not accepted.
Accepted(status) == status \notin TerminalStatus

\* OrderManager.route: an acceptance moves the order on; any exception, a
\* rejection included, leaves it ROUTED and the caller reconciles.
AfterSubmit ==
    /\ At("submit")
    /\ IF job.answer = "error" \/ (IF provider = "binance" THEN job.answer = "REJECTED" ELSE ~Accepted(job.answer))
       THEN job' = Goto("reconcile") /\ UNCHANGED order
       ELSE job' = Goto(Continue) /\ order' = [order EXCEPT !.state = "ACKNOWLEDGED"]
    /\ UNCHANGED <<provider, http, venue>>

\* reconcile_routed: the order query first, the open orders when it finds nothing.
AfterReconcile ==
    /\ At("reconcile") \/ At("reconcile_open")
    /\ \/ /\ job.answer = "absent" /\ job.pc = "reconcile"
          /\ job' = Goto("reconcile_open") /\ UNCHANGED order
       \/ /\ job.answer = "error" \/ (job.answer = "absent" /\ job.pc = "reconcile_open")
          /\ Blocked
       \/ /\ job.answer \notin {"absent", "error"}
          /\ order' = [order EXCEPT !.state = IF Accepted(job.answer) THEN "ACKNOWLEDGED" ELSE "REJECTED"]
          /\ job' = Goto(Continue)
    /\ UNCHANGED <<provider, http, venue>>

DeadlinePasses ==
    /\ job.pc \in {"query", "poll"} /\ ~job.late
    /\ job' = [job EXCEPT !.late = TRUE]
    /\ UNCHANGED <<provider, http, venue, order>>

PollsForever == job.answer \in OpenStatus
PollsAgain == job.answer \in OpenStatus /\ ~job.late

\* The status decides: poll again, book fills, cancel, or go to the closing checks.
AfterQuery ==
    /\ At("query") \/ At("poll")
    /\ \/ /\ job.answer \in {"absent", "error"}
          /\ Blocked
       \/ /\ PollsAgain
          /\ job' = Goto("poll") /\ UNCHANGED order
       \/ /\ job.answer \in {"FILLED", "PARTIALLY_FILLED"} /\ ~PollsAgain
          /\ job' = Goto("fills") /\ UNCHANGED order
       \/ /\ job.answer = "NEW" /\ ~PollsAgain
          /\ IF order.state = "ACKNOWLEDGED"
             THEN job' = Goto("cancel")
                  /\ order' = [order EXCEPT !.state = "CANCEL_PENDING", !.cancelRow = TRUE]
             ELSE Blocked
       \/ /\ job.answer \in {"CANCELED", "REJECTED"}
          /\ job' = Goto("close") /\ UNCHANGED order
    /\ UNCHANGED <<provider, http, venue>>

\* The exception of a cancellation is swallowed; the query that follows decides.
AfterCancel ==
    /\ At("cancel")
    /\ job' = Goto("after_cancel")
    /\ UNCHANGED <<provider, http, venue, order>>

AfterCancelQuery ==
    /\ At("after_cancel")
    /\ \/ /\ job.answer \in {"absent", "error"}
          /\ Blocked
       \/ /\ job.answer \in {"FILLED", "PARTIALLY_FILLED"}
          /\ job' = Goto("late_fills") /\ UNCHANGED order
       \/ /\ job.answer \notin {"absent", "error", "FILLED", "PARTIALLY_FILLED"}
          /\ order' = [order EXCEPT !.state = IF job.answer = "CANCELED" THEN "CANCELLED" ELSE @]
          /\ job' = Goto("close")
    /\ UNCHANGED <<provider, http, venue>>

\* ingest_fills: each new fill is recorded in a state that can be filled.
IngestFills ==
    /\ At("fills") \/ At("late_fills")
    /\ IF \/ job.answer = "error"
          \/ job.got > order.fills /\ order.state \notin {"ACKNOWLEDGED", "PARTIALLY_FILLED", "CANCEL_PENDING"}
       THEN Blocked
       ELSE /\ order' = [order EXCEPT !.fills = job.got,
                            !.state = IF job.got = Quantity THEN "FILLED"
                                      ELSE IF job.got > order.fills THEN "PARTIALLY_FILLED" ELSE @]
            /\ job' = Goto("close")
    /\ UNCHANGED <<provider, http, venue>>

\* OrderManager.reconcile of a terminal order; an order still open blocks the run.
Close ==
    /\ job.pc = "close"
    /\ IF order.state \in {"FILLED", "CANCELLED", "REJECTED"}
       THEN order' = [order EXCEPT !.state = "RECONCILED"] /\ job' = Goto("final_open")
       ELSE Blocked
    /\ UNCHANGED <<provider, http, venue>>

AfterFinalOpen ==
    /\ At("final_open")
    /\ IF job.answer = "error" THEN Blocked ELSE job' = Goto("account") /\ UNCHANGED order
    /\ UNCHANGED <<provider, http, venue>>

\* ReconciliationService: the booked fills against the venue's balances.
BooksAgree == job.answer # "error" /\ job.got = order.fills
AfterAccount ==
    /\ At("account")
    /\ IF BooksAgree
       THEN /\ job' = [Goto("restart") EXCEPT !.known = FALSE]
            /\ http' = [fails |-> 0, open |-> FALSE]
            /\ UNCHANGED order
       ELSE Blocked /\ UNCHANGED http
    /\ UNCHANGED <<provider, venue>>

\* A fresh transport and order manager must find the order and submit nothing.
AfterRestart ==
    /\ At("restart")
    /\ job' = Goto(IF job.answer \in {"absent", "error"} THEN "blocked" ELSE "passed")
    /\ UNCHANGED <<provider, http, venue, order>>

\* The process dies; main never gets to write its evidence.
VenueCrash ==
    /\ job.pc \notin Ended \cup {"crashed"}
    /\ job' = [job EXCEPT !.pc = "crashed", !.answer = "none"]
    /\ UNCHANGED <<provider, http, venue, order>>

LifecycleStep ==
    \/ Answered \/ Refused \/ Unanswered \/ CircuitRefuses
    \/ AfterSubmit \/ AfterReconcile \/ AfterQuery \/ AfterCancel \/ AfterCancelQuery
    \/ IngestFills \/ Close \/ AfterFinalOpen \/ AfterAccount \/ AfterRestart

VenueNext == LifecycleStep \/ LateArrival \/ VenueTrades \/ CircuitCools \/ DeadlinePasses \/ VenueCrash
VenueSpec == VenueInit /\ [][VenueNext]_venueVars

\* main: the counts of a failed run come from the rows of the order ledger, those
\* of a passed run from the recording transport.
EvidenceWithoutCancelRows == [submits |-> 1, cancels |-> IF job.pc = "passed" THEN job.cancels ELSE 0]
Evidence ==
    IF job.pc = "passed" THEN [submits |-> job.submits, cancels |-> job.cancels]
    ELSE [submits |-> 1, cancels |-> IF order.cancelRow THEN 1 ELSE 0]
-----------------------------------------------------------------------------
(* Properties. *)

\* A Binance order is put before the venue at most once, whatever is lost, retried or
\* late: "A signed write must never be retried automatically" (binance_spot.py).
WrittenOnce == provider = "binance" => venue.arrived + venue.queued <= 1

\* A run that reports success describes the venue: the order is closed there and
\* every fill it had is booked, whatever traded between poll, cancel and query.
PassedMatchesVenue ==
    job.pc = "passed" => venue.status \in TerminalStatus /\ order.fills = venue.fills

\* The evidence of a run owns up to every signed call that may have had an effect,
\* also when the run failed between the row and the reply.
EvidenceOwnsUp ==
    provider = "binance" /\ job.pc \in Ended =>
        /\ venue.arrived + venue.queued <= Evidence.submits
        /\ job.cancels <= Evidence.cancels

\* The report of a lifecycle run is true of the venue, of its books and of its calls.
ReportIsTrue == PassedMatchesVenue /\ EvidenceOwnsUp

\* An order that traded completely is never closed as rejected:
\* _query_venue_acknowledgement promises to "resolve a submitted order even after
\* it leaves the open-order set" and lists "filled" as accepted.
FilledIsNotRejected == order.state = "REJECTED" => venue.status # "FILLED"

\* The supervised run ends whatever the venue answers: the poll has a deadline and
\* every request a bounded number of attempts.
LifecycleEnds == <>(job.pc \in Ended \cup {"crashed"})
=============================================================================
