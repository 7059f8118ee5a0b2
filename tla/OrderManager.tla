---------------------------- MODULE OrderManager ----------------------------
(***************************************************************************)
(* The order manager (execution/oms.py): the in-memory order projection,   *)
(* the ORDER ledger it writes before it changes that projection, the       *)
(* outbox it notifies afterwards, and the venue behind the native adapter. *)
(*                                                                         *)
(* A call is a sequence of steps: it appends a row and updates the         *)
(* projection in one step (a crash between the two is the crash after the  *)
(* append, since memory is lost either way), and then publishes or talks   *)
(* to the venue in further steps.  The pending step is `pc`; the process   *)
(* may crash, and a step may raise, between any two of them.  A call the   *)
(* code refuses changes nothing and is no step.                            *)
(*                                                                         *)
(* The rows of one order are kept as a sequence of row types.  The ledger  *)
(* orders rows of different orders too, but nothing in the order manager   *)
(* can observe that.  A row's idempotency key is the order's key and the   *)
(* row type, so a type occurs at most once per key.                        *)
(***************************************************************************)
EXTENDS Integers, Sequences, FiniteSets, Functions

CONSTANTS
    Orders,     \* order artifact identities
    Key,        \* [Orders -> idempotency keys]
    Quantity,   \* [Orders -> positive quantities]
    Fills,      \* fill artifacts [artifact, id, order, quantity]
    NoFill

ASSUME OrderAssumption ==
    /\ Quantity \in [Orders -> Nat \ {0}]
    /\ DOMAIN Key = Orders

ASSUME FillAssumption ==
    /\ \A f \in Fills : f.order \in Orders /\ f.quantity \in Nat \ {0}
    /\ NoFill \notin Fills

VARIABLES
    log,        \* [Orders -> Seq(RowTypes)], the durable order rows
    fillLog,    \* the durable fill_recorded rows
    outbox,     \* the published order rows, pairs <<order, row type>>
    fillOutbox, \* the fills whose envelope is in the outbox
    venue,      \* [Orders -> VenueStates], what the venue holds
    submits,    \* [Orders -> Nat], requests handed to adapter.submit
    proc,       \* "up", "down", or "refused" when hydration raised
    orders,     \* OrderManager.orders: the state of each known order
    fills,      \* OrderManager.fills
    ambiguous,  \* OrderManager.ambiguous_orders
    pc          \* the rest of the call in progress

durable == <<log, fillLog, outbox, fillOutbox>>
external == <<venue, submits>>
memory == <<orders, fills, ambiguous>>
vars == <<log, fillLog, outbox, fillOutbox, venue, submits, proc,
          orders, fills, ambiguous, pc>>

-----------------------------------------------------------------------------
(* Order states, rows and legal transitions.                               *)

OrderStates == {"created", "risk_approved", "routed", "acknowledged",
                "partially_filled", "cancel_pending", "filled", "cancelled",
                "rejected", "expired", "reconciled"}

Terminal == {"filled", "cancelled", "rejected", "expired"}

\* A row type names the state it records, except the ambiguity marker, whose
\* artifact is the routed order.
RowTypes == OrderStates \cup {"ack_ambiguous"}

VenueStates == {"absent", "open", "refused", "cancelled"}

AllowedTransitions ==
    UNION { {"created"} \X {"risk_approved", "rejected", "expired"},
            {"risk_approved"} \X {"routed", "rejected", "expired"},
            {"routed"} \X {"acknowledged", "rejected", "expired"},
            {"acknowledged"} \X {"partially_filled", "filled", "cancel_pending", "expired"},
            {"partially_filled"} \X {"partially_filled", "filled", "cancel_pending"},
            {"cancel_pending"} \X {"cancelled", "partially_filled", "filled"},
            Terminal \X {"reconciled"} }

\* Mutant: the ambiguity marker is taken for an order state.
RowStateRaw(t) == t

RowState(t) == IF t = "ack_ambiguous" THEN "routed" ELSE t

Rows(o) == {log[o][i] : i \in 1..Len(log[o])}

\* The state the last row of an order records.
LedgerState(o) == IF log[o] = <<>> THEN "none" ELSE RowState(log[o][Len(log[o])])

\* SqliteLedgers.append: a row whose key is present is returned, not appended;
\* the same key with another artifact in it is an IdempotencyConflict.
Conflict(o, t) == \E p \in Orders \ {o} : Key[p] = Key[o] /\ t \in Rows(p)

\* Mutant: the idempotency key of a row leaves the row type out.
AppendRowKeyedByOrder(o, t) ==
    /\ ~Conflict(o, t)
    /\ log' = IF log[o] # <<>> THEN log ELSE [log EXCEPT ![o] = Append(@, t)]

AppendRow(o, t) ==
    /\ ~Conflict(o, t)
    /\ log' = IF t \in Rows(o) THEN log ELSE [log EXCEPT ![o] = Append(@, t)]

-----------------------------------------------------------------------------
(* The call in progress.                                                   *)

Idle == [at |-> "idle"]

Steps == {"publish", "submit", "acknowledge", "record_ambiguous",
          "clear_ambiguous", "venue_cancel", "fill_transition", "fill_publish"}

\* What may follow the publication of an order row.
Continuations == {"idle", "submit", "clear_ambiguous", "venue_cancel", "fill_publish"}

Frames == [at : Steps, order : Orders, type : RowTypes,
           next : Continuations, fill : Fills \cup {NoFill}]

\* Publish the row of type t of order o, then go on with step n.
Publishing(o, t, n, f) ==
    [at |-> "publish", order |-> o, type |-> t, next |-> n, fill |-> f]

Ready == proc = "up" /\ pc = Idle
Known(o) == orders[o] # "none"

\* Mutant: the transition table is not consulted.
TransitionUnchecked(o, new, n, f) ==
    /\ Known(o)
    /\ \/ /\ new = orders[o]
          /\ UNCHANGED <<log, orders>>
       \/ /\ new # orders[o]
          /\ AppendRow(o, new)
          /\ orders' = [orders EXCEPT ![o] = new]
    /\ pc' = Publishing(o, new, n, f)

\* OrderManager.transition: a transition to the present state only republishes
\* its row; an illegal one raises, and does not happen here.
Transition(o, new, n, f) ==
    /\ Known(o)
    /\ \/ /\ new = orders[o]
          /\ UNCHANGED <<log, orders>>
       \/ /\ new # orders[o]
          /\ <<orders[o], new>> \in AllowedTransitions
          /\ AppendRow(o, new)
          /\ orders' = [orders EXCEPT ![o] = new]
    /\ pc' = Publishing(o, new, n, f)

-----------------------------------------------------------------------------
(* Calls of the order manager.                                             *)

\* The logical payload of an order: the model tells orders apart by key and
\* quantity, and the state is part of the payload too (a new order is created).
SamePayload(o, p) ==
    Key[o] = Key[p] /\ Quantity[o] = Quantity[p] /\ orders[p] = "created"

\* Mutant: creation is idempotent per artifact, not per idempotency key.
CreatePerArtifact(o) ==
    /\ Ready
    /\ ~Known(o)
    /\ log' = [log EXCEPT ![o] = Append(@, "created")]
    /\ orders' = [orders EXCEPT ![o] = "created"]
    /\ pc' = Publishing(o, "created", "idle", NoFill)
    /\ UNCHANGED <<fillLog, outbox, fillOutbox, external, proc, fills, ambiguous>>

Create(o) ==
    /\ Ready
    /\ LET prior == {p \in Orders : Known(p) /\ (p = o \/ Key[p] = Key[o])} IN
       \/ /\ prior = {}
          /\ AppendRow(o, "created")
          /\ orders' = [orders EXCEPT ![o] = "created"]
          /\ pc' = Publishing(o, "created", "idle", NoFill)
       \/ \E p \in prior :
          /\ SamePayload(o, p)
          /\ pc' = Publishing(p, "created", "idle", NoFill)
          /\ UNCHANGED <<log, orders>>
    /\ UNCHANGED <<fillLog, outbox, fillOutbox, external, proc, fills, ambiguous>>

\* One call of transition that nothing follows.
Move(o, new) ==
    /\ Ready
    /\ Transition(o, new, "idle", NoFill)
    /\ UNCHANGED <<fillLog, outbox, fillOutbox, external, proc, fills, ambiguous>>

ApproveRisk(o) == Move(o, "risk_approved")
RejectByRisk(o) == orders[o] = "created" /\ Move(o, "rejected")
AcknowledgeCancel(o) == Move(o, "cancelled")
ExpireUnacknowledged(o) == orders[o] = "routed" /\ Move(o, "expired")
Reconcile(o) == orders[o] \in Terminal /\ Move(o, "reconciled")

\* Mutant: route may be retried on an order that is already routed.
RouteAgain(o) ==
    /\ Ready
    /\ Transition(o, "routed", "submit", NoFill)
    /\ UNCHANGED <<fillLog, outbox, fillOutbox, external, proc, fills, ambiguous>>

Route(o) ==
    /\ Ready
    /\ o \notin ambiguous
    /\ orders[o] # "routed"
    /\ Transition(o, "routed", "submit", NoFill)
    /\ UNCHANGED <<fillLog, outbox, fillOutbox, external, proc, fills, ambiguous>>

\* What the venue answers about an order it has seen: an order it closed
\* without filling it is reported as not accepted.
VenueAnswer(o) == IF venue[o] = "open" THEN "acknowledged" ELSE "rejected"

ReconcileAmbiguous(o) ==
    /\ Ready
    /\ o \in ambiguous
    /\ venue[o] # "absent"
    /\ Transition(o, VenueAnswer(o), "clear_ambiguous", NoFill)
    /\ UNCHANGED <<fillLog, outbox, fillOutbox, external, proc, fills, ambiguous>>

ReconcileRouted(o) ==
    /\ orders[o] = "routed"
    /\ venue[o] # "absent"
    /\ Move(o, VenueAnswer(o))

Cancel(o) ==
    /\ Ready
    /\ Transition(o, "cancel_pending", "venue_cancel", NoFill)
    /\ UNCHANGED <<fillLog, outbox, fillOutbox, external, proc, fills, ambiguous>>

Filled(S, o) == SumFunctionOnSet([f \in S |-> f.quantity], {f \in S : f.order = o})

SameFill(f, g) == f.id = g.id /\ f.order = g.order /\ f.quantity = g.quantity

\* Mutant: a fill that is already known is counted again.
FillTargetCountsTwice(f) ==
    LET total == Filled(fills, f.order) + f.quantity
    IN  CASE total = Quantity[f.order] -> "filled"
          [] total < Quantity[f.order] -> "partially_filled"
          [] OTHER -> "overrun"

\* The quantity check of record_fill counts a fill that is already known once.
FillTarget(f) ==
    LET total == Filled(fills, f.order)
                 + (IF \E g \in fills : g.id = f.id THEN 0 ELSE f.quantity)
    IN  CASE total = Quantity[f.order] -> "filled"
          [] total < Quantity[f.order] -> "partially_filled"
          [] OTHER -> "overrun"

RecordFill(f) ==
    /\ Ready
    /\ venue[f.order] \in {"open", "cancelled"}
    /\ Known(f.order)
    /\ \A g \in fills : g.artifact = f.artifact \/ g.id = f.id => SameFill(f, g)
    /\ FillTarget(f) # "overrun"
    /\ \/ /\ \E g \in fills : g.id = f.id
          /\ UNCHANGED <<fills, fillLog>>
       \/ /\ \A g \in fills : g.id # f.id
          /\ orders[f.order] \in {"acknowledged", "partially_filled", "cancel_pending"}
          /\ fills' = fills \cup {f}
          /\ fillLog' = fillLog \cup {f}
    /\ pc' = [at |-> "fill_transition", order |-> f.order, type |-> FillTarget(f),
              next |-> "fill_publish", fill |-> f]
    /\ UNCHANGED <<log, outbox, fillOutbox, external, proc, orders, ambiguous>>

-----------------------------------------------------------------------------
(* The later steps of a call.                                              *)

Continue == pc' = IF pc.next = "idle" THEN Idle ELSE [pc EXCEPT !.at = pc.next]

Publish ==
    /\ pc.at = "publish"
    /\ outbox' = outbox \cup {<<pc.order, pc.type>>}
    /\ Continue
    /\ UNCHANGED <<log, fillLog, fillOutbox, external, proc, memory>>

\* adapter.submit hands the request to the venue, which accepts or refuses it;
\* or the reply is lost (AmbiguousAcknowledgement), or it is unusable and the
\* call raises; in these two cases the venue may or may not hold the order.
Submit ==
    /\ pc.at = "submit"
    /\ submits' = [submits EXCEPT ![pc.order] = @ + 1]
    /\ \/ /\ venue' = [venue EXCEPT ![pc.order] = "open"]
          /\ pc' = [pc EXCEPT !.at = "acknowledge", !.type = "acknowledged"]
          /\ UNCHANGED ambiguous
       \/ /\ venue' = [venue EXCEPT ![pc.order] = "refused"]
          /\ pc' = [pc EXCEPT !.at = "acknowledge", !.type = "rejected"]
          /\ UNCHANGED ambiguous
       \/ /\ venue' \in {venue, [venue EXCEPT ![pc.order] = "open"]}
          /\ ambiguous' = ambiguous \cup {pc.order}
          /\ pc' = [pc EXCEPT !.at = "record_ambiguous", !.type = "ack_ambiguous"]
       \/ /\ venue' \in {venue, [venue EXCEPT ![pc.order] = "open"]}
          /\ pc' = Idle
          /\ UNCHANGED ambiguous
    /\ UNCHANGED <<durable, proc, orders, fills>>

Acknowledge ==
    /\ pc.at = "acknowledge"
    /\ Transition(pc.order, pc.type, "idle", NoFill)
    /\ UNCHANGED <<fillLog, outbox, fillOutbox, external, proc, fills, ambiguous>>

RecordAmbiguous ==
    /\ pc.at = "record_ambiguous"
    /\ AppendRow(pc.order, "ack_ambiguous")
    /\ pc' = Publishing(pc.order, "ack_ambiguous", "idle", NoFill)
    /\ UNCHANGED <<fillLog, outbox, fillOutbox, external, proc, memory>>

ClearAmbiguous ==
    /\ pc.at = "clear_ambiguous"
    /\ ambiguous' = ambiguous \ {pc.order}
    /\ pc' = Idle
    /\ UNCHANGED <<durable, external, proc, orders, fills>>

\* The cancellation reaches an open order or not, whatever the reply was: a
\* refusal, a lost reply and an accepted request all end the call.
VenueCancel ==
    /\ pc.at = "venue_cancel"
    /\ \/ UNCHANGED venue
       \/ /\ venue[pc.order] = "open"
          /\ venue' = [venue EXCEPT ![pc.order] = "cancelled"]
    /\ pc' = Idle
    /\ UNCHANGED <<durable, submits, proc, memory>>

FillTransition ==
    /\ pc.at = "fill_transition"
    /\ Transition(pc.order, pc.type, "fill_publish", pc.fill)
    /\ UNCHANGED <<fillLog, outbox, fillOutbox, external, proc, fills, ambiguous>>

\* The envelope names the artifact of this call's fill, the outbox row is that
\* of the venue fill: another artifact in it is an EventIdempotencyConflict.
FillPublish ==
    /\ pc.at = "fill_publish"
    /\ \A g \in fillOutbox : g.id = pc.fill.id => g.artifact = pc.fill.artifact
    /\ fillOutbox' = fillOutbox \cup {pc.fill}
    /\ pc' = Idle
    /\ UNCHANGED <<log, fillLog, outbox, external, proc, memory>>

\* A step raises (the bus, the ledger, the venue transport, an illegal
\* transition): the call is abandoned with what it has already done.
Raise ==
    /\ pc.at \in Steps \ {"clear_ambiguous"}
    /\ pc' = Idle
    /\ UNCHANGED <<durable, external, proc, memory>>

-----------------------------------------------------------------------------
(* Crash and restart, and the venue's own steps.                           *)

Crash ==
    /\ proc = "up"
    /\ proc' = "down"
    /\ orders' = [o \in Orders |-> "none"]
    /\ fills' = {}
    /\ ambiguous' = {}
    /\ pc' = Idle
    /\ UNCHANGED <<durable, external>>

\* The check _hydrate makes of each row against the row before it.
LegalNext(s, t) == t = "ack_ambiguous" \/ <<RowState(s), t>> \in AllowedTransitions

Hydratable ==
    /\ \A o \in Orders : \A i \in 2..Len(log[o]) : LegalNext(log[o][i-1], log[o][i])
    /\ \A o \in Orders : log[o] # <<>> => log[o][1] = "created"
    /\ \A f \in fillLog : log[f.order] # <<>>

\* Mutant: hydration does not restore the ambiguous set.
HydratedAmbiguousLost == {}

\* Orders with an ambiguity row that no acknowledged row follows.
HydratedAmbiguous ==
    {o \in Orders : \E i \in 1..Len(log[o]) :
        /\ log[o][i] = "ack_ambiguous"
        /\ \A j \in (i+1)..Len(log[o]) : log[o][j] # "acknowledged"}

Hydrate ==
    /\ proc = "down"
    /\ Hydratable
    /\ proc' = "up"
    /\ orders' = [o \in Orders |-> LedgerState(o)]
    /\ fills' = fillLog
    /\ ambiguous' = HydratedAmbiguous
    /\ UNCHANGED <<durable, external, pc>>

\* _hydrate raises, and raises again on every further attempt.
HydrateRaises ==
    /\ proc \in {"down", "refused"}
    /\ ~Hydratable
    /\ proc' = "refused"
    /\ UNCHANGED <<durable, external, memory, pc>>

VenueCloses(o) ==
    /\ venue[o] = "open"
    /\ venue' = [venue EXCEPT ![o] = "cancelled"]
    /\ UNCHANGED <<durable, submits, proc, memory, pc>>

-----------------------------------------------------------------------------
Init ==
    /\ log = [o \in Orders |-> <<>>]
    /\ fillLog = {}
    /\ outbox = {}
    /\ fillOutbox = {}
    /\ venue = [o \in Orders |-> "absent"]
    /\ submits = [o \in Orders |-> 0]
    /\ proc = "up"
    /\ orders = [o \in Orders |-> "none"]
    /\ fills = {}
    /\ ambiguous = {}
    /\ pc = Idle

Call(o) ==
    \/ Create(o) \/ ApproveRisk(o) \/ RejectByRisk(o) \/ Route(o)
    \/ ReconcileAmbiguous(o) \/ ReconcileRouted(o) \/ ExpireUnacknowledged(o)
    \/ Cancel(o) \/ AcknowledgeCancel(o) \/ Reconcile(o)

InFlight ==
    \/ Publish \/ Submit \/ Acknowledge \/ RecordAmbiguous \/ ClearAmbiguous
    \/ VenueCancel \/ FillTransition \/ FillPublish \/ Raise

Next ==
    \/ \E o \in Orders : Call(o) \/ VenueCloses(o)
    \/ \E f \in Fills : RecordFill(f)
    \/ InFlight
    \/ Crash \/ Hydrate \/ HydrateRaises

Spec == Init /\ [][Next]_vars

-----------------------------------------------------------------------------
(* Properties.                                                             *)

\* Types of the ledger, the outbox, the venue and the projection.
TypeOK ==
    /\ log \in [Orders -> Seq(RowTypes)]
    /\ fillLog \subseteq Fills
    /\ outbox \subseteq Orders \X RowTypes
    /\ fillOutbox \subseteq Fills
    /\ venue \in [Orders -> VenueStates]
    /\ submits \in [Orders -> Nat]
    /\ proc \in {"up", "down", "refused"}
    /\ orders \in [Orders -> OrderStates \cup {"none"}]
    /\ fills \subseteq Fills
    /\ ambiguous \subseteq Orders
    /\ pc \in Frames \cup {Idle}

\* No sequence of retries, lost replies, failed notifications, crashes and
\* restarts makes route hand the same order to adapter.submit twice
\* ("never duplicate an ambiguous order").
SubmittedAtMostOnce == \A o \in Orders : submits[o] <= 1

\* Two order artifacts with one idempotency key never both reach the ledger,
\* so append never meets an IdempotencyConflict on an order row and bind_order
\* never refuses an order while hydrating.
OneArtifactPerKey ==
    \A o, p \in Orders : o # p /\ Key[o] = Key[p] => log[o] = <<>> \/ log[p] = <<>>

\* The only step the ledger can record that _hydrate refuses is
\* partially_filled -> cancelled: every other row follows its predecessor
\* legally, although appending a repeated row is silently skipped.
LedgerLegalExceptRecancel ==
    \A o \in Orders : \A i \in 2..Len(log[o]) :
        \/ LegalNext(log[o][i-1], log[o][i])
        \/ log[o][i-1] = "partially_filled" /\ log[o][i] = "cancelled"

\* The projection and the state a restart would rebuild agree, except that a
\* partially filled order and one whose cancellation is pending may be
\* mistaken for each other.
Agree(a, b) == a = b \/ {a, b} \subseteq {"partially_filled", "cancel_pending"}

ProjectionMatchesLedger ==
    proc = "up" => \A o \in Orders : Agree(orders[o], LedgerState(o))

\* A routed order with a durable ambiguity marker is held as ambiguous, also
\* after any number of restarts, so route refuses it and reconciliation sees
\* it.
AmbiguityIsDurable ==
    proc = "up" => \A o \in Orders :
        orders[o] = "routed" /\ "ack_ambiguous" \in Rows(o) => o \in ambiguous

\* The durable fills of an order never exceed its quantity, one venue fill is
\* booked once, and the fill states are backed by the fills: what
\* ReconciliationService would report as overrun, filled_order_quantity_mismatch
\* or partial_order_without_fill never comes from the order manager itself.
FillsAccountedFor ==
    \A o \in Orders :
        /\ Filled(fillLog, o) <= Quantity[o]
        /\ \A f, g \in fillLog : f.id = g.id => f = g
        /\ "filled" \in Rows(o) => Filled(fillLog, o) = Quantity[o]
        /\ "partially_filled" \in Rows(o) => \E f \in fillLog : f.order = o

\* A restart never refuses the ledger the order manager itself has written.
RestartNeverRefused == proc # "refused"

\* An order that is reconciled is no longer held, and reported, as awaiting
\* the resolution of an ambiguous acknowledgement.
ReconciledIsNotAmbiguous ==
    \A o \in ambiguous : orders[o] # "reconciled"

\* The refinement: each order's durable phase and its exposure at the venue
\* follow OrderLifecycle.
PhaseOf(s) ==
    IF s = "none" THEN "absent"
    ELSE IF s \in {"created", "risk_approved"} THEN "pending"
    ELSE IF s \in {"acknowledged", "partially_filled", "cancel_pending"} THEN "live"
    ELSE IF s \in Terminal THEN "closed"
    ELSE s

Lifecycle == INSTANCE OrderLifecycle WITH
    phase <- [o \in Orders |-> PhaseOf(LedgerState(o))],
    exposed <- {o \in Orders : submits[o] > 0}

\* The order manager implements OrderLifecycle: no crash, retry or repeated
\* row moves an order's durable phase back, or exposes it outside "routed".
ImplementsLifecycle == Lifecycle!Spec
=============================================================================
