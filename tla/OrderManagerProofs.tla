------------------------- MODULE OrderManagerProofs -------------------------
(***************************************************************************)
(* Proofs about OrderManager for every set of orders, keys, quantities and *)
(* fills.  The inductive invariant adds to the properties that rows only   *)
(* move an order forward (RowsAscend) and that a call about to submit has  *)
(* its routed row in the ledger and has not submitted before (CallsOK).    *)
(***************************************************************************)
EXTENDS OrderManager, SharedLemmas

\* How far along its life a state or a row type is.  Only the two states
\* partially_filled and cancel_pending follow one another both ways.
Rank(s) ==
    IF s = "created" THEN 1
    ELSE IF s = "risk_approved" THEN 2
    ELSE IF s \in {"routed", "ack_ambiguous"} THEN 3
    ELSE IF s = "acknowledged" THEN 4
    ELSE IF s \in {"partially_filled", "cancel_pending"} THEN 5
    ELSE IF s \in Terminal THEN 6
    ELSE IF s = "reconciled" THEN 7
    ELSE 0

RowsAscend == \A o \in Orders : \A t \in Rows(o) : Rank(t) <= Rank(LedgerState(o))

\* A submission is preceded by the durable routed row.
ExposureIsDurable == \A o \in Orders : submits[o] > 0 => "routed" \in Rows(o)

Sending == pc.at = "submit" \/ (pc.at = "publish" /\ pc.next = "submit")

CallsOK ==
    /\ proc # "up" => pc = Idle
    /\ Sending => /\ submits[pc.order] = 0
                  /\ orders[pc.order] = "routed"
                  /\ "routed" \in Rows(pc.order)
    /\ pc.at = "record_ambiguous" => orders[pc.order] = "routed"
    /\ pc.at \in {"fill_transition", "fill_publish"} => pc.fill \in Fills
    /\ pc.at = "publish" /\ pc.next = "fill_publish" => pc.fill \in Fills

Inv ==
    /\ TypeOK
    /\ RowsAscend
    /\ ProjectionMatchesLedger
    /\ ExposureIsDurable
    /\ SubmittedAtMostOnce
    /\ CallsOK

-----------------------------------------------------------------------------
(* Facts about states and rows.                                            *)

\* A legal transition to another state leads to a state of higher rank, except
\* between partially_filled and cancel_pending.
LEMMA TransitionRank ==
    ASSUME NEW s \in OrderStates, NEW t, <<s, t>> \in AllowedTransitions, t # s
    PROVE  /\ t \in OrderStates
           /\ Rank(t) > Rank(s) \/ {s, t} \subseteq {"partially_filled", "cancel_pending"}
  BY DEF OrderStates, AllowedTransitions, Rank, Terminal

\* Ranks are natural numbers, and states that agree have one rank.
LEMMA RankFacts ==
    /\ \A s : Rank(s) \in Nat
    /\ \A a, b : Agree(a, b) => Rank(a) = Rank(b)
    /\ \A t \in RowTypes : Rank(RowState(t)) = Rank(t)
    /\ \A t \in RowTypes : RowState(t) \in OrderStates
    /\ \A t \in OrderStates : RowState(t) = t
    /\ OrderStates \subseteq RowTypes
  BY DEF Rank, Agree, RowTypes, OrderStates, RowState, Terminal

\* Appending a row of type t changes the rows of one order only, and leaves
\* them alone when the order has that row.
LEMMA AppendRowFacts ==
    ASSUME log \in [Orders -> Seq(RowTypes)], NEW o \in Orders, NEW t \in RowTypes,
           AppendRow(o, t)
    PROVE  /\ log' \in [Orders -> Seq(RowTypes)]
           /\ \A p \in Orders \ {o} : log'[p] = log[p]
           /\ Rows(o)' = Rows(o) \cup {t}
           /\ IF t \in Rows(o) THEN log' = log
              ELSE /\ log'[o] = Append(log[o], t)
                   /\ LedgerState(o)' = RowState(t)
<1>1. CASE t \in Rows(o)
  BY <1>1 DEF AppendRow, Rows
<1>2. CASE t \notin Rows(o)
  <2>1. log' = [log EXCEPT ![o] = Append(@, t)]
    BY <1>2 DEF AppendRow
  <2>2. log'[o] = Append(log[o], t) /\ log[o] \in Seq(RowTypes)
    BY <2>1
  <2>3. /\ Len(log'[o]) = Len(log[o]) + 1
        /\ log'[o][Len(log[o]) + 1] = t
        /\ \A i \in 1..Len(log[o]) : log'[o][i] = log[o][i]
        /\ Len(log[o]) \in Nat
    BY <2>2
  <2>4. Rows(o)' = Rows(o) \cup {t}
    BY <2>3, SMTT(30) DEF Rows
  <2>5. LedgerState(o)' = RowState(t)
    BY <2>2, <2>3 DEF LedgerState
  <2> QED
    BY <1>2, <2>1, <2>2, <2>4, <2>5
<1> QED
  BY <1>1, <1>2

\* What a call of transition does to the projection and the ledger: the two
\* still agree, the rows still ascend, and the durable phase stays or moves
\* forward.
LEMMA TransitionFacts ==
    ASSUME TypeOK, RowsAscend, ProjectionMatchesLedger, proc = "up",
           NEW o \in Orders, NEW new, NEW n \in Continuations,
           NEW f \in Fills \cup {NoFill}, Transition(o, new, n, f)
    PROVE  /\ log' \in [Orders -> Seq(RowTypes)]
           /\ orders' \in [Orders -> OrderStates \cup {"none"}]
           /\ new \in OrderStates
           /\ pc' = Publishing(o, new, n, f)
           /\ orders'[o] = new
           /\ \A p \in Orders \ {o} : orders'[p] = orders[p] /\ log'[p] = log[p]
           /\ new # orders[o] => new \in Rows(o)' /\ <<orders[o], new>> \in AllowedTransitions
           /\ \A p \in Orders : Rows(p) \subseteq Rows(p)'
           /\ RowsAscend'
           /\ \A p \in Orders : Agree(orders'[p], LedgerState(p)')
           /\ \/ LedgerState(o)' = LedgerState(o)
              \/ /\ LedgerState(o)' = new
                 /\ <<orders[o], new>> \in AllowedTransitions
<1> USE DEF TypeOK
<1>1. orders[o] \in OrderStates /\ pc' = Publishing(o, new, n, f)
  BY DEF Transition, Known
<1>2. \A p \in Orders : Agree(orders[p], LedgerState(p))
  BY DEF ProjectionMatchesLedger
<1>3. CASE new = orders[o]
  <2>1. log' = log /\ orders' = orders
    BY <1>3 DEF Transition
  <2>2. \A p \in Orders : Rows(p)' = Rows(p) /\ LedgerState(p)' = LedgerState(p)
    BY <2>1 DEF Rows, LedgerState
  <2> QED
    BY <1>1, <1>2, <1>3, <2>1, <2>2 DEF RowsAscend
<1>4. CASE new # orders[o]
  <2>1. /\ <<orders[o], new>> \in AllowedTransitions
        /\ AppendRow(o, new)
        /\ orders' = [orders EXCEPT ![o] = new]
    BY <1>4 DEF Transition
  <2>2. /\ new \in OrderStates
        /\ \/ Rank(new) > Rank(orders[o])
           \/ {orders[o], new} \subseteq {"partially_filled", "cancel_pending"}
    BY <1>1, <1>4, <2>1, TransitionRank
  <2>3. new \in RowTypes /\ RowState(new) = new /\ Rank(new) >= Rank(orders[o])
    BY <2>2, RankFacts DEF Rank
  <2>4. /\ log' \in [Orders -> Seq(RowTypes)]
        /\ \A p \in Orders \ {o} : log'[p] = log[p]
        /\ Rows(o)' = Rows(o) \cup {new}
        /\ IF new \in Rows(o) THEN log' = log ELSE LedgerState(o)' = new
    BY <2>1, <2>3, AppendRowFacts
  <2>5. \A p \in Orders \ {o} :
          Rows(p)' = Rows(p) /\ LedgerState(p)' = LedgerState(p) /\ orders'[p] = orders[p]
    <3> TAKE p \in Orders \ {o}
    <3>1. log'[p] = log[p]
      BY <2>4
    <3>2. orders'[p] = orders[p]
      BY <2>1
    <3>3. Rows(p)' = Rows(p)
      BY <3>1 DEF Rows
    <3>4. LedgerState(p)' = LedgerState(p)
      BY <3>1 DEF LedgerState
    <3> QED
      BY <3>2, <3>3, <3>4
  <2>6. Rank(orders[o]) = Rank(LedgerState(o))
    BY <1>2, RankFacts
  <2>7. CASE new \in Rows(o)
    <3>1. LedgerState(o)' = LedgerState(o) /\ Rows(o)' = Rows(o)
      BY <2>4, <2>7 DEF LedgerState
    <3>2. Rank(new) <= Rank(LedgerState(o))
      BY <2>7 DEF RowsAscend
    <3>3. {orders[o], new} \subseteq {"partially_filled", "cancel_pending"}
      BY <2>2, <2>6, <3>2, RankFacts
    <3>4. Agree(new, LedgerState(o))
      BY <1>2, <3>3 DEF Agree
    <3>5. RowsAscend'
      BY <2>5, <3>1 DEF RowsAscend
    <3>6. \A p \in Orders : Agree(orders'[p], LedgerState(p)')
      BY <1>2, <2>1, <2>5, <3>1, <3>4
    <3> QED
      BY <1>1, <2>1, <2>2, <2>4, <2>5, <2>7, <3>1, <3>5, <3>6
  <2>8. CASE new \notin Rows(o)
    <3>1. LedgerState(o)' = new
      BY <2>4, <2>8
    <3>2. \A t \in Rows(o)' : Rank(t) <= Rank(LedgerState(o)')
      BY <2>3, <2>4, <2>6, <3>1, RankFacts DEF RowsAscend
    <3>3. RowsAscend'
      BY <2>5, <3>2 DEF RowsAscend
    <3>4. \A p \in Orders : Agree(orders'[p], LedgerState(p)')
      BY <1>2, <2>1, <2>5, <3>1 DEF Agree
    <3> QED
      BY <1>1, <2>1, <2>2, <2>4, <2>5, <3>1, <3>3, <3>4
  <2> QED
    BY <2>7, <2>8
<1> QED
  BY <1>3, <1>4

-----------------------------------------------------------------------------
(* The inductive invariant.                                                *)

\* An order that may still be routed has not been submitted.
LEMMA UnroutedIsUnsubmitted ==
    ASSUME Inv, proc = "up", NEW o \in Orders, orders[o] # "routed",
           <<orders[o], "routed">> \in AllowedTransitions
    PROVE  submits[o] = 0
<1>1. orders[o] = "risk_approved"
  BY DEF AllowedTransitions, Terminal
<1>2. LedgerState(o) = "risk_approved"
  BY <1>1 DEF Inv, ProjectionMatchesLedger, Agree
<1>3. "routed" \notin Rows(o)
  BY <1>2 DEF Inv, RowsAscend, Rank
<1> QED
  BY <1>3 DEF Inv, TypeOK, ExposureIsDurable

\* A step that is a transition and nothing else preserves the invariant.
LEMMA TransitionStep ==
    ASSUME Inv, proc = "up", NEW o \in Orders, NEW new,
           NEW n \in Continuations, NEW f \in Fills \cup {NoFill},
           Transition(o, new, n, f),
           n = "submit" => new = "routed" /\ orders[o] # "routed",
           n = "fill_publish" => f \in Fills,
           UNCHANGED <<fillLog, outbox, fillOutbox, external, proc, fills, ambiguous>>
    PROVE  Inv'
<1>1. /\ log' \in [Orders -> Seq(RowTypes)]
      /\ orders' \in [Orders -> OrderStates \cup {"none"}]
      /\ new \in OrderStates
      /\ pc' = Publishing(o, new, n, f)
      /\ orders'[o] = new
      /\ new # orders[o] => new \in Rows(o)' /\ <<orders[o], new>> \in AllowedTransitions
      /\ \A p \in Orders : Rows(p) \subseteq Rows(p)'
      /\ RowsAscend'
      /\ \A p \in Orders : Agree(orders'[p], LedgerState(p)')
  BY TransitionFacts DEF Inv
<1>2. pc' \in Frames
  BY <1>1 DEF Publishing, Frames, Steps, RowTypes
<1>3. TypeOK'
  BY <1>1, <1>2 DEF Inv, TypeOK, external
<1>4. ProjectionMatchesLedger'
  BY <1>1 DEF ProjectionMatchesLedger
<1>5. ExposureIsDurable' /\ SubmittedAtMostOnce'
  BY <1>1 DEF Inv, ExposureIsDurable, SubmittedAtMostOnce, external
<1>6. n = "submit" => submits[o] = 0 /\ new = "routed" /\ "routed" \in Rows(o)'
  BY <1>1, UnroutedIsUnsubmitted
<1>7. CallsOK'
  BY <1>1, <1>6 DEF CallsOK, Sending, Publishing, external
<1> QED
  BY <1>1, <1>3, <1>4, <1>5, <1>7 DEF Inv

\* A step that leaves the ledger rows, the projection of orders and the
\* submissions alone preserves all of the invariant but the types and the
\* facts about the call in progress.
LEMMA QuietStep ==
    ASSUME Inv, TypeOK', CallsOK', proc' = proc, UNCHANGED <<log, orders, submits>>
    PROVE  Inv'
<1>1. \A o \in Orders : Rows(o)' = Rows(o) /\ LedgerState(o)' = LedgerState(o)
  BY DEF Rows, LedgerState
<1> QED
  BY <1>1 DEF Inv, RowsAscend, ProjectionMatchesLedger, ExposureIsDurable,
              SubmittedAtMostOnce

\* The invariant holds when a fresh order manager starts on an empty ledger.
LEMMA InitInv == Init => Inv
<1> SUFFICES ASSUME Init PROVE Inv
  OBVIOUS
<1>1. TypeOK
  BY DEF Init, TypeOK, VenueStates
<1>2. \A o \in Orders : Rows(o) = {} /\ LedgerState(o) = "none"
  BY DEF Init, Rows, LedgerState
<1> QED
  BY <1>1, <1>2 DEF Init, Inv, RowsAscend, ProjectionMatchesLedger, Agree, Idle,
       ExposureIsDurable, SubmittedAtMostOnce, CallsOK, Sending

\* While a call is in progress the process is up and the frame is well formed.
LEMMA InCall ==
    ASSUME Inv, pc.at \in Steps
    PROVE  proc = "up" /\ pc \in Frames /\ pc.order \in Orders
  BY DEF Inv, TypeOK, CallsOK, Idle, Steps, Frames

\* Every step preserves the invariant.
LEMMA NextInv == Inv /\ [Next]_vars => Inv'
<1> SUFFICES ASSUME Inv, [Next]_vars PROVE Inv'
  OBVIOUS
<1>1. ASSUME NEW o \in Orders, Create(o) PROVE Inv'
  <2> DEFINE prior == {p \in Orders : Known(p) /\ (p = o \/ Key[p] = Key[o])}
  <2>1. proc = "up" /\ proc' = proc
    BY <1>1 DEF Create, Ready
  <2>2. CASE /\ prior = {}
             /\ AppendRow(o, "created")
             /\ orders' = [orders EXCEPT ![o] = "created"]
             /\ pc' = Publishing(o, "created", "idle", NoFill)
    <3>1. orders[o] = "none" /\ LedgerState(o) = "none"
      BY <2>1, <2>2 DEF Known, Inv, ProjectionMatchesLedger, Agree
    <3>2. log[o] = <<>> /\ Rows(o) = {}
      <4>1. log[o] \in Seq(RowTypes)
        BY DEF Inv, TypeOK
      <4>2. log[o] = <<>>
        <5> SUFFICES ASSUME log[o] # <<>> PROVE FALSE
          OBVIOUS
        <5>1. log[o][Len(log[o])] \in RowTypes
          BY <4>1
        <5>2. LedgerState(o) \in OrderStates
          BY <5>1, RankFacts DEF LedgerState
        <5> QED
          BY <3>1, <5>2 DEF OrderStates
      <4> QED
        BY <4>2 DEF Rows
    <3>3. /\ log' \in [Orders -> Seq(RowTypes)]
          /\ \A p \in Orders \ {o} : log'[p] = log[p]
          /\ Rows(o)' = {"created"}
          /\ LedgerState(o)' = "created"
      BY <2>2, <3>2, AppendRowFacts DEF Inv, TypeOK, RowTypes, OrderStates, RowState
    <3>4. \A p \in Orders \ {o} :
            /\ Rows(p)' = Rows(p) /\ LedgerState(p)' = LedgerState(p)
            /\ orders'[p] = orders[p]
      <4> TAKE p \in Orders \ {o}
      <4>1. log'[p] = log[p] /\ orders'[p] = orders[p]
        BY <2>2, <3>3 DEF Inv, TypeOK
      <4> QED
        BY <4>1 DEF Rows, LedgerState
    <3>5. TypeOK'
      BY <1>1, <2>2, <3>3 DEF Inv, TypeOK, Create, external, Publishing, Frames, Steps, Continuations,
           RowTypes, OrderStates
    <3>6. RowsAscend'
      BY <3>3, <3>4 DEF Inv, RowsAscend, Rank
    <3>7. orders'[o] = "created"
      BY <2>2 DEF Inv, TypeOK
    <3>8. ProjectionMatchesLedger'
      BY <2>1, <3>3, <3>4, <3>7 DEF Inv, ProjectionMatchesLedger, Agree
    <3>9. ExposureIsDurable' /\ SubmittedAtMostOnce'
      BY <1>1, <3>2, <3>4 DEF Inv, TypeOK, ExposureIsDurable, SubmittedAtMostOnce,
           Create, external
    <3>10. CallsOK'
      BY <2>1, <2>2 DEF CallsOK, Sending, Publishing
    <3> QED
      BY <3>5, <3>6, <3>8, <3>9, <3>10 DEF Inv
  <2>3. CASE \E p \in prior : /\ SamePayload(o, p)
                              /\ pc' = Publishing(p, "created", "idle", NoFill)
                              /\ UNCHANGED <<log, orders>>
    <3>1. TypeOK'
      BY <1>1, <2>3 DEF Inv, TypeOK, Create, external, Publishing, Frames, Steps, Continuations,
           RowTypes, OrderStates
    <3>2. CallsOK'
      BY <2>1, <2>3 DEF CallsOK, Sending, Publishing
    <3> QED
      BY <1>1, <2>1, <2>3, <3>1, <3>2, QuietStep DEF Create, external
  <2> QED
    BY <1>1, <2>2, <2>3 DEF Create
<1>2. ASSUME NEW o \in Orders, NEW new, Move(o, new) PROVE Inv'
  BY <1>2, TransitionStep DEF Move, Ready, Continuations
<1>3. ASSUME NEW o \in Orders, Route(o) PROVE Inv'
  BY <1>3, TransitionStep DEF Route, Ready, Continuations
<1>4. ASSUME NEW o \in Orders, ReconcileAmbiguous(o) PROVE Inv'
  BY <1>4, TransitionStep DEF ReconcileAmbiguous, Ready, Continuations
<1>5. ASSUME NEW o \in Orders, Cancel(o) PROVE Inv'
  BY <1>5, TransitionStep DEF Cancel, Ready, Continuations
<1>6. ASSUME NEW f \in Fills, RecordFill(f) PROVE Inv'
  <2>1. FillTarget(f) \in {"filled", "partially_filled"}
    BY <1>6 DEF RecordFill, FillTarget
  <2>2. TypeOK'
    BY <1>6, <2>1, FillAssumption DEF Inv, TypeOK, RecordFill, external, Frames, Steps, Continuations,
         RowTypes, OrderStates
  <2>3. CallsOK'
    BY <1>6 DEF CallsOK, RecordFill, Ready, Sending
  <2> QED
    BY <1>6, <2>2, <2>3, QuietStep DEF RecordFill, external
<1>7. CASE Publish
  <2>1. proc = "up" /\ pc \in Frames /\ pc.order \in Orders
    BY <1>7, InCall DEF Publish, Steps
  <2>2. pc' \in Frames \cup {Idle}
    BY <1>7, <2>1 DEF Publish, Continue, Frames, Continuations, Steps
  <2>3. TypeOK'
    BY <1>7, <2>1, <2>2 DEF Inv, TypeOK, Publish, external, memory, Frames
  <2>4. CallsOK'
    <3>1. CASE pc.next = "idle"
      BY <1>7, <2>1, <3>1 DEF Inv, CallsOK, Publish, Continue, external, memory, Sending, Idle
    <3>2. CASE pc.next # "idle"
      <4>1. pc' = [pc EXCEPT !.at = pc.next]
        BY <1>7, <3>2 DEF Publish, Continue
      <4>2. pc'.at = pc.next /\ pc'.order = pc.order /\ pc'.fill = pc.fill /\ pc'.next = pc.next
        BY <2>1, <4>1 DEF Frames
      <4> QED
        BY <1>7, <2>1, <4>2 DEF Inv, CallsOK, Publish, external, memory, Sending, Rows,
             Frames, Continuations
    <3> QED
      BY <3>1, <3>2
  <2> QED
    BY <1>7, <2>3, <2>4, QuietStep DEF Publish, external, memory
<1>8. CASE Submit
  <2>1. proc = "up" /\ pc \in Frames /\ pc.order \in Orders
    BY <1>8, InCall DEF Submit, Steps
  <2>2. /\ submits[pc.order] = 0
        /\ orders[pc.order] = "routed"
        /\ "routed" \in Rows(pc.order)
    BY <1>8 DEF Inv, CallsOK, Sending, Submit
  <2>3. /\ submits' = [submits EXCEPT ![pc.order] = @ + 1]
        /\ UNCHANGED <<durable, proc, orders, fills>>
        /\ ambiguous' \subseteq Orders
        /\ venue' \in [Orders -> VenueStates]
    BY <1>8, <2>1 DEF Submit, Inv, TypeOK, VenueStates
  <2>4. /\ pc' \in Frames \cup {Idle}
        /\ pc'.at \in {"acknowledge", "record_ambiguous", "idle"}
        /\ pc'.at # "idle" => pc'.order = pc.order
    <3>1. \/ pc' = [pc EXCEPT !.at = "acknowledge", !.type = "acknowledged"]
          \/ pc' = [pc EXCEPT !.at = "acknowledge", !.type = "rejected"]
          \/ pc' = [pc EXCEPT !.at = "record_ambiguous", !.type = "ack_ambiguous"]
          \/ pc' = Idle
      BY <1>8 DEF Submit
    <3>2. {"acknowledged", "rejected", "ack_ambiguous"} \subseteq RowTypes
      BY DEF RowTypes, OrderStates
    <3>3. {"acknowledge", "record_ambiguous"} \subseteq Steps
      BY DEF Steps
    <3>4. ASSUME NEW a \in {"acknowledge", "record_ambiguous"},
                 NEW t \in {"acknowledged", "rejected", "ack_ambiguous"},
                 pc' = [pc EXCEPT !.at = a, !.type = t]
          PROVE  pc' \in Frames /\ pc'.at = a /\ pc'.order = pc.order
      <4>1. a \in Steps /\ t \in RowTypes
        BY <3>2, <3>3
      <4> QED
        BY <2>1, <3>4, <4>1 DEF Frames
    <3>5. pc' = Idle => pc'.at = "idle"
      BY DEF Idle
    <3> QED
      BY <3>1, <3>4, <3>5
  <2>5. TypeOK'
    BY <2>1, <2>3, <2>4 DEF Inv, TypeOK, durable
  <2>6. \A o \in Orders : Rows(o)' = Rows(o) /\ LedgerState(o)' = LedgerState(o)
    BY <2>3 DEF Rows, LedgerState, durable
  <2>7. RowsAscend' /\ ProjectionMatchesLedger'
    BY <2>3, <2>6 DEF Inv, RowsAscend, ProjectionMatchesLedger
  <2>8. ExposureIsDurable' /\ SubmittedAtMostOnce'
    BY <2>1, <2>2, <2>3, <2>6 DEF Inv, TypeOK, ExposureIsDurable, SubmittedAtMostOnce
  <2>9. CallsOK'
    BY <2>1, <2>2, <2>3, <2>4 DEF CallsOK, Sending
  <2> QED
    BY <2>5, <2>7, <2>8, <2>9 DEF Inv
<1>9. CASE Acknowledge
  <2>1. proc = "up" /\ pc.order \in Orders
    BY <1>9, InCall DEF Acknowledge, Steps
  <2> QED
    BY <1>9, <2>1, TransitionStep DEF Acknowledge, Continuations
<1>10. CASE RecordAmbiguous
  <2>1. proc = "up" /\ pc \in Frames /\ pc.order \in Orders /\ orders[pc.order] = "routed"
    BY <1>10, InCall DEF RecordAmbiguous, Steps, Inv, CallsOK
  <2>2. PICK o \in Orders : o = pc.order
    BY <2>1
  <2>3. LedgerState(o) = "routed"
    BY <2>1, <2>2 DEF Inv, ProjectionMatchesLedger, Agree
  <2>4. "ack_ambiguous" \in RowTypes /\ RowState("ack_ambiguous") = "routed"
    BY DEF RowTypes, RowState
  <2>5. AppendRow(o, "ack_ambiguous")
    BY <1>10, <2>2 DEF RecordAmbiguous
  <2>6. /\ log' \in [Orders -> Seq(RowTypes)]
        /\ \A p \in Orders \ {o} : log'[p] = log[p]
        /\ Rows(o)' = Rows(o) \cup {"ack_ambiguous"}
        /\ IF "ack_ambiguous" \in Rows(o) THEN log' = log
           ELSE LedgerState(o)' = RowState("ack_ambiguous")
    BY <2>4, <2>5, AppendRowFacts DEF Inv, TypeOK
  <2>7. LedgerState(o)' = "routed"
    BY <2>3, <2>4, <2>6 DEF LedgerState
  <2>8. \A p \in Orders \ {o} : Rows(p)' = Rows(p) /\ LedgerState(p)' = LedgerState(p)
    BY <2>6 DEF Rows, LedgerState
  <2>9. /\ UNCHANGED <<fillLog, outbox, fillOutbox, external, proc, memory>>
        /\ pc' = Publishing(o, "ack_ambiguous", "idle", NoFill)
    BY <1>10, <2>2 DEF RecordAmbiguous
  <2>10. TypeOK'
    BY <2>4, <2>6, <2>9 DEF Inv, TypeOK, external, memory, Publishing, Frames, Steps,
         Continuations
  <2>11. RowsAscend'
    <3>1. \A t \in Rows(o)' : Rank(t) <= Rank(LedgerState(o)')
      BY <2>3, <2>6, <2>7, RankFacts DEF Inv, RowsAscend, Rank
    <3> QED
      BY <2>8, <3>1 DEF Inv, RowsAscend
  <2>12. ProjectionMatchesLedger'
    BY <2>3, <2>7, <2>8, <2>9 DEF Inv, ProjectionMatchesLedger, memory
  <2>13. ExposureIsDurable' /\ SubmittedAtMostOnce'
    BY <2>6, <2>8, <2>9 DEF Inv, ExposureIsDurable, SubmittedAtMostOnce, external
  <2>14. CallsOK'
    BY <2>1, <2>9 DEF CallsOK, Sending, Publishing
  <2> QED
    BY <2>10, <2>11, <2>12, <2>13, <2>14 DEF Inv
<1>11. CASE ClearAmbiguous
  <2>1. TypeOK' /\ proc' = proc /\ UNCHANGED <<log, orders, submits>>
    BY <1>11 DEF ClearAmbiguous, Inv, TypeOK, durable, external
  <2>2. CallsOK'
    BY <1>11, <2>1 DEF ClearAmbiguous, CallsOK, Sending, Idle
  <2> QED
    BY <2>1, <2>2, QuietStep
<1>12. CASE VenueCancel
  <2>1. TypeOK' /\ proc' = proc /\ UNCHANGED <<log, orders, submits>>
    BY <1>12 DEF VenueCancel, Inv, TypeOK, durable, memory, VenueStates
  <2>2. CallsOK'
    BY <1>12, <2>1 DEF VenueCancel, CallsOK, Sending, Idle
  <2> QED
    BY <2>1, <2>2, QuietStep
<1>13. CASE FillTransition
  <2>1. proc = "up" /\ pc.order \in Orders /\ pc.fill \in Fills
    BY <1>13, InCall DEF FillTransition, Steps, Inv, CallsOK
  <2> QED
    BY <1>13, <2>1, TransitionStep DEF FillTransition, Continuations
<1>14. CASE FillPublish
  <2>1. TypeOK' /\ proc' = proc /\ UNCHANGED <<log, orders, submits>>
    BY <1>14 DEF FillPublish, Inv, TypeOK, external, memory, CallsOK
  <2>2. CallsOK'
    BY <1>14, <2>1 DEF FillPublish, CallsOK, Sending, Idle
  <2> QED
    BY <2>1, <2>2, QuietStep
<1>15. CASE Raise
  <2>1. TypeOK' /\ proc' = proc /\ UNCHANGED <<log, orders, submits>>
    BY <1>15 DEF Raise, Inv, TypeOK, durable, external, memory
  <2>2. CallsOK'
    BY <1>15, <2>1 DEF Raise, CallsOK, Sending, Idle
  <2> QED
    BY <2>1, <2>2, QuietStep
<1>16. CASE Crash
  <2>1. \A o \in Orders : Rows(o)' = Rows(o) /\ LedgerState(o)' = LedgerState(o)
    BY <1>16 DEF Crash, Rows, LedgerState, durable
  <2>2. TypeOK'
    BY <1>16 DEF Crash, Inv, TypeOK, durable, external
  <2>3. CallsOK'
    BY <1>16 DEF Crash, CallsOK, Sending, Idle
  <2> QED
    BY <1>16, <2>1, <2>2, <2>3 DEF Crash, Inv, RowsAscend, ProjectionMatchesLedger,
         ExposureIsDurable, SubmittedAtMostOnce, external
<1>17. CASE Hydrate
  <2>1. \A o \in Orders : Rows(o)' = Rows(o) /\ LedgerState(o)' = LedgerState(o)
    BY <1>17 DEF Hydrate, Rows, LedgerState, durable
  <2>2. \A o \in Orders : LedgerState(o) \in OrderStates \cup {"none"}
    <3> TAKE o \in Orders
    <3>1. log[o] \in Seq(RowTypes)
      BY DEF Inv, TypeOK
    <3>2. CASE log[o] = <<>>
      BY <3>2 DEF LedgerState
    <3>3. CASE log[o] # <<>>
      <4>1. log[o][Len(log[o])] \in RowTypes
        BY <3>1, <3>3
      <4> QED
        BY <3>3, <4>1, RankFacts DEF LedgerState
    <3> QED
      BY <3>2, <3>3
  <2>3. HydratedAmbiguous \subseteq Orders
    BY DEF HydratedAmbiguous
  <2>4. TypeOK'
    BY <1>17, <2>2, <2>3 DEF Hydrate, Inv, TypeOK, durable, external
  <2>5. pc = Idle /\ pc' = Idle
    BY <1>17 DEF Hydrate, Inv, CallsOK
  <2>6. CallsOK'
    BY <2>5 DEF CallsOK, Sending, Idle
  <2>7. ProjectionMatchesLedger'
    BY <1>17, <2>1 DEF Hydrate, ProjectionMatchesLedger, Agree
  <2> QED
    BY <1>17, <2>1, <2>4, <2>6, <2>7 DEF Hydrate, Inv, RowsAscend, ExposureIsDurable,
         SubmittedAtMostOnce, external
<1>18. CASE HydrateRaises
  <2>1. \A o \in Orders : Rows(o)' = Rows(o) /\ LedgerState(o)' = LedgerState(o)
    BY <1>18 DEF HydrateRaises, Rows, LedgerState, durable
  <2>2. TypeOK'
    BY <1>18 DEF HydrateRaises, Inv, TypeOK, durable, external, memory
  <2>3. pc = Idle /\ pc' = Idle
    BY <1>18 DEF HydrateRaises, Inv, CallsOK
  <2>4. CallsOK' /\ ProjectionMatchesLedger'
    BY <1>18, <2>3 DEF HydrateRaises, CallsOK, Sending, Idle, ProjectionMatchesLedger
  <2> QED
    BY <1>18, <2>1, <2>2, <2>4 DEF HydrateRaises, Inv, RowsAscend, ExposureIsDurable,
         SubmittedAtMostOnce, external
<1>19. ASSUME NEW o \in Orders, VenueCloses(o) PROVE Inv'
  <2>1. TypeOK' /\ proc' = proc /\ UNCHANGED <<log, orders, submits, pc>>
    BY <1>19 DEF VenueCloses, Inv, TypeOK, durable, memory, VenueStates
  <2>2. CallsOK'
    BY <2>1 DEF Inv, CallsOK, Sending, Rows
  <2> QED
    BY <2>1, <2>2, QuietStep
<1>20. CASE UNCHANGED vars
  <2>1. TypeOK' /\ proc' = proc /\ UNCHANGED <<log, orders, submits, pc>>
    BY <1>20 DEF vars, Inv, TypeOK
  <2>2. CallsOK'
    BY <2>1 DEF Inv, CallsOK, Sending, Rows
  <2> QED
    BY <2>1, <2>2, QuietStep
<1>21. ASSUME NEW o \in Orders, Call(o) PROVE Inv'
  BY <1>1, <1>2, <1>3, <1>4, <1>5, <1>21 DEF Call, ApproveRisk, RejectByRisk,
     AcknowledgeCancel, ExpireUnacknowledged, Reconcile, ReconcileRouted
<1>22. CASE InFlight
  BY <1>7, <1>8, <1>9, <1>10, <1>11, <1>12, <1>13, <1>14, <1>15, <1>22 DEF InFlight
<1> QED
  BY <1>6, <1>16, <1>17, <1>18, <1>19, <1>20, <1>21, <1>22 DEF Next

\* The invariant holds in every reachable state.
THEOREM Invariance == Spec => []Inv
  BY InitInv, NextInv, PTL DEF Spec

\* Every reachable state is well typed.
THEOREM TypeCorrect == Spec => []TypeOK
<1>1. Inv => TypeOK
  BY DEF Inv
<1> QED
  BY <1>1, Invariance, PTL

\* No order is ever handed to adapter.submit twice, whatever sequence of
\* calls, lost acknowledgements, exceptions, crashes and restarts there is.
THEOREM NeverSubmittedTwice == Spec => []SubmittedAtMostOnce
<1>1. Inv => SubmittedAtMostOnce
  BY DEF Inv
<1> QED
  BY <1>1, Invariance, PTL

\* The in-memory projection agrees with what hydration would rebuild, up to
\* partially_filled against cancel_pending.
THEOREM ProjectionAgrees == Spec => []ProjectionMatchesLedger
<1>1. Inv => ProjectionMatchesLedger
  BY DEF Inv
<1> QED
  BY <1>1, Invariance, PTL

-----------------------------------------------------------------------------
(* The shape of ledger writes and submissions, for the properties of the   *)
(* ledger and the refinement.                                              *)

\* Order o gains the row t: the first row, the ambiguity marker of a routed
\* order, or a legal transition from a state that agrees with the last row.
LedgerMove(o, t) ==
    /\ log' = [log EXCEPT ![o] = Append(@, t)]
    /\ submits' = submits
    /\ \/ /\ t = "created"
          /\ \A p \in Orders : Key[p] = Key[o] => log[p] = <<>>
       \/ /\ t = "ack_ambiguous"
          /\ log[o] # <<>>
          /\ LedgerState(o) = "routed"
       \/ /\ log[o] # <<>>
          /\ t \notin Rows(o)
          /\ \E s \in OrderStates : /\ Agree(s, LedgerState(o))
                                    /\ s # t
                                    /\ <<s, t>> \in AllowedTransitions

\* Order o is submitted for the first time.
FirstSubmit(o) ==
    /\ log' = log
    /\ submits' = [submits EXCEPT ![o] = @ + 1]
    /\ submits[o] = 0
    /\ LedgerState(o) = "routed"

\* An order without rows is one whose ledger state is "none".
LEMMA EmptyLog ==
    ASSUME log \in [Orders -> Seq(RowTypes)], NEW o \in Orders
    PROVE  /\ log[o] = <<>> <=> LedgerState(o) = "none"
           /\ log[o] # <<>> => /\ log[o][Len(log[o])] \in RowTypes
                               /\ log[o][Len(log[o])] \in Rows(o)
                               /\ LedgerState(o) = RowState(log[o][Len(log[o])])
<1>1. CASE log[o] = <<>>
  BY <1>1 DEF LedgerState
<1>2. CASE log[o] # <<>>
  <2>1. log[o] \in Seq(RowTypes) /\ Len(log[o]) \in 1..Len(log[o])
    BY <1>2
  <2>2. log[o][Len(log[o])] \in RowTypes
    BY <2>1
  <2>3. LedgerState(o) \in OrderStates
    BY <1>2, <2>2, RankFacts DEF LedgerState
  <2> QED
    BY <1>2, <2>1, <2>2, <2>3 DEF LedgerState, OrderStates, Rows
<1> QED
  BY <1>1, <1>2

\* A transition writes no row, or one row as LedgerMove says.
LEMMA TransitionMove ==
    ASSUME Inv, proc = "up", NEW o \in Orders, NEW new, NEW n, NEW f,
           Transition(o, new, n, f), UNCHANGED external
    PROVE  \/ log' = log /\ submits' = submits
           \/ new \in RowTypes /\ LedgerMove(o, new)
<1>1. orders[o] \in OrderStates /\ Agree(orders[o], LedgerState(o))
  BY DEF Transition, Known, Inv, TypeOK, ProjectionMatchesLedger
<1>2. log[o] # <<>>
  BY <1>1, EmptyLog DEF Inv, TypeOK, Agree, OrderStates
<1>3. CASE new = orders[o] \/ new \in Rows(o)
  BY <1>3 DEF Transition, AppendRow, external
<1>4. CASE new # orders[o] /\ new \notin Rows(o)
  <2>1. /\ <<orders[o], new>> \in AllowedTransitions
        /\ log' = [log EXCEPT ![o] = Append(@, new)]
    BY <1>4 DEF Transition, AppendRow
  <2>2. new \in RowTypes
    BY <1>1, <1>4, <2>1, TransitionRank, RankFacts
  <2> QED
    BY <1>1, <1>2, <1>4, <2>1, <2>2 DEF LedgerMove, external
<1> QED
  BY <1>3, <1>4

\* Every step writes at most one row, or submits one order, never both.
LEMMA StepShape ==
    ASSUME Inv, [Next]_vars
    PROVE  \/ log' = log /\ submits' = submits
           \/ \E o \in Orders : \E t \in RowTypes : LedgerMove(o, t)
           \/ \E o \in Orders : FirstSubmit(o)
<1> DEFINE Goal == \/ log' = log /\ submits' = submits
                   \/ \E o \in Orders : \E t \in RowTypes : LedgerMove(o, t)
                   \/ \E o \in Orders : FirstSubmit(o)
<1>1. ASSUME NEW o \in Orders, Create(o) PROVE Goal
  <2>1. proc = "up" /\ submits' = submits
    BY <1>1 DEF Create, Ready, external
  <2>2. CASE log' = log
    BY <2>1, <2>2
  <2>3. CASE log' # log
    <3>1. /\ {p \in Orders : Known(p) /\ (p = o \/ Key[p] = Key[o])} = {}
          /\ AppendRow(o, "created")
      BY <1>1, <2>3 DEF Create
    <3>2. \A p \in Orders : Key[p] = Key[o] => log[p] = <<>>
      <4> SUFFICES ASSUME NEW p \in Orders, Key[p] = Key[o] PROVE log[p] = <<>>
        OBVIOUS
      <4>1. orders[p] = "none"
        BY <3>1 DEF Known
      <4>2. LedgerState(p) = "none"
        BY <2>1, <4>1 DEF Inv, ProjectionMatchesLedger, Agree
      <4> QED
        BY <4>2, EmptyLog DEF Inv, TypeOK
    <3>3. log' = [log EXCEPT ![o] = Append(@, "created")]
      BY <2>3, <3>1 DEF AppendRow
    <3>4. "created" \in RowTypes
      BY DEF RowTypes, OrderStates
    <3>5. LedgerMove(o, "created")
      BY <2>1, <3>2, <3>3 DEF LedgerMove
    <3> QED
      BY <3>4, <3>5
  <2> QED
    BY <2>2, <2>3
<1>2. ASSUME NEW o \in Orders, Call(o), ~Create(o) PROVE Goal
  <2>1. PICK new, n : /\ Transition(o, new, n, NoFill)
                      /\ Ready
                      /\ UNCHANGED external
    BY <1>2, Zenon DEF Call, Move, ApproveRisk, RejectByRisk, Route, ReconcileAmbiguous,
       ReconcileRouted, ExpireUnacknowledged, Cancel, AcknowledgeCancel, Reconcile
  <2> QED
    BY <2>1, TransitionMove DEF Ready
<1>3. CASE Acknowledge \/ FillTransition
  <2>1. proc = "up" /\ pc.order \in Orders
    BY <1>3, InCall DEF Acknowledge, FillTransition, Steps
  <2>2. PICK o \in Orders : o = pc.order
    BY <2>1
  <2>3. PICK new, n, f : Transition(o, new, n, f) /\ UNCHANGED external
    BY <1>3, <2>2 DEF Acknowledge, FillTransition, external
  <2> QED
    BY <2>1, <2>3, TransitionMove
<1>4. CASE RecordAmbiguous
  <2>1. proc = "up" /\ pc.order \in Orders /\ orders[pc.order] = "routed"
    BY <1>4, InCall DEF RecordAmbiguous, Steps, Inv, CallsOK
  <2>2. PICK o \in Orders : o = pc.order
    BY <2>1
  <2>3. LedgerState(o) = "routed"
    BY <2>1, <2>2 DEF Inv, ProjectionMatchesLedger, Agree
  <2>4. log[o] # <<>>
    BY <2>3, EmptyLog DEF Inv, TypeOK
  <2>5. AppendRow(o, "ack_ambiguous") /\ submits' = submits
    BY <1>4, <2>2 DEF RecordAmbiguous, external
  <2>6. "ack_ambiguous" \in RowTypes
    BY DEF RowTypes
  <2>7. log' = log \/ LedgerMove(o, "ack_ambiguous")
    BY <2>3, <2>4, <2>5 DEF AppendRow, LedgerMove
  <2> QED
    BY <2>5, <2>6, <2>7
<1>5. CASE Submit
  <2>1. proc = "up" /\ pc.order \in Orders
    BY <1>5, InCall DEF Submit, Steps
  <2>2. PICK o \in Orders : o = pc.order
    BY <2>1
  <2>3. orders[o] = "routed" /\ submits[o] = 0
    BY <1>5, <2>2 DEF Submit, Inv, CallsOK, Sending
  <2>4. LedgerState(o) = "routed"
    BY <2>1, <2>3 DEF Inv, ProjectionMatchesLedger, Agree
  <2>5. FirstSubmit(o)
    BY <1>5, <2>2, <2>3, <2>4 DEF FirstSubmit, Submit, durable
  <2> QED
    BY <2>5
<1>6. CASE Publish \/ ClearAmbiguous \/ VenueCancel \/ FillPublish \/ Raise
  <2>1. log' = log /\ submits' = submits
    BY <1>6 DEF Publish, ClearAmbiguous, VenueCancel, FillPublish, Raise, durable, external
  <2> QED
    BY <2>1
<1>7. CASE Crash \/ Hydrate \/ HydrateRaises \/ UNCHANGED vars
  <2>1. log' = log /\ submits' = submits
    BY <1>7 DEF Crash, Hydrate, HydrateRaises, durable, external, vars
  <2> QED
    BY <2>1
<1>8. ASSUME NEW o \in Orders, VenueCloses(o) PROVE Goal
  BY <1>8 DEF VenueCloses, durable
<1>9. ASSUME NEW f \in Fills, RecordFill(f) PROVE Goal
  BY <1>9 DEF RecordFill, external
<1>10. ASSUME NEW o \in Orders, Call(o) PROVE Goal
  BY <1>1, <1>2, <1>10
<1>11. CASE InFlight
  BY <1>3, <1>4, <1>5, <1>6, <1>11 DEF InFlight
<1> QED
  BY <1>7, <1>8, <1>9, <1>10, <1>11 DEF Next

-----------------------------------------------------------------------------
(* Keys, legality of the ledger, refinement.                               *)

\* What LedgerMove does to the sequences of rows.
LEMMA LedgerMoveFacts ==
    ASSUME Inv, NEW o \in Orders, NEW t \in RowTypes, LedgerMove(o, t)
    PROVE  /\ \A p \in Orders \ {o} : log'[p] = log[p] /\ LedgerState(p)' = LedgerState(p)
           /\ log[o] \in Seq(RowTypes)
           /\ log'[o] = Append(log[o], t)
           /\ log'[o] # <<>>
           /\ LedgerState(o)' = RowState(t)
<1>1. /\ \A p \in Orders \ {o} : log'[p] = log[p]
      /\ log[o] \in Seq(RowTypes)
      /\ log'[o] = Append(log[o], t)
  BY DEF LedgerMove, Inv, TypeOK
<1>2. \A p \in Orders \ {o} : LedgerState(p)' = LedgerState(p)
  BY <1>1 DEF LedgerState
<1>3. /\ log'[o] # <<>>
      /\ log'[o][Len(log'[o])] = t
  BY <1>1
<1>4. LedgerState(o)' = RowState(t)
  BY <1>3 DEF LedgerState
<1> QED
  BY <1>1, <1>2, <1>3, <1>4

\* The venue's client order id is the idempotency key, and no two artifacts
\* with one key are both submitted.
KeySubmittedAtMostOnce ==
    \A o, p \in Orders :
        Key[o] = Key[p] /\ submits[o] > 0 /\ submits[p] > 0 => o = p

\* At most one artifact per idempotency key ever reaches the ledger, and at
\* most one is ever submitted under it.
THEOREM KeysAreUnique == Spec => [](OneArtifactPerKey /\ KeySubmittedAtMostOnce)
<1>1. Init => OneArtifactPerKey
  BY DEF Init, OneArtifactPerKey
<1>2. Inv /\ OneArtifactPerKey /\ [Next]_vars => OneArtifactPerKey'
  <2> SUFFICES ASSUME Inv, OneArtifactPerKey, [Next]_vars PROVE OneArtifactPerKey'
    OBVIOUS
  <2>1. CASE log' = log
    BY <2>1 DEF OneArtifactPerKey
  <2>2. ASSUME NEW o \in Orders, NEW t \in RowTypes, LedgerMove(o, t)
        PROVE  OneArtifactPerKey'
    <3>1. \A p \in Orders \ {o} : log'[p] = log[p]
      BY <2>2, LedgerMoveFacts
    <3>2. \A p \in Orders \ {o} : Key[p] = Key[o] => log[p] = <<>>
      BY <2>2 DEF LedgerMove, OneArtifactPerKey
    <3> QED
      BY <3>1, <3>2 DEF OneArtifactPerKey
  <2> QED
    BY <2>1, <2>2, StepShape DEF FirstSubmit
<1>3. Inv /\ OneArtifactPerKey => KeySubmittedAtMostOnce
  <2> SUFFICES ASSUME Inv, OneArtifactPerKey, NEW o \in Orders, NEW p \in Orders,
                      Key[o] = Key[p], submits[o] > 0, submits[p] > 0
               PROVE  o = p
    BY DEF KeySubmittedAtMostOnce
  <2>1. "routed" \in Rows(o) /\ "routed" \in Rows(p)
    BY DEF Inv, ExposureIsDurable
  <2>2. log[o] # <<>> /\ log[p] # <<>>
    BY <2>1 DEF Rows
  <2> QED
    BY <2>2 DEF OneArtifactPerKey
<1> QED
  BY <1>1, <1>2, <1>3, Invariance, PTL DEF Spec

\* Every row of the ledger follows its predecessor legally, so hydration
\* succeeds, unless the row is a cancellation recorded right after a partial
\* fill.
THEOREM LedgerStaysLegal == Spec => []LedgerLegalExceptRecancel
<1>1. Init => LedgerLegalExceptRecancel
  BY DEF Init, LedgerLegalExceptRecancel
<1>2. Inv /\ LedgerLegalExceptRecancel /\ [Next]_vars => LedgerLegalExceptRecancel'
  <2> SUFFICES ASSUME Inv, LedgerLegalExceptRecancel, [Next]_vars
               PROVE  LedgerLegalExceptRecancel'
    OBVIOUS
  <2>1. CASE log' = log
    BY <2>1 DEF LedgerLegalExceptRecancel
  <2>2. ASSUME NEW o \in Orders, NEW t \in RowTypes, LedgerMove(o, t)
        PROVE  LedgerLegalExceptRecancel'
    <3> DEFINE last == log[o][Len(log[o])]
    <3>1. /\ \A p \in Orders \ {o} : log'[p] = log[p]
          /\ log[o] \in Seq(RowTypes)
          /\ log'[o] = Append(log[o], t)
      BY <2>2, LedgerMoveFacts
    <3>2. log[o] # <<>> => \/ LegalNext(last, t)
                           \/ last = "partially_filled" /\ t = "cancelled"
      <4> SUFFICES ASSUME log[o] # <<>>
                   PROVE  \/ LegalNext(last, t)
                          \/ last = "partially_filled" /\ t = "cancelled"
        OBVIOUS
      <4>1. last \in RowTypes /\ last \in Rows(o) /\ LedgerState(o) = RowState(last)
        BY EmptyLog DEF Inv, TypeOK
      <4>2. CASE t = "ack_ambiguous"
        BY <4>2 DEF LegalNext
      <4>3. ASSUME t \notin Rows(o), NEW s \in OrderStates, Agree(s, LedgerState(o)),
                   s # t, <<s, t>> \in AllowedTransitions
            PROVE  \/ LegalNext(last, t)
                   \/ last = "partially_filled" /\ t = "cancelled"
        <5>1. CASE s = RowState(last)
          BY <4>3, <5>1 DEF LegalNext
        <5>2. CASE s # RowState(last)
          <6>1. {s, RowState(last)} = {"partially_filled", "cancel_pending"}
            BY <4>1, <4>3, <5>2 DEF Agree
          <6>2. last \in {"partially_filled", "cancel_pending"} /\ last # s /\ last # t
            BY <4>1, <4>3, <5>2, <6>1 DEF RowState
          <6>3. s \in {"partially_filled", "cancel_pending"}
            BY <6>1
          <6>4. t \in {"filled", "cancelled", "partially_filled", "cancel_pending"}
            BY <4>3, <6>3 DEF AllowedTransitions, Terminal
          <6>5. CASE s = "partially_filled"
            BY <4>3, <6>2, <6>4, <6>5 DEF LegalNext, RowState, AllowedTransitions, Terminal
          <6>6. CASE s = "cancel_pending"
            BY <4>3, <6>2, <6>4, <6>6 DEF LegalNext, RowState, AllowedTransitions, Terminal
          <6> QED
            BY <6>3, <6>5, <6>6
        <5> QED
          BY <5>1, <5>2
      <4> QED
        BY <2>2, <4>2, <4>3 DEF LedgerMove
    <3> SUFFICES ASSUME NEW p \in Orders, NEW i \in 2..Len(log'[p])
                 PROVE  \/ LegalNext(log'[p][i-1], log'[p][i])
                        \/ log'[p][i-1] = "partially_filled" /\ log'[p][i] = "cancelled"
      BY DEF LedgerLegalExceptRecancel, LegalNext
    <3>3. CASE p # o
      BY <3>1, <3>3 DEF LedgerLegalExceptRecancel
    <3>4. CASE p = o /\ i <= Len(log[o])
      <4>1. i \in 2..Len(log[o]) /\ log'[o][i] = log[o][i] /\ log'[o][i-1] = log[o][i-1]
        BY <3>1, <3>4
      <4> QED
        BY <3>4, <4>1 DEF LedgerLegalExceptRecancel
    <3>5. CASE p = o /\ i > Len(log[o])
      <4>1. i = Len(log[o]) + 1 /\ log'[o][i] = t /\ log'[o][i-1] = last /\ log[o] # <<>>
        BY <3>1, <3>5
      <4> QED
        BY <3>2, <3>5, <4>1
    <3> QED
      BY <3>3, <3>4, <3>5
  <2> QED
    BY <2>1, <2>2, StepShape DEF FirstSubmit
<1> QED
  BY <1>1, <1>2, Invariance, PTL DEF Spec

\* The order manager implements the order lifecycle: every step moves the
\* durable phase of one order forward, submits one routed order for the first
\* time, or changes neither.
THEOREM Refinement == Spec => ImplementsLifecycle
<1>1. Init => Lifecycle!Init
  BY DEF Init, Lifecycle!Init, LedgerState, PhaseOf
<1>2. Inv /\ [Next]_vars => [Lifecycle!Next]_(Lifecycle!vars)
  <2> SUFFICES ASSUME Inv, [Next]_vars PROVE [Lifecycle!Next]_(Lifecycle!vars)
    OBVIOUS
  <2> DEFINE phase == [o \in Orders |-> PhaseOf(LedgerState(o))]
             exposed == {o \in Orders : submits[o] > 0}
  <2>1. CASE log' = log /\ submits' = submits
    BY <2>1 DEF Lifecycle!vars, LedgerState
  <2>2. ASSUME NEW o \in Orders, NEW t \in RowTypes, LedgerMove(o, t)
        PROVE  [Lifecycle!Next]_(Lifecycle!vars)
    <3>1. /\ \A p \in Orders \ {o} : LedgerState(p)' = LedgerState(p)
          /\ LedgerState(o)' = RowState(t)
      BY <2>2, LedgerMoveFacts
    <3>2. exposed' = exposed
      BY <2>2 DEF LedgerMove
    <3>3. phase' = [phase EXCEPT ![o] = PhaseOf(RowState(t))]
      BY <3>1
    <3>4. \/ PhaseOf(RowState(t)) = phase[o]
          \/ <<phase[o], PhaseOf(RowState(t))>> \in Lifecycle!Forward
      <4>1. phase[o] = PhaseOf(LedgerState(o))
        OBVIOUS
      <4>2. CASE t = "created" /\ log[o] = <<>>
        BY <4>1, <4>2 DEF LedgerState, PhaseOf, RowState, Lifecycle!Forward
      <4>3. CASE t = "ack_ambiguous" /\ LedgerState(o) = "routed"
        BY <4>1, <4>3 DEF PhaseOf, RowState
      <4>4. ASSUME NEW s \in OrderStates, Agree(s, LedgerState(o)), s # t,
                   <<s, t>> \in AllowedTransitions
            PROVE  \/ PhaseOf(RowState(t)) = phase[o]
                   \/ <<phase[o], PhaseOf(RowState(t))>> \in Lifecycle!Forward
        <5>1. phase[o] = PhaseOf(s)
          BY <4>1, <4>4 DEF Agree, PhaseOf
        <5>2. RowState(t) = t
          BY <4>4, TransitionRank, RankFacts
        <5>3. PhaseOf(t) = PhaseOf(s) \/ <<PhaseOf(s), PhaseOf(t)>> \in Lifecycle!Forward
          BY <4>4 DEF AllowedTransitions, Terminal, PhaseOf, Lifecycle!Forward
        <5> QED
          BY <5>1, <5>2, <5>3
      <4> QED
        BY <2>2, <4>2, <4>3, <4>4 DEF LedgerMove
    <3>5. PhaseOf(RowState(t)) \in Lifecycle!Phases
      BY DEF PhaseOf, RowState, RowTypes, OrderStates, Terminal, Lifecycle!Phases
    <3>6. CASE PhaseOf(RowState(t)) = phase[o]
      BY <3>2, <3>3, <3>6 DEF Lifecycle!vars
    <3>7. CASE <<phase[o], PhaseOf(RowState(t))>> \in Lifecycle!Forward
      <4>1. Lifecycle!Advance(o)
        BY <3>2, <3>3, <3>5, <3>7 DEF Lifecycle!Advance
      <4> QED
        BY <4>1 DEF Lifecycle!Next
    <3> QED
      BY <3>4, <3>6, <3>7
  <2>3. ASSUME NEW o \in Orders, FirstSubmit(o)
        PROVE  [Lifecycle!Next]_(Lifecycle!vars)
    <3>1. phase' = phase /\ phase[o] = "routed"
      BY <2>3 DEF FirstSubmit, LedgerState, PhaseOf, Terminal
    <3>2. exposed' = exposed \cup {o} /\ o \notin exposed
      BY <2>3 DEF FirstSubmit, Inv, TypeOK
    <3>3. Lifecycle!Expose(o)
      BY <3>1, <3>2 DEF Lifecycle!Expose
    <3> QED
      BY <3>3 DEF Lifecycle!Next
  <2> QED
    BY <2>1, <2>2, <2>3, StepShape
<1> QED
  BY <1>1, <1>2, Invariance, PTL DEF Spec, Lifecycle!Spec, ImplementsLifecycle

-----------------------------------------------------------------------------
(* The ambiguity marker.                                                   *)

\* The call that is about to write a marker holds the order as ambiguous; the
\* call that is about to drop an order has moved it out of "routed".
AmbiguousCalls ==
    /\ pc.at = "record_ambiguous" => pc.order \in ambiguous
    /\ pc.at = "clear_ambiguous" \/ (pc.at = "publish" /\ pc.next = "clear_ambiguous")
          => orders[pc.order] # "routed"

AmbiguityInv == AmbiguityIsDurable /\ AmbiguousCalls

\* A transition to "routed" starts from an order that has no marker yet.
LEMMA TransitionAmbiguity ==
    ASSUME Inv, AmbiguityInv, proc = "up", NEW o \in Orders, NEW new,
           NEW n \in Continuations, NEW f \in Fills \cup {NoFill}, Transition(o, new, n, f),
           n = "clear_ambiguous" => new # "routed", UNCHANGED <<proc, ambiguous>>
    PROVE  AmbiguityInv'
<1>1. /\ new \in OrderStates /\ pc' = Publishing(o, new, n, f) /\ orders'[o] = new
      /\ \A p \in Orders \ {o} : orders'[p] = orders[p] /\ log'[p] = log[p]
  BY TransitionFacts DEF Inv
<1>2. AmbiguousCalls'
  BY <1>1 DEF AmbiguousCalls, Publishing
<1>3. ASSUME NEW p \in Orders, orders'[p] = "routed", "ack_ambiguous" \in Rows(p)'
      PROVE  p \in ambiguous
  <2>1. CASE p # o \/ (log' = log /\ orders' = orders)
    <3>1. orders[p] = "routed" /\ log'[p] = log[p]
      BY <1>1, <1>3, <2>1
    <3>2. "ack_ambiguous" \in Rows(p)
      BY <1>3, <3>1 DEF Rows
    <3> QED
      BY <3>1, <3>2 DEF AmbiguityInv, AmbiguityIsDurable
  <2>2. CASE p = o /\ ~ (log' = log /\ orders' = orders)
    <3>1. new = "routed" /\ <<orders[o], "routed">> \in AllowedTransitions /\ AppendRow(o, "routed")
      BY <1>1, <1>3, <2>2 DEF Transition
    <3>2. orders[o] = "risk_approved"
      BY <3>1 DEF AllowedTransitions, Terminal
    <3>3. LedgerState(o) = "risk_approved"
      BY <3>2 DEF Inv, ProjectionMatchesLedger, Agree
    <3>4. "ack_ambiguous" \notin Rows(o)
      BY <3>3 DEF Inv, RowsAscend, Rank
    <3>5. Rows(o)' = Rows(o) \cup {"routed"}
      BY <3>1, AppendRowFacts DEF Inv, TypeOK, RowTypes, OrderStates
    <3> QED
      BY <1>3, <2>2, <3>4, <3>5
  <2> QED
    BY <2>1, <2>2
<1> QED
  BY <1>2, <1>3 DEF AmbiguityInv, AmbiguityIsDurable

\* Every step keeps an ambiguous order's row.
LEMMA NextAmbiguity == Inv /\ AmbiguityInv /\ [Next]_vars => AmbiguityInv'
<1> SUFFICES ASSUME Inv, AmbiguityInv, [Next]_vars PROVE AmbiguityInv'
  OBVIOUS
\* Neither the rows and states of the orders nor the ambiguous ones change.
<1>1. ASSUME UNCHANGED <<log, orders, ambiguous>>, proc' = "up" => proc = "up", AmbiguousCalls'
      PROVE  AmbiguityInv'
  <2>1. \A o \in Orders : Rows(o)' = Rows(o)
    BY <1>1 DEF Rows
  <2> QED
    BY <1>1, <2>1 DEF AmbiguityInv, AmbiguityIsDurable
<1>2. ASSUME NEW o \in Orders, Create(o) PROVE AmbiguityInv'
  <2>1. proc = "up" /\ UNCHANGED <<proc, ambiguous>>
    BY <1>2 DEF Create, Ready
  <2>2. PICK prior : pc' = Publishing(prior, "created", "idle", NoFill)
    BY <1>2 DEF Create
  <2>3. AmbiguousCalls'
    BY <2>2 DEF AmbiguousCalls, Publishing
  <2>4. CASE UNCHANGED <<log, orders>>
    BY <1>1, <2>1, <2>3, <2>4
  <2>5. CASE AppendRow(o, "created") /\ orders' = [orders EXCEPT ![o] = "created"]
    <3>1. ASSUME NEW p \in Orders, orders'[p] = "routed", "ack_ambiguous" \in Rows(p)' PROVE p \in ambiguous
      <4>1. p # o /\ orders[p] = "routed"
        BY <2>5, <3>1 DEF Inv, TypeOK
      <4>2. log'[p] = log[p]
        BY <2>5, <4>1 DEF AppendRow, Inv, TypeOK
      <4>3. "ack_ambiguous" \in Rows(p)
        BY <3>1, <4>2 DEF Rows
      <4> QED
        BY <2>1, <4>1, <4>3 DEF AmbiguityInv, AmbiguityIsDurable
    <3> QED
      BY <2>1, <2>3, <3>1 DEF AmbiguityInv, AmbiguityIsDurable
  <2> QED
    BY <1>2, <2>4, <2>5 DEF Create
<1>3. ASSUME NEW o \in Orders, Call(o), ~ Create(o) PROVE AmbiguityInv'
  <2>1. VenueAnswer(o) \in {"acknowledged", "rejected"}
    BY DEF VenueAnswer
  <2>2. PICK new, n : /\ Transition(o, new, n, NoFill) /\ Ready /\ UNCHANGED <<proc, ambiguous>>
                      /\ n \in Continuations /\ (n = "clear_ambiguous" => new # "routed")
    BY <1>3, <2>1 DEF Call, Move, ApproveRisk, RejectByRisk, Route, ReconcileAmbiguous, Continuations,
       ReconcileRouted, ExpireUnacknowledged, Cancel, AcknowledgeCancel, Reconcile
  <2> QED
    BY <2>2, TransitionAmbiguity DEF Ready
<1>4. CASE Acknowledge \/ FillTransition
  <2>1. proc = "up" /\ pc.order \in Orders /\ pc.fill \in Fills \cup {NoFill} /\ UNCHANGED <<proc, ambiguous>>
    BY <1>4, InCall DEF Acknowledge, FillTransition, Steps, Inv, TypeOK, Frames, Idle
  <2>2. PICK new, n : /\ Transition(pc.order, new, n, IF n = "idle" THEN NoFill ELSE pc.fill)
                      /\ n \in {"idle", "fill_publish"}
    BY <1>4 DEF Acknowledge, FillTransition
  <2>3. n \in Continuations /\ n # "clear_ambiguous"
    BY <2>2 DEF Continuations
  <2> QED
    BY <2>1, <2>2, <2>3, TransitionAmbiguity
<1>5. CASE RecordAmbiguous
  <2>1. pc.at = "record_ambiguous" /\ AppendRow(pc.order, "ack_ambiguous") /\ UNCHANGED <<proc, orders, ambiguous>>
    BY <1>5 DEF RecordAmbiguous, memory
  <2>2. proc = "up" /\ pc.order \in Orders /\ pc.order \in ambiguous
    BY <2>1, InCall DEF Steps, AmbiguityInv, AmbiguousCalls
  <2>3. AmbiguousCalls'
    BY <1>5 DEF RecordAmbiguous, AmbiguousCalls, Publishing
  <2>4. ASSUME NEW p \in Orders, orders'[p] = "routed", "ack_ambiguous" \in Rows(p)' PROVE p \in ambiguous
    <3>1. CASE p # pc.order
      <4>1. log'[p] = log[p]
        BY <2>1, <2>2, <3>1 DEF AppendRow, Inv, TypeOK
      <4>2. "ack_ambiguous" \in Rows(p)
        BY <2>4, <4>1 DEF Rows
      <4> QED
        BY <2>1, <2>2, <2>4, <4>2 DEF AmbiguityInv, AmbiguityIsDurable
    <3> QED
      BY <2>2, <3>1
  <2> QED
    BY <2>1, <2>3, <2>4 DEF AmbiguityInv, AmbiguityIsDurable
<1>6. CASE Submit
  <2>1. /\ ambiguous \subseteq ambiguous' /\ UNCHANGED <<log, orders, proc>>
        /\ pc'.at = "record_ambiguous" => pc'.order = pc.order /\ pc.order \in ambiguous'
        /\ pc'.at \in {"acknowledge", "record_ambiguous", "idle"}
    <3>1. pc \in Frames /\ UNCHANGED <<log, orders, proc>>
      BY <1>6, InCall DEF Submit, durable, Steps
    <3>2. \/ ambiguous' = ambiguous
             /\ pc' \in {[pc EXCEPT !.at = "acknowledge", !.type = "acknowledged"],
                       [pc EXCEPT !.at = "acknowledge", !.type = "rejected"], Idle}
          \/ ambiguous' = ambiguous \cup {pc.order}
             /\ pc' = [pc EXCEPT !.at = "record_ambiguous", !.type = "ack_ambiguous"]
      BY <1>6 DEF Submit
    <3>3. /\ [pc EXCEPT !.at = "acknowledge", !.type = "acknowledged"].at = "acknowledge"
          /\ [pc EXCEPT !.at = "acknowledge", !.type = "rejected"].at = "acknowledge"
          /\ [pc EXCEPT !.at = "record_ambiguous", !.type = "ack_ambiguous"].at = "record_ambiguous"
          /\ [pc EXCEPT !.at = "record_ambiguous", !.type = "ack_ambiguous"].order = pc.order
          /\ Idle.at = "idle"
      BY <3>1 DEF Frames, Idle
    <3>4. CASE ambiguous' = ambiguous
      BY <3>1, <3>2, <3>3, <3>4
    <3>5. CASE ambiguous' # ambiguous
      BY <3>1, <3>2, <3>3, <3>5
    <3> QED
      BY <3>4, <3>5
  <2>2. AmbiguousCalls'
    BY <2>1 DEF AmbiguousCalls
  <2>3. \A o \in Orders : Rows(o)' = Rows(o)
    BY <2>1 DEF Rows
  <2> QED
    BY <2>1, <2>2, <2>3 DEF AmbiguityInv, AmbiguityIsDurable
<1>7. CASE ClearAmbiguous
  <2>1. /\ pc.at = "clear_ambiguous" /\ ambiguous' = ambiguous \ {pc.order} /\ UNCHANGED <<log, orders, proc>>
        /\ pc' = Idle
    BY <1>7 DEF ClearAmbiguous, durable
  <2>2. orders[pc.order] # "routed"
    BY <2>1 DEF AmbiguityInv, AmbiguousCalls
  <2>3. \A o \in Orders : Rows(o)' = Rows(o)
    BY <2>1 DEF Rows
  <2> QED
    BY <2>1, <2>2, <2>3 DEF AmbiguityInv, AmbiguityIsDurable, AmbiguousCalls, Idle
<1>8. CASE Publish
  <2>1. /\ pc.at = "publish" /\ UNCHANGED <<log, proc, orders, ambiguous>>
        /\ pc' = IF pc.next = "idle" THEN Idle ELSE [pc EXCEPT !.at = pc.next]
    BY <1>8 DEF Publish, Continue, memory
  <2>2. pc \in Frames
    BY <2>1 DEF Inv, TypeOK, Idle
  <2>3. AmbiguousCalls'
    BY <2>1, <2>2 DEF AmbiguityInv, AmbiguousCalls, Frames, Continuations, Idle
  <2> QED
    BY <1>1, <2>1, <2>3
<1>9. CASE VenueCancel \/ FillPublish \/ Raise \/ Crash \/ HydrateRaises
  <2>1. CASE VenueCancel \/ FillPublish \/ Raise
    <3>1. UNCHANGED <<log, proc, orders, ambiguous>> /\ pc' = Idle
      BY <2>1 DEF VenueCancel, FillPublish, Raise, durable, memory
    <3> QED
      BY <1>1, <3>1 DEF AmbiguousCalls, Idle
  <2>2. CASE Crash
    BY <2>2 DEF Crash, AmbiguityInv, AmbiguityIsDurable, AmbiguousCalls, Idle
  <2>3. CASE HydrateRaises
    <3>1. UNCHANGED <<log, orders, ambiguous, pc>> /\ proc' # "up"
      BY <2>3 DEF HydrateRaises, durable, memory
    <3> QED
      BY <1>1, <3>1 DEF AmbiguityInv, AmbiguousCalls
  <2> QED
    BY <1>9, <2>1, <2>2, <2>3
\* An order the ledger says is routed has no acknowledged row, so its marker counts.
<1>10. CASE Hydrate
  <2>1. proc = "down" /\ pc' = pc /\ orders' = [o \in Orders |-> LedgerState(o)]
        /\ ambiguous' = HydratedAmbiguous /\ log' = log
    BY <1>10 DEF Hydrate, durable
  <2>2. pc = Idle
    BY <2>1 DEF Inv, CallsOK
  <2>3. ASSUME NEW o \in Orders, LedgerState(o) = "routed", "ack_ambiguous" \in Rows(o)
        PROVE  o \in HydratedAmbiguous
    <3>1. "acknowledged" \notin Rows(o)
      BY <2>3 DEF Inv, RowsAscend, Rank
    <3>2. Len(log[o]) \in Nat
      BY DEF Inv, TypeOK
    <3>3. PICK i \in 1..Len(log[o]) : log[o][i] = "ack_ambiguous"
      BY <2>3 DEF Rows
    <3>4. \A j \in (i + 1)..Len(log[o]) : j \in 1..Len(log[o])
      BY <3>2
    <3>5. \A j \in 1..Len(log[o]) : log[o][j] # "acknowledged"
      BY <3>1 DEF Rows
    <3> QED
      BY <3>3, <3>4, <3>5 DEF HydratedAmbiguous
  <2>4. \A o \in Orders : Rows(o)' = Rows(o)
    BY <2>1 DEF Rows
  <2> QED
    BY <2>1, <2>2, <2>3, <2>4 DEF AmbiguityInv, AmbiguityIsDurable, AmbiguousCalls, Idle
<1>11. CASE (\E o \in Orders : VenueCloses(o)) \/ (\E f \in Fills : RecordFill(f)) \/ UNCHANGED vars
  <2>1. UNCHANGED <<log, orders, ambiguous, proc>>
    BY <1>11 DEF VenueCloses, RecordFill, durable, memory, vars
  <2>2. pc' = pc \/ pc'.at = "fill_transition"
    BY <1>11 DEF VenueCloses, RecordFill, vars
  <2>3. AmbiguousCalls'
    BY <2>1, <2>2 DEF AmbiguityInv, AmbiguousCalls
  <2> QED
    BY <1>1, <2>1, <2>3
<1>12. ASSUME NEW o \in Orders, Call(o) PROVE AmbiguityInv'
  BY <1>2, <1>3, <1>12
<1>13. CASE InFlight
  BY <1>4, <1>5, <1>6, <1>7, <1>8, <1>9, <1>13 DEF InFlight
<1> QED
  BY <1>9, <1>10, <1>11, <1>12, <1>13 DEF Next

\* An order whose acknowledgement is in doubt stays held as ambiguous, so that route
\* refuses it, until a reconciliation moves it on: in every run, however often the
\* process crashes and hydrates.
THEOREM AmbiguityDurable == Spec => []AmbiguityIsDurable
<1>1. Init => AmbiguityInv
  BY DEF Init, AmbiguityInv, AmbiguityIsDurable, AmbiguousCalls, Idle
<1>2. Inv /\ AmbiguityInv /\ [Next]_vars => AmbiguityInv'
  BY NextAmbiguity
<1>3. AmbiguityInv => AmbiguityIsDurable
  BY DEF AmbiguityInv
<1> QED
  BY <1>1, <1>2, <1>3, Invariance, PTL DEF Spec

-----------------------------------------------------------------------------
(* The fills.                                                              *)

\* A row of type t of order o is backed by the durable fills.
Earned(o, t) ==
    /\ t = "filled" => Filled(fillLog, o) = Quantity[o]
    /\ t = "partially_filled" => \E f \in fillLog : f.order = o

\* While the process is up it knows the durable fills, and the transition a
\* fill is about to make is one they have earned.
FillCalls ==
    /\ proc = "up" => fills = fillLog
    /\ IsFiniteSet(fillLog)
    /\ pc.at = "acknowledge" => pc.type \in {"acknowledged", "rejected"}
    /\ pc.at = "fill_transition" => Earned(pc.order, pc.type)

FillsCounted ==
    /\ \A f, g \in fillLog : f.id = g.id => f = g
    /\ \A o \in Orders : Filled(fillLog, o) <= Quantity[o]

RowsEarned == \A o \in Orders : \A t \in Rows(o) : Earned(o, t)

FillInv == FillCalls /\ FillsCounted /\ RowsEarned

\* The invariant accounts for every fill.
LEMMA FillInvSuffices == FillInv => FillsAccountedFor
BY DEF FillInv, FillsCounted, RowsEarned, Earned, FillsAccountedFor

\* The quantity filled is an integer.
LEMMA FilledIsInt ==
    ASSUME NEW S \in SUBSET Fills, IsFiniteSet(S), NEW o \in Orders
    PROVE  Filled(S, o) \in Int
<1> DEFINE of == {g \in S : g.order = o}
           q == [g \in S |-> g.quantity]
<1>1. IsFiniteSet(of) /\ of \subseteq S
  BY FS_Subset
<1>2. \A g \in of : q[g] \in Int
  BY FillAssumption
<1> HIDE DEF of, q
<1>3. SumFunctionOnSet(q, of) \in Int
  BY <1>1, <1>2, SumIsInt
<1> QED
  BY <1>3 DEF Filled, of, q

\* A fill adds to the quantity of its own order only.
LEMMA FilledAdds ==
    ASSUME NEW S \in SUBSET Fills, IsFiniteSet(S), NEW f \in Fills, f \notin S, NEW o \in Orders
    PROVE  Filled(S \cup {f}, o) = Filled(S, o) + (IF f.order = o THEN f.quantity ELSE 0)
<1> DEFINE of(T) == {g \in T : g.order = o}
           q == [g \in S |-> g.quantity]
           r == [g \in S \cup {f} |-> g.quantity]
<1>1. /\ IsFiniteSet(of(S)) /\ of(S) \subseteq S /\ f \notin of(S)
  BY FS_Subset
<1>2. /\ \A g \in of(S) : q[g] \in Int /\ q[g] = r[g]
      /\ \A g \in of(S) \cup {f} : r[g] \in Int
      /\ r[f] = f.quantity /\ f.quantity \in Int
  <2>1. \A g \in S \cup {f} : g \in Fills /\ g.quantity \in Int /\ r[g] = g.quantity
    BY FillAssumption
  <2>2. \A g \in S : q[g] = g.quantity
    OBVIOUS
  <2> QED
    BY <1>1, <2>1, <2>2
<1>3. of(S \cup {f}) = IF f.order = o THEN of(S) \cup {f} ELSE of(S)
  OBVIOUS
<1>4. Filled(S, o) = SumFunctionOnSet(q, of(S)) /\ Filled(S \cup {f}, o) = SumFunctionOnSet(r, of(S \cup {f}))
  BY DEF Filled
<1> HIDE DEF q, r, of
<1>5. SumFunctionOnSet(q, of(S)) = SumFunctionOnSet(r, of(S)) /\ SumFunctionOnSet(q, of(S)) \in Int
  BY <1>1, <1>2, SumAgrees, SumIsInt
<1>6. SumFunctionOnSet(r, of(S) \cup {f}) = SumFunctionOnSet(r, of(S)) + r[f]
  BY <1>1, <1>2, SumAdd
<1>7. CASE f.order = o
  BY <1>2, <1>3, <1>4, <1>5, <1>6, <1>7
<1>8. CASE f.order # o
  BY <1>2, <1>3, <1>4, <1>5, <1>8
<1> QED
  BY <1>7, <1>8

\* Steps that leave the fills alone and append at most rows they have earned.
LEMMA RowsStayEarned ==
    ASSUME FillInv, UNCHANGED fillLog, proc' = "up" => fills' = fillLog,
           \A o \in Orders : \A t \in Rows(o)' : t \in Rows(o) \/ Earned(o, t),
           pc'.at = "acknowledge" => pc'.type \in {"acknowledged", "rejected"},
           pc'.at # "fill_transition"
    PROVE  FillInv'
<1>1. \A o, t : Earned(o, t)' <=> Earned(o, t)
  BY DEF Earned, Filled
<1>2. \A o : Filled(fillLog', o) = Filled(fillLog, o)
  BY DEF Filled
<1>3. RowsEarned'
  BY <1>1 DEF FillInv, RowsEarned
<1>4. FillsCounted'
  BY <1>2 DEF FillInv, FillsCounted
<1>5. FillCalls'
  BY DEF FillInv, FillCalls
<1> QED
  BY <1>3, <1>4, <1>5 DEF FillInv

\* A transition the fills have earned, or one they need not earn.
LEMMA TransitionEarned ==
    ASSUME Inv, FillInv, proc = "up", NEW o \in Orders, NEW new,
           NEW n \in Continuations, NEW f \in Fills \cup {NoFill}, Transition(o, new, n, f),
           Earned(o, new), UNCHANGED <<proc, fills, fillLog>>
    PROVE  FillInv'
<1>1. /\ new \in OrderStates /\ pc' = Publishing(o, new, n, f)
      /\ \A p \in Orders \ {o} : log'[p] = log[p]
  BY TransitionFacts DEF Inv
<1>2. pc'.at = "publish"
  BY <1>1 DEF Publishing
<1>3. \A p \in Orders \ {o} : Rows(p)' = Rows(p)
  BY <1>1 DEF Rows
<1>4. Rows(o)' \subseteq Rows(o) \cup {new}
  <2>1. CASE UNCHANGED log
    BY <2>1 DEF Rows
  <2>2. CASE AppendRow(o, new)
    BY <1>1, <2>2, AppendRowFacts DEF Inv, TypeOK, RowTypes
  <2> QED
    BY <2>1, <2>2 DEF Transition
<1>5. proc' = "up" => fills' = fillLog
  BY DEF FillInv, FillCalls
<1> QED
  BY <1>2, <1>3, <1>4, <1>5, RowsStayEarned

\* record_fill: the check of the quantity keeps the fills within the order, a fill
\* that is known is not booked again, and a full order takes no further fill.
LEMMA RecordFillEarns ==
    ASSUME Inv, FillInv, NEW f \in Fills, RecordFill(f)
    PROVE  FillInv'
<1> DEFINE o == f.order
           total == Filled(fills, o) + (IF \E g \in fills : g.id = f.id THEN 0 ELSE f.quantity)
<1>1. /\ o \in Orders /\ Quantity[o] \in Nat /\ f.quantity \in Nat /\ f.quantity > 0
      /\ proc = "up" /\ fills = fillLog /\ fillLog \subseteq Fills /\ IsFiniteSet(fillLog)
  BY FillAssumption, OrderAssumption DEF RecordFill, Ready, FillInv, FillCalls, Inv, TypeOK
<1>2. /\ pc'.at = "fill_transition" /\ pc'.order = o /\ pc'.type = FillTarget(f)
      /\ UNCHANGED <<log, proc>> /\ FillTarget(f) # "overrun"
  BY DEF RecordFill
<1>3. \A p \in Orders : Filled(fillLog, p) \in Int
  BY <1>1, FilledIsInt
<1>4. /\ FillTarget(f) = "filled" => total = Quantity[o]
      /\ total <= Quantity[o]
  <2>1. FillTarget(f) = CASE total = Quantity[o] -> "filled"
                          [] total < Quantity[o] -> "partially_filled"
                          [] OTHER -> "overrun"
    BY DEF FillTarget
  <2>2. total \in Int
    BY <1>1, <1>3
  <2> HIDE DEF total
  <2>3. total = Quantity[o] \/ total < Quantity[o]
    BY <1>2, <2>1
  <2> QED
    BY <1>1, <2>1, <2>2, <2>3
<1>5. \A p \in Orders : Rows(p)' = Rows(p)
  BY <1>2 DEF Rows
<1>6. CASE (\E g \in fills : g.id = f.id) /\ UNCHANGED <<fills, fillLog>>
  <2>1. PICK g \in fillLog : g.id = f.id
    BY <1>1, <1>6
  <2>2. g.order = o
    BY <1>1, <2>1 DEF RecordFill, SameFill
  <2>3. total = Filled(fillLog, o)
    BY <1>1, <1>3, <1>6
  <2>4. Earned(o, FillTarget(f))
    BY <1>4, <2>1, <2>2, <2>3 DEF Earned
  <2>5. \A p, t : Earned(p, t)' <=> Earned(p, t)
    BY <1>6 DEF Earned, Filled
  <2>6. FillCalls'
    BY <1>1, <1>2, <1>6, <2>4, <2>5 DEF FillCalls
  <2>7. RowsEarned'
    BY <1>5, <2>5 DEF FillInv, RowsEarned
  <2>8. FillsCounted'
    BY <1>6 DEF FillInv, FillsCounted, Filled
  <2> QED
    BY <2>6, <2>7, <2>8 DEF FillInv
<1>7. CASE (\A g \in fills : g.id # f.id) /\ fills' = fills \cup {f} /\ fillLog' = fillLog \cup {f}
  <2>1. f \notin fillLog /\ total = Filled(fillLog, o) + f.quantity
    BY <1>1, <1>7
  <2>2. \A p \in Orders : Filled(fillLog', p) = Filled(fillLog, p) + (IF o = p THEN f.quantity ELSE 0)
    BY <1>1, <1>7, <2>1, FilledAdds
  <2>3. Filled(fillLog', o) = total /\ \A p \in Orders \ {o} : Filled(fillLog', p) = Filled(fillLog, p)
    BY <1>1, <1>3, <2>1, <2>2
  <2> HIDE DEF total
  <2>4. PICK target : target = FillTarget(f)
    OBVIOUS
  <2>5. FillCalls'
    <3>1. IsFiniteSet(fillLog')
      BY <1>1, <1>7, FS_AddElement
    <3>2. Earned(o, target)'
      BY <1>1, <1>2, <1>4, <1>7, <2>3, <2>4 DEF Earned
    <3>3. pc'.at # "acknowledge" /\ Earned(pc.order, pc.type)'
      BY <1>2, <2>4, <3>2 DEF Earned
    <3> QED
      BY <1>1, <1>7, <3>1, <3>3 DEF FillCalls
  <2>6. FillsCounted'
    <3>1. \A g, h \in fillLog' : g.id = h.id => g = h
      BY <1>1, <1>7 DEF FillInv, FillsCounted
    <3>2. \A p \in Orders : Filled(fillLog', p) <= Quantity[p]
      BY <1>4, <2>3 DEF FillInv, FillsCounted
    <3> QED
      BY <3>1, <3>2 DEF FillsCounted
\* A filled order has no room for this fill, so no earlier row loses its backing.
  <2>7. RowsEarned'
    <3>1. Filled(fillLog, o) # Quantity[o]
      BY <1>1, <1>3, <1>4, <2>1 DEF total
    <3>2. ASSUME NEW p \in Orders, NEW t \in Rows(p) PROVE Earned(p, t)'
      <4>1. Earned(p, t)
        BY <3>2 DEF FillInv, RowsEarned
      <4>2. CASE p # o
        BY <1>7, <2>3, <4>1, <4>2 DEF Earned
      <4>3. CASE p = o
        BY <1>7, <3>1, <4>1, <4>3 DEF Earned
      <4> QED
        BY <4>2, <4>3
    <3> QED
      BY <1>5, <3>2 DEF RowsEarned
  <2> QED
    BY <2>5, <2>6, <2>7 DEF FillInv
<1> QED
  BY <1>6, <1>7 DEF RecordFill

\* Every step keeps the account of the fills.
LEMMA NextFills == Inv /\ FillInv /\ [Next]_vars => FillInv'
<1> SUFFICES ASSUME Inv, FillInv, [Next]_vars PROVE FillInv'
  OBVIOUS
\* The rows and the fills stay as they are.
<1>1. ASSUME UNCHANGED <<log, fillLog>>, proc' = "up" => fills' = fillLog,
             pc'.at = "acknowledge" => pc'.type \in {"acknowledged", "rejected"},
             pc'.at # "fill_transition"
      PROVE  FillInv'
  <2>1. \A o \in Orders : Rows(o)' = Rows(o)
    BY <1>1 DEF Rows
  <2> QED
    BY <1>1, <2>1, RowsStayEarned
<1>2. proc = "up" => fills = fillLog
  BY DEF FillInv, FillCalls
<1>3. ASSUME NEW o \in Orders, Create(o) PROVE FillInv'
  <2>1. proc = "up" /\ UNCHANGED <<proc, fills, fillLog>>
    BY <1>3 DEF Create, Ready
  <2>2. PICK prior : pc' = Publishing(prior, "created", "idle", NoFill)
    BY <1>3 DEF Create
  <2>3. pc'.at = "publish"
    BY <2>2 DEF Publishing
  <2>4. CASE UNCHANGED log
    BY <1>1, <1>2, <2>1, <2>3, <2>4
  <2>5. CASE AppendRow(o, "created")
    <3>1. /\ \A p \in Orders \ {o} : log'[p] = log[p]
          /\ Rows(o)' = Rows(o) \cup {"created"}
      BY <2>5, AppendRowFacts DEF Inv, TypeOK, RowTypes, OrderStates
    <3>2. \A p \in Orders : \A t \in Rows(p)' : t \in Rows(p) \/ Earned(p, t)
      <4>1. \A p \in Orders \ {o} : Rows(p)' = Rows(p)
        BY <3>1 DEF Rows
      <4>2. Earned(o, "created")
        BY DEF Earned
      <4> QED
        BY <3>1, <4>1, <4>2
    <3> QED
      BY <1>2, <2>1, <2>3, <3>2, RowsStayEarned
  <2> QED
    BY <1>3, <2>4, <2>5 DEF Create
<1>4. ASSUME NEW o \in Orders, Call(o), ~ Create(o) PROVE FillInv'
  <2>1. VenueAnswer(o) \in {"acknowledged", "rejected"}
    BY DEF VenueAnswer
  <2>2. PICK new, n : /\ Transition(o, new, n, NoFill) /\ Ready /\ UNCHANGED <<proc, fills, fillLog>>
                      /\ n \in Continuations /\ new \notin {"filled", "partially_filled"}
    BY <1>4, <2>1 DEF Call, Move, ApproveRisk, RejectByRisk, Route, ReconcileAmbiguous, Continuations,
       ReconcileRouted, ExpireUnacknowledged, Cancel, AcknowledgeCancel, Reconcile
  <2>3. Earned(o, new)
    BY <2>2 DEF Earned
  <2> QED
    BY <2>2, <2>3, TransitionEarned DEF Ready
<1>5. CASE Acknowledge \/ FillTransition
  <2>1. proc = "up" /\ pc.order \in Orders /\ pc.fill \in Fills \cup {NoFill} /\ UNCHANGED <<proc, fills, fillLog>>
    BY <1>5, InCall DEF Acknowledge, FillTransition, Steps, Inv, TypeOK, Frames, Idle
  <2>2. PICK n \in Continuations : Transition(pc.order, pc.type, n, IF n = "idle" THEN NoFill ELSE pc.fill)
    BY <1>5 DEF Acknowledge, FillTransition, Continuations
  <2>3. Earned(pc.order, pc.type)
    BY <1>5 DEF Acknowledge, FillTransition, FillInv, FillCalls, Earned
  <2> QED
    BY <2>1, <2>2, <2>3, TransitionEarned
<1>6. CASE RecordAmbiguous
  <2>1. /\ pc.at = "record_ambiguous" /\ AppendRow(pc.order, "ack_ambiguous")
        /\ UNCHANGED <<proc, fills, fillLog>> /\ pc'.at = "publish"
    BY <1>6 DEF RecordAmbiguous, memory, Publishing
  <2>2. proc = "up" /\ pc.order \in Orders
    BY <2>1, InCall DEF Steps
  <2>3. PICK o \in Orders : o = pc.order
    BY <2>2
  <2>4. /\ \A p \in Orders \ {o} : log'[p] = log[p]
        /\ Rows(o)' = Rows(o) \cup {"ack_ambiguous"}
    BY <2>1, <2>3, AppendRowFacts DEF Inv, TypeOK, RowTypes
  <2>5. \A p \in Orders : \A t \in Rows(p)' : t \in Rows(p) \/ Earned(p, t)
    <3>1. \A p \in Orders \ {o} : Rows(p)' = Rows(p)
      BY <2>4 DEF Rows
    <3>2. Earned(o, "ack_ambiguous")
      BY DEF Earned
    <3> QED
      BY <2>4, <3>1, <3>2
  <2> QED
    BY <1>2, <2>1, <2>5, RowsStayEarned
<1>7. CASE Submit
  <2>1. pc \in Frames /\ UNCHANGED <<log, fillLog, fills, proc>>
    BY <1>7, InCall DEF Submit, durable, Steps
  <2>2. pc' \in {[pc EXCEPT !.at = "acknowledge", !.type = "acknowledged"],
                [pc EXCEPT !.at = "acknowledge", !.type = "rejected"],
                [pc EXCEPT !.at = "record_ambiguous", !.type = "ack_ambiguous"], Idle}
    BY <1>7 DEF Submit
  <2>3. /\ [pc EXCEPT !.at = "acknowledge", !.type = "acknowledged"].at = "acknowledge"
        /\ [pc EXCEPT !.at = "acknowledge", !.type = "acknowledged"].type = "acknowledged"
        /\ [pc EXCEPT !.at = "acknowledge", !.type = "rejected"].at = "acknowledge"
        /\ [pc EXCEPT !.at = "acknowledge", !.type = "rejected"].type = "rejected"
        /\ [pc EXCEPT !.at = "record_ambiguous", !.type = "ack_ambiguous"].at = "record_ambiguous"
        /\ Idle.at = "idle"
    BY <2>1 DEF Frames, Idle
  <2>4. pc'.at # "fill_transition" /\ (pc'.at = "acknowledge" => pc'.type \in {"acknowledged", "rejected"})
    BY <2>2, <2>3
  <2> QED
    BY <1>1, <1>2, <2>1, <2>4
<1>8. CASE Publish
  <2>1. /\ pc.at = "publish" /\ UNCHANGED <<log, proc, fills, fillLog>>
        /\ pc' = IF pc.next = "idle" THEN Idle ELSE [pc EXCEPT !.at = pc.next]
    BY <1>8 DEF Publish, Continue, memory
  <2>2. pc \in Frames
    BY <2>1 DEF Inv, TypeOK, Idle
  <2>3. pc'.at \notin {"fill_transition", "acknowledge"}
    BY <2>1, <2>2 DEF Frames, Continuations, Idle
  <2> QED
    BY <1>1, <1>2, <2>1, <2>3
<1>9. CASE ClearAmbiguous \/ VenueCancel \/ FillPublish \/ Raise
  <2>1. UNCHANGED <<log, proc, fills, fillLog>> /\ pc' = Idle
    BY <1>9 DEF ClearAmbiguous, VenueCancel, FillPublish, Raise, durable, memory
  <2> QED
    BY <1>1, <1>2, <2>1 DEF Idle
<1>10. CASE Crash \/ Hydrate \/ HydrateRaises
  <2>1. pc' = Idle /\ UNCHANGED <<log, fillLog>> /\ (proc' = "up" => fills' = fillLog)
    BY <1>10 DEF Crash, Hydrate, HydrateRaises, durable, Inv, CallsOK
  <2> QED
    BY <1>1, <2>1 DEF Idle
<1>11. CASE (\E o \in Orders : VenueCloses(o)) \/ UNCHANGED vars
  <2>1. UNCHANGED <<log, proc, fills, fillLog, pc>>
    BY <1>11 DEF VenueCloses, durable, memory, vars
  <2>2. \A o \in Orders : Rows(o)' = Rows(o)
    BY <2>1 DEF Rows
  <2> QED
    BY <2>1, <2>2 DEF FillInv, FillCalls, FillsCounted, RowsEarned, Earned, Filled
<1>12. ASSUME NEW f \in Fills, RecordFill(f) PROVE FillInv'
  BY <1>12, RecordFillEarns
<1>13. ASSUME NEW o \in Orders, Call(o) PROVE FillInv'
  BY <1>3, <1>4, <1>13
<1>14. CASE InFlight
  BY <1>5, <1>6, <1>7, <1>8, <1>9, <1>14 DEF InFlight
<1> QED
  BY <1>10, <1>11, <1>12, <1>13, <1>14 DEF Next

\* In every run the durable fills of an order stay within its quantity, no venue fill
\* is booked twice, and the fill states in the ledger are backed by durable fills.
THEOREM FillsAccountedForTheorem == Spec => []FillsAccountedFor
<1>1. Init => FillInv
  <2> SUFFICES ASSUME Init PROVE FillInv
    OBVIOUS
  <2>1. /\ fillLog = {} /\ fills = {} /\ pc.at = "idle" /\ IsFiniteSet(fillLog)
        /\ \A o \in Orders : Rows(o) = {}
    BY FS_EmptySet DEF Init, Idle, Rows
  <2>2. \A o \in Orders : Filled(fillLog, o) <= Quantity[o]
    <3>1. ASSUME NEW o \in Orders PROVE Filled(fillLog, o) = 0
      <4>1. {f \in fillLog : f.order = o} = {}
        BY <2>1
      <4> QED
        BY <4>1, SumOfNone DEF Filled
    <3> QED
      BY <3>1, OrderAssumption
  <2> QED
    BY <2>1, <2>2 DEF FillInv, FillCalls, FillsCounted, RowsEarned
<1>2. Inv /\ FillInv /\ [Next]_vars => FillInv'
  BY NextFills
<1> QED
  BY <1>1, <1>2, FillInvSuffices, Invariance, PTL DEF Spec
=============================================================================
