------------------------------ MODULE Account ------------------------------
(***************************************************************************)
(* The paper account and its ledger: fills, funding, transfers, borrow,    *)
(* FX, corporate actions, splits, dividends, marks and margin applied to a *)
(* candidate, appended with the hash of the state they lead to, committed  *)
(* to memory and replayed by the next process.  One instrument; the code   *)
(* divides Decimals, the model only where no remainder is left.            *)
(***************************************************************************)
EXTENDS Integers, Sequences, FiniteSets

CONSTANTS
    Inputs,         \* the events that may be booked
    Writers,        \* processes that open the same account ledger
    StartingCash,   \* the opening balance every process is configured with
    MaxRows         \* bound on the rows of the ledger

\* a and b are quantity and price of a fill (quantity < 0: a sale, fee 1), the
\* ratio of a split, the cash per unit of a dividend, the price of a mark, the
\* amount of everything else.
Event(key, kind, a, b) == [key |-> key, kind |-> kind, a |-> a, b |-> b]
Kinds == {"fill", "funding", "borrow", "transfer", "fx", "corporate", "split", "dividend", "mark", "margin"}

ASSUME AccountConstants ==
    /\ StartingCash \in Nat /\ MaxRows \in Nat /\ Writers # {}
    /\ \A e \in Inputs : /\ e = Event(e.key, e.kind, e.a, e.b)
                         /\ e.kind \in Kinds /\ e.a \in Int /\ e.b \in Int
                         /\ e.kind = "split" => e.a > 0

VARIABLES
    accountRows,    \* the ACCOUNT namespace, in append order
    holder          \* [Writers -> [up, acct, applied]]: what each process holds in memory

accountVars == <<accountRows, holder>>

Opening == [cash |-> StartingCash, pos |-> 0, avg |-> 0, mark |-> 0, fees |-> 0, paid |-> 0,
            real |-> 0, adj |-> 0, moved |-> 0, daily |-> 0, margin |-> 0, peak |-> StartingCash]

Abs(n) == IF n < 0 THEN -n ELSE n
Sign(n) == IF n > 0 THEN 1 ELSE IF n < 0 THEN -1 ELSE 0
Equity(s) == s.cash + s.pos * s.mark
WithPeak(s) == [s EXCEPT !.peak = IF Equity(s) > @ THEN Equity(s) ELSE @]

\* The average cost after a fill: weighted when the position grows, that of the
\* fill when it crosses zero, unchanged while it only shrinks.
AverageNeverCrosses(s, q, p) ==
    IF s.pos + q = 0 THEN 0
    ELSE IF Sign(s.pos) * Sign(q) >= 0 THEN (s.avg * Abs(s.pos) + p * Abs(q)) \div (Abs(s.pos) + Abs(q))
    ELSE s.avg
Average(s, q, p) ==
    IF s.pos + q = 0 THEN 0
    ELSE IF Sign(s.pos) * Sign(q) >= 0 THEN (s.avg * Abs(s.pos) + p * Abs(q)) \div (Abs(s.pos) + Abs(q))
    ELSE IF Sign(s.pos) # Sign(s.pos + q) THEN p
    ELSE s.avg

\* The gain of the part of a fill that closes a position.
Realised(s, q, p) ==
    IF Sign(s.pos) * Sign(q) >= 0 THEN 0
    ELSE (p - s.avg) * Sign(s.pos) * (IF Abs(q) < Abs(s.pos) THEN Abs(q) ELSE Abs(s.pos))

FillApplied(s, e) ==
    LET gain == Realised(s, e.a, e.b)
    IN [s EXCEPT !.pos = @ + e.a, !.avg = Average(s, e.a, e.b), !.cash = @ - e.a * e.b - 1,
                 !.fees = @ + 1, !.real = @ + gain, !.daily = @ + gain - 1]

\* Funding and borrow are costs of the day; a transfer is not P&L at all.
CostApplied(s, e) == [s EXCEPT !.paid = @ + e.a, !.cash = @ - e.a, !.daily = @ - e.a]
TransferApplied(s, e) == [s EXCEPT !.cash = @ + e.a, !.moved = @ + e.a]
AdjustmentApplied(s, e) == [s EXCEPT !.adj = @ + e.a, !.cash = @ + e.a]
SplitApplied(s, e) == [s EXCEPT !.pos = @ * e.a, !.avg = @ \div e.a, !.mark = @ \div e.a]
DividendApplied(s, e) == [s EXCEPT !.adj = @ + s.pos * e.a, !.cash = @ + s.pos * e.a]
MarkApplied(s, e) == [s EXCEPT !.mark = e.a]
MarginApplied(s, e) == [s EXCEPT !.margin = e.a]

\* One account method; each of them ends with _update_peak_equity.
Applied(s, e) ==
    WithPeak(CASE e.kind = "fill" -> FillApplied(s, e)
               [] e.kind \in {"funding", "borrow"} -> CostApplied(s, e)
               [] e.kind = "transfer" -> TransferApplied(s, e)
               [] e.kind \in {"fx", "corporate"} -> AdjustmentApplied(s, e)
               [] e.kind = "split" -> SplitApplied(s, e)
               [] e.kind = "dividend" -> DividendApplied(s, e)
               [] e.kind = "mark" -> MarkApplied(s, e)
               [] e.kind = "margin" -> MarginApplied(s, e))

\* The division an event calls for leaves no remainder: the bound that stands for the
\* precision of a Decimal.
Whole(s, e) ==
    /\ e.kind = "fill" /\ s.pos + e.a # 0 /\ Sign(s.pos) * Sign(e.a) >= 0 =>
           (s.avg * Abs(s.pos) + e.b * Abs(e.a)) % (Abs(s.pos) + Abs(e.a)) = 0
    /\ e.kind = "split" => s.avg % e.a = 0 /\ s.mark % e.a = 0

\* The states a replay of the rows goes through.
Replay(rows) ==
    LET step[n \in 0..Len(rows)] == IF n = 0 THEN Opening ELSE Applied(step[n - 1], rows[n].event)
    IN step

\* _hydrate refuses the first row whose hash is not that of the state it leads to.
Hydratable(rows) == LET step == Replay(rows) IN \A n \in DOMAIN rows : rows[n].hash = step[n]

AccountInit ==
    /\ accountRows = <<>>
    /\ holder = [w \in Writers |-> [up |-> FALSE, acct |-> Opening, applied |-> {}]]

\* A process opens the ledger and replays it.
Hydrate(w) ==
    /\ ~holder[w].up
    /\ Hydratable(accountRows)
    /\ holder' = [holder EXCEPT ![w] =
           [up |-> TRUE, acct |-> Replay(accountRows)[Len(accountRows)],
            applied |-> { accountRows[n].event : n \in DOMAIN accountRows }]]
    /\ UNCHANGED accountRows

\* The row carries the hash of the candidate; a process that keeps the hash of
\* the state before it would strand its own restart.
RowOfPriorState(w, e) == [event |-> e, hash |-> holder[w].acct, by |-> w]
Row(w, e) == [event |-> e, hash |-> Applied(holder[w].acct, e), by |-> w]

Commit(w, e) == holder' = [holder EXCEPT ![w].acct = Applied(@, e), ![w].applied = @ \cup {e}]

\* apply_*: a key this process has applied is answered from memory, or refused
\* when the content differs; otherwise the row is appended, then committed.  A
\* key another process appended is accepted only with the same content and hash.
Book(w, e) ==
    /\ holder[w].up
    /\ \A f \in holder[w].applied : f.key # e.key
    /\ Whole(holder[w].acct, e)
    /\ LET same == { n \in DOMAIN accountRows : accountRows[n].event.key = e.key }
       IN \/ /\ same = {} /\ Len(accountRows) < MaxRows
             /\ accountRows' = Append(accountRows, Row(w, e))
          \/ /\ \E n \in same : /\ accountRows[n].event = e
                                /\ accountRows[n].hash = Row(w, e).hash
             /\ UNCHANGED accountRows
    /\ Commit(w, e)

\* The append raises (the database is busy, the disk full): memory is untouched
\* because only the candidate changed.  Nor does a crash between row and commit
\* leave anything but the row: it is Book followed by Die.
Die(w) ==
    /\ holder[w].up
    /\ holder' = [holder EXCEPT ![w] = [up |-> FALSE, acct |-> Opening, applied |-> {}]]
    /\ UNCHANGED accountRows

AccountNext == \E w \in Writers : Hydrate(w) \/ Die(w) \/ \E e \in Inputs : Book(w, e)

AccountSpec == AccountInit /\ [][AccountNext]_accountVars
-----------------------------------------------------------------------------
AccountTypeOK ==
    /\ Len(accountRows) <= MaxRows
    /\ \A n \in DOMAIN accountRows : accountRows[n].event \in Inputs /\ accountRows[n].by \in Writers
    /\ \A w \in Writers : /\ holder[w].applied \subseteq Inputs
                          /\ holder[w].acct.fees >= 0 /\ holder[w].acct.paid >= 0
                          /\ (holder[w].acct.pos = 0) = (holder[w].acct.avg = 0)

\* Every unit of cash is accounted for: cash and the cost of the position are the
\* opening balance plus gains, adjustments and transfers minus fees and financing,
\* and the loss control counts exactly gains, fees and financing - through partial
\* closes, crossings, splits and dividends on short positions.
BooksBalance ==
    \A w \in Writers :
        LET s == holder[w].acct
        IN /\ s.cash + s.pos * s.avg = StartingCash + s.real - s.fees - s.paid + s.adj + s.moved
           /\ s.daily = s.real - s.fees - s.paid
           /\ s.peak >= Equity(s)

\* As long as one process writes the ledger, every restart is accepted and leads to
\* the account that process holds, wherever it crashed.
SoleWriterRestarts ==
    \A w \in Writers :
        (\A n \in DOMAIN accountRows : accountRows[n].by = w) =>
            /\ Hydratable(accountRows)
            /\ holder[w].up => holder[w].acct = Replay(accountRows)[Len(accountRows)]

\* The account AccountLedger answers for: its books balance and survive a restart.
BooksHold == BooksBalance /\ SoleWriterRestarts
=============================================================================
