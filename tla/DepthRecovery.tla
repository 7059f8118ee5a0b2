---------------------------- MODULE DepthRecovery ---------------------------
(***************************************************************************)
(* The depth book of one symbol in one collection cycle of                 *)
(* scripts/run_phase3_public_data_qualification.py: the stream is spooled, *)
(* a snapshot is taken after its first message, a failed connection is     *)
(* tried once more, and collectors/market_recovery.py rebuilds the book    *)
(* from the files.  A process that died before the cycle's first sample is *)
(* followed by one that collects into the same directory.                  *)
(*                                                                         *)
(* Update n of the provider removes a level or sets it to quantity n; a    *)
(* message carries a range of updates.  A snapshot shows the best levels   *)
(* of either side only.                                                    *)
(***************************************************************************)
EXTENDS Integers, Sequences, FiniteSetsExt, Functions

CONSTANTS DepthLevels,    \* the levels: [side, price]
          Opening,        \* those with a quantity before update 1
          SnapshotLimit,  \* levels a side in the snapshot of a connection (100)
          RestLimit,      \* levels a side in a REST read (5)
          DepthMoves,     \* bound: what an update of the provider may change, [level, kept]
          MaxUpdate,      \* bound: updates of the provider
          Lag,            \* bound: how far a snapshot may be behind the provider
          MaxRestarts     \* bound: processes that die while they collect

ASSUME DepthAssumption ==
    /\ \A l \in DepthLevels : l.side \in {"bid", "ask"} /\ l.price \in Nat
    /\ Opening \subseteq DepthLevels /\ DepthMoves \subseteq [level : DepthLevels, kept : BOOLEAN]
    /\ MaxUpdate \in Nat /\ Lag \in Nat /\ MaxRestarts \in Nat

VARIABLES changes,      \* what each update so far changed: [level, kept]
          stream,       \* the connection: its number, step, messages, place in the stream, snapshot
          depthSpool,   \* raw-ws.jsonl of either connection: messages with their sequence number
          restBooks,    \* the snapshots in the raw-http.jsonl of the REST reads
          recovered,    \* the result of the recovery, or NotRecovered
          restarts

depthVars == <<changes, stream, depthSpool, restBooks, recovered, restarts>>

NoUpdate == -1
Absent == -1            \* the quantity of a level that is not in the book
provider == Len(changes)
NotRecovered == [state |-> "none"]

\* What the updates a to b leave of a level with this quantity before them.
QuantityAfter(l, quantity, a, b) ==
    LET touches == {k \in a..b : changes[k].level = l}
    IN  IF touches = {} THEN quantity ELSE IF changes[Max(touches)].kept THEN Max(touches) ELSE Absent

\* The book after update n.
BookAt(n) == [l \in DepthLevels |-> QuantityAfter(l, IF l \in Opening THEN 0 ELSE Absent, 1, n)]

\* apply_update: a message names the final quantity of every level it touches.
ApplyUpdate(book, m) == [l \in DepthLevels |-> QuantityAfter(l, book[l], m.first, m.last)]

\* A snapshot is an update and a limit; it shows the levels of the book that have fewer
\* than limit better ones on their side.
Held(book) == {l \in DepthLevels : book[l] # Absent}
Better(k, l) == k.side = l.side /\ IF l.side = "bid" THEN k.price > l.price ELSE k.price < l.price
Shown(snapshot) ==
    LET held == Held(BookAt(snapshot.update))
    IN  {l \in held : Cardinality({k \in held : Better(k, l)}) < snapshot.limit}

\* _validate: a book has two sides that do not cross.
Proper(book) ==
    /\ \A side \in {"bid", "ask"} : \E l \in Held(book) : l.side = side
    /\ \A b, a \in Held(book) : b.side = "bid" /\ a.side = "ask" => b.price < a.price

FreshConnection(n) == [number |-> n, step |-> "open", count |-> 0, sent |-> NoUpdate, snapshot |-> NoUpdate]

DepthInit ==
    /\ changes = <<>> /\ stream = [FreshConnection(0) EXCEPT !.step = "rest"]
    /\ depthSpool = <<{}, {}>> /\ restBooks = {} /\ recovered = NotRecovered /\ restarts = 0

ProviderMoves ==
    /\ provider < MaxUpdate /\ recovered = NotRecovered
    /\ \E move \in DepthMoves : changes' = Append(changes, move)
    /\ UNCHANGED <<stream, depthSpool, restBooks, recovered, restarts>>

\* What a snapshot may show: a cache in front of the provider may lag.
Snapshots == {n \in 0..provider : n + Lag >= provider}

\* The REST reads of the cycle come first; a snapshot with known bytes is not stored
\* twice, and a failed read leaves none.
RestReads ==
    /\ stream.step = "rest"
    /\ \E seen \in {{}} \cup {{n} : n \in Snapshots} : restBooks' = restBooks \cup seen
    /\ stream' = FreshConnection(1)
    /\ UNCHANGED <<changes, depthSpool, recovered, restarts>>

Connect ==
    /\ stream.step = "open"
    /\ stream' = [stream EXCEPT !.step = "pump", !.sent = provider]
    /\ UNCHANGED <<changes, depthSpool, restBooks, recovered, restarts>>

\* The next message of the stream, if it is not lost on the way.  The spool knows it
\* by its bytes: one it holds already, from a process that died, ends the connection.
Message(last, lost) ==
    /\ stream.step = "pump" /\ stream.sent < last /\ last <= provider
    /\ LET m == [seq |-> stream.count + 1, first |-> stream.sent + 1, last |-> last]
           known == \E old \in depthSpool[stream.number] : old.first = m.first /\ old.last = m.last
       IN  IF lost THEN /\ stream' = [stream EXCEPT !.sent = last]
                        /\ UNCHANGED depthSpool
           ELSE IF known THEN /\ stream' = [stream EXCEPT !.step = "broken"]
                              /\ UNCHANGED depthSpool
           ELSE /\ stream' = [stream EXCEPT !.sent = last, !.count = m.seq]
                /\ depthSpool' = [depthSpool EXCEPT ![stream.number] = @ \cup {m}]
    /\ UNCHANGED <<changes, restBooks, recovered, restarts>>

\* The snapshot is asked for after the first message has been buffered.
TakeSnapshot ==
    /\ stream.step \in {"pump", "broken"} /\ stream.count > 0 /\ stream.snapshot = NoUpdate
    /\ \/ \E n \in Snapshots : stream' = [stream EXCEPT !.snapshot = n]
       \/ stream' = [stream EXCEPT !.step = "ended"]
    /\ UNCHANGED <<changes, depthSpool, restBooks, recovered, restarts>>

\* The window ends or the transport fails; a connection without a snapshot or a
\* message has failed and is tried once more.
Disconnect ==
    /\ stream.step \in {"pump", "broken", "ended"}
    /\ stream' = IF stream.number = 1 /\ (stream.snapshot = NoUpdate \/ stream.count = 0) THEN FreshConnection(2)
                 ELSE [stream EXCEPT !.step = "recover"]
    /\ UNCHANGED <<changes, depthSpool, restBooks, recovered, restarts>>

\* The process dies and the next one, for which this cycle has no sample yet,
\* collects it again in the same directory.
DieAndRestart ==
    /\ restarts < MaxRestarts /\ recovered = NotRecovered
    /\ restarts' = restarts + 1
    /\ stream' = [FreshConnection(0) EXCEPT !.step = "rest"]
    /\ UNCHANGED <<changes, depthSpool, restBooks, recovered>>

\* read_records: by sequence number, then by hash; hashes order messages in any way.
Ordered(messages) ==
    {files \in [1..Cardinality(messages) -> messages] :
        Range(files) = messages /\ \A i, j \in DOMAIN files : i < j => files[i].seq <= files[j].seq}

\* A book that is not proper fails.
Rebuilt(state, book, last, from) ==
    [state |-> IF Proper(book) THEN state ELSE "failed", book |-> book, last |-> last, from |-> from]

FromSnapshot(s) ==
    Rebuilt("idle", [l \in DepthLevels |-> IF l \in Shown(s) THEN BookAt(s.update)[l] ELSE Absent], s.update, s)

\* One message: what is old is skipped, what leaves a gap fails the book for good.
RecoverSkippingGaps(before, m) ==
    IF before.state = "failed" \/ m.last < before.last + 1 THEN before
    ELSE Rebuilt("pass", ApplyUpdate(before.book, m), m.last, before.from)
RecoverOne(before, m) ==
    IF before.state = "failed" \/ m.last < before.last + 1 THEN before
    ELSE IF m.first > before.last + 1 THEN [before EXCEPT !.state = "failed"]
    ELSE Rebuilt("pass", ApplyUpdate(before.book, m), m.last, before.from)

\* The recovery, message after message.
RecoverBinanceDepth(snapshot, updates) ==
    LET step[i \in 0..Len(updates)] ==
            IF i = 0 THEN FromSnapshot(snapshot) ELSE RecoverOne(step[i - 1], updates[i])
    IN  step[Len(updates)]

FailedClosed == [state |-> "failed_closed"]

\* The last connection that worked, with its snapshot; without one, everything that was
\* received, with the snapshot of the REST reads if there is exactly one.
Worked == stream.snapshot # NoUpdate
Files == IF Worked THEN Ordered(depthSpool[stream.number])
         ELSE {one \o two : one \in Ordered(depthSpool[1]), two \in Ordered(depthSpool[2])}
Recover ==
    /\ stream.step = "recover" /\ recovered = NotRecovered
    /\ LET books == IF Worked THEN {[update |-> stream.snapshot, limit |-> SnapshotLimit]}
                    ELSE {[update |-> n, limit |-> RestLimit] : n \in restBooks}
       IN  IF Cardinality(books) # 1 THEN recovered' = FailedClosed
           ELSE \E updates \in Files :
                    LET result == RecoverBinanceDepth(CHOOSE s \in books : TRUE, updates)
                    IN  recovered' = IF result.state = "pass" THEN result ELSE FailedClosed
    /\ UNCHANGED <<changes, stream, depthSpool, restBooks, restarts>>

DepthNext ==
    \/ ProviderMoves \/ RestReads \/ Connect \/ TakeSnapshot \/ Disconnect \/ DieAndRestart
    \/ \E last \in 1..MaxUpdate, lost \in BOOLEAN : Message(last, lost)
    \/ Recover

DepthSpec == DepthInit /\ [][DepthNext]_depthVars

-----------------------------------------------------------------------------
\* A book the recovery passes is the book the provider had after the last update in
\* it, whatever was lost, which snapshot it started from, and although the files may
\* hold the messages of a process that died among those of its successor.  What may be
\* missing is a level that the limit of the snapshot cut off and no update since changed.
BookIsProviders ==
    recovered.state = "pass" => \A l \in DepthLevels :
        \/ recovered.book[l] = BookAt(recovered.last)[l]
        \/ /\ recovered.book[l] = Absent /\ l \notin Shown(recovered.from)
           /\ \A k \in (recovered.from.update + 1)..recovered.last : changes[k].level # l
=============================================================================
