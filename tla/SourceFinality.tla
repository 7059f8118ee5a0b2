--------------------------- MODULE SourceFinality ---------------------------
(***************************************************************************)
(* The public-data source of the long run and of the canary: one collector *)
(* that stores every HTTP response as a raw receipt and admits a bar once  *)
(* two receipts agree on it after the finality guard.  The raw spool, the  *)
(* normalized projection and the revision ledger are append-only files;    *)
(* the versions seen so far are memory and rebuilt by a replay.            *)
(***************************************************************************)
EXTENDS Integers, FiniteSets, SequencesExt

CONSTANTS
    Symbols,        \* polled in turn; naturals, so that keys sort as the code's tuples do
    Ends,           \* ends of the bar intervals, on the clock
    MinimumEnd,     \* fresh_long_run_minimum_interval_end(start_at)
    Contents,       \* what the provider may say of one interval
    Guard,          \* LONG_RUN_FINALITY_GUARD_SECONDS
    Repeat,         \* LONG_RUN_REPEAT_RECEIPTS
    Deadline,       \* terminal_deadline
    MaxReceipts,    \* bound on the raw spool
    MaxCrashes      \* bound on process deaths

ASSUME SourceAssumption ==
    /\ Symbols \subseteq Nat /\ Ends \subseteq Nat /\ MinimumEnd \in Nat
    /\ Guard \in Nat /\ Repeat \in Nat \ {0} /\ Deadline \in Nat
    /\ MaxReceipts \in Nat /\ MaxCrashes \in Nat

VARIABLES
    clock,
    raw,        \* receipts: <<[at, symbol, bars]>>, bars a function from interval ends
    norm,       \* admitted bars in file order: <<[key, content, at]>>
    revisions,  \* rows of the revision ledger
    torn,       \* the file whose last line a crash left unfinished, or "none"
    manifest,   \* the manifest has been written
    status,     \* state in status.json, "none" before the first
    collector,  \* where the process is
    pending,    \* bars of the last receipt still to observe, the earliest first
    versions,   \* memory: <<key, content, sequence>> seen
    crashes

sourceVars == <<clock, raw, norm, revisions, torn, manifest, status, collector, pending,
                versions, crashes>>

Bars == {norm[i] : i \in DOMAIN norm}

\* parse_binance_klines: rows whose interval has not closed are dropped, and a fresh
\* run drops the intervals that began before its start.
BarsOf(receipt) ==
    {[key |-> <<receipt.symbol, e>>, content |-> receipt.bars[e], at |-> receipt.at] :
        e \in {x \in DOMAIN receipt.bars : x <= receipt.at /\ x >= MinimumEnd}}

\* The versions that receipt n adds, and the admitted bars of an interval.
VersionsIn(n, new) == {<<bar.key, bar.content, n>> : bar \in new}
Prior(state, bar)  == {b \in state.bars : b.key = bar.key}
Support(seen, bar) == {v \in seen : v[1] = bar.key /\ v[2] = bar.content}

\* _observe_state for bars of receipt n, which are of different intervals: the projection
\* after them, and the bars that contradict an admitted one.
Observed(state, n, new) ==
    LET seen == state.versions \cup VersionsIn(n, new)
    IN  [versions |-> seen,
         bars     |-> state.bars \cup
                        {bar \in new : /\ Prior(state, bar) = {}
                                       /\ bar.at >= bar.key[2] + Guard
                                       /\ Cardinality(Support(seen, bar)) >= Repeat},
         revised  |-> state.revised \cup
                        {bar \in new : \E b \in Prior(state, bar) : b.content # bar.content}]

\* replay starts from a shadow projection, not from the persisted bars.
Shadow == [versions |-> {}, bars |-> {}, revised |-> {}]

\* replay: the whole raw history, receipt by receipt.
Replay(rows) ==
    LET after[n \in 0..Len(rows)] ==
            IF n = 0 THEN Shadow ELSE Observed(after[n - 1], n, BarsOf(rows[n]))
    IN  after[Len(rows)]

\* Why a start is refused: the status, evidence without a status, a torn line in a
\* spool, a revision on record or found by the replay, a persisted bar the replay does
\* not confirm with its admission time.
RefusesStart(replayed) ==
    \/ status = "GENERATION_FATAL"
    \/ status = "none" /\ (manifest \/ raw # <<>> \/ norm # <<>>)
    \/ torn # "none"
    \/ revisions # 0 \/ replayed.revised # {}
    \/ ~ (Bars \subseteq replayed.bars)

\* A start of the collector up to the validated replay.  A terminal source is left as
\* it is.
StartSource ==
    /\ collector = "down" /\ status # "DEADLINE_REACHED"
    /\ collector' = IF RefusesStart(Replay(raw)) THEN "refused" ELSE "replaying"
    /\ UNCHANGED <<clock, raw, norm, revisions, torn, manifest, status, pending, versions, crashes>>

KeyBefore(a, b) == a.key[1] < b.key[1] \/ (a.key[1] = b.key[1] /\ a.key[2] < b.key[2])
Missing == Replay(raw).bars \ Bars

RepairForgets ==
    /\ collector = "replaying"
    /\ IF Missing # {}
       THEN /\ norm' = Append(norm, CHOOSE b \in Missing : \A other \in Missing : ~ KeyBefore(other, b))
            /\ UNCHANGED <<versions, collector>>
       ELSE collector' = "replayed" /\ UNCHANGED <<versions, norm>>
    /\ UNCHANGED <<clock, raw, revisions, torn, manifest, status, pending, crashes>>

\* The missing canonical rows are appended one by one in the order of their keys; then the
\* collector remembers the versions of the replay.
Repair ==
    /\ collector = "replaying"
    /\ IF Missing # {}
       THEN /\ norm' = Append(norm, CHOOSE b \in Missing : \A other \in Missing : ~ KeyBefore(other, b))
            /\ UNCHANGED <<versions, collector>>
       ELSE collector' = "replayed" /\ versions' = Replay(raw).versions /\ UNCHANGED norm
    /\ UNCHANGED <<clock, raw, revisions, torn, manifest, status, pending, crashes>>

WriteManifest ==
    /\ collector = "replayed" /\ collector' = "manifested" /\ manifest' = TRUE
    /\ UNCHANGED <<clock, raw, norm, revisions, torn, status, pending, versions, crashes>>

\* The first status and every later one: the state is all the restart looks at.
PublishFirst ==
    /\ collector = "manifested" /\ collector' = "running" /\ status' = "RUNNING"
    /\ UNCHANGED <<clock, raw, norm, revisions, torn, manifest, pending, versions, crashes>>

\* What a response may say; its rows for intervals a fresh run drops make no difference.
Responses == {f \in [Ends -> Contents] : \A e \in Ends : e < MinimumEnd => f[e] = CHOOSE c \in Contents : TRUE}

\* A response arrives and is durable before anything is derived from it.  The provider
\* may revise an interval from one response to the next.
Receive(symbol, bars) ==
    LET receipt == [at |-> clock, symbol |-> symbol, bars |-> bars] IN
    /\ collector = "running" /\ pending = {} /\ clock < Deadline /\ Len(raw) < MaxReceipts
    /\ raw' = Append(raw, receipt) /\ pending' = BarsOf(receipt)
    /\ UNCHANGED <<clock, norm, revisions, torn, manifest, status, collector, versions, crashes>>

\* observe for the next bar: an admitted bar goes to the file, then to memory; a
\* contradiction becomes a revision row and ends the polling.
ObserveNext ==
    LET bar    == CHOOSE b \in pending : \A other \in pending : b.key[2] <= other.key[2]
        before == [versions |-> versions, bars |-> Bars, revised |-> {}]
        after  == Observed(before, Len(raw), {bar})
    IN
    /\ collector = "running" /\ pending # {}
    /\ versions' = after.versions
    /\ norm' = IF after.bars = Bars THEN norm ELSE Append(norm, bar)
    /\ IF after.revised = {}
       THEN pending' = pending \ {bar} /\ UNCHANGED <<revisions, collector>>
       ELSE pending' = {} /\ revisions' = revisions + 1 /\ collector' = "failing"
    /\ UNCHANGED <<clock, raw, torn, manifest, status, crashes>>

\* coordinator.fail and the final status: a revision, a contract error or a stop signal.
Fail ==
    /\ collector = "failing" \/ (collector = "running" /\ pending = {})
    /\ collector' = "stopped" /\ status' = "GENERATION_FATAL"
    /\ UNCHANGED <<clock, raw, norm, revisions, torn, manifest, pending, versions, crashes>>

ReachDeadline ==
    /\ collector = "running" /\ pending = {} /\ clock = Deadline
    /\ collector' = "stopped" /\ status' = "DEADLINE_REACHED"
    /\ UNCHANGED <<clock, raw, norm, revisions, torn, manifest, pending, versions, crashes>>

\* The process dies anywhere; a row being written may be left torn.
SourceCrash ==
    /\ collector \in {"replaying", "replayed", "manifested", "running", "failing"}
    /\ crashes < MaxCrashes /\ crashes' = crashes + 1
    /\ collector' = "down" /\ pending' = {} /\ versions' = {}
    /\ torn' \in {"none"} \cup
               CASE collector = "replaying" -> {"norm"}
                 [] collector = "running" -> IF pending = {} THEN {"raw"} ELSE {"norm", "revisions"}
                 [] OTHER -> {}
    /\ UNCHANGED <<clock, raw, norm, revisions, manifest, status>>

SourceTick ==
    /\ clock < Deadline /\ clock' = clock + 1
    /\ UNCHANGED <<raw, norm, revisions, torn, manifest, status, collector, pending, versions, crashes>>

SourceInit ==
    /\ clock = 1 /\ raw = <<>> /\ norm = <<>> /\ revisions = 0 /\ torn = "none" /\ manifest = FALSE
    /\ status = "none" /\ collector = "down" /\ pending = {} /\ versions = {} /\ crashes = 0

SourceNext ==
    \/ StartSource \/ Repair \/ WriteManifest \/ PublishFirst \/ ObserveNext \/ Fail \/ ReachDeadline
    \/ SourceCrash \/ SourceTick
    \/ \E symbol \in Symbols, bars \in Responses : Receive(symbol, bars)

SourceSpec == SourceInit /\ [][SourceNext]_sourceVars

-----------------------------------------------------------------------------
Quiet == collector = "running" /\ pending = {}

\* What the live collector admitted and remembers is what a replay of its raw receipts
\* derives, whatever crashes lie between: bars, admission times and the versions that
\* count towards the next admission.
ReplayEqualsLive ==
    Quiet => LET replayed == Replay(raw)
             IN  Bars = replayed.bars /\ versions = replayed.versions /\ replayed.revised = {}

\* Receipt n reports bar b's interval with content c.
Says(n, b, c) == \E bar \in BarsOf(raw[n]) : bar.key = b.key /\ bar.content = c

\* Some receipt after the guard made bar b final together with earlier ones that agree,
\* and no receipt after it says otherwise.
Stands(b) ==
    \E m \in DOMAIN raw :
        /\ raw[m].at = b.at /\ b.at >= b.key[2] + Guard /\ Says(m, b, b.content)
        /\ Cardinality({n \in 1..m : Says(n, b, b.content)}) >= Repeat
        /\ \A n \in (m + 1)..Len(raw), c \in Contents : Says(n, b, c) => c = b.content

\* Every admitted bar of a running source rests on Repeat distinct agreeing receipts and
\* is never contradicted: a provider that revises an admitted bar stops the source for
\* good, also when the process dies before the revision is written down.
AdmittedStands == Quiet => \A b \in Bars : Stands(b)

\* A restart is refused only for what the code calls ambiguous or fatal; receipts that
\* varied before the admission are no reason, wherever the crash fell.
RefusedForCause ==
    collector = "refused" =>
        \/ status \in {"GENERATION_FATAL", "none"} \/ torn # "none"
        \/ \E b \in Bars : ~ Stands(b)

\* A restart reaches the state of the collector that died, or is refused for cause.
RestartsAgree == ReplayEqualsLive /\ RefusedForCause

\* What the source has admitted stands, in this process and in the next.
BarsAreFinal == AdmittedStands /\ RestartsAgree

\* _load_source_snapshot and the terminal audit compare the replayed bars, sorted by
\* instrument and interval, with the persisted rows in file order.
SnapshotAgrees == SetToSortSeq(Replay(raw).bars, KeyBefore) = norm

\* The watchdog's comment: only the race between the two files makes the comparison
\* fail, so with the collector between two polls it agrees.  It does not: rows are in
\* order of admission, which alternates between the symbols.
QuietSourceAgrees == Quiet => SnapshotAgrees
=============================================================================
