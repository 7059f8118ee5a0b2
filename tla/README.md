# Verification of AdvisorAI V3

TLA+ modules, TLC configurations and TLAPS proofs about the state-changing core
of AdvisorAI V3 (`src/src/advisorai`, `src/scripts`), a local paper-trading
workstation and the evidence machinery around it. Agents and models propose; a
deterministic chain (portfolio target, risk kernel, order manager, venue adapter,
reconciliation) is the only path to a venue, and SQLite ledgers or append-only
files are the only durable truth. Long-running scripts gather the evidence on
which phases are passed. The properties here are about both: what survives a
crash, what a retry may repeat, what two processes may do to each other, whether
a verdict may be trusted, and what must eventually happen.

## Inventory

`PROJECT.json` lists every component with its status, its source files and what is
left out, and the hazards by line. The parts, the state they keep, and what makes
each hard and correct:

| Part | Module | State | Hard behaviour | What makes it correct |
|---|---|---|---|---|
| Order manager, outbox (`execution/oms.py`, `ledger/`) | `OrderManager` over `OrderLifecycle` | order states, fills, ambiguous set; ORDER ledger; outbox | crash after a durable write, lost reply, redelivered fills, repeated states under one key | an order is submitted once; memory is what a restart rebuilds; fills add up |
| Paper runtime, kill switch, reconciliation, halt and resume (`runtime/paper.py`, `execution/risk.py`, `execution/reconciliation.py`, `api/dashboard.py`) | `PaperControl` | stop flag, cycle position, switch, receipts; INCIDENT and RECONCILIATION ledgers | a halt in the middle of a cycle, a command written in one process and read in another | no order after a halt but the one in flight; an accepted command takes effect |
| Phase gates, model inventory, live plane (`gates.py`, `models/authority.py`, `live/guard.py`) | `Admission` | records and authority per phase and model; MODEL and INCIDENT ledgers | evidence that expires, memory before ledger | passes follow passes; memory is the ledger |
| Resource governor (`resources/governor.py`) | `ResourceGovernor` | leases | measurements that change, lease before row, two ways to ask | one GPU job, reservations fit, no leaked lease |
| Venue connectors, HTTP client, lifecycle script (`integrations/`) | `Venue` | circuit, attempts, local and venue order | a request that arrives after its timeout, fills between poll and cancel | a write is not repeated; the report is the venue's story |
| Account ledger (`execution/account.py`) | `Account` | cash, position, cost; ACCOUNT ledger | two writers, state hash in the row | replay reproduces the state, the books balance |
| Portfolio and risk kernel (`execution/portfolio.py`, `execution/risk.py`) | `RiskBook` | book, limits, targets | decision and check in different states, bisection over limits that are not monotone | what is granted respects the limits |
| Model gateway (`gateway/`) | `ModelGateway` | decision, queue, attempts, call records | fallback, busy retries, repeated keys | a prompt goes only where it may, and each attempt is recorded |
| Runtime qualification (`phase0/runtime_qualification.py` and its worker) | `RuntimeQualification` | pin, worker, helper, GPU lease | files that change while a worker runs, process trees, hanging workers | a measurement was made by what was pinned; a verdict always comes |
| Stability runs (`phase0/*stability.py`) | `StabilityRun` | log, lock, summary | several runners, torn lines, paid cycles | what was proved stays proved; spend is bounded |
| Public market data (`collectors/`, Phase-3 scripts) | `DepthRecovery`, `PublicDataRun` | raw spool, snapshots, samples, health, selections | lost updates, snapshot races, a dead cycle's files under its successor | a passed book is the provider's, as far as its snapshot showed it; the review reads what happened |
| Console, bundles (`api/security.py`, `api/dashboard.py`, `config/bundles.py`) | `Console` | limiter, sessions, tokens, receipts; bundle, log and pointer files | expiry during a request, a write that fails between files | a token is used once; a receipt says what was done |
| Source of the long run (`scripts/collect_phase4_*`) | `SourceFinality` | raw spool, bars, revisions, versions seen | crash between the three files, revised bars | what was admitted stands after a replay |
| Long run (`phase4/v3core_longrun_runtime.py` and scripts) | `LongRun` | event ledger, predictions, attestations, links, status files | five processes, refresh-check-lock-append, deadlines | cases tell the truth, verdicts are final |
| Launch of a generation (preregistration, preflight, gate, launcher) | `GenerationLaunch` | contract, reports, `launch.json`, gate log, components | racing gates and launchers, edits of the checkout, deaths | LAUNCHED means launched |
| Canary (`phase4/v3core_canary.py` and scripts) | `Canary` | bars, predictions, rejections, status files | late starts, deadline races | complete means predicted in time |
| Forward evidence (`phase4/v3core_forward.py` and scripts) | `Forward` | raw and normalized spools, cases, predictions, health | clock lag, late and revised bars, torn lines | the evaluation input is what happened |
| Soak (`soak/`) | `SoakRun` | config, records, status, controller samples | two configurations, torn lines, terminal record | the evidence has one configuration and an order |
| Durable flow (`flows/durable.py`) | `DurableFlow` | attempts, MISSION rows | a task, or the row of its success, that raises behind the effect | success is returned for a durable success |
| Capabilities (`capabilities/broker.py`) | `Capability` | cards, ledger rows of several registries | rows of another process | active means climbed the whole ladder |
| Hermes isolation (`capabilities/foundry.py`) | `Hermes` | child, queue, flags | an answer larger than the pipe, a swallowed refusal | a pass is a pass |
| Lake, archive, rebuild (`lake/`, archive scripts) | `Archive` | artifact, manifest, two providers, ledger row | lock-free writers, failing commands | a returned manifest reads back |
| Evidence scripts (recovery, rebuild, archive qualification) | `EvidenceRun` | reports, `latest.json` and its temporary file | two runs sharing one temporary file | a published report is whole |

Calls go down the trading chain (runtime -> risk kernel -> order manager ->
adapter); all its parts share the ledgers; the dashboard reaches the runtime either
through an object it holds or only through the INCIDENT ledger, which the loop reads
at each cycle. The evidence scripts are processes of their own that meet through
append-only files, status files and exclusive creates. Where two modules touch, one
takes the other's result as an input: `LongRun` takes final bars that
`SourceFinality` explains, `Canary` likewise, `EvidenceRun` takes the archive that is
`Archive`, `GenerationLaunch` starts the components that run in `LongRun`,
`Admission` gives `Capability` its gate.

## Modules

### Core

`OrderManager` models every call of the order manager. A call appends a row and
changes the projection in one step, then publishes to the outbox or talks to the
venue in further steps kept in `pc`; a crash or an exception may come between any
two. `log[o]` are the row types of one order, which is all `_hydrate` reads;
`Conflict` is the idempotency conflict of `SqliteLedgers.append`; `venue` and
`submits` are what the adapter was asked to do. `OrderLifecycle` is the abstract
promise: an order only moves forward, and is exposed to the venue only while it
is routed. `ImplementsLifecycle` is the refinement.

`PaperControl` composes the kill switch, the run loop, calls of the owner,
`reconcile_once` and the dashboard. A thread's `pending` operations are the
statements it has still to run, so that `trip` (row, then attributes) and `execute`
interleave with a cycle. `deployment`, fixed in `Init`, says whether the API holds
the runtime. `history` carries the facts the properties need about the past.

`Admission` puts the phase gates, one model and the live plane over one clock.
A gate record is its phase, its decision and the first instant at which some
required evidence is no longer valid; the registry answers with the latest record of a
phase. `Written` is an append after memory has
changed, which may raise; `RecordModel` is the inventory's opposite order.

`ResourceGovernor` models admissions and releases as one step each (they hold one
lock), with up to three measurements per step that need not agree. Reserved memory
is a sum over the leases (`SumFunctionOnSet`). A request may name any profile in either
call; the history variable `direct` tells which leases `admit` granted.

### Trading

`Venue` follows one order through the HTTP client (attempts, backoff, circuit), the
connector, the order manager's treatment of a lost reply and the lifecycle script,
statement by statement in `job`; the venue trades by itself and a request may arrive
after its caller gave up. `Account` splits each `apply_*` into candidate, row and
commit, over one ledger that several processes may open. The code divides Decimals;
the model books only where no remainder is left (`Whole`, a bound in the guard of `Book`,
which refuses nothing in the run, where prices are multiples of 120). `RiskBook` has the limits of `evaluate`,
`_reduced_target` and `check_order` as operators over a book of two instruments;
target, decision and order check are separate steps between which marks and vetoes
move. A fill also costs a fee, which no check looks at; orders are told apart by `id`, as
two equal ones may be worked at once, and `fills` is history: the fills since one of a
fresh order, while the marks stood.

### Platform

`SourceFinality`, `ModelGateway`, `StabilityRun`, `DepthRecovery`, `PublicDataRun`,
`Console` and `GenerationLaunch`, each with its processes' program counters, its
files as sequences or records (a torn or missing file is a value of its own), and a
bounded number of deaths, cuts and edits. A start of the source restores the bars its
files derive one row at a time (`Repair`), so a crash may come between two. The gateway's candidates are the decided
tier and what `FallbackTo` allows behind it; the console's limiter drops the prefix
of its failures that is older than the window. The depth book is
recovered from the messages on file in any order their sequence numbers allow, and from a
snapshot of the best levels of either side only (100 in a connection's, 5 in a REST
read's; the opening book is update 0). What lies below a snapshot's limit is missing from
the recovered book until an update names it, so that book may show the wrong best price
once the levels in front of a hidden one are gone; `_validate` sees sides that are empty
or crossed and nothing else. A data run samples the pairs of sources and assets one after the
other. `RuntimeQualification` and `Hermes` are the two runners of a local process under a
time limit. In `GenerationLaunch` a component counts as terminated when SIGTERM is sent to
it, and a component is started and registered in one step: the window between `Popen` and
`processes[name]` (lines 432-447 of the launch script), in which a launcher that dies, or
cannot read the process's create time, leaves a process nobody lists, is not modelled.

### Evidence

`LongRun` splits every coordinator method where the code does: `Invoke` is the refresh
and the checks before the lock, `AppendEvent` the locked refresh, validation and
append; the five processes are sequential programs over those. An attestation is
written once per prediction and keeps its time (`Attested`). `repaired`, fixed in
`Init`, tells the scripts as they are, whose linker never starts, from scripts that
agree on that linker's options; both are explored.
`Canary`, `Forward`, `SoakRun`, `DurableFlow`, `Capability`, `Archive` and
`EvidenceRun` follow the same pattern. In `Forward` no two receipts have the same time:
a poller that starts again needs at least one tick (`LastReceipt`), and a failed poll is
of one kind, whether the code would retry it or not. In `DurableFlow` the task may return,
or raise before or after it took effect; a row and the answer behind it are two steps.

`MC*` modules give the constants. `MCTrading`, `MCPlatform` and `MCResearch` check
components that share no state side by side: `which`, chosen in `Init`, is the
component whose variables move. No property is weakened by that, since no variable
of one component appears in another.

The proofs are in `*Proofs` modules: one each for the order manager, the paper control,
the governor and the long run; `TradingProofs`, `PlatformProofs` and `ResearchProofs`
hold those of the components of a suite, one section per component; `SharedLemmas`
has the facts about growing logs, sets of numbers and sums that several need.

Left out on purpose everywhere: decimals beyond what a property tells apart,
timestamps other than deadlines and expiry, hashes (a file is the same or it is not),
the wording of reasons, and what a model or a venue answers beyond the kinds of answer
the code distinguishes. A call that the code refuses without a trace is no step.

## Runs

| Run | Instance | Shows |
|---|---|---|
| `oms_one_order` | one order of quantity 2, three fill deliveries of which one is a redelivery | types, one submission, legal rows, projection against ledger, durable ambiguity, fills, refinement |
| `oms_shared_key` | three artifacts under one key, one with another quantity | one artifact per key |
| `control` | API in its own process or holding the runtime, two orders per cycle, an incident beyond the commands, a crash or failing write | switch against ledger; no cycle under a standing halt and at most one order after a trip; an accepted command takes effect. One idempotency key per command: two halts in one window are the proof's |
| `admission` | two phases, evidence that expires now or later, one failing append, restarts at any point | passes follow passes, memory against ledger, the plane's rows replay |
| `governor` | five modes, six profiles, requests that name one or none, three leases, one failing append | exclusive work, browsers through `admit_profile`; reservations fit and no lease leaks |
| `longrun` | one tick of horizon, lateness and grace, one restart of each process; two cutoffs of which one may be lost, a watchdog that may crash, a source or a linker that may | cases agree with predictions, attestations and links; an infeasible generation is fatal; fatal and certified are final |
| `trading` | Binance and Coinbase, two retries, a circuit of three failures, quantity 2; two account writers and three rows; two instruments, marks 10 and 20, fee 30, two fills or one and a move; one changed file; a wall time of 2 | an order is written once; the report is true; the books hold; limits hold after a fresh fill but for its fee, and are exceeded by at most an order each by those that follow; reduction is exact; a measurement is earned; lifecycle, qualification and Hermes end |
| `platform` | two symbols and four receipts; two retries and rounds; two runners of each kind; three updates of a book of one bid and two asks behind snapshots of one level a side; two sessions, keys, settings and tokens; two gates; one death, cut or edit each | bars, prompts, stability evidence, books, data runs, receipts and launches tell the truth |
| `research` | two symbols, contracts that end on and after the last outcome; two cards and registries; two soak configurations; three attempts; two forward cases; two lake writers, schemas and providers; three kinds of drill | the verdicts of canary, capability, soak, flow, forward, archive and evidence runs agree with what happened. `CanaryVerdictsAgree` also has what a step may not do (a failure in the watchdog's log is final), so it is checked as a temporal property |
| `oms_restart_refused` | violated | a second cancel leaves a ledger `_hydrate` refuses |
| `venue_filled_rejected` | violated | a filled order whose reply was lost is closed as rejected |
| `source_order` | violated | replayed and persisted bars are compared in different orders |

The bounds are the smallest at which the interesting cases happen. A fill must be
partial, final and redelivered: quantity 2 and three deliveries. A halt must land
between two checks of one cycle: two orders. A gate must pass, be blocked again
and let a later phase try: three records. The live plane must be authorized, ready
and active: three rows. A cap of one must be met by a second mode and by a third
lease. A circuit of three failures must open inside a call of three attempts. An
account row must follow the row of another writer: three rows. A race needs two
processes, and one of them must be able to die and be followed: one death and two
or three starts. A revised bar needs a second content and a receipt after
admission: four receipts. A snapshot must fall before, inside and after what was
lost, and the hidden ask must come to the front, be changed or stay: three updates that
remove or set the best ask or set the hidden one (`DepthMoves`). Two orders checked in one
state must both fill, or the market move between check and fill: two fills and moves
together (`MaxEvents`), with a fee large enough to end below the limit on cash. A case must be followed by one that never completes: two forward
cases. Sequences of calls are bounded only through the rows they write or the clock,
so every interleaving up to these is explored. `oms_one_order` has no bound on crashes
and restarts. Elsewhere one fault suffices for every single-fault scenario, and two
where a second fault meets the recovery of the first (`DurableFlow`, `Archive`,
`EvidenceRun`); more independent faults are not explored.

Deadlock is checked in the core runs, where a process may always restart or be
called. `longrun`, `trading`, `platform`, `research` and the two violated runs over their
modules have `CHECK_DEADLOCK FALSE`: scripts end, and a generation is over
when it is certified or dead.

### Fairness

- `control` (`FairSpec`): threads that are running finish their statements (weak
  fairness of each thread's step and of recording a command). `run_forever` calls
  `run_once` again after each cycle, and an owner who calls on the loop's thread
  returns to it, so the loop's step gets strong fairness. The process ends once
  `run_forever` has returned, and the supervisor of the operations runbook starts it
  again (`Exit`, `Restart`). Crashes, failing writes and commands get no fairness.
- `trading`: the lifecycle script goes on (`LifecycleStep`) and its clock moves
  (`DeadlinePasses`), since the poll compares its deadline with
  `time.monotonic`; the thread of a qualification takes its steps (`ParentStep`,
  with the timeout of `communicate`); the parent of a Hermes task takes its
  (`ParentRuns`, with the timeout of `join`). The venue, the worker, its helpers and
  the task are not fair: the three must end whatever these do.
- Nothing else is fair; the other properties are safety.

## Proofs

Every theorem below is of the form `Spec => []P` (or `[][A]_vars`, or a refinement) for
every value of the constants that satisfies the module's named assumption, and so for
any number of orders, rows, runs, retries, deaths and restarts where TLC has a handful.
The assumptions say that bounds are natural numbers, that model values differ, and what
the code validates at its entry: a mode allows at most one GPU job and GPU work asks
for the GPU (`ConfigAssumption`, `RequestAssumption`: `ModeConfig`, `ResourceRequest`; of
the profile a request names nothing is assumed, since the code refuses none),
a contract of the long run was frozen with room for its minimum
(`ScenarioAssumption`), a canary's contract passed its validator (`CanaryAssumption`),
an archive has two providers (`ArchiveAssumption`), phases are ordered
(`AdmissionAssumption`), quantities are positive (`OrderAssumption`, `FillAssumption`),
the ratio of a split is positive (`AccountConstants`).

In each module one lemma per action shows that the step preserves the inductive
invariant, often one per action and conjunct. Where an action is long (a pass of the
candidate, an admitted append, a runner's cycle) a lemma first says what it may do to
which variables, and the conjuncts are preserved by every step of that kind.

### Core

- `OrderManagerProofs`: `NeverSubmittedTwice`, `ProjectionAgrees`, `TypeCorrect`,
  `KeysAreUnique`, `LedgerStaysLegal`, `Refinement`, `AmbiguityDurable`,
  `FillsAccountedForTheorem`. The invariant adds `RowsAscend` (no row of an order is
  further along than its last row, in the ranking `Rank`; without it a skipped repeated
  row could hide a step back), `ExposureIsDurable` (a submission has its routed row) and
  `CallsOK` (a call about to submit has that row, has not submitted and its order is
  still routed; so a restart between row and submission finds "routed", and `route`
  refuses it). Ambiguity needs what a call in progress has already moved
  (`AmbiguousCalls`). The fills need that a running process knows the durable ones
  (`FillCalls`), that every row was earned by the fills behind it (`RowsEarned`) and a
  sum that grows by one fill at a time (`FillsCounted`).
- `PaperControlProofs`: `SwitchMatchesLedgerTheorem`, `HaltStopsTradingTheorem`. Three
  layers: what a thread has still to run (`Threaded`: a ledger write is followed at once
  by the attribute it announces); the switch between row and attribute (`SwitchInv`);
  the cycle (`TripInv`, `HaltInv`: in a cycle that began under a halt something is still
  to run, or done, that keeps it from trading).
- `PlatformProofs`, gates and live plane: `LedgersReplayTheorem`,
  `ReadyIsAuthorizedTheorem`. `AdmissionInv` has one named part per ledger; memory is
  ahead of a ledger only after an append that raised (`NothingLost`), and all
  authorization rows name the same authorization (`OneAuthorization`), which is why any
  prefix of the log replays.
- `ResourceGovernorProofs`: `ExclusiveWorkHolds`, `GovernorTypeCorrect`,
  `GrantsAreBackedTheorem`. A grant is compared with the leases of all modes; a Browser
  profile is compared with all others by `admit_profile` only, so of those at most one is
  there and the ones of `admit` are left out. That the
  reservations fit is a statement about a sum over a finite set, and every admission
  adds one term that was measured against the rest.

### Long run

- `LongRunProofs`: `CasesTheorem`, `InfeasibleTheorem`, `VerdictsTheorem`. A coordinator
  call decides on one read of the ledger and appends after another, so the invariant
  says of every pending call why its append will still be right (`CallFits`), what the
  position of candidate and linker in their pass tells (`CandidatePlaced`,
  `LinkerPlaced`), that the state only moves forward until it is fatal (`Ordered`), which
  process wrote its terminal status (`StatusesFit`), and that one exclusion too many is
  still in the hands of the call that makes the generation fatal (`Accounted`).

### Trading

- `TradingProofs`, venue: `WrittenOnceTheorem`, `ReportIsTrueTheorem`. Every write that
  may still reach the venue was counted by an attempt (`WritesCounted`), a terminal
  answer stays true (`AnswersHold`), and an order is closed after the venue closed it.
- Risk: `FillsTheorem`. `FreshOrdersFit` remembers for each fresh order that the account
  and the marks of its check are still those of now, so its fill leaves what the check
  computed, less the fee. `FillsInv` bounds what the fills behind it may add: one changed
  term of the sums behind gross and net (`SumChanged`, `OrderMovesBy`), by no more than the
  size of an order.
- Risk, reduction: `ReductionTheorem`. The bisection is a recursive function whose loop
  invariant (the lower end is zero or passes the kernel, the upper end does not) is
  carried to its last step by a least counterexample (`BisectionRuns`, `BisectionFinds`).
  That a smaller factor is safer is assumed nowhere, since it is not so: the result is
  some factor that passes, not the largest one, and it is zero only if the smallest step
  towards the target is refused.
- Runtime qualification: `MeasuredIsEarnedTheorem`. Versions verified before the start
  and found again by the worker are those it was started with (`PinnedVersions`).
- Account: `BooksHoldTheorem`, for any set of bookings. The ledger half
  (`SoleWriterTheorem`): a replay is a recursive function; that it has a value for every
  ledger, and that a further row leaves the values before it alone, is shown from a
  smallest counterexample. The balance half: each kind of booking keeps cash and the cost
  of the position equal to the opening balance with every gain, fee and transfer
  (`BookingBalances`), of which the fill is the hard one, since it may open, grow, shrink,
  close or cross the position (`FillCost`). The invariant speaks of the accounts in memory
  and of those the rows were hashed from, because a restart takes over one of the latter.
- Isolated task: `HermesTheorem`, the safety half of `HermesAnswersTruthfully`; where the
  parent is tells what the child still is (`ParentFits`): only a child that has ended is
  judged, by an answer that says what was tried.

### Platform

- `PlatformProofs`, launch: `LaunchTheorem`; where a launcher is tells what it has
  started and seen live (`LaunchersFit`), and what was written rests on that.
- Gateway: `PromptsTheorem`; whoever may still be asked is of the decided tier or an
  allowed fallback (`RoutesFit`), and nobody has stopped a completion that goes on.
- Stability runs: `StabilityTheorem`; the holder of the lock knows the log (`LockInv`),
  nobody knows more (`KnownInv`), samples are taken within target and cap (`SampleInv`),
  what was paid is in the log, about to be, or was lost with its runner (`SpendInv`).
- Console: `ReceiptsTheorem`; spent tokens are nobody's any more (`TokenInv`), the
  pointer names a whole logged bundle (`StoreInv`), memory is the receipts file but for
  appends that raised (`ReceiptInv`). That the limiter bounds failures needs that
  dropping an old prefix keeps the rest in order.
- Depth book: `BookIsProvidersTheorem`. The messages on file are ranges of the provider's
  updates (`DepthTypes`), and the recovery, message after message, holds the provider's
  book after its last update, without the levels its snapshot cut off and no update since
  touched, or has failed for good (`BookFits`); this is so for every order in which files
  of several processes interleave equal sequence numbers, and for every limit.
- Public data run: `DataRunTheorem`. The holder of the lock knows the health ledger
  (`Knows`) and which pairs have their sample of this cycle (`Placed`); only a run that
  sampled every pair at the end of the window can call it complete (`JobFits`). The review
  counts samples; that the count of a cycle leaves no pair out or twice is a fact about
  injections between finite sets (`CountedOnce`).

- Source: `SourceFinalityTheorem`. The invariant speaks of the replay of the whole raw
  spool (`ReplayIsSound`), which one more receipt extends by one observation, and of how
  far the live process follows it (`LiveFollows`: what it holds, with the bars of the
  receipt it has yet to observe, is the replay). A row in a file of bars or revisions is
  one the replay derives, so files cut short by a crash only lack rows that the next
  start restores. A start is refused for a fatal status, a missing or torn file or a
  contradicted bar, and for nothing else (`RefusedForCause`).

### Research

- `ResearchProofs`: `FlowRowsTheorem` (`FlowInv`: nothing is written ahead of the
  attempt, the row of a retry comes before the attempt that may repeat an effect, and a
  task that returned without a row lost it to a fault),
  `PublishedEvidenceTheorem` (`DrillInv`: the child says what it read; `HandlesInv`: who
  has the pointer's files open, and what they hold; `AloneInv`), `ActiveIsEarnedTheorem`
  (`CapInv`: a shelf has its row, and one writer replays its own rows),
  `SoakEvidenceTheorem` (`SoakInv`: one configuration, order of time, a lock holder that
  is alone over its log), `ArtifactsTheorem` (`LakeInv`: the artifact is there before
  anyone describes it, and who opened the manifest writes it; `PayloadsKept`),
  `CanaryTheorem` (`SeenInv`, `AskedInv`: a run that may still predict has rejected
  nothing; `SettledInv`: after a complete run reached its deadline nothing more is
  predicted; `AuditInv`). `CanaryTheorem` proves a safety invariant and an action property
  together.
- Forward evidence: `ForwardEvidenceTheorem`. `ReceiptsInOrder` and `BarsAreReceived` tie
  the normalized bars to the raw spool, one row per interval; `CasesStand`,
  `RejectionsStand`, `PredictionsStand` and `MissesStand` say of each row of the worker
  why a later look at the grown files would decide the same, which is what a resumed
  worker does; `ReportStands` says that of the audit, which reads the files at different
  times.

### How sums, recursion and counting are handled

Induction schemes with an operator parameter cannot be instantiated by the provers, so
every induction is made from a least counterexample (`LeastNat` over numbers,
`SharedLemmas` over finite subsets). In this way `SharedLemmas` derives the equations of
the community modules' `SumFunctionOnSet`, `TradingProofs` those of the account's
`Replay` and of the bisection, and `PlatformProofs` those of `RecoverBinanceDepth` and of
the source's `Replay`. No module with proofs reaches a RECURSIVE operator.

### Only model-checked

Every safety invariant and action property of the passing runs is proved. Liveness is
not, because fairness and ENABLED are out of the prover's reach: `CommandTakesEffect`,
`SupervisedRunEnds`, `QualificationEnds` and the other half of `HermesAnswersTruthfully`,
that a task ends. The three violated runs are counterexamples of TLC.

## Promises the code does not keep

The three violated runs quote the lines they contradict in `PROJECT.json` under
`findings`. Seven more statements of the documents are defined in the modules and do
not hold; each is a sentence of a comment, a runbook or the architecture document, and
TLC finds a counterexample when the definition is named as an invariant or property:

- `ReconciledIsNotAmbiguous` (`OrderManager`): an order that was resolved can stay
  among the ambiguous ones for ever.
- `NewestMismatchHolds` (`PaperControl`): an older resume overrides a repeated trip of
  the reconciliation.
- `ResumeNeedsCleanReconciliation` (`PaperControl`): a resume is accepted after a
  mismatch that wrote no row because an equal row was there already.
- `RestartNeverRefused` (`Admission`): expired evidence keeps `PhaseGateRegistry`
  from starting.
- `TrainIsExclusive` (`ResourceGovernor`): Hermes or a browser starts beside a trainer,
  if it comes after it.
- `OneBrowserJob` (`ResourceGovernor`): "browser: one page/context-heavy job" is a cap of
  `admit_profile` only; `admit` compares a browser request that names the Browser profile
  with no lease (`_concurrency_rejection`, governor.py:473-478), and grants a second one.
- `CondemnedOnlyForCause` (`LongRun`): a healthy generation is made fatal by a
  watchdog that read status files before the ledgers.

### Trading

- The second visit to partially_filled or cancel_pending writes no row (the key is
  the order's key and the row type), so a restart may take a pending cancellation
  for a partial fill or the reverse; `ProjectionMatchesLedger` allows exactly this.
- A redelivered fill under a new artifact is published under that artifact, which
  is not the one of the ledger row, and moves a cancel_pending order back to
  partially_filled.
- `trip` and `reset` on two threads can leave the switch cleared behind a ledger
  whose last event is a trip; `SwitchMatchesLedger` is stated for one writing thread.
- With the runtime bound to the dashboard, a second halt may overtake the first
  command: its trip has its row, but not yet its attribute, when the loop reads both, and
  one cycle begins under a halt. `NoCycleTradesUnderHalt` allows exactly this; the switch
  is then on before that thread does anything else. An owner who calls `trip` and `reset`
  on a thread of its own is excluded from that property, because the two undo each other
  in any order.
- `promote` enables a disabled model again, and `register` accepts any lifecycle
  state without evidence. `PhaseGateRegistry.record` and
  `LiveControlPlane._transition` change memory first: after a failing append the
  retry is answered from memory, and a rollback can be lost by a restart.
- An order partially filled at the poll deadline is neither cancelled nor closed.
  Coinbase and the generic connector repeat POSTs whose reply timed out (Binance does
  not); Coinbase's query without a known venue id lists open orders only; Binance's
  `query_order` takes any HTTP 400 for an absent order.
- Two processes that write one account ledger leave a row whose state hash the next
  hydration refuses. `equity` values a position without a mark at zero. Orders still
  working are not counted by `check_order`, and neither is a fee, which `apply_fill` takes
  from cash; `FillsKeepLimits` says how far either may lead. A limit on `price_collar_bps` rejects
  every target.

### Platform

- Gateway: a route whose identity does not match raises outside the `try`; the key of
  a call record contains the attempt but its payload the latency, so that a repeated
  request conflicts; attempts before a policy rejection are not recorded; a transport
  error of any kind ends the fallback; the OpenAI-compatible adapter refuses the
  dynamic public policy always.
- Runtime qualification: weights and packages are verified before the worker is
  identified and not again; after the kill of a timeout `communicate()` waits without
  limit for whoever still holds the pipe (`PipeHeld`, the exception in
  `QualificationEnds`); a process the monitor never sampled may outlive a result; the
  built-in path has no time limit.
- Hermes: the parent joins before it reads, so an answer larger than the pipe is
  reported as `wall_time_budget_exceeded`; a task that raises `SystemExit` leaves no
  answer; the second join has no limit (the exception `deaf`).
- Stability runs: the remote summary measures elapsed time by the wall clock of its
  writer; a restart after a failed sample goes on although the comment calls the run
  invalidated; gaps between samples are not noticed; a torn line refuses a resume.
- Depth book: levels below the limit of the snapshot are missing from a book the recovery
  passes, whose best price may therefore be wrong; the script says that it does not need a
  full-depth snapshot.
- Public data run: a crash between `config.json` and `fault-drills.json` leaves drills
  that are never written; one in the middle of a cycle makes the run unreviewable, one
  between samples and selection is not noticed by the validator; summary and status
  are written after the lock is given back; a start after completion runs another
  cycle; raw directories of a dead cycle are used again.
- Console: a torn bundle stays under its final name; an activation is logged before
  the pointer is replaced; a receipt remembered whose append failed is answered from
  memory; `set_mode` has no effect on an overview read from the ledger.
- Source: a crash between the manifest and the first status makes the collector refuse
  for ever.
- Launch: with the scripts as they are no launch can succeed (the linker's parser
  refuses `--outcome-root`, the scheduler's first status lacks fields the launcher
  requires, and the audit wants a `runtime_attestation_sha256` that `launch` never
  writes); `repaired` is the system without these three. A launcher's death orphans
  its components; a gate that cannot write its log turns a running launch into
  NOT_LAUNCHED; of two launchers the loser overwrites `launch.json`.

### Evidence

- Long run: two concurrent failures write two fatal rows; a crash between the exclusion
  row and `fail` leaves an infeasible generation that is not fatal until the watchdog
  looks; the linker's last status may be older than the candidate's, whereupon the audit
  refuses a healthy generation; a crash between PREFLIGHT_READY and RUNNING_WARMUP
  strands it; the watch script passes a keyword its callee does not have.
- Canary: a failing launcher terminates the collector only; the watchdog gives a
  missing status file three attempts of 10 ms; a contract that ends with its last
  outcome hour can never qualify; a second audit always conflicts; CANARY_FAILED is
  forgotten by a restart between polls. A watchdog that is started again after COMPLETE
  may log a failure behind it (a candidate run again and stopped after the deadline);
  the reverse is excluded.
- Forward: a completed case also has an earlier row that calls it incomplete; a revised
  bar only degrades health, and blocks the newer bars of the same response; a crash
  between the bar and the health row makes the audit raise for ever; the audit hashes
  the files after it has read them; a bar that was still open when the last response
  was made counts as required (`v3core_integrity.py`), where the integrity runbook
  says that open rows do not establish content; at its target the worker has usually
  predicted a cutoff whose case never completes, and the workflow refuses the root.
- Soak: a race for `config.json` can make the root unusable; a torn line refuses resume
  for ever; a failed append loses the record of a cycle that ran; gaps go unnoticed.
- Durable flow: a task that took effect is run again when it then raises, or when the row
  of its success does, and the flow may end as failed; a death between the row of a
  success and the return leaves a success its caller never learns of; a success after a failure keeps the earlier `error`; nothing
  resumes a flow whose process died.
- Capabilities: a card built again from one candidate has a fresh artifact id and is
  refused as a changed version; a registry that missed a deprecation appends behind
  it and the next hydration refuses; an executor handed out stays usable.
- Lake and archive: an artifact without a manifest, or with a torn one, is refused for
  ever; a writer that finds another's manifest being created returns before it is
  whole; a second archive run with another conclusion conflicts with the row of the
  first; the drill for a missing object passes when the provider is not reachable.
- Evidence scripts: two runs under one root share `.latest.tmp`. The second truncates
  what the first has written, `latest.json` may name an older run or stay empty, and
  the first run's `os.replace` raises with its report already on disk. A child that
  is killed after writing its report fails the run that it passed.

## Plan

The state machines of the repository are modelled. What is worth adding, most
important first:

1. A composition of `Account` with the fills of `OrderManager`, and of `Canary` with
   `SourceFinality`; each is now checked, and proved, against an input that the other
   explains.
2. `GatewayChain`, the older gateway path without profiles, beside `ModelGateway`.
3. The Phase-3 one-off qualification as a scenario of `PublicDataRun`.

## Not modelled

`PROJECT.json` gives the reason for each component. In short: numeric and statistical
code (features, attribution, evaluation of recorded data, embeddings), field validation
of data types, rendering, signing and parsing of venue messages, downloads and
benchmarks of external model runtimes, constant catalogues, adapters that only name a
runtime, and append-only records no control decision reads (learning, memory,
observability). None has state that interleavings or failures could put out of order,
or it lies outside the repository's code. The event spool is a single-writer file of the
kind `Forward` and `SourceFinality` model; the raw spool of the stream probes is not
modelled on its own (it refuses a message equal to an earlier one with other metadata,
which ends the connection).
