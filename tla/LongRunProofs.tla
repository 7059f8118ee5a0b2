--------------------------- MODULE LongRunProofs ----------------------------
(***************************************************************************)
(* Proofs about one generation of the long run, for every contract and any *)
(* number of restarts: what the cases say is true of predictions,          *)
(* attestations and links; a generation that cannot reach its clean        *)
(* minimum becomes fatal; and both verdicts, fatal and certified, stand.   *)
(*                                                                         *)
(* A coordinator call decides on one read of the event ledger and appends  *)
(* after another, so the invariant says of every pending call why its      *)
(* append will still be right when the lock is taken (CallFits), and of    *)
(* candidate and linker what their position in a pass tells (Placed).      *)
(***************************************************************************)
EXTENDS LongRun, FiniteSetTheorems, TLAPS

States == {"PREREGISTERED", "PREFLIGHT_READY", "WARMUP", "RUNNING", "TERMINALIZING", "DEADLINE_REACHED", "FATAL"}
CaseRecords == [st : {"none", "pending", "excluded", "clean"}, pid : BOOLEAN]
CaseOps == {"pending", "excluded", "clean"}
Ops == CaseOps \union {"none", "fail", "transition", "recovery", "check"}
Calls == [op : Ops, to : States \union {"none", "healthy", "collector", "candidate"}, o : Nat, pid : BOOLEAN,
          seen : States \union {"none"}, ok : Labels, raise : {"dead", "conflict", "blind"}]

\* Where a pass of the candidate is between the reading of its clock and its status.
Walking == {"loop", "warm", "case", "next", "infer", "attest", "conflict", "failed"}

LedgerShape ==
    /\ contract \in Scenarios /\ state \in States /\ fatals \in Nat
    /\ cases \in [Ordinals -> CaseRecords]
    /\ entries \subseteq Ordinals
    /\ DOMAIN durable \subseteq entries /\ durable \in [DOMAIN durable -> Nat]
    /\ links \subseteq DOMAIN durable
ThreadShape ==
    /\ now \in Nat /\ bars \in Nat /\ run \in [Processes -> Nat]
    /\ at \in [candidate : Nat, linker : Nat]
    /\ saw = [source |-> saw.source, candidate |-> saw.candidate, outcome |-> saw.outcome,
              attested |-> saw.attested, bars |-> saw.bars]
    /\ saw.attested \subseteq DOMAIN durable
CallShape == pc \in [Processes -> Labels] /\ call \in [Processes -> Calls]
Shape == LedgerShape /\ ThreadShape /\ CallShape

InTime(o) == o \in DOMAIN durable /\ durable[o] <= Deadline(o)

\* Links and clean cases are of predictions attested in time.
Truthful ==
    /\ \A o \in links : InTime(o) /\ cases[o].st \in {"pending", "clean"}
    /\ \A o \in CasesIn("clean") : o \in links

\* The candidate excludes a case without a prediction or with a late one, the linker
\* one without a link, and calls a case clean that has its link.
Promised(p, c) ==
    /\ c.op \in CaseOps => p \in {"candidate", "linker"} /\ c.o \in Ordinals
    /\ c.op = "excluded" =>
          /\ c.ok \in {"next", "late"}
          /\ p = "linker" => c.o \notin links
          /\ p = "candidate" => c.o \notin entries \/ (c.o \in DOMAIN durable /\ ~InTime(c.o))
    /\ c.op = "clean" => p = "linker" /\ c.o \in links
    /\ c.ok \notin {"infer", "attest", "lock", "tail"}
    /\ c.ok = "clean" => p = "linker" /\ at.linker \in links
    /\ c.ok = "link" => /\ p = "linker" /\ c.op = "pending" /\ c.o = at.linker
                        /\ InTime(at.linker) /\ at.linker \notin links
    /\ c.ok = "fresh" => c.op = "recovery" /\ c.raise = "dead"
    /\ c.op = "fail" => c.to = "FATAL"
    /\ c.op = "transition" => p = "candidate" /\ <<c.to, c.ok>> \in
          {<<"PREFLIGHT_READY", "ready">>, <<"WARMUP", "boot">>, <<"RUNNING", "warm">>,
           <<"TERMINALIZING", "half">>, <<"DEADLINE_REACHED", "final">>}
CallFits(p) ==
    /\ pc[p] \notin {"lock", "tail"} => call[p] = NoCall
    /\ pc[p] = "lock" => call[p].op # "none"
    /\ pc[p] = "tail" => call[p].op = "excluded"
    /\ Promised(p, call[p])

\* A prediction lacks its attestation only where a crash or the next step explains it.
CandidatePlaced ==
    /\ pc.candidate = "infer" => at.candidate \in Ordinals \ entries
    /\ pc.candidate = "attest" => at.candidate \in entries \ DOMAIN durable
    /\ \A o \in entries \ DOMAIN durable :
          \/ pc.candidate \in {"dead", "fresh"} \/ (pc.candidate = "lock" /\ call["candidate"].ok = "fresh")
          \/ pc.candidate = "attest" /\ o = at.candidate

LinkerPlaced ==
    /\ pc.linker = "clean" => at.linker \in links
    /\ pc.linker = "link" => InTime(at.linker) /\ at.linker \notin links /\ cases[at.linker].st = "pending"

\* Before the generation is fatal no process appends under a state that is over, and
\* the candidate is in no pass once the deadline work has begun.
Rank == [PREREGISTERED |-> 0, PREFLIGHT_READY |-> 1, WARMUP |-> 2, RUNNING |-> 3,
         TERMINALIZING |-> 4, DEADLINE_REACHED |-> 5, FATAL |-> 6]
SeenFits(p) ==
    call[p].op \notin {"none", "transition", "fail"} =>
        call[p].seen \in States \ {"FATAL"} /\ Rank[call[p].seen] <= Rank[state]
WalkFits ==
    state \in {"TERMINALIZING", "DEADLINE_REACHED"} =>
        /\ pc.candidate \notin Walking
        /\ pc.candidate \in {"lock", "tail"} =>
              call["candidate"].ok \notin Walking /\ call["candidate"].raise = "dead"
Ordered == ~Latched => state # "FATAL" /\ (\A p \in Processes : SeenFits(p)) /\ WalkFits

\* A terminal status is the last one of its process.
StatusesFit ==
    /\ sourceStatus.st \in TerminalStates => pc.collector = "done"
    /\ outcomeStatus.st \in TerminalStates => pc.linker = "done"
    /\ watchdogStatus.terminal => pc.watchdog = "done"
    /\ ~Latched /\ candidateStatus.st \in TerminalStates => pc.candidate = "done"
    /\ report = "certified" => \A p \in Processes : pc[p] = "done"

\* Whoever excludes one case too many is still in the call that makes it fatal, or died in it.
Excuses(p) == \/ pc[p] \in {"tail", "dead"} \/ run[p] > 0
              \/ pc[p] = "lock" /\ call[p].op = "fail"
Accounted == Feasible \/ Latched \/ \E p \in Processes : Excuses(p)

LongRunInv ==
    /\ Shape /\ Truthful /\ (\A p \in Processes : CallFits(p)) /\ CandidatePlaced /\ LinkerPlaced
    /\ Ordered /\ StatusesFit /\ Accounted

---------------------------------------------------------------------------
(* What a step may move.                                                   *)

Others(p) == \A q \in Processes : q # p => pc'[q] = pc[q] /\ call'[q] = call[q]
MovesTo(p, label) ==
    CallShape' /\ pc'[p] = label /\ call'[p] = NoCall /\ Others(p)
Asks(p, c) ==
    CallShape' /\ pc'[p] = "lock" /\ call'[p] = c /\ Others(p)
CallOf(op, to, o, pid, ok, raise, seen) ==
    [op |-> op, to |-> to, o |-> o, pid |-> pid, ok |-> ok, raise |-> raise, seen |-> seen]

\* The states of a generation before it is fatal have an order, and a transition goes one up.
LEMMA RankIs ==
    /\ Rank \in [States -> Nat] /\ DOMAIN Transitions = States
    /\ \A s \in States : "FATAL" \in Transitions[s] \/ s = "FATAL"
    /\ \A s, t \in States : t \in Transitions[s] /\ s # "FATAL" => Rank[s] < Rank[t]
BY DEF Rank, States, Transitions

\* An idle process has a call record too.
LEMMA NoCallIs == NoCall \in Calls
BY DEF NoCall, Calls, Ops, Labels, States

\* A process that is in no call goes to a label.
LEMMA GotoIs ==
    ASSUME CallShape, NEW p \in Processes, CallFits(p), pc[p] \notin {"lock", "tail"},
           NEW label \in Labels, Goto(p, label)
    PROVE  MovesTo(p, label)
BY NoCallIs DEF CallShape, CallFits, Goto, MovesTo, Others

\* A process whose call is over goes to a label and has no call.
LEMMA ReturnIs ==
    ASSUME CallShape, NEW p \in Processes, NEW label \in Labels, Return(p, label)
    PROVE  MovesTo(p, label)
BY NoCallIs DEF CallShape, Return, MovesTo, Others

\* A coordinator method returns at once, raises at once, or goes for the lock.
LEMMA InvokeIs ==
    ASSUME CallShape, state \in States, NEW p \in Processes, NEW op \in Ops,
           NEW to \in States \union {"none", "healthy", "collector", "candidate"}, NEW o \in Nat,
           NEW pid \in BOOLEAN, NEW ok \in Labels, NEW raise \in {"dead", "conflict", "blind"},
           Invoke(p, op, to, o, pid, ok, raise)
    PROVE  \E c \in Calls :
             /\ c.op = op /\ c.to = to /\ c.o = o /\ c.pid = pid /\ c.ok = ok /\ c.raise = raise
             /\ (op # "check" \/ ~Latched => c.seen = state)
             /\ \/ AlreadyRecorded(c) /\ MovesTo(p, ok)
                \/ RefusedAtOnce(c) /\ MovesTo(p, raise)
                \/ ~AlreadyRecorded(c) /\ Asks(p, c)
<1> DEFINE s == IF op = "check" THEN Scientific ELSE state
           c == CallOf(op, to, o, pid, ok, raise, s)
<1>1. s \in States /\ (op # "check" \/ ~Latched => s = state)
  BY DEF Scientific, States
<1>2. c \in Calls
  BY <1>1 DEF CallOf, Calls
<1>3. c = [op |-> op, to |-> to, o |-> o, pid |-> pid, ok |-> ok, raise |-> raise,
           seen |-> IF op = "check" THEN Scientific ELSE state]
  BY DEF CallOf
<1>4. raise \in Labels /\ "lock" \in Labels
  BY DEF Labels
<1> HIDE DEF s, c
<1>5. \/ AlreadyRecorded(c) /\ Return(p, ok)
      \/ RefusedAtOnce(c) /\ Return(p, raise)
      \/ ~AlreadyRecorded(c) /\ pc' = [pc EXCEPT ![p] = "lock"] /\ call' = [call EXCEPT ![p] = c]
  BY <1>3 DEF Invoke
<1>6. Return(p, ok) => MovesTo(p, ok)
  BY ReturnIs
<1>7. Return(p, raise) => MovesTo(p, raise)
  BY <1>4, ReturnIs
<1>8. pc' = [pc EXCEPT ![p] = "lock"] /\ call' = [call EXCEPT ![p] = c] => Asks(p, c)
  BY <1>2, <1>4 DEF Asks, CallShape, Others
<1>9. \/ AlreadyRecorded(c) /\ MovesTo(p, ok)
      \/ RefusedAtOnce(c) /\ MovesTo(p, raise)
      \/ ~AlreadyRecorded(c) /\ Asks(p, c)
  BY <1>5, <1>6, <1>7, <1>8
<1>10. /\ c.op = op /\ c.to = to /\ c.o = o /\ c.pid = pid /\ c.ok = ok /\ c.raise = raise
       /\ (op # "check" \/ ~Latched => c.seen = state)
  BY <1>1, <1>3 DEF s
<1> QED
  BY <1>2, <1>9, <1>10
---------------------------------------------------------------------------
(* What stays while another process moves.                                 *)

Quiet == UNCHANGED <<state, fatals, cases, recovered, entries, durable, links, contract>>

\* Ledgers grow, the candidate alone writes predictions and the linker alone links.
Later(q) ==
    /\ contract' = contract
    /\ DOMAIN durable \subseteq DOMAIN durable' /\ \A o \in DOMAIN durable : durable'[o] = durable[o]
    /\ q = "candidate" => entries' = entries
    /\ q = "linker" => links' = links /\ at'.linker = at.linker

\* A step of p that writes no event and no link; predictions and attestations are the candidate's.
Growth(p) ==
    /\ UNCHANGED <<state, fatals, cases, recovered, links, contract>>
    /\ entries \subseteq entries' /\ DOMAIN durable \subseteq DOMAIN durable'
    /\ \A o \in DOMAIN durable : durable'[o] = durable[o]
    /\ p # "candidate" => UNCHANGED <<entries, durable>>
    /\ LedgerShape'

\* A step that leaves the ledgers alone is the simplest growth.
LEMMA QuietIsGrowth ==
    ASSUME LongRunInv, Quiet, NEW p
    PROVE  Growth(p)
BY DEF LongRunInv, Shape, Quiet, LedgerShape, Ordinals, Growth

\* What a step adds to the ledgers is later for everybody else.
LEMMA GrowthIsLater ==
    ASSUME NEW p, Growth(p), NEW q, q # p, q = "linker" => at'.linker = at.linker
    PROVE  Later(q)
BY DEF Growth, Later

\* What justifies a pending call does not change under the steps of others.
LEMMA StillFits ==
    ASSUME NEW q \in Processes, CallFits(q), pc'[q] = pc[q], call'[q] = call[q], Later(q)
    PROVE  CallFits(q)'
<1>1. \A o \in DOMAIN durable : o \in DOMAIN durable' /\ (InTime(o)' <=> InTime(o))
  BY DEF Later, InTime, Deadline, Cutoff
<1>2. Ordinals' = Ordinals
  BY DEF Later, Ordinals
<1>4. q = "candidate" => entries' = entries
  BY DEF Later
<1>5. q = "linker" => links' = links /\ at'.linker = at.linker /\ (InTime(at.linker) => InTime(at.linker)')
  BY <1>1 DEF Later, InTime
<1> QED
  BY <1>1, <1>2, <1>4, <1>5 DEF CallFits, Promised

\* A pending append stays fit while the state of the generation is the same.
LEMMA SeenStays ==
    ASSUME NEW q \in Processes, SeenFits(q), call'[q] = call[q], state' = state
    PROVE  SeenFits(q)'
BY DEF SeenFits

\* A status that is written by nobody keeps its process where it ended.
LEMMA StatusesKept ==
    ASSUME StatusesFit, UNCHANGED statuses, Latched => Latched', NEW p \in Processes, Others(p), pc[p] # "done"
    PROVE  StatusesFit'
<1>1. UNCHANGED <<sourceStatus, candidateStatus, outcomeStatus, watchdogStatus, report>>
  BY DEF statuses
<1>2. \A q \in Processes : pc[q] = "done" => pc'[q] = "done"
  BY DEF Others
<1> QED
  BY <1>1, <1>2 DEF StatusesFit, Processes

\* Nobody becomes accountable while the cases and the latch stay.
LEMMA AccountedKept ==
    ASSUME Accounted, NEW p \in Processes, Growth(p), Others(p), \A q \in Processes : run[q] > 0 => run'[q] > 0,
           Feasible \/ Latched \/ (Excuses(p) => Excuses(p)')
    PROVE  Accounted'
<1>1. (Feasible <=> Feasible') /\ (Latched <=> Latched')
  BY DEF Growth, Feasible, Latched, CasesIn, Ordinals, MinClean
<1>2. CASE Feasible \/ Latched
  BY <1>1, <1>2 DEF Accounted
<1>3. CASE ~Feasible /\ ~Latched
  <2>1. PICK q \in Processes : Excuses(q)
    BY <1>3 DEF Accounted
  <2>2. Excuses(q)'
    <3>1. CASE q = p
      BY <1>3, <2>1, <3>1
    <3>2. CASE q # p
      BY <2>1, <3>2 DEF Excuses, Others
    <3> QED
      BY <3>1, <3>2
  <2> QED
    BY <2>2 DEF Accounted
<1> QED
  BY <1>2, <1>3

\* A step of p that writes no event and no link keeps the invariant when p's own part does.
LEMMA GrowthStep ==
    ASSUME LongRunInv, NEW p \in Processes, Growth(p), Others(p), ThreadShape', CallShape',
           p # "candidate" => at'.candidate = at.candidate,
           p # "linker" => at'.linker = at.linker,
           CallFits(p)', p = "candidate" => CandidatePlaced', p = "linker" => LinkerPlaced',
           ~Latched => SeenFits(p)' /\ (p = "candidate" => WalkFits'),
           StatusesFit', \A q \in Processes : run[q] > 0 => run'[q] > 0,
           Feasible \/ Latched \/ (Excuses(p) => Excuses(p)')
    PROVE  LongRunInv'
<1>1. LedgerShape'
  BY DEF Growth
<1>2. Truthful'
  BY DEF LongRunInv, Growth, Truthful, InTime, Deadline, Cutoff, CasesIn, Ordinals
<1>3. \A q \in Processes : CallFits(q)'
  <2> SUFFICES ASSUME NEW q \in Processes, q # p PROVE CallFits(q)'
    OBVIOUS
  <2>1. Later(q)
    BY GrowthIsLater
  <2> QED
    BY <2>1, StillFits DEF LongRunInv, Others
<1>4. CandidatePlaced'
  <2> SUFFICES ASSUME p # "candidate" PROVE CandidatePlaced'
    OBVIOUS
  <2> QED
    BY DEF LongRunInv, CandidatePlaced, Growth, Others, Processes, Ordinals
<1>5. LinkerPlaced'
  <2> SUFFICES ASSUME p # "linker" PROVE LinkerPlaced'
    OBVIOUS
  <2>1. at'.linker = at.linker /\ pc'.linker = pc.linker
    BY DEF Others, Processes
  <2> QED
    BY <2>1 DEF LongRunInv, LinkerPlaced, Growth, InTime, Deadline, Cutoff
<1>6. Ordered'
  <2> SUFFICES ASSUME ~Latched' PROVE state' # "FATAL" /\ (\A q \in Processes : SeenFits(q)') /\ WalkFits'
    BY DEF Ordered
  <2>1. ~Latched
    BY DEF Growth, Latched
  <2>2. \A q \in Processes : SeenFits(q)'
    BY <2>1, SeenStays DEF LongRunInv, Ordered, Growth, Others
  <2>3. WalkFits'
    <3> SUFFICES ASSUME p # "candidate" PROVE WalkFits'
      BY <2>1
    <3> QED
      BY <2>1 DEF LongRunInv, Ordered, WalkFits, Growth, Others, Processes
  <2> QED
    BY <2>1, <2>2, <2>3 DEF LongRunInv, Ordered, Growth
<1>7. Accounted'
  BY AccountedKept DEF LongRunInv
<1> QED
  BY <1>1, <1>2, <1>3, <1>4, <1>5, <1>6, <1>7 DEF LongRunInv, Shape

\* Being in no call promises nothing.
LEMMA NoCallFits == ASSUME NEW p PROVE Promised(p, NoCall)
BY DEF Promised, NoCall, CaseOps

\* A process goes to a label outside a call.
LEMMA LabelStep ==
    ASSUME LongRunInv, NEW p \in Processes, Growth(p), NEW label \in Labels \ {"lock", "tail"}, MovesTo(p, label),
           ThreadShape', StatusesFit',
           p # "candidate" => at'.candidate = at.candidate,
           p # "linker" => at'.linker = at.linker,
           p = "candidate" => CandidatePlaced', p = "linker" => LinkerPlaced',
           p = "candidate" /\ ~Latched => label \notin Walking \/ state \notin {"TERMINALIZING", "DEADLINE_REACHED"},
           \A q \in Processes : run[q] > 0 => run'[q] > 0,
           Feasible \/ Latched \/ (Excuses(p) => Excuses(p)')
    PROVE  LongRunInv'
<1>1. Others(p) /\ CallShape' /\ pc'[p] = label /\ call'[p] = NoCall
  BY DEF MovesTo
<1>2. CallFits(p)'
  <2>1. Promised(p, NoCall)'
    BY DEF Promised, NoCall, CaseOps
  <2> QED
    BY <1>1, <2>1 DEF CallFits
<1>3. SeenFits(p)'
  BY <1>1 DEF SeenFits, NoCall
<1>4. p = "candidate" /\ ~Latched => WalkFits'
  BY <1>1 DEF WalkFits, Growth
<1> QED
  BY <1>1, <1>2, <1>3, <1>4, GrowthStep

\* A coordinator call is made with what justifies it.
LEMMA InvokeStep ==
    ASSUME LongRunInv, NEW p \in Processes, Growth(p), NEW op \in Ops \ {"none"},
           NEW to \in States \union {"none", "healthy", "collector", "candidate"}, NEW o \in Nat,
           NEW pid \in BOOLEAN, NEW ok \in Labels, NEW raise \in {"dead", "conflict", "blind"},
           Invoke(p, op, to, o, pid, ok, raise),
           \A c \in Calls : (c.op = op /\ c.to = to /\ c.o = o /\ c.ok = ok /\ c.raise = raise)
                               => Promised(p, c)',
           ThreadShape', UNCHANGED statuses, pc[p] \notin {"done", "lock"},
           p # "candidate" => at'.candidate = at.candidate,
           p # "linker" => at'.linker = at.linker,
           p = "candidate" => entries' \subseteq DOMAIN durable' \/ (ok = "fresh" /\ raise = "dead"),
           p = "candidate" /\ ~Latched /\ state \in {"TERMINALIZING", "DEADLINE_REACHED"} =>
              ok \notin Walking /\ raise = "dead",
           \A q \in Processes : run[q] > 0 => run'[q] > 0,
           op = "fail" \/ run'[p] > 0 \/ pc[p] \notin {"tail", "dead"}
    PROVE  LongRunInv'
<1>1. CallShape /\ state \in States
  BY DEF LongRunInv, Shape, LedgerShape
<1>2. PICK c \in Calls :
        /\ c.op = op /\ c.to = to /\ c.o = o /\ c.pid = pid /\ c.ok = ok /\ c.raise = raise
        /\ (op # "check" \/ ~Latched => c.seen = state)
        /\ \/ AlreadyRecorded(c) /\ MovesTo(p, ok)
           \/ RefusedAtOnce(c) /\ MovesTo(p, raise)
           \/ ~AlreadyRecorded(c) /\ Asks(p, c)
  BY <1>1, InvokeIs, SMTT(30)
<1>3. Promised(p, c)'
  BY <1>2
<1>4. Others(p) /\ CallShape' /\ StatusesFit'
  <2>1. Others(p) /\ CallShape'
    BY <1>2 DEF MovesTo, Asks
  <2>2. Latched => Latched'
    BY DEF Growth, Latched
  <2> QED
    BY <2>1, <2>2, StatusesKept DEF LongRunInv
<1>5. ASSUME p = "linker", pc'[p] = ok, AlreadyRecorded(c)
      PROVE  LinkerPlaced'
  <2>1. ok = "clean" => at'.linker \in links'
    BY <1>2, <1>3 DEF Promised
  <2>2. ok = "link" => c.op = "pending" /\ c.o = at'.linker /\ InTime(at.linker)' /\ at'.linker \notin links'
    BY <1>2, <1>3 DEF Promised
  <2>3. AlreadyRecorded(c) /\ c.op = "pending" => cases'[c.o].st = "pending"
    BY DEF AlreadyRecorded, Case, Growth
  <2> QED
    BY <1>2, <1>5, <2>1, <2>2, <2>3 DEF LinkerPlaced
<1>6. p = "candidate" => CandidatePlaced'
  <2> SUFFICES ASSUME p = "candidate" PROVE CandidatePlaced'
    OBVIOUS
  <2>1. pc'[p] \notin {"infer", "attest"}
    BY <1>2, <1>3 DEF MovesTo, Asks, Promised
  <2>2. CASE entries' \subseteq DOMAIN durable'
    BY <2>1, <2>2 DEF CandidatePlaced, Growth
  <2>3. CASE ok = "fresh" /\ raise = "dead"
    <3>1. pc'[p] \in {"dead", "fresh"} \/ (pc'[p] = "lock" /\ call'[p].ok = "fresh")
      BY <1>2, <2>3 DEF MovesTo, Asks
    <3> QED
      BY <2>1, <3>1 DEF CandidatePlaced
  <2> QED
    BY <2>2, <2>3
<1>7. CASE AlreadyRecorded(c) /\ MovesTo(p, ok)
  <2>1. ok \in Labels \ {"lock", "tail"}
    BY <1>2, <1>3 DEF Promised
  <2>2. pc'[p] = ok
    BY <1>7 DEF MovesTo
  <2>3. p = "linker" => LinkerPlaced'
    BY <1>5, <1>7, <2>2
  <2>4. op = "fail" => Latched
    BY <1>2, <1>7 DEF AlreadyRecorded
  <2>5. Latched \/ (Excuses(p) => Excuses(p)')
    BY <2>4 DEF Excuses
  <2> QED
    BY <1>4, <1>6, <1>7, <2>1, <2>3, <2>5, LabelStep
<1>8. CASE RefusedAtOnce(c) /\ MovesTo(p, raise)
  <2>1. raise \in Labels \ {"lock", "tail"} /\ (raise # "dead" => raise \notin {"link", "clean"})
    BY DEF Labels
  <2>2. pc'[p] = raise
    BY <1>8 DEF MovesTo
  <2>3. p = "linker" => LinkerPlaced'
    BY <2>1, <2>2 DEF LinkerPlaced
  <2>4. op # "fail"
    BY <1>2, <1>8 DEF RefusedAtOnce
  <2>5. Excuses(p) => Excuses(p)'
    BY <2>4 DEF Excuses
  <2>6. "dead" \notin Walking
    BY DEF Walking
  <2> QED
    BY <1>4, <1>6, <1>8, <2>1, <2>3, <2>5, <2>6, LabelStep
<1>9. CASE ~AlreadyRecorded(c) /\ Asks(p, c)
  <2>1. pc'[p] = "lock" /\ call'[p] = c
    BY <1>9 DEF Asks
  <2>2. CallFits(p)'
    BY <1>2, <1>3, <2>1 DEF CallFits
  <2>3. ~Latched => SeenFits(p)'
    <3> SUFFICES ASSUME ~Latched, op \notin {"transition", "fail"} PROVE SeenFits(p)'
      BY <1>2, <2>1 DEF SeenFits
    <3>1. c.seen = state /\ state # "FATAL"
      BY <1>2 DEF LongRunInv, Ordered
    <3>2. state \in States
      BY DEF LongRunInv, Shape, LedgerShape
    <3> QED
      BY <2>1, <3>1, <3>2 DEF SeenFits, Growth, Rank, States
  <2>4. p = "candidate" /\ ~Latched => WalkFits'
    BY <1>2, <2>1 DEF WalkFits, Growth, Walking
  <2>5. p = "linker" => LinkerPlaced'
    BY <2>1 DEF LinkerPlaced
  <2>6. Excuses(p) => Excuses(p)'
    BY <1>2, <2>1 DEF Excuses
  <2> QED
    BY <1>4, <1>6, <2>2, <2>3, <2>4, <2>5, <2>6, GrowthStep
<1> QED
  BY <1>2, <1>7, <1>8, <1>9

\* A step that moves no process.
LEMMA IdleStep ==
    ASSUME LongRunInv, Quiet, ThreadShape', UNCHANGED <<pc, call, at, run>>, StatusesFit'
    PROVE  LongRunInv'
<1> DEFINE p == "collector"
<1>1. p \in Processes
  BY DEF Processes
<1>2. Others(p) /\ CallShape' /\ (Excuses(p) => Excuses(p)')
  BY DEF Others, LongRunInv, Shape, CallShape, Excuses
<1>3. Growth(p)
  BY QuietIsGrowth
<1>4. CallFits(p)'
  <2>1. CallFits(p) /\ Ordinals' = Ordinals
    BY <1>1 DEF LongRunInv, Quiet, Ordinals
  <2> QED
    BY <2>1 DEF CallFits, Promised
<1>5. ~Latched => SeenFits(p)'
  BY <1>1 DEF LongRunInv, Ordered, SeenFits, Quiet
<1> QED
  BY <1>1, <1>2, <1>3, <1>4, <1>5, GrowthStep

---------------------------------------------------------------------------
(* The candidate.                                                          *)

Ending == {"TERMINALIZING", "DEADLINE_REACHED"}

\* What holds after a step that only moves a process.
LEMMA StillIs ==
    ASSUME LongRunInv, UNCHANGED <<time, events, ledgers, at, clock, statuses, rest>>
    PROVE  Quiet /\ ThreadShape' /\ at' = at /\ run' = run /\ UNCHANGED statuses
BY DEF LongRunInv, Shape, ThreadShape, Quiet, time, events, ledgers, rest, statuses

\* record_fatal may be called anywhere outside another call, and after an exclusion.
LEMMA FailStep ==
    ASSUME LongRunInv, Quiet, NEW p \in Processes, NEW ok \in Labels \ {"infer", "attest", "lock", "tail", "clean", "link", "fresh"},
           Fail(p, ok), ThreadShape', UNCHANGED statuses, run' = run,
           p # "candidate" => at'.candidate = at.candidate,
           p # "linker" => at'.linker = at.linker,
           pc[p] \notin {"done", "lock", "dead"}, p = "candidate" => pc[p] \notin {"attest", "fresh"},
           p = "candidate" /\ ~Latched /\ state \in Ending => ok \notin Walking
    PROVE  LongRunInv'
<1>1. Invoke(p, "fail", "FATAL", 1, FALSE, ok, "dead")
  BY DEF Fail
<1>2. "fail" \in Ops \ {"none"} /\ "FATAL" \in States
  BY DEF Ops, States
<1>3. \A c \in Calls : (c.op = "fail" /\ c.to = "FATAL" /\ c.o = 1 /\ c.ok = ok /\ c.raise = "dead")
                          => Promised(p, c)'
  BY DEF Promised, CaseOps
<1>4. p = "candidate" => entries \subseteq DOMAIN durable
  BY DEF LongRunInv, CandidatePlaced
<1>5. ASSUME NEW pid \in BOOLEAN, Invoke(p, "fail", "FATAL", 1, pid, ok, "dead")
      PROVE  LongRunInv'
  BY <1>2, <1>3, <1>4, <1>5, QuietIsGrowth, InvokeStep DEF Ending, Quiet
<1> QED
  BY <1>1, <1>5, Zenon

\* The candidate turns to a label in a pass, at its boot or at its end.
LEMMA CandidateGoes ==
    ASSUME LongRunInv, Quiet, NEW label \in Labels \ {"lock", "tail", "infer", "attest"}, Goto("candidate", label),
           pc.candidate \notin {"lock", "tail", "dead", "fresh", "attest"},
           ThreadShape', StatusesFit', at'.linker = at.linker, run' = run,
           ~Latched => label \notin Walking \/ pc.candidate \in Walking \/ state \notin Ending
    PROVE  LongRunInv'
<1> DEFINE p == "candidate"
<1>1. p \in Processes /\ pc[p] = pc.candidate
  BY DEF Processes
<1>2. MovesTo(p, label)
  BY <1>1, GotoIs DEF LongRunInv, Shape
<1>3. CandidatePlaced'
  BY <1>2 DEF MovesTo, LongRunInv, CandidatePlaced, Quiet
<1>4. ~Latched => label \notin Walking \/ state \notin Ending
  BY DEF LongRunInv, Ordered, WalkFits, Ending
<1>5. Excuses(p) => Excuses(p)'
  BY <1>1 DEF Excuses
<1> QED
  BY <1>1, <1>2, <1>3, <1>4, <1>5, QuietIsGrowth, LabelStep DEF Ending

\* The same, when it publishes nothing.
LEMMA CandidateTurns ==
    ASSUME LongRunInv, Quiet, NEW label \in Labels \ {"lock", "tail", "infer", "attest"}, Goto("candidate", label),
           pc.candidate \notin {"lock", "tail", "dead", "fresh", "attest", "done"},
           ThreadShape', UNCHANGED statuses, at'.linker = at.linker, run' = run,
           ~Latched => label \notin Walking \/ pc.candidate \in Walking \/ state \notin Ending
    PROVE  LongRunInv'
<1>1. Others("candidate") /\ "candidate" \in Processes /\ pc["candidate"] # "done"
  BY DEF Goto, Others, Processes, LongRunInv, Shape, CallShape
<1>2. Latched => Latched'
  BY DEF Quiet, Latched
<1>3. StatusesFit'
  BY <1>1, <1>2, StatusesKept DEF LongRunInv
<1> QED
  BY <1>3, CandidateGoes

\* The candidate calls the coordinator; in a pass, or to end the generation.
LEMMA CandidateAsks ==
    ASSUME LongRunInv, Quiet, NEW op \in Ops \ {"none"},
           NEW to \in States \union {"none", "healthy", "collector", "candidate"}, NEW o \in Nat,
           NEW pid \in BOOLEAN, NEW ok \in Labels, NEW raise \in {"dead", "conflict", "blind"},
           Invoke("candidate", op, to, o, pid, ok, raise),
           \A c \in Calls : (c.op = op /\ c.to = to /\ c.o = o /\ c.ok = ok /\ c.raise = raise)
                               => Promised("candidate", c)',
           pc.candidate \notin {"lock", "tail", "dead", "fresh", "attest", "done"},
           ThreadShape', UNCHANGED statuses, at'.linker = at.linker, run' = run,
           pc.candidate \in Walking \/ (ok \notin Walking /\ raise = "dead")
    PROVE  LongRunInv'
<1> DEFINE p == "candidate"
<1>1. p \in Processes /\ pc[p] = pc.candidate
  BY DEF Processes
<1>2. entries \subseteq DOMAIN durable
  BY DEF LongRunInv, CandidatePlaced
<1>3. ~Latched /\ state \in {"TERMINALIZING", "DEADLINE_REACHED"} => ok \notin Walking /\ raise = "dead"
  BY DEF LongRunInv, Ordered, WalkFits
<1>4. Growth(p) /\ entries' = entries /\ durable' = durable
  BY QuietIsGrowth DEF Quiet
<1> QED
  BY <1>1, <1>2, <1>3, <1>4, InvokeStep

\* A transition of the generation is the candidate's alone.
LEMMA TransitionStep ==
    ASSUME LongRunInv, Quiet, NEW to, NEW ok, Transition("candidate", to, ok),
           <<to, ok>> \in {<<"PREFLIGHT_READY", "ready">>, <<"WARMUP", "boot">>, <<"RUNNING", "warm">>,
                           <<"TERMINALIZING", "half">>, <<"DEADLINE_REACHED", "final">>},
           pc.candidate \notin {"lock", "tail", "dead", "fresh", "attest", "done"},
           ThreadShape', UNCHANGED statuses, at'.linker = at.linker, run' = run,
           ok = "warm" => pc.candidate \in Walking
    PROVE  LongRunInv'
<1>1. Invoke("candidate", "transition", to, 1, FALSE, ok, "dead")
  BY DEF Transition
<1>2. "transition" \in Ops \ {"none"} /\ to \in States /\ ok \in Labels /\ ok \in {"ready", "boot", "warm", "half", "final"}
  BY DEF Ops, States, Labels
<1>3. \A c \in Calls : (c.op = "transition" /\ c.to = to /\ c.o = 1 /\ c.ok = ok /\ c.raise = "dead")
                          => Promised("candidate", c)'
  BY <1>2 DEF Promised, CaseOps
<1>4. pc.candidate \in Walking \/ ok \notin Walking
  BY <1>2 DEF Walking
<1>5. ASSUME NEW pid \in BOOLEAN, Invoke("candidate", "transition", to, 1, pid, ok, "dead")
      PROVE  LongRunInv'
  BY <1>2, <1>3, <1>4, <1>5, CandidateAsks
<1> QED
  BY <1>1, <1>5, Zenon

\* Cutoffs and deadlines are instants.
LEMMA ContractIs ==
    ASSUME LedgerShape
    PROVE  /\ Ordinals \subseteq Nat /\ Terminal \in Nat /\ TerminalCheck \in Nat
           /\ \A o \in Ordinals : Cutoff[o] \in Nat /\ Deadline(o) \in Nat
           /\ \A o \in DOMAIN durable : durable[o] \in Nat /\ o \in Ordinals
<1>1. FrozenContract(contract)
  BY ScenarioAssumption DEF LedgerShape
<1>2. contract.cutoff \in Seq(Nat) /\ contract.terminal \in Nat /\ contract.check \in Nat
  BY <1>1 DEF FrozenContract
<1>3. DOMAIN contract.cutoff = 1..Len(contract.cutoff) /\ Len(contract.cutoff) \in Nat
      /\ \A o \in DOMAIN contract.cutoff : contract.cutoff[o] \in Nat
  BY <1>2
<1>4. Lateness \in Nat
  BY WindowAssumption
<1> QED
  BY <1>2, <1>3, <1>4 DEF Ordinals, Terminal, TerminalCheck, Cutoff, Deadline, LedgerShape

\* The candidate accounts for a case in a pass.
LEMMA CandidateAccounts ==
    ASSUME LongRunInv, Growth("candidate"), NEW op \in {"pending", "excluded"}, NEW o \in Ordinals, NEW pid \in BOOLEAN,
           NEW raise \in {"dead", "conflict"}, Account("candidate", op, o, pid, "next", raise),
           op = "excluded" => o \notin entries' \/ (o \in DOMAIN durable' /\ ~InTime(o)'),
           entries' \subseteq DOMAIN durable', pc.candidate \in Walking,
           ThreadShape', UNCHANGED statuses, at'.linker = at.linker, run' = run
    PROVE  LongRunInv'
<1>1. Invoke("candidate", op, "none", o, pid, "next", raise)
  BY DEF Account
<1>2. op \in Ops \ {"none"} /\ o \in Nat /\ "next" \in Labels
  BY ContractIs DEF Ops, CaseOps, Labels, LongRunInv, Shape
<1>3. \A c \in Calls : (c.op = op /\ c.to = "none" /\ c.o = o /\ c.ok = "next" /\ c.raise = raise) => Promised("candidate", c)'
  <2>1. Ordinals' = Ordinals
    BY DEF Growth, Ordinals
  <2> QED
    BY <2>1 DEF Promised, CaseOps
<1>4. "candidate" \in Processes /\ pc["candidate"] \notin {"done", "lock", "tail", "dead"}
  BY DEF Processes, Walking
<1>5. ~Latched => state \notin {"TERMINALIZING", "DEADLINE_REACHED"}
  BY DEF LongRunInv, Ordered, WalkFits
<1> QED
  BY <1>1, <1>2, <1>3, <1>4, <1>5, InvokeStep

\* The candidate takes the generation to its warm-up, or joins it there (main).
LEMMA CandidateStartsKeeps == ASSUME LongRunInv, CandidateStarts PROVE LongRunInv'
<1>1. UNCHANGED <<time, events, ledgers, at, clock, statuses, rest>>
  BY DEF CandidateStarts
<1>2. Quiet /\ ThreadShape' /\ at' = at /\ run' = run /\ UNCHANGED statuses
  BY <1>1, StillIs
<1>3. CASE pc.candidate = "boot" /\ Transition("candidate", "PREFLIGHT_READY", "ready")
  BY <1>2, <1>3, TransitionStep
<1>4. CASE pc.candidate = "ready" /\ Transition("candidate", "WARMUP", "boot")
  BY <1>2, <1>4, TransitionStep
<1>5. CASE /\ pc.candidate = "boot"
           /\ Goto("candidate", IF Scientific = "WARMUP" THEN "loop" ELSE "dead")
  <2>1. PICK label \in {"loop", "dead"} : Goto("candidate", label) /\ (label = "loop" => Scientific = "WARMUP")
    BY <1>5
  <2>2. ~Latched => label \notin Walking \/ state \notin Ending
    BY <2>1 DEF Scientific, Ending, Walking
  <2>3. label \in Labels \ {"lock", "tail", "infer", "attest"}
    BY <2>1 DEF Labels
  <2> QED
    BY <1>2, <1>5, <2>1, <2>2, <2>3, CandidateTurns
<1> QED
  BY <1>3, <1>4, <1>5 DEF CandidateStarts

\* The clock, the end of the warm-up and the source's status open a pass.
LEMMA CandidatePassKeeps == ASSUME LongRunInv, CandidatePass PROVE LongRunInv'
<1>1. Quiet /\ ThreadShape' /\ at'.linker = at.linker /\ run' = run /\ UNCHANGED statuses
  BY DEF CandidatePass, LongRunInv, Shape, ThreadShape, Quiet, time, events, ledgers, rest, statuses
<1>2. pc.candidate \in {"loop", "warm"} /\ pc["candidate"] = pc.candidate /\ "candidate" \in Processes
  BY DEF CandidatePass, Processes
<1>3. pc.candidate \in Walking /\ pc.candidate \notin {"lock", "tail", "dead", "fresh", "attest", "done"}
  BY <1>2 DEF Walking
<1>4. ~Latched => state \notin Ending
  BY <1>3 DEF LongRunInv, Ordered, WalkFits, Ending
<1>5. CASE \E label \in {"kept", "end", "case"} : Goto("candidate", label)
  <2>1. PICK label \in {"kept", "end", "case"} : Goto("candidate", label)
    BY <1>5
  <2>2. label \in Labels \ {"lock", "tail", "infer", "attest"}
    BY DEF Labels
  <2> QED
    BY <1>1, <1>3, <2>1, <2>2, CandidateTurns
<1>6. CASE \E ok \in {"stopped", "failed"} : Fail("candidate", ok)
  <2>1. PICK ok \in {"stopped", "failed"} : Fail("candidate", ok)
    BY <1>6
  <2>2. ok \in Labels \ {"infer", "attest", "lock", "tail", "clean", "link", "fresh"}
    BY DEF Labels
  <2> QED
    BY <1>1, <1>2, <1>3, <1>4, <2>1, <2>2, FailStep
<1>7. CASE Transition("candidate", "RUNNING", "warm")
  BY <1>1, <1>3, <1>7, TransitionStep
<1> QED
  BY <1>5, <1>6, <1>7 DEF CandidatePass

\* The position of a walk, and what a step of it leaves alone.
LEMMA WalkIs ==
    ASSUME LongRunInv, NEW p \in {"candidate", "linker"}, Walks(p), ~Over(p), at' = [at EXCEPT ![p] = Position(p)],
           UNCHANGED <<time, events, ledgers, clock, statuses, rest>>
    PROVE  /\ Position(p) \in Ordinals /\ at' \in [candidate : Nat, linker : Nat]
           /\ at'[p] = Position(p) /\ (p = "candidate" => at'.linker = at.linker) /\ (p = "linker" => at'.candidate = at.candidate)
           /\ Quiet /\ ThreadShape' /\ run' = run /\ UNCHANGED statuses
<1>1. Position(p) \in Ordinals
  BY DEF Over
<1>2. Position(p) \in Nat
  BY <1>1, ContractIs DEF LongRunInv, Shape
<1>3. at \in [candidate : Nat, linker : Nat]
  BY DEF LongRunInv, Shape, ThreadShape
<1>4. /\ at' \in [candidate : Nat, linker : Nat] /\ at'[p] = Position(p)
      /\ (p = "candidate" => at'.linker = at.linker) /\ (p = "linker" => at'.candidate = at.candidate)
  BY <1>2, <1>3
<1> QED
  BY <1>1, <1>4 DEF LongRunInv, Shape, ThreadShape, Quiet, time, events, ledgers, rest, statuses

\* A prediction is attested while the candidate walks.
LEMMA WalkingIsAttested ==
    ASSUME LongRunInv, pc.candidate \notin {"attest", "dead", "fresh", "lock"}
    PROVE  entries \subseteq DOMAIN durable
BY DEF LongRunInv, CandidatePlaced

\* One case of the candidate's walk: what is excluded here has no prediction, or a late one.
LEMMA CandidateCaseKeeps == ASSUME LongRunInv, CandidateCase PROVE LongRunInv'
<1> DEFINE p == "candidate"
<1>1. PICK o \in Ordinals : o = Position(p)
  BY DEF CandidateCase, Over
<1>2. /\ Walks(p) /\ ~Over(p) /\ at' = [at EXCEPT ![p] = Position(p)]
      /\ UNCHANGED <<time, events, ledgers, clock, statuses, rest>>
  BY DEF CandidateCase
<1>3. /\ at'.candidate = o /\ at'.linker = at.linker
      /\ Quiet /\ ThreadShape' /\ run' = run /\ UNCHANGED statuses
  BY <1>1, <1>2, WalkIs
<1>4. pc.candidate \in Walking /\ pc.candidate \notin {"lock", "tail", "dead", "fresh", "attest", "done", "infer"}
      /\ p \in Processes /\ pc[p] = pc.candidate
  BY <1>2 DEF Walks, Walking, Processes
<1>5. entries \subseteq DOMAIN durable
  BY <1>4, WalkingIsAttested
<1>6. \/ \E label \in {"next", "dead", "conflict"} : Goto(p, label)
      \/ Goto(p, "infer") /\ o \notin entries
      \/ o \in entries /\ Account(p, IF durable[o] > Deadline(o) THEN "excluded" ELSE "pending", o, TRUE, "next", "dead")
      \/ o \notin entries /\ Account(p, "excluded", o, FALSE, "next", "dead")
  BY <1>1, Zenon DEF CandidateCase, AccountAttested
<1>7. CASE \E label \in {"next", "dead", "conflict"} : Goto(p, label)
  <2>1. PICK label \in {"next", "dead", "conflict"} : Goto(p, label)
    BY <1>7
  <2>2. label \in Labels \ {"lock", "tail", "infer", "attest"}
    BY DEF Labels
  <2> QED
    BY <1>3, <1>4, <2>1, <2>2, CandidateTurns
<1>8. CASE Goto(p, "infer") /\ o \notin entries
  <2>1. MovesTo(p, "infer")
    BY <1>4, <1>8, GotoIs DEF LongRunInv, Shape, Labels
  <2>2. CandidatePlaced'
    BY <1>3, <1>5, <1>8, <2>1 DEF MovesTo, CandidatePlaced, Quiet, Ordinals
  <2>3. ~Latched => state \notin {"TERMINALIZING", "DEADLINE_REACHED"}
    BY <1>4 DEF LongRunInv, Ordered, WalkFits
  <2>4. StatusesFit'
    <3>1. Others(p) /\ (Latched => Latched')
      BY <1>3, <2>1 DEF MovesTo, Quiet, Latched
    <3> QED
      BY <1>3, <1>4, <3>1, StatusesKept DEF LongRunInv
  <2>5. Excuses(p) => Excuses(p)'
    BY <1>3, <1>4 DEF Excuses
  <2>6. "infer" \in Labels \ {"lock", "tail"}
    BY DEF Labels
  <2> QED
    BY <1>3, <1>4, <2>1, <2>2, <2>3, <2>4, <2>5, <2>6, QuietIsGrowth, LabelStep
<1>9. ASSUME NEW op \in {"pending", "excluded"}, NEW pid \in BOOLEAN, Account(p, op, o, pid, "next", "dead"),
             op = "excluded" => o \notin entries \/ durable[o] > Deadline(o)
      PROVE  LongRunInv'
  <2>1. op = "excluded" => o \notin entries' \/ (o \in DOMAIN durable' /\ ~InTime(o)')
    <3>1. durable[o] > Deadline(o) /\ o \in entries => ~InTime(o)
      BY <1>5, ContractIs DEF InTime, LongRunInv, Shape
    <3>2. InTime(o)' = InTime(o) /\ entries' = entries /\ durable' = durable
      BY <1>3 DEF InTime, Quiet, Deadline, Cutoff
    <3> QED
      BY <1>5, <1>9, <3>1, <3>2
  <2>2. Growth(p) /\ entries' \subseteq DOMAIN durable'
    BY <1>3, <1>5, QuietIsGrowth DEF Quiet
  <2> QED
    BY <1>3, <1>4, <1>9, <2>1, <2>2, CandidateAccounts
<1>10. CASE o \in entries /\ Account(p, IF durable[o] > Deadline(o) THEN "excluded" ELSE "pending", o, TRUE, "next", "dead")
  <2>1. PICK op \in {"pending", "excluded"} : Account(p, op, o, TRUE, "next", "dead") /\ (op = "excluded" => durable[o] > Deadline(o))
    BY <1>10
  <2> QED
    BY <1>9, <2>1, Zenon
<1>11. CASE o \notin entries /\ Account(p, "excluded", o, FALSE, "next", "dead")
  BY <1>9, <1>11, Zenon
<1> QED
  BY <1>6, <1>7, <1>8, <1>10, <1>11

\* A prediction is appended for a case that had none; a late one excludes the case.
LEMMA InferKeeps == ASSUME LongRunInv, Infer PROVE LongRunInv'
<1> DEFINE p == "candidate"
<1>1. PICK o \in Ordinals \ entries : o = at.candidate
  BY DEF LongRunInv, CandidatePlaced, Infer
<1>2. /\ UNCHANGED <<state, fatals, cases, recovered, durable, links, contract>> /\ at' = at /\ run' = run
      /\ UNCHANGED statuses /\ ThreadShape'
  BY DEF Infer, LongRunInv, Shape, ThreadShape, time, events, statuses
<1>3. pc.candidate = "infer" /\ pc.candidate \in Walking /\ p \in Processes /\ pc[p] = pc.candidate
  BY DEF Infer, Walking, Processes
<1>4. entries \subseteq DOMAIN durable
  BY <1>3, WalkingIsAttested
<1>5. \/ entries' = entries \union {o} /\ Goto(p, "attest")
      \/ entries' = entries /\ Account(p, "excluded", o, FALSE, "next", "conflict")
      \/ entries' = entries /\ Fail(p, "failed")
  BY <1>1 DEF Infer
<1>6. ~Latched => state \notin {"TERMINALIZING", "DEADLINE_REACHED"}
  BY <1>3 DEF LongRunInv, Ordered, WalkFits
<1>7. CASE entries' = entries \union {o} /\ Goto(p, "attest")
  <2>1. MovesTo(p, "attest")
    BY <1>3, <1>7, GotoIs DEF LongRunInv, Shape, Labels
  <2>2. Growth(p)
    BY <1>1, <1>2, <1>7 DEF Growth, LongRunInv, Shape, LedgerShape, Ordinals
  <2>3. CandidatePlaced'
    BY <1>1, <1>2, <1>4, <1>7, <2>1 DEF MovesTo, CandidatePlaced, LongRunInv, Shape, LedgerShape
  <2>4. StatusesFit'
    <3>1. Others(p) /\ (Latched => Latched')
      BY <1>2, <2>1 DEF MovesTo, Latched
    <3> QED
      BY <1>2, <1>3, <3>1, StatusesKept DEF LongRunInv
  <2>5. Excuses(p) => Excuses(p)'
    BY <1>2, <1>3 DEF Excuses
  <2>6. "attest" \in Labels \ {"lock", "tail"}
    BY DEF Labels
  <2> QED
    BY <1>2, <1>3, <1>6, <2>1, <2>2, <2>3, <2>4, <2>5, <2>6, LabelStep
<1>8. ASSUME NEW pid \in BOOLEAN, entries' = entries, Account(p, "excluded", o, pid, "next", "conflict")
      PROVE  LongRunInv'
  <2>1. Growth(p)
    BY <1>2, <1>8, QuietIsGrowth DEF Quiet
  <2> QED
    BY <1>1, <1>2, <1>3, <1>4, <1>8, <2>1, CandidateAccounts
<1>9. CASE entries' = entries /\ Fail(p, "failed")
  <2>1. Quiet
    BY <1>2, <1>9 DEF Quiet
  <2>2. "failed" \in Labels \ {"infer", "attest", "lock", "tail", "clean", "link", "fresh"}
    BY DEF Labels
  <2> QED
    BY <1>2, <1>3, <1>6, <1>9, <2>1, <2>2, FailStep DEF Ending
<1> QED
  BY <1>5, <1>7, <1>8, <1>9, Zenon

\* An attestation keeps what was attested.
LEMMA AttestedIs ==
    ASSUME LongRunInv, NEW S, S \subseteq entries, durable' = Attested(S)
    PROVE  /\ DOMAIN durable' = DOMAIN durable \union S /\ durable' \in [DOMAIN durable' -> Nat]
           /\ \A o \in DOMAIN durable : durable'[o] = durable[o]
           /\ \A o \in S \ DOMAIN durable : durable'[o] = now
BY DEF Attested, LongRunInv, Shape, LedgerShape, ThreadShape

\* An attestation is written once, and what it says decides the row that follows it.
LEMMA AttestDurabilityKeeps == ASSUME LongRunInv, AttestDurability PROVE LongRunInv'
<1> DEFINE p == "candidate"
<1>1. PICK o \in entries \ DOMAIN durable : o = at.candidate
  BY DEF LongRunInv, CandidatePlaced, AttestDurability
<1>2. /\ UNCHANGED <<state, fatals, cases, recovered, entries, links, contract>> /\ at' = at /\ run' = run
      /\ UNCHANGED statuses /\ now' = now
  BY DEF AttestDurability, time, events, statuses, rest
<1>3. pc.candidate = "attest" /\ pc.candidate \in Walking
  BY DEF AttestDurability, Walking
<1>4. /\ DOMAIN durable' = DOMAIN durable \union {o} /\ durable' \in [DOMAIN durable' -> Nat]
      /\ \A e \in DOMAIN durable : durable'[e] = durable[e]
      /\ durable'[o] = now
  BY <1>1, AttestedIs DEF AttestDurability
<1>5. Growth(p)
  BY <1>2, <1>4 DEF Growth, LongRunInv, Shape, LedgerShape, Ordinals
<1>6. ThreadShape'
  BY <1>2, <1>4 DEF AttestDurability, LongRunInv, Shape, ThreadShape, time, rest
<1>7. entries' \subseteq DOMAIN durable'
  BY <1>1, <1>2, <1>3, <1>4 DEF LongRunInv, CandidatePlaced
<1>8. o \in Ordinals /\ now \in Nat /\ Deadline(o) \in Nat /\ Deadline(o)' = Deadline(o)
  <2>1. o \in Ordinals /\ now \in Nat
    BY DEF LongRunInv, Shape, LedgerShape, ThreadShape
  <2>2. Deadline(o)' = Deadline(o)
    BY <1>2 DEF Deadline, Cutoff
  <2> QED
    BY <2>1, <2>2, ContractIs DEF LongRunInv, Shape
<1>9. now > Deadline(o) => o \in DOMAIN durable' /\ ~InTime(o)'
  BY <1>4, <1>8 DEF InTime
<1>10. ASSUME NEW pid \in BOOLEAN, Account(p, "excluded", o, pid, "next", "conflict"), now > Deadline(o)
       PROVE  LongRunInv'
  BY <1>2, <1>3, <1>5, <1>6, <1>7, <1>8, <1>9, <1>10, CandidateAccounts
<1>11. ASSUME NEW pid \in BOOLEAN, Account(p, "pending", o, pid, "next", "conflict")
       PROVE  LongRunInv'
  BY <1>2, <1>3, <1>5, <1>6, <1>7, <1>8, <1>11, CandidateAccounts
<1>12. CASE now > Deadline(o)
  <2>1. Account(p, "excluded", o, TRUE, "next", "conflict")
    BY <1>1, <1>12 DEF AttestDurability, AccountAttested
  <2> QED
    BY <1>10, <1>12, <2>1, Zenon
<1>13. CASE ~(now > Deadline(o))
  <2>1. Account(p, "pending", o, TRUE, "next", "conflict")
    BY <1>1, <1>13 DEF AttestDurability, AccountAttested
  <2> QED
    BY <1>11, <2>1, Zenon
<1> QED
  BY <1>12, <1>13

\* Conflict of the candidate, and the labels that end it.
LEMMA CandidateConflictKeeps == ASSUME LongRunInv, Conflict("candidate") PROVE LongRunInv'
<1>1. Quiet /\ ThreadShape' /\ at' = at /\ run' = run /\ UNCHANGED statuses
  BY StillIs DEF Conflict
<1>2. pc.candidate = "conflict" /\ pc.candidate \in Walking /\ "candidate" \in Processes /\ pc["candidate"] = pc.candidate
  BY DEF Conflict, Walking, Processes
<1>3. ~Latched => state \notin Ending
  BY <1>2 DEF LongRunInv, Ordered, WalkFits, Ending
<1>4. "failed" \in Labels \ {"infer", "attest", "lock", "tail", "clean", "link", "fresh"}
  BY DEF Labels
<1> QED
  BY <1>1, <1>2, <1>3, <1>4, FailStep DEF Conflict

\* The candidate's status at the end of a pass is terminal only when the generation is fatal.
LEMMA CandidatePublishesKeeps == ASSUME LongRunInv, CandidatePublishes PROVE LongRunInv'
<1>1. /\ Quiet /\ ThreadShape' /\ at'.linker = at.linker /\ run' = run
      /\ UNCHANGED <<sourceStatus, outcomeStatus, watchdogStatus, report>>
  BY DEF CandidatePublishes, LongRunInv, Shape, ThreadShape, Quiet, time, events, ledgers, rest
<1>2. pc.candidate \in {"failed", "case", "next"} /\ pc.candidate \in Walking
  BY DEF CandidatePublishes, Over, Walks, Walking
<1>3. PICK label \in {"kept", "loop"} : Goto("candidate", label)
  BY DEF CandidatePublishes
<1>4. label \in Labels \ {"lock", "tail", "infer", "attest"}
  BY DEF Labels
<1>5. ~Latched => candidateStatus'.st \notin TerminalStates
  <2> SUFFICES ASSUME ~Latched PROVE candidateStatus'.st \notin TerminalStates
    OBVIOUS
  <2>1. state \notin TerminalStates
    BY <1>2 DEF LongRunInv, Ordered, WalkFits, TerminalStates
  <2>2. candidateStatus'.st \in {"RUNNING", state}
    BY DEF CandidatePublishes, CandidateSnapshot, Scientific
  <2> QED
    BY <2>1, <2>2 DEF TerminalStates
<1>6. StatusesFit'
  <2>1. (Latched => Latched') /\ pc.candidate # "done" /\ \A q \in Processes : pc[q] = "done" => pc'[q] = "done"
    BY <1>1, <1>2, <1>3 DEF Quiet, Latched, Goto, LongRunInv, Shape, CallShape, Processes
  <2> QED
    BY <1>1, <1>5, <2>1 DEF LongRunInv, StatusesFit, Processes
<1> QED
  BY <1>1, <1>2, <1>3, <1>4, <1>6, CandidateGoes

\* The deadline work of the candidate begins outside every pass.
LEMMA CandidateEndsKeeps == ASSUME LongRunInv, CandidateEnds PROVE LongRunInv'
<1>1. Quiet /\ ThreadShape' /\ at' = at /\ run' = run /\ UNCHANGED statuses
  BY StillIs DEF CandidateEnds
<1>2. pc.candidate \in {"end", "half"}
  BY DEF CandidateEnds
<1>3. "kept" \in Labels \ {"lock", "tail", "infer", "attest"} /\ "kept" \notin Walking
  BY DEF Labels, Walking
<1>4. Goto("candidate", "kept") => LongRunInv'
  BY <1>1, <1>2, <1>3, CandidateTurns
<1>5. Transition("candidate", "TERMINALIZING", "half") => LongRunInv'
  BY <1>1, <1>2, TransitionStep
<1>6. Transition("candidate", "DEADLINE_REACHED", "final") => LongRunInv'
  BY <1>1, <1>2, TransitionStep
<1> QED
  BY <1>4, <1>5, <1>6 DEF CandidateEnds

\* The candidate's last status is written as it ends.
LEMMA CandidateFinishesKeeps == ASSUME LongRunInv, CandidateFinishes PROVE LongRunInv'
<1>1. /\ Quiet /\ ThreadShape' /\ at' = at /\ run' = run
      /\ UNCHANGED <<sourceStatus, outcomeStatus, watchdogStatus, report>>
  BY DEF CandidateFinishes, LongRunInv, Shape, ThreadShape, Quiet, time, events, ledgers, rest
<1>2. pc.candidate \in {"final", "stopped", "kept"} /\ Goto("candidate", "done")
  BY DEF CandidateFinishes
<1>3. "done" \in Labels \ {"lock", "tail", "infer", "attest"} /\ "done" \notin Walking
  BY DEF Labels, Walking
<1>4. StatusesFit'
  <2>1. pc'.candidate = "done" /\ \A q \in Processes : pc[q] = "done" => pc'[q] = "done"
    BY <1>2 DEF Goto, LongRunInv, Shape, CallShape, Processes, Labels
  <2> QED
    BY <1>1, <2>1 DEF LongRunInv, StatusesFit, Processes
<1> QED
  BY <1>1, <1>2, <1>3, <1>4, CandidateGoes

\* A restarted candidate records its recovery before it reads the predictions.
LEMMA CandidateRestartsKeeps == ASSUME LongRunInv, CandidateRestarts PROVE LongRunInv'
<1> DEFINE p == "candidate"
<1>1. /\ Quiet /\ ThreadShape' /\ at' = at /\ UNCHANGED statuses
      /\ run'[p] > 0 /\ \A q \in Processes : run[q] > 0 => run'[q] > 0
  BY DEF CandidateRestarts, LongRunInv, Shape, ThreadShape, Quiet, time, events, ledgers, Processes
<1>2. p \in Processes /\ pc[p] = "dead" /\ pc.candidate = "dead"
  BY DEF CandidateRestarts, Processes
<1>3. Growth(p)
  BY <1>1, QuietIsGrowth
<1>4. CASE Goto(p, "fresh")
  <2>1. MovesTo(p, "fresh")
    BY <1>2, <1>4, GotoIs DEF LongRunInv, Shape, Labels
  <2>2. CandidatePlaced'
    BY <2>1 DEF MovesTo, CandidatePlaced
  <2>3. StatusesFit'
    <3>1. Others(p) /\ (Latched => Latched')
      BY <1>1, <2>1 DEF MovesTo, Quiet, Latched
    <3> QED
      BY <1>1, <1>2, <3>1, StatusesKept DEF LongRunInv
  <2>4. Excuses(p)'
    BY <1>1 DEF Excuses
  <2>5. "fresh" \in Labels \ {"lock", "tail"} /\ "fresh" \notin Walking
    BY DEF Labels, Walking
  <2> QED
    BY <1>1, <1>2, <1>3, <2>1, <2>2, <2>3, <2>4, <2>5, LabelStep
<1>5. ASSUME NEW pid \in BOOLEAN, Invoke(p, "recovery", "candidate", 1, pid, "fresh", "dead")
      PROVE  LongRunInv'
  <2>1. \A c \in Calls : (c.op = "recovery" /\ c.to = "candidate" /\ c.o = 1 /\ c.ok = "fresh" /\ c.raise = "dead")
                          => Promised(p, c)'
    BY DEF Promised, CaseOps
  <2>2. "recovery" \in Ops \ {"none"} /\ "fresh" \in Labels /\ "fresh" \notin Walking
    BY DEF Ops, Labels, Walking
  <2> QED
    BY <1>1, <1>2, <1>3, <1>5, <2>1, <2>2, InvokeStep
<1>6. CASE Invoke(p, "recovery", "candidate", 1, FALSE, "fresh", "dead")
  BY <1>5, <1>6, Zenon
<1> QED
  BY <1>4, <1>6 DEF CandidateRestarts

\* The recovery attests what a crash left without attestation, and resumes the pass it stopped in.
LEMMA RecoverDurabilityKeeps == ASSUME LongRunInv, RecoverDurability PROVE LongRunInv'
<1> DEFINE p == "candidate"
<1>1. /\ UNCHANGED <<state, fatals, cases, recovered, entries, links, contract>> /\ at' = at /\ run' = run
      /\ UNCHANGED statuses
  BY DEF RecoverDurability, time, events, rest
<1>2. /\ DOMAIN durable' = DOMAIN durable \union entries /\ durable' \in [DOMAIN durable' -> Nat]
      /\ \A e \in DOMAIN durable : durable'[e] = durable[e]
  BY AttestedIs DEF RecoverDurability
<1>3. Growth(p)
  BY <1>1, <1>2 DEF Growth, LongRunInv, Shape, LedgerShape, Ordinals
<1>4. ThreadShape'
  BY <1>1, <1>2 DEF RecoverDurability, LongRunInv, Shape, ThreadShape, time, rest
<1>5. p \in Processes /\ pc[p] = "fresh" /\ pc.candidate = "fresh"
  BY DEF RecoverDurability, Processes
<1>6. PICK label \in {"boot", "loop", "dead"} : Goto(p, label) /\ (label = "loop" => Scientific = candidateStatus.st)
  BY DEF RecoverDurability
<1>7. ~Latched => label \notin Walking \/ state \notin {"TERMINALIZING", "DEADLINE_REACHED"}
  <2> SUFFICES ASSUME ~Latched, label \in Walking, state \in {"TERMINALIZING", "DEADLINE_REACHED"} PROVE FALSE
    OBVIOUS
  <2>1. candidateStatus.st = state
    BY <1>6 DEF Scientific, Walking
  <2> QED
    BY <1>5, <2>1 DEF LongRunInv, StatusesFit, TerminalStates
<1>8. label \in Labels \ {"lock", "tail"} /\ label \notin {"infer", "attest"}
  BY DEF Labels
<1>9. MovesTo(p, label)
  BY <1>5, <1>6, <1>8, GotoIs DEF LongRunInv, Shape
<1>10. CandidatePlaced'
  BY <1>1, <1>2, <1>8, <1>9 DEF MovesTo, CandidatePlaced
<1>11. StatusesFit'
  <2>1. Others(p) /\ (Latched => Latched')
    BY <1>1, <1>9 DEF MovesTo, Latched
  <2> QED
    BY <1>1, <1>5, <2>1, StatusesKept DEF LongRunInv
<1>12. Excuses(p) => Excuses(p)'
  BY <1>1, <1>5 DEF Excuses
<1> QED
  BY <1>1, <1>3, <1>4, <1>5, <1>7, <1>8, <1>9, <1>10, <1>11, <1>12, LabelStep

---------------------------------------------------------------------------
(* The outcome linker.                                                     *)

\* The linker turns to a label that says nothing about a link.
LEMMA LinkerGoes ==
    ASSUME LongRunInv, Quiet, NEW label \in Labels \ {"lock", "tail"}, Goto("linker", label),
           pc.linker \notin {"lock", "tail"}, ThreadShape', StatusesFit', at'.candidate = at.candidate,
           label = "clean" => at'.linker \in links,
           label = "link" => InTime(at'.linker) /\ at'.linker \notin links /\ cases[at'.linker].st = "pending",
           \A q \in Processes : run[q] > 0 => run'[q] > 0, pc.linker = "dead" => run'["linker"] > 0
    PROVE  LongRunInv'
<1> DEFINE p == "linker"
<1>1. p \in Processes /\ pc[p] = pc.linker
  BY DEF Processes
<1>2. MovesTo(p, label)
  BY <1>1, GotoIs DEF LongRunInv, Shape
<1>3. LinkerPlaced'
  <2>1. \A o : InTime(o) => InTime(o)'
    BY DEF InTime, Quiet, Deadline, Cutoff
  <2> QED
    BY <1>2, <2>1 DEF MovesTo, LinkerPlaced, Quiet, InTime
<1>4. Excuses(p) => Excuses(p)'
  BY <1>1 DEF Excuses
<1> QED
  BY <1>1, <1>2, <1>3, <1>4, QuietIsGrowth, LabelStep

\* The same, when it publishes nothing.
LEMMA LinkerTurns ==
    ASSUME LongRunInv, Quiet, NEW label \in Labels \ {"lock", "tail"}, Goto("linker", label),
           pc.linker \notin {"lock", "tail", "done", "dead"}, ThreadShape', UNCHANGED statuses, at'.candidate = at.candidate,
           label = "clean" => at'.linker \in links,
           label = "link" => InTime(at'.linker) /\ at'.linker \notin links /\ cases[at'.linker].st = "pending",
           run' = run
    PROVE  LongRunInv'
<1>1. Others("linker") /\ "linker" \in Processes /\ pc["linker"] # "done" /\ (Latched => Latched')
  BY DEF Goto, Others, Processes, LongRunInv, Shape, CallShape, Quiet, Latched
<1>2. StatusesFit'
  BY <1>1, StatusesKept DEF LongRunInv
<1> QED
  BY <1>2, LinkerGoes

\* The linker accounts for the case at its position.
LEMMA LinkerAccounts ==
    ASSUME LongRunInv, Quiet, NEW op \in CaseOps, NEW o \in Ordinals, NEW pid \in BOOLEAN,
           NEW ok \in {"late", "clean", "link", "next"}, NEW raise \in {"dead", "conflict"},
           Account("linker", op, o, pid, ok, raise), at'.linker = o, at'.candidate = at.candidate,
           op = "excluded" => ok \in {"next", "late"} /\ o \notin links,
           op = "clean" => o \in links,
           ok = "clean" => o \in links,
           ok = "link" => op = "pending" /\ InTime(o) /\ o \notin links,
           pc.linker \notin {"lock", "tail", "done", "dead"}, ThreadShape', UNCHANGED statuses, run' = run
    PROVE  LongRunInv'
<1>1. Invoke("linker", op, "none", o, pid, ok, raise)
  BY DEF Account
<1>2. op \in Ops \ {"none"} /\ o \in Nat /\ ok \in Labels /\ op \notin {"fail", "transition"}
  BY ContractIs DEF Ops, CaseOps, Labels, LongRunInv, Shape
<1>3. \A c \in Calls : (c.op = op /\ c.to = "none" /\ c.o = o /\ c.ok = ok /\ c.raise = raise) => Promised("linker", c)'
  <2>1. Ordinals' = Ordinals /\ links' = links /\ (InTime(o) => InTime(o)')
    BY DEF Quiet, Ordinals, InTime, Deadline, Cutoff
  <2> QED
    BY <1>2, <2>1 DEF Promised
<1>4. "linker" \in Processes /\ pc["linker"] = pc.linker
  BY DEF Processes
<1> QED
  BY <1>1, <1>2, <1>3, <1>4, QuietIsGrowth, InvokeStep

\* The linker is launched, or refused by its own parser.
LEMMA LaunchLinkerKeeps == ASSUME LongRunInv, LaunchLinker PROVE LongRunInv'
<1>1. /\ Quiet /\ ThreadShape' /\ at' = at /\ run' = run /\ UNCHANGED statuses
  BY DEF LaunchLinker, LongRunInv, Shape, ThreadShape, Quiet, time, events, ledgers
<1>2. PICK label \in {"pass", "dead"} : Goto("linker", label)
  BY DEF LaunchLinker
<1>3. pc.linker = "off" /\ label \in Labels \ {"lock", "tail"}
  BY DEF LaunchLinker, Labels
<1> QED
  BY <1>1, <1>2, <1>3, LinkerTurns

\* A pass of the linker opens with what was attested and how far the bars reach.
LEMMA LinkerPassKeeps == ASSUME LongRunInv, LinkerPass PROVE LongRunInv'
<1>1. /\ Quiet /\ at' = at /\ run' = run /\ UNCHANGED statuses
  BY DEF LinkerPass, Quiet, events, ledgers
<1>2. ThreadShape'
  BY DEF LinkerPass, LongRunInv, Shape, ThreadShape, time, ledgers
<1>3. PICK label \in {"last", "failed", "case"} : Goto("linker", label)
  BY DEF LinkerPass
<1>4. pc.linker = "pass" /\ label \in Labels \ {"lock", "tail"}
  BY DEF LinkerPass, Labels
<1> QED
  BY <1>1, <1>2, <1>3, <1>4, LinkerTurns

\* One case of the linker's walk: it links what was attested in time and excludes the rest.
LEMMA LinkerCaseKeeps == ASSUME LongRunInv, LinkerCase PROVE LongRunInv'
<1> DEFINE p == "linker"
<1>1. PICK o \in Ordinals : o = Position(p)
  BY DEF LinkerCase, Over
<1>2. /\ Walks(p) /\ ~Over(p) /\ at' = [at EXCEPT ![p] = Position(p)]
      /\ UNCHANGED <<time, events, ledgers, clock, statuses, rest>>
  BY DEF LinkerCase
<1>3. /\ at'.linker = o /\ at'.candidate = at.candidate
      /\ Quiet /\ ThreadShape' /\ run' = run /\ UNCHANGED statuses
  BY <1>1, <1>2, WalkIs
<1>4. pc.linker \notin {"lock", "tail", "dead", "done"}
  BY <1>2 DEF Walks
<1>5. o \in saw.attested => o \in DOMAIN durable /\ (InTime(o) <=> ~(durable[o] > Deadline(o)))
  BY ContractIs DEF InTime, LongRunInv, Shape, ThreadShape
<1>6. o \in links => InTime(o)
  BY DEF LongRunInv, Truthful
<1>7. \A label \in Labels \ {"lock", "tail"} :
         Goto(p, label) /\ (label = "clean" => o \in links)
         /\ (label = "link" => InTime(o) /\ o \notin links /\ cases[o].st = "pending") => LongRunInv'
  BY <1>3, <1>4, LinkerTurns
<1>8. \A pid \in BOOLEAN : Account(p, "excluded", o, pid, "late", "dead") /\ o \notin links => LongRunInv'
  BY <1>3, <1>4, LinkerAccounts DEF CaseOps
<1>9. \A pid \in BOOLEAN : Account(p, "pending", o, pid, "clean", "conflict") /\ o \in links => LongRunInv'
  BY <1>3, <1>4, LinkerAccounts DEF CaseOps
<1>10. \A pid \in BOOLEAN : Account(p, "pending", o, pid, "link", "conflict") /\ InTime(o) /\ o \notin links => LongRunInv'
  BY <1>3, <1>4, LinkerAccounts DEF CaseOps
<1>11. \/ \E label \in {"next", "late", "conflict"} : Goto(p, label)
       \/ Goto(p, "clean") /\ o \in links
       \/ Goto(p, "link") /\ o \in saw.attested /\ ~(durable[o] > Deadline(o)) /\ o \notin links /\ cases[o] = Case("pending", TRUE)
       \/ Account(p, "excluded", o, TRUE, "late", "dead") /\ o \in saw.attested /\ durable[o] > Deadline(o)
       \/ Account(p, "pending", o, TRUE, "clean", "conflict") /\ o \in links
       \/ Account(p, "pending", o, TRUE, "link", "conflict") /\ o \in saw.attested /\ ~(durable[o] > Deadline(o)) /\ o \notin links
  BY <1>1, Zenon DEF LinkerCase
<1>12. CASE \E label \in {"next", "late", "conflict"} : Goto(p, label)
  <2>1. PICK label \in {"next", "late", "conflict"} : Goto(p, label)
    BY <1>12
  <2> QED
    BY <1>7, <2>1 DEF Labels
<1>13. CASE Goto(p, "clean") /\ o \in links
  BY <1>7, <1>13 DEF Labels
<1>14. CASE Goto(p, "link") /\ o \in saw.attested /\ ~(durable[o] > Deadline(o)) /\ o \notin links /\ cases[o] = Case("pending", TRUE)
  <2>1. cases[o].st = "pending"
    BY <1>14 DEF Case
  <2>2. InTime(o)
    BY <1>5, <1>14
  <2>3. "link" \in Labels \ {"lock", "tail"}
    BY DEF Labels
  <2> QED
    BY <1>7, <1>14, <2>1, <2>2, <2>3
<1>15. CASE Account(p, "excluded", o, TRUE, "late", "dead") /\ o \in saw.attested /\ durable[o] > Deadline(o)
  BY <1>5, <1>6, <1>8, <1>15, Zenon
<1>16. CASE Account(p, "pending", o, TRUE, "clean", "conflict") /\ o \in links
  BY <1>9, <1>16, Zenon
<1>17. CASE Account(p, "pending", o, TRUE, "link", "conflict") /\ o \in saw.attested /\ ~(durable[o] > Deadline(o)) /\ o \notin links
  BY <1>5, <1>10, <1>17, Zenon
<1> QED
  BY <1>11, <1>12, <1>13, <1>14, <1>15, <1>16, <1>17, Zenon

\* The linker looks again at a case it has excluded for lateness.
LEMMA LinkerLateKeeps == ASSUME LongRunInv, LinkerLate PROVE LongRunInv'
<1>1. Quiet /\ ThreadShape' /\ at' = at /\ run' = run /\ UNCHANGED statuses
  BY StillIs DEF LinkerLate
<1>2. PICK label \in {"failed", "next", "conflict"} : Goto("linker", label)
  BY DEF LinkerLate
<1>3. pc.linker = "late" /\ label \in Labels \ {"lock", "tail"}
  BY DEF LinkerLate, Labels
<1> QED
  BY <1>1, <1>2, <1>3, LinkerTurns

\* A case is called clean when its link exists.
LEMMA RecordCleanKeeps == ASSUME LongRunInv, RecordClean PROVE LongRunInv'
<1>1. Quiet /\ ThreadShape' /\ at' = at /\ run' = run /\ UNCHANGED statuses
  BY StillIs DEF RecordClean
<1>2. pc.linker = "clean" /\ at.linker \in links /\ at.linker \in Ordinals
  BY DEF RecordClean, LongRunInv, LinkerPlaced, Shape, LedgerShape
<1>3. \A pid \in BOOLEAN : Account("linker", "clean", at.linker, pid, "next", "conflict") => LongRunInv'
  BY <1>1, <1>2, LinkerAccounts DEF CaseOps
<1> QED
  BY <1>3, Zenon DEF RecordClean

\* A link is appended for a pending case attested in time; once it is late the case is excluded.
LEMMA AppendLinkKeeps == ASSUME LongRunInv, AppendLink PROVE LongRunInv'
<1> DEFINE p == "linker"
<1>1. /\ UNCHANGED <<state, fatals, cases, recovered, entries, durable, contract>> /\ at' = at /\ run' = run
      /\ UNCHANGED statuses
  BY DEF AppendLink, time, events, rest
<1>2. ThreadShape'
  BY <1>1 DEF AppendLink, LongRunInv, Shape, ThreadShape, time, rest
<1>3. PICK o \in Ordinals : o = at.linker /\ InTime(o) /\ o \notin links /\ cases[o].st = "pending"
  BY DEF AppendLink, LongRunInv, LinkerPlaced, InTime, Shape, LedgerShape
<1>4. pc.linker = "link" /\ p \in Processes /\ pc[p] = pc.linker
  BY DEF AppendLink, Processes
<1>5. ASSUME NEW pid \in BOOLEAN, Account(p, "excluded", o, pid, "next", "conflict"), links' = links
      PROVE  LongRunInv'
  <2>1. Quiet
    BY <1>1, <1>5 DEF Quiet
  <2> QED
    BY <1>1, <1>2, <1>3, <1>4, <1>5, <2>1, LinkerAccounts DEF CaseOps
<1>6. ASSUME links' = links \union {o}, Goto(p, "clean") PROVE LongRunInv'
  <2>1. MovesTo(p, "clean")
    BY <1>4, <1>6, GotoIs DEF LongRunInv, Shape, Labels
  <2>2. LedgerShape'
    BY <1>1, <1>3, <1>6 DEF LongRunInv, Shape, LedgerShape, Ordinals, InTime
  <2>3. \A e : InTime(e)' <=> InTime(e)
    BY <1>1 DEF InTime, Deadline, Cutoff
  <2>4. Truthful'
    BY <1>1, <1>3, <1>6, <2>3 DEF LongRunInv, Truthful, CasesIn, Ordinals
  <2>5. \A q \in Processes : CallFits(q)'
    <3>1. CallFits(p)'
      BY <2>1 DEF MovesTo, CallFits, Promised, NoCall, CaseOps
    <3>2. ASSUME NEW q \in Processes, q # p PROVE CallFits(q)'
      <4>1. Later(q)
        BY <1>1, <3>2 DEF Later
      <4> QED
        BY <2>1, <3>2, <4>1, StillFits DEF LongRunInv, MovesTo, Others
    <3> QED
      BY <3>1, <3>2
  <2>6. CandidatePlaced'
    BY <1>1, <2>1 DEF LongRunInv, CandidatePlaced, MovesTo, Others, Processes, Ordinals
  <2>7. LinkerPlaced'
    BY <1>1, <1>3, <1>6, <2>1 DEF LinkerPlaced, MovesTo
  <2>8. Ordered'
    <3>1. \A q \in Processes : SeenFits(q) => SeenFits(q)'
      BY <1>1, <2>1 DEF SeenFits, MovesTo, Others, NoCall
    <3> QED
      BY <1>1, <2>1, <3>1 DEF LongRunInv, Ordered, WalkFits, Latched, MovesTo, Others, Processes
  <2>9. StatusesFit' /\ Accounted'
    <3>1. Others(p) /\ (Latched <=> Latched') /\ (Feasible <=> Feasible')
      BY <1>1, <2>1 DEF MovesTo, Latched, Feasible, CasesIn, Ordinals, MinClean
    <3>2. StatusesFit'
      BY <1>1, <1>4, <3>1, StatusesKept DEF LongRunInv
    <3>3. \A q \in Processes : Excuses(q) => Excuses(q)'
      BY <1>1, <1>4, <3>1 DEF Excuses, Others
    <3> QED
      BY <3>1, <3>2, <3>3 DEF LongRunInv, Accounted
  <2> QED
    BY <1>2, <2>1, <2>2, <2>4, <2>5, <2>6, <2>7, <2>8, <2>9 DEF LongRunInv, Shape, MovesTo
<1>7. CASE now > Terminal
  <2>1. Account(p, "excluded", o, TRUE, "next", "conflict") /\ links' = links
    BY <1>3, <1>7 DEF AppendLink
  <2> QED
    BY <1>5, <2>1, Zenon
<1>8. CASE ~(now > Terminal)
  BY <1>3, <1>6, <1>8 DEF AppendLink
<1> QED
  BY <1>7, <1>8

\* A conflict the linker meets is fatal.
LEMMA LinkerConflictKeeps == ASSUME LongRunInv, Conflict("linker") PROVE LongRunInv'
<1>1. Quiet /\ ThreadShape' /\ at' = at /\ run' = run /\ UNCHANGED statuses
  BY StillIs DEF Conflict
<1>2. "linker" \in Processes /\ pc["linker"] = "conflict"
  BY DEF Conflict, Processes
<1>3. "failed" \in Labels \ {"infer", "attest", "lock", "tail", "clean", "link", "fresh"}
  BY DEF Labels
<1> QED
  BY <1>1, <1>2, <1>3, FailStep DEF Conflict

\* The linker's terminal statuses are its last.
LEMMA LinkerPublishesKeeps == ASSUME LongRunInv, LinkerPublishes PROVE LongRunInv'
<1>1. /\ Quiet /\ at'.candidate = at.candidate /\ run' = run
      /\ UNCHANGED <<sourceStatus, candidateStatus, watchdogStatus, report>>
  BY DEF LinkerPublishes, LongRunInv, Shape, ThreadShape, Quiet, events, ledgers
<1>2. ThreadShape'
  BY DEF LinkerPublishes, LongRunInv, Shape, ThreadShape, time, ledgers
<1>3. pc.linker \in {"last", "failed", "case", "next"} /\ pc["linker"] = pc.linker
  BY DEF LinkerPublishes, Over, Walks
<1>4. PICK label \in {"pass", "done"} :
         Goto("linker", label) /\ (label = "pass" => outcomeStatus'.st \notin TerminalStates)
  <2>1. CASE Over("linker")
    <3>1. pc.linker \notin {"last", "failed"}
      BY <2>1 DEF Over, Walks
    <3> QED
      BY <2>1, <3>1 DEF LinkerPublishes, OutcomeSnapshot, TerminalStates
  <2>2. CASE ~Over("linker")
    BY <2>2 DEF LinkerPublishes
  <2> QED
    BY <2>1, <2>2
<1>5. label \in Labels \ {"lock", "tail"}
  BY DEF Labels
<1>6. StatusesFit'
  <2>1. (Latched => Latched') /\ pc'.linker = label /\ \A q \in Processes : q # "linker" => pc'[q] = pc[q]
    BY <1>1, <1>4, <1>5 DEF Quiet, Latched, Goto, LongRunInv, Shape, CallShape, Processes
  <2> QED
    BY <1>1, <1>3, <1>4, <2>1 DEF LongRunInv, StatusesFit, Processes
<1> QED
  BY <1>1, <1>2, <1>3, <1>4, <1>5, <1>6, LinkerGoes

\* A restarted linker begins a new pass.
LEMMA LinkerRestartsKeeps == ASSUME LongRunInv, LinkerRestarts PROVE LongRunInv'
<1>1. /\ Quiet /\ at'.candidate = at.candidate /\ UNCHANGED statuses /\ ThreadShape'
      /\ run'["linker"] > 0 /\ \A q \in Processes : run[q] > 0 => run'[q] > 0
  BY DEF LinkerRestarts, LongRunInv, Shape, ThreadShape, Quiet, events, ledgers, time, Processes
<1>2. pc.linker = "dead" /\ Goto("linker", "pass")
  BY DEF LinkerRestarts
<1>3. "pass" \in Labels \ {"lock", "tail"}
  BY DEF Labels
<1>4. StatusesFit'
  <2>1. Others("linker") /\ "linker" \in Processes /\ pc["linker"] # "done" /\ (Latched => Latched')
    BY <1>1, <1>2 DEF Goto, Others, Processes, LongRunInv, Shape, CallShape, Quiet, Latched
  <2> QED
    BY <1>1, <2>1, StatusesKept DEF LongRunInv
<1> QED
  BY <1>1, <1>2, <1>3, <1>4, LinkerGoes
---------------------------------------------------------------------------
(* The collector and the watchdog.                                         *)

\* A collector or a watchdog turns to a label.
LEMMA RoleGoes ==
    ASSUME LongRunInv, Quiet, NEW p \in {"collector", "watchdog"}, NEW label \in Labels \ {"lock", "tail"}, Goto(p, label),
           pc[p] \notin {"lock", "tail"}, ThreadShape', StatusesFit', at' = at,
           \A q \in Processes : run[q] > 0 => run'[q] > 0, pc[p] = "dead" => run'[p] > 0
    PROVE  LongRunInv'
<1>1. p \in Processes /\ p \notin {"candidate", "linker"}
  BY DEF Processes
<1>2. MovesTo(p, label)
  BY <1>1, GotoIs DEF LongRunInv, Shape
<1>3. Excuses(p) => Excuses(p)'
  BY <1>1 DEF Excuses
<1> QED
  BY <1>1, <1>2, <1>3, QuietIsGrowth, LabelStep

\* The same, when it publishes nothing.
LEMMA RoleTurns ==
    ASSUME LongRunInv, Quiet, NEW p \in {"collector", "watchdog"}, NEW label \in Labels \ {"lock", "tail"}, Goto(p, label),
           pc[p] \notin {"lock", "tail", "done"}, ThreadShape', UNCHANGED statuses, at' = at,
           \A q \in Processes : run[q] > 0 => run'[q] > 0, pc[p] = "dead" => run'[p] > 0
    PROVE  LongRunInv'
<1>1. Others(p) /\ p \in Processes /\ (Latched => Latched')
  BY DEF Goto, Others, Processes, LongRunInv, Shape, CallShape, Quiet, Latched
<1>2. StatusesFit'
  BY <1>1, StatusesKept DEF LongRunInv
<1> QED
  BY <1>2, RoleGoes

\* A poll admits bars and publishes that the collector runs.
LEMMA CollectorPollsKeeps == ASSUME LongRunInv, CollectorPolls PROVE LongRunInv'
<1>1. /\ Quiet /\ UNCHANGED <<pc, call, at, run>>
      /\ UNCHANGED <<candidateStatus, outcomeStatus, watchdogStatus, report>>
  BY DEF CollectorPolls, Quiet, events, ledgers, control, rest
<1>2. ThreadShape'
  BY DEF CollectorPolls, LongRunInv, Shape, ThreadShape, ledgers, control, rest
<1>3. sourceStatus'.st \notin TerminalStates
  BY DEF CollectorPolls, SourceSnapshot, TerminalStates
<1>4. StatusesFit'
  BY <1>1, <1>3 DEF LongRunInv, StatusesFit, Quiet, Latched
<1> QED
  BY <1>1, <1>2, <1>4, IdleStep

\* SIGTERM, or a revised bar, is recorded as fatal.
LEMMA CollectorFailsKeeps == ASSUME LongRunInv, CollectorFails PROVE LongRunInv'
<1>1. Quiet /\ ThreadShape' /\ at' = at /\ run' = run /\ UNCHANGED statuses
  BY DEF CollectorFails, LongRunInv, Shape, ThreadShape, Quiet, time, events, ledgers, rest, statuses
<1>2. "collector" \in Processes /\ pc["collector"] = "poll"
  BY DEF CollectorFails, Processes
<1>3. "failed" \in Labels \ {"infer", "attest", "lock", "tail", "clean", "link", "fresh"}
  BY DEF Labels
<1> QED
  BY <1>1, <1>2, <1>3, FailStep DEF CollectorFails

\* The collector's terminal status is its last.
LEMMA CollectorFinishesKeeps == ASSUME LongRunInv, CollectorFinishes PROVE LongRunInv'
<1>1. /\ Quiet /\ ThreadShape' /\ at' = at /\ run' = run
      /\ UNCHANGED <<candidateStatus, outcomeStatus, watchdogStatus, report>>
  BY DEF CollectorFinishes, LongRunInv, Shape, ThreadShape, Quiet, time, events, ledgers, rest
<1>2. pc["collector"] \in {"failed", "poll"} /\ Goto("collector", "done")
  BY DEF CollectorFinishes
<1>3. "done" \in Labels \ {"lock", "tail"}
  BY DEF Labels
<1>4. StatusesFit'
  <2>1. pc'.collector = "done" /\ \A q \in Processes : pc[q] = "done" => pc'[q] = "done"
    BY <1>2 DEF Goto, LongRunInv, Shape, CallShape, Processes, Labels
  <2> QED
    BY <1>1, <2>1 DEF LongRunInv, StatusesFit, Processes, Quiet, Latched
<1> QED
  BY <1>1, <1>2, <1>3, <1>4, RoleGoes

\* A restarted collector records its recovery before it publishes.
LEMMA CollectorRestartsKeeps == ASSUME LongRunInv, CollectorRestarts PROVE LongRunInv'
<1> DEFINE p == "collector"
<1>1. /\ Quiet /\ ThreadShape' /\ at' = at
      /\ UNCHANGED <<candidateStatus, outcomeStatus, watchdogStatus, report>>
  <2>1. UNCHANGED <<time, events, ledgers, at, candidateStatus, outcomeStatus, watchdogStatus, report, saw, contract>>
    BY DEF CollectorRestarts
  <2>2. run' = [run EXCEPT !.collector = @ + 1] \/ run' = run
    BY Zenon DEF CollectorRestarts
  <2>3. run' \in [Processes -> Nat]
    BY <2>2 DEF LongRunInv, Shape, ThreadShape, Processes
  <2> QED
    BY <2>1, <2>3 DEF LongRunInv, Shape, ThreadShape, Quiet, time, events, ledgers
<1>2. p \in Processes /\ "collector" \in {"collector", "watchdog"}
  BY DEF Processes
<1>3. CASE /\ pc.collector = "dead" /\ run' = [run EXCEPT !.collector = @ + 1] /\ UNCHANGED sourceStatus
           /\ Invoke(p, "recovery", "collector", 1, FALSE, "fresh", "dead")
  <2>1. run'[p] > 0 /\ \A q \in Processes : run[q] > 0 => run'[q] > 0
    BY <1>2, <1>3 DEF LongRunInv, Shape, ThreadShape
  <2>2. UNCHANGED statuses
    BY <1>1, <1>3 DEF statuses
  <2>3. \A c \in Calls : (c.op = "recovery" /\ c.to = "collector" /\ c.o = 1 /\ c.ok = "fresh" /\ c.raise = "dead")
                          => Promised(p, c)'
    BY DEF Promised, CaseOps
  <2>4. "recovery" \in Ops \ {"none"} /\ "fresh" \in Labels /\ pc[p] = "dead"
    BY <1>3 DEF Ops, Labels
  <2>5. ASSUME NEW pid \in BOOLEAN, Invoke(p, "recovery", "collector", 1, pid, "fresh", "dead")
        PROVE  LongRunInv'
    BY <1>1, <1>2, <2>1, <2>2, <2>3, <2>4, <2>5, QuietIsGrowth, InvokeStep
  <2> QED
    BY <1>3, <2>5, Zenon
<1>4. CASE /\ pc.collector = "fresh" /\ Goto(p, "poll") /\ UNCHANGED run
           /\ sourceStatus' = SourceSnapshot("RUNNING", bars)
  <2>1. "poll" \in Labels \ {"lock", "tail"} /\ sourceStatus'.st \notin TerminalStates
    BY <1>4 DEF Labels, SourceSnapshot, TerminalStates
  <2>2. StatusesFit'
    <3>1. \A q \in Processes : pc[q] = "done" => pc'[q] = "done"
      BY <1>4 DEF Goto, LongRunInv, Shape, CallShape, Processes, Labels
    <3> QED
      BY <1>1, <2>1, <3>1 DEF LongRunInv, StatusesFit, Processes, Quiet, Latched
  <2> QED
    BY <1>1, <1>2, <1>4, <2>1, <2>2, RoleGoes
<1> QED
  BY <1>3, <1>4 DEF CollectorRestarts

\* The watchdog starts once the linker has published.
LEMMA WatchdogStartsKeeps == ASSUME LongRunInv, WatchdogStarts PROVE LongRunInv'
<1>1. Quiet /\ ThreadShape' /\ at' = at /\ run' = run /\ UNCHANGED statuses
  BY StillIs DEF WatchdogStarts
<1>2. pc["watchdog"] = "off" /\ Goto("watchdog", "look") /\ "look" \in Labels \ {"lock", "tail"}
  BY DEF WatchdogStarts, Labels
<1> QED
  BY <1>1, <1>2, RoleTurns

\* check_once reads the status files.
LEMMA WatchdogReadsKeeps == ASSUME LongRunInv, WatchdogReads PROVE LongRunInv'
<1>1. Quiet /\ at' = at /\ run' = run /\ UNCHANGED statuses
  BY DEF WatchdogReads, Quiet, events, ledgers
<1>2. ThreadShape'
  BY DEF WatchdogReads, LongRunInv, Shape, ThreadShape, time, ledgers
<1>3. pc["watchdog"] = "look" /\ Goto("watchdog", "judge") /\ "judge" \in Labels \ {"lock", "tail"}
  BY DEF WatchdogReads, Labels
<1> QED
  BY <1>1, <1>2, <1>3, RoleTurns

\* A check is recorded as what the generation is.
LEMMA RecordCheckStep ==
    ASSUME LongRunInv, Quiet, RecordCheck, pc["watchdog"] \in {"judge", "decide"},
           ThreadShape', at' = at, run' = run, UNCHANGED statuses
    PROVE  LongRunInv'
<1> DEFINE p == "watchdog"
<1>1. PICK to \in {"FATAL", "healthy"}, ok \in {"failed", "tell"} : Invoke(p, "check", to, 1, FALSE, ok, "blind")
  BY DEF RecordCheck
<1>2. \A c \in Calls : (c.op = "check" /\ c.to = to /\ c.o = 1 /\ c.ok = ok /\ c.raise = "blind") => Promised(p, c)'
  BY DEF Promised, CaseOps
<1>3. "check" \in Ops \ {"none"} /\ ok \in Labels /\ p \in Processes /\ to \in States \union {"none", "healthy", "collector", "candidate"}
  BY DEF Ops, Labels, Processes, States
<1>4. ASSUME NEW pid \in BOOLEAN, Invoke(p, "check", to, 1, pid, ok, "blind")
      PROVE  LongRunInv'
  BY <1>2, <1>3, <1>4, QuietIsGrowth, InvokeStep
<1> QED
  BY <1>1, <1>4, Zenon

\* check_once judges by what it read, and records a fatal row or its check.
LEMMA JudgeKeeps == ASSUME LongRunInv, Judge PROVE LongRunInv'
<1>1. Quiet /\ at' = at /\ run' = run /\ UNCHANGED statuses
  BY DEF Judge, Quiet, events, ledgers
<1>2. ThreadShape'
  BY DEF Judge, LongRunInv, Shape, ThreadShape, time, ledgers
<1>3. pc["watchdog"] \in {"judge", "decide"} /\ "watchdog" \in Processes
  BY DEF Judge, Processes
<1>4. Fail("watchdog", "decide") \/ RecordCheck
  BY DEF Judge
<1>5. "decide" \in Labels \ {"infer", "attest", "lock", "tail", "clean", "link", "fresh"}
  BY DEF Labels
<1>6. Fail("watchdog", "decide") => LongRunInv'
  BY <1>1, <1>2, <1>3, <1>5, FailStep
<1> QED
  BY <1>1, <1>2, <1>3, <1>4, <1>6, RecordCheckStep

\* The watchdog's terminal check is its last.
LEMMA WatchdogPublishesKeeps == ASSUME LongRunInv, WatchdogPublishes PROVE LongRunInv'
<1>1. /\ Quiet /\ ThreadShape' /\ at' = at /\ run' = run
      /\ UNCHANGED <<sourceStatus, candidateStatus, outcomeStatus, report>>
  BY DEF WatchdogPublishes, LongRunInv, Shape, ThreadShape, Quiet, time, events, ledgers, rest
<1>2. PICK label \in {"done", "look"} : Goto("watchdog", label) /\ (watchdogStatus'.terminal => label = "done")
  <2> DEFINE last == pc.watchdog = "tell" /\ now >= TerminalCheck
  <2>1. Goto("watchdog", IF pc.watchdog # "tell" \/ last THEN "done" ELSE "look")
    BY DEF WatchdogPublishes
  <2>2. watchdogStatus'.terminal <=> last
    BY DEF WatchdogPublishes
  <2> QED
    BY <2>1, <2>2
<1>3. pc["watchdog"] \in {"tell", "failed", "blind"} /\ label \in Labels \ {"lock", "tail"}
  BY DEF WatchdogPublishes, Labels
<1>4. StatusesFit'
  <2>1. pc'.watchdog = label /\ \A q \in Processes : pc[q] = "done" => pc'[q] = "done"
    BY <1>2, <1>3 DEF Goto, LongRunInv, Shape, CallShape, Processes
  <2> QED
    BY <1>1, <1>2, <2>1 DEF LongRunInv, StatusesFit, Processes, Quiet, Latched
<1> QED
  BY <1>1, <1>2, <1>3, <1>4, RoleGoes

\* A restarted watchdog looks again.
LEMMA WatchdogRestartsKeeps == ASSUME LongRunInv, WatchdogRestarts PROVE LongRunInv'
<1>1. /\ Quiet /\ at' = at /\ UNCHANGED statuses /\ ThreadShape'
      /\ run'["watchdog"] > 0 /\ \A q \in Processes : run[q] > 0 => run'[q] > 0
  BY DEF WatchdogRestarts, LongRunInv, Shape, ThreadShape, Quiet, events, ledgers, time, Processes
<1>2. pc["watchdog"] = "dead" /\ Goto("watchdog", "look") /\ "look" \in Labels \ {"lock", "tail"}
  BY DEF WatchdogRestarts, Labels
<1> QED
  BY <1>1, <1>2, RoleTurns
---------------------------------------------------------------------------
(* The event ledger.                                                       *)

\* A call that is not admitted writes nothing.
LEMMA RefusedStep ==
    ASSUME LongRunInv, NEW p \in Processes, pc[p] = "lock", ~Admissible(call[p]), Return(p, call[p].raise),
           UNCHANGED <<time, events, ledgers, at, clock, statuses, rest>>
    PROVE  LongRunInv'
<1>1. Quiet /\ ThreadShape' /\ at' = at /\ run' = run /\ UNCHANGED statuses
  BY StillIs
<1>2. PICK c \in Calls : c = call[p] /\ Promised(p, c)
  BY DEF LongRunInv, Shape, CallShape, CallFits
<1>3. c.raise \in {"dead", "conflict", "blind"} /\ c.raise \in Labels \ {"lock", "tail"}
  BY DEF Calls, Labels
<1>4. MovesTo(p, c.raise)
  BY <1>2, <1>3, ReturnIs DEF LongRunInv, Shape
<1>5. StatusesFit'
  BY <1>1, <1>4, StatusesKept DEF LongRunInv, MovesTo, Quiet, Latched
<1>6. p = "candidate" => CandidatePlaced'
  <2>1. c.ok = "fresh" => c.raise = "dead"
    BY <1>2 DEF Promised
  <2> QED
    BY <1>1, <1>2, <1>3, <1>4, <2>1 DEF LongRunInv, CandidatePlaced, MovesTo, Quiet
<1>7. p = "linker" => LinkerPlaced'
  BY <1>3, <1>4 DEF MovesTo, LinkerPlaced
<1>8. p = "candidate" /\ ~Latched => c.raise \notin Walking \/ state \notin {"TERMINALIZING", "DEADLINE_REACHED"}
  BY <1>2 DEF LongRunInv, Ordered, WalkFits, Walking
<1>9. c.op # "fail"
  <2> SUFFICES ASSUME c.op = "fail" PROVE FALSE
    OBVIOUS
  <2>1. EventState(c) = "FATAL" /\ state \in States
    BY <1>2 DEF EventState, Promised, LongRunInv, Shape, LedgerShape
  <2>2. "FATAL" = state \/ "FATAL" \in Transitions[state]
    BY <2>1, RankIs
  <2>3. Admissible(c)
    BY <2>1, <2>2 DEF Admissible, Active
  <2> QED
    BY <1>2, <2>3
<1>10. Excuses(p) => Excuses(p)'
  BY <1>1, <1>2, <1>9 DEF Excuses
<1> QED
  BY <1>1, <1>3, <1>4, <1>5, <1>6, <1>7, <1>8, <1>10, QuietIsGrowth, LabelStep

\* What an admitted call does to the ledgers, and where its process goes.
Appends(p, c) ==
    /\ c = call[p] /\ c \in Calls /\ Promised(p, c) /\ c.op # "none" /\ pc[p] = "lock"
    /\ Admissible(c) /\ Apply(c)
    /\ UNCHANGED <<entries, durable, links, contract>> /\ at' = at /\ run' = run /\ UNCHANGED statuses
    /\ CallShape' /\ Others(p)
    /\ IF c.op = "excluded" THEN pc'[p] = "tail" /\ call'[p] = c ELSE pc'[p] = c.ok /\ call'[p] = NoCall

\* An admitted append of a process, in the terms of the lemmas below.
LEMMA AppendsIs ==
    ASSUME LongRunInv, NEW p \in Processes, AppendEvent(p), Admissible(call[p])
    PROVE  Appends(p, call[p]) /\ ThreadShape'
<1>1. PICK c \in Calls : c = call[p] /\ Promised(p, c) /\ c.op # "none"
  BY DEF LongRunInv, Shape, CallShape, CallFits, AppendEvent
<1>2. /\ UNCHANGED <<entries, durable, links, contract>> /\ at' = at /\ run' = run /\ UNCHANGED statuses
      /\ pc[p] = "lock" /\ Apply(c)
  BY <1>1 DEF AppendEvent, ledgers, rest
<1>3. ThreadShape'
  BY <1>2 DEF AppendEvent, LongRunInv, Shape, ThreadShape, time, rest
<1>4. CASE c.op = "excluded"
  <2>1. pc' = [pc EXCEPT ![p] = "tail"] /\ call' = call
    BY <1>1, <1>4 DEF AppendEvent, Goto
  <2> QED
    BY <1>1, <1>2, <1>3, <1>4, <2>1 DEF Appends, LongRunInv, Shape, CallShape, Others, Labels
<1>5. CASE c.op # "excluded"
  <2>1. c.ok \in Labels /\ Return(p, c.ok)
    BY <1>1, <1>5 DEF AppendEvent, Calls
  <2>2. MovesTo(p, c.ok)
    BY <2>1, ReturnIs DEF LongRunInv, Shape
  <2> QED
    BY <1>1, <1>2, <1>3, <1>5, <2>2 DEF Appends, MovesTo
<1> QED
  BY <1>4, <1>5

\* An admitted event names the state before it or the next one; only a transition goes on.
LEMMA AppendedState ==
    ASSUME LongRunInv, NEW p \in Processes, NEW c, Appends(p, c)
    PROVE  /\ state' \in States /\ (Latched => Latched') /\ fatals' \in Nat
           /\ c.op = "fail" => Latched'
           /\ c.op # "fail" => fatals' = fatals
           /\ ~Latched' => state' # "FATAL" /\ Rank[state] <= Rank[state']
           /\ ~Latched' /\ c.op # "transition" => state' = state
<1>1. state \in States /\ fatals \in Nat
  BY DEF LongRunInv, Shape, LedgerShape
<1>2. state' = EventState(c) /\ fatals' = IF c.op = "fail" THEN fatals + 1 ELSE fatals
  BY DEF Appends, Apply
<1>3. state' = state \/ state' \in Transitions[state]
  BY <1>2 DEF Appends, Admissible
<1>4. state' \in States
  BY <1>1, <1>3 DEF Transitions, States
<1>5. /\ fatals' \in Nat /\ (Latched => Latched') /\ (c.op = "fail" => Latched')
      /\ (c.op # "fail" => fatals' = fatals)
  BY <1>1, <1>2 DEF Latched
<1>6. ASSUME ~Latched'
      PROVE  state' # "FATAL" /\ Rank[state] <= Rank[state'] /\ (c.op # "transition" => state' = state)
  <2>1. ~Latched /\ c.op # "fail" /\ state # "FATAL" /\ SeenFits(p)
    BY <1>5, <1>6 DEF LongRunInv, Ordered
  <2>2. Rank[state] \in Nat /\ Rank[state'] \in Nat /\ (state' \in Transitions[state] => Rank[state] < Rank[state'])
    BY <1>1, <1>4, <2>1, RankIs
  <2>3. CASE c.op = "transition"
    <3>1. state' = c.to /\ c.to # "FATAL"
      BY <1>2, <2>3 DEF EventState, Appends, Promised
    <3> QED
      BY <1>3, <2>2, <2>3, <3>1
  <2>4. CASE c.op # "transition"
    <3>1. state' = c.seen /\ c.seen # "FATAL" /\ Rank[c.seen] <= Rank[state]
      BY <1>2, <2>1, <2>4 DEF EventState, Appends, SeenFits
    <3>2. state' = state
      BY <1>3, <2>2, <3>1
    <3> QED
      BY <2>2, <3>1, <3>2
  <2> QED
    BY <2>3, <2>4
<1> QED
  BY <1>4, <1>5, <1>6

\* An admitted case event is about a case that is still open, and true.
LEMMA AppendedCases ==
    ASSUME LongRunInv, NEW p \in Processes, NEW c, Appends(p, c)
    PROVE  /\ cases' \in [Ordinals -> CaseRecords]
           /\ Truthful'
           /\ \A o \in Ordinals : cases[o].st = "pending" /\ InTime(o) /\ o \notin links /\ p # "linker" =>
                 cases'[o].st = "pending"
           /\ c.op = "pending" => c.o \in Ordinals /\ cases'[c.o].st = "pending"
           /\ c.op # "excluded" => CasesIn("excluded")' = CasesIn("excluded")
<1>1. /\ cases \in [Ordinals -> CaseRecords] /\ links \subseteq DOMAIN durable /\ DOMAIN durable \subseteq entries
      /\ entries \subseteq Ordinals
  BY DEF LongRunInv, Shape, LedgerShape
<1>2. Ordinals' = Ordinals /\ \A o : InTime(o)' <=> InTime(o)
  BY DEF Appends, Ordinals, InTime, Deadline, Cutoff
<1>3. CASE c.op \in CaseOps
  <2>1. PICK o \in Ordinals : o = c.o
    BY <1>3 DEF Appends, Promised
  <2>2. c.pid \in BOOLEAN /\ c \in Calls
    BY DEF Appends, Calls
  <2>3. cases' = [cases EXCEPT ![o] = Case(c.op, c.pid)]
    BY <1>3, <2>1 DEF Appends, Apply, CaseOps
  <2>4. Case(c.op, c.pid) \in CaseRecords /\ Case(c.op, c.pid).st = c.op
    BY <1>3, <2>2 DEF Case, CaseRecords, CaseOps
  <2>5. cases[o].st = "none" \/ (c.op # "pending" /\ cases[o].st = "pending")
    BY <1>3, <2>1 DEF Appends, Admissible, CaseOps, Case
  <2>6. c.op = "excluded" => o \notin links /\ ~(p # "linker" /\ InTime(o))
    <3>1. o \in links => InTime(o)
      BY DEF LongRunInv, Truthful
    <3>2. p \in {"candidate", "linker"}
      BY <1>3 DEF Appends, Promised
    <3> QED
      BY <1>1, <2>1, <3>1, <3>2 DEF Appends, Promised, InTime
  <2>7. c.op = "clean" => o \in links /\ p = "linker"
    BY <2>1 DEF Appends, Promised
  <2>8. cases' \in [Ordinals -> CaseRecords]
    BY <1>1, <2>3, <2>4
  <2>9. cases'[o].st = c.op /\ \A e \in Ordinals \ {o} : cases'[e] = cases[e]
    BY <1>1, <2>3, <2>4
  <2>10. Truthful'
    BY <1>1, <1>2, <1>3, <2>5, <2>6, <2>7, <2>9 DEF LongRunInv, Truthful, CasesIn, CaseOps, Appends
  <2>11. \A e \in Ordinals : cases[e].st = "pending" /\ InTime(e) /\ e \notin links /\ p # "linker" => cases'[e].st = "pending"
    BY <1>3, <2>5, <2>6, <2>7, <2>9 DEF CaseOps
  <2>12. c.op # "excluded" => CasesIn("excluded")' = CasesIn("excluded")
    BY <1>2, <2>5, <2>9 DEF CasesIn
  <2> QED
    BY <2>1, <2>8, <2>9, <2>10, <2>11, <2>12
<1>4. CASE c.op \notin CaseOps
  <2>1. cases' = cases
    BY <1>4 DEF Appends, Apply, CaseOps
  <2>2. Truthful'
    BY <1>2, <2>1 DEF LongRunInv, Truthful, CasesIn, Appends
  <2> QED
    BY <1>1, <1>2, <1>4, <2>1, <2>2 DEF CasesIn, CaseOps
<1> QED
  BY <1>3, <1>4

\* The append of any process keeps the invariant.
LEMMA AppendStep ==
    ASSUME LongRunInv, NEW p \in Processes, NEW c, Appends(p, c), ThreadShape'
    PROVE  LongRunInv'
<1>1. /\ state' \in States /\ (Latched => Latched') /\ fatals' \in Nat
      /\ c.op = "fail" => Latched'
      /\ c.op # "fail" => fatals' = fatals
      /\ ~Latched' => state' # "FATAL" /\ Rank[state] <= Rank[state']
      /\ ~Latched' /\ c.op # "transition" => state' = state
  BY AppendedState
<1>2. /\ cases' \in [Ordinals -> CaseRecords]
      /\ Truthful'
      /\ \A o \in Ordinals : cases[o].st = "pending" /\ InTime(o) /\ o \notin links /\ p # "linker" =>
            cases'[o].st = "pending"
      /\ c.op = "pending" => c.o \in Ordinals /\ cases'[c.o].st = "pending"
      /\ c.op # "excluded" => CasesIn("excluded")' = CasesIn("excluded")
  BY AppendedCases
<1>3. /\ c = call[p] /\ c \in Calls /\ Promised(p, c) /\ c.op # "none" /\ pc[p] = "lock"
      /\ UNCHANGED <<entries, durable, links, contract>> /\ at' = at /\ run' = run /\ UNCHANGED statuses
      /\ CallShape' /\ Others(p)
  BY DEF Appends
<1>4. IF c.op = "excluded" THEN pc'[p] = "tail" /\ call'[p] = c ELSE pc'[p] = c.ok /\ call'[p] = NoCall
  BY DEF Appends
<1>5. Ordinals' = Ordinals /\ (\A o : InTime(o)' <=> InTime(o))
  BY <1>3 DEF Ordinals, InTime, Deadline, Cutoff
<1>6. LedgerShape'
  BY <1>1, <1>2, <1>3, <1>5 DEF LongRunInv, Shape, LedgerShape
<1>7. \A q \in Processes : CallFits(q)'
  <2>1. CallFits(p)'
    <3>1. Promised(p, c)'
      BY <1>3, <1>5 DEF Promised
    <3>2. Promised(p, NoCall)'
      BY DEF Promised, NoCall, CaseOps
    <3>3. c.ok \notin {"lock", "tail"}
      BY <1>3 DEF Promised
    <3> QED
      BY <1>4, <3>1, <3>2, <3>3 DEF CallFits
  <2>2. ASSUME NEW q \in Processes, q # p PROVE CallFits(q)'
    <3>1. Later(q)
      BY <1>3 DEF Later
    <3> QED
      BY <1>3, <2>2, <3>1, StillFits DEF LongRunInv, Others
  <2> QED
    BY <2>1, <2>2
<1>8. CandidatePlaced'
  <2>1. CASE p = "candidate"
    <3>1. pc'[p] \notin {"infer", "attest"} /\ (c.ok = "fresh" => pc'[p] = "fresh")
      BY <1>3, <1>4 DEF Promised
    <3>2. c.ok = "fresh" \/ entries \subseteq DOMAIN durable
      BY <1>3, <2>1 DEF LongRunInv, CandidatePlaced
    <3> QED
      BY <1>3, <2>1, <3>1, <3>2 DEF CandidatePlaced
  <2>2. CASE p # "candidate"
    BY <1>3, <1>5, <2>2 DEF LongRunInv, CandidatePlaced, Others, Processes
  <2> QED
    BY <2>1, <2>2
<1>9. LinkerPlaced'
  <2>1. CASE p = "linker"
    <3>1. pc'[p] = "clean" => at.linker \in links
      BY <1>3, <1>4 DEF Promised
    <3>2. pc'[p] = "link" => c.op = "pending" /\ c.o = at.linker /\ InTime(at.linker) /\ at.linker \notin links
      BY <1>3, <1>4 DEF Promised
    <3> QED
      BY <1>2, <1>3, <1>5, <2>1, <3>1, <3>2 DEF LinkerPlaced, InTime
  <2>2. CASE p # "linker"
    <3>1. pc'.linker = pc.linker
      BY <1>3, <2>2 DEF Others, Processes
    <3>2. pc.linker = "link" => at.linker \in Ordinals
      BY DEF LongRunInv, LinkerPlaced, InTime, Shape, LedgerShape
    <3> QED
      BY <1>2, <1>3, <1>5, <2>2, <3>1, <3>2 DEF LongRunInv, LinkerPlaced, InTime
  <2> QED
    BY <2>1, <2>2
<1>10. Ordered'
  <2> SUFFICES ASSUME ~Latched' PROVE state' # "FATAL" /\ (\A q \in Processes : SeenFits(q)') /\ WalkFits'
    BY DEF Ordered
  <2>1. ~Latched /\ state \in States /\ (\A q \in Processes : SeenFits(q)) /\ WalkFits
    BY <1>1 DEF LongRunInv, Ordered, Shape, LedgerShape
  <2>2. \A s \in States : Rank[s] <= Rank[state] => Rank[s] <= Rank[state']
    <3>1. \A s \in States : Rank[s] \in Nat
      BY RankIs
    <3> QED
      BY <1>1, <2>1, <3>1
  <2>3. \A q \in Processes : SeenFits(q)'
    <3> SUFFICES ASSUME NEW q \in Processes, call'[q].op \notin {"none", "transition", "fail"}
                 PROVE  call'[q].seen \in States \ {"FATAL"} /\ Rank[call'[q].seen] <= Rank[state']
      BY DEF SeenFits, Rank
    <3>1. call'[q] = call[q]
      BY <1>3, <1>4 DEF Others, NoCall
    <3> QED
      BY <2>1, <2>2, <3>1 DEF SeenFits
  <2>4. WalkFits'
    <3>1. CASE p = "candidate" /\ c.op = "transition"
      <4>1. state' = c.to
        BY <3>1 DEF Appends, Apply, EventState
      <4> QED
        BY <1>3, <1>4, <3>1, <4>1 DEF Promised, WalkFits, Walking
    <3>2. CASE p = "candidate" /\ c.op # "transition"
      BY <1>1, <1>3, <1>4, <2>1, <3>2 DEF WalkFits, Promised, Walking
    <3>3. CASE p # "candidate"
      <4>1. state' = state
        BY <1>1, <1>3, <3>3 DEF Promised
      <4> QED
        BY <1>3, <2>1, <3>3, <4>1 DEF WalkFits, Others, Processes
    <3> QED
      BY <3>1, <3>2, <3>3
  <2> QED
    BY <1>1, <2>3, <2>4
<1>11. StatusesFit'
  BY <1>1, <1>3, StatusesKept DEF LongRunInv
<1>12. Accounted'
  <2>1. CASE c.op = "fail"
    BY <1>1, <2>1 DEF Accounted
  <2>2. CASE c.op = "excluded"
    BY <1>4, <2>2 DEF Accounted, Excuses
  <2>3. CASE c.op \notin {"fail", "excluded"}
    <3>1. (Feasible <=> Feasible') /\ (Latched <=> Latched')
      BY <1>1, <1>2, <1>3, <1>5, <2>3 DEF Feasible, Latched, MinClean
    <3>2. \A q \in Processes : Excuses(q) => Excuses(q)'
      BY <1>3, <2>3 DEF Excuses, Others
    <3> QED
      BY <3>1, <3>2 DEF LongRunInv, Accounted
  <2> QED
    BY <2>1, <2>2, <2>3
<1> QED
  BY <1>2, <1>3, <1>6, <1>7, <1>8, <1>9, <1>10, <1>11, <1>12 DEF LongRunInv, Shape

\* The second half of a coordinator call, admitted or refused under the lock.
LEMMA AppendEventKeeps == ASSUME LongRunInv, NEW p \in Processes, AppendEvent(p) PROVE LongRunInv'
<1>1. CASE Admissible(call[p])
  BY <1>1, AppendsIs, AppendStep
<1>2. CASE ~Admissible(call[p])
  BY <1>2, RefusedStep DEF AppendEvent, statuses, ledgers, rest, events, time
<1> QED
  BY <1>1, <1>2

\* A call that excluded a case returns, or latches the generation when it was one too many.
LEMMA ReconsiderKeeps == ASSUME LongRunInv, NEW p \in Processes, Reconsider(p) PROVE LongRunInv'
<1>1. Quiet /\ ThreadShape' /\ at' = at /\ run' = run /\ UNCHANGED statuses
  BY StillIs DEF Reconsider
<1>2. PICK label \in {"next", "late"} : label = call[p].ok
  BY DEF Reconsider, LongRunInv, CallFits, Promised
<1>3. label \in Labels \ {"infer", "attest", "lock", "tail", "clean", "link", "fresh"}
  BY DEF Labels
<1>4. pc[p] = "tail"
  BY DEF Reconsider
<1>5. p = "candidate" /\ ~Latched /\ state \in Ending => label \notin Walking
  BY <1>2, <1>4 DEF LongRunInv, Ordered, WalkFits, Ending
<1>6. CASE Feasible /\ Return(p, label)
  <2>1. MovesTo(p, label)
    BY <1>3, <1>6, ReturnIs DEF LongRunInv, Shape
  <2>2. StatusesFit'
    BY <1>1, <1>4, <2>1, StatusesKept DEF LongRunInv, MovesTo, Quiet, Latched
  <2>3. p = "candidate" => CandidatePlaced'
    BY <1>1, <1>2, <1>4, <2>1 DEF LongRunInv, CandidatePlaced, MovesTo, Quiet
  <2>4. p = "linker" => LinkerPlaced'
    BY <1>2, <2>1 DEF MovesTo, LinkerPlaced
  <2> QED
    BY <1>1, <1>3, <1>5, <1>6, <2>1, <2>2, <2>3, <2>4, QuietIsGrowth, LabelStep DEF Ending
<1>7. CASE Fail(p, label)
  BY <1>1, <1>3, <1>4, <1>5, <1>7, FailStep
<1> QED
  BY <1>2, <1>6, <1>7 DEF Reconsider

---------------------------------------------------------------------------
(* Crashes, the audit and the clock.                                       *)

\* A crash loses the pending call and nothing that was written.
LEMMA CrashKeeps == ASSUME LongRunInv, NEW p \in Processes, Crash(p) PROVE LongRunInv'
<1>1. Quiet /\ at' = at /\ run' = run /\ UNCHANGED statuses
  BY DEF Crash, Quiet, events, ledgers
<1>2. ThreadShape'
  BY DEF Crash, LongRunInv, Shape, ThreadShape, time, ledgers
<1>3. pc[p] # "done" /\ Return(p, "dead") /\ "dead" \in Labels \ {"lock", "tail"} /\ "dead" \notin Walking
  BY DEF Crash, Alive, Return, Labels, Walking
<1>4. MovesTo(p, "dead")
  BY <1>3, ReturnIs DEF LongRunInv, Shape
<1>5. StatusesFit'
  BY <1>1, <1>3, <1>4, StatusesKept DEF LongRunInv, MovesTo, Quiet, Latched
<1>6. (p = "candidate" => CandidatePlaced') /\ (p = "linker" => LinkerPlaced') /\ Excuses(p)'
  BY <1>4 DEF MovesTo, CandidatePlaced, LinkerPlaced, Excuses
<1> QED
  BY <1>1, <1>2, <1>3, <1>4, <1>5, <1>6, QuietIsGrowth, LabelStep

\* An audit certifies only what has ended.
LEMMA AuditKeeps == ASSUME LongRunInv, Audit PROVE LongRunInv'
<1>1. Quiet /\ ThreadShape' /\ UNCHANGED <<pc, call, at, run>>
      /\ UNCHANGED <<sourceStatus, candidateStatus, outcomeStatus, watchdogStatus>>
  BY DEF Audit, LongRunInv, Shape, ThreadShape, Quiet, time, events, ledgers, control, rest
<1>2. report' = "certified" => \A p \in Processes : pc[p] = "done"
  <2> SUFFICES ASSUME Certifiable PROVE \A p \in Processes : pc[p] = "done"
    BY DEF Audit
  <2>1. ~Latched /\ ~StatusIssue
    BY DEF Certifiable
  <2>2. sourceStatus.st \in TerminalStates /\ candidateStatus.st \in TerminalStates /\ outcomeStatus.st \in TerminalStates
    BY <2>1 DEF StatusIssue
  <2>3. watchdogStatus.terminal
    BY <2>1 DEF StatusIssue
  <2> QED
    BY <2>1, <2>2, <2>3 DEF LongRunInv, StatusesFit, Processes
<1>3. StatusesFit'
  BY <1>1, <1>2 DEF LongRunInv, StatusesFit, Quiet, Latched
<1> QED
  BY <1>1, <1>3, IdleStep

\* Time alone changes nothing that was decided.
LEMMA TickKeeps == ASSUME LongRunInv, Tick PROVE LongRunInv'
<1>1. Quiet /\ UNCHANGED <<pc, call, at, run>> /\ UNCHANGED statuses
  BY DEF Tick, Quiet, events, ledgers, control
<1>2. ThreadShape'
  BY DEF Tick, LongRunInv, Shape, ThreadShape, ledgers, control
<1>3. StatusesFit'
  BY <1>1 DEF LongRunInv, StatusesFit, Quiet, Latched, statuses
<1> QED
  BY <1>1, <1>2, <1>3, IdleStep
---------------------------------------------------------------------------
(* The invariant and the three properties.                                 *)

\* A generation starts with every case open and none excluded.
LEMMA InitInv == Init => LongRunInv
<1> SUFFICES ASSUME Init PROVE LongRunInv
  OBVIOUS
<1>1. /\ contract \in Scenarios /\ FrozenContract(contract)
      /\ now = 0 /\ bars = 0 /\ state = "PREREGISTERED" /\ fatals = 0
      /\ cases = [o \in Ordinals |-> Case("none", FALSE)]
      /\ entries = {} /\ durable = [o \in {} |-> 0] /\ links = {}
  BY ScenarioAssumption DEF Init
<1>2. /\ pc = [collector |-> "poll", candidate |-> "boot", linker |-> "off", watchdog |-> "off"]
      /\ call = [p \in Processes |-> NoCall] /\ run = [p \in Processes |-> 0]
      /\ at = [candidate |-> 1, linker |-> 1]
      /\ saw = [source |-> NoSource, candidate |-> NoCandidate, outcome |-> NoOutcome, attested |-> {}, bars |-> 0]
  BY DEF Init
<1>3. \A o \in Ordinals : cases[o] \in CaseRecords /\ cases[o].st = "none"
  BY <1>1 DEF Case, CaseRecords
<1>4. LedgerShape
  BY <1>1, <1>3 DEF LedgerShape, States
<1>5. ThreadShape
  BY <1>1, <1>2 DEF ThreadShape
<1>6. DOMAIN pc = Processes /\ \A p \in Processes : pc[p] \in {"poll", "boot", "off"} /\ call[p] = NoCall
  BY <1>2 DEF Processes
<1>7. CallShape
  <2>1. \A p \in Processes : pc[p] \in Labels
    BY <1>6 DEF Labels
  <2>2. pc = [p \in Processes |-> pc[p]]
    BY <1>2, <1>6
  <2>3. pc \in [Processes -> Labels]
    BY <2>1, <2>2
  <2> QED
    BY <1>2, <2>3, NoCallIs DEF CallShape
<1>8. Truthful /\ CandidatePlaced /\ LinkerPlaced
  BY <1>1, <1>2, <1>3 DEF Truthful, CandidatePlaced, LinkerPlaced, CasesIn
<1>9. \A p \in Processes : CallFits(p)
  BY <1>6, NoCallFits DEF CallFits
<1>10. Ordered
  BY <1>1, <1>6 DEF Ordered, SeenFits, WalkFits, NoCall
<1>11. StatusesFit
  BY DEF Init, StatusesFit, NoSource, NoCandidate, NoOutcome, NoWatchdog, TerminalStates
<1>12. Accounted
  <2>1. CasesIn("excluded") = {}
    BY <1>3 DEF CasesIn
  <2>2. Ordinals \ CasesIn("excluded") = DOMAIN contract.cutoff
    BY <2>1 DEF Ordinals
  <2>3. DOMAIN contract.cutoff = 1..Len(contract.cutoff) /\ Len(contract.cutoff) \in Nat
    BY <1>1 DEF FrozenContract
  <2>4. Cardinality(DOMAIN contract.cutoff) \in Nat
    <3>1. PICK n \in Nat : DOMAIN contract.cutoff = 1..n
      BY <2>3
    <3>2. IsFiniteSet(1..n)
      BY FS_Interval
    <3> QED
      BY <3>1, <3>2, FS_CardinalityType
  <2>5. contract.minClean \in 1..Cardinality(DOMAIN contract.cutoff)
    BY <1>1 DEF FrozenContract
  <2> QED
    BY <2>2, <2>4, <2>5 DEF Accounted, Feasible, MinClean
<1> QED
  BY <1>4, <1>5, <1>7, <1>8, <1>9, <1>10, <1>11, <1>12 DEF LongRunInv, Shape

\* Every step of the generation keeps the invariant.
LEMMA NextInv == LongRunInv /\ [Next]_vars => LongRunInv'
<1> SUFFICES ASSUME LongRunInv, [Next]_vars PROVE LongRunInv'
  OBVIOUS
<1>1. CASE CandidateStep
  BY <1>1, CandidateStartsKeeps, CandidatePassKeeps, CandidateCaseKeeps, InferKeeps, AttestDurabilityKeeps,
     CandidateConflictKeeps, CandidatePublishesKeeps, CandidateEndsKeeps, CandidateFinishesKeeps,
     CandidateRestartsKeeps, RecoverDurabilityKeeps DEF CandidateStep
<1>2. CASE LinkerStep
  BY <1>2, LaunchLinkerKeeps, LinkerPassKeeps, LinkerCaseKeeps, LinkerLateKeeps, AppendLinkKeeps, RecordCleanKeeps,
     LinkerConflictKeeps, LinkerPublishesKeeps, LinkerRestartsKeeps DEF LinkerStep
<1>3. CASE CollectorStep
  BY <1>3, CollectorPollsKeeps, CollectorFailsKeeps, CollectorFinishesKeeps, CollectorRestartsKeeps DEF CollectorStep
<1>4. CASE WatchdogStep
  BY <1>4, WatchdogStartsKeeps, WatchdogReadsKeeps, JudgeKeeps, WatchdogPublishesKeeps, WatchdogRestartsKeeps
     DEF WatchdogStep
<1>5. CASE \E p \in Processes : CoordinatorStep(p) \/ Crash(p)
  BY <1>5, AppendEventKeeps, ReconsiderKeeps, CrashKeeps DEF CoordinatorStep
<1>6. CASE UNCHANGED vars
  <2>1. Quiet /\ UNCHANGED <<pc, call, at, run>> /\ UNCHANGED statuses /\ UNCHANGED <<now, bars, saw>>
    BY <1>6 DEF vars, Quiet, time, events, ledgers, control, rest
  <2>2. ThreadShape' /\ StatusesFit'
    BY <2>1 DEF LongRunInv, Shape, ThreadShape, Quiet, StatusesFit, Latched, statuses
  <2> QED
    BY <2>1, <2>2, IdleStep
<1> QED
  BY <1>1, <1>2, <1>3, <1>4, <1>5, <1>6, AuditKeeps, TickKeeps DEF Next

\* The invariant holds of every state of a generation.
LEMMA InvHolds == Spec => []LongRunInv
BY InitInv, NextInv, PTL DEF Spec

\* What the cases say is what predictions, attestations and links say: a clean case has its
\* prediction attested in time and its outcome link, and a linked prediction is never
\* accounted for as excluded (LongRunCoordinator.record_case_* and the linker's pass).
THEOREM CasesTheorem == Spec => []CasesTellTheTruth
<1>1. LongRunInv => CasesTellTheTruth
  <2> SUFFICES ASSUME LongRunInv PROVE CasesTellTheTruth
    OBVIOUS
  <2>1. Truthful
    BY DEF LongRunInv
  <2> QED
    BY <2>1 DEF Truthful, InTime, CasesTellTheTruth, NoLateClean, LinkedIsNotExcluded
<1> QED
  BY <1>1, InvHolds, PTL

\* A generation that can no longer reach its clean minimum is latched fatal as soon as the
\* call that excluded the case returns, unless its process died in it
\* (LongRunCoordinator.record_case_excluded).
THEOREM InfeasibleTheorem == Spec => []InfeasibleIsFatal
<1>1. LongRunInv => InfeasibleIsFatal
  BY DEF LongRunInv, Accounted, Excuses, InfeasibleIsFatal
<1> QED
  BY <1>1, InvHolds, PTL

\* Events are written by AppendEvent alone.
LEMMA OnlyAppends ==
    ASSUME [Next]_vars, \A p \in Processes : ~AppendEvent(p)
    PROVE  events' = events
<1>1. CASE CandidateStep
  BY <1>1 DEF CandidateStep, CandidateStarts, CandidatePass, CandidateCase, Infer, AttestDurability, Conflict,
     CandidatePublishes, CandidateEnds, CandidateFinishes, CandidateRestarts, RecoverDurability
<1>2. CASE LinkerStep
  BY <1>2 DEF LinkerStep, LaunchLinker, LinkerPass, LinkerCase, LinkerLate, AppendLink, RecordClean, Conflict,
     LinkerPublishes, LinkerRestarts
<1>3. CASE CollectorStep
  BY <1>3 DEF CollectorStep, CollectorPolls, CollectorFails, CollectorFinishes, CollectorRestarts
<1>4. CASE WatchdogStep
  BY <1>4 DEF WatchdogStep, WatchdogStarts, WatchdogReads, Judge, WatchdogPublishes, WatchdogRestarts
<1>5. CASE \E p \in Processes : CoordinatorStep(p) \/ Crash(p)
  BY <1>5 DEF CoordinatorStep, Reconsider, Crash
<1>6. CASE Audit \/ Tick \/ UNCHANGED vars
  BY <1>6 DEF Audit, Tick, vars
<1> QED
  BY <1>1, <1>2, <1>3, <1>4, <1>5, <1>6 DEF Next

\* Once a fatal row exists no case changes any more, and after a certified audit no event is
\* written at all (_validate_append, terminal_audit).
THEOREM VerdictsTheorem == Spec => VerdictsAreFinal
<1>1. [Next]_vars => (Latched => cases' = cases)
  <2> SUFFICES ASSUME [Next]_vars, Latched PROVE cases' = cases
    OBVIOUS
  <2>1. CASE \E p \in Processes : AppendEvent(p)
    BY <2>1 DEF AppendEvent, Admissible, Apply, events
  <2>2. CASE \A p \in Processes : ~AppendEvent(p)
    BY <2>2, OnlyAppends DEF events
  <2> QED
    BY <2>1, <2>2
<1>2. LongRunInv /\ [Next]_vars => (report = "certified" => events' = events)
  <2> SUFFICES ASSUME LongRunInv, [Next]_vars, report = "certified" PROVE events' = events
    OBVIOUS
  <2>1. \A p \in Processes : ~AppendEvent(p)
    BY DEF LongRunInv, StatusesFit, AppendEvent
  <2> QED
    BY <2>1, OnlyAppends
<1>3. [Next]_vars => [Latched => cases' = cases]_vars
  BY <1>1
<1>4. LongRunInv /\ [Next]_vars => [report = "certified" => events' = events]_vars
  BY <1>2
<1> QED
  BY <1>3, <1>4, InvHolds, PTL DEF Spec, VerdictsAreFinal, FatalIsFinal, CertifiedStands
=============================================================================
