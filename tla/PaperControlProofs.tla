------------------------- MODULE PaperControlProofs -------------------------
(***************************************************************************)
(* HaltStopsTrading and SwitchMatchesLedger for every set of commands, any *)
(* number of orders per cycle, incidents, account states and crashes.      *)
(*                                                                         *)
(* Three arguments, each an inductive invariant over the one before:       *)
(* - what a thread has still to run (Threaded): a ledger write is followed *)
(*   at once by the attribute it announces, and only some threads have     *)
(*   such operations;                                                      *)
(* - the switch (SwitchInv): between its row and its attribute the thread  *)
(*   holds what the ledger already says;                                   *)
(* - the cycle (HaltInv): where the loop is, which row is the newest and   *)
(*   who is inside trip decide whether a cycle under a halt may trade.     *)
(***************************************************************************)
EXTENDS PaperControl, SharedLemmas, SequenceTheorems

Args == Keys \cup {"operator", "paper_reconciliation_mismatch", "paper_venue_reconciliation_error", ""}
Rows == [type : Security \cup Accepted \cup {"rejected"}, arg : Args]
Ops == [op : {"trip", "set", "reset", "unset", "stop", "clear", "sync", "record"},
        arg : Args, status : {"", "accepted", "rejected"}]
LoopStates == {"down", "init", "head", "cycle", "trading", "checked", "out"}
Histories == [afterTrip : Nat, underHalt : BOOLEAN, clean : BOOLEAN, mismatch : BOOLEAN]

---------------------------------------------------------------------------
(* The newest row of a kind *)

\* The latest row of a type, when there is one, is a row of that type.
LEMMA LatestIsRow ==
    ASSUME NEW log \in Seq(Rows), NEW types
    PROVE  /\ Latest(log, types) \in 0..Len(log)
           /\ Latest(log, types) > 0 => Latest(log, types) \in DOMAIN log /\ log[Latest(log, types)].type \in types
<1> DEFINE S == {0} \cup {i \in DOMAIN log : log[i].type \in types}
<1>1. Len(log) \in Nat /\ DOMAIN log = 1..Len(log)
  OBVIOUS
<1>2. S \in SUBSET Nat /\ S # {} /\ \A x \in S : x <= Len(log)
  BY <1>1
<1>3. Max(S) \in S
  BY <1>1, <1>2, MaxOfNats
<1>4. Latest(log, types) = Max(S)
  BY DEF Latest
<1>5. Max(S) = 0 \/ (Max(S) \in DOMAIN log /\ log[Max(S)].type \in types)
  BY <1>3
<1> QED
  BY <1>1, <1>4, <1>5

\* A row appended is the latest of its type and changes the latest of no other.
LEMMA LatestAppend ==
    ASSUME NEW log \in Seq(Rows), NEW row \in Rows, NEW types
    PROVE  Latest(Append(log, row), types) = IF row.type \in types THEN Len(log) + 1 ELSE Latest(log, types)
<1> DEFINE new == Append(log, row)
           n == Len(log)
           S == {0} \cup {i \in DOMAIN log : log[i].type \in types}
           T == {0} \cup {i \in DOMAIN new : new[i].type \in types}
<1>1. /\ n \in Nat /\ DOMAIN log = 1..n /\ DOMAIN new = 1..n \cup {n + 1} /\ n + 1 \notin 1..n
      /\ new[n + 1] = row /\ \A i \in 1..n : new[i] = log[i]
  BY AppendedLog
<1>2. Latest(log, types) = Max(S) /\ Latest(new, types) = Max(T)
  BY DEF Latest
<1> HIDE DEF new, n
<1>3. CASE row.type \in types
  <2>1. T \in SUBSET Nat /\ n + 1 \in T /\ \A x \in T : x <= n + 1
    BY <1>1, <1>3
  <2>2. Max(T) = n + 1
    BY <2>1, MaxIs
  <2> QED
    BY <1>2, <1>3, <2>2 DEF new, n
<1>4. CASE row.type \notin types
  <2>1. T = S
    BY <1>1, <1>4
  <2> QED
    BY <1>2, <1>4, <2>1 DEF new
<1> QED
  BY <1>3, <1>4

\* A security event decides what a restart finds; a command changes nothing.
LEMMA HydrateAppend ==
    ASSUME NEW log \in Seq(Rows), NEW row \in Rows
    PROVE  /\ row.type = "kill_switch_tripped" => Hydrate(Append(log, row)) = On(row.arg)
           /\ row.type = "kill_switch_reset" => Hydrate(Append(log, row)) = Off
           /\ row.type \notin Security => Hydrate(Append(log, row)) = Hydrate(log)
<1> DEFINE new == Append(log, row)
           n == Len(log)
<1>1. /\ n \in Nat /\ DOMAIN log = 1..n /\ DOMAIN new = 1..n \cup {n + 1}
      /\ new[n + 1] = row /\ \A i \in 1..n : new[i] = log[i]
  BY AppendedLog
<1>2. /\ Latest(new, Security) = IF row.type \in Security THEN n + 1 ELSE Latest(log, Security)
      /\ Latest(log, Security) \in 0..n
  BY LatestAppend, LatestIsRow
<1> HIDE DEF new, n
<1>3. CASE row.type \in Security
  <2>1. Hydrate(new) = IF row.type = "kill_switch_tripped" THEN On(row.arg) ELSE Off
    BY <1>1, <1>2, <1>3 DEF Hydrate
  <2> QED
    BY <1>3, <2>1 DEF new, Security
<1>4. CASE row.type \notin Security
  <2>1. Latest(log, Security) > 0 => new[Latest(log, Security)] = log[Latest(log, Security)]
    BY <1>1, <1>2
  <2>2. Hydrate(new) = Hydrate(log)
    BY <1>2, <1>4, <2>1 DEF Hydrate
  <2> QED
    BY <1>4, <2>2 DEF new, Security
<1> QED
  BY <1>3, <1>4

\* An accepted command stands, a security event ends what stood, a refused
\* command changes nothing.
LEMMA StandingAppend ==
    ASSUME NEW log \in Seq(Rows), NEW row \in Rows
    PROVE  /\ row.type \in Accepted => StandingCommand(Append(log, row)) = row.type
           /\ row.type \in Security => ~ Standing(Append(log, row)) /\ StandingCommand(Append(log, row)) = "none"
           /\ row.type = "rejected" => /\ StandingCommand(Append(log, row)) = StandingCommand(log)
                                       /\ Standing(Append(log, row)) <=> Standing(log)
<1> DEFINE new == Append(log, row)
           n == Len(log)
<1>1. /\ n \in Nat /\ DOMAIN log = 1..n /\ DOMAIN new = 1..n \cup {n + 1}
      /\ new[n + 1] = row /\ \A i \in 1..n : new[i] = log[i]
  BY AppendedLog
<1>2. /\ Latest(new, Security) = IF row.type \in Security THEN n + 1 ELSE Latest(log, Security)
      /\ Latest(log, Security) \in 0..n
  BY LatestAppend, LatestIsRow
<1>3. /\ Latest(new, Accepted) = IF row.type \in Accepted THEN n + 1 ELSE Latest(log, Accepted)
      /\ Latest(log, Accepted) \in 0..n
  BY LatestAppend, LatestIsRow
<1> HIDE DEF new, n
<1>4. CASE row.type \in Accepted
  <2>1. row.type \notin Security /\ row.type # "rejected"
    BY <1>4 DEF Accepted, Security
  <2>2. Standing(new) /\ StandingCommand(new) = row.type
    BY <1>1, <1>2, <1>3, <1>4, <2>1 DEF Standing, StandingCommand
  <2> QED
    BY <2>1, <2>2 DEF new
<1>5. CASE row.type \in Security
  <2>1. row.type \notin Accepted /\ row.type # "rejected"
    BY <1>5 DEF Accepted, Security
  <2>2. ~ Standing(new) /\ StandingCommand(new) = "none"
    BY <1>1, <1>2, <1>3, <1>5, <2>1 DEF Standing, StandingCommand
  <2> QED
    BY <2>1, <2>2 DEF new
<1>6. CASE row.type = "rejected"
  <2>1. row.type \notin Accepted /\ row.type \notin Security
    BY <1>6 DEF Accepted, Security
  <2>2. Standing(new) <=> Standing(log)
    BY <1>2, <1>3, <2>1 DEF Standing
  <2>3. Standing(log) => Latest(log, Accepted) \in 1..n
    BY <1>1, <1>2, <1>3 DEF Standing
  <2>4. StandingCommand(new) = StandingCommand(log)
    BY <1>1, <1>3, <2>1, <2>2, <2>3 DEF StandingCommand
  <2> QED
    BY <2>1, <2>2, <2>4 DEF new
<1> QED
  BY <1>4, <1>5, <1>6 DEF Rows

---------------------------------------------------------------------------
(* What a thread has still to run *)

\* An operation that thread t may have at position i of n.
MayRun(t, o, i, n) ==
    /\ i > 1 => o.op \in {"stop", "clear", "record"}
    /\ o.op = "record" => t = "api" /\ o.arg \in Keys /\ o.status \in {"accepted", "rejected"}
    /\ o.op = "sync" => t = "loop" /\ n = 1
    /\ t = "api" => (i = n <=> o.op = "record") /\ (~ Bound => o.op = "record")
    /\ t = "owner" => OwnerThread # "loop"

Program(t, ops) == ops \in Seq(Ops) /\ \A i \in DOMAIN ops : MayRun(t, ops[i], i, Len(ops))

Types ==
    /\ incidents \in Seq(Rows)
    /\ ks \in [tripped : BOOLEAN, reason : Args \cup {"none"}]
    /\ stop \in BOOLEAN
    /\ loop \in LoopStates
    /\ pending \in [Threads -> Seq(Ops)]
    /\ history \in Histories
    /\ deployment \in [bound : BOOLEAN, owner : {"loop", "owner"}]

\* The loop's thread is idle while orders are checked and routed.
Threaded ==
    /\ Types
    /\ \A t \in Threads : Program(t, pending[t])
    /\ loop \in {"trading", "checked"} => pending["loop"] = <<>>

\* An operation carries what it was made of.
LEMMA OpFields ==
    ASSUME NEW op \in {"trip", "set", "reset", "unset", "stop", "clear", "sync", "record"},
           NEW arg \in Args, NEW status \in {"", "accepted", "rejected"}
    PROVE  /\ Op(op, arg, status) \in Ops /\ Op(op, arg, status).op = op
           /\ Op(op, arg, status).arg = arg /\ Op(op, arg, status).status = status
BY DEF Op, Ops

\* Taking the first operation leaves a program, whose next operation is not
\* the attribute of another write.
LEMMA TailRuns ==
    ASSUME NEW t \in Threads, NEW s, Program(t, s), s # <<>>
    PROVE  /\ Program(t, Tail(s)) /\ Head(s) \in Ops /\ MayRun(t, Head(s), 1, Len(s))
           /\ Tail(s) # <<>> => Head(Tail(s)).op \in {"stop", "clear", "record"}
<1>1. /\ s \in Seq(Ops) /\ Len(s) \in Nat /\ Len(s) > 0 /\ Head(s) = s[1] /\ 1 \in DOMAIN s
      /\ Tail(s) \in Seq(Ops) /\ Len(Tail(s)) = Len(s) - 1 /\ DOMAIN Tail(s) = 1..(Len(s) - 1)
      /\ \A i \in 1..(Len(s) - 1) : Tail(s)[i] = s[i + 1] /\ i + 1 \in DOMAIN s
  BY DEF Program
<1>2. \A i \in DOMAIN s : MayRun(t, s[i], i, Len(s))
  BY DEF Program
<1>3. ASSUME NEW i \in DOMAIN Tail(s)
      PROVE  MayRun(t, Tail(s)[i], i, Len(Tail(s))) /\ Tail(s)[i].op \in {"stop", "clear", "record"}
  <2>1. MayRun(t, s[i + 1], i + 1, Len(s)) /\ Tail(s)[i] = s[i + 1] /\ i \in Nat /\ i + 1 > 1
    BY <1>1, <1>2
  <2>2. i + 1 = Len(s) <=> i = Len(Tail(s))
    BY <1>1, <2>1
  <2> QED
    BY <2>1, <2>2 DEF MayRun
<1>4. Tail(s) # <<>> => Head(Tail(s)) = Tail(s)[1] /\ 1 \in DOMAIN Tail(s)
  BY <1>1
<1> QED
  BY <1>1, <1>2, <1>3, <1>4 DEF Program

\* A ledger write is replaced by its attribute, in the same place.
LEMMA AttributeRuns ==
    ASSUME NEW t \in Threads, NEW s, Program(t, s), s # <<>>, Head(s).op \in {"trip", "reset"},
           NEW o \in Ops, o.op \in {"set", "unset"}
    PROVE  Program(t, <<o>> \o Tail(s)) /\ <<o>> \o Tail(s) # <<>> /\ Head(<<o>> \o Tail(s)) = o
<1> DEFINE r == <<o>> \o Tail(s)
<1>1. /\ s \in Seq(Ops) /\ Len(s) \in Nat /\ Len(s) > 0 /\ Head(s) = s[1] /\ DOMAIN s = 1..Len(s)
      /\ Tail(s) \in Seq(Ops) /\ Len(Tail(s)) = Len(s) - 1
      /\ \A i \in 1..(Len(s) - 1) : Tail(s)[i] = s[i + 1]
  BY DEF Program
<1>2. /\ r \in Seq(Ops) /\ Len(r) = Len(s) /\ DOMAIN r = 1..Len(s) /\ r[1] = o
      /\ \A i \in 2..Len(s) : r[i] = Tail(s)[i - 1]
  BY <1>1
<1>3. \A i \in 2..Len(s) : r[i] = s[i]
  BY <1>1, <1>2
<1>4. ASSUME NEW i \in DOMAIN s PROVE MayRun(t, s[i], i, Len(s))
  BY DEF Program
<1> HIDE DEF r
<1>5. ASSUME NEW i \in DOMAIN r
      PROVE  MayRun(t, r[i], i, Len(r))
  <2>1. CASE i = 1
    <3>1. MayRun(t, s[1], 1, Len(s)) /\ s[1].op \in {"trip", "reset"}
      BY <1>1, <1>4
    <3> QED
      BY <1>2, <2>1, <3>1 DEF MayRun
  <2>2. CASE i # 1
    BY <1>1, <1>2, <1>3, <1>4, <2>2
  <2> QED
    BY <2>1, <2>2
<1>6. r # <<>> /\ Head(r) = o
  BY <1>1, <1>2
<1> QED
  BY <1>2, <1>5, <1>6 DEF Program, r

\* A thread goes on with the operations put before the rest of its own; the others wait.
LEMMA Continued ==
    ASSUME Types, NEW t \in Threads, NEW ops, Continue(t, ops), ops \o Tail(pending[t]) \in Seq(Ops)
    PROVE  /\ pending' \in [Threads -> Seq(Ops)]
           /\ pending'[t] = ops \o Tail(pending[t])
           /\ \A u \in Threads \ {t} : pending'[u] = pending[u]
BY DEF Types, Continue

\* What has to be shown of a step.
LEMMA ThreadedNext ==
    ASSUME Threaded, UNCHANGED deployment,
           incidents' \in Seq(Rows), ks' \in [tripped : BOOLEAN, reason : Args \cup {"none"}],
           stop' \in BOOLEAN, loop' \in LoopStates, history' \in Histories,
           pending' \in [Threads -> Seq(Ops)], \A t \in Threads : Program(t, pending'[t]),
           loop' \in {"trading", "checked"} => pending'["loop"] = <<>>
    PROVE  Threaded'
BY DEF Threaded, Types, Program, MayRun, Bound, OwnerThread

\* Most steps change the pending operations of no thread.
LEMMA ThreadedIdle ==
    ASSUME Threaded, UNCHANGED <<deployment, pending>>,
           incidents' \in Seq(Rows), ks' \in [tripped : BOOLEAN, reason : Args \cup {"none"}],
           stop' \in BOOLEAN, loop' \in LoopStates, history' \in Histories,
           loop' \in {"trading", "checked"} => pending["loop"] = <<>>
    PROVE  Threaded'
<1>1. pending' \in [Threads -> Seq(Ops)] /\ \A t \in Threads : Program(t, pending'[t])
  BY DEF Threaded, Types
<1> QED
  BY <1>1, ThreadedNext

\* A thread takes its first operation, and may put another in its place.
LEMMA ThreadTakes ==
    ASSUME Threaded, UNCHANGED <<deployment, loop>>, NEW t \in Threads, NEW ops, Continue(t, ops),
           pending[t] # <<>>, Program(t, ops \o Tail(pending[t])),
           incidents' \in Seq(Rows), ks' \in [tripped : BOOLEAN, reason : Args \cup {"none"}],
           stop' \in BOOLEAN, history' \in Histories
    PROVE  Threaded'
<1>1. /\ pending' \in [Threads -> Seq(Ops)] /\ pending'[t] = ops \o Tail(pending[t])
      /\ \A u \in Threads \ {t} : pending'[u] = pending[u]
  BY Continued DEF Program, Threaded
<1>2. \A u \in Threads : Program(u, pending'[u])
  BY <1>1 DEF Threaded
<1>3. loop' \in {"trading", "checked"} => pending'["loop"] = <<>>
  BY <1>1 DEF Threaded, Threads
<1>4. loop' \in LoopStates
  BY DEF Threaded, Types
<1> QED
  BY <1>1, <1>2, <1>3, <1>4, ThreadedNext

\* A thread that finishes an operation without starting another keeps every thread's program.
LEMMA ThreadPops ==
    ASSUME Threaded, UNCHANGED <<deployment, loop>>, NEW t \in Threads, Continue(t, <<>>),
           pending[t] # <<>>,
           incidents' \in Seq(Rows), ks' \in [tripped : BOOLEAN, reason : Args \cup {"none"}],
           stop' \in BOOLEAN, history' \in Histories
    PROVE  Threaded'
<1>1. Program(t, Tail(pending[t])) /\ Tail(pending[t]) \in Seq(Ops)
  BY TailRuns DEF Program, Threaded
<1>2. <<>> \o Tail(pending[t]) = Tail(pending[t])
  BY <1>1
<1> QED
  BY <1>1, <1>2, ThreadTakes

\* The operation a thread is at is one its program may run there.
LEMMA HeadFields ==
    ASSUME Threaded, NEW t \in Threads, pending[t] # <<>>
    PROVE  /\ Head(pending[t]) \in Ops /\ Head(pending[t]).arg \in Args
           /\ MayRun(t, Head(pending[t]), 1, Len(pending[t]))
<1>1. Head(pending[t]) \in Ops /\ MayRun(t, Head(pending[t]), 1, Len(pending[t]))
  BY TailRuns DEF Threaded
<1> QED
  BY <1>1 DEF Ops

\* A row of the incident ledger, appended, leaves a ledger.
LEMMA RowType ==
    ASSUME Types, NEW type \in Security \cup Accepted \cup {"rejected"}, NEW arg \in Args
    PROVE  /\ Row(type, arg) \in Rows /\ Row(type, arg).type = type /\ Row(type, arg).arg = arg
           /\ Append(incidents, Row(type, arg)) \in Seq(Rows)
<1>1. Row(type, arg) \in Rows /\ Row(type, arg).type = type /\ Row(type, arg).arg = arg
  BY DEF Row, Rows
<1>2. incidents \in Seq(Rows)
  BY DEF Types
<1> QED
  BY <1>1, <1>2, AppendedLog, Zenon

\* Every operation of a thread keeps every thread's program.
LEMMA ThreadStepThreaded ==
    ASSUME Threaded, NEW t \in Threads, ThreadStep(t), UNCHANGED deployment
    PROVE  Threaded'
<1>1. /\ incidents \in Seq(Rows) /\ ks \in [tripped : BOOLEAN, reason : Args \cup {"none"}]
      /\ stop \in BOOLEAN /\ loop \in LoopStates /\ history \in Histories /\ Types
  BY DEF Threaded, Types
<1>2. CASE Trip(t)
  <2> DEFINE reason == Head(pending[t]).arg
  <2>1. pending[t] # <<>> /\ Head(pending[t]).op = "trip" /\ UNCHANGED <<ks, stop, loop, history>>
    BY <1>2 DEF Trip, Doing, cycle
  <2>2. reason \in Args
    BY <2>1, HeadFields
  <2>3. CASE ks = On(reason)
    <3>1. Continue(t, <<>>) /\ UNCHANGED incidents
      BY <1>2, <2>3 DEF Trip
    <3> QED
      BY <1>1, <2>1, <3>1, ThreadPops
  <2>4. CASE ks # On(reason)
    <3>1. incidents' = Append(incidents, Row("kill_switch_tripped", reason)) /\ Continue(t, <<Op("set", reason, "")>>)
      BY <1>2, <2>4 DEF Trip, Append_
    <3>2. incidents' \in Seq(Rows)
      BY <1>1, <2>2, <3>1, RowType DEF Security
    <3>3. Op("set", reason, "") \in Ops /\ Op("set", reason, "").op = "set"
      BY <2>2 DEF Op, Ops
    <3>4. Program(t, <<Op("set", reason, "")>> \o Tail(pending[t]))
      BY <2>1, <3>3, AttributeRuns DEF Threaded
    <3> QED
      BY <1>1, <2>1, <3>1, <3>2, <3>4, ThreadTakes
  <2> QED
    BY <2>3, <2>4
<1>3. CASE SetTripped(t)
  <2>1. /\ pending[t] # <<>> /\ ks' = On(Head(pending[t]).arg) /\ Continue(t, <<>>)
        /\ UNCHANGED <<incidents, stop, loop>>
        /\ history' = history \/ history' = [history EXCEPT !.afterTrip = 0]
    BY <1>3 DEF SetTripped, Doing, cycle
  <2>2. ks' \in [tripped : BOOLEAN, reason : Args \cup {"none"}]
    BY <2>1, HeadFields DEF On
  <2>3. history' \in Histories
    BY <1>1, <2>1 DEF Histories
  <2> QED
    BY <1>1, <2>1, <2>2, <2>3, ThreadPops
<1>4. CASE Reset(t)
  <2>1. pending[t] # <<>> /\ Head(pending[t]).op = "reset" /\ UNCHANGED <<ks, stop, loop>>
    BY <1>4 DEF Reset, Doing, cycle
  <2>2. CASE ~ ks.tripped
    <3>1. Continue(t, <<>>) /\ UNCHANGED <<incidents, history>>
      BY <1>4, <2>2 DEF Reset
    <3> QED
      BY <1>1, <2>1, <3>1, ThreadPops
  <2>3. CASE ks.tripped
    <3>1. /\ incidents' = Append(incidents, Row("kill_switch_reset", "")) /\ Continue(t, <<Op("unset", "", "")>>)
          /\ history' = [history EXCEPT !.underHalt = FALSE]
      BY <1>4, <2>3 DEF Reset, Append_
    <3>2. incidents' \in Seq(Rows) /\ history' \in Histories
      BY <1>1, <3>1, RowType DEF Security, Args, Histories
    <3>3. Op("unset", "", "") \in Ops /\ Op("unset", "", "").op = "unset"
      BY DEF Op, Ops, Args
    <3>4. Program(t, <<Op("unset", "", "")>> \o Tail(pending[t]))
      BY <2>1, <3>3, AttributeRuns DEF Threaded
    <3> QED
      BY <1>1, <2>1, <3>1, <3>2, <3>4, ThreadTakes
  <2> QED
    BY <2>2, <2>3
<1>5. CASE ClearTripped(t)
  <2>1. /\ pending[t] # <<>> /\ ks' = Off /\ Continue(t, <<>>) /\ UNCHANGED <<incidents, stop, loop, history>>
    BY <1>5 DEF ClearTripped, Doing, cycle
  <2>2. ks' \in [tripped : BOOLEAN, reason : Args \cup {"none"}]
    BY <2>1 DEF Off
  <2> QED
    BY <1>1, <2>1, <2>2, ThreadPops
<1>6. CASE SetStop(t)
  <2>1. /\ pending[t] # <<>> /\ stop' = Doing(t, "stop") /\ Continue(t, <<>>)
        /\ UNCHANGED <<incidents, ks, loop, history>>
    BY <1>6 DEF SetStop, Doing, cycle
  <2>2. stop' \in BOOLEAN
    BY <2>1 DEF Doing
  <2> QED
    BY <1>1, <2>1, <2>2, ThreadPops
<1> QED
  BY <1>2, <1>3, <1>4, <1>5, <1>6 DEF ThreadStep

---------------------------------------------------------------------------
(* The other steps keep what the threads have to run *)

\* One operation that may run alone is a program.
LEMMA OneProgram ==
    ASSUME NEW t \in Threads, NEW o \in Ops, MayRun(t, o, 1, 1)
    PROVE  Program(t, <<o>>) /\ <<o>> \in Seq(Ops)
<1>1. <<o>> \in Seq(Ops) /\ Len(<<o>>) = 1 /\ DOMAIN <<o>> = {1} /\ <<o>>[1] = o
  OBVIOUS
<1> QED
  BY <1>1 DEF Program

\* Two operations that may follow each other are a program.
LEMMA TwoProgram ==
    ASSUME NEW t \in Threads, NEW o \in Ops, NEW p \in Ops, MayRun(t, o, 1, 2), MayRun(t, p, 2, 2)
    PROVE  Program(t, <<o, p>>) /\ <<o, p>> \in Seq(Ops)
<1>1. /\ <<o, p>> \in Seq(Ops) /\ Len(<<o, p>>) = 2 /\ DOMAIN <<o, p>> = {1, 2}
      /\ <<o, p>>[1] = o /\ <<o, p>>[2] = p
  OBVIOUS
<1> QED
  BY <1>1 DEF Program

\* A thread with nothing to do runs a program.
LEMMA NoProgram == ASSUME NEW t PROVE Program(t, <<>>) /\ <<>> \in Seq(Ops)
BY DEF Program

\* When a halt or a resume may stand at a position.
LEMMA CallRuns ==
    ASSUME NEW t, NEW o, NEW i \in Nat, NEW n \in Nat, o.op \in {"trip", "reset", "stop", "clear"},
           i > 1 => o.op \in {"stop", "clear"}, t = "api" => i # n /\ Bound,
           t = "owner" => OwnerThread # "loop"
    PROVE  MayRun(t, o, i, n)
<1>1. o.op # "record" /\ o.op # "sync"
  OBVIOUS
<1>2. t = "api" => (i = n <=> o.op = "record") /\ (~ Bound => o.op = "record")
  BY <1>1
<1> QED
  BY <1>1, <1>2 DEF MayRun

\* halt and resume, called by a thread other than the API's.
LEMMA CallsRun ==
    ASSUME NEW t \in {"loop", "owner"}, t = "owner" => OwnerThread # "loop", NEW arg \in Args
    PROVE  Program(t, HaltOps(arg)) /\ Program(t, ResumeOps) /\ Program(t, <<Op("stop", "", "")>>)
           /\ Program(t, <<Op("trip", arg, "")>>)
<1>1. "" \in Args
  BY DEF Args
<1>2. /\ Op("trip", arg, "") \in Ops /\ Op("stop", "", "") \in Ops
      /\ Op("reset", "", "") \in Ops /\ Op("clear", "", "") \in Ops
  BY <1>1 DEF Op, Ops
<1>3. /\ Op("trip", arg, "").op = "trip" /\ Op("stop", "", "").op = "stop"
      /\ Op("reset", "", "").op = "reset" /\ Op("clear", "", "").op = "clear"
  BY DEF Op
<1>4. t \in Threads
  BY DEF Threads
<1>5. t # "api" /\ t \in {"loop", "owner"}
  OBVIOUS
<1>6. /\ MayRun(t, Op("trip", arg, ""), 1, 2) /\ MayRun(t, Op("stop", "", ""), 2, 2)
      /\ MayRun(t, Op("reset", "", ""), 1, 2) /\ MayRun(t, Op("clear", "", ""), 2, 2)
      /\ MayRun(t, Op("stop", "", ""), 1, 1) /\ MayRun(t, Op("trip", arg, ""), 1, 1)
  BY <1>5 DEF MayRun, Op
<1>7. Program(t, <<Op("trip", arg, ""), Op("stop", "", "")>>)
  BY <1>2, <1>4, <1>6, TwoProgram, Zenon
<1>8. Program(t, <<Op("reset", "", ""), Op("clear", "", "")>>)
  BY <1>2, <1>4, <1>6, TwoProgram, Zenon
<1>9. Program(t, <<Op("stop", "", "")>>) /\ Program(t, <<Op("trip", arg, "")>>)
  BY <1>2, <1>4, <1>6, OneProgram, Zenon
<1> QED
  BY <1>7, <1>8, <1>9 DEF HaltOps, ResumeOps

\* What the dashboard has execute run.
LEMMA DashboardRuns ==
    ASSUME NEW k \in Keys, NEW status \in {"accepted", "rejected"}
    PROVE  /\ Program("api", <<Record(k, status)>>)
           /\ Bound => Program("api", HaltOps(k) \o <<Record(k, status)>>)
           /\ Bound => Program("api", ResumeOps \o <<Record(k, status)>>)
<1>1. "" \in Args /\ k \in Args
  BY DEF Args
<1>2. /\ Op("trip", k, "") \in Ops /\ Op("stop", "", "") \in Ops /\ Record(k, status) \in Ops
      /\ Op("reset", "", "") \in Ops /\ Op("clear", "", "") \in Ops
  BY <1>1 DEF Op, Ops, Record
<1>3. /\ Op("trip", k, "").op = "trip" /\ Op("stop", "", "").op = "stop"
      /\ Op("reset", "", "").op = "reset" /\ Op("clear", "", "").op = "clear"
      /\ Record(k, status).op = "record" /\ Record(k, status).arg = k /\ Record(k, status).status = status
  BY DEF Op, Record
<1>4. "api" \in Threads
  BY DEF Threads
<1>5. Program("api", <<Record(k, status)>>)
  <2>1. MayRun("api", Record(k, status), 1, 1)
    BY <1>3 DEF MayRun
  <2> QED
    BY <1>2, <1>4, <2>1, OneProgram
<1>6. ASSUME NEW o \in Ops, NEW p \in Ops, NEW q \in Ops, Bound, o.op \in {"trip", "reset"},
             p.op \in {"stop", "clear"}, q = Record(k, status)
      PROVE  Program("api", <<o, p>> \o <<q>>)
  <2> DEFINE r == <<o, p>> \o <<q>>
  <2>1. /\ r \in Seq(Ops) /\ Len(r) = 3 /\ DOMAIN r = {1, 2, 3} /\ r[1] = o /\ r[2] = p /\ r[3] = q
    OBVIOUS
  <2>2. MayRun("api", o, 1, 3) /\ MayRun("api", p, 2, 3)
    BY <1>6, CallRuns
  <2>3. q.op = "record" /\ q.arg \in Keys /\ q.status \in {"accepted", "rejected"}
    BY <1>3, <1>6
  <2>4. MayRun("api", q, 3, 3)
    BY <2>3 DEF MayRun
  <2> HIDE DEF r
  <2>5. Program("api", r)
    BY <2>1, <2>2, <2>4 DEF Program
  <2> QED
    BY <2>5 DEF r
<1> QED
  BY <1>2, <1>3, <1>5, <1>6 DEF HaltOps, ResumeOps

\* A thread is given something to run.
LEMMA ThreadCalls ==
    ASSUME Threaded, UNCHANGED deployment, NEW t \in Threads, NEW ops, Program(t, ops),
           pending' = [pending EXCEPT ![t] = ops],
           incidents' \in Seq(Rows), ks' \in [tripped : BOOLEAN, reason : Args \cup {"none"}],
           stop' \in BOOLEAN, loop' \in LoopStates, history' \in Histories,
           loop' \in {"trading", "checked"} => pending'["loop"] = <<>>
    PROVE  Threaded'
<1>1. pending \in [Threads -> Seq(Ops)] /\ ops \in Seq(Ops)
  BY DEF Threaded, Types, Program
<1>2. /\ pending' \in [Threads -> Seq(Ops)] /\ pending'[t] = ops
      /\ \A u \in Threads \ {t} : pending'[u] = pending[u]
  BY <1>1
<1>3. \A u \in Threads : Program(u, pending'[u])
  BY <1>2 DEF Threaded
<1> QED
  BY <1>2, <1>3, ThreadedNext

\* Every ledger hydrates to a state of the kill switch.
LEMMA HydrateType ==
    ASSUME NEW log \in Seq(Rows)
    PROVE  Hydrate(log) \in [tripped : BOOLEAN, reason : Args \cup {"none"}]
<1>1. Latest(log, Security) > 0 => log[Latest(log, Security)] \in Rows
  BY LatestIsRow
<1> QED
  BY <1>1 DEF Hydrate, On, Off, Rows

\* What is put before the rest of a thread's last operation is all the thread has to do.
LEMMA OnlyOne ==
    ASSUME NEW s \in Seq(Ops), Len(s) = 1, NEW r \in Seq(Ops)
    PROVE  r \o Tail(s) = r
<1> DEFINE q == r \o Tail(s)
           t == Tail(s)
<1>1. t \in Seq(Ops) /\ Len(t) = 0 /\ Len(r) \in Nat
  BY SMTT(30)
<1>2. /\ q \in Seq(Ops) /\ Len(q) = Len(r) + Len(t)
      /\ \A i \in 1..(Len(r) + Len(t)) : q[i] = IF i <= Len(r) THEN r[i] ELSE t[i - Len(r)]
  BY <1>1, ConcatProperties, Zenon
<1> HIDE DEF q, t
<1>3. Len(q) = Len(r) /\ \A i \in 1..Len(r) : q[i] = r[i]
  BY <1>1, <1>2
<1>4. q = r
  BY <1>2, <1>3, SeqEqual, Zenon
<1> QED
  BY <1>4 DEF q, t

\* What _sync_dashboard_control has the loop's thread run.
SyncOps ==
    IF StandingCommand(incidents) = "halt_paper"
    THEN HaltOps(incidents[Latest(incidents, Accepted)].arg)
    ELSE IF StandingCommand(incidents) = "resume_paper" /\ ks.tripped THEN ResumeOps ELSE <<>>

\* A synchronisation replaces itself by what the standing command asks for, and changes nothing else.
LEMMA SyncRuns ==
    ASSUME Threaded, SyncDashboardControl
    PROVE  /\ Program("loop", SyncOps) /\ SyncOps \o Tail(pending["loop"]) = SyncOps
           /\ pending["loop"] # <<>> /\ Continue("loop", SyncOps) /\ pending'["loop"] = SyncOps
           /\ \A t \in Threads \ {"loop"} : pending'[t] = pending[t]
           /\ UNCHANGED <<incidents, ks, stop, loop, history>>
<1> DEFINE newest == incidents[Latest(incidents, Accepted)]
<1>1. /\ pending["loop"] # <<>> /\ Head(pending["loop"]).op = "sync" /\ Continue("loop", SyncOps)
      /\ UNCHANGED <<incidents, ks, stop, loop, history>>
  BY DEF SyncDashboardControl, Doing, control, cycle, SyncOps
<1>2. "loop" \in Threads /\ pending["loop"] \in Seq(Ops)
  BY DEF Threads, Threaded, Types
<1>3. MayRun("loop", Head(pending["loop"]), 1, Len(pending["loop"]))
  BY <1>1, <1>2, HeadFields
<1>4. Len(pending["loop"]) = 1
  BY <1>1, <1>3 DEF MayRun
<1>5. StandingCommand(incidents) = "halt_paper" => newest.arg \in Args
  <2>1. incidents \in Seq(Rows)
    BY DEF Threaded, Types
  <2>2. Latest(incidents, Security) \in Nat /\ Latest(incidents, Accepted) \in 0..Len(incidents)
    BY <2>1, LatestIsRow
  <2>3. Standing(incidents) => newest \in Rows
    BY <2>1, <2>2 DEF Standing
  <2> QED
    BY <2>3 DEF StandingCommand, Rows
<1>6. Program("loop", SyncOps)
  <2>1. Program("loop", <<>>)
    BY NoProgram
  <2>2. StandingCommand(incidents) = "halt_paper" => Program("loop", HaltOps(newest.arg))
    BY <1>5, CallsRun
  <2>3. "" \in Args
    BY DEF Args
  <2>4. Program("loop", ResumeOps)
    BY <2>3, CallsRun
  <2> QED
    BY <2>1, <2>2, <2>4 DEF SyncOps
<1>7. SyncOps \o Tail(pending["loop"]) = SyncOps
  <2>1. SyncOps \in Seq(Ops)
    BY <1>6 DEF Program
  <2> QED
    BY <1>2, <1>4, <2>1, OnlyOne, Zenon
<1>8. SyncOps \o Tail(pending["loop"]) \in Seq(Ops)
  BY <1>6, <1>7 DEF Program
<1>9. pending'["loop"] = SyncOps /\ \A t \in Threads \ {"loop"} : pending'[t] = pending[t]
  BY <1>1, <1>2, <1>7, <1>8, Continued DEF Threaded
<1> QED
  BY <1>1, <1>6, <1>7, <1>9

\* A synchronisation keeps every thread's program.
LEMMA SyncThreaded ==
    ASSUME Threaded, SyncDashboardControl, UNCHANGED deployment
    PROVE  Threaded'
<1>1. "loop" \in Threads
  BY DEF Threads
<1>2. Program("loop", SyncOps \o Tail(pending["loop"]))
  BY SyncRuns, Zenon
<1>3. /\ incidents' \in Seq(Rows) /\ ks' \in [tripped : BOOLEAN, reason : Args \cup {"none"}]
      /\ stop' \in BOOLEAN /\ history' \in Histories /\ UNCHANGED loop
  BY SyncRuns DEF Threaded, Types
<1>4. pending["loop"] # <<>> /\ Continue("loop", SyncOps)
  BY SyncRuns
<1> QED
  BY <1>1, <1>2, <1>3, <1>4, ThreadTakes, Zenon

\* Where the loop is, and a new cycle's sync.
LEMMA LoopThreaded ==
    ASSUME Threaded, RunOnce \/ RunForever \/ Abstain \/ Decide \/ CheckOrder \/ RouteOrder \/ FinishCycle,
           UNCHANGED deployment
    PROVE  Threaded'
<1>1. /\ incidents \in Seq(Rows) /\ ks \in [tripped : BOOLEAN, reason : Args \cup {"none"}]
      /\ stop \in BOOLEAN /\ loop \in LoopStates /\ history \in Histories
  BY DEF Threaded, Types
<1>2. UNCHANGED <<incidents, ks, stop>>
  BY DEF control, RunOnce, RunForever, Abstain, Decide, CheckOrder, RouteOrder, FinishCycle
<1>3. CASE RunOnce
  <2>1. /\ loop' \in {"out", "cycle"} /\ loop' \in LoopStates
        /\ history' = [history EXCEPT !.underHalt = ~stop /\ StandingCommand(incidents) = "halt_paper"]
        /\ UNCHANGED pending \/ pending' = [pending EXCEPT !["loop"] = <<Op("sync", "", "")>>]
    BY <1>3 DEF RunOnce, LoopStates
  <2>2. history' \in Histories
    BY <1>1, <2>1 DEF Histories
  <2>3. Op("sync", "", "") \in Ops /\ MayRun("loop", Op("sync", "", ""), 1, 1) /\ "loop" \in Threads
    BY DEF Op, Ops, Args, MayRun, Threads
  <2>4. Program("loop", <<Op("sync", "", "")>>)
    BY <2>3, OneProgram
  <2> QED
    BY <1>1, <1>2, <2>1, <2>2, <2>3, <2>4, ThreadCalls, ThreadedIdle
<1>4. CASE RouteOrder
  <2>1. /\ loop' \in {"trading", "head", "out"} /\ pending["loop"] = <<>> /\ UNCHANGED pending
        /\ history' = [history EXCEPT !.afterTrip = IF ks.tripped THEN @ + 1 ELSE @]
    BY <1>4 DEF RouteOrder, LoopIdle, EndCycle
  <2>2. history' \in Histories /\ loop' \in LoopStates
    BY <1>1, <2>1 DEF Histories, LoopStates
  <2> QED
    BY <1>1, <1>2, <2>1, <2>2, ThreadedIdle
<1>5. CASE RunForever \/ Abstain \/ Decide \/ CheckOrder \/ FinishCycle
  <2>1. /\ loop' \in {"head", "out", "trading", "checked"} /\ pending["loop"] = <<>>
        /\ UNCHANGED <<pending, history>>
    BY <1>5 DEF RunForever, Abstain, Decide, CheckOrder, FinishCycle, LoopIdle, EndCycle
  <2>2. loop' \in LoopStates
    BY <2>1 DEF LoopStates
  <2> QED
    BY <1>1, <1>2, <2>1, <2>2, ThreadedIdle
<1> QED
  BY <1>3, <1>4, <1>5

\* The owner gives its thread something to run; the other steps here give none.
LEMMA OwnerThreaded ==
    ASSUME Threaded, OwnerControl \/ ReconcileOnce \/ AccountChanges, UNCHANGED deployment
    PROVE  Threaded'
<1>1. /\ incidents \in Seq(Rows) /\ ks \in [tripped : BOOLEAN, reason : Args \cup {"none"}]
      /\ stop \in BOOLEAN /\ loop \in LoopStates /\ history \in Histories
      /\ deployment.owner \in {"loop", "owner"}
  BY DEF Threaded, Types
<1>2. UNCHANGED <<incidents, ks, stop, loop>>
  BY DEF control, cycle, OwnerControl, ReconcileOnce, AccountChanges
<1>3. history' \in Histories
  <2>1. CASE ReconcileOnce
    <3>1. \/ UNCHANGED history
          \/ \E clean \in BOOLEAN : history' = [history EXCEPT !.clean = clean, !.mismatch = ~clean]
      BY <2>1 DEF ReconcileOnce
    <3> QED
      BY <1>1, <3>1 DEF Histories
  <2>2. CASE ~ ReconcileOnce
    BY <1>1, <2>2 DEF OwnerControl, AccountChanges
  <2> QED
    BY <2>1, <2>2
<1>4. CASE AccountChanges
  <2>1. UNCHANGED pending
    BY <1>4 DEF AccountChanges
  <2> QED
    BY <1>1, <1>2, <1>3, <2>1, ThreadedIdle DEF Threaded
<1>5. CASE OwnerControl \/ ReconcileOnce
  <2>1. OwnerThread \in {"loop", "owner"} /\ OwnerThread \in Threads /\ (OwnerThread = "owner" => OwnerThread # "loop")
    BY <1>1 DEF OwnerThread, Threads
  <2>2. PICK ops : /\ OwnerCalls(ops)
                   /\ \/ ops \in {HaltOps("operator"), ResumeOps, <<Op("stop", "", "")>>, <<>>}
                      \/ ops \in {<<Op("trip", "paper_reconciliation_mismatch", "")>>,
                                 <<Op("trip", "paper_venue_reconciliation_error", "")>>}
    BY <1>5 DEF OwnerControl, ReconcileOnce
  <2>3. {"operator", "paper_reconciliation_mismatch", "paper_venue_reconciliation_error"} \subseteq Args
    BY DEF Args
  <2>4. Program(OwnerThread, <<>>)
    BY NoProgram
  <2>5. /\ Program(OwnerThread, HaltOps("operator")) /\ Program(OwnerThread, ResumeOps)
        /\ Program(OwnerThread, <<Op("stop", "", "")>>)
        /\ Program(OwnerThread, <<Op("trip", "paper_reconciliation_mismatch", "")>>)
        /\ Program(OwnerThread, <<Op("trip", "paper_venue_reconciliation_error", "")>>)
    BY <2>1, <2>3, CallsRun
  <2>6. Program(OwnerThread, ops)
    BY <2>2, <2>4, <2>5
  <2>7. /\ pending' = [pending EXCEPT ![OwnerThread] = ops]
        /\ loop \in {"trading", "checked"} => OwnerThread # "loop"
    BY <2>2 DEF OwnerCalls, OwnerMayCall
  <2>8. loop' \in {"trading", "checked"} => pending'["loop"] = <<>>
    <3>1. loop \in {"trading", "checked"} => pending["loop"] = <<>> /\ pending \in [Threads -> Seq(Ops)]
      BY DEF Threaded, Types
    <3>2. "loop" \in Threads
      BY DEF Threads
    <3> QED
      BY <1>2, <2>7, <3>1, <3>2
  <2> QED
    BY <1>1, <1>2, <1>3, <2>1, <2>6, <2>7, <2>8, ThreadCalls
<1> QED
  BY <1>4, <1>5

\* A command is executed, and recorded.
LEMMA DashboardThreaded ==
    ASSUME Threaded, (\E k \in Keys : Execute(k)) \/ RecordCommand, UNCHANGED deployment
    PROVE  Threaded'
<1>1. /\ incidents \in Seq(Rows) /\ ks \in [tripped : BOOLEAN, reason : Args \cup {"none"}]
      /\ stop \in BOOLEAN /\ loop \in LoopStates /\ history \in Histories
      /\ pending \in [Threads -> Seq(Ops)] /\ Types
  BY DEF Threaded, Types
<1>2. "api" \in Threads /\ "loop" \in Threads
  BY DEF Threads
<1>3. CASE \E k \in Keys : Execute(k)
  <2>0. PICK k \in Keys : Execute(k)
    BY <1>3
  <2>1. PICK ops :
           /\ pending' = [pending EXCEPT !["api"] = ops]
           /\ \/ ops \in {<<Record(k, "rejected")>>, <<>> \o <<Record(k, "accepted")>>}
              \/ Bound /\ ops \in {HaltOps(k) \o <<Record(k, "accepted")>>, ResumeOps \o <<Record(k, "accepted")>>}
    BY <2>0 DEF Execute
  <2>2. UNCHANGED <<incidents, ks, stop, loop, history>>
    BY <1>3 DEF Execute, control, cycle
  <2>3. <<>> \o <<Record(k, "accepted")>> = <<Record(k, "accepted")>>
    OBVIOUS
  <2>4. Program("api", ops)
    BY <2>1, <2>3, DashboardRuns
  <2>5. loop' \in {"trading", "checked"} => pending'["loop"] = <<>>
    BY <1>1, <1>2, <2>1, <2>2 DEF Threaded
  <2> QED
    BY <1>1, <1>2, <2>1, <2>2, <2>4, <2>5, ThreadCalls
<1>4. CASE RecordCommand
  <2> DEFINE k == Head(pending["api"]).arg
             status == Head(pending["api"]).status
             type == IF status = "accepted" THEN Command[k] ELSE "rejected"
  <2>1. /\ pending["api"] # <<>> /\ Head(pending["api"]).op = "record" /\ UNCHANGED <<ks, stop, loop>>
        /\ incidents' = Append(incidents, Row(type, k)) /\ Continue("api", <<>>)
        /\ history' = [history EXCEPT !.mismatch = FALSE,
                 !.underHalt = @ /\ ~(status = "accepted" /\ Command[k] = "resume_paper")]
    BY <1>4 DEF RecordCommand, Doing, Append_, cycle
  <2>2. k \in Keys /\ k \in Args
    BY <1>2, <2>1, HeadFields DEF MayRun, Args
  <2>3. type \in Security \cup Accepted \cup {"rejected"}
    BY <2>2, ControlAssumption DEF Accepted
  <2>4. incidents' \in Seq(Rows)
    BY <1>1, <2>1, <2>2, <2>3, RowType, ZenonT(60)
  <2>5. history' \in Histories
    BY <1>1, <2>1 DEF Histories
  <2> QED
    BY <1>1, <1>2, <2>1, <2>4, <2>5, ThreadPops
<1> QED
  BY <1>3, <1>4

\* A write that raises, the end of a process and its restart.
LEMMA FailureThreaded ==
    ASSUME Threaded, (\E t \in Threads : AppendRaises(t)) \/ Exit \/ Restart \/ ApiRestart, UNCHANGED deployment
    PROVE  Threaded'
<1>1. /\ incidents \in Seq(Rows) /\ ks \in [tripped : BOOLEAN, reason : Args \cup {"none"}]
      /\ stop \in BOOLEAN /\ loop \in LoopStates /\ history \in Histories
      /\ pending \in [Threads -> Seq(Ops)]
      /\ loop \in {"trading", "checked"} => pending["loop"] = <<>>
      /\ \A t \in Threads : Program(t, pending[t])
  BY DEF Threaded, Types
<1>2. "api" \in Threads /\ "loop" \in Threads
  BY DEF Threads
<1>3. ASSUME NEW t \in Threads, AppendRaises(t) PROVE Threaded'
  <2> DEFINE last == Last(pending[t])
             ops == IF t = "api" /\ Doing(t, "reset") THEN <<Record(last.arg, "rejected")>> ELSE <<>>
  <2>1. /\ pending' = [pending EXCEPT ![t] = ops] /\ UNCHANGED <<incidents, ks, stop, history>>
        /\ pending[t] # <<>>
    BY <1>1, <1>3 DEF AppendRaises, Doing, control
  <2>2. loop' \in LoopStates /\ (loop' \in {"trading", "checked"} => loop' = loop)
    BY <1>1, <1>3 DEF AppendRaises, LoopStates
  <2>3. Program(t, ops)
    <3>1. CASE t = "api" /\ Doing(t, "reset")
      <4>1. pending[t] \in Seq(Ops) /\ Len(pending[t]) \in DOMAIN pending[t] /\ last = pending[t][Len(pending[t])]
        BY <1>1, <2>1 DEF Last
      <4>2. MayRun(t, last, Len(pending[t]), Len(pending[t]))
        BY <1>1, <4>1 DEF Program
      <4>3. last.arg \in Keys
        BY <3>1, <4>2 DEF MayRun
      <4> QED
        BY <3>1, <4>3, DashboardRuns
    <3>2. CASE ~ (t = "api" /\ Doing(t, "reset"))
      BY <3>2, NoProgram
    <3> QED
      BY <3>1, <3>2
  <2>4. loop' \in {"trading", "checked"} => pending'["loop"] = <<>>
    BY <1>1, <1>2, <2>1, <2>2
  <2> QED
    BY <1>1, <2>1, <2>2, <2>3, <2>4, ThreadCalls
<1>4. CASE Exit
  <2>1. /\ loop' = "down" /\ pending' = [t \in Threads |-> IF t = "api" /\ ~Bound THEN pending[t] ELSE <<>>]
        /\ UNCHANGED <<incidents, ks, stop, history>>
    BY <1>4 DEF Exit, control
  <2>2. \A t \in Threads : pending'[t] \in {pending[t], <<>>}
    BY <2>1
  <2>3. pending' \in [Threads -> Seq(Ops)]
    BY <1>1, <2>1
  <2>4. \A t \in Threads : Program(t, pending'[t])
    BY <1>1, <2>2, NoProgram
  <2>5. loop' \in LoopStates /\ loop' \notin {"trading", "checked"}
    BY <2>1 DEF LoopStates
  <2> QED
    BY <1>1, <2>1, <2>3, <2>4, <2>5, ThreadedNext
<1>5. CASE Restart
  <2>1. /\ ks' = Hydrate(incidents) /\ stop' = FALSE /\ loop' = "init" /\ UNCHANGED incidents
        /\ pending' = [pending EXCEPT !["loop"] = <<Op("sync", "", "")>>]
        /\ history' = [history EXCEPT !.afterTrip = 0]
    BY <1>5 DEF Restart
  <2>2. ks' \in [tripped : BOOLEAN, reason : Args \cup {"none"}] /\ history' \in Histories
    BY <1>1, <2>1, HydrateType DEF Histories
  <2>3. Op("sync", "", "") \in Ops /\ MayRun("loop", Op("sync", "", ""), 1, 1)
    BY DEF Op, Ops, Args, MayRun
  <2>4. Program("loop", <<Op("sync", "", "")>>)
    BY <1>2, <2>3, OneProgram
  <2>5. loop' \in LoopStates /\ loop' \notin {"trading", "checked"}
    BY <2>1 DEF LoopStates
  <2> QED
    BY <1>1, <1>2, <2>1, <2>2, <2>4, <2>5, ThreadCalls
<1>6. CASE ApiRestart
  <2>1. /\ pending' = [pending EXCEPT !["api"] = <<>>] /\ UNCHANGED <<incidents, ks, stop, loop, history>>
    BY <1>6 DEF ApiRestart, control, cycle
  <2>2. loop' \in {"trading", "checked"} => pending'["loop"] = <<>>
    BY <1>1, <1>2, <2>1
  <2> QED
    BY <1>1, <1>2, <2>1, <2>2, NoProgram, ThreadCalls
<1> QED
  BY <1>3, <1>4, <1>5, <1>6

\* In the first state every thread runs a program.
LEMMA InitThreaded == ASSUME Init PROVE Threaded
<1>1. incidents = <<>> /\ ks = Off /\ stop = FALSE /\ loop = "head" /\ pending = [t \in Threads |-> <<>>]
  BY DEF Init
<1>2. incidents \in Seq(Rows) /\ ks \in [tripped : BOOLEAN, reason : Args \cup {"none"}]
      /\ stop \in BOOLEAN /\ loop \in LoopStates /\ pending \in [Threads -> Seq(Ops)]
  <2>1. incidents \in Seq(Rows) /\ stop \in BOOLEAN /\ loop \in LoopStates
    <3>1. <<>> \in Seq(Rows)
      OBVIOUS
    <3>2. stop \in BOOLEAN /\ loop \in LoopStates
      BY <1>1 DEF LoopStates
    <3> QED
      BY <1>1, <3>1, <3>2
  <2>2. Off.tripped \in BOOLEAN /\ Off \in [tripped : BOOLEAN, reason : Args \cup {"none"}]
    BY DEF Off
  <2>3. pending \in [Threads -> Seq(Ops)]
    <3>1. <<>> \in Seq(Ops)
      OBVIOUS
    <3> QED
      BY <1>1, <3>1
  <2> QED
    BY <1>1, <2>1, <2>2, <2>3
<1>3. history \in Histories
  BY DEF Init, Histories
<1>4. deployment \in [bound : BOOLEAN, owner : {"loop", "owner"}]
  BY ControlAssumption DEF Init
<1>5. \A t \in Threads : Program(t, pending[t])
  BY <1>1, NoProgram
<1> QED
  BY <1>1, <1>2, <1>3, <1>4, <1>5 DEF Threaded, Types

\* What the threads have to run keeps its shape, whatever happens.
LEMMA StepThreaded == ASSUME Threaded, [Next]_vars PROVE Threaded'
<1>1. CASE Next
  <2>1. UNCHANGED deployment /\ Step
    BY <1>1 DEF Next
  <2>2. CASE \E t \in Threads : ThreadStep(t)
    BY <2>1, <2>2, ThreadStepThreaded
  <2>3. CASE SyncDashboardControl
    BY <2>1, <2>3, SyncThreaded
  <2>4. CASE RunOnce \/ RunForever \/ Abstain \/ Decide \/ CheckOrder \/ RouteOrder \/ FinishCycle
    BY <2>1, <2>4, LoopThreaded
  <2>5. CASE OwnerControl \/ ReconcileOnce \/ AccountChanges
    BY <2>1, <2>5, OwnerThreaded
  <2>6. CASE (\E k \in Keys : Execute(k)) \/ RecordCommand
    BY <2>1, <2>6, DashboardThreaded
  <2>7. CASE (\E t \in Threads : AppendRaises(t)) \/ Exit \/ Restart \/ ApiRestart
    BY <2>1, <2>7, FailureThreaded
  <2> QED
    BY <2>1, <2>2, <2>3, <2>4, <2>5, <2>6, <2>7 DEF Step, LoopStep
<1>2. CASE UNCHANGED vars
  <2>1. UNCHANGED <<incidents, ks, stop, loop, pending, history, deployment>>
    BY <1>2 DEF vars, state
  <2> QED
    BY <2>1, ThreadedIdle DEF Threaded, Types
<1> QED
  BY <1>1, <1>2

---------------------------------------------------------------------------
(* The switch and the ledger *)

\* Inside trip and reset the loop's thread holds what the ledger says already.
SwitchInv ==
    ~ Bound /\ OwnerThread = "loop" /\ Up =>
        IF Doing("loop", "set") THEN Hydrate(incidents) = On(Head(pending["loop"]).arg)
        ELSE IF Doing("loop", "unset") THEN Hydrate(incidents) = Off
        ELSE ks = Hydrate(incidents)

\* With the owner on the loop's thread there is no third writer; with an API of its
\* own process there is one.
LEMMA Writers ==
    ASSUME Threaded, OwnerThread = "loop"
    PROVE  /\ pending["owner"] = <<>>
           /\ ~ Bound /\ pending["api"] # <<>> => Head(pending["api"]).op = "record"
<1>1. "owner" \in Threads /\ "api" \in Threads
  BY DEF Threads
<1>2. pending["owner"] # <<>> => MayRun("owner", Head(pending["owner"]), 1, Len(pending["owner"]))
  BY <1>1, HeadFields
<1>3. pending["api"] # <<>> => MayRun("api", Head(pending["api"]), 1, Len(pending["api"]))
  BY <1>1, HeadFields
<1> QED
  BY <1>2, <1>3 DEF MayRun

\* What follows an operation that is taken is not another attribute.
LEMMA AfterPop ==
    ASSUME Threaded, NEW t \in Threads, pending[t] # <<>>, Continue(t, <<>>)
    PROVE  /\ pending'[t] = Tail(pending[t])
           /\ \A op \in {"set", "unset", "trip", "reset", "sync"} : ~ Doing(t, op)'
           /\ \A u \in Threads \ {t} : pending'[u] = pending[u]
<1>1. /\ Tail(pending[t]) \in Seq(Ops)
      /\ Tail(pending[t]) # <<>> => Head(Tail(pending[t])).op \in {"stop", "clear", "record"}
  BY TailRuns DEF Threaded, Program
<1>2. <<>> \o Tail(pending[t]) = Tail(pending[t])
  BY <1>1
<1>3. pending'[t] = Tail(pending[t]) /\ \A u \in Threads \ {t} : pending'[u] = pending[u]
  BY <1>1, <1>2, Continued DEF Threaded
<1>4. ASSUME NEW op \in {"set", "unset", "trip", "reset", "sync"} PROVE ~ Doing(t, op)'
  BY <1>1, <1>3 DEF Doing
<1> QED
  BY <1>3, <1>4

\* A ledger write is followed by its attribute.
LEMMA AfterWrite ==
    ASSUME Threaded, NEW t \in Threads, Doing(t, "trip") \/ Doing(t, "reset"),
           NEW o \in Ops, o.op \in {"set", "unset"}, Continue(t, <<o>>)
    PROVE  /\ pending'[t] # <<>> /\ Head(pending'[t]) = o
           /\ \A u \in Threads \ {t} : pending'[u] = pending[u]
<1>1. pending[t] # <<>> /\ Head(pending[t]).op \in {"trip", "reset"} /\ Program(t, pending[t])
  BY DEF Doing, Threaded
<1>2. /\ Program(t, <<o>> \o Tail(pending[t])) /\ <<o>> \o Tail(pending[t]) # <<>>
      /\ Head(<<o>> \o Tail(pending[t])) = o
  BY <1>1, AttributeRuns
<1> QED
  BY <1>2, Continued DEF Threaded, Program

\* Nothing is between a row and its attribute, before or after.
LEMMA SwitchKept ==
    ASSUME SwitchInv, UNCHANGED <<ks, deployment>>, Up' => Up, Hydrate(incidents') = Hydrate(incidents),
           \/ pending'["loop"] = pending["loop"]
           \/ \A op \in {"set", "unset"} : ~ Doing("loop", op) /\ ~ Doing("loop", op)'
    PROVE  SwitchInv'
BY DEF SwitchInv, Doing, Bound, OwnerThread

\* What the owner and the loop give the loop's thread to run begins with no attribute.
LEMMA NewHeads ==
    ASSUME NEW arg
    PROVE  /\ HaltOps(arg) # <<>> /\ Head(HaltOps(arg)).op = "trip" /\ Head(HaltOps(arg)).arg = arg
           /\ ResumeOps # <<>> /\ Head(ResumeOps).op = "reset"
           /\ \A op, status : <<Op(op, arg, status)>> # <<>> /\ Head(<<Op(op, arg, status)>>).op = op
<1>1. /\ <<Op("trip", arg, ""), Op("stop", "", "")>> # <<>>
      /\ Head(<<Op("trip", arg, ""), Op("stop", "", "")>>) = Op("trip", arg, "")
  OBVIOUS
<1>2. /\ <<Op("reset", "", ""), Op("clear", "", "")>> # <<>>
      /\ Head(<<Op("reset", "", ""), Op("clear", "", "")>>) = Op("reset", "", "")
  OBVIOUS
<1>3. ASSUME NEW op, NEW status
      PROVE  <<Op(op, arg, status)>> # <<>> /\ Head(<<Op(op, arg, status)>>).op = op
  BY DEF Op
<1>4. /\ Op("trip", arg, "").op = "trip" /\ Op("trip", arg, "").arg = arg /\ Op("reset", "", "").op = "reset"
  BY DEF Op
<1>5. HaltOps(arg) # <<>> /\ Head(HaltOps(arg)) = Op("trip", arg, "")
  BY <1>1 DEF HaltOps
<1>6. ResumeOps # <<>> /\ Head(ResumeOps) = Op("reset", "", "")
  BY <1>2 DEF ResumeOps
<1> QED
  BY <1>3, <1>4, <1>5, <1>6

\* A cycle starts with a synchronisation.
LEMMA NewSync == <<Op("sync", "", "")>> # <<>> /\ Head(<<Op("sync", "", "")>>).op = "sync"
<1>1. ASSUME NEW o PROVE <<o>> # <<>> /\ Head(<<o>>) = o
  OBVIOUS
<1>2. Op("sync", "", "").op = "sync"
  BY DEF Op
<1> QED
  BY <1>1, <1>2

\* A synchronisation under a standing halt starts with the trip; it starts with no attribute.
LEMMA SyncHeads ==
    ASSUME Threaded, SyncDashboardControl
    PROVE  /\ Doing("loop", "sync") /\ \A op \in {"set", "unset"} : ~ Doing("loop", op)'
           /\ StandingCommand(incidents) = "halt_paper" => Doing("loop", "trip")'
<1>1. pending'["loop"] = SyncOps
  BY SyncRuns
<1>2. SyncOps = <<>> \/ (SyncOps # <<>> /\ Head(SyncOps).op \in {"trip", "reset"})
  BY NewHeads DEF SyncOps
<1>3. StandingCommand(incidents) = "halt_paper" => SyncOps # <<>> /\ Head(SyncOps).op = "trip"
  BY NewHeads DEF SyncOps
<1>4. Doing("loop", "sync")
  BY DEF SyncDashboardControl
<1> QED
  BY <1>1, <1>2, <1>3, <1>4 DEF Doing

\* What the owner gives its thread to run is a trip, a reset, a stop or nothing.
LEMMA OwnerHeads ==
    ASSUME Threaded, OwnerControl \/ ReconcileOnce, UNCHANGED deployment
    PROVE  /\ pending[OwnerThread] = <<>> /\ \A op \in {"set", "unset", "sync"} : ~ Doing(OwnerThread, op)'
           /\ \A t \in Threads \ {OwnerThread} : pending'[t] = pending[t]
           /\ OwnerThread = "loop" => loop \in {"head", "out"}
           /\ UNCHANGED <<incidents, ks, stop, loop>>
           /\ history'.underHalt = history.underHalt /\ history'.afterTrip = history.afterTrip
<1>1. PICK ops : /\ OwnerCalls(ops)
                 /\ \/ ops \in {HaltOps("operator"), ResumeOps, <<Op("stop", "", "")>>, <<>>}
                    \/ ops \in {<<Op("trip", "paper_reconciliation_mismatch", "")>>,
                               <<Op("trip", "paper_venue_reconciliation_error", "")>>}
  BY DEF OwnerControl, ReconcileOnce
<1>2. ops = <<>> \/ (ops # <<>> /\ Head(ops).op \in {"trip", "reset", "stop"})
  <2>1. \A arg : HaltOps(arg) # <<>> /\ Head(HaltOps(arg)).op = "trip"
    BY NewHeads
  <2>2. ResumeOps # <<>> /\ Head(ResumeOps).op = "reset"
    BY NewHeads
  <2>3. ASSUME NEW o PROVE <<o>> # <<>> /\ Head(<<o>>) = o
    OBVIOUS
  <2>4. Op("stop", "", "").op = "stop" /\ \A arg : Op("trip", arg, "").op = "trip"
    BY DEF Op
  <2>5. ops \in {<<Op("stop", "", "")>>, <<Op("trip", "paper_reconciliation_mismatch", "")>>,
                 <<Op("trip", "paper_venue_reconciliation_error", "")>>}
        => ops # <<>> /\ Head(ops).op \in {"trip", "stop"}
    BY <2>3, <2>4
  <2> QED
    BY <1>1, <2>1, <2>2, <2>5
<1>3. pending \in [Threads -> Seq(Ops)] /\ OwnerThread \in Threads /\ history \in Histories
  BY DEF Threaded, Types, OwnerThread, Threads
<1>4. /\ pending[OwnerThread] = <<>> /\ pending' = [pending EXCEPT ![OwnerThread] = ops]
      /\ OwnerThread = "loop" => loop \in {"head", "out"}
  BY <1>1 DEF OwnerCalls, OwnerMayCall
<1>5. UNCHANGED <<incidents, ks, stop, loop>>
  BY DEF control, cycle, OwnerControl, ReconcileOnce
<1>6. \/ UNCHANGED history
      \/ \E clean \in BOOLEAN : history' = [history EXCEPT !.clean = clean, !.mismatch = ~clean]
  BY DEF OwnerControl, ReconcileOnce
<1>7. history'.underHalt = history.underHalt /\ history'.afterTrip = history.afterTrip
  BY <1>3, <1>6 DEF Histories
<1>8. pending'[OwnerThread] = ops /\ \A t \in Threads \ {OwnerThread} : pending'[t] = pending[t]
  BY <1>3, <1>4
<1>9. \A op \in {"set", "unset", "sync"} : ~ (ops # <<>> /\ Head(ops).op = op)
  BY <1>2
<1>10. \A op \in {"set", "unset", "sync"} : ~ Doing(OwnerThread, op)'
  BY <1>8, <1>9 DEF Doing, OwnerThread
<1> QED
  BY <1>4, <1>5, <1>7, <1>8, <1>10

\* One operation of the loop's thread on the switch.
LEMMA LoopSwitch ==
    ASSUME Threaded, SwitchInv, ThreadStep("loop"), UNCHANGED deployment, ~ Bound, OwnerThread = "loop"
    PROVE  SwitchInv'
<1>1. UNCHANGED loop
  BY DEF ThreadStep, Trip, SetTripped, Reset, ClearTripped, SetStop, cycle
<1>2. "loop" \in Threads /\ incidents \in Seq(Rows)
  BY DEF Threads, Threaded, Types
<1>3. CASE ~ Up
  BY <1>1, <1>3 DEF SwitchInv, Up
<1>4. CASE Up
  <2>1. IF Doing("loop", "set") THEN Hydrate(incidents) = On(Head(pending["loop"]).arg)
        ELSE IF Doing("loop", "unset") THEN Hydrate(incidents) = Off
        ELSE ks = Hydrate(incidents)
    BY <1>4 DEF SwitchInv
  <2>2. ASSUME Continue("loop", <<>>), pending["loop"] # <<>>, ks' = Hydrate(incidents')
        PROVE  SwitchInv'
    <3>1. ~ Doing("loop", "set")' /\ ~ Doing("loop", "unset")'
      BY <1>2, <2>2, AfterPop
    <3> QED
      BY <2>2, <3>1 DEF SwitchInv
  <2>3. CASE Trip("loop")
    <3> DEFINE reason == Head(pending["loop"]).arg
    <3>1. Doing("loop", "trip") /\ pending["loop"] # <<>> /\ ~ Doing("loop", "set") /\ ~ Doing("loop", "unset") /\ UNCHANGED ks
      BY <2>3 DEF Trip, Doing
    <3>2. CASE ks = On(reason)
      <4>1. Continue("loop", <<>>) /\ UNCHANGED incidents
        BY <2>3, <3>2 DEF Trip
      <4> QED
        BY <2>1, <2>2, <3>1, <4>1
    <3>3. CASE ks # On(reason)
      <4>1. incidents' = Append(incidents, Row("kill_switch_tripped", reason)) /\ Continue("loop", <<Op("set", reason, "")>>)
        BY <2>3, <3>3 DEF Trip, Append_
      <4>2. reason \in Args
        BY <1>2, <3>1, HeadFields
      <4>3. /\ Row("kill_switch_tripped", reason) \in Rows /\ Row("kill_switch_tripped", reason).type = "kill_switch_tripped"
            /\ Row("kill_switch_tripped", reason).arg = reason
        BY <4>2, RowType DEF Threaded, Security
      <4>4. Hydrate(incidents') = On(reason)
        BY <1>2, <4>1, <4>3, HydrateAppend
      <4>5. Op("set", reason, "") \in Ops /\ Op("set", reason, "").op = "set" /\ Op("set", reason, "").arg = reason
        BY <4>2 DEF Op, Ops
      <4>6. pending'["loop"] # <<>> /\ Head(pending'["loop"]) = Op("set", reason, "")
        BY <1>2, <3>1, <4>1, <4>5, AfterWrite
      <4> QED
        BY <4>4, <4>5, <4>6 DEF SwitchInv, Doing
    <3> QED
      BY <3>2, <3>3
  <2>4. CASE SetTripped("loop")
    <3>1. /\ Doing("loop", "set") /\ pending["loop"] # <<>> /\ ks' = On(Head(pending["loop"]).arg)
          /\ Continue("loop", <<>>) /\ UNCHANGED incidents
      BY <2>4 DEF SetTripped, Doing
    <3> QED
      BY <2>1, <2>2, <3>1
  <2>5. CASE Reset("loop")
    <3>1. Doing("loop", "reset") /\ pending["loop"] # <<>> /\ ~ Doing("loop", "set") /\ ~ Doing("loop", "unset") /\ UNCHANGED ks
      BY <2>5 DEF Reset, Doing
    <3>2. CASE ~ ks.tripped
      <4>1. Continue("loop", <<>>) /\ UNCHANGED incidents
        BY <2>5, <3>2 DEF Reset
      <4> QED
        BY <2>1, <2>2, <3>1, <4>1
    <3>3. CASE ks.tripped
      <4>1. incidents' = Append(incidents, Row("kill_switch_reset", "")) /\ Continue("loop", <<Op("unset", "", "")>>)
        BY <2>5, <3>3 DEF Reset, Append_
      <4>2. "" \in Args
        BY DEF Args
      <4>3. Row("kill_switch_reset", "") \in Rows /\ Row("kill_switch_reset", "").type = "kill_switch_reset"
        BY <4>2, RowType DEF Threaded, Security
      <4>4. Hydrate(incidents') = Off
        BY <1>2, <4>1, <4>3, HydrateAppend
      <4>5. Op("unset", "", "") \in Ops /\ Op("unset", "", "").op = "unset"
        BY <4>2 DEF Op, Ops
      <4>6. pending'["loop"] # <<>> /\ Head(pending'["loop"]) = Op("unset", "", "")
        BY <1>2, <3>1, <4>1, <4>5, AfterWrite
      <4> QED
        BY <4>4, <4>5, <4>6 DEF SwitchInv, Doing
    <3> QED
      BY <3>2, <3>3
  <2>6. CASE ClearTripped("loop")
    <3>1. /\ Doing("loop", "unset") /\ ~ Doing("loop", "set") /\ pending["loop"] # <<>> /\ ks' = Off
          /\ Continue("loop", <<>>) /\ UNCHANGED incidents
      BY <2>6 DEF ClearTripped, Doing
    <3> QED
      BY <2>1, <2>2, <3>1
  <2>7. CASE SetStop("loop")
    <3>1. /\ ~ Doing("loop", "unset") /\ ~ Doing("loop", "set") /\ pending["loop"] # <<>>
          /\ Continue("loop", <<>>) /\ UNCHANGED <<incidents, ks>>
      BY <2>7 DEF SetStop, Doing
    <3> QED
      BY <2>1, <2>2, <3>1
  <2> QED
    BY <2>3, <2>4, <2>5, <2>6, <2>7 DEF ThreadStep
<1> QED
  BY <1>3, <1>4

\* Every step keeps the switch where its rows put it.
LEMMA StepSwitch ==
    ASSUME Threaded, SwitchInv, [Next]_vars
    PROVE  SwitchInv'
<1>1. CASE ~ (~ Bound /\ OwnerThread = "loop")
  <2>1. UNCHANGED deployment
    BY DEF Next, vars
  <2> QED
    BY <1>1, <2>1 DEF SwitchInv, Bound, OwnerThread
<1>2. CASE ~ Bound /\ OwnerThread = "loop" /\ Next
  <2>1. UNCHANGED deployment /\ Step
    BY <1>2 DEF Next
  <2>2. /\ "loop" \in Threads /\ pending["owner"] = <<>>
        /\ pending["api"] # <<>> => Head(pending["api"]).op = "record"
        /\ pending \in [Threads -> Seq(Ops)]
    BY <1>2, Writers DEF Threads, Threaded, Types
  <2>3. CASE \E t \in Threads : ThreadStep(t)
    <3>1. ~ ThreadStep("owner") /\ ~ ThreadStep("api")
      BY <2>2 DEF ThreadStep, Trip, SetTripped, Reset, ClearTripped, SetStop, Doing
    <3>2. ThreadStep("loop")
      BY <2>3, <3>1 DEF Threads
    <3> QED
      BY <1>2, <2>1, <3>2, LoopSwitch
  <2>4. CASE SyncDashboardControl
    <3>1. UNCHANGED <<incidents, ks, loop>>
      BY <2>4, SyncRuns
    <3>2. \A op \in {"set", "unset"} : ~ Doing("loop", op) /\ ~ Doing("loop", op)'
      BY <2>4, SyncHeads DEF Doing
    <3> QED
      BY <2>1, <3>1, <3>2, SwitchKept DEF Up
  <2>5. CASE RunOnce
    <3>1. /\ pending["loop"] = <<>> /\ loop = "head" /\ UNCHANGED <<incidents, ks>>
          /\ UNCHANGED pending \/ pending' = [pending EXCEPT !["loop"] = <<Op("sync", "", "")>>]
      BY <2>5 DEF RunOnce, LoopIdle, control
    <3>2. Head(<<Op("sync", "", "")>>).op = "sync"
      BY NewSync
    <3>3. \A op \in {"set", "unset"} : ~ Doing("loop", op) /\ ~ Doing("loop", op)'
      BY <2>2, <3>1, <3>2 DEF Doing
    <3> QED
      BY <2>1, <3>1, <3>3, SwitchKept DEF Up
  <2>6. CASE RunForever \/ Abstain \/ Decide \/ CheckOrder \/ RouteOrder \/ FinishCycle
    <3>1. UNCHANGED <<incidents, ks, pending>> /\ loop # "down"
      BY <2>6 DEF RunForever, Abstain, Decide, CheckOrder, RouteOrder, FinishCycle, LoopIdle, control
    <3> QED
      BY <2>1, <3>1, SwitchKept DEF Up
  <2>7. CASE OwnerControl \/ ReconcileOnce
    <3>1. /\ UNCHANGED <<incidents, ks, loop>> /\ pending["loop"] = <<>>
          /\ \A op \in {"set", "unset"} : ~ Doing("loop", op)'
      BY <1>2, <2>1, <2>7, OwnerHeads DEF OwnerThread
    <3>2. \A op \in {"set", "unset"} : ~ Doing("loop", op) /\ ~ Doing("loop", op)'
      BY <3>1 DEF Doing
    <3> QED
      BY <2>1, <3>1, <3>2, SwitchKept DEF Up
  <2>8. CASE AccountChanges \/ (\E k \in Keys : Execute(k)) \/ ApiRestart
    <3>1. UNCHANGED <<incidents, ks, loop>> /\ pending'["loop"] = pending["loop"]
      BY <2>2, <2>8 DEF AccountChanges, Execute, ApiRestart, control, cycle
    <3> QED
      BY <2>1, <3>1, SwitchKept DEF Up
  <2>9. CASE RecordCommand
    <3> DEFINE k == Head(pending["api"]).arg
               status == Head(pending["api"]).status
               type == IF status = "accepted" THEN Command[k] ELSE "rejected"
    <3>1. /\ pending["api"] # <<>> /\ Head(pending["api"]).op = "record" /\ UNCHANGED <<ks, loop>>
          /\ incidents' = Append(incidents, Row(type, k)) /\ Continue("api", <<>>)
      BY <2>9 DEF RecordCommand, Doing, Append_, cycle
    <3>2. "api" \in Threads
      BY DEF Threads
    <3>3. k \in Keys /\ k \in Args
      BY <3>1, <3>2, HeadFields DEF MayRun, Args
    <3>4. type \in Accepted \cup {"rejected"}
      BY <3>3, ControlAssumption DEF Accepted
    <3>5. type \in Security \cup Accepted \cup {"rejected"} /\ type \notin Security
      BY <3>4 DEF Accepted, Security
    <3>6. Row(type, k) \in Rows /\ Row(type, k).type = type
      BY <3>3, <3>5, RowType DEF Threaded
    <3>7. Hydrate(incidents') = Hydrate(incidents)
      BY <3>1, <3>5, <3>6, HydrateAppend DEF Threaded, Types
    <3>8. pending'["loop"] = pending["loop"]
      BY <2>2, <3>1, <3>2, AfterPop
    <3> QED
      BY <2>1, <3>1, <3>7, <3>8, SwitchKept DEF Up
  <2>10. CASE \E t \in Threads : AppendRaises(t)
    <3>1. PICK t \in Threads : AppendRaises(t)
      BY <2>10
    <3>2. /\ UNCHANGED ks /\ Hydrate(incidents') = Hydrate(incidents) /\ (Up' => Up)
          /\ Doing(t, "trip") \/ Doing(t, "reset") \/ Doing(t, "record")
      BY <3>1 DEF AppendRaises, control, Up
    <3>3. CASE t = "loop"
      <4>1. pending'["loop"] = <<>>
        BY <2>2, <3>1, <3>3 DEF AppendRaises
      <4>2. \A op \in {"set", "unset"} : ~ Doing("loop", op) /\ ~ Doing("loop", op)'
        BY <3>2, <3>3, <4>1 DEF Doing
      <4> QED
        BY <2>1, <3>2, <4>2, SwitchKept
    <3>4. CASE t # "loop"
      <4>1. pending'["loop"] = pending["loop"]
        BY <2>2, <3>1, <3>4 DEF AppendRaises
      <4> QED
        BY <2>1, <3>2, <4>1, SwitchKept
    <3> QED
      BY <3>3, <3>4
  <2>11. CASE Exit
    <3>1. ~ Up'
      BY <2>11 DEF Exit, Up
    <3> QED
      BY <3>1 DEF SwitchInv
  <2>12. CASE Restart
    <3>1. ks' = Hydrate(incidents') /\ pending'["loop"] = <<Op("sync", "", "")>>
      BY <2>2, <2>12 DEF Restart
    <3>2. Head(<<Op("sync", "", "")>>).op = "sync"
      BY NewSync
    <3> QED
      BY <3>1, <3>2 DEF SwitchInv, Doing
  <2> QED
    BY <2>1, <2>3, <2>4, <2>5, <2>6, <2>7, <2>8, <2>9, <2>10, <2>11, <2>12 DEF Step, LoopStep
<1>3. CASE UNCHANGED vars
  <2>1. UNCHANGED <<incidents, ks, loop, pending, deployment>>
    BY <1>3 DEF vars, state
  <2> QED
    BY <2>1, SwitchKept DEF Up
<1> QED
  BY <1>1, <1>2, <1>3

---------------------------------------------------------------------------
(* Orders after a trip *)

\* An order past check_order was checked before the trip; none is checked after it.
TripInv == ks.tripped => history.afterTrip <= 1 /\ (loop = "checked" => history.afterTrip = 0)

\* Every step keeps the row of a trip before its attribute.
LEMMA StepTrip ==
    ASSUME Threaded, TripInv, [Next]_vars
    PROVE  TripInv'
<1>1. history \in Histories /\ history.afterTrip \in Nat
  BY DEF Threaded, Types, Histories
<1>2. CASE UNCHANGED <<ks, history, loop>>
  BY <1>2 DEF TripInv
<1>3. CASE Next
  <2>1. Step
    BY <1>3 DEF Next
  <2>2. ASSUME NEW t \in Threads, ThreadStep(t) PROVE TripInv'
    <3>1. CASE Trip(t) \/ SetStop(t)
      BY <1>2, <3>1 DEF Trip, SetStop, cycle
    <3>2. CASE SetTripped(t)
      <4>1. UNCHANGED loop /\ history' = IF ks.tripped THEN history ELSE [history EXCEPT !.afterTrip = 0]
        BY <3>2 DEF SetTripped, cycle
      <4>2. ~ ks.tripped => history'.afterTrip = 0
        BY <1>1, <4>1 DEF Histories
      <4> QED
        BY <4>1, <4>2 DEF TripInv
    <3>3. CASE Reset(t)
      <4>1. UNCHANGED <<ks, loop>> /\ (UNCHANGED history \/ history' = [history EXCEPT !.underHalt = FALSE])
        BY <3>3 DEF Reset, cycle
      <4>2. history'.afterTrip = history.afterTrip
        BY <1>1, <4>1 DEF Histories
      <4> QED
        BY <4>1, <4>2 DEF TripInv
    <3>4. CASE ClearTripped(t)
      BY <3>4 DEF ClearTripped, Off, TripInv
    <3> QED
      BY <2>2, <3>1, <3>2, <3>3, <3>4 DEF ThreadStep
  <2>3. CASE RouteOrder
    <3>1. /\ loop = "checked" /\ loop' # "checked" /\ UNCHANGED ks
          /\ history' = [history EXCEPT !.afterTrip = IF ks.tripped THEN @ + 1 ELSE @]
      BY <2>3 DEF RouteOrder, LoopIdle, EndCycle, control
    <3>2. ks.tripped => history'.afterTrip = history.afterTrip + 1
      BY <1>1, <3>1 DEF Histories
    <3> QED
      BY <1>1, <3>1, <3>2 DEF TripInv
  <2>4. CASE RunOnce \/ RecordCommand \/ ReconcileOnce
    <3>1. UNCHANGED ks /\ (loop' = loop \/ loop' # "checked")
      BY <2>4 DEF RunOnce, RecordCommand, ReconcileOnce, control, cycle
    <3>2. history'.afterTrip = history.afterTrip
      BY <1>1, <2>4 DEF Histories, RunOnce, RecordCommand, ReconcileOnce
    <3> QED
      BY <3>1, <3>2 DEF TripInv
  <2>5. CASE CheckOrder
    BY <2>5 DEF TripInv, CheckOrder, LoopIdle, EndCycle, control
  <2>6. CASE RunForever \/ Abstain \/ Decide \/ FinishCycle \/ Exit \/ \E t \in Threads : AppendRaises(t)
    <3>1. UNCHANGED <<ks, history>> /\ (loop' = loop \/ loop' # "checked")
      BY <2>6 DEF RunForever, Abstain, Decide, FinishCycle, Exit, AppendRaises, EndCycle, control
    <3> QED
      BY <3>1 DEF TripInv
  <2>7. CASE SyncDashboardControl \/ OwnerControl \/ AccountChanges \/ (\E k \in Keys : Execute(k)) \/ ApiRestart
    BY <1>2, <2>7 DEF SyncDashboardControl, OwnerControl, AccountChanges, Execute, ApiRestart, control, cycle
  <2>8. CASE Restart
    <3>1. loop' = "init" /\ history' = [history EXCEPT !.afterTrip = 0]
      BY <2>8 DEF Restart
    <3>2. history'.afterTrip = 0
      BY <1>1, <3>1 DEF Histories
    <3> QED
      BY <3>1, <3>2 DEF TripInv
  <2> QED
    BY <2>1, <2>2, <2>3, <2>4, <2>5, <2>6, <2>7, <2>8 DEF Step, LoopStep
<1>4. CASE UNCHANGED vars
  BY <1>2, <1>4 DEF vars, state
<1> QED
  BY <1>3, <1>4

---------------------------------------------------------------------------
(* A cycle that began under a halt *)

\* Something still to run, or done, keeps the cycle from trading.
Stopping ==
    \/ Doing("loop", "sync") /\ StandingCommand(incidents) = "halt_paper"
    \/ Doing("loop", "trip") \/ Doing("loop", "set") \/ ks.tripped
    \/ Bound /\ Doing("api", "set")

CycleStops == loop = "cycle" /\ history.underHalt => Stopping

\* Between the row of a trip or reset of the API and its attribute no command stands:
\* only the API writes commands.
NothingStands == Doing("api", "set") \/ Doing("api", "unset") => ~ Standing(incidents)

\* A reset inside a cycle under a halt ends what the cycle is under with its row, so
\* none is between row and attribute.
NoResetUnderHalt ==
    loop \in {"cycle", "trading", "checked"} /\ history.underHalt => \A t \in Threads : ~ Doing(t, "unset")

HaltInv == OwnerThread = "loop" => CycleStops /\ NothingStands /\ NoResetUnderHalt /\ NoCycleTradesUnderHalt

\* Thread t goes on to something that is no attribute: nothing that stops the cycle is lost.
LEMMA HaltKept ==
    ASSUME Threaded, HaltInv, UNCHANGED <<deployment, incidents>>, NEW t \in Threads,
           \A u \in Threads \ {t} : pending'[u] = pending[u],
           \A op \in {"set", "unset"} : ~ Doing(t, op)',
           loop' = loop \/ loop' \notin {"cycle", "trading", "checked"},
           history'.underHalt = history.underHalt,
           ks'.tripped \/ (UNCHANGED ks /\ \A op \in {"sync", "trip", "set"} : ~ Doing(t, op))
    PROVE  HaltInv'
<1>1. CASE OwnerThread # "loop"
  BY <1>1 DEF HaltInv, OwnerThread
<1>2. CASE OwnerThread = "loop"
  <2>1. CycleStops /\ NothingStands /\ NoResetUnderHalt /\ NoCycleTradesUnderHalt
    BY <1>2 DEF HaltInv
  <2>2. ASSUME NEW u \in Threads, NEW op, u # t PROVE Doing(u, op)' <=> Doing(u, op)
    BY <2>2 DEF Doing
  <2>3. "loop" \in Threads /\ "api" \in Threads
    BY DEF Threads
  <2>4. Stopping => Stopping'
    <3>1. CASE ks'.tripped
      BY <3>1 DEF Stopping
    <3>2. CASE ~ ks'.tripped
      <4>1. UNCHANGED ks /\ ~ Doing(t, "sync") /\ ~ Doing(t, "trip") /\ ~ Doing(t, "set")
        BY <3>2
      <4>2. CASE t = "loop"
        BY <2>2, <2>3, <4>1, <4>2 DEF Stopping, Bound
      <4>3. CASE t = "api"
        BY <2>2, <2>3, <4>1, <4>3 DEF Stopping, Bound
      <4>4. CASE t \notin {"loop", "api"}
        BY <2>2, <2>3, <4>1, <4>4 DEF Stopping, Bound
      <4> QED
        BY <4>2, <4>3, <4>4
    <3> QED
      BY <3>1, <3>2
  <2>5. CycleStops'
    BY <2>1, <2>4 DEF CycleStops
  <2>6. NothingStands'
    BY <2>1, <2>2, <2>3 DEF NothingStands
  <2>7. NoResetUnderHalt'
    BY <2>1, <2>2 DEF NoResetUnderHalt
  <2>8. NoCycleTradesUnderHalt'
    <3>1. ks.tripped \/ Doing("api", "set") => ks'.tripped \/ Doing("api", "set")'
      BY <2>2, <2>3
    <3> QED
      BY <2>1, <3>1 DEF NoCycleTradesUnderHalt, Bound, OwnerThread
  <2> QED
    BY <2>5, <2>6, <2>7, <2>8 DEF HaltInv
<1> QED
  BY <1>1, <1>2

\* One operation of a thread on the switch.
LEMMA ThreadHalt ==
    ASSUME Threaded, HaltInv, NEW t \in Threads, ThreadStep(t), UNCHANGED deployment
    PROVE  HaltInv'
<1>1. UNCHANGED loop /\ history \in Histories /\ incidents \in Seq(Rows) /\ pending[t] # <<>>
  BY DEF ThreadStep, Trip, SetTripped, Reset, ClearTripped, SetStop, cycle, Threaded, Types, Doing
<1>2. ASSUME Continue(t, <<>>)
      PROVE  /\ \A u \in Threads \ {t} : pending'[u] = pending[u]
             /\ \A op \in {"set", "unset"} : ~ Doing(t, op)'
  BY <1>1, <1>2, AfterPop
<1>3. CASE Trip(t)
  <2> DEFINE reason == Head(pending[t]).arg
  <2>1. Doing(t, "trip") /\ UNCHANGED <<ks, history>>
    BY <1>3 DEF Trip
  <2>2. CASE ks = On(reason)
    <3>1. Continue(t, <<>>) /\ UNCHANGED incidents
      BY <1>3, <2>2 DEF Trip
    <3>2. ks'.tripped /\ history'.underHalt = history.underHalt
      BY <2>1, <2>2 DEF On
    <3> QED
      BY <1>1, <1>2, <3>1, <3>2, HaltKept
  <2>3. CASE ks # On(reason)
    <3>1. incidents' = Append(incidents, Row("kill_switch_tripped", reason)) /\ Continue(t, <<Op("set", reason, "")>>)
      BY <1>3, <2>3 DEF Trip, Append_
    <3>2. reason \in Args
      BY <1>1, HeadFields
    <3>3. Row("kill_switch_tripped", reason) \in Rows /\ Row("kill_switch_tripped", reason).type \in Security
      BY <3>2, RowType DEF Threaded, Security
    <3>4. ~ Standing(incidents')
      BY <1>1, <3>1, <3>3, StandingAppend
    <3>5. Op("set", reason, "") \in Ops /\ Op("set", reason, "").op = "set"
      BY <3>2 DEF Op, Ops
    <3>6. /\ pending'[t] # <<>> /\ Head(pending'[t]) = Op("set", reason, "")
          /\ \A u \in Threads \ {t} : pending'[u] = pending[u]
      BY <2>1, <3>1, <3>5, AfterWrite
    <3>7. Doing(t, "set")' /\ ~ Doing(t, "unset")'
      BY <3>5, <3>6 DEF Doing
    <3>8. CASE OwnerThread # "loop"
      BY <3>8 DEF HaltInv, OwnerThread
    <3>9. CASE OwnerThread = "loop"
      <4>1. CycleStops /\ NothingStands /\ NoResetUnderHalt /\ NoCycleTradesUnderHalt
        BY <3>9 DEF HaltInv
      <4>2. t # "owner"
        BY <1>1, <3>9, Writers
      <4>3. t = "api" => Bound
        <5>1. t = "api" /\ ~ Bound => Head(pending[t]).op = "record"
          BY <1>1, HeadFields DEF MayRun
        <5> QED
          BY <2>1, <5>1 DEF Doing
      <4>4. t = "loop" \/ (t = "api" /\ Bound)
        BY <4>2, <4>3 DEF Threads
      <4>5. CycleStops'
        BY <3>7, <4>4 DEF CycleStops, Stopping, Bound
      <4>6. NothingStands'
        BY <3>4 DEF NothingStands
      <4>7. NoResetUnderHalt'
        <5>1. ASSUME NEW u \in Threads, u # t PROVE Doing(u, "unset")' <=> Doing(u, "unset")
          BY <3>6, <5>1 DEF Doing
        <5> QED
          BY <1>1, <2>1, <3>7, <4>1, <5>1 DEF NoResetUnderHalt
      <4>8. NoCycleTradesUnderHalt'
        <5>1. loop \in {"trading", "checked"} => t # "loop"
          BY <1>1 DEF Threaded
        <5> QED
          BY <1>1, <3>7, <4>4, <5>1 DEF NoCycleTradesUnderHalt, Bound
      <4> QED
        BY <4>5, <4>6, <4>7, <4>8 DEF HaltInv
    <3> QED
      BY <3>8, <3>9
  <2> QED
    BY <2>2, <2>3
<1>4. CASE SetTripped(t)
  <2>1. /\ ks' = On(Head(pending[t]).arg) /\ Continue(t, <<>>) /\ UNCHANGED incidents
        /\ history' = history \/ history' = [history EXCEPT !.afterTrip = 0]
    BY <1>4 DEF SetTripped
  <2>2. ks'.tripped /\ history'.underHalt = history.underHalt
    BY <1>1, <2>1 DEF On, Histories
  <2> QED
    BY <1>1, <1>2, <2>1, <2>2, HaltKept
<1>5. CASE Reset(t)
  <2>1. Doing(t, "reset") /\ UNCHANGED ks
    BY <1>5 DEF Reset
  <2>2. CASE ~ ks.tripped
    <3>1. Continue(t, <<>>) /\ UNCHANGED <<incidents, history>>
      BY <1>5, <2>2 DEF Reset
    <3>2. \A op \in {"sync", "trip", "set"} : ~ Doing(t, op)
      BY <2>1 DEF Doing
    <3> QED
      BY <1>1, <1>2, <2>1, <3>1, <3>2, HaltKept
  <2>3. CASE ks.tripped
    <3>1. /\ incidents' = Append(incidents, Row("kill_switch_reset", ""))
          /\ history' = [history EXCEPT !.underHalt = FALSE]
      BY <1>5, <2>3 DEF Reset, Append_
    <3>2. "" \in Args
      BY DEF Args
    <3>3. Row("kill_switch_reset", "") \in Rows /\ Row("kill_switch_reset", "").type \in Security
      BY <3>2, RowType DEF Threaded, Security
    <3>4. ~ Standing(incidents') /\ ~ history'.underHalt
      BY <1>1, <3>1, <3>3, StandingAppend DEF Histories
    <3> QED
      BY <3>4 DEF HaltInv, CycleStops, NothingStands, NoResetUnderHalt, NoCycleTradesUnderHalt
  <2> QED
    BY <2>2, <2>3
<1>6. CASE ClearTripped(t)
  <2>1. Doing(t, "unset") /\ Continue(t, <<>>) /\ UNCHANGED <<incidents, history>>
    BY <1>6 DEF ClearTripped
  <2>2. CASE OwnerThread # "loop"
    BY <2>2 DEF HaltInv, OwnerThread
  <2>3. CASE OwnerThread = "loop"
    <3>1. NothingStands /\ NoResetUnderHalt
      BY <2>3 DEF HaltInv
    <3>2. ~ (loop' \in {"cycle", "trading", "checked"} /\ history'.underHalt)
      BY <1>1, <2>1, <3>1 DEF NoResetUnderHalt
    <3>3. NothingStands'
      <4>1. "api" \in Threads
        BY DEF Threads
      <4>2. Doing("api", "set")' \/ Doing("api", "unset")' => Doing("api", "set") \/ Doing("api", "unset")
        BY <1>2, <2>1, <4>1 DEF Doing
      <4> QED
        BY <2>1, <3>1, <4>2 DEF NothingStands
    <3> QED
      BY <3>2, <3>3 DEF HaltInv, CycleStops, NoResetUnderHalt, NoCycleTradesUnderHalt
  <2> QED
    BY <2>2, <2>3
<1>7. CASE SetStop(t)
  <2>1. Continue(t, <<>>) /\ UNCHANGED <<incidents, ks, history>> /\ (Doing(t, "stop") \/ Doing(t, "clear"))
    BY <1>7 DEF SetStop
  <2>2. \A op \in {"sync", "trip", "set"} : ~ Doing(t, op)
    BY <2>1 DEF Doing
  <2> QED
    BY <1>1, <1>2, <2>1, <2>2, HaltKept
<1> QED
  BY <1>3, <1>4, <1>5, <1>6, <1>7 DEF ThreadStep

\* A command is recorded: an accepted halt stands, an accepted resume ends the halt.
LEMMA RecordHalt ==
    ASSUME Threaded, HaltInv, RecordCommand, UNCHANGED deployment, OwnerThread = "loop"
    PROVE  HaltInv'
<1> DEFINE k == Head(pending["api"]).arg
           status == Head(pending["api"]).status
           type == IF status = "accepted" THEN Command[k] ELSE "rejected"
<1>1. /\ Doing("api", "record") /\ pending["api"] # <<>> /\ UNCHANGED <<ks, loop>>
      /\ incidents' = Append(incidents, Row(type, k)) /\ Continue("api", <<>>)
      /\ history' = [history EXCEPT !.mismatch = FALSE,
               !.underHalt = @ /\ ~(status = "accepted" /\ Command[k] = "resume_paper")]
  BY DEF RecordCommand, Doing, Append_, cycle
<1>2. "api" \in Threads /\ "loop" \in Threads /\ history \in Histories /\ incidents \in Seq(Rows)
  BY DEF Threads, Threaded, Types
<1>3. k \in Keys /\ k \in Args /\ status \in {"accepted", "rejected"}
  BY <1>1, <1>2, HeadFields DEF MayRun, Args, Doing
<1>4. type \in Accepted \cup {"rejected"}
  BY <1>3, ControlAssumption DEF Accepted
<1>5. Row(type, k) \in Rows /\ Row(type, k).type = type
  BY <1>3, <1>4, RowType DEF Threaded
<1>6. history'.underHalt = (history.underHalt /\ ~(status = "accepted" /\ Command[k] = "resume_paper"))
  BY <1>1, <1>2 DEF Histories
<1>7. history'.underHalt => history.underHalt /\ type # "resume_paper"
  BY <1>6
<1>8. /\ ~ Doing("api", "set") /\ ~ Doing("api", "set")' /\ ~ Doing("api", "unset")'
      /\ \A u \in Threads \ {"api"} : pending'[u] = pending[u]
  <2>1. /\ \A op \in {"set", "unset", "trip", "reset", "sync"} : ~ Doing("api", op)'
        /\ \A u \in Threads \ {"api"} : pending'[u] = pending[u]
    BY <1>1, <1>2, AfterPop
  <2>2. ~ Doing("api", "set")
    BY <1>1 DEF Doing
  <2> QED
    BY <2>1, <2>2
<1>9. CycleStops /\ NothingStands /\ NoResetUnderHalt /\ NoCycleTradesUnderHalt
  BY DEF HaltInv
<1>10. pending'["loop"] = pending["loop"]
  BY <1>2, <1>8
<1>11. history'.underHalt /\ StandingCommand(incidents) = "halt_paper" => StandingCommand(incidents') = "halt_paper"
  <2>1. CASE type = "rejected"
    <3>1. StandingCommand(incidents') = StandingCommand(incidents)
      BY <1>1, <1>2, <1>5, <2>1, StandingAppend
    <3> QED
      BY <3>1
  <2>2. CASE type \in Accepted
    <3>1. StandingCommand(incidents') = type
      BY <1>1, <1>2, <1>5, <2>2, StandingAppend
    <3> QED
      BY <1>7, <2>2, <3>1 DEF Accepted
  <2> QED
    BY <1>4, <2>1, <2>2
<1>12. CycleStops'
  BY <1>1, <1>7, <1>8, <1>9, <1>10, <1>11 DEF CycleStops, Stopping, Doing
<1>13. NothingStands'
  BY <1>8 DEF NothingStands
<1>14. NoResetUnderHalt'
  <2>1. ASSUME NEW u \in Threads, u # "api" PROVE Doing(u, "unset")' <=> Doing(u, "unset")
    BY <1>8, <2>1 DEF Doing
  <2> QED
    BY <1>1, <1>7, <1>8, <1>9, <2>1 DEF NoResetUnderHalt
<1>15. NoCycleTradesUnderHalt'
  BY <1>1, <1>7, <1>8, <1>9 DEF NoCycleTradesUnderHalt, Bound, OwnerThread
<1> QED
  BY <1>12, <1>13, <1>14, <1>15 DEF HaltInv

\* A cycle begins, and goes from step to step.
LEMMA LoopHalt ==
    ASSUME Threaded, HaltInv, UNCHANGED deployment, OwnerThread = "loop",
           SyncDashboardControl \/ RunOnce \/ RunForever \/ Abstain \/ Decide \/ CheckOrder \/ RouteOrder \/ FinishCycle
    PROVE  HaltInv'
<1>1. CycleStops /\ NothingStands /\ NoResetUnderHalt /\ NoCycleTradesUnderHalt
  BY DEF HaltInv
<1>2. "api" \in Threads /\ "loop" \in Threads /\ history \in Histories /\ pending["owner"] = <<>>
      /\ pending \in [Threads -> Seq(Ops)]
  BY Writers DEF Threads, Threaded, Types
<1>3. ASSUME pending'["api"] = pending["api"], UNCHANGED incidents PROVE NothingStands'
  BY <1>1, <1>3 DEF NothingStands, Doing
<1>4. CASE SyncDashboardControl
  <2>1. /\ \A t \in Threads \ {"loop"} : pending'[t] = pending[t]
        /\ UNCHANGED <<incidents, ks, loop, history>> /\ pending["loop"] # <<>>
    BY <1>4, SyncRuns
  <2>2. /\ Doing("loop", "sync") /\ \A op \in {"set", "unset"} : ~ Doing("loop", op)'
        /\ StandingCommand(incidents) = "halt_paper" => Doing("loop", "trip")'
    BY <1>4, SyncHeads
  <2>3. ~ Doing("loop", "trip") /\ ~ Doing("loop", "set")
    BY <2>2 DEF Doing
  <2>4. Doing("api", "set")' <=> Doing("api", "set")
    BY <1>2, <2>1 DEF Doing
  <2>5. CycleStops'
    BY <1>1, <2>1, <2>2, <2>3, <2>4 DEF CycleStops, Stopping, Bound
  <2>6. NoResetUnderHalt'
    <3>1. ASSUME NEW u \in Threads, u # "loop" PROVE Doing(u, "unset")' <=> Doing(u, "unset")
      BY <2>1, <3>1 DEF Doing
    <3> QED
      BY <1>1, <2>1, <2>2, <3>1 DEF NoResetUnderHalt
  <2>7. NoCycleTradesUnderHalt'
    BY <1>1, <2>1, <2>4 DEF NoCycleTradesUnderHalt, Bound, OwnerThread
  <2>8. NothingStands'
    BY <1>2, <1>3, <2>1
  <2> QED
    BY <2>5, <2>6, <2>7, <2>8 DEF HaltInv
<1>5. CASE RunOnce
  <2>1. /\ pending["loop"] = <<>> /\ UNCHANGED <<incidents, ks>>
        /\ history' = [history EXCEPT !.underHalt = ~stop /\ StandingCommand(incidents) = "halt_paper"]
        /\ \/ stop /\ loop' = "out" /\ UNCHANGED pending
           \/ ~ stop /\ loop' = "cycle" /\ pending' = [pending EXCEPT !["loop"] = <<Op("sync", "", "")>>]
    BY <1>5 DEF RunOnce, LoopIdle, control
  <2>2. history'.underHalt => StandingCommand(incidents) = "halt_paper"
    BY <1>2, <2>1 DEF Histories
  <2>3. \A t \in Threads \ {"loop"} : pending'[t] = pending[t]
    BY <1>2, <2>1
  <2>4. NothingStands'
    BY <1>2, <1>3, <2>1, <2>3
  <2>5. loop' = "cycle" => Doing("loop", "sync")'
    <3>1. loop' = "cycle" => pending'["loop"] = <<Op("sync", "", "")>>
      BY <1>2, <2>1
    <3> QED
      BY <3>1, NewSync DEF Doing
  <2>6. CycleStops'
    BY <2>1, <2>2, <2>5 DEF CycleStops, Stopping
  <2>7. NoResetUnderHalt'
    <3>1. history'.underHalt => Standing(incidents)
      BY <2>2 DEF StandingCommand
    <3>2. history'.underHalt => ~ Doing("api", "unset")
      BY <1>1, <3>1 DEF NothingStands
    <3>3. ~ Doing("owner", "unset")
      BY <1>2 DEF Doing
    <3>4. ~ Doing("api", "unset") /\ ~ Doing("owner", "unset") => ~ Doing("api", "unset")' /\ ~ Doing("owner", "unset")'
      BY <2>3 DEF Doing, Threads
    <3>5. loop' = "cycle" => ~ Doing("loop", "unset")'
      BY <2>5 DEF Doing
    <3>6. loop' \in {"cycle", "out"}
      BY <2>1
    <3> QED
      BY <3>2, <3>3, <3>4, <3>5, <3>6 DEF NoResetUnderHalt, Threads
  <2>8. NoCycleTradesUnderHalt'
    BY <2>1 DEF NoCycleTradesUnderHalt
  <2> QED
    BY <2>4, <2>6, <2>7, <2>8 DEF HaltInv
<1>6. CASE RunForever \/ Abstain \/ FinishCycle
  <2>1. UNCHANGED <<incidents, pending>> /\ loop' \in {"head", "out"}
    BY <1>6 DEF RunForever, Abstain, FinishCycle, EndCycle, control
  <2> QED
    BY <1>3, <2>1 DEF HaltInv, CycleStops, NoResetUnderHalt, NoCycleTradesUnderHalt
<1>7. CASE Decide
  <2>1. /\ loop = "cycle" /\ loop' = "trading" /\ pending["loop"] = <<>> /\ ~ ks.tripped
        /\ UNCHANGED <<incidents, ks, pending, history>>
    BY <1>7 DEF Decide, LoopIdle, control
  <2>2. history.underHalt => Bound /\ Doing("api", "set")
    BY <1>1, <2>1 DEF CycleStops, Stopping, Doing
  <2>3. NoCycleTradesUnderHalt'
    BY <2>1, <2>2 DEF NoCycleTradesUnderHalt, Bound, OwnerThread, Doing
  <2>4. NoResetUnderHalt'
    BY <1>1, <2>1 DEF NoResetUnderHalt, Doing
  <2> QED
    BY <1>3, <2>1, <2>3, <2>4 DEF HaltInv, CycleStops
<1>8. CASE CheckOrder \/ RouteOrder
  <2>1. /\ loop \in {"trading", "checked"} /\ loop' # "cycle"
        /\ UNCHANGED <<incidents, ks, pending>>
        /\ UNCHANGED history \/ history' = [history EXCEPT !.afterTrip = IF ks.tripped THEN @ + 1 ELSE @]
    BY <1>8 DEF CheckOrder, RouteOrder, LoopIdle, EndCycle, control
  <2>2. history'.underHalt = history.underHalt
    BY <1>2, <2>1 DEF Histories
  <2>3. NoCycleTradesUnderHalt'
    BY <1>1, <2>1, <2>2 DEF NoCycleTradesUnderHalt, Bound, OwnerThread, Doing
  <2>4. NoResetUnderHalt'
    BY <1>1, <2>1, <2>2 DEF NoResetUnderHalt, Doing
  <2> QED
    BY <1>3, <2>1, <2>3, <2>4 DEF HaltInv, CycleStops
<1> QED
  BY <1>4, <1>5, <1>6, <1>7, <1>8

\* Every step keeps the halt over the loop.
LEMMA StepHalt ==
    ASSUME Threaded, HaltInv, [Next]_vars
    PROVE  HaltInv'
<1>1. UNCHANGED deployment
  BY DEF Next, vars
<1>2. CASE OwnerThread # "loop"
  BY <1>1, <1>2 DEF HaltInv, OwnerThread
<1>3. CASE OwnerThread = "loop" /\ Next
  <2>1. /\ "api" \in Threads /\ "loop" \in Threads /\ history \in Histories
        /\ pending \in [Threads -> Seq(Ops)] /\ Step
    BY <1>3 DEF Threads, Threaded, Types, Next
  <2>2. CycleStops /\ NothingStands /\ NoResetUnderHalt /\ NoCycleTradesUnderHalt
    BY <1>3 DEF HaltInv
  <2>3. ASSUME pending'["api"] = pending["api"], UNCHANGED incidents PROVE NothingStands'
    BY <2>2, <2>3 DEF NothingStands, Doing
  <2>4. CASE \E t \in Threads : ThreadStep(t)
    BY <1>1, <2>4, ThreadHalt
  <2>5. CASE LoopStep \/ RunForever
    BY <1>1, <1>3, <2>5, LoopHalt DEF LoopStep
  <2>6. CASE RecordCommand
    BY <1>1, <1>3, <2>6, RecordHalt
  <2>7. CASE OwnerControl \/ ReconcileOnce
    <3>1. /\ UNCHANGED <<incidents, loop>> /\ loop \in {"head", "out"}
          /\ \A t \in Threads \ {"loop"} : pending'[t] = pending[t]
      BY <1>1, <1>3, <2>7, OwnerHeads
    <3> QED
      BY <2>1, <2>3, <3>1 DEF HaltInv, CycleStops, NoResetUnderHalt, NoCycleTradesUnderHalt
  <2>8. CASE AccountChanges
    <3>1. UNCHANGED <<incidents, ks, loop, pending, history>>
      BY <2>8 DEF AccountChanges, control, cycle
    <3> QED
      BY <1>1, <2>2, <3>1 DEF HaltInv, CycleStops, Stopping, NothingStands, NoResetUnderHalt,
                               NoCycleTradesUnderHalt, Doing, Bound, OwnerThread
  <2>9. CASE \E k \in Keys : Execute(k)
    <3>0. PICK k \in Keys : Execute(k)
      BY <2>9
    <3>1. PICK ops :
             /\ pending' = [pending EXCEPT !["api"] = ops] /\ pending["api"] = <<>>
             /\ \/ ops \in {<<Record(k, "rejected")>>, <<>> \o <<Record(k, "accepted")>>}
                \/ ops \in {HaltOps(k) \o <<Record(k, "accepted")>>, ResumeOps \o <<Record(k, "accepted")>>}
      BY <3>0 DEF Execute
    <3>2. UNCHANGED <<incidents, ks, loop, history>>
      BY <2>9 DEF Execute, control, cycle
    <3>3. Head(ops).op \in {"record", "trip", "reset"}
      <4>1. /\ Head(<<Record(k, "rejected")>>) = Record(k, "rejected")
            /\ Head(<<>> \o <<Record(k, "accepted")>>) = Record(k, "accepted")
        OBVIOUS
      <4>2. \A status : Record(k, status).op = "record"
        BY DEF Record, Op
      <4>3. ASSUME NEW o, NEW p, NEW q PROVE Head(<<o, p>> \o <<q>>) = o
        OBVIOUS
      <4>4. Op("trip", k, "").op = "trip" /\ Op("reset", "", "").op = "reset"
        BY DEF Op
      <4>5. Head(HaltOps(k) \o <<Record(k, "accepted")>>).op = "trip"
        BY <4>3, <4>4 DEF HaltOps
      <4>6. Head(ResumeOps \o <<Record(k, "accepted")>>).op = "reset"
        BY <4>3, <4>4 DEF ResumeOps
      <4> QED
        BY <3>1, <4>1, <4>2, <4>5, <4>6
    <3>4. pending'["api"] = ops /\ \A u \in Threads \ {"api"} : pending'[u] = pending[u]
      BY <2>1, <3>1
    <3>5. \A op \in {"set", "unset"} : ~ Doing("api", op)'
      BY <3>3, <3>4 DEF Doing
    <3>6. \A op \in {"sync", "trip", "set"} : ~ Doing("api", op)
      BY <3>1 DEF Doing
    <3> QED
      BY <1>1, <2>1, <3>2, <3>4, <3>5, <3>6, HaltKept
  <2>10. CASE \E t \in Threads : AppendRaises(t)
    <3>1. PICK t \in Threads : AppendRaises(t)
      BY <2>10
    <3> DEFINE ops == IF t = "api" /\ Doing(t, "reset") THEN <<Record(Last(pending[t]).arg, "rejected")>> ELSE <<>>
    <3>2. /\ pending' = [pending EXCEPT ![t] = ops] /\ UNCHANGED <<incidents, ks, history>>
          /\ Doing(t, "trip") \/ Doing(t, "reset") \/ Doing(t, "record")
      BY <3>1 DEF AppendRaises, control
    <3>3. ops # <<>> => Head(ops).op = "record"
      <4>1. ASSUME NEW arg PROVE Head(<<Record(arg, "rejected")>>) = Record(arg, "rejected")
        OBVIOUS
      <4>2. \A arg : Record(arg, "rejected").op = "record"
        BY DEF Record, Op
      <4> QED
        BY <4>1, <4>2
    <3>4. pending'[t] = ops /\ \A u \in Threads \ {t} : pending'[u] = pending[u]
      BY <2>1, <3>2
    <3>5. \A op \in {"set", "unset"} : ~ Doing(t, op)'
      BY <3>3, <3>4 DEF Doing
    <3>6. loop' = loop \/ loop' \notin {"cycle", "trading", "checked"}
      BY <3>1 DEF AppendRaises
    <3>7. CASE ~ Doing(t, "trip")
      <4>1. \A op \in {"sync", "trip", "set"} : ~ Doing(t, op)
        BY <3>2, <3>7 DEF Doing
      <4> QED
        BY <1>1, <3>2, <3>4, <3>5, <3>6, <4>1, HaltKept
    <3>8. CASE Doing(t, "trip")
      <4>1. t # "owner" /\ t \in {"loop", "api"}
        BY <1>3, <3>8, Writers DEF Threads, Doing
      <4>2. CASE t = "loop"
        <5>1. loop \notin {"trading", "checked"}
          BY <3>8, <4>2 DEF Threaded, Doing
        <5>2. loop' \notin {"cycle", "trading", "checked"}
          BY <3>1, <4>2, <5>1 DEF AppendRaises
        <5>3. NothingStands'
          BY <2>1, <2>3, <3>2, <3>4, <4>2
        <5> QED
          BY <5>2, <5>3 DEF HaltInv, CycleStops, NoResetUnderHalt, NoCycleTradesUnderHalt
      <4>3. CASE t = "api"
        <5>1. ~ Doing("api", "set")
          BY <3>8, <4>3 DEF Doing
        <5>2. Doing("loop", "sync")' = Doing("loop", "sync") /\ Doing("loop", "trip")' = Doing("loop", "trip")
              /\ Doing("loop", "set")' = Doing("loop", "set")
          BY <2>1, <3>4, <4>3 DEF Doing
        <5>3. UNCHANGED loop
          BY <3>1, <4>3 DEF AppendRaises
        <5>4. CycleStops'
          BY <2>2, <3>2, <5>1, <5>2, <5>3 DEF CycleStops, Stopping
        <5>5. NothingStands'
          BY <3>5, <4>3 DEF NothingStands
        <5>6. NoResetUnderHalt'
          <6>1. ASSUME NEW u \in Threads, u # t PROVE Doing(u, "unset")' <=> Doing(u, "unset")
            BY <3>4, <6>1 DEF Doing
          <6> QED
            BY <2>2, <3>2, <3>5, <5>3, <6>1 DEF NoResetUnderHalt
        <5>7. NoCycleTradesUnderHalt'
          BY <1>1, <2>2, <3>2, <5>1, <5>3 DEF NoCycleTradesUnderHalt, Bound, OwnerThread
        <5> QED
          BY <5>4, <5>5, <5>6, <5>7 DEF HaltInv
      <4> QED
        BY <4>1, <4>2, <4>3
    <3> QED
      BY <3>7, <3>8
  <2>11. CASE Exit \/ Restart
    <3>1. loop' \in {"down", "init"} /\ UNCHANGED incidents /\ pending'["api"] \in {pending["api"], <<>>}
      BY <2>1, <2>11 DEF Exit, Restart, control
    <3>2. NothingStands'
      BY <2>2, <3>1 DEF NothingStands, Doing
    <3> QED
      BY <3>1, <3>2 DEF HaltInv, CycleStops, NoResetUnderHalt, NoCycleTradesUnderHalt
  <2>12. CASE ApiRestart
    <3>1. /\ pending'["api"] = <<>> /\ (\A u \in Threads \ {"api"} : pending'[u] = pending[u])
          /\ UNCHANGED <<incidents, ks, loop, history>> /\ ~ Bound
      BY <2>1, <2>12 DEF ApiRestart, control, cycle
    <3>2. \A op \in {"sync", "trip", "set"} : ~ Doing("api", op)
      BY <1>3, <3>1, Writers DEF Doing
    <3>3. \A op \in {"set", "unset"} : ~ Doing("api", op)'
      BY <3>1 DEF Doing
    <3> QED
      BY <1>1, <2>1, <3>1, <3>2, <3>3, HaltKept
  <2> QED
    BY <2>1, <2>4, <2>5, <2>6, <2>7, <2>8, <2>9, <2>10, <2>11, <2>12 DEF Step
<1>4. CASE UNCHANGED vars
  <2>1. UNCHANGED <<incidents, ks, loop, pending, history, deployment>>
    BY <1>4 DEF vars, state
  <2> QED
    BY <2>1 DEF HaltInv, CycleStops, Stopping, NothingStands, NoResetUnderHalt,
                NoCycleTradesUnderHalt, Doing, Bound, OwnerThread
<1> QED
  BY <1>2, <1>3, <1>4

---------------------------------------------------------------------------
(* The theorems *)

Inv == Threaded /\ SwitchInv /\ TripInv /\ HaltInv

\* What a thread has to run, the switch, the orders of a trip and the cycle under a halt
\* keep their invariants (PaperRuntime, KillSwitch, DashboardProjection.execute).
THEOREM InvHolds == Spec => []Inv
<1>1. ASSUME Init PROVE Inv
  <2>1. /\ ks = Off /\ incidents = <<>> /\ loop = "head" /\ pending = [t \in Threads |-> <<>>]
        /\ history.underHalt = FALSE
    BY <1>1 DEF Init
  <2>2. Threaded
    BY <1>1, InitThreaded
  <2>3. \A t \in {"loop", "api", "owner"} : \A op : ~ Doing(t, op)
    BY <2>1 DEF Doing, Threads
  <2>4. Hydrate(incidents) = Off
    <3>1. DOMAIN incidents = {}
      BY <2>1
    <3>2. Latest(incidents, Security) \in 0..Len(incidents) /\ Len(incidents) = 0
      BY <2>1, <2>2, LatestIsRow DEF Threaded, Types
    <3> QED
      BY <3>2 DEF Hydrate
  <2>5. SwitchInv
    BY <2>1, <2>3, <2>4 DEF SwitchInv
  <2>6. TripInv
    BY <2>1 DEF TripInv, Off
  <2>7. HaltInv
    BY <2>1, <2>3 DEF HaltInv, CycleStops, NothingStands, NoResetUnderHalt, NoCycleTradesUnderHalt
  <2> QED
    BY <2>2, <2>5, <2>6, <2>7 DEF Inv
<1>2. ASSUME Inv, [Next]_vars PROVE Inv'
  BY <1>2, StepThreaded, StepSwitch, StepTrip, StepHalt DEF Inv
<1> QED
  BY <1>1, <1>2, PTL DEF Spec

\* Outside trip and reset, the switch of a runtime that alone writes it is the one a
\* restart would rebuild from the incident ledger (KillSwitch._hydrate).
THEOREM SwitchMatchesLedgerTheorem == Spec => []SwitchMatchesLedger
<1>1. Inv => SwitchMatchesLedger
  <2>1. "loop" \in Threads
    BY DEF Threads
  <2> QED
    BY <2>1 DEF Inv, SwitchInv, SwitchMatchesLedger
<1> QED
  BY <1>1, InvHolds, PTL

\* However many halts, resumes, trips, crashes and restarts there are: no cycle that
\* began under an accepted halt trades (but for the race of two halts the property
\* names), and at most one order follows a trip (PaperRuntime.run_once).
THEOREM HaltStopsTradingTheorem == Spec => []HaltStopsTrading
<1>1. Inv => NoCycleTradesUnderHalt
  BY DEF Inv, HaltInv, NoCycleTradesUnderHalt
<1>2. Inv => AtMostOneOrderAfterTrip
  BY DEF Inv, TripInv, AtMostOneOrderAfterTrip
<1>3. Inv => HaltStopsTrading
  BY <1>1, <1>2 DEF HaltStopsTrading
<1> QED
  BY <1>3, InvHolds, PTL
=============================================================================
