----------------------------- MODULE RiskBook -----------------------------
(***************************************************************************)
(* Portfolio construction and the risk kernel: a target is built from the  *)
(* account with its costs, evaluated against the hard limits and approved, *)
(* reduced by bisection or rejected; every order is checked again on its   *)
(* own before it is worked and filled.  Marks, vetoes and the account move *)
(* between those steps.                                                    *)
(***************************************************************************)
EXTENDS Integers, FiniteSets, Functions

CONSTANTS
    Instruments,
    Marks,          \* prices, multiples of 10 (costs are a tenth of the traded notional)
    Fees,           \* what a venue may charge for a fill
    Depth,          \* bisection steps of _reduced_target (48 in the code)
    MaxFills,       \* bound on the fills of a behaviour
    MaxWorking,     \* bound on the orders worked at once
    MaxMoves,       \* bound on the changes of marks and vetoes
    MaxEvents       \* bound on fills and changes together

ASSUME RiskConstants ==
    /\ IsFiniteSet(Instruments) /\ \A m \in Marks : m \in Nat /\ m % 10 = 0 /\ m > 0
    /\ Fees \subseteq Nat
    /\ Depth \in Nat \ {0} /\ MaxFills \in Nat /\ MaxMoves \in Nat /\ MaxEvents \in Nat

VARIABLES
    book,       \* [cash, pos, marks]: the account, with the marks it was last told
    market,     \* [marks, veto]: the market state given to the kernel
    decision,   \* the last risk decision, or NoDecision
    working,    \* approved orders not yet filled: [id, inst, qty, price, fresh]; fresh until
                \* an order fills or a mark changes after the check
    fills,      \* [count, since, fees]: the fills, how many of them followed the last one of a
                \* fresh order at unchanged marks, and the fees of those and of that one
    moves

riskVars == <<book, market, decision, working, fills, moves>>

\* A factor is a multiple of 2^-Depth, counted in units: the whole target is Unit of them.
Pow2[n \in 0..Depth] == IF n = 0 THEN 1 ELSE 2 * Pow2[n - 1]
Unit == Pow2[Depth]

\* A kill switch, stale or disagreed data, drift, an unclean reconciliation, an
\* unhealthy venue, an expired forecast and the remaining limits only veto.
Vetoes == {"kill_switch"}
NoDecision == [outcome |-> "none"]

\* The hard limits of the policy; concentration in percent, leverage as a factor.
Limit == [max_order |-> 40, max_turnover |-> 60, max_gross |-> 60, max_net |-> 50, max_position |-> 40,
          max_leverage |-> 2, max_concentration |-> 100, max_cash_deficit |-> 0]

Abs2(n) == IF n < 0 THEN -n ELSE n
Held(b) == { i \in Instruments : b.pos[i] # 0 }

\* AccountState.equity values positions at the account's own marks.
AccountEquity(b) == b.cash + SumFunctionOnSet([i \in Instruments |-> b.pos[i] * b.marks[i]], Instruments)
-----------------------------------------------------------------------------
(* TargetPortfolioBuilder.build: quantities asked for a set of instruments. *)

\* A trade inside the no-trade band is dropped.
NoTradeBand == 10
Wanted(b, m, ask) ==
    [i \in DOMAIN ask |-> IF Abs2(ask[i] - b.pos[i]) * m[i] <= NoTradeBand THEN b.pos[i] ELSE ask[i]]

\* The cash left by the trades and their expected cost, in units of 1/Unit.  k is
\* the factor the reduction scales both by.
CashTarget(b, m, want, k) ==
    LET delta == [i \in DOMAIN want |-> (want[i] - b.pos[i]) * m[i]]
        cost  == [i \in DOMAIN want |-> Abs2(delta[i]) \div 10]
    IN b.cash * Unit - k * (SumFunctionOnSet(delta, DOMAIN want) + SumFunctionOnSet(cost, DOMAIN want))

\* build refuses a target the account's cash cannot pay for.
Buildable(b, m, want) == CashTarget(b, m, want, Unit) >= 0
-----------------------------------------------------------------------------
(* RiskKernel.evaluate on a target scaled by k/Unit towards the account. *)

Scaled(b, want, k) == [i \in DOMAIN want |-> b.pos[i] * Unit + (want[i] - b.pos[i]) * k]
Notionals(q, m) == [i \in DOMAIN q |-> q[i] * m[i]]

\* Turnover and order size also count what the account holds outside the target,
\* as if it were sold; gross, net and position look at the target alone.
Change(b, m, n) == [i \in DOMAIN n \cup Held(b) |->
                       Abs2((IF i \in DOMAIN n THEN n[i] ELSE 0) - b.pos[i] * m[i] * Unit)]

GrossOf(n) == SumFunctionOnSet([i \in DOMAIN n |-> Abs2(n[i])], DOMAIN n)
NetOf(n) == Abs2(SumFunctionOnSet(n, DOMAIN n))

LimitReasons(b, m, want, k) ==
    LET n == Notionals(Scaled(b, want, k), m)
        change == Change(b, m, n)
        e == AccountEquity(b)
    IN {r \in {"max_order", "max_turnover", "max_gross", "max_net", "max_position", "max_leverage",
               "max_concentration", "max_cash_deficit"} :
           \/ r = "max_order" /\ \E i \in DOMAIN change : change[i] > Limit.max_order * Unit
           \/ r = "max_turnover" /\ SumFunctionOnSet(change, DOMAIN change) > Limit.max_turnover * Unit
           \/ r = "max_gross" /\ GrossOf(n) > Limit.max_gross * Unit
           \/ r = "max_net" /\ NetOf(n) > Limit.max_net * Unit
           \/ r = "max_position" /\ \E i \in DOMAIN n : Abs2(n[i]) > Limit.max_position * Unit
           \/ r = "max_leverage" /\ (IF e <= 0 THEN GrossOf(n) > 0 ELSE GrossOf(n) > Limit.max_leverage * e * Unit)
           \/ r = "max_concentration" /\ \E i \in DOMAIN n : Abs2(n[i]) * 100 > Limit.max_concentration * GrossOf(n)
           \/ r = "max_cash_deficit" /\ -CashTarget(b, m, want, k) > Limit.max_cash_deficit * Unit}

Reasons(b, mk, want, k) == mk.veto \cup LimitReasons(b, mk.marks, want, k)
Clean(b, mk, want, k) == Reasons(b, mk, want, k) = {}

Midpoint(b, mk, want, low, n) ==
    LET mid == low + Pow2[Depth - n] IN IF Clean(b, mk, want, mid) THEN mid ELSE low

BisectKeepsHigh(b, mk, want) ==
    LET low[n \in 0..Depth] == IF n = 0 THEN 0 ELSE Midpoint(b, mk, want, low[n - 1], n) IN low[Depth] + 1

\* The bisection: Depth halvings of the interval between no trade and the target.
Bisect(b, mk, want) ==
    LET low[n \in 0..Depth] == IF n = 0 THEN 0 ELSE Midpoint(b, mk, want, low[n - 1], n) IN low[Depth]

\* _reduced_target: only limits on exposure and cash can be reduced to, and only
\* when not trading at all is clean.
Reducible(b, mk, want) == mk.veto = {} /\ DOMAIN want # {} /\ Clean(b, mk, want, 0)

Outcome(b, mk, want) ==
    LET to(k) == Scaled(b, want, k)
    IN IF Clean(b, mk, want, Unit) THEN [outcome |-> "APPROVED", want |-> want, target |-> to(Unit)]
       ELSE IF Reducible(b, mk, want) /\ Bisect(b, mk, want) > 0
            THEN [outcome |-> "REDUCED", want |-> want, target |-> to(Bisect(b, mk, want))]
            ELSE [outcome |-> "REJECTED", want |-> want, target |-> to(0)]
-----------------------------------------------------------------------------
Unknown == -1     \* no fresh order has filled at these marks

RiskInit ==
    /\ \E held \in {0, 3} :
          book = [cash |-> 60, marks |-> [j \in Instruments |-> 10],
                  pos |-> [j \in Instruments |-> IF j = CHOOSE i \in Instruments : TRUE THEN held ELSE 0]]
    /\ market = [marks |-> [i \in Instruments |-> 10], veto |-> {}]
    /\ decision = NoDecision
    /\ working = {}
    /\ fills = [count |-> 0, since |-> Unknown, fees |-> 0]
    /\ moves = 0

Lots == {-2, 4}

\* One pass: build the target and evaluate it with reduction allowed.
Decide(ask) ==
    LET want == Wanted(book, market.marks, ask)
    IN /\ Buildable(book, market.marks, want)
       /\ decision' = Outcome(book, market, want)
       /\ UNCHANGED <<book, market, working, fills, moves>>

\* check_order: the account with this order filled, other holdings included and other
\* orders left out; a fee is not looked at.
AfterOrder(b, o) == [b.pos EXCEPT ![o.inst] = @ + o.qty]
WithinOrderLimitsAlone(b, m, o) ==
    LET n == Abs2(AfterOrder(b, o)[o.inst] * m[o.inst]) IN n <= Limit.max_gross /\ n <= Limit.max_position
WithinOrderLimits(b, m, o) ==
    LET n == Notionals(AfterOrder(b, o), m)
    IN /\ Abs2(o.qty) * o.price <= Limit.max_order
       /\ Abs2(n[o.inst]) <= Limit.max_position
       /\ GrossOf(n) <= Limit.max_gross
       /\ NetOf(n) <= Limit.max_net
       /\ AccountEquity(b) > 0
       /\ GrossOf(n) <= Limit.max_leverage * AccountEquity(b)
       /\ b.cash - o.qty * o.price >= -Limit.max_cash_deficit

CheckOrder(i) ==
    /\ decision.outcome \in {"APPROVED", "REDUCED"}
    /\ i \in DOMAIN decision.target
    /\ Cardinality(working) < MaxWorking
    /\ LET delta == decision.target[i] - book.pos[i] * Unit
           o == [id |-> CHOOSE k \in 1..MaxWorking : \A w \in working : w.id # k, inst |-> i, qty |-> IF delta >= 0 THEN delta \div Unit
                 ELSE -(-delta \div Unit), price |-> market.marks[i], fresh |-> TRUE]
       IN /\ o.qty # 0
          /\ market.veto = {}
          /\ WithinOrderLimits(book, market.marks, o)
          /\ working' = working \cup {o}
    /\ UNCHANGED <<book, market, decision, fills, moves>>

Stale(orders) == { [o EXCEPT !.fresh = FALSE] : o \in orders }

\* A working order fills at its price, and its fee is paid in cash.
FillOrder(o, fee) ==
    /\ fills.count < MaxFills /\ fills.count + moves < MaxEvents
    /\ book' = [book EXCEPT !.pos[o.inst] = @ + o.qty, !.cash = @ - o.qty * o.price - fee]
    /\ working' = Stale(working \ {o})
    /\ LET follows == fills.since >= 0 /\ o.price = market.marks[o.inst]
       IN  fills' = [count |-> fills.count + 1,
                     since |-> IF o.fresh THEN 0 ELSE IF follows THEN fills.since + 1 ELSE Unknown,
                     fees  |-> IF o.fresh THEN fee ELSE IF follows THEN fills.fees + fee ELSE 0]
    /\ UNCHANGED <<market, decision, moves>>

\* The market moves; the account hears of it later, or not before the next order.
MarketMoves(i, p) ==
    /\ market.marks[i] # p /\ moves < MaxMoves /\ fills.count + moves < MaxEvents
    /\ market' = [market EXCEPT !.marks[i] = p]
    /\ working' = Stale(working)
    /\ fills' = [fills EXCEPT !.since = Unknown, !.fees = 0]
    /\ moves' = moves + 1
    /\ UNCHANGED <<book, decision>>
AccountMarked(i) ==
    /\ book.marks[i] # market.marks[i]
    /\ book' = [book EXCEPT !.marks[i] = market.marks[i]]
    /\ UNCHANGED <<market, decision, working, fills, moves>>
VetoChanges(v) ==
    /\ moves < MaxMoves /\ fills.count + moves < MaxEvents
    /\ market' = [market EXCEPT !.veto = IF v \in @ THEN {} ELSE {v}]
    /\ moves' = moves + 1
    /\ UNCHANGED <<book, decision, working, fills>>

RiskNext ==
    \/ \E S \in SUBSET Instruments : \E ask \in [S -> Lots] : Decide(ask)
    \/ \E i \in Instruments : CheckOrder(i) \/ AccountMarked(i) \/ \E p \in Marks : MarketMoves(i, p)
    \/ \E o \in working, fee \in Fees : FillOrder(o, fee)
    \/ \E v \in Vetoes : VetoChanges(v)
RiskSpec == RiskInit /\ [][RiskNext]_riskVars
-----------------------------------------------------------------------------
\* An order filled in the state it was checked in leaves the whole account, other
\* holdings included, within the limits, although evaluate looked at the target's
\* instruments only and the target was decided in an earlier state.  Orders that were
\* checked without each other exceed them, each by no more than the size of an order,
\* and cash falls short by the fees, which no check looks at.
FillsKeepLimits ==
    fills.since >= 0 =>
        LET n == Notionals(book.pos, market.marks)
            excess == fills.since * Limit.max_order
        IN /\ GrossOf(n) <= Limit.max_gross + excess
           /\ NetOf(n) <= Limit.max_net + excess
           /\ book.cash >= -(Limit.max_cash_deficit + excess + fills.fees)

\* A reduction lies between the account and what was asked, trades something, passes
\* the whole kernel again, and never answers a veto.
ReductionIsSound ==
    [][decision' # decision /\ decision'.outcome = "REDUCED" =>
          /\ market.veto = {}
          /\ decision'.target # Scaled(book, decision'.want, 0)
          /\ \E k \in 1..(Unit - 1) : /\ decision'.target = Scaled(book, decision'.want, k)
                                      /\ Clean(book, market, decision'.want, k)]_riskVars

\* A target is rejected for its size only when the smallest step towards it is
\* already too large: the bisection needs no monotone limits for that.
RejectsOnlyTheIrreducible ==
    [][decision' # decision /\ decision'.outcome = "REJECTED" /\ market.veto = {} =>
          DOMAIN decision'.want = {} \/ ~Clean(book, market, decision'.want, 0)
                                     \/ ~Clean(book, market, decision'.want, 1)]_riskVars

\* The reduction of a target: what it grants is sound, and it refuses only what has
\* no smaller form.
ReductionIsExact == ReductionIsSound /\ RejectsOnlyTheIrreducible
=============================================================================
