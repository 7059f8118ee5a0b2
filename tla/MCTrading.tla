----------------------------- MODULE MCTrading ------------------------------
(***************************************************************************)
(* The trading suite: order connector, account ledger and risk kernel are  *)
(* independent of each other here, so one run checks them, each on         *)
(* behaviours in which only its own variables move.  The qualification of  *)
(* a model runtime and the run of a Hermes task stand beside the order     *)
(* lifecycle: like it, they wait for something that may never answer.      *)
(***************************************************************************)
EXTENDS Venue, Account, RiskBook, RuntimeQualification, Hermes

\* One or two events of every kind.  Prices are multiples of 120: whatever the order of the
\* bookings, averages and splits come out whole.
MCInputs == {
    Event("fill1", "fill", 2, 120), Event("fill1", "fill", 2, 240), Event("fill2", "fill", -3, 240),
    Event("fill3", "fill", -1, 120), Event("fill4", "fill", 1, 240),
    Event("cost", "funding", 5, 0), Event("borrow", "borrow", 7, 0),
    Event("transfer", "transfer", -30, 0), Event("adjust", "fx", 11, 0), Event("action", "corporate", 13, 0),
    Event("split", "split", 2, 0), Event("dividend", "dividend", 2, 0), Event("mark", "mark", 180, 0),
    Event("margin", "margin", 17, 0) }

VARIABLE which    \* the component this behaviour is about

tradingVars == <<which, venueVars, accountVars, riskVars, qualVars, hermesVars>>

\* The variables of all components but one.
Others_venue == <<accountVars, riskVars, qualVars, hermesVars>>
Others_account == <<venueVars, riskVars, qualVars, hermesVars>>
Others_risk == <<venueVars, accountVars, qualVars, hermesVars>>
Others_qualification == <<venueVars, accountVars, riskVars, hermesVars>>
Others_hermes == <<venueVars, accountVars, riskVars, qualVars>>

Init ==
    /\ which \in {"venue", "account", "risk", "qualification", "hermes"}
    /\ VenueInit /\ AccountInit /\ RiskInit /\ QualificationInit /\ HermesInit
    /\ (which # "venue" => provider = "binance")
    /\ (which # "risk" => book.pos[CHOOSE i \in Instruments : TRUE] = 0)
    /\ (which # "qualification" => spec.external /\ spec.gpu /\ spec.policy = "deterministic_required")

Next ==
    /\ UNCHANGED which
    /\ \/ which = "venue" /\ VenueNext /\ UNCHANGED Others_venue
       \/ which = "account" /\ AccountNext /\ UNCHANGED Others_account
       \/ which = "risk" /\ RiskNext /\ UNCHANGED Others_risk
       \/ which = "qualification" /\ QualificationNext /\ UNCHANGED Others_qualification
       \/ which = "hermes" /\ HermesNext /\ UNCHANGED Others_hermes

\* Fairness: the script of the lifecycle, the thread of a qualification and the parent of
\* a task keep running until they end, and the clock of the script moves; what they
\* wait for need not answer.
Fairness ==
    /\ WF_venueVars(which = "venue" /\ LifecycleStep /\ UNCHANGED <<which, Others_venue>>)
    /\ WF_venueVars(which = "venue" /\ DeadlinePasses /\ UNCHANGED <<which, Others_venue>>)
    /\ WF_qualVars(which = "qualification" /\ ParentStep /\ UNCHANGED <<which, Others_qualification>>)
    /\ WF_hermesVars(which = "hermes" /\ ParentRuns /\ UNCHANGED <<which, Others_hermes>>)

Spec == Init /\ [][Next]_tradingVars /\ Fairness

\* The supervised run ends whatever the venue answers: the poll has a deadline and
\* every request a bounded number of attempts.
SupervisedRunEnds == which = "venue" => LifecycleEnds

\* VerdictUnlessHeldOpen of RuntimeQualification, on its behaviours.
QualificationEnds == which = "qualification" => VerdictUnlessHeldOpen
=============================================================================
