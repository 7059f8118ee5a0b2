--------------------------- MODULE OrderLifecycle ---------------------------
(***************************************************************************)
(* What the order manager promises about one order, whatever crashes,      *)
(* retries or lost acknowledgements happen on the way: its durable phase   *)
(* only moves forward, it is put before the venue at most once, and only   *)
(* while its durable phase is "routed".                                    *)
(***************************************************************************)
CONSTANT Orders

VARIABLES
    phase,      \* [Orders -> Phases] the durable phase of each order
    exposed     \* the orders that have been submitted to the venue

vars == <<phase, exposed>>

Phases == {"absent", "pending", "routed", "live", "closed", "reconciled"}

\* The phases that may follow a phase.
Forward == { <<"absent", "pending">>, <<"pending", "routed">>, <<"pending", "closed">>,
             <<"routed", "live">>, <<"routed", "closed">>, <<"live", "closed">>,
             <<"closed", "reconciled">> }

Init ==
    /\ phase = [o \in Orders |-> "absent"]
    /\ exposed = {}

Advance(o) ==
    /\ \E p \in Phases : /\ <<phase[o], p>> \in Forward
                         /\ phase' = [phase EXCEPT ![o] = p]
    /\ UNCHANGED exposed

Expose(o) ==
    /\ phase[o] = "routed"
    /\ o \notin exposed
    /\ exposed' = exposed \cup {o}
    /\ UNCHANGED phase

Next == \E o \in Orders : Advance(o) \/ Expose(o)

Spec == Init /\ [][Next]_vars
=============================================================================
