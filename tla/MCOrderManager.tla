--------------------------- MODULE MCOrderManager ---------------------------
(***************************************************************************)
(* Small instances of OrderManager: one order filled in two parts whose    *)
(* fills are delivered repeatedly, and three order artifacts under one     *)
(* idempotency key.                                                        *)
(***************************************************************************)
EXTENDS OrderManager, TLC

CONSTANTS o1, o2, o3, k1, a1, a2, a3

OneKey == (o1 :> k1)
OneQuantity == (o1 :> 2)

\* Two halves of the order, a redelivery of the first under a fresh artifact.
SomeFills ==
    { [artifact |-> a1, id |-> "v1", order |-> o1, quantity |-> 1],
      [artifact |-> a2, id |-> "v1", order |-> o1, quantity |-> 1],
      [artifact |-> a3, id |-> "v2", order |-> o1, quantity |-> 1] }

\* The same order under two artifacts, and another order that reuses its key.
SharedKey == (o1 :> k1 @@ o2 :> k1 @@ o3 :> k1)
SharedQuantity == (o1 :> 1 @@ o2 :> 1 @@ o3 :> 2)
OneFill == { [artifact |-> a1, id |-> "v1", order |-> o1, quantity |-> 1] }
=============================================================================
