---------------------------- MODULE MCAdmission -----------------------------
(* An instance of Admission for TLC: two phases stand for the eleven.       *)
EXTENDS Admission

MCAuths == {"a"}
MCAuthExpiry == [a |-> 1]
=============================================================================
