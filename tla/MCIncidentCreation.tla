-------------------------- MODULE MCIncidentCreation --------------------------
(* A small instance of IncidentCreation for TLC: the same key in two       *)
(* organisations, with and without an escalation, and a request that       *)
(* competes for the counter without a key.                                 *)
EXTENDS IncidentCreation

CONSTANTS o1, o2, k1

MCAsks == {[org |-> o1, key |-> k1, sev1 |-> TRUE],
           [org |-> o1, key |-> NoKey, sev1 |-> FALSE],
           [org |-> o2, key |-> k1, sev1 |-> FALSE]}
=============================================================================
