----------------------------- MODULE MCEscalation -----------------------------
(* A small instance of Escalation for TLC: a chain of two users, the second *)
(* of whom may be on call, and an incident that started before it was       *)
(* reported or is said to start after it.  Every job is up to one timeout   *)
(* late, one run fails, and the severity changes once.  A late walk of      *)
(* three levels is over by MaxTime, with jobs to spare: the clock and the   *)
(* jobs bound nothing that the properties are about.                        *)
EXTENDS Escalation

CONSTANTS ana, ben

MCChain == <<ana, ben>>
=============================================================================
