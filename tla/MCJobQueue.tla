------------------------------ MODULE MCJobQueue ------------------------------
(* A small instance of JobQueue for TLC: two jobs with the tries that       *)
(* WorkerSettings gives them, and enough runs cut off that one of them runs *)
(* out of tries without ever raising.                                       *)
EXTENDS JobQueue

CONSTANTS mail, check
=============================================================================
