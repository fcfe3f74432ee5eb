------------------------- MODULE MCIncidentLifecycle -------------------------
(* Small instances of IncidentLifecycle for TLC.  MCAsks is for requests    *)
(* that overlap: the status changes up to resolved, one that would reopen,  *)
(* and an edit of the severity and the assignee.  SerialAsks is for requests *)
(* that do not: it adds edits of the texts, an edit back, and a resolution  *)
(* without its summary, and leaves out the change that is always refused.   *)
EXTENDS IncidentLifecycle, TLC

CONSTANTS v1, v2

Change(status) == [kind |-> "status", to |-> status, summary |-> TRUE]
Set(severity, assignee, text) ==
  [kind |-> "edit",
   set |-> [severity |-> severity, assigned_to |-> assignee, text |-> text]]

MCAsks == {Change(s) : s \in {"acknowledged", "mitigated", "resolved", "open"}}
          \union {Set(v2, v2, Absent)}

SerialAsks == {Change(s) : s \in {"acknowledged", "mitigated", "resolved"}}
              \union {[kind |-> "status", to |-> "resolved", summary |-> FALSE]}
              \union {Set(v2, Absent, Absent), Set(v1, v2, v2)}

Symmetry == Permutations(Txns)
=============================================================================
