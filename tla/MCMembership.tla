----------------------------- MODULE MCMembership -----------------------------
\* Two people, one API key, two requests at a time and as many as one likes one
\* after the other.
EXTENDS Membership, TLC

CONSTANTS a, b, i1, i2

On(op, by, who, role) ==
  [op |-> op, by |-> by, who |-> who, role |-> role, inv |-> None]
Of(op, by, inv) ==
  [op |-> op, by |-> by, who |-> None, role |-> None, inv |-> inv]

MCAsks ==
  {On("change", a, b, "owner"), On("change", a, b, "viewer"),
   On("change", b, a, "viewer"), On("change", b, b, "admin"),
   On("remove", a, b, None), On("remove", b, a, None),
   On("change", ApiKey, b, "viewer"),
   On("invite", a, b, "owner"), On("invite", ApiKey, b, "viewer"),
   Of("revoke", a, i1), Of("accept", b, i1), Of("accept", b, i2),
   Of("mint", a, None), Of("unmint", a, None)}

Symmetry == Permutations(Slots)
===============================================================================
