------------------------------ MODULE MCAccounts ------------------------------
\* Clients that mix passwords, sessions and resets, and clients that enrol in MFA
\* and log in with it; two requests at a time, as many as the bounds allow.
EXTENDS Accounts, TLC

MCOffers ==
  {{"register", "resend", "verify", "login"},
   {"register", "verify", "login", "rotate", "logout"},
   {"register", "forgot", "reset", "login", "rotate"},
   {"register", "verify", "forgot", "reset", "login", "enrol", "confirm", "challenge"}}

Symmetry == Permutations(Slots) \union Permutations(Links)
===============================================================================
