----------------------------- MODULE IncidentBook -----------------------------
(***************************************************************************)
(* What POST /orgs/{org_slug}/incidents promises, without transactions,    *)
(* locks or processes: each organisation has a book of incidents numbered  *)
(* from 1, an Idempotency-Key that is remembered creates nothing, and a    *)
(* key may be forgotten later (ADR-0004, docs/api.md, BUILD_SPEC).         *)
(***************************************************************************)
EXTENDS Naturals

CONSTANTS Orgs, Keys, NoKey

VARIABLES
  book,        \* the incidents: organisation, number, key they were made with
  remembered   \* which incident each remembered key stands for

bookVars == <<book, remembered>>

NumbersIn(o) == {i.number : i \in {j \in book : j.org = o}}

Init == book = {} /\ remembered = {}

Entry(o, k, n) == [org |-> o, key |-> k, number |-> n]

\* The n-th incident of an organisation whose book ends at n - 1.
Create(o, k, n) ==
  /\ NumbersIn(o) = 1 .. (n - 1)
  /\ \A m \in remembered : ~(m.org = o /\ m.key = k)
  /\ book' = book \union {Entry(o, k, n)}
  /\ remembered' = IF k = NoKey THEN remembered
                   ELSE remembered \union {Entry(o, k, n)}

Forget(S) ==
  /\ remembered' = remembered \ S
  /\ UNCHANGED book

Next ==
  \/ \E o \in Orgs, k \in Keys \union {NoKey} :
       \E n \in {1} \union {m + 1 : m \in NumbersIn(o)} : Create(o, k, n)
  \/ \E S \in SUBSET remembered : Forget(S)

Spec == Init /\ [][Next]_bookVars
=============================================================================
