------------------------ MODULE IncidentCreationProofs ------------------------
(***************************************************************************)
(* Proofs about IncidentCreation, for any number of requests,              *)
(* organisations and keys.  The inductive invariant says who holds the     *)
(* counter row (LockInv), that its holder works with the next number       *)
(* (NumberInv) and that a request about to commit found its key free and   *)
(* still does (ClaimInv); the claims of the module follow.                 *)
(***************************************************************************)
EXTENDS IncidentCreation, TLAPS

Holding == {"store", "commit"}

LockInv ==
  /\ \A r \in Requests : pc[r] \in Holding => lockedBy[req[r].org] = r
  /\ \A o \in Orgs : lockedBy[o] # NoRequest =>
       pc[lockedBy[o]] \in Holding /\ req[lockedBy[o]].org = o

NumberInv ==
  \A r \in Requests : pc[r] \in Holding => number[r] = counter[req[r].org] + 1

ClaimInv ==
  /\ \A r \in Requests : pc[r] = "store" => req[r].key # NoKey
  /\ \A r \in Requests : pc[r] = "commit" => RowsWithKeyOf(r) = {}

\* The conjuncts that the proof of each of the others needs.
CreationInv ==
  /\ TypeOK
  /\ LockInv
  /\ NumberInv
  /\ ClaimInv
  /\ GaplessNumbers
  /\ KeyRowMatchesIncident

-----------------------------------------------------------------------------
\* Every variable keeps its type: a step of the handler, a failure or the
\* retention job never leaves, for instance, a half-written row behind.
THEOREM TypeCorrect == Spec => []TypeOK
<1>1. Init => TypeOK
  BY CreationAssumption DEF Init, TypeOK, Steps, Answers
<1>2. TypeOK /\ [Next]_vars => TypeOK'
  <2> SUFFICES ASSUME TypeOK, [Next]_vars PROVE TypeOK'
    OBVIOUS
  <2> USE DEF TypeOK, Steps, Answers, Goto, Answer, Unlock, dbVars, outVars
  <2>1. ASSUME NEW r \in Requests, Arrive(r) PROVE TypeOK'
    BY <2>1 DEF Arrive
  <2>2. ASSUME NEW r \in Requests, Replay(r) PROVE TypeOK'
    BY <2>2 DEF Replay, RowsWithKeyOf
  <2>3. ASSUME NEW r \in Requests, NotSeenBefore(r) PROVE TypeOK'
    BY <2>3 DEF NotSeenBefore
  <2>4. ASSUME NEW r \in Requests, Reject(r) PROVE TypeOK'
    BY <2>4 DEF Reject
  <2>5. ASSUME NEW r \in Requests, AllocateNumber(r) PROVE TypeOK'
    BY <2>5 DEF AllocateNumber, Request
  <2>6. ASSUME NEW r \in Requests, StoreKey(r) PROVE TypeOK'
    BY <2>6 DEF StoreKey
  <2>7. ASSUME NEW r \in Requests, LoseKey(r) PROVE TypeOK'
    BY <2>7 DEF LoseKey
  <2>8. ASSUME NEW r \in Requests, ReplayWinner(r) PROVE TypeOK'
    BY <2>8 DEF ReplayWinner, RowsWithKeyOf
  <2>9. ASSUME NEW r \in Requests, WinnerGone(r) PROVE TypeOK'
    BY <2>9 DEF WinnerGone
  <2>10. ASSUME NEW r \in Requests, Commit(r) PROVE TypeOK'
    BY <2>10 DEF Commit, Row, KeyRow, Request
  <2>11. ASSUME NEW r \in Requests, Publish(r) PROVE TypeOK'
    <3>1. NameOf(r) \in [org : Orgs, number : Nat]
      BY DEF NameOf, Name, Request
    <3>2. CASE req[r].sev1
      BY <2>11, <3>1, <3>2 DEF Publish
    <3>3. CASE ~req[r].sev1
      BY <2>11, <3>1, <3>3 DEF Publish
    <3>4. QED
      BY <3>2, <3>3
  <2>12. ASSUME NEW r \in Requests, EnqueueCheck(r) PROVE TypeOK'
    BY <2>12 DEF EnqueueCheck, NameOf, Name, Request
  <2>13. ASSUME NEW r \in Requests, Fail(r) PROVE TypeOK'
    BY <2>13 DEF Fail
  <2>14. ASSUME NEW S \in SUBSET keyRows, PruneKeys(S) PROVE TypeOK'
    BY <2>14 DEF PruneKeys, Name
  <2>15. CASE UNCHANGED vars
    BY <2>15 DEF vars
  <2>16. QED
    BY <2>1, <2>2, <2>3, <2>4, <2>5, <2>6, <2>7, <2>8, <2>9, <2>10, <2>11,
       <2>12, <2>13, <2>14, <2>15 DEF Next, Step
<1>3. QED
  BY <1>1, <1>2, PTL DEF Spec

-----------------------------------------------------------------------------
\* The database does not change and no transaction takes or gives up a lock:
\* nothing the invariant says is disturbed.
Quiet ==
  /\ UNCHANGED <<req, dbVars>>
  /\ \A q \in Requests : \/ pc'[q] = pc[q] /\ number'[q] = number[q]
                         \/ pc[q] \notin Holding /\ pc'[q] \notin Holding

LEMMA QuietSteps ==
  ASSUME TypeOK, NEW r \in Requests,
         \/ Arrive(r) \/ Replay(r) \/ NotSeenBefore(r) \/ Reject(r)
         \/ ReplayWinner(r) \/ WinnerGone(r) \/ Publish(r) \/ EnqueueCheck(r)
  PROVE  Quiet
<1> USE DEF TypeOK, Quiet, Holding, Goto, Answer, dbVars
<1>1. CASE Arrive(r)
  BY <1>1 DEF Arrive
<1>2. CASE Replay(r)
  BY <1>2 DEF Replay
<1>3. CASE NotSeenBefore(r)
  BY <1>3 DEF NotSeenBefore
<1>4. CASE Reject(r)
  BY <1>4 DEF Reject
<1>5. CASE ReplayWinner(r)
  BY <1>5 DEF ReplayWinner
<1>6. CASE WinnerGone(r)
  BY <1>6 DEF WinnerGone
<1>7. CASE Publish(r)
  BY <1>7 DEF Publish
<1>8. CASE EnqueueCheck(r)
  BY <1>8 DEF EnqueueCheck
<1>9. QED
  BY <1>1, <1>2, <1>3, <1>4, <1>5, <1>6, <1>7, <1>8

LEMMA QuietKeeps ==
  ASSUME CreationInv, TypeOK', Quiet
  PROVE  CreationInv'
<1> USE DEF CreationInv, Quiet, dbVars
<1>1. LockInv'
  BY DEF LockInv, Holding, TypeOK
<1>2. NumberInv'
  BY DEF NumberInv, Holding, TypeOK
<1>3. ClaimInv'
  BY DEF ClaimInv, Holding, RowsWithKeyOf, TypeOK
<1>4. GaplessNumbers' /\ KeyRowMatchesIncident'
  BY DEF GaplessNumbers, KeyRowMatchesIncident, Numbers
<1>5. QED
  BY <1>1, <1>2, <1>3, <1>4

LEMMA AllocateKeeps ==
  ASSUME CreationInv, TypeOK', NEW r \in Requests, AllocateNumber(r)
  PROVE  CreationInv'
<1> USE DEF CreationInv, AllocateNumber, Goto, Request
<1>1. LockInv'
  BY CreationAssumption DEF LockInv, Holding, TypeOK
<1>2. NumberInv'
  BY DEF NumberInv, Holding, TypeOK
<1>3. ClaimInv'
  <2>1. CASE req[r].key = NoKey
    BY <2>1, CreationAssumption DEF ClaimInv, RowsWithKeyOf, TypeOK
  <2>2. CASE req[r].key # NoKey
    BY <2>2 DEF ClaimInv, RowsWithKeyOf, TypeOK
  <2>3. QED
    BY <2>1, <2>2
<1>4. GaplessNumbers' /\ KeyRowMatchesIncident'
  BY DEF GaplessNumbers, KeyRowMatchesIncident, Numbers
<1>5. QED
  BY <1>1, <1>2, <1>3, <1>4

LEMMA StoreKeeps ==
  ASSUME CreationInv, TypeOK', NEW r \in Requests, StoreKey(r)
  PROVE  CreationInv'
<1> USE DEF CreationInv, StoreKey, Goto, dbVars
<1>1. LockInv' /\ NumberInv'
  BY DEF LockInv, NumberInv, Holding, TypeOK
<1>2. ClaimInv'
  BY DEF ClaimInv, RowsWithKeyOf, TypeOK
<1>3. GaplessNumbers' /\ KeyRowMatchesIncident'
  BY DEF GaplessNumbers, KeyRowMatchesIncident, Numbers
<1>4. QED
  BY <1>1, <1>2, <1>3

\* A transaction that ends gives up its lock, and only its own.
LEMMA UnlockKeeps ==
  ASSUME TypeOK, LockInv, NEW r \in Requests, NEW step \in Steps \ Holding,
         Unlock(r), pc' = [pc EXCEPT ![r] = step], req' = req
  PROVE  LockInv'
<1>1. ASSUME NEW q \in Requests, pc'[q] \in Holding
      PROVE  lockedBy'[req'[q].org] = q
  <2>1. q # r /\ pc[q] \in Holding
    BY <1>1 DEF TypeOK
  <2>2. lockedBy[req[q].org] = q /\ req[q].org \in Orgs
    BY <2>1 DEF LockInv, TypeOK, Request
  <2>3. QED
    BY <2>1, <2>2 DEF Unlock
<1>2. ASSUME NEW o \in Orgs, lockedBy'[o] # NoRequest
      PROVE  pc'[lockedBy'[o]] \in Holding /\ req'[lockedBy'[o]].org = o
  <2>1. lockedBy'[o] = lockedBy[o] /\ lockedBy[o] # r
    BY <1>2 DEF Unlock
  <2>2. QED
    BY <1>2, <2>1 DEF LockInv, TypeOK
<1>3. QED
  BY <1>1, <1>2 DEF LockInv

\* A rollback: the counter keeps its committed value, so the number that was
\* handed out is handed out again.
LEMMA RollbackKeeps ==
  ASSUME CreationInv, TypeOK', NEW r \in Requests, LoseKey(r) \/ Fail(r)
  PROVE  CreationInv'
<1> USE DEF CreationInv
<1>1. /\ UNCHANGED <<req, number, counter, incidents, keyRows, forgotten>>
      /\ Unlock(r)
      /\ \E step \in {"reread", "done"} : pc' = [pc EXCEPT ![r] = step]
  BY DEF LoseKey, Fail, Goto, Answer
<1>2. LockInv'
  BY <1>1, UnlockKeeps DEF Holding, Steps
<1>3. NumberInv'
  BY <1>1 DEF NumberInv, Holding, TypeOK
<1>4. ClaimInv'
  BY <1>1 DEF ClaimInv, RowsWithKeyOf, TypeOK
<1>5. GaplessNumbers' /\ KeyRowMatchesIncident'
  BY <1>1 DEF GaplessNumbers, KeyRowMatchesIncident, Numbers
<1>6. QED
  BY <1>2, <1>3, <1>4, <1>5

\* The committing request holds its organisation's counter row, so it is the
\* only one with the next number and the only one whose key can be inserted.
LEMMA CommitKeeps ==
  ASSUME CreationInv, TypeOK', NEW r \in Requests, Commit(r)
  PROVE  CreationInv'
<1> USE DEF CreationInv
<1>1. /\ lockedBy[req[r].org] = r
      /\ number[r] = counter[req[r].org] + 1
      /\ RowsWithKeyOf(r) = {}
      /\ req[r].org \in Orgs
  BY DEF Commit, LockInv, NumberInv, ClaimInv, Holding, TypeOK, Request
<1>2. \A q \in Requests \ {r} :
        pc[q] \in Holding => req[q].org # req[r].org
  BY <1>1 DEF LockInv
<1>3. LockInv'
  BY UnlockKeeps DEF Commit, Goto, Holding, Steps
<1>4. NumberInv'
  BY <1>2 DEF Commit, NumberInv, Holding, Goto, TypeOK
<1>5. ClaimInv'
  <2>1. keyRows' \ keyRows \subseteq {KeyRow(r)}
    BY DEF Commit
  <2>2. \A q \in Requests : pc'[q] = "commit" => q # r /\ pc[q] = "commit"
    BY DEF Commit, Goto, TypeOK
  <2>3. \A q \in Requests : pc'[q] = "store" => pc[q] = "store"
    BY DEF Commit, Goto, TypeOK
  <2>4. KeyRow(r).org = req[r].org
    BY DEF KeyRow
  <2>5. QED
    BY <1>2, <2>1, <2>2, <2>3, <2>4 DEF ClaimInv, RowsWithKeyOf, Holding, Commit
<1>6. GaplessNumbers'
  <2>1. Row(r).org = req[r].org /\ Row(r).number = counter[req[r].org] + 1
    BY <1>1 DEF Row
  <2>2. incidents' = incidents \union {Row(r)}
    BY DEF Commit
  <2>3. counter' = [counter EXCEPT ![req[r].org] = counter[req[r].org] + 1]
    BY <1>1 DEF Commit
  <2>4. ASSUME NEW o \in Orgs PROVE Numbers(o)' = 1 .. counter'[o]
    <3>1. CASE o = req[r].org
      <4>1. Numbers(o)' = Numbers(o) \union {counter[o] + 1}
        BY <2>1, <2>2, <3>1 DEF Numbers
      <4>2. counter'[o] = counter[o] + 1 /\ counter[o] \in Nat
        BY <2>3, <3>1 DEF TypeOK
      <4>3. QED
        BY <4>1, <4>2 DEF GaplessNumbers
    <3>2. CASE o # req[r].org
      <4>1. Numbers(o)' = Numbers(o)
        BY <2>1, <2>2, <3>2 DEF Numbers
      <4>2. QED
        BY <2>3, <3>2, <4>1 DEF GaplessNumbers, TypeOK
    <3>3. QED
      BY <3>1, <3>2
  <2>5. \A i \in incidents : i.org = req[r].org => i.number # counter[req[r].org] + 1
    <3> SUFFICES ASSUME NEW i \in incidents, i.org = req[r].org
                 PROVE  i.number # counter[req[r].org] + 1
      OBVIOUS
    <3>1. i.number \in Numbers(req[r].org)
      BY DEF Numbers
    <3>2. i.number \in 1 .. counter[req[r].org] /\ counter[req[r].org] \in Nat
      BY <1>1, <3>1 DEF GaplessNumbers, TypeOK
    <3>3. QED
      BY <3>2
  <2>6. QED
    BY <2>1, <2>2, <2>4, <2>5 DEF GaplessNumbers, Name
<1>7. KeyRowMatchesIncident'
  <2>1. /\ Row(r).org = KeyRow(r).org
        /\ Row(r).key = KeyRow(r).key
        /\ Row(r).number = KeyRow(r).number
        /\ Row(r).key = req[r].key
        /\ KeyRow(r) = [org |-> Row(r).org, key |-> Row(r).key, number |-> Row(r).number]
    BY DEF Row, KeyRow
  <2>2. /\ incidents' = incidents \union {Row(r)}
        /\ keyRows' = IF req[r].key = NoKey THEN keyRows
                      ELSE keyRows \union {KeyRow(r)}
        /\ forgotten' = forgotten
    BY DEF Commit
  <2>3. QED
    BY <2>1, <2>2 DEF KeyRowMatchesIncident
<1>8. QED
  BY <1>3, <1>4, <1>5, <1>6, <1>7

LEMMA PruneKeeps ==
  ASSUME CreationInv, TypeOK', NEW S \in SUBSET keyRows, PruneKeys(S)
  PROVE  CreationInv'
<1> USE DEF CreationInv, PruneKeys
<1>1. LockInv' /\ NumberInv'
  BY DEF LockInv, NumberInv
<1>2. ClaimInv'
  BY DEF ClaimInv, RowsWithKeyOf
<1>3. GaplessNumbers'
  BY DEF GaplessNumbers, Numbers
<1>4. KeyRowMatchesIncident'
  <2>1. \A k \in S : Name(k.org, k.number) \in forgotten'
    OBVIOUS
  <2>2. QED
    BY <2>1 DEF KeyRowMatchesIncident, Name
<1>5. QED
  BY <1>1, <1>2, <1>3, <1>4

LEMMA StepKeeps == CreationInv /\ TypeOK' /\ [Next]_vars => CreationInv'
<1> SUFFICES ASSUME CreationInv, TypeOK', [Next]_vars PROVE CreationInv'
  OBVIOUS
<1>1. CASE UNCHANGED vars
  <2>1. Quiet
    BY <1>1 DEF Quiet, vars, dbVars
  <2>2. QED
    BY <2>1, QuietKeeps
<1>2. ASSUME NEW r \in Requests, Step(r) \/ Reject(r) PROVE CreationInv'
  <2>1. CASE \/ Arrive(r) \/ Replay(r) \/ NotSeenBefore(r) \/ Reject(r)
             \/ ReplayWinner(r) \/ WinnerGone(r) \/ Publish(r) \/ EnqueueCheck(r)
    BY <2>1, QuietSteps, QuietKeeps DEF CreationInv
  <2>2. CASE AllocateNumber(r)
    BY <2>2, AllocateKeeps
  <2>3. CASE StoreKey(r)
    BY <2>3, StoreKeeps
  <2>4. CASE LoseKey(r)
    BY <2>4, RollbackKeeps
  <2>5. CASE Commit(r)
    BY <2>5, CommitKeeps
  <2>6. QED
    BY <1>2, <2>1, <2>2, <2>3, <2>4, <2>5 DEF Step
<1>3. ASSUME NEW r \in Requests, Fail(r) PROVE CreationInv'
  BY <1>3, RollbackKeeps
<1>4. ASSUME NEW S \in SUBSET keyRows, PruneKeys(S) PROVE CreationInv'
  BY <1>4, PruneKeeps
<1>5. QED
  BY <1>1, <1>2, <1>3, <1>4 DEF Next

LEMMA InitCreationInv == Init => CreationInv
<1> SUFFICES ASSUME Init PROVE CreationInv
  OBVIOUS
<1>1. TypeOK
  BY CreationAssumption DEF Init, TypeOK, Steps, Answers
<1>2. LockInv /\ NumberInv /\ ClaimInv
  BY DEF Init, LockInv, NumberInv, ClaimInv, Holding
<1>3. GaplessNumbers /\ KeyRowMatchesIncident
  BY DEF Init, GaplessNumbers, KeyRowMatchesIncident, Numbers
<1>4. QED
  BY <1>1, <1>2, <1>3 DEF CreationInv

LEMMA InvariantHolds == Spec => []CreationInv
<1>1. CreationInv /\ [Next]_vars /\ TypeOK' => CreationInv'
  BY StepKeeps
<1>2. QED
  BY <1>1, InitCreationInv, TypeCorrect, PTL DEF Spec

-----------------------------------------------------------------------------
\* The docstring of allocate_sequence_number: committed numbers have "no
\* duplicates and no gaps", for any number of creators, retries and crashes.
THEOREM NumbersAreGapless == Spec => []GaplessNumbers
<1>1. CreationInv => GaplessNumbers
  BY DEF CreationInv
<1>2. QED
  BY <1>1, InvariantHolds, PTL

\* idempotency.store writes the key row "in the same transaction as the created
\* resource": neither is ever found without the other.
THEOREM KeyRowsMatch == Spec => []KeyRowMatchesIncident
<1>1. CreationInv => KeyRowMatchesIncident
  BY DEF CreationInv
<1>2. QED
  BY <1>1, InvariantHolds, PTL

\* The counter row is always locked before the key is inserted, so the insert
\* finds no uncommitted key to wait for: creators cannot deadlock.
THEOREM CreatorsDoNotDeadlock == Spec => []NoWaitHoldingCounter
<1>1. CreationInv => NoWaitHoldingCounter
  BY DEF CreationInv, LockInv, NoWaitHoldingCounter, OpenClaim, Holding
<1>2. QED
  BY <1>1, InvariantHolds, PTL

\* One Idempotency-Key makes one incident for as long as its row is kept,
\* however many retries run at once.
THEOREM KeysCreateOnce == Spec => []KeyCreatesOnce
<1>1. Init => KeyCreatesOnce
  BY DEF Init, KeyCreatesOnce
<1>2. KeyCreatesOnce /\ CreationInv /\ [Next]_vars => KeyCreatesOnce'
  <2> SUFFICES ASSUME KeyCreatesOnce, CreationInv, [Next]_vars
               PROVE  KeyCreatesOnce'
    OBVIOUS
  <2>1. forgotten \subseteq forgotten'
    BY DEF Next, Step, vars, dbVars, Arrive, Replay, NotSeenBefore, Reject,
           AllocateNumber, StoreKey, LoseKey, ReplayWinner, WinnerGone, Commit,
           Publish, EnqueueCheck, Fail, PruneKeys
  <2>2. CASE incidents' = incidents
    BY <2>1, <2>2 DEF KeyCreatesOnce, Name
  <2>3. ASSUME NEW r \in Requests, Commit(r) PROVE KeyCreatesOnce'
    <3>1. \A i \in incidents :
            i.org = req[r].org /\ i.key = req[r].key /\ i.key # NoKey
              => Name(i.org, i.number) \in forgotten
      <4> SUFFICES ASSUME NEW i \in incidents, i.org = req[r].org,
                          i.key = req[r].key, i.key # NoKey,
                          Name(i.org, i.number) \notin forgotten
                   PROVE  FALSE
        OBVIOUS
      <4>1. [org |-> i.org, key |-> i.key, number |-> i.number] \in keyRows
        BY DEF CreationInv, KeyRowMatchesIncident
      <4>2. [org |-> i.org, key |-> i.key, number |-> i.number] \in RowsWithKeyOf(r)
        BY <4>1 DEF RowsWithKeyOf
      <4>3. QED
        BY <2>3, <4>2 DEF CreationInv, ClaimInv, Commit
    <3>2. incidents' = incidents \union {Row(r)} /\ forgotten' = forgotten
      BY <2>3 DEF Commit
    <3>3. Row(r).org = req[r].org /\ Row(r).key = req[r].key
      BY DEF Row
    <3>4. QED
      BY <3>1, <3>2, <3>3 DEF KeyCreatesOnce, Name
  <2>4. incidents' = incidents \/ \E r \in Requests : Commit(r)
    BY DEF Next, Step, vars, dbVars, Arrive, Replay, NotSeenBefore, Reject,
           AllocateNumber, StoreKey, LoseKey, ReplayWinner, WinnerGone,
           Publish, EnqueueCheck, Fail, PruneKeys
  <2>5. QED
    BY <2>2, <2>3, <2>4
<1>3. QED
  BY <1>1, <1>2, InvariantHolds, PTL DEF Spec

\* Numbers become visible in increasing order, because the counter row stays
\* locked until the incident that has the number commits.
THEOREM NumbersAppearInOrder == Spec => CommitsInNumberOrder
<1>1. CreationInv /\ [Next]_vars =>
        [\A i \in incidents' \ incidents, j \in incidents :
           i.org = j.org => j.number < i.number]_vars
  <2> SUFFICES ASSUME CreationInv, Next,
                      NEW i \in incidents' \ incidents, NEW j \in incidents,
                      i.org = j.org
               PROVE  j.number < i.number
    BY DEF vars
  <2>1. PICK r \in Requests : Commit(r)
    BY DEF Next, Step, dbVars, Arrive, Replay, NotSeenBefore, Reject,
           AllocateNumber, StoreKey, LoseKey, ReplayWinner, WinnerGone,
           Publish, EnqueueCheck, Fail, PruneKeys
  <2>2. i = Row(r)
    BY <2>1 DEF Commit
  <2>3. i.org = req[r].org /\ i.number = number[r] /\ req[r].org \in Orgs
    BY <2>2 DEF Row, CreationInv, TypeOK, Request
  <2>4. i.number = counter[req[r].org] + 1 /\ counter[req[r].org] \in Nat
    BY <2>1, <2>3 DEF Commit, CreationInv, NumberInv, Holding, TypeOK
  <2>5. j.number \in Numbers(req[r].org)
    BY <2>3 DEF Numbers
  <2>6. j.number \in 1 .. counter[req[r].org]
    BY <2>3, <2>5 DEF CreationInv, GaplessNumbers
  <2>7. QED
    BY <2>4, <2>6
<1>2. QED
  BY <1>1, InvariantHolds, PTL DEF Spec, CommitsInNumberOrder

-----------------------------------------------------------------------------
\* The book of an organisation has the numbers its committed rows have.
LEMMA BookNumbers ==
  ASSUME NEW o PROVE Book!NumbersIn(o) = Numbers(o)
<1>1. ASSUME NEW n \in Book!NumbersIn(o) PROVE n \in Numbers(o)
  <2>1. PICK e \in BookEntries : e.org = o /\ e.number = n
    BY <1>1 DEF Book!NumbersIn
  <2>2. PICK i \in incidents : e = [org |-> i.org, key |-> i.key, number |-> i.number]
    BY <2>1 DEF BookEntries
  <2>3. i.org = o /\ i.number = n
    BY <2>1, <2>2
  <2>4. QED
    BY <2>3 DEF Numbers
<1>2. ASSUME NEW n \in Numbers(o) PROVE n \in Book!NumbersIn(o)
  <2>1. PICK i \in incidents : i.org = o /\ i.number = n
    BY <1>2 DEF Numbers
  <2> DEFINE e == [org |-> i.org, key |-> i.key, number |-> i.number]
  <2>2. e \in BookEntries
    BY DEF BookEntries
  <2>3. e.org = o /\ e.number = n
    BY <2>1
  <2>4. QED
    BY <2>2, <2>3 DEF Book!NumbersIn
<1>3. QED
  BY <1>1, <1>2

\* The handlers implement the book: transactions, locks, lost keys and crashes
\* are invisible, and what is visible is one Create or one Forget at a time.
THEOREM Refinement == Spec => ImplementsBook
<1>1. Init => Book!Init
  BY DEF Init, Book!Init, BookEntries
<1>2. CreationInv /\ [Next]_vars => [Book!Next]_(Book!bookVars)
  <2> SUFFICES ASSUME CreationInv, [Next]_vars
               PROVE  [Book!Next]_(Book!bookVars)
    OBVIOUS
  <2>1. ASSUME NEW r \in Requests, Commit(r) PROVE Book!Next
    <3> DEFINE o == req[r].org
               k == req[r].key
               n == number[r]
    <3>1. /\ o \in Orgs
          /\ k \in Keys \union {NoKey}
          /\ n = counter[o] + 1
          /\ counter[o] \in Nat
          /\ RowsWithKeyOf(r) = {}
      BY <2>1 DEF CreationInv, TypeOK, Request, Commit, NumberInv, ClaimInv, Holding
    <3>2. Book!NumbersIn(o) = 1 .. counter[o]
      <4>1. Book!NumbersIn(o) = Numbers(o)
        BY BookNumbers
      <4>2. QED
        BY <3>1, <4>1 DEF CreationInv, GaplessNumbers
    <3>3. BookEntries' = BookEntries \union {[org |-> o, key |-> k, number |-> n]}
      <4>1. incidents' = incidents \union {Row(r)}
        BY <2>1 DEF Commit
      <4>2. Row(r).org = o /\ Row(r).key = k /\ Row(r).number = n
        BY DEF Row
      <4>3. QED
        BY <4>1, <4>2 DEF BookEntries
    <3>4. keyRows' = IF k = NoKey THEN keyRows
                     ELSE keyRows \union {[org |-> o, key |-> k, number |-> n]}
      BY <2>1 DEF Commit, KeyRow
    <3>5. \A m \in keyRows : ~(m.org = o /\ m.key = k)
      BY <3>1 DEF RowsWithKeyOf
    <3>6. Book!NumbersIn(o) = 1 .. (n - 1)
      BY <3>1, <3>2
    <3>7. Book!Create(o, k, n)
      BY <3>3, <3>4, <3>5, <3>6 DEF Book!Create, Book!Entry
    <3>8. n \in {1} \union {m + 1 : m \in Book!NumbersIn(o)}
      <4>1. CASE counter[o] = 0
        BY <3>1, <4>1
      <4>2. CASE counter[o] # 0
        <5>1. counter[o] \in Book!NumbersIn(o)
          BY <3>1, <3>2, <4>2
        <5>2. QED
          BY <3>1, <5>1
      <4>3. QED
        BY <4>1, <4>2
    <3> HIDE DEF o, k, n
    <3>9. QED
      BY <3>1, <3>7, <3>8 DEF Book!Next
  <2>2. ASSUME NEW S \in SUBSET keyRows, PruneKeys(S) PROVE Book!Next
    <3>1. BookEntries' = BookEntries
      BY <2>2 DEF PruneKeys, BookEntries
    <3>2. Book!Forget(S)
      BY <2>2, <3>1 DEF PruneKeys, Book!Forget
    <3>3. QED
      BY <3>2 DEF Book!Next
  <2>3. CASE UNCHANGED <<incidents, keyRows>>
    BY <2>3 DEF Book!bookVars, BookEntries
  <2>4. \/ UNCHANGED <<incidents, keyRows>>
        \/ \E r \in Requests : Commit(r)
        \/ \E S \in SUBSET keyRows : PruneKeys(S)
    BY DEF Next, Step, vars, dbVars, Arrive, Replay, NotSeenBefore, Reject,
           AllocateNumber, StoreKey, LoseKey, ReplayWinner, WinnerGone,
           Publish, EnqueueCheck, Fail
  <2>5. QED
    BY <2>1, <2>2, <2>3, <2>4
<1>3. QED
  BY <1>1, <1>2, InvariantHolds, PTL DEF Spec, ImplementsBook, Book!Spec

-----------------------------------------------------------------------------
(* What clients, the broker and the job queue are told.                    *)

Announcing == {"publish", "enqueue"}

\* A committed incident is still the one its request's own state describes, and
\* its request is past the commit: announcing it, done with it, or dead.
WatchInv ==
  \A i \in incidents :
    /\ i = Row(i.by)
    /\ \/ pc[i.by] \in Announcing
       \/ pc[i.by] = "done" /\ answer[i.by] = "error"
       \/ /\ pc[i.by] = "done"
          /\ answer[i.by] = "created"
          /\ i.sev1 => Name(i.org, i.number) \in checks

\* Without the reload of expired instances, only a request that committed gets
\* as far as announcing.
AnnounceInv ==
  \A r \in Requests : pc[r] \in Announcing => Row(r) \in incidents

LEMMA WatchStep ==
  WatchInv /\ CreationInv /\ TypeOK' /\ [Next]_vars => WatchInv'
<1> SUFFICES ASSUME WatchInv, CreationInv, TypeOK', [Next]_vars PROVE WatchInv'
  OBVIOUS
<1> USE DEF WatchInv, CreationInv, TypeOK, Announcing, Row, Goto, Answer,
            Unlock, dbVars, outVars
<1>1. ASSUME NEW r \in Requests, Arrive(r) PROVE WatchInv'
  BY <1>1 DEF Arrive
<1>2. ASSUME NEW r \in Requests, Replay(r) PROVE WatchInv'
  BY <1>2 DEF Replay
<1>3. ASSUME NEW r \in Requests, NotSeenBefore(r) PROVE WatchInv'
  BY <1>3 DEF NotSeenBefore
<1>4. ASSUME NEW r \in Requests, Reject(r) PROVE WatchInv'
  BY <1>4 DEF Reject
<1>5. ASSUME NEW r \in Requests, AllocateNumber(r) PROVE WatchInv'
  BY <1>5 DEF AllocateNumber
<1>6. ASSUME NEW r \in Requests, StoreKey(r) PROVE WatchInv'
  BY <1>6 DEF StoreKey
<1>7. ASSUME NEW r \in Requests, LoseKey(r) PROVE WatchInv'
  BY <1>7 DEF LoseKey
<1>8. ASSUME NEW r \in Requests, ReplayWinner(r) PROVE WatchInv'
  BY <1>8 DEF ReplayWinner
<1>9. ASSUME NEW r \in Requests, WinnerGone(r) PROVE WatchInv'
  BY <1>9 DEF WinnerGone
<1>10. ASSUME NEW r \in Requests, Commit(r) PROVE WatchInv'
  <2>1. ASSUME NEW i \in incidents PROVE i.by # r /\ i.by \in Requests
    BY <1>10 DEF Commit
  <2>2. Row(r).by = r /\ Row(r)' = Row(r)
    BY <1>10 DEF Commit
  <2>3. QED
    BY <1>10, <2>1, <2>2 DEF Commit
<1>11. ASSUME NEW r \in Requests, Publish(r) PROVE WatchInv'
  <2>1. CASE req[r].sev1
    BY <1>11, <2>1 DEF Publish
  <2>2. CASE ~req[r].sev1
    BY <1>11, <2>2 DEF Publish
  <2>3. QED
    BY <2>1, <2>2
<1>12. ASSUME NEW r \in Requests, EnqueueCheck(r) PROVE WatchInv'
  <2>1. ASSUME NEW i \in incidents, i.by = r PROVE Name(i.org, i.number) \in checks'
    BY <1>12, <2>1 DEF EnqueueCheck, NameOf
  <2>2. /\ checks \subseteq checks'
        /\ pc' = [pc EXCEPT ![r] = "done"]
        /\ answer' = [answer EXCEPT ![r] = "created"]
        /\ UNCHANGED <<req, number, incidents>>
    BY <1>12 DEF EnqueueCheck
  <2> HIDE DEF Row
  <2>3. \A q \in Requests : Row(q)' = Row(q)
    BY <2>2 DEF Row
  <2>4. QED
    BY <2>1, <2>2, <2>3
<1>13. ASSUME NEW r \in Requests, Fail(r) PROVE WatchInv'
  BY <1>13 DEF Fail
<1>14. ASSUME NEW S \in SUBSET keyRows, PruneKeys(S) PROVE WatchInv'
  BY <1>14 DEF PruneKeys
<1>15. CASE UNCHANGED vars
  BY <1>15 DEF vars
<1>16. QED
  BY <1>1, <1>2, <1>3, <1>4, <1>5, <1>6, <1>7, <1>8, <1>9, <1>10, <1>11,
     <1>12, <1>13, <1>14, <1>15 DEF Next, Step

\* An escalation check is lost only with the handler that had to queue it.
THEOREM OnlyDeadHandlersLoseChecks == Spec => []Sev1WatchedUnlessHandlerDied
<1>1. Init => WatchInv
  BY DEF Init, WatchInv
<1>2. WatchInv => Sev1WatchedUnlessHandlerDied
  BY DEF WatchInv, Sev1WatchedUnlessHandlerDied, Announcing
<1>3. WatchInv /\ CreationInv /\ [Next]_vars /\ TypeOK' => WatchInv'
  BY WatchStep
<1>4. QED
  BY <1>1, <1>2, <1>3, InvariantHolds, TypeCorrect, PTL DEF Spec

\* What a client or a consumer of the events relies on.
ToldInv ==
  /\ AnnounceInv
  /\ SuccessNamesIncident
  /\ EffectsAfterCommit
  /\ \A r \in Requests : answer[r] \in {"created", "replayed"} => pc[r] = "done"

LEMMA ToldStep ==
  ASSUME ~ExpiredReadsLoad, CreationInv, TypeOK', ToldInv, [Next]_vars
  PROVE  ToldInv'
<1> USE DEF ToldInv, CreationInv, TypeOK, Announcing, dbVars, outVars, Goto, Answer
<1>1. incidents \subseteq incidents'
  BY DEF Next, Step, vars, Arrive, Replay, NotSeenBefore, Reject,
         AllocateNumber, StoreKey, LoseKey, ReplayWinner, WinnerGone, Commit,
         Publish, EnqueueCheck, Fail, PruneKeys
<1>2. ASSUME NEW r \in Requests,
             UNCHANGED <<req, number, published, checks>>,
             \/ Answer(r, "error")
             \/ /\ UNCHANGED answer
                /\ pc[r] # "done"
                /\ \E step \in Steps \ Announcing : Goto(r, step)
      PROVE  ToldInv'
  <2>1. AnnounceInv'
    BY <1>1, <1>2 DEF AnnounceInv, Row
  <2>2. SuccessNamesIncident'
    BY <1>1, <1>2 DEF SuccessNamesIncident
  <2>3. EffectsAfterCommit'
    BY <1>1, <1>2 DEF EffectsAfterCommit
  <2>4. QED
    BY <1>2, <2>1, <2>2, <2>3
<1>3. ASSUME NEW r \in Requests, Replay(r) PROVE ToldInv'
  <2>1. PICK k \in keyRows : /\ k.org = req[r].org
                             /\ k.key = req[r].key
                             /\ number' = [number EXCEPT ![r] = k.number]
    BY <1>3 DEF Replay, RowsWithKeyOf
  <2>2. PICK i \in incidents : i.org = k.org /\ i.key = k.key /\ i.number = k.number
    BY DEF KeyRowMatchesIncident
  <2>3. AnnounceInv'
    BY <1>3 DEF Replay, AnnounceInv, Row
  <2>4. SuccessNamesIncident'
    <3>1. /\ answer' = [answer EXCEPT ![r] = "replayed"]
          /\ req' = req /\ incidents' = incidents
      BY <1>3 DEF Replay
    <3>2. number'[r] = i.number
      BY <2>1, <2>2
    <3>3. \A q \in Requests \ {r} : number'[q] = number[q] /\ answer'[q] = answer[q]
      BY <2>1, <3>1
    <3>4. answer'[r] = "replayed"
      BY <3>1
    <3>5. QED
      BY <2>1, <2>2, <3>1, <3>2, <3>3, <3>4 DEF SuccessNamesIncident
  <2>5. EffectsAfterCommit'
    BY <1>3 DEF Replay, EffectsAfterCommit
  <2>6. QED
    BY <1>3, <2>3, <2>4, <2>5 DEF Replay
<1>4. ASSUME NEW r \in Requests, AllocateNumber(r) PROVE ToldInv'
  <2>1. AnnounceInv'
    BY <1>4 DEF AllocateNumber, AnnounceInv, Row
  <2>2. SuccessNamesIncident'
    BY <1>4 DEF AllocateNumber, SuccessNamesIncident
  <2>3. EffectsAfterCommit'
    BY <1>4 DEF AllocateNumber, EffectsAfterCommit
  <2>4. QED
    BY <1>4, <2>1, <2>2, <2>3 DEF AllocateNumber
<1>5. ASSUME NEW r \in Requests, Commit(r) PROVE ToldInv'
  <2>1. AnnounceInv'
    <3>1. \A q \in Requests : Row(q)' = Row(q)
      BY <1>5 DEF Commit, Row
    <3>2. Row(r) \in incidents'
      BY <1>5 DEF Commit
    <3>3. QED
      BY <1>1, <1>5, <3>1, <3>2 DEF Commit, AnnounceInv
  <2>2. SuccessNamesIncident'
    BY <1>1, <1>5 DEF Commit, SuccessNamesIncident
  <2>3. EffectsAfterCommit'
    BY <1>1, <1>5 DEF Commit, EffectsAfterCommit
  <2>4. QED
    BY <1>5, <2>1, <2>2, <2>3 DEF Commit
<1>6. ASSUME NEW r \in Requests, Publish(r) \/ EnqueueCheck(r) PROVE ToldInv'
  <2>1. Row(r) \in incidents
    BY <1>6 DEF Publish, EnqueueCheck, AnnounceInv
  <2>2. /\ Row(r).org = req[r].org /\ Row(r).number = number[r]
        /\ Row(r).key = req[r].key /\ Row(r).by = r
    BY DEF Row
  <2>3. UNCHANGED <<req, number, incidents>>
    BY <1>6 DEF Publish, EnqueueCheck
  <2>4. /\ \A q \in Requests \ {r} : pc'[q] = pc[q] /\ answer'[q] = answer[q]
        /\ \/ pc'[r] = "enqueue" /\ answer'[r] = answer[r]
           \/ pc'[r] = "done" /\ answer'[r] = "created"
    <3>1. CASE Publish(r) /\ req[r].sev1
      BY <3>1 DEF Publish
    <3>2. CASE Publish(r) /\ ~req[r].sev1
      BY <3>2 DEF Publish
    <3>3. CASE EnqueueCheck(r)
      BY <3>3 DEF EnqueueCheck
    <3>4. QED
      BY <1>6, <3>1, <3>2, <3>3
  <2>5. AnnounceInv'
    BY <2>1, <2>3, <2>4 DEF AnnounceInv, Row
  <2>6. SuccessNamesIncident'
    BY <2>1, <2>2, <2>3, <2>4 DEF SuccessNamesIncident
  <2>7. EffectsAfterCommit'
    <3>1. NameOf(r) \in {Name(i.org, i.number) : i \in incidents}
      BY <2>1, <2>2 DEF NameOf
    <3>2. published' \union checks' \subseteq published \union checks \union {NameOf(r)}
      BY <1>6 DEF Publish, EnqueueCheck
    <3>3. QED
      BY <2>3, <3>1, <3>2 DEF EffectsAfterCommit
  <2>8. \A q \in Requests : answer'[q] \in {"created", "replayed"} => pc'[q] = "done"
    BY <1>6, <2>4 DEF Publish, EnqueueCheck
  <2>9. QED
    BY <2>5, <2>6, <2>7, <2>8
<1>7. ASSUME NEW S \in SUBSET keyRows, PruneKeys(S) PROVE ToldInv'
  BY <1>7 DEF PruneKeys, AnnounceInv, SuccessNamesIncident, EffectsAfterCommit, Row
<1>8. CASE UNCHANGED vars
  BY <1>8 DEF vars, AnnounceInv, SuccessNamesIncident, EffectsAfterCommit, Row
<1>9. ASSUME NEW r \in Requests,
             \/ Arrive(r) \/ NotSeenBefore(r) \/ Reject(r) \/ StoreKey(r)
             \/ LoseKey(r) \/ ReplayWinner(r) \/ WinnerGone(r) \/ Fail(r)
      PROVE  ToldInv'
  <2>1. UNCHANGED <<req, number, published, checks>>
    BY <1>9 DEF Arrive, NotSeenBefore, Reject, StoreKey, LoseKey, ReplayWinner,
                WinnerGone, Fail
  <2>2. \/ Answer(r, "error")
        \/ /\ UNCHANGED answer
           /\ pc[r] # "done"
           /\ \E step \in Steps \ Announcing : Goto(r, step)
    BY <1>9 DEF Arrive, NotSeenBefore, Reject, StoreKey, LoseKey, ReplayWinner,
                WinnerGone, Fail, Steps
  <2>3. QED
    BY <1>2, <2>1, <2>2
<1>10. QED
  BY <1>3, <1>4, <1>5, <1>6, <1>7, <1>8, <1>9 DEF Next, Step

\* With AsyncSession, which never reloads an expired instance outside its
\* greenlet, a 201 names a committed incident and nothing is announced that was
\* rolled back, even if key rows are deleted at the worst moment.
THEOREM SuccessIsReal ==
  ASSUME ~ExpiredReadsLoad
  PROVE  Spec => [](SuccessNamesIncident /\ EffectsAfterCommit)
<1>1. Init => ToldInv
  BY DEF Init, ToldInv, AnnounceInv, Announcing, SuccessNamesIncident,
         EffectsAfterCommit
<1>2. ToldInv /\ CreationInv /\ TypeOK' /\ [Next]_vars => ToldInv'
  BY ToldStep
<1>3. ToldInv => SuccessNamesIncident /\ EffectsAfterCommit
  BY DEF ToldInv
<1>4. QED
  BY <1>1, <1>2, <1>3, InvariantHolds, TypeCorrect, PTL DEF Spec
=============================================================================
