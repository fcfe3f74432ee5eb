------------------------ MODULE IncidentLifecycleProofs ------------------------
(***************************************************************************)
(* Proofs about IncidentLifecycle, for any number of requests.             *)
(*                                                                         *)
(* The first part holds however the transactions overlap.  Its invariant   *)
(* says that a request past its read still asks for a legal step from the  *)
(* status it read (AskInv), that it holds the row lock from its last flush *)
(* on (LockInv), that what it read is a row the incident went through      *)
(* (SnapInv), and what its transaction has recorded (PendingInv).          *)
(*                                                                         *)
(* The second part is about MaxOpen = 1, where what a request read is      *)
(* still the row when it commits (SerialInv), and an edit has recorded the *)
(* values it is about to set (EditsInv).                                   *)
(***************************************************************************)
EXTENDS IncidentLifecycle, FiniteSetTheorems, TLAPS

AskInv ==
  \A t \in Txns :
    /\ pc[t] \in {"flush", "record"} => ask[t].kind = "status"
    /\ pc[t] = "edit" => /\ ask[t].kind = "edit"
                         /\ todo[t] \subseteq Changes(t, snap[t])
    /\ pc[t] \in InTransaction /\ ask[t].kind = "status"
         => is_legal(snap[t].status, ask[t].to)

LockInv == \A t \in Txns : pc[t] \in {"record", "commit"} => lockedBy = t

HasOrigin(s) == s = "open" \/ \E d \in StatusEvents : d.to = s

Stamped(r) ==
  /\ r.status # "open" => r.acknowledged_at # NoTxn
  /\ r.status \in {"resolved", "postmortem"} => r.resolved_at # NoTxn

SnapInv ==
  /\ HasOrigin(row.status)
  /\ \A t \in Txns : pc[t] \in InTransaction =>
       /\ HasOrigin(snap[t].status)
       /\ Stamped(snap[t])
       /\ snap[t].acknowledged_at # NoTxn => row.acknowledged_at # NoTxn
       /\ snap[t].resolved_at # NoTxn => row.resolved_at # NoTxn

SeqInv ==
  /\ \A e \in events : e.seq < nextSeq
  /\ \A t \in Txns : \A e \in pending[t] : e.seq < nextSeq

\* The status event of t's open transaction.
StatusEventOf(t, e) ==
  /\ e \in StatusEvent
  /\ e.from = snap[t].status
  /\ e.to = ask[t].to
  /\ e.by = t
  /\ \A d \in StatusEvents : d.seq < e.seq

PendingInv ==
  \A t \in Txns :
    /\ ask[t].kind = "status" /\ pc[t] # "commit" => pending[t] = {}
    /\ ask[t].kind = "status" /\ pc[t] = "commit"
         => \E e : pending[t] = {e} /\ StatusEventOf(t, e)
    /\ ask[t].kind = "edit" => pending[t] \subseteq FieldEvent

OutInv ==
  /\ \A m \in published : m[2] \in committed
  /\ \A t \in Txns : pc[t] \in {"publish_org", "publish_incident"} => t \in committed
  /\ \A t \in committed :
       ask[t].kind = "status" => \E e \in StatusEvents : e.by = t

LifecycleInv ==
  /\ TypeOK
  /\ AskInv
  /\ LockInv
  /\ SnapInv
  /\ SeqInv
  /\ PendingInv
  /\ OutInv
  /\ MilestonesStamped
  /\ TimelineTellsStatus
  /\ StatusEventsHaveOrigin

-----------------------------------------------------------------------------
\* Looking at the fields in the order of the code finds one while any is left.
LEMMA FirstIsOne ==
  ASSUME NEW S \in SUBSET Fields, S # {}
  PROVE  First(S) \in S
<1>1. \E f \in S : \A g \in S : Rank[f] <= Rank[g]
  <2>1. CASE "severity" \in S
    BY <2>1 DEF Fields, Rank
  <2>2. CASE "severity" \notin S /\ "assigned_to" \in S
    BY <2>2 DEF Fields, Rank
  <2>3. CASE "severity" \notin S /\ "assigned_to" \notin S
    <3>1. S = {"text"}
      BY <2>3 DEF Fields
    <3>2. QED
      BY <3>1 DEF Rank
  <2>4. QED
    BY <2>1, <2>2, <2>3
<1>2. QED
  BY <1>1 DEF First

LEMMA AskKinds ==
  ASSUME TypeOK, NEW t \in Txns
  PROVE  /\ ask[t].kind \in {"status", "edit"}
         /\ ask[t].kind = "status" => ask[t] \in StatusChange
         /\ ask[t].kind = "edit" => ask[t] \in Edit
<1>1. ask[t] \in StatusChange \/ ask[t] \in Edit
  BY DEF TypeOK
<1>2. QED
  BY <1>1 DEF StatusChange, Edit

\* An edit's new values are values.
LEMMA ChangesAreValues ==
  ASSUME TypeOK, NEW t \in Txns, ask[t].kind = "edit", NEW r, NEW f \in Changes(t, r)
  PROVE  f \in Fields /\ ask[t].set[f] \in Values
<1>1. ask[t] \in Edit
  BY AskKinds
<1>2. QED
  BY <1>1 DEF Edit, Changes

LEMMA RowFields ==
  ASSUME NEW a \in Statuses, NEW v \in Nat, NEW k \in Txns \union {NoTxn},
         NEW z \in Txns \union {NoTxn}, NEW f \in [Fields -> Values]
  PROVE  [status |-> a, version |-> v + 1, acknowledged_at |-> k,
          resolved_at |-> z, fields |-> f] \in Row
<1>1. v + 1 \in Nat \ {0}
  OBVIOUS
<1>2. QED
  BY <1>1, Zenon DEF Row

\* What a transaction writes is a row.
LEMMA WrittenIsRow ==
  ASSUME TypeOK, NEW t \in Txns
  PROVE  Written(t) \in Row
<1>1. row \in Row /\ snap[t] \in Row
  BY DEF TypeOK
<1>2. CASE ask[t].kind = "status"
  <2>1. ask[t].to \in Statuses
    BY <1>2, AskKinds DEF StatusChange
  <2>2. WithStatus(t) \in Row
    <3>1. /\ snap[t].version \in Nat
          /\ row.fields \in [Fields -> Values]
          /\ row.acknowledged_at \in Txns \union {NoTxn}
          /\ row.resolved_at \in Txns \union {NoTxn}
      BY <1>1 DEF Row
    <3>2. QED
      BY <2>1, <3>1, RowFields DEF WithStatus
  <2>3. QED
    BY <1>2, <2>2 DEF Written
<1>3. CASE ask[t].kind = "edit"
  <2> DEFINE new == [f \in Fields |-> IF f \in Changes(t, snap[t])
                                        THEN ask[t].set[f] ELSE row.fields[f]]
  <2>1. new \in [Fields -> Values]
    <3>1. row.fields \in [Fields -> Values]
      BY <1>1 DEF Row
    <3>2. QED
      BY <1>3, <3>1, ChangesAreValues
  <2>2. WithEdit(t) =
          [status |-> row.status, version |-> snap[t].version + 1,
           acknowledged_at |-> row.acknowledged_at,
           resolved_at |-> row.resolved_at, fields |-> new]
    BY DEF WithEdit
  <2> HIDE DEF new
  <2>3. /\ row.status \in Statuses
        /\ snap[t].version \in Nat
        /\ row.acknowledged_at \in Txns \union {NoTxn}
        /\ row.resolved_at \in Txns \union {NoTxn}
    BY <1>1 DEF Row
  <2>4. WithEdit(t) \in Row
    <3>1. [status |-> row.status, version |-> snap[t].version + 1,
           acknowledged_at |-> row.acknowledged_at,
           resolved_at |-> row.resolved_at, fields |-> new] \in Row
      BY <2>1, <2>3, RowFields
    <3>2. QED
      BY <2>2, <3>1, Zenon
  <2>5. QED
    BY <1>3, <2>4 DEF Written
<1>4. QED
  BY <1>2, <1>3, AskKinds

\* The row after t's commit, by the kind of request.
LEMMA WrittenStatus ==
  ASSUME TypeOK, NEW t \in Txns, ask[t].kind = "status"
  PROVE  /\ Written(t).status = ask[t].to
         /\ Written(t).version = snap[t].version + 1
         /\ Written(t).acknowledged_at =
              IF ask[t].to = "acknowledged" /\ snap[t].acknowledged_at = NoTxn
                THEN t ELSE row.acknowledged_at
         /\ Written(t).resolved_at =
              IF ask[t].to = "resolved" THEN t ELSE row.resolved_at
BY DEF Written, WithStatus, TypeOK, Row

LEMMA WrittenEdit ==
  ASSUME TypeOK, NEW t \in Txns, ask[t].kind = "edit"
  PROVE  /\ Written(t).status = row.status
         /\ Written(t).version = snap[t].version + 1
         /\ Written(t).acknowledged_at = row.acknowledged_at
         /\ Written(t).resolved_at = row.resolved_at
BY DEF Written, WithEdit, TypeOK, Row

LEMMA CreatedIsRow == Created \in Row
BY LifecycleAssumption DEF Created, Row, Statuses

-----------------------------------------------------------------------------
LEMMA TypeStep ==
  ASSUME TypeOK, AskInv, [Next]_vars
  PROVE  TypeOK'
<1> USE CreatedIsRow DEF TypeOK, Steps, Goto, requestVars
<1>1. ASSUME NEW t \in Txns, Send(t) PROVE TypeOK'
  <2>1. row.version \in Nat
    BY DEF Row
  <2>2. QED
    BY <1>1, <2>1 DEF Send
<1>2. ASSUME NEW t \in Txns, ReadStatus(t) PROVE TypeOK'
  BY <1>2 DEF ReadStatus
<1>3. ASSUME NEW t \in Txns, RefuseStatus(t) PROVE TypeOK'
  BY <1>3 DEF RefuseStatus, Refuse, Close
<1>4. ASSUME NEW t \in Txns, FlushStatus(t) PROVE TypeOK'
  BY <1>4 DEF FlushStatus
<1>5. ASSUME NEW t \in Txns, RecordStatus(t) PROVE TypeOK'
  <2> DEFINE e == [seq |-> nextSeq, type |-> "status", from |-> snap[t].status,
                   to |-> ask[t].to, by |-> t]
  <2>1. e \in StatusEvent
    <3>1. ask[t].kind = "status"
      BY <1>5 DEF AskInv, RecordStatus
    <3>2. ask[t].to \in Statuses
      BY <3>1, AskKinds DEF StatusChange
    <3>3. snap[t].status \in Statuses
      BY DEF Row
    <3>4. QED
      BY <3>2, <3>3 DEF StatusEvent
  <2> HIDE DEF e
  <2>2. AddEvent(t, e)
    BY <1>5 DEF RecordStatus, e
  <2>3. QED
    BY <1>5, <2>1, <2>2 DEF RecordStatus, AddEvent
<1>6. ASSUME NEW t \in Txns, ReadEdit(t) PROVE TypeOK'
  BY <1>6 DEF ReadEdit, Changes
<1>7. ASSUME NEW t \in Txns, RefuseEdit(t) PROVE TypeOK'
  BY <1>7 DEF RefuseEdit, Refuse, Close
<1>8. ASSUME NEW t \in Txns, RecordChange(t) PROVE TypeOK'
  <2> DEFINE f == First(todo[t])
             e == [seq |-> nextSeq, type |-> f, to |-> ask[t].set[f], by |-> t]
  <2>1. e \in FieldEvent
    <3>1. f \in todo[t]
      BY <1>8, FirstIsOne DEF RecordChange
    <3>2. ask[t].kind = "edit" /\ f \in Changes(t, snap[t])
      BY <1>8, <3>1 DEF AskInv, RecordChange
    <3>3. f \in Fields /\ ask[t].set[f] \in Values
      BY <3>2, ChangesAreValues
    <3> HIDE DEF f
    <3>4. QED
      BY <3>3 DEF FieldEvent
  <2>2. AddEvent(t, e) /\ todo' = [todo EXCEPT ![t] = @ \ {f}]
    BY <1>8 DEF RecordChange
  <2> HIDE DEF e, f
  <2>3. lockedBy' \in Txns \union {NoTxn}
    BY <1>8 DEF RecordChange
  <2>4. QED
    BY <1>8, <2>1, <2>2, <2>3 DEF RecordChange, AddEvent
<1>9. ASSUME NEW t \in Txns, FlushEdit(t) PROVE TypeOK'
  BY <1>9 DEF FlushEdit
<1>10. ASSUME NEW t \in Txns, Commit(t) PROVE TypeOK'
  BY <1>10, WrittenIsRow DEF Commit, Close
<1>11. ASSUME NEW t \in Txns, PublishToOrg(t) PROVE TypeOK'
  BY <1>11 DEF PublishToOrg
<1>12. ASSUME NEW t \in Txns, PublishToIncident(t) PROVE TypeOK'
  BY <1>12 DEF PublishToIncident
<1>13. ASSUME NEW t \in Txns, Fail(t) PROVE TypeOK'
  BY <1>13 DEF Fail, Close
<1>14. ASSUME UNCHANGED vars PROVE TypeOK'
  BY <1>14 DEF vars, requestVars
<1>15. QED
  BY <1>1, <1>2, <1>3, <1>4, <1>5, <1>6, <1>7, <1>8, <1>9, <1>10, <1>11, <1>12, <1>13, <1>14 DEF Next, Step

LEMMA AskStep ==
  ASSUME TypeOK, AskInv, TypeOK', [Next]_vars
  PROVE  AskInv'
<1> USE DEF TypeOK, AskInv, Steps, InTransaction, Goto, requestVars, Changes,
            is_legal
<1>1. ASSUME NEW t \in Txns, Send(t) PROVE AskInv'
  BY <1>1 DEF Send
<1>2. ASSUME NEW t \in Txns, ReadStatus(t) PROVE AskInv'
  BY <1>2 DEF ReadStatus, MayOpen, Acceptable
<1>3. ASSUME NEW t \in Txns, RefuseStatus(t) PROVE AskInv'
  BY <1>3 DEF RefuseStatus, Refuse, Close
<1>4. ASSUME NEW t \in Txns, FlushStatus(t) PROVE AskInv'
  BY <1>4 DEF FlushStatus
<1>5. ASSUME NEW t \in Txns, RecordStatus(t) PROVE AskInv'
  BY <1>5 DEF RecordStatus, AddEvent
<1>6. ASSUME NEW t \in Txns, ReadEdit(t) PROVE AskInv'
  BY <1>6 DEF ReadEdit, MayOpen
<1>7. ASSUME NEW t \in Txns, RefuseEdit(t) PROVE AskInv'
  BY <1>7 DEF RefuseEdit, Refuse, Close
<1>8. ASSUME NEW t \in Txns, RecordChange(t) PROVE AskInv'
  BY <1>8 DEF RecordChange, AddEvent
<1>9. ASSUME NEW t \in Txns, FlushEdit(t) PROVE AskInv'
  BY <1>9 DEF FlushEdit
<1>10. ASSUME NEW t \in Txns, Commit(t) PROVE AskInv'
  BY <1>10 DEF Commit, Close
<1>11. ASSUME NEW t \in Txns, PublishToOrg(t) PROVE AskInv'
  BY <1>11 DEF PublishToOrg
<1>12. ASSUME NEW t \in Txns, PublishToIncident(t) PROVE AskInv'
  BY <1>12 DEF PublishToIncident
<1>13. ASSUME NEW t \in Txns, Fail(t) PROVE AskInv'
  BY <1>13 DEF Fail, Close
<1>14. ASSUME UNCHANGED vars PROVE AskInv'
  BY <1>14 DEF vars
<1>15. QED
  BY <1>1, <1>2, <1>3, <1>4, <1>5, <1>6, <1>7, <1>8, <1>9, <1>10, <1>11, <1>12, <1>13, <1>14 DEF Next, Step

LEMMA LockStep ==
  ASSUME TypeOK, LockInv, TypeOK', [Next]_vars
  PROVE  LockInv'
<1> USE LifecycleAssumption DEF TypeOK, LockInv, Steps, Goto, MayUpdate
<1>1. ASSUME NEW t \in Txns, Send(t) PROVE LockInv'
  BY <1>1 DEF Send
<1>2. ASSUME NEW t \in Txns, ReadStatus(t) PROVE LockInv'
  BY <1>2 DEF ReadStatus
<1>3. ASSUME NEW t \in Txns, RefuseStatus(t) PROVE LockInv'
  BY <1>3 DEF RefuseStatus, Refuse, Close
<1>4. ASSUME NEW t \in Txns, FlushStatus(t) PROVE LockInv'
  BY <1>4 DEF FlushStatus
<1>5. ASSUME NEW t \in Txns, RecordStatus(t) PROVE LockInv'
  BY <1>5 DEF RecordStatus, AddEvent
<1>6. ASSUME NEW t \in Txns, ReadEdit(t) PROVE LockInv'
  BY <1>6 DEF ReadEdit
<1>7. ASSUME NEW t \in Txns, RefuseEdit(t) PROVE LockInv'
  BY <1>7 DEF RefuseEdit, Refuse, Close
<1>8. ASSUME NEW t \in Txns, RecordChange(t) PROVE LockInv'
  BY <1>8 DEF RecordChange, AddEvent
<1>9. ASSUME NEW t \in Txns, FlushEdit(t) PROVE LockInv'
  BY <1>9 DEF FlushEdit
<1>10. ASSUME NEW t \in Txns, Commit(t) PROVE LockInv'
  BY <1>10 DEF Commit, Close
<1>11. ASSUME NEW t \in Txns, PublishToOrg(t) PROVE LockInv'
  BY <1>11 DEF PublishToOrg
<1>12. ASSUME NEW t \in Txns, PublishToIncident(t) PROVE LockInv'
  BY <1>12 DEF PublishToIncident
<1>13. ASSUME NEW t \in Txns, Fail(t) PROVE LockInv'
  BY <1>13 DEF Fail, Close
<1>14. ASSUME UNCHANGED vars PROVE LockInv'
  BY <1>14 DEF vars
<1>15. QED
  BY <1>1, <1>2, <1>3, <1>4, <1>5, <1>6, <1>7, <1>8, <1>9, <1>10, <1>11, <1>12, <1>13, <1>14 DEF Next, Step

LEMMA SeqStep ==
  ASSUME TypeOK, SeqInv, TypeOK', [Next]_vars
  PROVE  SeqInv'
<1> USE DEF TypeOK, SeqInv, StatusEvent, FieldEvent
<1>1. ASSUME NEW t \in Txns, Send(t) PROVE SeqInv'
  BY <1>1 DEF Send
<1>2. ASSUME NEW t \in Txns, ReadStatus(t) PROVE SeqInv'
  BY <1>2 DEF ReadStatus
<1>3. ASSUME NEW t \in Txns, RefuseStatus(t) PROVE SeqInv'
  BY <1>3 DEF RefuseStatus, Refuse, Close
<1>4. ASSUME NEW t \in Txns, FlushStatus(t) PROVE SeqInv'
  BY <1>4 DEF FlushStatus
<1>5. ASSUME NEW t \in Txns, RecordStatus(t) PROVE SeqInv'
  BY <1>5 DEF RecordStatus, AddEvent
<1>6. ASSUME NEW t \in Txns, ReadEdit(t) PROVE SeqInv'
  BY <1>6 DEF ReadEdit
<1>7. ASSUME NEW t \in Txns, RefuseEdit(t) PROVE SeqInv'
  BY <1>7 DEF RefuseEdit, Refuse, Close
<1>8. ASSUME NEW t \in Txns, RecordChange(t) PROVE SeqInv'
  BY <1>8 DEF RecordChange, AddEvent
<1>9. ASSUME NEW t \in Txns, FlushEdit(t) PROVE SeqInv'
  BY <1>9 DEF FlushEdit
<1>10. ASSUME NEW t \in Txns, Commit(t) PROVE SeqInv'
  BY <1>10 DEF Commit, Close
<1>11. ASSUME NEW t \in Txns, PublishToOrg(t) PROVE SeqInv'
  BY <1>11 DEF PublishToOrg
<1>12. ASSUME NEW t \in Txns, PublishToIncident(t) PROVE SeqInv'
  BY <1>12 DEF PublishToIncident
<1>13. ASSUME NEW t \in Txns, Fail(t) PROVE SeqInv'
  BY <1>13 DEF Fail, Close
<1>14. ASSUME UNCHANGED vars PROVE SeqInv'
  BY <1>14 DEF vars
<1>15. QED
  BY <1>1, <1>2, <1>3, <1>4, <1>5, <1>6, <1>7, <1>8, <1>9, <1>10, <1>11, <1>12, <1>13, <1>14 DEF Next, Step

\* Only a commit changes what others see.
LEMMA OnlyCommitsShow ==
  ASSUME [Next]_vars, ~ \E t \in Txns : Commit(t)
  PROVE  UNCHANGED <<row, events, committed>>
BY DEF Next, Step, Send, ReadStatus, RefuseStatus, FlushStatus, RecordStatus,
       ReadEdit, RefuseEdit, RecordChange, FlushEdit, PublishToOrg,
       PublishToIncident, Fail, Refuse, vars

\* A commit adds the status event of a status change, numbered after all that
\* are there, and no status event for an edit.
LEMMA CommittedStatus ==
  ASSUME TypeOK, AskInv, PendingInv, NEW t \in Txns, Commit(t),
         ask[t].kind = "status"
  PROVE  /\ \E e : StatusEventOf(t, e) /\ StatusEvents' = StatusEvents \union {e}
         /\ row' = Written(t)
         /\ is_legal(snap[t].status, ask[t].to)
<1>1. PICK e : pending[t] = {e} /\ StatusEventOf(t, e)
  BY DEF PendingInv, Commit
<1>2. e.type = "status"
  BY <1>1 DEF StatusEventOf, StatusEvent
<1>3. StatusEvents' = StatusEvents \union {e}
  BY <1>1, <1>2 DEF Commit, StatusEvents
<1>4. is_legal(snap[t].status, ask[t].to)
  BY DEF AskInv, Commit, InTransaction
<1>5. QED
  BY <1>1, <1>3, <1>4 DEF Commit

LEMMA CommittedEdit ==
  ASSUME TypeOK, PendingInv, NEW t \in Txns, Commit(t), ask[t].kind = "edit"
  PROVE  StatusEvents' = StatusEvents /\ row' = Written(t)
<1>1. \A e \in pending[t] : e.type # "status"
  BY DEF PendingInv, FieldEvent, Fields
<1>2. QED
  BY <1>1 DEF Commit, StatusEvents

\* The step that a status change asks for is from a status it read, to one that
\* is neither open nor the same.
LEMMA LegalStep ==
  ASSUME NEW from \in Statuses, NEW to, is_legal(from, to)
  PROVE  /\ to # "open"
         /\ to = "acknowledged" <=> from = "open"
         /\ to = "postmortem" <=> from = "resolved"
BY DEF is_legal, LEGAL_TRANSITIONS, Statuses

LEMMA MilestonesStep ==
  ASSUME TypeOK, AskInv, SnapInv, PendingInv, MilestonesStamped, [Next]_vars
  PROVE  MilestonesStamped'
<1>1. CASE ~ \E t \in Txns : Commit(t)
  BY <1>1, OnlyCommitsShow DEF MilestonesStamped
<1>2. ASSUME NEW t \in Txns, Commit(t), ask[t].kind = "status"
      PROVE  MilestonesStamped'
  <2>1. is_legal(snap[t].status, ask[t].to) /\ row' = Written(t)
    BY <1>2, CommittedStatus
  <2>2. snap[t].status \in Statuses
    BY DEF TypeOK, Row
  <2>3. /\ ask[t].to = "acknowledged" <=> snap[t].status = "open"
        /\ ask[t].to = "postmortem" <=> snap[t].status = "resolved"
    BY <2>1, <2>2, LegalStep
  <2>4. /\ Stamped(snap[t])
        /\ snap[t].acknowledged_at # NoTxn => row.acknowledged_at # NoTxn
        /\ snap[t].resolved_at # NoTxn => row.resolved_at # NoTxn
    BY <1>2 DEF SnapInv, Commit, InTransaction
  <2>5. QED
    BY <1>2, <2>1, <2>3, <2>4, WrittenStatus, LifecycleAssumption
       DEF MilestonesStamped, Stamped
<1>3. ASSUME NEW t \in Txns, Commit(t), ask[t].kind = "edit"
      PROVE  MilestonesStamped'
  BY <1>3, CommittedEdit, WrittenEdit DEF MilestonesStamped
<1>4. QED
  BY <1>1, <1>2, <1>3, AskKinds

LEMMA TimelineStep ==
  ASSUME TypeOK, AskInv, PendingInv, TimelineTellsStatus, [Next]_vars
  PROVE  TimelineTellsStatus'
<1>1. CASE ~ \E t \in Txns : Commit(t)
  BY <1>1, OnlyCommitsShow DEF TimelineTellsStatus, StatusEvents, IsLast
<1>2. ASSUME NEW t \in Txns, Commit(t), ask[t].kind = "status"
      PROVE  TimelineTellsStatus'
  <2>1. PICK e : StatusEventOf(t, e) /\ StatusEvents' = StatusEvents \union {e}
    BY <1>2, CommittedStatus
  <2>2. row'.status = e.to
    BY <1>2, <2>1, CommittedStatus, WrittenStatus DEF StatusEventOf
  <2>3. \A d \in StatusEvents : d.seq < e.seq /\ d.seq \in Nat
    BY <2>1 DEF StatusEventOf, StatusEvents, TypeOK, StatusEvent, FieldEvent
  <2>4. e.seq \in Nat
    BY <2>1 DEF StatusEventOf, StatusEvent
  <2>5. ASSUME NEW d \in StatusEvents', IsLast(d, StatusEvents') PROVE d = e
    BY <2>1, <2>3, <2>4, <2>5 DEF IsLast
  <2>6. StatusEvents' # {}
    BY <2>1
  <2>7. QED
    BY <2>2, <2>5, <2>6 DEF TimelineTellsStatus
<1>3. ASSUME NEW t \in Txns, Commit(t), ask[t].kind = "edit"
      PROVE  TimelineTellsStatus'
  BY <1>3, CommittedEdit, WrittenEdit DEF TimelineTellsStatus, IsLast
<1>4. QED
  BY <1>1, <1>2, <1>3, AskKinds

LEMMA OriginStep ==
  ASSUME TypeOK, AskInv, SnapInv, PendingInv, StatusEventsHaveOrigin, [Next]_vars
  PROVE  StatusEventsHaveOrigin'
<1>1. CASE ~ \E t \in Txns : Commit(t)
  BY <1>1, OnlyCommitsShow DEF StatusEventsHaveOrigin, StatusEvents
<1>2. ASSUME NEW t \in Txns, Commit(t), ask[t].kind = "status"
      PROVE  StatusEventsHaveOrigin'
  <2>1. PICK e : StatusEventOf(t, e) /\ StatusEvents' = StatusEvents \union {e}
    BY <1>2, CommittedStatus
  <2>2. e.to \in LEGAL_TRANSITIONS[e.from]
    BY <1>2, <2>1, CommittedStatus DEF StatusEventOf, is_legal
  <2>3. HasOrigin(e.from)
    BY <1>2, <2>1 DEF SnapInv, Commit, InTransaction, StatusEventOf
  <2>4. e.from = "open" \/ \E d \in StatusEvents : d.seq < e.seq /\ d.to = e.from
    BY <2>1, <2>3 DEF HasOrigin, StatusEventOf
  <2>5. QED
    BY <2>1, <2>2, <2>4 DEF StatusEventsHaveOrigin
<1>3. ASSUME NEW t \in Txns, Commit(t), ask[t].kind = "edit"
      PROVE  StatusEventsHaveOrigin'
  BY <1>3, CommittedEdit DEF StatusEventsHaveOrigin
<1>4. QED
  BY <1>1, <1>2, <1>3, AskKinds

\* What a step of another request than t's commit leaves of t's read, and what
\* opening t makes of it.
LEMMA SnapFrame ==
  ASSUME TypeOK, [Next]_vars, NEW t \in Txns, pc'[t] \in InTransaction
  PROVE  \/ snap'[t] = snap[t] /\ pc[t] \in InTransaction
         \/ snap'[t] = row /\ row' = row
<1> USE DEF TypeOK, InTransaction, Goto, requestVars
<1>1. ASSUME NEW u \in Txns, Send(u)
      PROVE  \/ snap'[t] = snap[t] /\ pc[t] \in InTransaction
             \/ snap'[t] = row /\ row' = row
  BY <1>1 DEF Send
<1>2. ASSUME NEW u \in Txns, ReadStatus(u)
      PROVE  \/ snap'[t] = snap[t] /\ pc[t] \in InTransaction
             \/ snap'[t] = row /\ row' = row
  BY <1>2 DEF ReadStatus
<1>3. ASSUME NEW u \in Txns, RefuseStatus(u)
      PROVE  \/ snap'[t] = snap[t] /\ pc[t] \in InTransaction
             \/ snap'[t] = row /\ row' = row
  BY <1>3 DEF RefuseStatus, Refuse, Close
<1>4. ASSUME NEW u \in Txns, FlushStatus(u)
      PROVE  \/ snap'[t] = snap[t] /\ pc[t] \in InTransaction
             \/ snap'[t] = row /\ row' = row
  BY <1>4 DEF FlushStatus
<1>5. ASSUME NEW u \in Txns, RecordStatus(u)
      PROVE  \/ snap'[t] = snap[t] /\ pc[t] \in InTransaction
             \/ snap'[t] = row /\ row' = row
  BY <1>5 DEF RecordStatus, AddEvent
<1>6. ASSUME NEW u \in Txns, ReadEdit(u)
      PROVE  \/ snap'[t] = snap[t] /\ pc[t] \in InTransaction
             \/ snap'[t] = row /\ row' = row
  BY <1>6 DEF ReadEdit
<1>7. ASSUME NEW u \in Txns, RefuseEdit(u)
      PROVE  \/ snap'[t] = snap[t] /\ pc[t] \in InTransaction
             \/ snap'[t] = row /\ row' = row
  BY <1>7 DEF RefuseEdit, Refuse, Close
<1>8. ASSUME NEW u \in Txns, RecordChange(u)
      PROVE  \/ snap'[t] = snap[t] /\ pc[t] \in InTransaction
             \/ snap'[t] = row /\ row' = row
  BY <1>8 DEF RecordChange, AddEvent
<1>9. ASSUME NEW u \in Txns, FlushEdit(u)
      PROVE  \/ snap'[t] = snap[t] /\ pc[t] \in InTransaction
             \/ snap'[t] = row /\ row' = row
  BY <1>9 DEF FlushEdit
<1>10. ASSUME NEW u \in Txns, Commit(u)
      PROVE  \/ snap'[t] = snap[t] /\ pc[t] \in InTransaction
             \/ snap'[t] = row /\ row' = row
  BY <1>10 DEF Commit, Close
<1>11. ASSUME NEW u \in Txns, PublishToOrg(u)
      PROVE  \/ snap'[t] = snap[t] /\ pc[t] \in InTransaction
             \/ snap'[t] = row /\ row' = row
  BY <1>11 DEF PublishToOrg
<1>12. ASSUME NEW u \in Txns, PublishToIncident(u)
      PROVE  \/ snap'[t] = snap[t] /\ pc[t] \in InTransaction
             \/ snap'[t] = row /\ row' = row
  BY <1>12 DEF PublishToIncident
<1>13. ASSUME NEW u \in Txns, Fail(u)
      PROVE  \/ snap'[t] = snap[t] /\ pc[t] \in InTransaction
             \/ snap'[t] = row /\ row' = row
  BY <1>13 DEF Fail, Close
<1>14. CASE UNCHANGED vars
  BY <1>14 DEF vars
<1>15. QED
  BY <1>1, <1>2, <1>3, <1>4, <1>5, <1>6, <1>7, <1>8, <1>9, <1>10, <1>11, <1>12, <1>13, <1>14 DEF Next, Step

LEMMA SnapStep ==
  ASSUME TypeOK, TypeOK', AskInv, PendingInv, SnapInv, MilestonesStamped, [Next]_vars
  PROVE  SnapInv'
<1> DEFINE Grows ==
      /\ StatusEvents \subseteq StatusEvents'
      /\ row.acknowledged_at # NoTxn => row'.acknowledged_at # NoTxn
      /\ row.resolved_at # NoTxn => row'.resolved_at # NoTxn
      /\ HasOrigin(row.status)'
<1>1. CASE ~ \E t \in Txns : Commit(t)
  <2>1. Grows
    BY <1>1, OnlyCommitsShow DEF StatusEvents, SnapInv, HasOrigin
  <2>2. QED
    BY <2>1, SnapFrame DEF SnapInv, HasOrigin, Stamped, MilestonesStamped
<1>2. ASSUME NEW t \in Txns, Commit(t) PROVE SnapInv'
  <2>1. Grows
    <3>1. CASE ask[t].kind = "status"
      <4>1. PICK e : StatusEventOf(t, e) /\ StatusEvents' = StatusEvents \union {e}
        BY <1>2, <3>1, CommittedStatus
      <4>2. row'.status = e.to
        BY <1>2, <3>1, <4>1, CommittedStatus, WrittenStatus DEF StatusEventOf
      <4>3. QED
        BY <1>2, <3>1, <4>1, <4>2, CommittedStatus, WrittenStatus,
           LifecycleAssumption DEF HasOrigin
    <3>2. CASE ask[t].kind = "edit"
      BY <1>2, <3>2, CommittedEdit, WrittenEdit DEF SnapInv, HasOrigin
    <3>3. QED
      BY <3>1, <3>2, AskKinds
  <2>2. QED
    BY <2>1, SnapFrame DEF SnapInv, HasOrigin, Stamped, MilestonesStamped
<1>3. QED
  BY <1>1, <1>2

\* The events of the transactions other than t's are what they were.
LEMMA OthersPending ==
  ASSUME PendingInv, NEW t \in Txns, StatusEvents' = StatusEvents, ask' = ask,
         \A u \in Txns \ {t} : /\ pc'[u] = pc[u]
                               /\ snap'[u] = snap[u]
                               /\ pending'[u] = pending[u],
         /\ ask[t].kind = "status" /\ pc'[t] # "commit" => pending'[t] = {}
         /\ ask[t].kind = "status" /\ pc'[t] = "commit"
              => \E e : pending'[t] = {e} /\ StatusEventOf(t, e)'
         /\ ask[t].kind = "edit" => pending'[t] \subseteq FieldEvent
  PROVE  PendingInv'
<1>1. \A u \in Txns \ {t} : \A e : StatusEventOf(u, e) => StatusEventOf(u, e)'
  BY DEF StatusEventOf
<1>2. QED
  BY <1>1 DEF PendingInv

LEMMA SamePending ==
  ASSUME PendingInv, NEW t \in Txns, StatusEvents' = StatusEvents, ask' = ask,
         \A u \in Txns \ {t} : /\ pc'[u] = pc[u]
                               /\ snap'[u] = snap[u]
                               /\ pending'[u] = pending[u],
         \/ pending'[t] = {} /\ pc'[t] # "commit"
         \/ /\ pending'[t] = pending[t]
            /\ ask[t].kind = "status" => pc[t] # "commit" /\ pc'[t] # "commit"
  PROVE  PendingInv'
<1>1. /\ ask[t].kind = "status" /\ pc'[t] # "commit" => pending'[t] = {}
      /\ ~(ask[t].kind = "status" /\ pc'[t] = "commit")
      /\ ask[t].kind = "edit" => pending'[t] \subseteq FieldEvent
  BY DEF PendingInv
<1>2. QED
  BY <1>1, OthersPending

LEMMA PendingStep ==
  ASSUME TypeOK, TypeOK', AskInv, LockInv, SeqInv, PendingInv, [Next]_vars
  PROVE  PendingInv'
<1> USE DEF TypeOK, Goto, requestVars, Steps, StatusEvents
<1>1. ASSUME NEW t \in Txns, Send(t) PROVE PendingInv'
  BY <1>1, SamePending DEF Send
<1>2. ASSUME NEW t \in Txns, ReadStatus(t) PROVE PendingInv'
  BY <1>2, SamePending DEF MayOpen, ReadStatus
<1>3. ASSUME NEW t \in Txns, RefuseStatus(t) PROVE PendingInv'
  BY <1>3, SamePending DEF RefuseStatus, Refuse, Close
<1>4. ASSUME NEW t \in Txns, FlushStatus(t) PROVE PendingInv'
  BY <1>4, SamePending DEF FlushStatus, AskInv
<1>5. ASSUME NEW t \in Txns, RecordStatus(t) PROVE PendingInv'
  <2>1. PICK e : e = [seq |-> nextSeq, type |-> "status", from |-> snap[t].status,
                      to |-> ask[t].to, by |-> t]
    OBVIOUS
  <2>2. ask[t].kind = "status" /\ pending[t] = {}
    BY <1>5 DEF RecordStatus, AskInv, PendingInv
  <2>3. pending' = [pending EXCEPT ![t] = {e}]
    BY <1>5, <2>1, <2>2 DEF RecordStatus, AddEvent
  <2>4. /\ e \in StatusEvent
        /\ e.from = snap[t].status /\ e.to = ask[t].to /\ e.by = t
    BY <2>1, <2>2, AskKinds DEF StatusEvent, StatusChange, Row
  <2>5. \A d \in StatusEvents : d.seq < e.seq
    BY <2>1 DEF SeqInv
  <2>6. StatusEvents' = StatusEvents /\ UNCHANGED <<ask, snap>>
    BY <1>5 DEF RecordStatus
  <2>7. StatusEventOf(t, e)'
    BY <2>4, <2>5, <2>6 DEF StatusEventOf
  <2>8. \A u \in Txns \ {t} : pc'[u] = pc[u] /\ pending'[u] = pending[u]
    BY <1>5, <2>3 DEF RecordStatus
  <2>9. pending'[t] = {e} /\ pc'[t] = "commit"
    BY <1>5, <2>3 DEF RecordStatus
  <2> HIDE DEF TypeOK, Goto, requestVars, Steps, StatusEvents
  <2>10. QED
    BY <2>2, <2>6, <2>7, <2>8, <2>9, OthersPending
<1>6. ASSUME NEW t \in Txns, ReadEdit(t) PROVE PendingInv'
  BY <1>6, SamePending DEF MayOpen, ReadEdit
<1>7. ASSUME NEW t \in Txns, RefuseEdit(t) PROVE PendingInv'
  BY <1>7, SamePending DEF RefuseEdit, Refuse, Close
<1>8. ASSUME NEW t \in Txns, RecordChange(t) PROVE PendingInv'
  <2> DEFINE f == First(todo[t])
             e == [seq |-> nextSeq, type |-> f, to |-> ask[t].set[f], by |-> t]
  <2>1. ask[t].kind = "edit" /\ todo[t] \subseteq Changes(t, snap[t])
    BY <1>8 DEF RecordChange, AskInv
  <2>2. f \in Fields /\ ask[t].set[f] \in Values
    BY <1>8, <2>1, FirstIsOne, ChangesAreValues DEF RecordChange
  <2>3. e \in FieldEvent
    <3> HIDE DEF f
    <3>1. QED
      BY <2>2 DEF FieldEvent
  <2>4. pending' = [pending EXCEPT ![t] = @ \union {e}]
    BY <1>8 DEF RecordChange, AddEvent
  <2> HIDE DEF e
  <2>5. StatusEvents' = StatusEvents /\ UNCHANGED <<pc, ask, snap>>
    BY <1>8 DEF RecordChange
  <2>6. /\ pending'[t] \subseteq FieldEvent
        /\ \A u \in Txns \ {t} : pending'[u] = pending[u]
    BY <2>1, <2>3, <2>4 DEF PendingInv
  <2> HIDE DEF TypeOK, Goto, requestVars, Steps, StatusEvents
  <2>7. QED
    BY <2>1, <2>5, <2>6, OthersPending
<1>9. ASSUME NEW t \in Txns, FlushEdit(t) PROVE PendingInv'
  BY <1>9, SamePending DEF FlushEdit, AskInv
<1>10. ASSUME NEW t \in Txns, Commit(t) PROVE PendingInv'
  <2>1. \A u \in Txns \ {t} : /\ ask[u].kind = "status" => pc[u] # "commit"
                              /\ pc'[u] = pc[u] /\ pending'[u] = pending[u]
    BY <1>10 DEF Commit, LockInv, Close
  <2>2. pending'[t] = {} /\ pc'[t] # "commit" /\ ask' = ask
    BY <1>10 DEF Commit, Close
  <2> HIDE DEF TypeOK, Goto, requestVars, Steps, StatusEvents
  <2>3. QED
    BY <2>1, <2>2 DEF PendingInv
<1>11. ASSUME NEW t \in Txns, PublishToOrg(t) PROVE PendingInv'
  BY <1>11, SamePending DEF PublishToOrg
<1>12. ASSUME NEW t \in Txns, PublishToIncident(t) PROVE PendingInv'
  BY <1>12, SamePending DEF PublishToIncident
<1>13. ASSUME NEW t \in Txns, Fail(t) PROVE PendingInv'
  BY <1>13, SamePending DEF Fail, Close
<1>14. CASE UNCHANGED vars
  BY <1>14 DEF vars, PendingInv, StatusEventOf
<1>15. QED
  BY <1>1, <1>2, <1>3, <1>4, <1>5, <1>6, <1>7, <1>8, <1>9, <1>10, <1>11, <1>12, <1>13, <1>14 DEF Next, Step

LEMMA OutStep ==
  ASSUME TypeOK, TypeOK', AskInv, PendingInv, OutInv, [Next]_vars
  PROVE  OutInv'
<1> USE DEF TypeOK, OutInv, Goto, requestVars, Steps
<1>1. ASSUME NEW t \in Txns, Send(t) PROVE OutInv'
  BY <1>1 DEF Send, StatusEvents
<1>2. ASSUME NEW t \in Txns, ReadStatus(t) PROVE OutInv'
  BY <1>2 DEF ReadStatus, StatusEvents
<1>3. ASSUME NEW t \in Txns, RefuseStatus(t) PROVE OutInv'
  BY <1>3 DEF RefuseStatus, Refuse, Close, StatusEvents
<1>4. ASSUME NEW t \in Txns, FlushStatus(t) PROVE OutInv'
  BY <1>4 DEF FlushStatus, StatusEvents
<1>5. ASSUME NEW t \in Txns, RecordStatus(t) PROVE OutInv'
  BY <1>5 DEF RecordStatus, AddEvent, StatusEvents
<1>6. ASSUME NEW t \in Txns, ReadEdit(t) PROVE OutInv'
  BY <1>6 DEF ReadEdit, StatusEvents
<1>7. ASSUME NEW t \in Txns, RefuseEdit(t) PROVE OutInv'
  BY <1>7 DEF RefuseEdit, Refuse, Close, StatusEvents
<1>8. ASSUME NEW t \in Txns, RecordChange(t) PROVE OutInv'
  BY <1>8 DEF RecordChange, AddEvent, StatusEvents
<1>9. ASSUME NEW t \in Txns, FlushEdit(t) PROVE OutInv'
  BY <1>9 DEF FlushEdit, StatusEvents
<1>10. ASSUME NEW t \in Txns, Commit(t) PROVE OutInv'
  <2>1. \A u \in committed' : u \in committed \/ u = t
    BY <1>10 DEF Commit
  <2>2. ask[t].kind = "status" => \E e \in StatusEvents' : e.by = t
    BY <1>10, CommittedStatus DEF StatusEventOf
  <2>3. StatusEvents \subseteq StatusEvents'
    BY <1>10 DEF Commit, StatusEvents
  <2>4. ask' = ask
    BY <1>10 DEF Commit
  <2>5. QED
    BY <1>10, <2>1, <2>2, <2>3, <2>4 DEF Commit
<1>11. ASSUME NEW t \in Txns, PublishToOrg(t) PROVE OutInv'
  BY <1>11 DEF PublishToOrg, StatusEvents
<1>12. ASSUME NEW t \in Txns, PublishToIncident(t) PROVE OutInv'
  BY <1>12 DEF PublishToIncident, StatusEvents
<1>13. ASSUME NEW t \in Txns, Fail(t) PROVE OutInv'
  BY <1>13 DEF Fail, Close, StatusEvents
<1>14. ASSUME UNCHANGED vars PROVE OutInv'
  BY <1>14 DEF vars, StatusEvents
<1>15. QED
  BY <1>1, <1>2, <1>3, <1>4, <1>5, <1>6, <1>7, <1>8, <1>9, <1>10, <1>11, <1>12, <1>13, <1>14 DEF Next, Step

LEMMA InitLifecycleInv == Init => LifecycleInv
<1> SUFFICES ASSUME Init PROVE LifecycleInv
  OBVIOUS
<1>1. TypeOK
  BY LifecycleAssumption, CreatedIsRow DEF Init, TypeOK, Steps
<1>2. AskInv /\ LockInv /\ SeqInv /\ PendingInv /\ OutInv
  BY DEF Init, AskInv, LockInv, SeqInv, PendingInv, OutInv, InTransaction
<1>3. SnapInv /\ MilestonesStamped
  BY DEF Init, SnapInv, MilestonesStamped, HasOrigin, Created, InTransaction
<1>4. TimelineTellsStatus /\ StatusEventsHaveOrigin
  BY DEF Init, TimelineTellsStatus, StatusEventsHaveOrigin, StatusEvents, Created
<1>5. QED
  BY <1>1, <1>2, <1>3, <1>4 DEF LifecycleInv

LEMMA LifecycleInvStep == LifecycleInv /\ [Next]_vars => LifecycleInv'
<1> SUFFICES ASSUME LifecycleInv, [Next]_vars PROVE LifecycleInv'
  OBVIOUS
<1> USE DEF LifecycleInv
<1>1. TypeOK'
  BY TypeStep
<1>2. AskInv' /\ LockInv' /\ SeqInv'
  BY <1>1, AskStep, LockStep, SeqStep
<1>3. SnapInv' /\ PendingInv' /\ OutInv'
  BY <1>1, SnapStep, PendingStep, OutStep
<1>4. MilestonesStamped' /\ TimelineTellsStatus' /\ StatusEventsHaveOrigin'
  BY MilestonesStep, TimelineStep, OriginStep
<1>5. QED
  BY <1>1, <1>2, <1>3, <1>4

LEMMA LifecycleInvHolds == Spec => []LifecycleInv
BY InitLifecycleInv, LifecycleInvStep, PTL DEF Spec

-----------------------------------------------------------------------------
\* Every variable keeps its type: the version is never below its default, and
\* a row never takes a value no request asked for.
THEOREM TypeCorrect == Spec => []TypeOK
<1>1. LifecycleInv => TypeOK
  BY DEF LifecycleInv
<1>2. QED
  BY <1>1, LifecycleInvHolds, PTL

\* transition_status stamps from what it read: however the transitions of an
\* incident overlap, one that left "open" has its acknowledgement time and one
\* that was resolved its resolution time.
THEOREM MilestonesAreStamped == Spec => []MilestonesStamped
<1>1. LifecycleInv => MilestonesStamped
  BY DEF LifecycleInv
<1>2. QED
  BY <1>1, LifecycleInvHolds, PTL

\* transition_status numbers its event while it holds the row: the last status
\* event is the status of the row, for any overlap.
THEOREM TimelineIsRight == Spec => []TimelineTellsStatus
<1>1. LifecycleInv => TimelineTellsStatus
  BY DEF LifecycleInv
<1>2. QED
  BY <1>1, LifecycleInvHolds, PTL

\* Each status event is a legal step from a status the timeline led to before.
THEOREM EventsHaveOrigin == Spec => []StatusEventsHaveOrigin
<1>1. LifecycleInv => StatusEventsHaveOrigin
  BY DEF LifecycleInv
<1>2. QED
  BY <1>1, LifecycleInvHolds, PTL

\* The handlers publish after their commit: a broker message is about a change
\* that can be read.
THEOREM AnnouncementsAreReal == Spec => []AnnouncedIsOnTimeline
<1>1. LifecycleInv => AnnouncedIsOnTimeline
  BY DEF LifecycleInv, OutInv, AnnouncedIsOnTimeline
<1>2. QED
  BY <1>1, LifecycleInvHolds, PTL

\* No overlap of requests brings an incident back to "open".
THEOREM NeverOpenAgain == Spec => NeverReopened
<1>1. LifecycleInv /\ [Next]_vars => [row.status # "open" => row'.status # "open"]_vars
  <2> SUFFICES ASSUME LifecycleInv, [Next]_vars, row.status # "open"
               PROVE  row'.status # "open"
    OBVIOUS
  <2> USE DEF LifecycleInv
  <2>1. CASE ~ \E t \in Txns : Commit(t)
    BY <2>1, OnlyCommitsShow
  <2>2. ASSUME NEW t \in Txns, Commit(t), ask[t].kind = "status"
        PROVE  row'.status # "open"
    <3>1. snap[t].status \in Statuses
      BY DEF TypeOK, Row
    <3>2. QED
      BY <2>2, <3>1, CommittedStatus, WrittenStatus, LegalStep
  <2>3. ASSUME NEW t \in Txns, Commit(t), ask[t].kind = "edit"
        PROVE  row'.status # "open"
    BY <2>3, CommittedEdit, WrittenEdit
  <2>4. QED
    BY <2>1, <2>2, <2>3, AskKinds
<1>2. QED
  BY <1>1, LifecycleInvHolds, PTL DEF Spec, NeverReopened

\* Status events become visible in the order of their numbers, so that paging
\* the timeline by seq misses none of them.
THEOREM StatusEventsAreInOrder == Spec => StatusEventsArriveInOrder
<1>1. LifecycleInv /\ [Next]_vars =>
        [\A e \in StatusEvents, d \in StatusEvents' \ StatusEvents :
           e.seq < d.seq]_vars
  <2> SUFFICES ASSUME LifecycleInv, [Next]_vars,
                      NEW e \in StatusEvents, NEW d \in StatusEvents' \ StatusEvents
               PROVE  e.seq < d.seq
    OBVIOUS
  <2> USE DEF LifecycleInv
  <2>1. PICK t \in Txns : Commit(t)
    BY OnlyCommitsShow DEF StatusEvents
  <2>2. ask[t].kind = "status"
    BY <2>1, CommittedEdit, AskKinds
  <2>3. QED
    BY <2>1, <2>2, CommittedStatus DEF StatusEventOf
<1>2. QED
  BY <1>1, LifecycleInvHolds, PTL DEF Spec, StatusEventsArriveInOrder

-----------------------------------------------------------------------------
(* One transaction at a time.                                              *)

SerialInv ==
  /\ \A t, u \in Opened : t = u
  /\ \A t \in Opened : snap[t] = row
  /\ \A t \in Txns : ask[t].kind = "edit" /\ pc[t] \in {"sent", "edit", "commit"}
       => /\ knew[t] \subseteq committed
          /\ seen[t] = 1 + Cardinality(knew[t])
          /\ pc[t] # "sent" => knew[t] = committed
  /\ \A t \in committed : pc[t] \in {"publish_org", "publish_incident", "done"}
  /\ VersionCountsMutations

LEMMA NobodyElseOpen ==
  ASSUME MaxOpen = 1, TypeOK, NEW t \in Txns, MayOpen(t)
  PROVE  Opened = {}
<1>1. IsFiniteSet(Opened)
  BY LifecycleAssumption, FS_Subset DEF Opened
<1>2. Cardinality(Opened) \in Nat /\ Cardinality(Opened) < 1
  BY <1>1, FS_CardinalityType DEF MayOpen
<1>3. QED
  BY <1>1, <1>2, FS_EmptySet

\* Under SerialInv, an If-Match version that still fits was read from a row that
\* nobody has changed since: versions count the commits.
LEMMA MatchIsFresh ==
  ASSUME TypeOK, SerialInv, NEW t \in Txns, ask[t].kind = "edit", pc[t] = "sent",
         row.version = seen[t]
  PROVE  knew[t] = committed
<1>1. IsFiniteSet(committed)
  BY LifecycleAssumption, FS_Subset DEF TypeOK
<1>2. knew[t] \subseteq committed /\ IsFiniteSet(knew[t])
  BY <1>1, FS_Subset DEF SerialInv
<1>3. Cardinality(knew[t]) \in Nat /\ Cardinality(committed) \in Nat
  BY <1>1, <1>2, FS_CardinalityType
<1>4. Cardinality(knew[t]) = Cardinality(committed)
  BY <1>3 DEF SerialInv, VersionCountsMutations
<1>5. QED
  BY <1>1, <1>2, <1>4, FS_Subset

LEMMA SerialCommit ==
  ASSUME TypeOK, TypeOK', AskInv, SerialInv, NEW t \in Txns, Commit(t)
  PROVE  /\ row'.version = 1 + Cardinality(committed')
         /\ t \notin committed
<1>1. t \in Opened /\ t \notin committed
  BY DEF Commit, SerialInv, Opened, InTransaction
<1>2. row'.version = row.version + 1
  BY <1>1, AskKinds, WrittenStatus, WrittenEdit DEF Commit, SerialInv
<1>3. IsFiniteSet(committed)
  BY LifecycleAssumption, FS_Subset DEF TypeOK
<1>4. /\ Cardinality(committed') = Cardinality(committed) + 1
      /\ Cardinality(committed) \in Nat
  BY <1>1, <1>3, FS_AddElement, FS_CardinalityType DEF Commit
<1>5. QED
  BY <1>1, <1>2, <1>4 DEF SerialInv, VersionCountsMutations

LEMMA SerialStep ==
  ASSUME MaxOpen = 1, TypeOK, TypeOK', AskInv, SerialInv, [Next]_vars
  PROVE  SerialInv'
<1> USE DEF TypeOK, SerialInv, Steps, Goto, requestVars, Opened, InTransaction,
            VersionCountsMutations
<1>1. ASSUME NEW t \in Txns, Send(t) PROVE SerialInv'
  BY <1>1 DEF Send
<1>2. ASSUME NEW t \in Txns, ReadStatus(t) PROVE SerialInv'
  <2>1. Opened = {}
    BY <1>2, NobodyElseOpen DEF ReadStatus
  <2>2. QED
    BY <1>2, <2>1 DEF ReadStatus, MayOpen
<1>3. ASSUME NEW t \in Txns, RefuseStatus(t) PROVE SerialInv'
  BY <1>3 DEF RefuseStatus, Refuse, Close
<1>4. ASSUME NEW t \in Txns, FlushStatus(t) PROVE SerialInv'
  BY <1>4 DEF FlushStatus
<1>5. ASSUME NEW t \in Txns, RecordStatus(t) PROVE SerialInv'
  <2>1. ask[t].kind = "status"
    BY <1>5 DEF RecordStatus, AskInv
  <2>2. Opened' = Opened
    BY <1>5 DEF RecordStatus
  <2>3. QED
    BY <1>5, <2>1, <2>2 DEF RecordStatus
<1>6. ASSUME NEW t \in Txns, ReadEdit(t) PROVE SerialInv'
  <2>1. Opened = {}
    BY <1>6, NobodyElseOpen DEF ReadEdit
  <2>2. knew[t] = committed
    BY <1>6, MatchIsFresh DEF ReadEdit, MayOpen
  <2>3. QED
    BY <1>6, <2>1, <2>2 DEF ReadEdit, MayOpen
<1>7. ASSUME NEW t \in Txns, RefuseEdit(t) PROVE SerialInv'
  BY <1>7 DEF RefuseEdit, Refuse, Close
<1>8. ASSUME NEW t \in Txns, RecordChange(t) PROVE SerialInv'
  BY <1>8 DEF RecordChange, AddEvent
<1>9. ASSUME NEW t \in Txns, FlushEdit(t) PROVE SerialInv'
  BY <1>9 DEF FlushEdit
<1>10. ASSUME NEW t \in Txns, Commit(t) PROVE SerialInv'
  <2>1. row'.version = 1 + Cardinality(committed') /\ t \notin committed
    BY <1>10, SerialCommit
  <2>2. Opened = {t}
    BY <1>10 DEF Commit
  <2>3. QED
    BY <1>10, <2>1, <2>2 DEF Commit, Close
<1>11. ASSUME NEW t \in Txns, PublishToOrg(t) PROVE SerialInv'
  BY <1>11 DEF PublishToOrg
<1>12. ASSUME NEW t \in Txns, PublishToIncident(t) PROVE SerialInv'
  BY <1>12 DEF PublishToIncident
<1>13. ASSUME NEW t \in Txns, Fail(t) PROVE SerialInv'
  BY <1>13 DEF Fail, Close
<1>14. CASE UNCHANGED vars
  BY <1>14 DEF vars
<1>15. QED
  BY <1>1, <1>2, <1>3, <1>4, <1>5, <1>6, <1>7, <1>8, <1>9, <1>10, <1>11, <1>12, <1>13, <1>14 DEF Next, Step

LEMMA InitSerialInv == Init => SerialInv
BY FS_EmptySet DEF Init, SerialInv, Created, Opened, InTransaction,
   VersionCountsMutations

LEMMA SerialInvHolds == MaxOpen = 1 /\ Spec => [](LifecycleInv /\ SerialInv)
<1> SUFFICES ASSUME MaxOpen = 1 PROVE Spec => [](LifecycleInv /\ SerialInv)
  OBVIOUS
<1>1. LifecycleInv /\ LifecycleInv' /\ SerialInv /\ [Next]_vars => SerialInv'
  BY SerialStep DEF LifecycleInv
<1>2. QED
  BY <1>1, InitSerialInv, LifecycleInvHolds, PTL DEF Spec

\* The version of the incident counts its mutations if they do not overlap.
THEOREM VersionIsACount == MaxOpen = 1 /\ Spec => []VersionCountsMutations
<1>1. LifecycleInv /\ SerialInv => VersionCountsMutations
  BY DEF SerialInv
<1>2. QED
  BY <1>1, SerialInvHolds, PTL

\* If-Match protects an edit as documented if transactions do not overlap: the
\* incident an edit is committed to is the one its client read.
THEOREM SerialEditsAreSafe == MaxOpen = 1 /\ Spec => NoLostUpdate
<1>1. LifecycleInv /\ SerialInv /\ [Next]_vars =>
        [\A t \in committed' \ committed :
           ask[t].kind = "edit" => committed = knew[t]]_vars
  <2> SUFFICES ASSUME LifecycleInv, SerialInv, [Next]_vars,
                      NEW t \in committed' \ committed, ask[t].kind = "edit"
               PROVE  committed = knew[t]
    OBVIOUS
  <2>1. PICK u \in Txns : Commit(u)
    BY OnlyCommitsShow
  <2>2. u = t
    BY <2>1 DEF Commit
  <2>3. QED
    BY <2>1, <2>2 DEF Commit, SerialInv
<1>2. QED
  BY <1>1, SerialInvHolds, PTL DEF Spec, NoLostUpdate

\* The status of the row follows LEGAL_TRANSITIONS if transactions do not
\* overlap.
THEOREM SerialPathsAreLegal == MaxOpen = 1 /\ Spec => OnlyLegalPaths
<1>1. LifecycleInv /\ SerialInv /\ [Next]_vars =>
        [row'.status # row.status => is_legal(row.status, row'.status)]_vars
  <2> SUFFICES ASSUME LifecycleInv, SerialInv, [Next]_vars,
                      row'.status # row.status
               PROVE  is_legal(row.status, row'.status)
    OBVIOUS
  <2> USE DEF LifecycleInv
  <2>1. PICK t \in Txns : Commit(t)
    BY OnlyCommitsShow
  <2>2. ask[t].kind = "status"
    BY <2>1, CommittedEdit, WrittenEdit, AskKinds
  <2>3. snap[t] = row
    BY <2>1 DEF SerialInv, Commit, Opened, InTransaction
  <2>4. QED
    BY <2>1, <2>2, <2>3, CommittedStatus, WrittenStatus
<1>2. QED
  BY <1>1, SerialInvHolds, PTL DEF Spec, OnlyLegalPaths

-----------------------------------------------------------------------------
(* The timeline of the fields.                                             *)

\* What an edit has recorded: each change it need not record any more, with the
\* value it is about to write, after everything on the timeline.
RecordedBy(t) ==
  /\ \A e \in pending[t] : /\ e.type \in Changes(t, snap[t])
                           /\ e.to = ask[t].set[e.type]
                           /\ \A d \in events : d.seq < e.seq
  /\ \A f \in Changes(t, snap[t]) \ todo[t] : \E e \in pending[t] : e.type = f

EditsInv ==
  \A t \in Txns :
    /\ pc[t] \in {"idle", "sent"} => pending[t] = {}
    /\ ask[t].kind = "edit" /\ pc[t] \in {"edit", "commit"} => RecordedBy(t)
    /\ ask[t].kind = "edit" /\ pc[t] = "commit" => todo[t] = {}

FieldsInv == EditsInv /\ TimelineTellsFields

\* A step that leaves the timeline and what t is recording as they are.
LEMMA SameRecord ==
  ASSUME NEW t \in Txns, RecordedBy(t), events' = events, ask' = ask, pending'[t] = pending[t],
         snap'[t] = snap[t], todo'[t] = todo[t]
  PROVE  RecordedBy(t)'
BY DEF RecordedBy, Changes

LEMMA EditsRecord ==
  ASSUME TypeOK, AskInv, SeqInv, EditsInv, NEW t \in Txns, RecordChange(t)
  PROVE  RecordedBy(t)'
<1> DEFINE f == First(todo[t])
           e == [seq |-> nextSeq, type |-> f, to |-> ask[t].set[f], by |-> t]
<1>1. f \in todo[t] /\ todo[t] \subseteq Changes(t, snap[t]) /\ ask[t].kind = "edit"
  BY FirstIsOne DEF RecordChange, AskInv, TypeOK
<1>2. /\ pending'[t] = pending[t] \union {e} /\ todo'[t] = todo[t] \ {f}
      /\ events' = events /\ ask' = ask /\ snap' = snap
  BY DEF RecordChange, AddEvent, TypeOK, requestVars
<1>3. e.type = f /\ e.to = ask[t].set[f] /\ e.seq = nextSeq
  OBVIOUS
<1>4. RecordedBy(t)
  BY <1>1 DEF EditsInv, RecordChange
<1>5. \A d \in events : d.seq < nextSeq
  BY DEF SeqInv
<1> HIDE DEF e, f
<1> QED
  BY <1>1, <1>2, <1>3, <1>4, <1>5 DEF RecordedBy, Changes

LEMMA EditsStep ==
  ASSUME TypeOK, TypeOK', AskInv, SeqInv, SerialInv, EditsInv, [Next]_vars
  PROVE  EditsInv'
<1> USE DEF Goto, requestVars
<1>1. ask \in [Txns -> StatusChange \union Edit] /\ pc \in [Txns -> Steps]
      /\ snap \in [Txns -> Row] /\ todo \in [Txns -> SUBSET Fields]
      /\ pending \in [Txns -> SUBSET (StatusEvent \union FieldEvent)]
  BY DEF TypeOK
<1>2. ASSUME NEW t \in Txns, UNCHANGED <<ask, events>>,
             \A u \in Txns \ {t} : /\ pc'[u] = pc[u] /\ snap'[u] = snap[u]
                                   /\ todo'[u] = todo[u] /\ pending'[u] = pending[u],
             pc'[t] \in {"idle", "sent"} => pending'[t] = {},
             ask[t].kind = "edit" /\ pc'[t] \in {"edit", "commit"} => RecordedBy(t)',
             ask[t].kind = "edit" /\ pc'[t] = "commit" => todo'[t] = {}
      PROVE  EditsInv'
  <2>1. ASSUME NEW u \in Txns \ {t}, ask[u].kind = "edit", pc[u] \in {"edit", "commit"}
        PROVE  RecordedBy(u)'
    BY <1>2, <2>1, SameRecord DEF EditsInv
  <2> QED
    BY <1>2, <2>1 DEF EditsInv
<1>3. ASSUME NEW t \in Txns, Send(t) PROVE EditsInv'
  BY <1>1, <1>2, <1>3 DEF Send, EditsInv
<1>4. ASSUME NEW t \in Txns, ReadStatus(t) PROVE EditsInv'
  BY <1>1, <1>2, <1>4 DEF ReadStatus
<1>5. ASSUME NEW t \in Txns, RefuseStatus(t) \/ RefuseEdit(t) \/ Fail(t) PROVE EditsInv'
  BY <1>1, <1>2, <1>5 DEF RefuseStatus, RefuseEdit, Fail, Refuse, Close
<1>6. ASSUME NEW t \in Txns, FlushStatus(t) PROVE EditsInv'
  BY <1>1, <1>2, <1>6 DEF FlushStatus
<1>7. ASSUME NEW t \in Txns, RecordStatus(t) PROVE EditsInv'
  BY <1>1, <1>2, <1>7 DEF RecordStatus, AddEvent, AskInv
<1>8. ASSUME NEW t \in Txns, ReadEdit(t) PROVE EditsInv'
  <2>1. pending'[t] = {} /\ pc'[t] = "edit"
    BY <1>1, <1>8 DEF ReadEdit, MayOpen, EditsInv
  <2>2. snap'[t] = row /\ todo'[t] = Changes(t, row) /\ ask' = ask
    BY <1>1, <1>8 DEF ReadEdit
  <2>3. RecordedBy(t)'
    BY <2>1, <2>2 DEF RecordedBy, Changes
  <2> QED
    BY <1>1, <1>2, <1>8, <2>1, <2>3 DEF ReadEdit
<1>9. ASSUME NEW t \in Txns, RecordChange(t) PROVE EditsInv'
  <2>1. RecordedBy(t)' /\ pc' = pc /\ pc[t] = "edit"
    BY <1>9, EditsRecord DEF RecordChange
  <2>2. UNCHANGED <<ask, events, snap>>
        /\ \A u \in Txns \ {t} : todo'[u] = todo[u] /\ pending'[u] = pending[u]
    BY <1>1, <1>9 DEF RecordChange, AddEvent
  <2> QED
    BY <1>2, <2>1, <2>2
<1>10. ASSUME NEW t \in Txns, FlushEdit(t) PROVE EditsInv'
  <2>1. UNCHANGED <<ask, events, snap, todo, pending>> /\ todo[t] = {} /\ pc[t] = "edit"
        /\ pc'[t] = "commit" /\ \A u \in Txns \ {t} : pc'[u] = pc[u]
    BY <1>1, <1>10 DEF FlushEdit
  <2>2. ask[t].kind = "edit" => RecordedBy(t)'
    BY <2>1, SameRecord DEF EditsInv
  <2> QED
    BY <1>2, <2>1, <2>2
<1>11. ASSUME NEW t \in Txns, Commit(t) PROVE EditsInv'
  <2>1. \A u \in Txns \ {t} : pc[u] \notin {"edit", "commit"}
    BY <1>11 DEF SerialInv, Commit, Opened, InTransaction
  <2>2. \A u \in Txns : /\ pc'[u] = IF u = t THEN "publish_org" ELSE pc[u]
                        /\ u # t => pending'[u] = pending[u]
    BY <1>1, <1>11 DEF Commit, Close
  <2> QED
    BY <1>11, <2>1, <2>2 DEF EditsInv, Commit
<1>12. ASSUME NEW t \in Txns, PublishToOrg(t) PROVE EditsInv'
  BY <1>1, <1>2, <1>12 DEF PublishToOrg
<1>13. ASSUME NEW t \in Txns, PublishToIncident(t) PROVE EditsInv'
  BY <1>1, <1>2, <1>13 DEF PublishToIncident
<1>14. CASE UNCHANGED vars
  BY <1>14 DEF vars, EditsInv, RecordedBy, Changes
<1> QED
  BY <1>3, <1>4, <1>5, <1>6, <1>7, <1>8, <1>9, <1>10, <1>11, <1>12, <1>13, <1>14
     DEF Next, Step

LEMMA FieldsCommit ==
  ASSUME TypeOK, PendingInv, SerialInv, EditsInv, TimelineTellsFields,
         NEW t \in Txns, Commit(t)
  PROVE  TimelineTellsFields'
<1>1. pc[t] = "commit" /\ row' = Written(t) /\ events' = events \union pending[t]
  BY DEF Commit
<1>2. \A e \in events \union pending[t] : e.seq \in Nat
  BY DEF TypeOK, StatusEvent, FieldEvent
<1>3. CASE ask[t].kind = "status"
  <2>1. \A e \in pending[t] : e.type = "status"
    BY <1>1, <1>3 DEF PendingInv, StatusEventOf, StatusEvent
  <2>2. row'.fields = row.fields
    BY <1>1, <1>3 DEF Written, WithStatus
  <2>3. \A f \in {"severity", "assigned_to"} :
          {e \in events' : e.type = f} = {e \in events : e.type = f}
    BY <1>1, <2>1
  <2> QED
    BY <2>2, <2>3 DEF TimelineTellsFields
<1>4. CASE ask[t].kind = "edit"
  <2>1. RecordedBy(t) /\ todo[t] = {}
    BY <1>1, <1>4 DEF EditsInv
  <2>2. ASSUME NEW f \in {"severity", "assigned_to"}
        PROVE  row'.fields[f] = IF f \in Changes(t, snap[t]) THEN ask[t].set[f]
                                ELSE row.fields[f]
    BY <1>1, <1>4 DEF Written, WithEdit, Fields
  <2>3. ASSUME NEW f \in {"severity", "assigned_to"}, f \notin Changes(t, snap[t])
        PROVE  {e \in events' : e.type = f} = {e \in events : e.type = f}
    BY <1>1, <2>1, <2>3 DEF RecordedBy
  <2>4. ASSUME NEW f \in {"severity", "assigned_to"}, f \in Changes(t, snap[t])
        PROVE  /\ {e \in events' : e.type = f} # {}
               /\ \A e \in events' :
                    e.type = f /\ IsLast(e, {d \in events' : d.type = f}) => e.to = ask[t].set[f]
    <3>1. PICK p \in pending[t] : p.type = f
      BY <2>1, <2>4 DEF RecordedBy
    <3>2. p \in events'
      BY <1>1, <3>1
    <3>3. ASSUME NEW e \in events', e.type = f, IsLast(e, {d \in events' : d.type = f})
          PROVE  e.to = ask[t].set[f]
      <4>1. p.seq <= e.seq
        BY <3>1, <3>2, <3>3 DEF IsLast
      <4>2. e \notin events
        BY <1>2, <2>1, <3>1, <4>1 DEF RecordedBy
      <4> QED
        BY <1>1, <2>1, <3>3, <4>2 DEF RecordedBy
    <3> QED
      BY <3>1, <3>2, <3>3
  <2> QED
    BY <2>2, <2>3, <2>4 DEF TimelineTellsFields, IsLast
<1> QED
  BY <1>3, <1>4, AskKinds

LEMMA FieldsStep ==
  ASSUME LifecycleInv, TypeOK', SerialInv, FieldsInv, [Next]_vars
  PROVE  FieldsInv'
<1>1. EditsInv'
  BY EditsStep DEF FieldsInv, LifecycleInv
<1>2. TimelineTellsFields'
  <2>1. CASE \E t \in Txns : Commit(t)
    BY <2>1, FieldsCommit DEF FieldsInv, LifecycleInv
  <2>2. CASE ~ \E t \in Txns : Commit(t)
    BY <2>2, OnlyCommitsShow DEF FieldsInv, TimelineTellsFields
  <2> QED
    BY <2>1, <2>2
<1> QED
  BY <1>1, <1>2 DEF FieldsInv

LEMMA InitFieldsInv == Init => FieldsInv
<1> SUFFICES ASSUME Init PROVE FieldsInv
  OBVIOUS
<1>1. EditsInv
  BY DEF Init, EditsInv
<1>2. row.fields = [f \in Fields |-> InitialValue] /\ events = {}
  BY DEF Init, Created
<1>3. TimelineTellsFields
  BY <1>2 DEF TimelineTellsFields, Fields
<1> QED
  BY <1>1, <1>3 DEF FieldsInv

\* update_incident records the value it is about to set: the last event of the
\* severity and of the assignee names the value in the row, if transactions on
\* the incident do not overlap.
THEOREM SerialTimelineTellsFields == MaxOpen = 1 /\ Spec => []TimelineTellsFields
<1> SUFFICES ASSUME MaxOpen = 1 PROVE Spec => []TimelineTellsFields
  OBVIOUS
<1>1. LifecycleInv /\ LifecycleInv' /\ SerialInv /\ FieldsInv /\ [Next]_vars => FieldsInv'
  BY FieldsStep DEF LifecycleInv
<1>2. FieldsInv => TimelineTellsFields
  BY DEF FieldsInv
<1> QED
  BY <1>1, <1>2, InitFieldsInv, SerialInvHolds, PTL DEF Spec
===============================================================================
