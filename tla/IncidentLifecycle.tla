-------------------------- MODULE IncidentLifecycle --------------------------
(***************************************************************************)
(* One incident after its creation: what concurrent status changes         *)
(* (POST .../status, transition_status) and edits (PATCH with If-Match,    *)
(* update_incident) do to its row and to its timeline.                     *)
(*                                                                         *)
(* A request is one transaction at READ COMMITTED.  It reads the row once  *)
(* (the second get_incident of change_status finds the same object in the  *)
(* session's identity map), decides on what it read, and flushes UPDATEs   *)
(* that set the changed columns to values computed from that read.  A      *)
(* flushed UPDATE holds the row's lock until the transaction ends; another *)
(* UPDATE waits for it and is then applied to the newer row.  Event        *)
(* numbers come from an identity column: taken at the INSERT, never given  *)
(* back, visible at the commit.                                            *)
(***************************************************************************)
EXTENDS Naturals, FiniteSets

CONSTANTS
  Txns,          \* requests that change the incident
  Values,        \* what a field can hold
  InitialValue,
  Absent,        \* a field the PATCH body does not name
  Asks,          \* what requests may ask for
  NoTxn,
  MaxOpen        \* how many of the transactions may be open at a time

Statuses == {"open", "acknowledged", "mitigated", "resolved", "postmortem"}
Fields == {"severity", "assigned_to", "text"}

StatusChange == [kind : {"status"}, to : Statuses, summary : BOOLEAN]
Edit == [kind : {"edit"}, set : [Fields -> Values \union {Absent}]]

ASSUME LifecycleAssumption ==
  /\ IsFiniteSet(Txns)
  /\ Asks \subseteq StatusChange \union Edit
  /\ InitialValue \in Values
  /\ Absent \notin Values
  /\ NoTxn \notin Txns
  /\ MaxOpen \in Nat

VARIABLES
  row,        \* the committed row; a milestone time is the request stamping it
  lockedBy,   \* the transaction that has flushed an UPDATE of the row
  nextSeq,    \* incident_events.seq
  events,     \* committed timeline; by is the request, not the actor
  ask,        \* what each request asks for; never changes
  pc,         \* where each request is
  seen,       \* the version the client of an edit sends as If-Match
  knew,       \* history: what was committed when that client read it
  snap,       \* the row as the transaction read it
  todo,       \* changed fields of an edit still to be recorded
  pending,    \* events of the open transaction
  committed,  \* history: requests whose transaction committed
  published   \* broker messages: <<channel, request>>

requestVars == <<ask, seen, knew, snap>>
vars == <<row, lockedBy, nextSeq, events, requestVars, pc, todo, pending,
          committed, published>>

LEGAL_TRANSITIONS ==
  [s \in Statuses |->
     CASE s = "open"         -> {"acknowledged"}
       [] s = "acknowledged" -> {"mitigated", "resolved"}
       [] s = "mitigated"    -> {"resolved"}
       [] s = "resolved"     -> {"postmortem"}
       [] OTHER              -> {}]

Row == [status : Statuses, version : Nat \ {0},
        acknowledged_at : Txns \union {NoTxn},
        resolved_at : Txns \union {NoTxn},
        fields : [Fields -> Values]]
StatusEvent == [seq : Nat, type : {"status"}, from : Statuses, to : Statuses,
                by : Txns]
FieldEvent == [seq : Nat, type : Fields, to : Values, by : Txns]

Steps == {"idle", "sent", "flush", "record", "edit", "commit",
          "publish_org", "publish_incident", "done"}
InTransaction == {"flush", "record", "edit", "commit"}
Opened == {t \in Txns : pc[t] \in InTransaction}

Goto(t, step) == pc' = [pc EXCEPT ![t] = step]
MayUpdate(t) == lockedBy \in {NoTxn, t}
\* Reading the row opens the transaction.
MayOpen(t) == pc[t] = "sent" /\ Cardinality(Opened) < MaxOpen

\* The fields an edit changes, against the row it read.
Changes(t, r) ==
  {f \in Fields : ask[t].set[f] # Absent /\ ask[t].set[f] # r.fields[f]}

\* The order in which update_incident looks at the fields.
Rank == [severity |-> 1, assigned_to |-> 2, text |-> 3]
First(S) == CHOOSE f \in S : \A g \in S : Rank[f] <= Rank[g]

-----------------------------------------------------------------------------
(* Bugs the handlers could have had, each a variant of the definition it   *)
(* is named after; no run uses them as they stand.                         *)

\* The version column without its server default.
CreatedUnversioned ==
  [status |-> "open", version |-> 0, acknowledged_at |-> NoTxn,
   resolved_at |-> NoTxn, fields |-> [f \in Fields |-> InitialValue]]

\* An incident may be opened again.
is_legal_or_reopen(current, target) ==
  target \in LEGAL_TRANSITIONS[current] \/ (current # "open" /\ target = "open")

\* Acknowledging makes no stamp.
WithStatusUnstamped(t) ==
  [row EXCEPT
     !.status = ask[t].to,
     !.version = snap[t].version + 1,
     !.resolved_at = IF ask[t].to = "resolved" THEN t ELSE @]

\* An edit does not bump the version.
WithEditUnversioned(t) ==
  [row EXCEPT
     !.fields = [f \in Fields |->
                   IF f \in Changes(t, snap[t]) THEN ask[t].set[f]
                   ELSE row.fields[f]]]

\* The event is recorded before the UPDATE is flushed.
FlushStatusUnlocked(t) ==
  /\ pc[t] = "flush"
  /\ Goto(t, "record")
  /\ UNCHANGED <<row, lockedBy, nextSeq, events, requestVars, todo, pending,
                 committed, published>>

\* The target is not looked at.
ReadStatusUnchecked(t) ==
  /\ MayOpen(t)
  /\ ask[t].kind = "status"
  /\ ask[t].to = "resolved" => ask[t].summary
  /\ snap' = [snap EXCEPT ![t] = row]
  /\ Goto(t, "flush")
  /\ UNCHANGED <<row, lockedBy, nextSeq, events, ask, seen, knew, todo, pending,
                 committed, published>>

\* The event of a field names the value it had.
RecordOldValue(t) ==
  /\ pc[t] = "edit"
  /\ todo[t] # {}
  /\ LET f == First(todo[t]) IN
       /\ pending' = [pending EXCEPT ![t] = @ \union
            {[seq |-> nextSeq, type |-> f, to |-> snap[t].fields[f], by |-> t]}]
       /\ nextSeq' = nextSeq + 1
       /\ todo' = [todo EXCEPT ![t] = @ \ {f}]
  /\ UNCHANGED <<row, lockedBy, events, requestVars, pc, committed, published>>

\* A request that fails leaves its transaction open.
FailOpen(t) ==
  /\ pc[t] \notin {"idle", "sent", "done"}
  /\ Goto(t, "done")
  /\ UNCHANGED <<row, lockedBy, nextSeq, events, requestVars, todo, pending,
                 committed, published>>

-----------------------------------------------------------------------------
(* The row.                                                                *)

AddEvent(t, e) == /\ pending' = [pending EXCEPT ![t] = @ \union {e}]
                  /\ nextSeq' = nextSeq + 1

is_legal(current, target) == target \in LEGAL_TRANSITIONS[current]

Created ==
  [status |-> "open", version |-> 1, acknowledged_at |-> NoTxn,
   resolved_at |-> NoTxn, fields |-> [f \in Fields |-> InitialValue]]

Init ==
  /\ row = Created
  /\ lockedBy = NoTxn
  /\ nextSeq = 1
  /\ events = {}
  /\ ask \in [Txns -> Asks]
  /\ pc = [t \in Txns |-> "idle"]
  /\ seen = [t \in Txns |-> 0]
  /\ knew = [t \in Txns |-> {}]
  /\ snap = [t \in Txns |-> Created]
  /\ todo = [t \in Txns |-> {}]
  /\ pending = [t \in Txns |-> {}]
  /\ committed = {}
  /\ published = {}

\* The end of t's transaction, whatever it did: what the request had read and
\* not committed is gone.
Close(t) == /\ lockedBy' = IF lockedBy = t THEN NoTxn ELSE lockedBy
            /\ pending' = [pending EXCEPT ![t] = {}]
            /\ todo' = [todo EXCEPT ![t] = {}]
            /\ seen' = [seen EXCEPT ![t] = 0]
            /\ knew' = [knew EXCEPT ![t] = {}]
            /\ snap' = [snap EXCEPT ![t] = Created]

\* What the UPDATEs of a transaction make of the row: only columns it changed
\* are set, and to values computed from what it read.
WithStatus(t) ==
  [status |-> ask[t].to,
   version |-> snap[t].version + 1,
   acknowledged_at |->
     IF ask[t].to = "acknowledged" /\ snap[t].acknowledged_at = NoTxn
       THEN t ELSE row.acknowledged_at,
   resolved_at |-> IF ask[t].to = "resolved" THEN t ELSE row.resolved_at,
   fields |-> row.fields]

WithEdit(t) ==
  [status |-> row.status,
   version |-> snap[t].version + 1,
   acknowledged_at |-> row.acknowledged_at,
   resolved_at |-> row.resolved_at,
   fields |-> [f \in Fields |-> IF f \in Changes(t, snap[t])
                                 THEN ask[t].set[f] ELSE row.fields[f]]]

Written(t) == IF ask[t].kind = "status" THEN WithStatus(t) ELSE WithEdit(t)

-----------------------------------------------------------------------------
(* Before the transaction.                                                 *)

\* The client of an edit has read the incident and its ETag; a status change
\* needs neither.
Send(t) ==
  /\ pc[t] = "idle"
  /\ IF ask[t].kind = "edit"
       THEN /\ seen' = [seen EXCEPT ![t] = row.version]
            /\ knew' = [knew EXCEPT ![t] = committed]
       ELSE UNCHANGED <<seen, knew>>
  /\ Goto(t, "sent")
  /\ UNCHANGED <<row, lockedBy, nextSeq, events, ask, snap, todo, pending,
                 committed, published>>

\* 409 or 400, and the rollback.
Refuse(t) ==
  /\ Close(t)
  /\ Goto(t, "done")
  /\ UNCHANGED <<row, nextSeq, events, ask, committed, published>>

-----------------------------------------------------------------------------
(* POST /status.                                                           *)

Acceptable(t) == /\ is_legal(row.status, ask[t].to)
                 /\ ask[t].to = "resolved" => ask[t].summary

ReadStatus(t) ==
  /\ MayOpen(t)
  /\ ask[t].kind = "status"
  /\ Acceptable(t)
  /\ snap' = [snap EXCEPT ![t] = row]
  /\ Goto(t, "flush")
  /\ UNCHANGED <<row, lockedBy, nextSeq, events, ask, seen, knew, todo, pending,
                 committed, published>>

RefuseStatus(t) ==
  /\ MayOpen(t)
  /\ ask[t].kind = "status"
  /\ ~Acceptable(t)
  /\ Refuse(t)

\* session.flush: the UPDATE waits for the row and keeps it.
FlushStatus(t) ==
  /\ pc[t] = "flush"
  /\ MayUpdate(t)
  /\ lockedBy' = t
  /\ Goto(t, "record")
  /\ UNCHANGED <<row, nextSeq, events, requestVars, todo, pending, committed,
                 published>>

RecordStatus(t) ==
  /\ pc[t] = "record"
  /\ AddEvent(t, [seq |-> nextSeq, type |-> "status", from |-> snap[t].status,
                  to |-> ask[t].to, by |-> t])
  /\ Goto(t, "commit")
  /\ UNCHANGED <<row, lockedBy, events, requestVars, todo, committed, published>>

-----------------------------------------------------------------------------
(* PATCH.                                                                  *)

ReadEdit(t) ==
  /\ MayOpen(t)
  /\ ask[t].kind = "edit"
  /\ row.version = seen[t]
  /\ snap' = [snap EXCEPT ![t] = row]
  /\ todo' = [todo EXCEPT ![t] = Changes(t, row)]
  /\ Goto(t, "edit")
  /\ UNCHANGED <<row, lockedBy, nextSeq, events, ask, seen, knew, pending,
                 committed, published>>

\* A version other than the one in If-Match is a 409.
RefuseEdit(t) ==
  /\ MayOpen(t)
  /\ ask[t].kind = "edit"
  /\ row.version # seen[t]
  /\ Refuse(t)

\* Has the session a change of the row to write when it flushes the event of
\* the field f?  The severity and the assignee are set after their event, the
\* texts before it.
Dirty(t, f) == f = "text" \/ todo[t] # Changes(t, snap[t])

\* One timeline.record.  Its flush inserts the event and, if the row is dirty,
\* updates it; no relationship() orders the two statements.  An assignee who is
\* not a member ends the request instead: see Fail.
RecordChange(t) ==
  /\ pc[t] = "edit"
  /\ todo[t] # {}
  /\ LET f == First(todo[t]) IN
       /\ AddEvent(t, [seq |-> nextSeq, type |-> f, to |-> ask[t].set[f], by |-> t])
       /\ todo' = [todo EXCEPT ![t] = @ \ {f}]
       /\ \/ UNCHANGED lockedBy
          \/ Dirty(t, f) /\ MayUpdate(t) /\ lockedBy' = t
  /\ UNCHANGED <<row, events, requestVars, pc, committed, published>>

\* The last flush of update_incident writes the version, and what is left.
FlushEdit(t) ==
  /\ pc[t] = "edit"
  /\ todo[t] = {}
  /\ MayUpdate(t)
  /\ lockedBy' = t
  /\ Goto(t, "commit")
  /\ UNCHANGED <<row, nextSeq, events, requestVars, todo, pending, committed,
                 published>>

-----------------------------------------------------------------------------
(* The end of both.                                                        *)

\* The audit row that goes with every change is not kept apart: it commits
\* with the events.
Commit(t) ==
  /\ pc[t] = "commit"
  /\ row' = Written(t)
  /\ events' = events \union pending[t]
  /\ committed' = committed \union {t}
  /\ Close(t)
  /\ Goto(t, "publish_org")
  /\ UNCHANGED <<nextSeq, ask, published>>

PublishToOrg(t) ==
  /\ pc[t] = "publish_org"
  /\ published' = published \union {<<"org", t>>}
  /\ Goto(t, "publish_incident")
  /\ UNCHANGED <<row, lockedBy, nextSeq, events, requestVars, todo, pending,
                 committed>>

PublishToIncident(t) ==
  /\ pc[t] = "publish_incident"
  /\ published' = published \union {<<"incident", t>>}
  /\ Goto(t, "done")
  /\ UNCHANGED <<row, lockedBy, nextSeq, events, requestVars, todo, pending,
                 committed>>

\* A request ends early, with its transaction rolled back if it is open: an
\* assignee who is not a member, an exception, a client that went away, a crash.
\* One that ends before it reads the row is as good as never sent.
Fail(t) ==
  /\ pc[t] \notin {"idle", "sent", "done"}
  /\ Close(t)
  /\ Goto(t, "done")
  /\ UNCHANGED <<row, nextSeq, events, ask, committed, published>>

Step(t) ==
  \/ ReadStatus(t) \/ RefuseStatus(t) \/ FlushStatus(t) \/ RecordStatus(t)
  \/ ReadEdit(t) \/ RefuseEdit(t) \/ RecordChange(t) \/ FlushEdit(t)
  \/ Commit(t) \/ PublishToOrg(t) \/ PublishToIncident(t)

Next == \E t \in Txns : Send(t) \/ Step(t) \/ Fail(t)

Spec == Init /\ [][Next]_vars

\* The event loop runs every request it has accepted, and Postgres grants a
\* released row lock.  Clients and failures owe nothing.
FairSpec == Spec /\ \A t \in Txns : WF_vars(Step(t))

-----------------------------------------------------------------------------
TypeOK ==
  /\ row \in Row
  /\ lockedBy \in Txns \union {NoTxn}
  /\ nextSeq \in Nat
  /\ events \subseteq StatusEvent \union FieldEvent
  /\ ask \in [Txns -> StatusChange \union Edit]
  /\ pc \in [Txns -> Steps]
  /\ seen \in [Txns -> Nat]
  /\ knew \in [Txns -> SUBSET Txns]
  /\ snap \in [Txns -> Row]
  /\ todo \in [Txns -> SUBSET Fields]
  /\ pending \in [Txns -> SUBSET (StatusEvent \union FieldEvent)]
  /\ committed \subseteq Txns
  /\ published \subseteq {"org", "incident"} \X Txns

StatusEvents == {e \in events : e.type = "status"}
IsLast(e, S) == e \in S /\ \A d \in S : d.seq <= e.seq

(* However transitions overlap, an incident that is no longer open has its   *)
(* acknowledgement time, and one that is resolved or in postmortem has its   *)
(* resolution time: the metrics job subtracts them without asking.           *)
MilestonesStamped ==
  /\ row.status # "open" => row.acknowledged_at # NoTxn
  /\ row.status \in {"resolved", "postmortem"} => row.resolved_at # NoTxn

(* The timeline is the source of truth for the status (db/models.py): the    *)
(* last status event names the status of the row, also when two transitions  *)
(* overlap, because the event is numbered while the row lock is held.        *)
TimelineTellsStatus ==
  /\ StatusEvents = {} => row.status = "open"
  /\ \A e \in StatusEvents : IsLast(e, StatusEvents) => e.to = row.status

(* Every status event is a legal step from the status the incident was       *)
(* created with or from one an earlier event of the timeline led to.         *)
StatusEventsHaveOrigin ==
  \A e \in StatusEvents :
    /\ e.to \in LEGAL_TRANSITIONS[e.from]
    /\ \/ e.from = "open"
       \/ \E d \in StatusEvents : d.seq < e.seq /\ d.to = e.from

(* A broker message is about a change that is committed and on the timeline: *)
(* whoever reads on being told finds it.                                     *)
AnnouncedIsOnTimeline ==
  \A m \in published :
    /\ m[2] \in committed
    /\ ask[m[2]].kind = "status" => \E e \in StatusEvents : e.by = m[2]

(* An incident that has been acknowledged never shows as open again, so an   *)
(* escalation that was stopped stays stopped.                                *)
NeverReopened == [][row.status # "open" => row'.status # "open"]_vars

(* A reader that pages the timeline by seq never misses a status event: they *)
(* become visible in the order of their numbers.                             *)
StatusEventsArriveInOrder ==
  [][\A e \in StatusEvents, d \in StatusEvents' \ StatusEvents : e.seq < d.seq]_vars

(* Every request that reached the server ends, however the others fail: no   *)
(* transaction waits forever for the row.                                    *)
EveryRequestEnds == \A t \in Txns : pc[t] = "sent" ~> pc[t] = "done"

-----------------------------------------------------------------------------
(* What the documentation says.  These hold while no two transactions on     *)
(* the incident are open at a time; with two they do not.                    *)

(* "The only legal paths" (state_machine.py): the status of the row moves    *)
(* only along LEGAL_TRANSITIONS.                                             *)
OnlyLegalPaths ==
  [][row'.status # row.status => is_legal(row.status, row'.status)]_vars

(* "conflicting writes get a 409" (db/models.py): an edit is committed only  *)
(* if nothing was committed since its client read the incident.              *)
NoLostUpdate ==
  [][\A t \in committed' \ committed :
       ask[t].kind = "edit" => committed = knew[t]]_vars

(* The version is "bumped on every mutation" (db/models.py): it counts them. *)
VersionCountsMutations == row.version = 1 + Cardinality(committed)

(* The timeline is the source of truth for the severity and the assignee     *)
(* too: the last event of the field names the value in the row.              *)
TimelineTellsFields ==
  \A f \in {"severity", "assigned_to"} :
    LET recorded == {e \in events : e.type = f} IN
    /\ recorded = {} => row.fields[f] = InitialValue
    /\ \A e \in recorded : IsLast(e, recorded) => e.to = row.fields[f]
=============================================================================
