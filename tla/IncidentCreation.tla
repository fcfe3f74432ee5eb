--------------------------- MODULE IncidentCreation ---------------------------
(***************************************************************************)
(* POST /orgs/{org_slug}/incidents: what concurrent executions of the      *)
(* create_incident handler do to one Postgres database, to the broker and  *)
(* to the job queue.  Each execution is one transaction: it looks its      *)
(* Idempotency-Key up, locks the organisation's counter row, inserts the   *)
(* incident and the key row, commits, and only then publishes the event    *)
(* and, for a sev1, queues the first escalation check.                     *)
(*                                                                         *)
(* Postgres runs at READ COMMITTED: a statement sees what was committed    *)
(* when it started, SELECT ... FOR UPDATE waits for the row, and an INSERT *)
(* that meets an uncommitted row with its primary key waits for the other  *)
(* transaction.  Rows a transaction has not committed are seen by nobody   *)
(* else, so they are kept here as the request's own state.                 *)
(***************************************************************************)
EXTENDS Naturals, FiniteSets

CONSTANTS
  Requests,          \* executions of the handler; a client's retry is another
  Orgs,
  Keys,              \* Idempotency-Key values
  NoKey,             \* the header is absent
  Asks,              \* what requests may ask for
  NoRequest,         \* the counter row is not locked
  PruneMidRequest,   \* may the retention job delete a key row while a request
                     \* with that key runs (retention of 24 h: no)
  ExpiredReadsLoad   \* does reading an attribute of an instance that a
                     \* rollback expired reload it; under AsyncSession it
                     \* raises MissingGreenlet, which the handler answers 500

Request == [org : Orgs, key : Keys \union {NoKey}, sev1 : BOOLEAN]

ASSUME CreationAssumption ==
  /\ NoKey \notin Keys
  /\ Asks \subseteq Request
  /\ NoRequest \notin Requests
  /\ PruneMidRequest \in BOOLEAN
  /\ ExpiredReadsLoad \in BOOLEAN

VARIABLES
  req,        \* what each request asks for; never changes
  pc,         \* where each execution is
  number,     \* the number in the response body r has built, 0 before
  answer,     \* what the client was told
  counter,    \* organization_counters.incident_seq, as committed
  lockedBy,   \* the transaction that holds the counter row of an organisation
  incidents,  \* committed rows; key and by are not columns but history
  keyRows,    \* committed rows of idempotency_keys; number stands for the body
  forgotten,  \* history: incidents whose key row the retention job deleted
  published,  \* incident.created events the broker was given
  checks      \* incidents for which check_escalation was queued

dbVars == <<counter, lockedBy, incidents, keyRows, forgotten>>
outVars == <<published, checks>>
vars == <<req, pc, number, answer, dbVars, outVars>>

Steps == {"idle", "lookup", "create", "store", "reread", "commit",
          "publish", "enqueue", "done"}
Answers == {"none", "created", "replayed", "error"}

Name(o, n) == [org |-> o, number |-> n]
NameOf(r) == Name(req[r].org, number[r])
Row(r) == [org |-> req[r].org, number |-> number[r], key |-> req[r].key,
           sev1 |-> req[r].sev1, by |-> r]
KeyRow(r) == [org |-> req[r].org, key |-> req[r].key, number |-> number[r]]

\* The committed row, if any, that has r's primary key (org_id, key).
RowsWithKeyOf(r) ==
  {k \in keyRows : k.org = req[r].org /\ k.key = req[r].key}

\* Another transaction has inserted r's key and has not committed yet.
OpenClaim(r) ==
  \E q \in Requests \ {r} : /\ pc[q] = "commit"
                            /\ req[q].org = req[r].org
                            /\ req[q].key = req[r].key

Goto(r, step) == pc' = [pc EXCEPT ![r] = step]
Answer(r, a) == /\ answer' = [answer EXCEPT ![r] = a]
                /\ Goto(r, "done")
\* End of the transaction: the lock on the counter row, if r has it, goes.
Unlock(r) ==
  lockedBy' = [o \in Orgs |-> IF lockedBy[o] = r THEN NoRequest ELSE lockedBy[o]]

Init ==
  /\ req \in [Requests -> Asks]
  /\ pc = [r \in Requests |-> "idle"]
  /\ number = [r \in Requests |-> 0]
  /\ answer = [r \in Requests |-> "none"]
  /\ counter = [o \in Orgs |-> 0]
  /\ lockedBy = [o \in Orgs |-> NoRequest]
  /\ incidents = {}
  /\ keyRows = {}
  /\ forgotten = {}
  /\ published = {}
  /\ checks = {}

-----------------------------------------------------------------------------
(* Bugs the handler could have had, each a variant of the action it is     *)
(* named after; no run uses them as they stand.                            *)

\* The counter row read without FOR UPDATE.
AllocateUnlocked(r) ==
  /\ pc[r] = "create"
  /\ lockedBy' = [lockedBy EXCEPT ![req[r].org] = r]
  /\ number' = [number EXCEPT ![r] = counter[req[r].org] + 1]
  /\ Goto(r, IF req[r].key = NoKey THEN "commit" ELSE "store")
  /\ UNCHANGED <<req, answer, counter, incidents, keyRows, forgotten, outVars>>

\* ON CONFLICT DO NOTHING instead of the integrity error.
StoreKeyAnyway(r) ==
  /\ pc[r] = "store"
  /\ ~OpenClaim(r)
  /\ Goto(r, "commit")
  /\ UNCHANGED <<req, number, answer, dbVars, outVars>>

\* The loser rolls back and carries on as if it had won.
LoseKeySilently(r) ==
  /\ pc[r] = "store"
  /\ ~OpenClaim(r)
  /\ RowsWithKeyOf(r) # {}
  /\ Unlock(r)
  /\ Goto(r, "publish")
  /\ UNCHANGED <<req, number, answer, counter, incidents, keyRows, forgotten,
                 outVars>>

\* A key row is written for requests that sent no key.
CommitAnyKey(r) ==
  /\ pc[r] = "commit"
  /\ counter' = [counter EXCEPT ![req[r].org] = number[r]]
  /\ incidents' = incidents \union {Row(r)}
  /\ keyRows' = keyRows \union {KeyRow(r)}
  /\ Unlock(r)
  /\ Goto(r, "publish")
  /\ UNCHANGED <<req, number, answer, forgotten, outVars>>

\* The escalation check is never queued.
PublishOnly(r) ==
  /\ pc[r] = "publish"
  /\ published' = published \union {NameOf(r)}
  /\ Answer(r, "created")
  /\ UNCHANGED <<req, number, dbVars, checks>>

\* A failed request leaves its transaction open.
FailOpen(r) ==
  /\ pc[r] \notin {"idle", "done"}
  /\ Answer(r, "error")
  /\ UNCHANGED <<req, number, dbVars, outVars>>

-----------------------------------------------------------------------------
(* The handler.                                                            *)

Arrive(r) ==
  /\ pc[r] = "idle"
  /\ Goto(r, IF req[r].key = NoKey THEN "create" ELSE "lookup")
  /\ UNCHANGED <<req, number, answer, dbVars, outVars>>

\* stored_response: a key row that is already there ends the request.
Replay(r) ==
  /\ pc[r] = "lookup"
  /\ \E k \in RowsWithKeyOf(r) : number' = [number EXCEPT ![r] = k.number]
  /\ Answer(r, "replayed")
  /\ UNCHANGED <<req, dbVars, outVars>>

NotSeenBefore(r) ==
  /\ pc[r] = "lookup"
  /\ RowsWithKeyOf(r) = {}
  /\ Goto(r, "create")
  /\ UNCHANGED <<req, number, answer, dbVars, outVars>>

\* Unknown service (404) or an assignee who is not a member (409), both found
\* before the counter is touched.
Reject(r) ==
  /\ pc[r] = "create"
  /\ Answer(r, "error")
  /\ UNCHANGED <<req, number, dbVars, outVars>>

\* allocate_sequence_number and the insert of the incident with that number.
AllocateNumber(r) ==
  /\ pc[r] = "create"
  /\ lockedBy[req[r].org] = NoRequest
  /\ lockedBy' = [lockedBy EXCEPT ![req[r].org] = r]
  /\ number' = [number EXCEPT ![r] = counter[req[r].org] + 1]
  /\ Goto(r, IF req[r].key = NoKey THEN "commit" ELSE "store")
  /\ UNCHANGED <<req, answer, counter, incidents, keyRows, forgotten, outVars>>

\* idempotency.store, insert accepted.
StoreKey(r) ==
  /\ pc[r] = "store"
  /\ ~OpenClaim(r)
  /\ RowsWithKeyOf(r) = {}
  /\ Goto(r, "commit")
  /\ UNCHANGED <<req, number, answer, dbVars, outVars>>

\* idempotency.store, IntegrityError: everything r did is rolled back.
LoseKey(r) ==
  /\ pc[r] = "store"
  /\ ~OpenClaim(r)
  /\ RowsWithKeyOf(r) # {}
  /\ Unlock(r)
  /\ Goto(r, "reread")
  /\ UNCHANGED <<req, number, answer, counter, incidents, keyRows, forgotten,
                 outVars>>

\* The winner is re-read; the handler rolls back once more, which expires the
\* instance it then takes the status and the body from.
ReplayWinner(r) ==
  /\ pc[r] = "reread"
  /\ \E k \in RowsWithKeyOf(r) :
       IF ExpiredReadsLoad
         THEN /\ number' = [number EXCEPT ![r] = k.number]
              /\ Answer(r, "replayed")
         ELSE /\ Answer(r, "error")
              /\ UNCHANGED number
  /\ UNCHANGED <<req, dbVars, outVars>>

\* The winner's row went away after the insert failed: store answers None, as
\* it does on success, and the handler commits an empty transaction.  The next
\* thing it reads is the organisation that the rollback expired.
WinnerGone(r) ==
  /\ pc[r] = "reread"
  /\ RowsWithKeyOf(r) = {}
  /\ IF ExpiredReadsLoad
       THEN Goto(r, "publish") /\ UNCHANGED answer
       ELSE Answer(r, "error")
  /\ UNCHANGED <<req, number, dbVars, outVars>>

Commit(r) ==
  /\ pc[r] = "commit"
  /\ counter' = [counter EXCEPT ![req[r].org] = number[r]]
  /\ incidents' = incidents \union {Row(r)}
  /\ keyRows' = IF req[r].key = NoKey THEN keyRows
                ELSE keyRows \union {KeyRow(r)}
  /\ Unlock(r)
  /\ Goto(r, "publish")
  /\ UNCHANGED <<req, number, answer, forgotten, outVars>>

Publish(r) ==
  /\ pc[r] = "publish"
  /\ published' = published \union {NameOf(r)}
  /\ IF req[r].sev1
       THEN Goto(r, "enqueue") /\ UNCHANGED answer
       ELSE Answer(r, "created")
  /\ UNCHANGED <<req, number, dbVars, checks>>

EnqueueCheck(r) ==
  /\ pc[r] = "enqueue"
  /\ checks' = checks \union {NameOf(r)}
  /\ Answer(r, "created")
  /\ UNCHANGED <<req, number, dbVars, published>>

\* The execution ends where it stands: an exception (database or Redis down),
\* a cancelled request, the process killed.  The open transaction, if any, is
\* rolled back; what was committed stays.
Fail(r) ==
  /\ pc[r] \notin {"idle", "done"}
  /\ Unlock(r)
  /\ Answer(r, "error")
  /\ UNCHANGED <<req, number, counter, incidents, keyRows, forgotten, outVars>>

-----------------------------------------------------------------------------
(* The retention job deletes the key rows that have reached their age.     *)

Running(r) == pc[r] \notin {"idle", "lookup", "done"}

MayExpire(k) ==
  \/ PruneMidRequest
  \/ ~ \E r \in Requests :
         Running(r) /\ req[r].org = k.org /\ req[r].key = k.key

PruneKeys(S) ==
  /\ S # {}
  /\ \A k \in S : MayExpire(k)
  /\ keyRows' = keyRows \ S
  /\ forgotten' = forgotten \union {Name(k.org, k.number) : k \in S}
  /\ UNCHANGED <<req, pc, number, answer, counter, lockedBy, incidents, outVars>>

Step(r) ==
  \/ Arrive(r) \/ Replay(r) \/ NotSeenBefore(r)
  \/ AllocateNumber(r)
  \/ StoreKey(r) \/ LoseKey(r) \/ ReplayWinner(r) \/ WinnerGone(r)
  \/ Commit(r) \/ Publish(r) \/ EnqueueCheck(r)

Next ==
  \/ \E r \in Requests : Step(r) \/ Reject(r) \/ Fail(r)
  \/ \E S \in SUBSET keyRows : PruneKeys(S)

Spec == Init /\ [][Next]_vars

\* A request that has arrived is run to its end: the event loop schedules every
\* handler, and Postgres grants a row lock that is released.  Arrivals,
\* rejections, failures and the retention job are not owed.
FairSpec ==
  /\ Spec
  /\ \A r \in Requests : WF_vars(pc[r] # "idle" /\ Step(r))

-----------------------------------------------------------------------------
(* The book that the committed rows stand for.                             *)

BookEntries == {[org |-> i.org, key |-> i.key, number |-> i.number] : i \in incidents}

Book == INSTANCE IncidentBook WITH book <- BookEntries, remembered <- keyRows

(* Seen from outside, the handlers only ever append the next number of an    *)
(* organisation's book, once for each remembered key, or forget keys: every  *)
(* other step changes nothing a reader of the database can see.              *)
ImplementsBook == Book!Spec

-----------------------------------------------------------------------------
TypeOK ==
  /\ req \in [Requests -> Request]
  /\ pc \in [Requests -> Steps]
  /\ number \in [Requests -> Nat]
  /\ answer \in [Requests -> Answers]
  /\ counter \in [Orgs -> Nat]
  /\ lockedBy \in [Orgs -> Requests \union {NoRequest}]
  /\ incidents \subseteq [org : Orgs, number : Nat, key : Keys \union {NoKey},
                          sev1 : BOOLEAN, by : Requests]
  /\ keyRows \subseteq [org : Orgs, key : Keys, number : Nat]
  /\ forgotten \subseteq [org : Orgs, number : Nat]
  /\ published \subseteq [org : Orgs, number : Nat]
  /\ checks \subseteq [org : Orgs, number : Nat]

Numbers(o) == {i.number : i \in {j \in incidents : j.org = o}}

(* The committed numbers of an organisation are 1, 2, ..., counter with no   *)
(* gap and no duplicate, whatever was rolled back or crashed in between: the *)
(* promise of allocate_sequence_number's docstring and of ADR-0004.          *)
GaplessNumbers ==
  /\ \A o \in Orgs : Numbers(o) = 1 .. counter[o]
  /\ \A i, j \in incidents : Name(i.org, i.number) = Name(j.org, j.number) => i = j

(* Two incidents of an organisation come from one Idempotency-Key only if    *)
(* the row of one of them was deleted by the retention job: "a network retry *)
(* never double-creates" (docs/api.md), for retries that overlap too.        *)
KeyCreatesOnce ==
  \A i, j \in incidents :
    /\ i # j
    /\ i.org = j.org
    /\ i.key = j.key
    /\ i.key # NoKey
    => Name(i.org, i.number) \in forgotten \/ Name(j.org, j.number) \in forgotten

(* The key row and the incident live and die in one transaction: a row names *)
(* an incident created with that key, and an incident created with a key has *)
(* its row until the retention job takes it.                                 *)
KeyRowMatchesIncident ==
  /\ \A k \in keyRows :
       \E i \in incidents : i.org = k.org /\ i.key = k.key /\ i.number = k.number
  /\ \A i \in incidents :
       \/ i.key = NoKey
       \/ [org |-> i.org, key |-> i.key, number |-> i.number] \in keyRows
       \/ Name(i.org, i.number) \in forgotten

(* A client that was told 201, first hand or by a replay, holds the number   *)
(* of an incident that is committed in its organisation and was created      *)
(* with its key; a first-hand 201 names the request's own incident.          *)
SuccessNamesIncident ==
  \A r \in Requests :
    answer[r] \in {"created", "replayed"} =>
      \E i \in incidents : /\ i.org = req[r].org
                           /\ i.number = number[r]
                           /\ i.key = req[r].key
                           /\ answer[r] = "created" => i.by = r

(* A creator that inserts its key while it holds the counter row never       *)
(* waits for another creator's uncommitted key: the two locks are always     *)
(* taken in the order counter, key, so they cannot close a cycle.            *)
NoWaitHoldingCounter ==
  \A r \in Requests : pc[r] = "store" => ~OpenClaim(r)

(* What the broker announces and the escalation queue watches is committed.  *)
EffectsAfterCommit ==
  published \union checks \subseteq {Name(i.org, i.number) : i \in incidents}

(* A committed sev1 is watched, or its handler has still to queue the check, *)
(* or its handler died: nothing else loses an escalation.                    *)
Sev1WatchedUnlessHandlerDied ==
  \A i \in incidents :
    i.sev1 => \/ Name(i.org, i.number) \in checks
              \/ pc[i.by] \in {"publish", "enqueue"}
              \/ answer[i.by] = "error"

(* "A sev1 incident that nobody acknowledges within the timeout notifies     *)
(* the person on call" (jobs/escalation.py) needs every committed sev1 to be *)
(* watched as soon as its handler has ended.                                 *)
EverySev1Watched ==
  \A i \in incidents :
    i.sev1 /\ pc[i.by] = "done" => Name(i.org, i.number) \in checks

(* "If a concurrent request already claimed the key ... replay the winner's  *)
(* response" (services/idempotency.py): a request that loses the key while   *)
(* the winner's row is there ends with a replay.                             *)
LoserIsReplayed ==
  [][\A r \in Requests : ReplayWinner(r) => answer'[r] = "replayed"]_vars

(* Numbers are handed out in the order of the commits: a reader who sees     *)
(* INC-n never sees a smaller number appear later.                           *)
CommitsInNumberOrder ==
  [][\A i \in incidents' \ incidents, j \in incidents :
       i.org = j.org => j.number < i.number]_vars

(* Every request that arrives is answered, however the others fail: no       *)
(* failure leaves the counter row locked.                                    *)
EveryRequestAnswered ==
  \A r \in Requests : pc[r] # "idle" ~> pc[r] = "done"
=============================================================================
