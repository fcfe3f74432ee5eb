# Incident Desk in TLA+

A specification of the parts of Incident Desk that are hard to test: what
concurrent requests do to one Postgres database, what is left undone when a
process dies between two calls, and what the escalation of an incident does
over time. The modules are translated from the Python under
`src/backend/src/incident_desk/` (paths below are relative to it), TLC checks
them on small instances, and TLAPS proves what matters most for every value of
the constants. `PROJECT.json` lists the runs, the mutants that show each
property can fail, the theorems, and for every definition the lines it stands
for.

## The system

Incident Desk is a FastAPI application over Postgres (async SQLAlchemy), Redis
(pub/sub, tickets, presence, rate limits, the job queue) and an ARQ worker.

- Every HTTP request has a session of its own (`db/engine.py`) and, in effect,
  one transaction that the handler commits explicitly. Whatever is not
  committed when the request ends is rolled back.
- The isolation level is Postgres's default, READ COMMITTED: each statement
  sees what was committed when it began. The only `SELECT ... FOR UPDATE` of
  the code is the one on the organisation's counter row. Everything else is
  read without a lock, checked in Python, and written later.
- Broker messages and jobs are sent after the commit, outside any transaction.
- ARQ retries a run that was cancelled or lost with its worker, up to
  `max_tries`, and does not retry a task that raises.

### Inventory

| Component | State | Operations | What makes it correct |
| --- | --- | --- | --- |
| Creation, numbering, idempotency (`services/incidents.py`, `services/idempotency.py`, `api/v1/incidents.py`) | counter row, incidents, key rows | POST, replay, retention | numbers 1..n without gaps, in commit order; a key creates once; effects follow commits; a sev1 is watched |
| Lifecycle (`services/incidents.py`, `state_machine.py`) | incident row with status, version, milestones; timeline | POST status, PATCH | legal paths, no lost edit, milestones stamped, timeline agrees with the row |
| Timeline (`services/timeline.py`, `pagination.py`) | events with an identity `seq` | record, list pages | append-only in the order readers page it; a walk along the cursors misses nothing it could have seen |
| Escalation (`jobs/escalation.py`, `jobs/tasks.py`) | queued checks, mails, timeline events | check_escalation, acknowledge | one step per interval, silent once acknowledged, reaches the end of the chain |
| Job queue (`jobs/worker.py`) | jobs with their tries, dead-letter set | run, retry, park | a job that fails is parked, a parked one is dead, every job ends |
| Membership (`services/members.py`, `api/v1/members.py`) | memberships with roles, invitations | change role, remove, invite, revoke, accept | at least one owner, and only owners make or unmake one; an invitation makes at most one membership |
| Authorisation, API keys (`authz.py`, `api/authz.py`, `api/deps.py`, `services/apikeys.py`) | keys with their scopes, last use and revocation | require, mint, revoke | a role or a scope permits what its set says; a key never acts as an owner |
| Accounts: registration, links, sessions, reset (`services/auth_service.py`, `services/sessions.py`) | user row, single-use links, refresh-token families, token version | register, resend, verify, forgot, reset, login, rotate, log out | at most one live token per family; a revoked family stays revoked; a reset logs out everywhere; a link works once |
| MFA (`services/mfa.py`) | secret, last time step, recovery codes | enrol, confirm, challenge | a code is accepted once; the secret in force was proved |
| Realtime (`services/realtime.py`, `api/realtime_ws.py`) | local listeners, Redis subscriptions, presence, tickets | connect, subscribe, unsubscribe, relay, clean up, drain | subscribed to Redis exactly while someone listens; departures are cleaned up |
| Comments, attachments (`services/comments.py`, `services/attachments.py`) | rows, files, scan jobs, timeline events | add, edit, delete, upload, scan | a deleted comment stays as it was; a row has its file |
| Rate limiter (`ratelimit.py`) | sorted set per bucket and identity | check | never more than the limit in a window, and never a rejection below it |
| Metrics and retention (`jobs/tasks.py`) | daily rollup, aged rows | nightly jobs | a row counts what happened on its day; a rerun that finds anything replaces it |
| Services, on-call (`services/catalog.py`, `services/oncall.py`) | services, schedules, shifts | add, rename, delete, who is on call | one person on call at a time; nothing refers to a row that is gone |
| Audit log, configuration, application shell | audit rows | — | one row in the transaction of each change; wiring |
| Web client (`frontend/src`) | tokens, socket, query cache | refresh, reconnect | one refresh at a time; nothing missed over a reconnect |

They interact through the database (creation, lifecycle, escalation, the rollup
and the retention job share the incident and key rows), the job queue (creation
queues the first check, a check queues the next, an upload its scan), and the
broker (creation and lifecycle publish, sockets listen). Escalation reads what
lifecycle writes: an incident it finds acknowledged is one that has left `open`,
which is what `MilestonesStamped` and `NeverReopened` say of the row.

What is hard in this code is nearly always the same: a request reads rows
without a lock, decides in Python, and writes under the row locks of its
UPDATEs, with another request's commit in between. Where a constraint of the
schema or a lock backs the decision, it holds; where nothing does, the models
say which overlap breaks it, and the property is stated with that exception and
no wider one. The hazards, each with its line and the properties that would
catch it, are in `PROJECT.json`.

## The modules

### IncidentBook and IncidentCreation

`IncidentBook` is the promise of `POST /orgs/{slug}/incidents`: a book per
organisation, numbered from 1; a key that is remembered creates nothing; a key
may be forgotten.

`IncidentCreation` is the handler. A request is a process with a program
counter; the steps are the database statements and calls between which other
requests run:

| Step | Action | Code |
| --- | --- | --- |
| `idle` → `lookup`/`create` | `Arrive` | the handler starts |
| `lookup` | `Replay`, `NotSeenBefore` | `idempotency.stored_response` |
| `create` | `Reject`, `AllocateNumber` | service and assignee checks; `allocate_sequence_number`, insert, timeline event |
| `store` | `StoreKey`, `LoseKey` | `idempotency.store`, the insert accepted or the `IntegrityError` and the rollback |
| `reread` | `ReplayWinner`, `WinnerGone` | the winner's row, or `None` |
| `commit` | `Commit` | `session.commit`, which makes counter, incident and key row visible at once |
| `publish`, `enqueue` | `Publish`, `EnqueueCheck` | broker and queue |
| any | `Fail` | exception, cancelled client, crash: rollback, and nothing after it |
| — | `PruneKeys` | the retention job |

The lock on the counter row is `lockedBy`; rows that are not committed are
part of the request's own state, since nobody else sees them. An insert that
meets an uncommitted key waits (`OpenClaim`). Two constants stand for facts
outside the code: `PruneMidRequest`, whether the retention job may delete a key
row while a request with that key runs (it may, in the runs: the worst case),
and `ExpiredReadsLoad`, whether reading an attribute of an instance that a
rollback expired loads it. Under `AsyncSession` it raises instead, so a request
that loses the key to a concurrent retry is answered 500 and not with the
replay that its comment announces; the runs have `FALSE`. The proofs hold for
both values except where they name one.

### IncidentLifecycle

Requests that change the status or the fields of one incident. `ReadStatus` and
`ReadEdit` read the row into `snap` without a lock and make all the checks on
it; the flushes lock the row (`lockedBy`) and events take their number from
`nextSeq` at once, outside the transaction; `Commit` applies to the row what
the UPDATEs set: the columns the request changed, computed from what it had
read (`WithStatus`, `WithEdit`). That is why overlapping requests can lose an
edit, and why the version is `snap.version + 1` and not `row.version + 1`.
`RecordChange` follows `update_incident`: the event of the severity and of the
assignee is flushed before the column is set, so the row may or may not be
locked yet. `title`, `description` and `tags` are the one field `text`: the code
treats them alike and records one event for the three.

`MaxOpen` is how many transactions may be open at a time. With one, the
optimistic concurrency of the code is all there is to say; with more, the
difference between what the documentation promises and what the code does
shows. `knew` is history: what was committed when the client of an edit read
the incident.

### Escalation

The checks of one sev1 incident. `plan` is the function of the same name;
`Start` is the part of `check_escalation` that reads (clock, incident, who is on
call) and decides, then `Notify`, `Commit`, `EnqueueNext` and `Finish` are its
calls in their order. `CutOff` (crash, shutdown) starts a run over from any
point; `Raise` ends its job. The incident is acknowledged or changes its severity
at any time. Time is counted in units of which the timeout is `Timeout`; a
job never starts early, and starts at most `MaxLate` late while time can
advance.

### JobQueue

The wrapper `with_dead_letter` inside arq's retry rules, for any set of jobs.
arq is not part of the repository; its rules are those of the version the lock
file names (0.25): `job_try` counts, a task that raises is finished, a cancelled
run is repeated, a job with more than `max_tries` is failed unseen, and a run
that exceeds `job_timeout` is cancelled, which the wrapper's `except Exception`
does not catch. `Escalation` uses the same rules with fewer faults than tries.

### Authz and Membership

`Authz` is the matrix of `authz.py`: a set per role, the role an API key
stands for (`KeyRole`), and the scopes beside it.

`Membership` is one organisation. A member of `Slots` is a connection that
serves one request after the other; `txn` holds its request (`ask`), what it has
read (`role` of the actor, `seen` of the target) and the rows and index entries it
has locked (`holds`). Every request goes the way of its handler:

| Part | Actions | Code |
| --- | --- | --- |
| authorisation | `AuthorizeMember`, `AuthorizeInvitee`, `AuthorizeKey`, `TouchKey` | `require`, `get_current_user`, `last_used_at` with a commit of its own |
| role change, removal | `LoadTarget`, `CountOwners`, `WriteTarget` | `_guard_owner_changes`, `_owner_count`, the flush |
| invitation | `LoadInvitee`, `CheckPending`, `InsertInvitation` | `create_invitation` up to `uq_org_invitations_pending` |
| revocation | `LoadRevoked`, `DeleteInvitation` | `revoke_invitation` |
| acceptance | `LoadInvitation`, `CheckMember`, `WriteAcceptance` | `accept_invitation`; primary key and row count |
| keys | `InsertKey`, `LoadKey` | `create_api_key`, `revoke_api_key` |
| all | `Commit`, `MailInvitation`, `Fail` | the commit, the mail after it, an end anywhere |

A write waits (`Free`) for whoever holds what it locks, and then acts on the row
as the other left it: an UPDATE of a row that is gone raises, a DELETE does
nothing, an INSERT meets the constraint. An insert of an address holds its entry
of the partial index until the end of its transaction.

### Accounts

One account, from its registration on. As in `Membership`, a slot is a request:
the first read of each (`Register`, `PresentVerification`, `PresentReset`,
`Login`, `Challenge`, `Enrol`, `Confirm`, `PresentToken` ...) keeps the row it
saw; `ReadUser`, `TryTotp` and `TryRecoveryCode` are the reads after it; `Flush`
and `Revoke`/`Revoked` lock; `Commit` sets the columns the request changed to
values computed from the row it had read (`Changed`). So two resets both write
`version + 1` of the same version, and an UPDATE that revokes a family does not
see a token whose INSERT is not committed. Passwords and secrets are numbers, TOTP
codes time steps. `killed`, `spent`, `respent` and `raced` are history: families
that were revoked, things used once, things used twice, and those whose uses
overlapped. A reset that was overtaken by another writes a version the account has
had before; the versions of the tokens then between password and challenge are
therefore among what it races. Expiry is left out: an expired token is refused
like an unknown one, so the model only has more behaviours.

### Realtime

The broker and the sockets of one instance. A connection is a coroutine whose
program counter stands at an await: between two awaits nothing else runs, so
`Listen` (from `listeners.add` to `subscribed.add`) is one step, and the broker's
lock is kept over the await in which a command is written to Redis. `commands`
is what was written and not acted on. `Interrupt` is a cancellation or an
exception at any await: what it leaves behind depends on where it strikes.
`StartCleanup`, `CleanNext` and `CleanupFails` are `_cleanup` in its own shielded
task; `orphans` names what a connection left in the sets without being
responsible for it any longer (a queue whose unsubscribe was interrupted while it
waited for the lock). Presence is one member per user, as in the code.

### Discussion

Comments, attachments and the timeline of one incident. `post` is a writer's
request; `given` are the numbers the identity columns have handed out, whether
or not their rows were ever committed; rows become visible at `CommitPost`.
An upload writes its file (`OpenFile`, `FinishFile`, `TooLarge`) before its row,
and its scan is queued after the commit; a scan whose worker dies before the job
is noted as ended is run again (`ScanEnds`). `reader` follows the cursors of
`list_comments` or `list_events` with `PageSize`, and its `late` is history: the
rows committed after the cursor had passed their number.

### RateLimiter

The sorted set of one bucket and identity. `TakeTime` is the clock of the host a
request runs on, at most `MaxSkew` from that of Redis either way, so stamps may be
ahead of others and out of order; `Pipeline` the four commands that run as one,
`Remove` the second call of a rejected request, `RedisError` a failure before,
between or after them (the limiter lets the request through). `DropKey` is the
expiry of the key. `gone`, `late` and `spurious` are history: requests whose entry
was removed as old, perhaps by a host whose clock is ahead, or with the key;
requests that ran when part of their window was forgotten, and requests counted
beside one that was not admitted.

### Rollup

One organisation's `org_metrics_daily`, the runs that write it and the requests
that change what they count. A request reads the status without a lock
(`ReadStatus`), stamps `resolved_at` with the time it is then, whether or not the
row has one (`StampResolved`), and writes both when it commits (`CommitChange`) or
neither (`DropChange`); midnight and the queries of a run may fall in between, and
two that overlap may resolve an incident twice. A run fixes its day (`BeginRun`):
the day it was told or, as in the cron job at 00:05, the day that has just begun.
`CountStarted` and `CountResolved` are its two queries, between which others
commit, `StoreRow` the upsert of whoever has anything to count; sets of incidents
stand for their numbers. `CutOff` is a worker that dies: the job is run again and,
if it was told no day, counts the day it is by then. What a run found keeps its
history: the day it began, the incidents there were (`known`), and those that
were stamped and not committed at its second query (`busy`). `overlapped` are the
incidents a request wrote after another had changed the status it read.

### Catalog

Services, schedules and shifts, with the incidents and members that refer to
them. `Read` is the unlocked check of each handler, `WriteRows` its statement:
it waits for the rows, index entries and uncommitted shifts another request
holds (`Waits`, `WaitsToo`), then meets the constraints (`Violates`): unique
names, foreign keys with their cascade or restriction, and the exclusion
constraint on overlapping shifts. `Shared` are the rows a foreign key keeps from
being deleted, `Alone` those the request writes.

### Desk

`Desk` composes the five modules above that keep state of their own and none of
another's: `Realtime`, `Discussion`, `RateLimiter`, `Rollup` and `Catalog`. They
share no variable, so a step of one neither enables nor disables a step of another
and a property over one part's variables holds of any interleaving if it holds of
that part alone (theorem `DeskRunsItsParts`). `part` says which is at work in a
behaviour; TLC then explores the sum of the parts and not their product.

## The runs

| Run | Instance | What it shows |
| --- | --- | --- |
| `IncidentCreation` | 3 requests, 2 organisations, 1 key, sev1 or not | its seven properties, with failures and pruning anywhere |
| `IncidentLifecycle` | 3 requests, all overlapping | what holds in spite of the unlocked read |
| `IncidentLifecycleSerial` | 4 requests, one transaction at a time | what the optimistic concurrency then guarantees |
| `LifecycleLostUpdate` | 2 overlapping requests | violated: `NoLostUpdate` |
| `LifecycleIllegalPath` | 3 requests, 2 overlapping | violated: `OnlyLegalPaths` |
| `Escalation` | chain of 2, one failing run, one change of severity | when each level is notified, and that the walk ends |
| `JobQueue` | 2 jobs, 3 tries, 4 runs cut off | what tries and dead-letter set guarantee |
| `JobQueueLostJob` | the same | violated: `FailedJobsAreParked` |
| `Membership` | 2 people, a key, 2 invitations, 2 requests at a time | who joins, who makes owners, and what it takes to lose the last one |
| `MembershipNoOwner` | the same | violated: `AnOwnerRemains` |
| `Accounts` | 1 account, 2 links, 3 tokens, 2 requests at a time | what single use, reuse detection and a reset guarantee |
| `Desk` | see below | listeners, departures, walks, deletions, files, the limit, the rollup, the catalogue |

**Bounds.** Three requests are enough for the races that matter in creation: two
that share a key and a third that competes for the counter, or commits between
the two; the proofs then lift the result to any number. Lifecycle needs three
overlapping requests for an event of one to fall between the two of others, and
four serial ones to walk from open to resolved and edit on the way. `MaxTime`
and `MaxJobs` of `Escalation` are chosen so that a walk of all levels with every
job late and one run repeated is over before either is reached; smaller values
make `EscalatesUnlessDisturbed` fail, which shows that they would bite. `MaxCuts`
exceeds `MAX_TRIES`, so a job can be exhausted by crashes alone.

`Membership` and `Accounts` run any number of requests, two at a time: the
decisions they race on each rest on one other request's commit, and the same
slots serve the next requests, so sequences such as invite, accept, promote,
demote come about. `Membership`'s `Asks` are fourteen requests that reach every
handler with every kind of actor and target, and the two invitations are one to
be revoked and one to be made after it. `Accounts` has two links (one of each
kind, or two of one), three tokens (two logins and a rotation, or one login and
two), two time steps and two secrets (the older and the newer), one recovery
code; `MCOffers` splits the operations into four mixes by what can interfere
with what, since the product is out of reach; the last of them also verifies, so
that a login that is half done meets a reset that nothing overtook. Slots are
symmetric in both, and the links of `Accounts`. Its run is the largest, with
about 2.2 million states.

`Desk`: two connections of one user, of which one watches the incident's channel
only, so that a last leaver meets a first subscriber and a second tab a first;
two commands on the way to Redis. Two writers, two comments, three events and a
page of one, so that a number can be passed before its row is seen. Three
requests against a limit of one in a window of two, over four ticks, with clocks
that are one apart. One incident, one run, which may be cut off and repeated any
number of times, two requests that change the status, and two days; more runs
share nothing but the row each replaces as a whole, and the theorem covers any
number. Two clerks, two services that want one name,
one schedule, and two shifts of which one overlaps and one only touches the
other. The theorems about the five parts hold for all values.

Deadlock is not checked: a finite set of requests, jobs or tokens comes to an
end, and an organisation that has lost all its members does too.

**Fairness.** `FairSpec` of the modules about incidents, escalation and jobs asks
for weak fairness of the steps of requests, runs or jobs that were begun: the
event loop runs every coroutine that is ready, Postgres grants a lock that is
released, the worker polls its queue. The clock of `Escalation` is fair too. In
`Realtime` a connection that waits for the broker's lock is enabled and disabled
as others take it; `asyncio.Lock` hands it to waiters in order, which is strong
fairness of each connection's steps (`RealtimeFairness`), and Redis acts on what
was written. Arrivals, failures, hang-ups, the retention job, acknowledgements and
edits are never owed.

**Violated statements.** Four statements of the documentation do not hold, and a
run each shows the shortest way:

- `NoLostUpdate`, "conflicting writes get a 409" (`db/models.py`): the version
  is compared on an unlocked read and not again by the UPDATE.
- `OnlyLegalPaths`, "the only legal paths" (`state_machine.py`): two requests to
  acknowledge read `open`, and the second commits after a third has taken the
  incident to `mitigated`: the row goes back to `acknowledged`. Two transitions
  that read `acknowledged` take it from `resolved` to `mitigated` in the same way.
- `FailedJobsAreParked`, "parked for inspection rather than lost"
  (`jobs/worker.py`): arq does not retry an exception, so the job of a first try
  is neither retried nor parked.
- `AnOwnerRemains`, "The last owner can never be demoted" and "cannot be removed"
  (`api/v1/members.py`): two owners who each count two owners demote or remove
  each other, or themselves, and both commit.

`EverySev1Watched` and `LoserIsReplayed` of `IncidentCreation` are stated and not
run: they fail when the handler dies after its commit, and with
`ExpiredReadsLoad = FALSE`, as described above.

**What the exceptions in the properties stand for.** The following behaviours are
in the models and were met on the way; the properties exclude exactly them.

- Membership: an admin may demote somebody who was made an owner after the
  admin's request had read the role. The owner check compares with 1, so it
  passes when the count is 0. Two overlapping acceptances, with a removal of the
  member between them, can admit a removed member again. An invitation
  whose mail is lost after the commit can be neither accepted nor repeated until
  it is revoked, and an expired one is in its way too.
- Accounts: overlapping resets lose an increment of the token version. A login or
  a rotation that overlaps a reset survives it. `mfa_last_counter` can go
  backwards. A confirmation that overlaps a second enrolment enforces a secret
  nobody has proved.
- Realtime: `_cleanup` stops at a deliver task that had failed
  (`api/realtime_ws.py`), and then leaves queues and presence behind. An
  unsubscribe that is interrupted while it waits for the lock leaves its queue.
  A second tab that closes takes the user's presence with it. "subscribed" is
  sent when SUBSCRIBE was written, not when Redis confirmed it.
- Discussion: a row that commits after a reader's cursor has passed its number is
  missed for good. An edit or deletion that had read a comment before its deletion
  committed appends an event after it. A file stays on the disk on any failure of
  its upload but "too large".
- Rate limiter: a request that runs long after it took its time, or behind a host
  whose clock is ahead, may find part of its window forgotten and be admitted over
  the limit; one that meets an attempt which is yet to be removed, or was let
  through by an error, may be rejected below it.
- Rollup: the cron job counts the day that has just begun, so its row lacks nearly
  all of it, and nothing counts that day again unless an operator asks; a cron run
  that is cut off and repeated after midnight counts the next day. A resolution
  that is stamped before midnight and committed after its day was counted is
  missed. Two overlapping transitions can resolve an incident a second time, which
  moves it to another day while the stored row still counts it. A rerun that finds
  neither kind of incident leaves the row as it was.
- Catalog: creating an incident or a schedule for a service that was deleted after
  the check ends in an uncaught foreign-key error. `add_shift` reports any
  integrity error as an overlap. Removed members stay on call.

## The proofs

Eight modules hold the theorems; each extends the module it is about. For every
theorem `Spec => []P` there is an inductive invariant, a lemma per action that
preserves it, and a temporal step that combines them. `DeskProofs` is about the
parts of `Desk` (those of `Discussion` are in a module of their own). The refinement and the
action properties follow from the invariant and the step.

`IncidentCreationProofs` proves, for any sets of requests, organisations and
keys and both values of the two switches, every safety property of the run and
that the module implements `IncidentBook`. The inductive invariant `CreationInv`
is needed because `GaplessNumbers` is not inductive: it adds that a request past
the counter holds its row (`LockInv`), that its number is then the counter plus
one (`NumberInv`), and that a request about to commit with a key found it free and
still would (`ClaimInv`). With the lock, no two requests can carry the same number, so
the commit extends 1..n to 1..n+1. `SuccessIsReal` assumes `~ExpiredReadsLoad`: if
expired instances were reloaded, a request whose winner's row is pruned between
its failing insert and its re-read would answer 201 for an incident that was
rolled back. It also proves three results that no run repeats: key rows match
their incidents, numbers appear in ascending order, and waits between creators
form no cycle.

`IncidentLifecycleProofs` proves the safety properties of the first lifecycle
run for any requests and any `MaxOpen`. `LifecycleInv` adds to them that the
row's lock belongs to a request in its transaction (`LockInv`), that a status the
request read is one the timeline leads to (`SnapInv`), and that every number in
use is below `nextSeq` and a pending status event belongs to the holder of the
lock (`SeqInv`, `PendingInv`). `SerialInv`, for `MaxOpen = 1`, adds that an open
transaction has read the row as it still is, which gives `NoLostUpdate`,
`OnlyLegalPaths` and the count of the version. `FieldsInv`, again for
`MaxOpen = 1`, says of an edit under way that for each change it need not record
any more it has an event with the value it is about to set, numbered after
everything on the timeline; so `TimelineTellsFields` holds after its commit. With
overlaps that property is false, since an edit's event may be numbered before
the row is locked. That status events are legal steps
and that announcements are of committed changes is proved and not run.

`EscalationProofs`: the three safety properties for any chain, timeout and number
of jobs. `WalkInv` says of every job and every notification that the level below
its own was notified, one timeout before it is due, or had nobody to notify;
`SilenceInv` that whoever may still notify after the acknowledgement was under
way when it came; `BudgetInv` that the notifications of a level and the jobs that
may still notify it are together at most one more than the runs that were cut
off.

`JobQueueProofs`: a parked job is dead, for any number of tries. `ParkedInv` says
that a parked job is on its last try, is closing, queued once more or failed, and
has not returned.

`MembershipProofs`: type, last owner, owners only, invited joiners, for any
people, invitations, requests and key scopes. `MembershipInv` is a conjunct per
kind of transaction (`TxnOK`): what its program counter says about what it read,
and which rows it then holds; `OffersOK` says that an invitation that pends or was
used carries a role its author could give, and `LocksOK` that no two
transactions hold the same row. That last one is what makes "used up by it" true:
between the write and the commit of an acceptance nobody else can touch the
invitation.

`DiscussionProofs`: `WalksSkipNothing` for any page size, by the invariant that
every visible number up to the cursor was read or came late; a page is the
initial segment of what lies after the cursor, and its last row exists because a
finite set of numbers has a maximum. `DeletionsAreFinal` by `DeletionInv`: an edit
or a deletion holds its comment's row before its event gets a number, so two of
them cannot be numbered in one order and committed in the other; and whatever
changes a comment has read it, after its addition was committed and numbered.
`AttachmentsStayStored` by `UploadInv`: an upload has one request, and where that
stands tells which of file, row and scan there are.

`AccountsProofs`: the four properties of `Accounts` for any number of overlapping
requests, links, codes and tokens. None is inductive as it stands: that a family
has one live token rests on what a rotation read being still so when it commits,
and so on locks, on reset and logout, and on who is marked as overlapped.
`AccountsInv` has a part per request and a part for the rows. `RequestOK` says, by
program counter and operation, what a request holds and what it read; each fact
about what it read is qualified by "or it is marked as overlapped" (`LinkOK`,
`CodeOK`, `TokenOK`, `UserOK`). The proof for the commit of one request shows for
each of the others that the facts its writes put out of date belong to a request
that `Interfering` names, which is then marked (`Meets`). `RowsInv` says what the
committed rows keep to as long as what they are about is not raced: a spent link
is consumed and a spent code used; a TOTP step in `spent` is of the current secret
and not later than `mfa_last_counter`; a family has its first token; two live
tokens of a family are the same; and a token carries at most the current version,
and with the current version the current password (`PasswordInv`). The last is why
`Touches` of a reset names versions: after two overlapping resets the version is
one that was in use before, so a challenge token from before can be accepted
without any request overlapping the challenge. The property excepts exactly those
versions. `AloneNothingIsRaced` shows that the exceptions are about overlap only:
with one request at a time `raced` stays empty, and nothing is accepted twice.

`DeskProofs`, part by part:

- The limiter: `WindowIsExact` for any limit and window. `LimiterInv` says that
  only requests that ran are in the sorted set or the histories (`CountedInv`),
  that who was admitted is in the set or known to be gone (`KeptInv`), that no
  window has more than the limit of those that were not late (`BudgetInv`), and
  that each rejected one found that many (`RejectInv`). No bound on the skew of the
  clocks is used.
- The rollup: `RowsCountTheDay` for any incidents, runs and days. No step moves
  anything backwards (`Onward`): time does not, a reported incident keeps the day
  it started on, a resolution its day unless requests overlapped on the incident,
  and what is resolved or stamped on a day that is over can only become less,
  since stamps are of today. `RollupInv` says of a run or a row that its first
  count is right for what was known (`FirstOK`) and that its second has, of a day
  that was over, all that is resolved or may still be (`SecondOK`), but for
  those that were stamped at the time.
- The catalogue: `CatalogIsSound` for any services, schedules, shifts, staff and
  clerks. `CatalogInv` adds to the rows (`RowsAgree`) what a request about to
  commit holds (`ClerkOK`: for a deletion that is the whole cascade) and that the
  constraints it met when it wrote are still met (`StillMeets`), which follows
  because two requests about to commit hold apart what they write from what the
  other writes or refers to, and no two uncommitted shifts clash (`ClerksApart`).
- The broker: `ListenersStayFed` for any connections, tickets and channels.
  `RealtimeInv` says that only the holder of the lock is at a write, and that
  nobody listens to a channel that is being unsubscribed (`LockGuardsWriting`).
  The rest is about the order of commands: what Redis will have made of a channel
  is decided by the last command written about it (`WriteDecides`). `Accounted`
  gives a reason for every listener and every viewer: a subscription, a cleanup
  that has got so far, or an orphan of an interrupted one; a connection that is
  gone has none left, which is the safety half of `DepartedIsForgotten`
  (`TheGoneAreForgotten`).
- The whole: a step of `Desk` is a step of each part or leaves that part as it
  is, so a behaviour of `Desk` is one of every part (`DeskRunsItsParts`), and the
  safety properties hold together (`DeskIsSound`). The run explores the parts one
  at a time; this theorem is why that loses nothing.

The assumptions are the named `ASSUME`s of the modules: that the special values
are not members of the sets beside them, that bounds are numbers, and, where
something is counted, that a set is finite. `CatalogAssumption` says that a request
names what its operation needs, as the request schemas make sure. What a constant
must satisfy and no more. TLC evaluates them in the runs.

Only model-checked: the liveness properties `EveryRequestAnswered`,
`EveryRequestEnds`, `EscalatesUnlessDisturbed` and `EveryJobEnds`, and that a
departed connection is cleaned up at all (`DepartedIsForgotten`): they rest on
fairness, which is beyond the prover. Every invariant and every action property
of the runs is proved, those of the serial lifecycle for `MaxOpen = 1`, where they
are true.

## What is left

1. A composition of creation, lifecycle and escalation: a sev1 from its report to
   its acknowledgement, over the interfaces the modules share. Two requests and
   one check at a time are within TLC's reach.
2. The reconnect of the web client against `Realtime`: it refetches when it has
   sent its subscription and not when that was confirmed.
3. More theorems about what the models say and no run checks: that a key acts only
   with the scopes it was minted with, and that the waits of `Membership` and
   `Catalog` form no cycle, as is proved of `IncidentCreation`.
4. The rest of the retention job and the metrics summary.

## Not modelled

- The audit log: a row per change in the transaction of that change, committed or
  lost with it. The `Commit` of each model stands for both.
- The application shell (wiring, configuration, logging, error rendering) and the
  identity the rate limiter finds.
- The web client: a single-flight refresh, a reconnecting socket, presentation.
- Migrations, seed data, load tests, deployment. The constraints of the schema are
  in the modules that meet them.
- Renaming an organisation (one statement); token parsing, hashing and expiry; who
  may edit a comment (decided on columns that never change); the averages of the
  rollup, which are arithmetic of one statement; the retention of tables other
  than the idempotency keys.
- The data of incidents, mails, events and broker messages, but for what a
  property tells apart.
