-------------------------------- MODULE Rollup --------------------------------
(***************************************************************************)
(* The daily rollup of one organisation: a cron job at 00:05 that counts   *)
(* the incidents started and resolved on a day, and the runs an operator   *)
(* asks for by hand; beside them the requests that resolve incidents, each *)
(* with a status it read without a lock and a stamp it took before its     *)
(* commit.                                                                 *)
(***************************************************************************)
EXTENDS Naturals, FiniteSets

CONSTANTS
  Incidents, Runs,   \* how many there ever are is bounded by their number
  Changers,          \* requests that change a status at the same time
  LastDay,           \* bound on the calendar
  Unset

Days == 1 .. LastDay

ASSUME RollupAssumption == LastDay \in Nat \ {0} /\ Unset \notin Days

VARIABLES
  today,
  started,    \* the day each incident started on, once it is reported
  status,     \* "active" is open, acknowledged or mitigated: what no count asks
  resolved,   \* the day of resolved_at
  change,     \* what each request in flight read and means to write
  overlapped, \* history: incidents a request wrote after another changed what it read
  run,        \* [pc, arg, day, found]: the day it was told, the one it counts
  metrics     \* org_metrics_daily: what the run that wrote the day's row had found

incidentVars == <<started, status, resolved, change, overlapped>>
rollupVars == <<today, incidentVars, run, metrics>>

Statuses == {"active", "resolved", "postmortem"}

\* The two counts as the sets they are of, and their history: the day of the first
\* query, the incidents there were then, those that were about to be resolved at
\* the second.
NotFound == [began |-> Unset, known |-> {}, created |-> {}, resolved |-> {}, busy |-> {}]

NoRun == [pc |-> "none", arg |-> Unset, day |-> Unset, found |-> NotFound]

RollupInit ==
  /\ today = 1
  /\ started = [i \in Incidents |-> Unset]
  /\ status = [i \in Incidents |-> "active"]
  /\ resolved = [i \in Incidents |-> Unset]
  /\ change = [p \in Changers |-> Unset]
  /\ overlapped = {}
  /\ run = [j \in Runs |-> NoRun]
  /\ metrics = [d \in Days |-> Unset]

StartedOn(d) == {i \in Incidents : started[i] = d}
ResolvedOn(d) == {i \in Incidents : resolved[i] = d}

Midnight ==
  /\ today < LastDay
  /\ today' = today + 1
  /\ UNCHANGED <<incidentVars, run, metrics>>

-----------------------------------------------------------------------------
(* INCIDENTS                                                               *)

\* started_at is the client's to give: an incident may be reported late, or ahead.
StartIncident(i) ==
  /\ started[i] = Unset
  /\ \E d \in Days : started' = [started EXCEPT ![i] = d]
  /\ UNCHANGED <<today, status, resolved, change, overlapped, run, metrics>>

\* LEGAL_TRANSITIONS, with the active statuses taken for one.
Legal(from, to) ==
  \/ from = "active" /\ to \in {"active", "resolved"}
  \/ from = "resolved" /\ to = "postmortem"

\* The row is read without a lock; its status decides.
ReadStatus(p, i) ==
  /\ change[p] = Unset
  /\ started[i] # Unset
  /\ \E to \in Statuses :
       /\ Legal(status[i], to)
       /\ change' = [change EXCEPT ![p] =
            [incident |-> i, from |-> status[i], to |-> to, stamp |-> Unset]]
  /\ UNCHANGED <<today, started, status, resolved, overlapped, run, metrics>>

\* resolved_at = _now(), whether or not the row has one.
StampResolved(p) ==
  /\ change[p] # Unset
  /\ change[p].to = "resolved" /\ change[p].stamp = Unset
  /\ change' = [change EXCEPT ![p].stamp = today]
  /\ UNCHANGED <<today, started, status, resolved, overlapped, run, metrics>>

\* The UPDATE asks nothing of the row.  Its lock is held from the flush to the
\* commit: the two are one step to the others.
CommitChange(p) ==
  /\ change[p] # Unset
  /\ LET c == change[p]
     IN /\ c.to = "resolved" => c.stamp # Unset
        /\ status' = [status EXCEPT ![c.incident] = c.to]
        /\ resolved' = IF c.to = "resolved" THEN [resolved EXCEPT ![c.incident] = c.stamp]
                                            ELSE resolved
        /\ overlapped' = IF status[c.incident] = c.from THEN overlapped
                                                        ELSE overlapped \union {c.incident}
  /\ change' = [change EXCEPT ![p] = Unset]
  /\ UNCHANGED <<today, started, run, metrics>>

\* A request may fail or be cut off anywhere; its transaction is undone.
DropChange(p) ==
  /\ change[p] # Unset
  /\ change' = [change EXCEPT ![p] = Unset]
  /\ UNCHANGED <<today, started, status, resolved, overlapped, run, metrics>>

-----------------------------------------------------------------------------
(* RUNS                                                                    *)

RunGoes(j, to) ==
  /\ run' = [run EXCEPT ![j] = to]
  /\ UNCHANGED <<today, incidentVars>>

\* The cron job names no day; a run by hand may, as the runbook has it queued.
Enqueue(j) ==
  /\ run[j].pc = "none"
  /\ \E d \in {Unset} \union 1 .. today :
       RunGoes(j, [run[j] EXCEPT !.pc = "queued", !.arg = d])
  /\ UNCHANGED metrics

\* The day is fixed before the first query.
BeginRun(j) ==
  /\ run[j].pc = "queued"
  /\ RunGoes(j, [run[j] EXCEPT !.pc = "begun",
                               !.day = IF run[j].arg = Unset THEN today ELSE run[j].arg])
  /\ UNCHANGED metrics

CountStarted(j) ==
  /\ run[j].pc = "begun"
  /\ RunGoes(j, [run[j] EXCEPT !.pc = "created",
       !.found = [NotFound EXCEPT !.began = today,
                                  !.known = {i \in Incidents : started[i] # Unset},
                                  !.created = StartedOn(run[j].day)]])
  /\ UNCHANGED metrics

\* Those a request has a stamp for that it has not committed.
Stamping == {change[p].incident : p \in {q \in Changers : change[q] # Unset /\ change[q].stamp # Unset}}

\* A bug: the second query looks at the day the incident started, like the first.
ResolvedRowsOfStarted(d) == {i \in StartedOn(d) : resolved[i] # Unset}

ResolvedRows(d) == ResolvedOn(d)

\* The second query sees what was committed since the first.
CountResolved(j) ==
  /\ run[j].pc = "created"
  /\ RunGoes(j, [run[j] EXCEPT !.pc = "counted",
                               !.found.resolved = ResolvedRows(run[j].day),
                               !.found.busy = Stamping])
  /\ UNCHANGED metrics

\* ON CONFLICT DO UPDATE; an organisation with neither has no row written, and
\* keeps the one it had.
StoreRow(j) ==
  LET found == run[j].found
  IN /\ run[j].pc = "counted"
     /\ metrics' = IF found.created \union found.resolved = {} THEN metrics
                   ELSE [metrics EXCEPT ![run[j].day] = found]
     /\ RunGoes(j, [run[j] EXCEPT !.pc = "stored", !.day = Unset, !.found = NotFound])

\* A run that returns or raises ends its job.
EndRun(j) ==
  /\ run[j].pc \notin {"none", "done"}
  /\ RunGoes(j, [NoRun EXCEPT !.pc = "done"])
  /\ UNCHANGED metrics

\* A worker that dies or is stopped leaves the job to be run again, with the day it
\* was told: a run that was told none counts the day it is by then.
CutOff(j) ==
  /\ run[j].pc \in {"begun", "created", "counted", "stored"}
  /\ RunGoes(j, [NoRun EXCEPT !.pc = "queued", !.arg = run[j].arg])
  /\ UNCHANGED metrics

RollupNext ==
  \/ Midnight
  \/ \E i \in Incidents : StartIncident(i) \/ \E p \in Changers : ReadStatus(p, i)
  \/ \E p \in Changers : StampResolved(p) \/ CommitChange(p) \/ DropChange(p)
  \/ \E j \in Runs : \/ Enqueue(j) \/ BeginRun(j) \/ CountStarted(j) \/ CountResolved(j)
                     \/ StoreRow(j) \/ EndRun(j) \/ CutOff(j)

RollupSpec == RollupInit /\ [][RollupNext]_rollupVars

-----------------------------------------------------------------------------
(* "Upsert the per-org rollup for one day" (jobs/tasks.py:170): what a      *)
(* stored row may have wrong of its day.  It counts nothing that was not    *)
(* so, and a resolution it counts keeps its day unless requests overlapped  *)
(* on the incident, which may resolve it again.  If the run began after the *)
(* day, the row misses nothing reported by then and no resolution but one   *)
(* that was stamped, and not committed, when the run looked.  The cron job  *)
(* begins five minutes into the day it counts: of such a row only the first *)
(* half is claimed.                                                         *)
RollupCountsTheDay ==
  \A d \in Days : metrics[d] # Unset =>
    LET row == metrics[d]
    IN /\ row.created \subseteq StartedOn(d)
       /\ row.resolved \ overlapped \subseteq ResolvedOn(d)
       /\ row.began > d =>
            /\ StartedOn(d) \intersect row.known \subseteq row.created
            /\ ResolvedOn(d) \subseteq row.resolved \union row.busy
===============================================================================
