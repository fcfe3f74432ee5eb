------------------------------ MODULE Escalation ------------------------------
(***************************************************************************)
(* The escalation of one incident: the check_escalation jobs that the      *)
(* worker runs, from the one create_incident queued with level 0, and the  *)
(* job queue that carries them.                                            *)
(*                                                                         *)
(* A run that raises ends its job; one that is cut off, by a crash or by   *)
(* the shutdown of the worker, is repeated from the start (JobQueue has    *)
(* the rules).  With fewer than max_tries runs cut off, no job runs out of *)
(* tries.                                                                  *)
(*                                                                         *)
(* Time counts in units of which ack_timeout is Timeout; a run never       *)
(* starts early and may start MaxLate late.                                *)
(***************************************************************************)
EXTENDS Naturals, Sequences, FiniteSets

CONSTANTS
  Timeout,     \* ack_timeout of the organisation
  Chain,       \* the chain of its settings: a sequence of user ids
  Users,       \* ids that may be in the chain or on call
  Known,       \* those of them that are users
  OnCall,      \* those of them that may be on call for the service
  Starts,      \* what started_at may be; the incident is reported at Reported
  Reported,
  MaxTime,     \* bound on the clock
  MaxLate,     \* bound on how long a job that is due waits for the worker
  MaxRun,      \* bound on how long a run takes: job_timeout
  MaxFaults,   \* bound on runs that raise or are cut off, below max_tries
  MaxChanges,  \* bound on changes of the severity
  MaxJobs      \* bound on check_escalation jobs

ASSUME EscalationAssumption ==
  /\ Timeout \in Nat
  /\ Chain \in Seq(Users)
  /\ OnCall \subseteq Known /\ Known \subseteq Users
  /\ Starts \subseteq Nat
  /\ Reported \in Nat
  /\ {MaxTime, MaxLate, MaxRun, MaxFaults, MaxChanges} \subseteq Nat
  /\ MaxJobs \in Nat \ {0}

VARIABLES
  now,        \* the clock
  startedAt,  \* incidents.started_at; the reporter may give it, never changes
  sev1,       \* the severity of the incident is sev1
  changes,    \* how often that was changed
  acked,      \* it has left "open", which for a row is the same as having
              \* acknowledged_at: see MilestonesStamped of IncidentLifecycle
  job,        \* the check_escalation jobs
  events,     \* committed escalation.notified events
  emails,     \* send_email jobs queued; job, try, at and late are history
  faults,     \* history: how many runs were cut off, and how many raised
  inFlight    \* history: the runs, as job and try, that were under way when
              \* the incident was acknowledged

incidentVars == <<startedAt, sev1, changes, acked, inFlight>>
vars == <<now, incidentVars, job, events, emails, faults>>

Jobs == 1 .. MaxJobs
Levels == 0 .. Len(Chain)

\* What plan decides; targets and next have at most one element.
Decision(targets, next, delay) == [targets |-> targets, next |-> next, delay |-> delay]
Decisions == [targets : SUBSET Users, next : SUBSET Levels, delay : Nat]
Stop == Decision({}, {}, 0)

Free == [state |-> "free", level |-> 0, due |-> 0, try |-> 0, at |-> 0,
         decision |-> Stop]
Queued(level, due) == [Free EXCEPT !.state = "queued", !.level = level, !.due = due]

States == {"free", "queued", "notify", "commit", "enqueue",
           "closing", "ended"}
InTask == {"notify", "commit", "enqueue"}
Running == InTask \union {"closing"}
IsRunning(j) == job[j].state \in Running
IsFirstFree(k) == /\ job[k].state = "free"
                  /\ \A i \in Jobs : i < k => job[i].state # "free"

Init ==
  /\ now = Reported
  /\ startedAt \in Starts
  /\ sev1 = TRUE
  /\ changes = 0
  /\ acked = FALSE
  /\ job = [j \in Jobs |-> IF j = 1 THEN Queued(0, Reported + Timeout) ELSE Free]
  /\ events = {}
  /\ emails = {}
  /\ faults = [cut |-> 0, raised |-> 0]
  /\ inFlight = {}

-----------------------------------------------------------------------------
(* Bugs the escalation could have had, each a variant of the definition it *)
(* is named after; no run uses them as they stand.                         *)

\* The next level is offered one step past the end of the chain.
NextPastEnd(level) == IF level <= Len(Chain) THEN {level + 1} ELSE {}

\* The level is not raised.
NextIsSame(level) == IF level < Len(Chain) THEN {level} ELSE {}

\* The acknowledgement is not looked at.
SilencedBySeverity == ~sev1

\* The check is queued without its delay.
EnqueueNextNow(j) ==
  /\ job[j].state = "enqueue"
  /\ \E k \in Jobs, n \in job[j].decision.next :
       /\ IsFirstFree(k)
       /\ job' = [job EXCEPT ![k] = Queued(n, now), ![j].state = "closing"]
  /\ UNCHANGED <<now, incidentVars, events, emails, faults>>

\* The job ends with its commit.
EnqueueNothing(j) ==
  /\ job[j].state = "enqueue"
  /\ job' = [job EXCEPT ![j].state = "closing"]
  /\ UNCHANGED <<now, incidentVars, events, emails, faults>>

-----------------------------------------------------------------------------
(* plan.                                                                   *)

DueAt(level) == startedAt + Timeout * (level + 1)

Silenced == ~sev1 \/ acked

\* chain[:1] or chain[level - 1 : level].
InChain(n) == {Chain[i] : i \in {n} \intersect DOMAIN Chain}

Targets(level, onCall) ==
  IF level = 0 /\ onCall # {} THEN onCall
  ELSE InChain(IF level = 0 THEN 1 ELSE level)

NextLevel(level) == {n \in Levels : n = level + 1}

plan(level, onCall, at) ==
  CASE Silenced -> Stop
    [] ~Silenced /\ at < DueAt(level) -> Decision({}, {level}, DueAt(level) - at)
    [] OTHER -> Decision(Targets(level, onCall), NextLevel(level), Timeout)

-----------------------------------------------------------------------------
(* A run of check_escalation.                                              *)

\* The worker takes a job that is due.  The run reads the clock, the incident,
\* its organisation and who is on call, and decides.
Start(j) ==
  /\ job[j].state = "queued"
  /\ job[j].due <= now
  /\ \E onCall \in {{}} \union {{u} : u \in OnCall} :
       job' = [job EXCEPT ![j].state = "notify",
                          ![j].try = @ + 1,
                          ![j].at = now,
                          ![j].decision = plan(job[j].level, onCall, now)]
  /\ UNCHANGED <<now, incidentVars, events, emails, faults>>

\* A mail for the target, if it is a user; the event that is recorded with it
\* shows at the commit.
Notify(j) ==
  /\ job[j].state = "notify"
  /\ \E u \in job[j].decision.targets \intersect Known :
       emails' = emails \union
         {[level |-> job[j].level, to |-> u, job |-> j, try |-> job[j].try,
           at |-> now, late |-> acked]}
  /\ job' = [job EXCEPT ![j].state = "commit"]
  /\ UNCHANGED <<now, incidentVars, events, faults>>

NotifyNone(j) ==
  /\ job[j].state = "notify"
  /\ job[j].decision.targets \intersect Known = {}
  /\ job' = [job EXCEPT ![j].state = "commit"]
  /\ UNCHANGED <<now, incidentVars, events, emails, faults>>

Commit(j) ==
  /\ job[j].state = "commit"
  /\ events' = events \union
       {[level |-> job[j].level, to |-> u, job |-> j, try |-> job[j].try] :
          u \in job[j].decision.targets \intersect Known}
  /\ job' = [job EXCEPT ![j].state =
               IF job[j].decision.next = {} THEN "closing" ELSE "enqueue"]
  /\ UNCHANGED <<now, incidentVars, emails, faults>>

\* The next check, in the first job that is free.
EnqueueNext(j) ==
  /\ job[j].state = "enqueue"
  /\ \E k \in Jobs, n \in job[j].decision.next :
       /\ IsFirstFree(k)
       /\ job' = [job EXCEPT ![k] = Queued(n, now + job[j].decision.delay),
                             ![j].state = "closing"]
  /\ UNCHANGED <<now, incidentVars, events, emails, faults>>

\* arq removes the job.
Finish(j) ==
  /\ job[j].state = "closing"
  /\ job' = [job EXCEPT ![j] = [Free EXCEPT !.state = "ended"]]
  /\ UNCHANGED <<now, incidentVars, events, emails, faults>>

-----------------------------------------------------------------------------
(* Failures.                                                               *)

MayFail == faults.cut + faults.raised < MaxFaults

\* The run raises, or exceeds job_timeout.
Raise(j) ==
  /\ MayFail
  /\ job[j].state \in InTask
  /\ job' = [job EXCEPT ![j] = [Free EXCEPT !.state = "ended"]]
  /\ faults' = [faults EXCEPT !.raised = @ + 1]
  /\ UNCHANGED <<now, incidentVars, events, emails>>

\* The worker crashes or is shut down: the run starts over.
CutOff(j) ==
  /\ MayFail
  /\ IsRunning(j)
  /\ job' = [job EXCEPT ![j] = [Queued(job[j].level, now) EXCEPT !.try = job[j].try]]
  /\ faults' = [faults EXCEPT !.cut = @ + 1]
  /\ UNCHANGED <<now, incidentVars, events, emails>>

-----------------------------------------------------------------------------
(* What goes on meanwhile.                                                 *)

Tick ==
  /\ now < MaxTime
  /\ \A j \in Jobs : /\ job[j].state = "queued" => now < job[j].due + MaxLate
                     /\ IsRunning(j) => now < job[j].at + MaxRun
  /\ now' = now + 1
  /\ UNCHANGED <<incidentVars, job, events, emails, faults>>

\* transition_status.
Acknowledge ==
  /\ ~acked
  /\ acked' = TRUE
  /\ inFlight' = {<<j, job[j].try>> : j \in {k \in Jobs : IsRunning(k)}}
  /\ UNCHANGED <<now, startedAt, sev1, changes, job, events, emails, faults>>

\* update_incident: nothing is queued for an incident that becomes sev1.
ChangeSeverity ==
  /\ changes < MaxChanges
  /\ changes' = changes + 1
  /\ sev1' = ~sev1
  /\ UNCHANGED <<now, startedAt, acked, inFlight, job, events, emails,
                 faults>>

Step(j) ==
  \/ Start(j) \/ Notify(j) \/ NotifyNone(j)
  \/ Commit(j) \/ EnqueueNext(j) \/ Finish(j)

Next ==
  \/ \E j \in Jobs : Step(j) \/ Raise(j) \/ CutOff(j)
  \/ Tick \/ Acknowledge \/ ChangeSeverity

Spec == Init /\ [][Next]_vars

\* The clock goes on, and the worker, which polls its queue, takes every job that
\* is due and runs it to its end.  Nothing owes a failure, an acknowledgement or
\* an edit.
FairSpec ==
  /\ Spec
  /\ WF_vars(Tick)
  /\ \A j \in Jobs : WF_vars(Step(j))

-----------------------------------------------------------------------------
Notification == [level : Levels, to : Users, job : Jobs, try : Nat]

TypeOK ==
  /\ now \in Nat
  /\ startedAt \in Starts
  /\ {sev1, acked} \subseteq BOOLEAN
  /\ changes \in Nat
  /\ job \in [Jobs -> [state : States, level : Levels, due : Nat,
                       try : Nat, at : Nat, decision : Decisions]]
  /\ events \subseteq Notification
  /\ emails \subseteq [level : Levels, to : Users, job : Jobs, try : Nat,
                       at : Nat, late : BOOLEAN]
  /\ faults \in [cut : Nat, raised : Nat]
  /\ inFlight \subseteq Jobs \X Nat

EmailsAt(n) == {m \in emails : m.level = n}

(* "each further silent interval walks one step down the configured chain"   *)
(* (jobs/escalation.py): when a level is notified, the one before it was, at *)
(* least one timeout earlier, unless it had nobody to notify.                *)
OneStepPerInterval ==
  \A m \in emails :
    /\ m.level > 0
    /\ InChain(IF m.level = 1 THEN 1 ELSE m.level - 1) \subseteq Known
    => \E k \in EmailsAt(m.level - 1) : k.at + Timeout <= m.at

(* Once the incident is acknowledged, only runs that were already under way  *)
(* still notify: a check that is due later, or repeated after a crash, finds *)
(* the acknowledgement.                                                      *)
AcknowledgeSilences ==
  \A m \in emails : m.late => <<m.job, m.try>> \in inFlight

(* A level is notified at most once more for each run that was cut off: the  *)
(* repeated run and the second chain it may start are the only duplicates.   *)
DuplicatesNeedCrashes ==
  \A n \in Levels : Cardinality(EmailsAt(n)) <= 1 + faults.cut

Notified(n) == EmailsAt(n) # {}

(* "A sev1 incident that nobody acknowledges within the timeout notifies the *)
(* person on call; each further silent interval walks one step down" (jobs/  *)
(* escalation.py): it reaches the end of its chain, unless a run of a check  *)
(* failed or the severity changed.                                           *)
EscalatesUnlessDisturbed ==
  <>(acked \/ ~sev1 \/ faults.raised > 0
     \/ \A n \in Levels : Targets(n, {}) \subseteq Known => Notified(n))
=============================================================================
