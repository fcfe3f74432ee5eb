------------------------------- MODULE JobQueue -------------------------------
(***************************************************************************)
(* What becomes of the jobs of the ARQ worker: the retries of arq, which   *)
(* is external and is modelled as the worker's settings use it, and the    *)
(* dead-letter set that with_dead_letter keeps in Redis.                   *)
(*                                                                         *)
(* arq counts the tries of a job.  A task that raises, or that exceeds     *)
(* job_timeout, ends its job; a run that is cut off, because the worker    *)
(* was killed or is shutting down (retry_jobs), is repeated; a job that    *)
(* comes up once more than max_tries is failed without being run.          *)
(***************************************************************************)
EXTENDS Naturals, FiniteSets

CONSTANTS
  Jobs,
  MAX_TRIES,
  MaxCuts     \* bound on runs that are cut off

ASSUME JobQueueAssumption ==
  /\ MAX_TRIES \in Nat \ {0}
  /\ MaxCuts \in Nat

VARIABLES
  state,      \* where each job is
  job_try,    \* how often arq has taken it up
  deadLetter, \* the set at DEAD_LETTER_KEY, as jobs
  outcome,    \* how the last run of each job ended, if it did
  unreachable,\* history: the jobs for which Redis refused the sadd
  cuts        \* history: how many runs were cut off

vars == <<state, job_try, deadLetter, outcome, unreachable, cuts>>

\* "parking" is in the except clause of the wrapper; "closing" is back in arq,
\* the result not stored yet.
Running == {"running", "parking", "closing"}
Ended == {"succeeded", "failed"}
Outcomes == {"none", "returned", "raised", "timed out"}

Init ==
  /\ state = [j \in Jobs |-> "queued"]
  /\ job_try = [j \in Jobs |-> 0]
  /\ deadLetter = {}
  /\ outcome = [j \in Jobs |-> "none"]
  /\ unreachable = {}
  /\ cuts = 0

-----------------------------------------------------------------------------
(* Bugs the worker could have had.                                         *)

\* A failure is recorded one try early.
IsLastTryEarly(j) == job_try[j] + 1 >= MAX_TRIES

\* A job that is out of tries is left in the queue.
ExhaustNothing(j) == FALSE

-----------------------------------------------------------------------------
IsLastTry(j) == job_try[j] >= MAX_TRIES

\* arq takes up a job that has a try left ...
Take(j) ==
  /\ state[j] = "queued"
  /\ job_try[j] < MAX_TRIES
  /\ job_try' = [job_try EXCEPT ![j] = @ + 1]
  /\ state' = [state EXCEPT ![j] = "running"]
  /\ outcome' = [outcome EXCEPT ![j] = "none"]
  /\ UNCHANGED <<deadLetter, unreachable, cuts>>

\* ... and fails one that has not, without calling the wrapper.
Exhaust(j) ==
  /\ state[j] = "queued"
  /\ job_try[j] >= MAX_TRIES
  /\ job_try' = [job_try EXCEPT ![j] = @ + 1]
  /\ state' = [state EXCEPT ![j] = "failed"]
  /\ UNCHANGED <<deadLetter, outcome, unreachable, cuts>>

Return(j) ==
  /\ state[j] = "running"
  /\ state' = [state EXCEPT ![j] = "closing"]
  /\ outcome' = [outcome EXCEPT ![j] = "returned"]
  /\ UNCHANGED <<job_try, deadLetter, unreachable, cuts>>

\* The task raises an Exception: the wrapper parks the last one, and re-raises.
Raise(j) ==
  /\ state[j] = "running"
  /\ state' = [state EXCEPT ![j] = IF IsLastTry(j) THEN "parking" ELSE "closing"]
  /\ outcome' = [outcome EXCEPT ![j] = "raised"]
  /\ UNCHANGED <<job_try, deadLetter, unreachable, cuts>>

Park(j) ==
  /\ state[j] = "parking"
  /\ deadLetter' = deadLetter \union {j}
  /\ state' = [state EXCEPT ![j] = "closing"]
  /\ UNCHANGED <<job_try, outcome, unreachable, cuts>>

\* The sadd raises, and takes the place of the task's own exception.
CannotPark(j) ==
  /\ state[j] = "parking"
  /\ unreachable' = unreachable \union {j}
  /\ state' = [state EXCEPT ![j] = "closing"]
  /\ UNCHANGED <<job_try, deadLetter, outcome, cuts>>

\* arq cancels a run that exceeds job_timeout and fails its job.  What the
\* wrapper sees is CancelledError, which is no Exception: it parks nothing.
TimeOut(j) ==
  /\ state[j] \in {"running", "parking"}
  /\ state' = [state EXCEPT ![j] = "closing"]
  /\ outcome' = [outcome EXCEPT ![j] = "timed out"]
  /\ UNCHANGED <<job_try, deadLetter, unreachable, cuts>>

\* arq stores the result and removes the job: an exception is not retried.
Finish(j) ==
  /\ state[j] = "closing"
  /\ state' = [state EXCEPT ![j] =
                 IF outcome[j] = "returned" THEN "succeeded" ELSE "failed"]
  /\ UNCHANGED <<job_try, deadLetter, outcome, unreachable, cuts>>

\* The worker is killed, or cancels its runs to shut down; again the wrapper
\* parks nothing.
CutOff(j) ==
  /\ cuts < MaxCuts
  /\ state[j] \in Running
  /\ cuts' = cuts + 1
  /\ state' = [state EXCEPT ![j] = "queued"]
  /\ UNCHANGED <<job_try, deadLetter, outcome, unreachable>>

Step(j) ==
  \/ Take(j) \/ Exhaust(j) \/ Return(j) \/ Raise(j) \/ TimeOut(j)
  \/ Park(j) \/ CannotPark(j) \/ Finish(j)

Next == \E j \in Jobs : Step(j) \/ CutOff(j)

Spec == Init /\ [][Next]_vars

\* A worker is restarted, polls its queue, and ends every run it began, at the
\* latest after job_timeout.
FairSpec == Spec /\ \A j \in Jobs : WF_vars(Step(j))

-----------------------------------------------------------------------------
(* What an operator finds in the dead-letter set is dead: even if the worker *)
(* is killed between the sadd and the end of the job, the job does not run   *)
(* again and cannot succeed, so that requeueing it by hand, as the runbook   *)
(* says, does not run it beside itself.                                      *)
ParkedJobsAreDead ==
  \A j \in deadLetter : state[j] \notin {"running", "succeeded"}

(* However often it is cut off, a job ends.                                  *)
EveryJobEnds == \A j \in Jobs : <>(state[j] \in Ended)

(* "an exhausted job is parked for inspection rather than lost.  Failures on *)
(* earlier attempts still re-raise and trigger arq's normal retry" (jobs/    *)
(* worker.py): does not hold.  arq does not retry a task that raises, so its *)
(* job is gone and, on an earlier try, parked nowhere.                       *)
FailedJobsAreParked ==
  \A j \in Jobs :
    state[j] = "failed" /\ outcome[j] = "raised"
    => j \in deadLetter \union unreachable
=============================================================================
