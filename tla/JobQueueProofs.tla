---------------------------- MODULE JobQueueProofs ----------------------------
(***************************************************************************)
(* A parked job is dead, for any jobs and any number of tries.             *)
(***************************************************************************)
EXTENDS JobQueue, TLAPS

States == Running \union Ended \union {"queued"}

QueueType ==
  /\ state \in [Jobs -> States]
  /\ job_try \in [Jobs -> Nat]
  /\ deadLetter \subseteq Jobs
  /\ outcome \in [Jobs -> Outcomes]

\* A job is parked on its last try, after a failure, and is not taken up again.
ParkedInv ==
  /\ \A j \in Jobs : state[j] = "parking" => IsLastTry(j) /\ outcome[j] = "raised"
  /\ \A j \in deadLetter : /\ IsLastTry(j)
                           /\ state[j] \in {"queued", "closing", "failed"}
                           /\ outcome[j] # "returned"

QueueInv == QueueType /\ ParkedInv

\* Every step keeps the types.
LEMMA TypeStep ==
  ASSUME QueueType, [Next]_vars
  PROVE  QueueType'
<1>0. \A j \in Jobs : job_try[j] + 1 \in Nat
  BY DEF QueueType
<1> USE DEF QueueType, States, Running, Ended, Outcomes
<1>1. ASSUME NEW j \in Jobs, Take(j) PROVE QueueType'
  BY <1>0, <1>1 DEF Take
<1>2. ASSUME NEW j \in Jobs, Exhaust(j) PROVE QueueType'
  BY <1>0, <1>2 DEF Exhaust
<1>3. ASSUME NEW j \in Jobs, Return(j) PROVE QueueType'
  BY <1>3 DEF Return
<1>4. ASSUME NEW j \in Jobs, Raise(j) PROVE QueueType'
  BY <1>4 DEF Raise
<1>5. ASSUME NEW j \in Jobs, TimeOut(j) PROVE QueueType'
  BY <1>5 DEF TimeOut
<1>6. ASSUME NEW j \in Jobs, Park(j) PROVE QueueType'
  BY <1>6 DEF Park
<1>7. ASSUME NEW j \in Jobs, CannotPark(j) PROVE QueueType'
  BY <1>7 DEF CannotPark
<1>8. ASSUME NEW j \in Jobs, Finish(j) PROVE QueueType'
  BY <1>8 DEF Finish
<1>9. ASSUME NEW j \in Jobs, CutOff(j) PROVE QueueType'
  BY <1>9 DEF CutOff
<1>10. CASE UNCHANGED vars
  BY <1>10 DEF vars
<1> QED
  BY <1>1, <1>2, <1>3, <1>4, <1>5, <1>6, <1>7, <1>8, <1>9, <1>10 DEF Next, Step

\* What has been parked can only be exhausted or finished.
LEMMA ParkedStep ==
  ASSUME QueueType, QueueType', ParkedInv, [Next]_vars
  PROVE  ParkedInv'
<1> USE JobQueueAssumption DEF QueueType, ParkedInv, IsLastTry
<1>1. ASSUME NEW j \in Jobs, Take(j) PROVE ParkedInv'
  BY <1>1 DEF Take
<1>2. ASSUME NEW j \in Jobs, Exhaust(j) PROVE ParkedInv'
  BY <1>2 DEF Exhaust
<1>3. ASSUME NEW j \in Jobs, Return(j) PROVE ParkedInv'
  BY <1>3 DEF Return
<1>4. ASSUME NEW j \in Jobs, Raise(j) PROVE ParkedInv'
  BY <1>4 DEF Raise
<1>5. ASSUME NEW j \in Jobs, TimeOut(j) PROVE ParkedInv'
  BY <1>5 DEF TimeOut
<1>6. ASSUME NEW j \in Jobs, Park(j) PROVE ParkedInv'
  BY <1>6 DEF Park
<1>7. ASSUME NEW j \in Jobs, CannotPark(j) PROVE ParkedInv'
  BY <1>7 DEF CannotPark
<1>8. ASSUME NEW j \in Jobs, Finish(j) PROVE ParkedInv'
  BY <1>8 DEF Finish
<1>9. ASSUME NEW j \in Jobs, CutOff(j) PROVE ParkedInv'
  BY <1>9 DEF CutOff
<1>10. CASE UNCHANGED vars
  BY <1>10 DEF vars
<1> QED
  BY <1>1, <1>2, <1>3, <1>4, <1>5, <1>6, <1>7, <1>8, <1>9, <1>10 DEF Next, Step

\* "Parked for inspection" (jobs/worker.py): however often runs raise, time out
\* or are cut off, what is in the dead-letter set neither runs again nor succeeds.
THEOREM ParkedStayDead == Spec => []ParkedJobsAreDead
<1>1. Init => QueueInv
  BY JobQueueAssumption DEF Init, QueueInv, QueueType, ParkedInv, States, Running, Ended,
    Outcomes, IsLastTry
<1>2. QueueInv => ParkedJobsAreDead
  BY DEF QueueInv, ParkedInv, ParkedJobsAreDead
<1> QED
  BY <1>1, <1>2, TypeStep, ParkedStep, PTL DEF Spec, QueueInv
=============================================================================
