--------------------------- MODULE EscalationProofs ---------------------------
(***************************************************************************)
(* What an escalation never does, for any chain, timeout and faults.       *)
(***************************************************************************)
EXTENDS Escalation, FiniteSetTheorems, TLAPS

JobRecord == [state : States, level : Levels, due : Nat, try : Nat, at : Nat,
              decision : Decisions]
EmailRecord == [level : Levels, to : Users, job : Jobs, try : Nat, at : Nat,
                late : BOOLEAN]

LEMMA ProductIsNat ==
  ASSUME NEW a \in Nat, NEW b \in Nat
  PROVE  a * b \in Nat
OBVIOUS

\* The decisions are of three kinds: stop, come back, and notify.
LEMMA PlanDecides ==
  ASSUME TypeOK, NEW level \in Levels, NEW onCall \in {{}} \union {{u} : u \in OnCall}
  PROVE  /\ plan(level, onCall, now) \in Decisions
         /\ \/ plan(level, onCall, now) = Stop
            \/ /\ ~acked
               /\ plan(level, onCall, now).targets = {}
               /\ plan(level, onCall, now).next = {level}
            \/ /\ ~acked
               /\ plan(level, onCall, now) =
                    Decision(Targets(level, onCall), NextLevel(level), Timeout)
<1> DEFINE d == plan(level, onCall, now)
<1>1. /\ level \in Nat /\ Timeout \in Nat /\ startedAt \in Nat /\ now \in Nat
      /\ sev1 \in BOOLEAN /\ acked \in BOOLEAN
  BY EscalationAssumption DEF TypeOK, Levels
<1>2. DueAt(level) \in Nat
  <2>1. Timeout * (level + 1) \in Nat
    BY <1>1, ProductIsNat
  <2> QED
    BY <1>1, <2>1 DEF DueAt
<1>3. Stop \in Decisions
  BY DEF Stop, Decision, Decisions
<1>4. Decision(Targets(level, onCall), NextLevel(level), Timeout) \in Decisions
  <2>1. Targets(level, onCall) \in SUBSET Users
    BY EscalationAssumption DEF Targets, InChain
  <2>2. NextLevel(level) \in SUBSET Levels
    BY DEF NextLevel
  <2> QED
    BY <1>1, <2>1, <2>2 DEF Decision, Decisions
<1>5. CASE Silenced
  BY <1>3, <1>5 DEF plan
<1>6. CASE ~Silenced /\ now < DueAt(level)
  <2>1. d = Decision({}, {level}, DueAt(level) - now)
    BY <1>6 DEF plan
  <2>2. DueAt(level) - now \in Nat
    BY <1>1, <1>2, <1>6
  <2>3. d \in Decisions /\ d.targets = {} /\ d.next = {level}
    BY <2>1, <2>2 DEF Decision, Decisions
  <2> QED
    BY <1>6, <2>3 DEF Silenced
<1>7. CASE ~Silenced /\ ~(now < DueAt(level))
  <2>1. d = Decision(Targets(level, onCall), NextLevel(level), Timeout)
    BY <1>7 DEF plan
  <2> QED
    BY <1>4, <1>7, <2>1 DEF Silenced
<1> QED
  BY <1>5, <1>6, <1>7

-----------------------------------------------------------------------------
LEMMA TypeInit == Init => TypeOK
<1> SUFFICES ASSUME Init PROVE TypeOK
  OBVIOUS
<1>1. 0 \in Levels /\ Reported + Timeout \in Nat /\ Reported \in Nat
  BY EscalationAssumption DEF Levels
<1>2. Stop \in Decisions
  BY DEF Stop, Decision, Decisions
<1>3. Free \in JobRecord /\ Queued(0, Reported + Timeout) \in JobRecord
  BY <1>1, <1>2 DEF Free, Queued, JobRecord, States
<1>4. job \in [Jobs -> JobRecord]
  BY <1>3 DEF Init
<1> QED
  BY <1>1, <1>4 DEF Init, TypeOK, JobRecord

\* A run leaves its job with a level, a try and a decision of their types.
LEMMA TypeStep ==
  ASSUME TypeOK, [Next]_vars
  PROVE  TypeOK'
<1>1. /\ now \in Nat /\ job \in [Jobs -> JobRecord]
      /\ 0 \in Levels /\ Stop \in Decisions
  BY DEF TypeOK, JobRecord, Levels, Stop, Decision, Decisions
<1>2. Free \in JobRecord /\ [Free EXCEPT !.state = "ended"] \in JobRecord
  BY <1>1 DEF Free, JobRecord, States
<1>3. ASSUME NEW level \in Levels, NEW due \in Nat
      PROVE  Queued(level, due) \in JobRecord
  BY <1>1 DEF Queued, Free, JobRecord, States
<1>4. ASSUME NEW j \in Jobs, NEW s \in States, job' = [job EXCEPT ![j].state = s]
      PROVE  job' \in [Jobs -> JobRecord]
  BY <1>1, <1>4 DEF JobRecord
<1> DEFINE others == /\ UNCHANGED <<now, incidentVars, events, emails, faults>>
<1>5. ASSUME others, job' \in [Jobs -> JobRecord]
      PROVE  TypeOK'
  BY <1>5 DEF TypeOK, incidentVars, JobRecord
<1>6. {"notify", "commit", "enqueue", "closing"} \subseteq States
  BY DEF States
<1>7. ASSUME NEW j \in Jobs, Start(j) PROVE TypeOK'
  <2>1. PICK onCall \in {{}} \union {{u} : u \in OnCall} :
          job' = [job EXCEPT ![j].state = "notify",
                             ![j].try = @ + 1,
                             ![j].at = now,
                             ![j].decision = plan(job[j].level, onCall, now)]
    BY <1>7 DEF Start
  <2>2. job[j].level \in Levels
    BY <1>1 DEF JobRecord
  <2>3. plan(job[j].level, onCall, now) \in Decisions
    BY <2>2, PlanDecides
  <2>4. job' \in [Jobs -> JobRecord]
    BY <1>1, <1>6, <2>1, <2>3 DEF JobRecord
  <2> QED
    BY <1>5, <1>7, <2>4 DEF Start
<1>8. ASSUME NEW j \in Jobs, Notify(j) PROVE TypeOK'
  <2>1. job' \in [Jobs -> JobRecord]
    BY <1>4, <1>6, <1>8 DEF Notify
  <2>2. job[j] \in JobRecord /\ acked \in BOOLEAN
    BY <1>1 DEF TypeOK
  <2>3. emails' \subseteq EmailRecord
    <3>1. job[j].level \in Levels /\ job[j].try \in Nat
      BY <2>2 DEF JobRecord
    <3>2. PICK u \in job[j].decision.targets \intersect Known :
            emails' = emails \union
              {[level |-> job[j].level, to |-> u, job |-> j, try |-> job[j].try,
                at |-> now, late |-> acked]}
      BY <1>8 DEF Notify
    <3>3. u \in Users
      BY EscalationAssumption
    <3>4. [level |-> job[j].level, to |-> u, job |-> j, try |-> job[j].try,
           at |-> now, late |-> acked] \in EmailRecord
      BY <1>1, <2>2, <3>1, <3>3 DEF EmailRecord
    <3> QED
      BY <3>2, <3>4 DEF TypeOK, EmailRecord
  <2> QED
    BY <1>8, <2>1, <2>3 DEF Notify, TypeOK, incidentVars, JobRecord, EmailRecord
<1>9. ASSUME NEW j \in Jobs, NotifyNone(j) PROVE TypeOK'
  BY <1>4, <1>5, <1>6, <1>9 DEF NotifyNone
<1>10. ASSUME NEW j \in Jobs, Commit(j) PROVE TypeOK'
  <2>1. job' \in [Jobs -> JobRecord]
    BY <1>4, <1>6, <1>10 DEF Commit
  <2>2. events' \subseteq Notification
    <3>1. job[j].level \in Levels /\ job[j].try \in Nat /\ Known \subseteq Users
      BY <1>1, EscalationAssumption DEF JobRecord
    <3>2. {[level |-> job[j].level, to |-> u, job |-> j, try |-> job[j].try] :
             u \in job[j].decision.targets \intersect Known} \subseteq Notification
      BY <3>1 DEF Notification
    <3> QED
      BY <1>10, <3>2 DEF Commit, TypeOK
  <2> QED
    BY <1>10, <2>1, <2>2 DEF Commit, TypeOK, incidentVars, JobRecord
<1>11. ASSUME NEW j \in Jobs, EnqueueNext(j) PROVE TypeOK'
  <2>1. PICK k \in Jobs, n \in job[j].decision.next :
          job' = [job EXCEPT ![k] = Queued(n, now + job[j].decision.delay),
                             ![j].state = "closing"]
    BY <1>11 DEF EnqueueNext
  <2>2. n \in Levels /\ now + job[j].decision.delay \in Nat
    BY <1>1 DEF JobRecord, Decisions
  <2>3. job' \in [Jobs -> JobRecord]
    <3>1. Queued(n, now + job[j].decision.delay) \in JobRecord
      BY <1>3, <2>2
    <3> QED
      BY <1>1, <1>6, <2>1, <3>1 DEF JobRecord
  <2> QED
    BY <1>5, <1>11, <2>3 DEF EnqueueNext
<1>12. ASSUME NEW j \in Jobs, Finish(j) PROVE TypeOK'
  BY <1>1, <1>2, <1>5, <1>12 DEF Finish
<1>13. ASSUME NEW j \in Jobs, Raise(j) PROVE TypeOK'
  <2>1. job' \in [Jobs -> JobRecord]
    BY <1>1, <1>2, <1>13 DEF Raise
  <2>2. faults' \in [cut : Nat, raised : Nat]
    BY <1>13 DEF Raise, TypeOK
  <2> QED
    BY <1>13, <2>1, <2>2 DEF Raise, TypeOK, incidentVars, JobRecord
<1>14. ASSUME NEW j \in Jobs, CutOff(j) PROVE TypeOK'
  <2>1. [Queued(job[j].level, now) EXCEPT !.try = job[j].try] \in JobRecord
    BY <1>1, <1>3 DEF JobRecord
  <2>2. job' \in [Jobs -> JobRecord]
    BY <1>1, <1>14, <2>1 DEF CutOff
  <2>3. faults' \in [cut : Nat, raised : Nat]
    BY <1>14 DEF CutOff, TypeOK
  <2> QED
    BY <1>14, <2>2, <2>3 DEF CutOff, TypeOK, incidentVars, JobRecord
<1>15. CASE Tick
  BY <1>15 DEF Tick, TypeOK, incidentVars
<1>16. CASE Acknowledge
  BY <1>1, <1>16 DEF Acknowledge, TypeOK, JobRecord
<1>17. CASE ChangeSeverity
  BY <1>17 DEF ChangeSeverity, TypeOK
<1>18. CASE UNCHANGED vars
  BY <1>18 DEF vars, TypeOK, incidentVars
<1> QED
  BY <1>7, <1>8, <1>9, <1>10, <1>11, <1>12, <1>13, <1>14, <1>15, <1>16, <1>17, <1>18
     DEF Next, Step

\* Jobs, events, mails and history keep their shape.
THEOREM TypeCorrect == Spec => []TypeOK
BY TypeInit, TypeStep, PTL DEF Spec

-----------------------------------------------------------------------------
(* One step per interval.                                                  *)

ChainOf(n) == InChain(IF n = 1 THEN 1 ELSE n - 1)

\* The level before n was notified a timeout before t, if n has one to speak of.
Preceded(n, t) ==
  n > 0 /\ ChainOf(n) \subseteq Known => \E k \in EmailsAt(n - 1) : k.at + Timeout <= t

\* What a run will queue: the same check once more, having notified nobody, or the
\* next level, which it notifies its own before.
PlansOf(j) ==
  \A n \in job[j].decision.next :
    \/ n = job[j].level /\ job[j].decision.targets = {}
    \/ /\ n = job[j].level + 1
       /\ job[j].decision.delay = Timeout
       /\ ChainOf(n) \subseteq Known =>
            IF job[j].state = "notify" THEN job[j].decision.targets \intersect Known # {}
            ELSE \E k \in EmailsAt(job[j].level) : k.at <= now

\* What was notified stays notified, and the later the more so.
LEMMA PrecededStays ==
  ASSUME TypeOK, NEW n \in Levels, NEW s \in Nat, NEW t \in Nat, s <= t,
         emails \subseteq emails', Preceded(n, s)
  PROVE  Preceded(n, t)'
<1>1. \A k \in EmailsAt(n - 1) : k.at \in Nat /\ k \in EmailsAt(n - 1)'
  BY DEF EmailsAt, TypeOK
<1>2. Timeout \in Nat
  BY EscalationAssumption
<1> QED
  BY <1>1, <1>2 DEF Preceded, ChainOf, InChain

\* A run that goes on keeps its plan, if it is past its notification or still before.
LEMMA PlanStays ==
  ASSUME TypeOK, TypeOK', NEW j \in Jobs, job[j].state \in InTask, PlansOf(j),
         emails \subseteq emails', now <= now',
         job'[j].level = job[j].level, job'[j].decision = job[j].decision,
         job'[j].state = "notify" <=> job[j].state = "notify"
  PROVE  PlansOf(j)'
<1>1. /\ \A k \in emails : k.at \in Nat
      /\ now \in Nat /\ now' \in Nat
  BY DEF TypeOK
<1>2. EmailsAt(job[j].level) \subseteq EmailsAt(job[j].level)'
  BY DEF EmailsAt
<1>3. \A k \in EmailsAt(job[j].level) : k \in emails
  BY DEF EmailsAt
<1>4. \A n : ChainOf(n)' = ChainOf(n)
  BY DEF ChainOf, InChain
<1> SUFFICES ASSUME NEW n \in job[j].decision.next,
                    ~(n = job[j].level /\ job[j].decision.targets = {}),
                    ChainOf(n) \subseteq Known, job[j].state # "notify"
             PROVE  \E k \in EmailsAt(job[j].level)' : k.at <= now'
  BY <1>4 DEF PlansOf
<1>5. PICK k \in EmailsAt(job[j].level) : k.at <= now
  BY DEF PlansOf
<1> QED
  BY <1>1, <1>2, <1>3, <1>5

\* A job whose state, level and times allow what it is doing.
JobWalks(j) ==
  /\ job[j].state = "queued" => Preceded(job[j].level, job[j].due)
  /\ IsRunning(j) => job[j].at <= now /\ Preceded(job[j].level, job[j].at)
  /\ job[j].state \in InTask => PlansOf(j)

WalkInv ==
  /\ \A j \in Jobs : JobWalks(j)
  /\ \A m \in emails : Preceded(m.level, m.at)

LEMMA JobWalksOn ==
  ASSUME TypeOK, TypeOK', NEW j \in Jobs, JobWalks(j), job'[j] = job[j],
         emails \subseteq emails', now <= now'
  PROVE  JobWalks(j)'
<1>1. now \in Nat /\ now' \in Nat
  BY DEF TypeOK
<1>2. job[j].level \in Levels /\ job[j].due \in Nat /\ job[j].at \in Nat
  BY DEF TypeOK
<1>3. ASSUME job[j].state = "queued" PROVE Preceded(job[j].level, job[j].due)'
  <2>1. Preceded(job[j].level, job[j].due)
    BY <1>3 DEF JobWalks
  <2> QED
    BY <1>2, <2>1, PrecededStays DEF Preceded
<1>4. ASSUME IsRunning(j) PROVE (job[j].at <= now /\ Preceded(job[j].level, job[j].at))'
  <2>1. job[j].at <= now /\ Preceded(job[j].level, job[j].at)
    BY <1>4 DEF JobWalks
  <2> QED
    BY <1>1, <1>2, <2>1, PrecededStays DEF Preceded
<1>5. ASSUME job[j].state \in InTask PROVE PlansOf(j)'
  BY <1>5, PlanStays DEF JobWalks
<1> QED
  BY <1>3, <1>4, <1>5 DEF JobWalks, IsRunning

\* The run that notifies has a plan, and makes it true.
LEMMA NotifyWalks ==
  ASSUME TypeOK, TypeOK', WalkInv, NEW j \in Jobs, Notify(j) \/ NotifyNone(j)
  PROVE  JobWalks(j)'
<1>1. /\ job[j].state = "notify" /\ job'[j] = [job[j] EXCEPT !.state = "commit"]
      /\ now' = now /\ emails \subseteq emails' /\ now \in Nat
  BY DEF Notify, NotifyNone, TypeOK
<1>2. JobWalks(j) /\ IsRunning(j) /\ job[j].state \in InTask
  BY <1>1 DEF WalkInv, IsRunning, Running, InTask
<1>3. /\ job'[j].state = "commit" /\ job'[j].level = job[j].level
      /\ job'[j].at = job[j].at /\ job'[j].decision = job[j].decision
  BY <1>1 DEF TypeOK
<1>4. (job[j].at <= now /\ Preceded(job[j].level, job[j].at))'
  <2>1. job[j].at <= now /\ Preceded(job[j].level, job[j].at)
    BY <1>2 DEF JobWalks
  <2>2. job[j].level \in Levels /\ job[j].at \in Nat
    BY DEF TypeOK
  <2> QED
    BY <1>1, <1>3, <2>1, <2>2, PrecededStays DEF Preceded
<1>5. PlansOf(j)'
  <2> SUFFICES ASSUME NEW n \in job[j].decision.next,
                      ~(n = job[j].level /\ job[j].decision.targets = {})
               PROVE  /\ n = job[j].level + 1
                      /\ job[j].decision.delay = Timeout
                      /\ ChainOf(n)' \subseteq Known =>
                           \E k \in EmailsAt(job[j].level)' : k.at <= now
    BY <1>1, <1>3 DEF PlansOf
  <2>1. /\ n = job[j].level + 1
        /\ job[j].decision.delay = Timeout
        /\ ChainOf(n) \subseteq Known => job[j].decision.targets \intersect Known # {}
    BY <1>1, <1>2 DEF JobWalks, PlansOf
  <2>2. ChainOf(n)' = ChainOf(n)
    BY DEF ChainOf, InChain
  <2>3. ASSUME job[j].decision.targets \intersect Known # {}
        PROVE  \E k \in EmailsAt(job[j].level)' : k.at <= now
    <3>1. Notify(j)
      BY <2>3 DEF NotifyNone
    <3>2. PICK u : emails' = emails \union
            {[level |-> job[j].level, to |-> u, job |-> j, try |-> job[j].try,
              at |-> now, late |-> acked]}
      BY <3>1 DEF Notify
    <3> DEFINE m == [level |-> job[j].level, to |-> u, job |-> j, try |-> job[j].try,
                     at |-> now, late |-> acked]
    <3>3. m \in emails' /\ m.level = job[j].level /\ m.at = now
      BY <3>2
    <3>4. m \in EmailsAt(job[j].level)'
      BY <1>3, <3>3 DEF EmailsAt
    <3> QED
      BY <1>1, <3>3, <3>4
  <2> QED
    BY <2>1, <2>2, <2>3
<1> QED
  BY <1>3, <1>4, <1>5 DEF JobWalks

\* A level that has a next one has somebody to notify, if its chain is of users.
LEMMA TargetsExist ==
  ASSUME NEW level \in Levels, NEW onCall \in {{}} \union {{u} : u \in OnCall},
         level + 1 \in Levels, ChainOf(level + 1) \subseteq Known
  PROVE  Targets(level, onCall) \intersect Known # {}
<1>1. Len(Chain) \in Nat /\ level \in Nat /\ level < Len(Chain)
  BY EscalationAssumption DEF Levels
<1>2. DOMAIN Chain = 1 .. Len(Chain)
  BY EscalationAssumption
<1>3. CASE onCall # {} /\ level = 0
  BY <1>3, EscalationAssumption DEF Targets
<1>4. CASE ~(onCall # {} /\ level = 0)
  <2> DEFINE i == IF level = 0 THEN 1 ELSE level
  <2>1. i \in DOMAIN Chain
    BY <1>1, <1>2
  <2>2. Chain[i] \in InChain(i)
    BY <2>1 DEF InChain
  <2>3. Targets(level, onCall) = InChain(i)
    BY <1>1, <1>4 DEF Targets
  <2>4. ChainOf(level + 1) = InChain(i)
    BY <1>1 DEF ChainOf
  <2> QED
    BY <2>2, <2>3, <2>4
<1> QED
  BY <1>3, <1>4

LEMMA StartWalks ==
  ASSUME TypeOK, TypeOK', WalkInv, NEW j \in Jobs, Start(j)
  PROVE  JobWalks(j)'
<1>1. PICK onCall \in {{}} \union {{u} : u \in OnCall} :
        job' = [job EXCEPT ![j].state = "notify",
                           ![j].try = @ + 1,
                           ![j].at = now,
                           ![j].decision = plan(job[j].level, onCall, now)]
  BY DEF Start
<1> DEFINE d == plan(job[j].level, onCall, now)
<1>2. /\ job'[j].state = "notify" /\ job'[j].level = job[j].level
      /\ job'[j].at = now /\ job'[j].decision = d
  BY <1>1 DEF TypeOK
<1>3. /\ job[j].level \in Levels /\ job[j].due \in Nat /\ now \in Nat
      /\ now' = now /\ emails' = emails /\ job[j].due <= now
  BY DEF Start, TypeOK
<1>4. Preceded(job[j].level, now)'
  <2>1. Preceded(job[j].level, job[j].due)
    BY DEF WalkInv, JobWalks, Start
  <2> QED
    BY <1>2, <1>3, <2>1, PrecededStays DEF Preceded
<1>5. PlansOf(j)'
  <2> SUFFICES ASSUME NEW n \in d.next, ~(n = job[j].level /\ d.targets = {})
               PROVE  /\ n = job[j].level + 1
                      /\ d.delay = Timeout
                      /\ ChainOf(n)' \subseteq Known => d.targets \intersect Known # {}
    BY <1>2 DEF PlansOf
  <2>1. d = Decision(Targets(job[j].level, onCall), NextLevel(job[j].level), Timeout)
    BY <1>3, PlanDecides DEF Stop, Decision
  <2>2. /\ d.targets = Targets(job[j].level, onCall)
        /\ d.delay = Timeout
        /\ n = job[j].level + 1 /\ n \in Levels
    BY <2>1 DEF Decision, NextLevel
  <2>3. ChainOf(n)' = ChainOf(n)
    BY DEF ChainOf, InChain
  <2> QED
    BY <1>3, <2>2, <2>3, TargetsExist
<1> QED
  BY <1>2, <1>3, <1>4, <1>5 DEF JobWalks, Preceded

\* The next check is due when its level may be notified.
LEMMA EnqueueWalks ==
  ASSUME TypeOK, TypeOK', WalkInv, NEW j \in Jobs, EnqueueNext(j)
  PROVE  \A i \in Jobs : JobWalks(i)'
<1>1. PICK k \in Jobs, n \in job[j].decision.next :
        /\ IsFirstFree(k)
        /\ job' = [job EXCEPT ![k] = Queued(n, now + job[j].decision.delay),
                              ![j].state = "closing"]
  BY DEF EnqueueNext
<1>2. /\ job[j].state = "enqueue" /\ job[k].state = "free" /\ k # j
      /\ now' = now /\ now \in Nat /\ emails' = emails
      /\ n \in Levels /\ job[j].decision.delay \in Nat
      /\ job[j].level \in Levels /\ job[j].at \in Nat
  BY <1>1 DEF EnqueueNext, IsFirstFree, TypeOK, Decisions
<1>3. /\ job[j].at <= now /\ Preceded(job[j].level, job[j].at)
      /\ PlansOf(j)
  BY <1>2 DEF WalkInv, JobWalks, IsRunning, Running, InTask
<1>4. Preceded(n, now + job[j].decision.delay)
  <2>1. CASE n = job[j].level
    <3>1. \A k2 \in EmailsAt(n - 1) : k2.at \in Nat
      BY DEF EmailsAt, TypeOK
    <3>2. Timeout \in Nat
      BY EscalationAssumption
    <3> QED
      BY <1>2, <1>3, <2>1, <3>1, <3>2 DEF Preceded
  <2>2. CASE n # job[j].level
    <3>1. /\ n = job[j].level + 1 /\ job[j].decision.delay = Timeout
          /\ ChainOf(n) \subseteq Known => \E m \in EmailsAt(job[j].level) : m.at <= now
      BY <1>2, <1>3, <2>2 DEF PlansOf
    <3>2. n - 1 = job[j].level
      BY <1>2, <3>1 DEF Levels
    <3>3. \A m \in EmailsAt(job[j].level) : m.at \in Nat
      BY DEF EmailsAt, TypeOK
    <3>4. Timeout \in Nat
      BY EscalationAssumption
    <3> QED
      BY <1>2, <3>1, <3>2, <3>3, <3>4 DEF Preceded
  <2> QED
    BY <2>1, <2>2
<1>5. /\ job'[k].state = "queued" /\ job'[k].level = n
      /\ job'[k].due = now + job[j].decision.delay
  BY <1>1, <1>2 DEF TypeOK, Queued, Free
<1>6. JobWalks(k)'
  <2>1. Preceded(job[k].level, job[k].due)'
    BY <1>2, <1>4, <1>5 DEF Preceded, ChainOf, InChain, EmailsAt
  <2> QED
    BY <1>5, <2>1 DEF JobWalks, IsRunning, Running, InTask
<1>7. /\ job'[j].state = "closing" /\ job'[j].level = job[j].level
      /\ job'[j].at = job[j].at
  BY <1>1, <1>2 DEF TypeOK
<1>8. JobWalks(j)'
  <2>1. Preceded(job[j].level, job[j].at)'
    BY <1>2, <1>3, <1>7 DEF Preceded, ChainOf, InChain, EmailsAt
  <2> QED
    BY <1>2, <1>3, <1>7, <2>1 DEF JobWalks, IsRunning, Running, InTask
<1>9. ASSUME NEW i \in Jobs \ {j, k} PROVE JobWalks(i)'
  <2>1. job'[i] = job[i]
    BY <1>1 DEF TypeOK
  <2>2. JobWalks(i) /\ emails \subseteq emails' /\ now <= now'
    BY <1>2 DEF WalkInv
  <2> QED
    BY <2>1, <2>2, JobWalksOn
<1> QED
  BY <1>6, <1>8, <1>9

LEMMA WalkStep ==
  ASSUME TypeOK, TypeOK', WalkInv, [Next]_vars
  PROVE  WalkInv'
<1>1. ASSUME NEW j \in Jobs, JobWalks(j)', \A i \in Jobs \ {j} : job'[i] = job[i],
             emails \subseteq emails', now <= now',
             \A m \in emails' \ emails : Preceded(m.level, m.at)'
      PROVE  WalkInv'
  <2>1. ASSUME NEW i \in Jobs \ {j} PROVE JobWalks(i)'
    BY <1>1, <2>1, JobWalksOn DEF WalkInv
  <2>2. ASSUME NEW m \in emails PROVE Preceded(m.level, m.at)'
    <3>1. m.level \in Levels /\ m.at \in Nat
      BY DEF TypeOK
    <3> QED
      BY <1>1, <3>1, PrecededStays DEF WalkInv
  <2> QED
    BY <1>1, <2>1, <2>2 DEF WalkInv
<1>2. now \in Nat /\ job = [i \in Jobs |-> job[i]]
  BY DEF TypeOK
<1>3. ASSUME NEW j \in Jobs, Start(j) PROVE WalkInv'
  <2>1. /\ \A i \in Jobs \ {j} : job'[i] = job[i]
        /\ emails' = emails /\ now' = now
    BY <1>3 DEF Start, TypeOK
  <2> QED
    BY <1>1, <1>2, <1>3, <2>1, StartWalks
<1>4. ASSUME NEW j \in Jobs, Notify(j) \/ NotifyNone(j) PROVE WalkInv'
  <2>1. /\ \A i \in Jobs \ {j} : job'[i] = job[i]
        /\ emails \subseteq emails' /\ now' = now
    BY <1>4 DEF Notify, NotifyNone, TypeOK
  <2>2. JobWalks(j)'
    BY <1>4, NotifyWalks
  <2>3. ASSUME NEW m \in emails' \ emails PROVE Preceded(m.level, m.at)'
    <3>1. /\ job[j].state = "notify" /\ m.level = job[j].level /\ m.at = now
          /\ job[j].level \in Levels /\ job[j].at \in Nat
      BY <1>4, <2>3 DEF Notify, NotifyNone, TypeOK
    <3>2. job[j].at <= now /\ Preceded(job[j].level, job[j].at)
      BY <3>1 DEF WalkInv, JobWalks, IsRunning, Running, InTask
    <3> QED
      BY <1>2, <2>1, <3>1, <3>2, PrecededStays
  <2> QED
    BY <1>1, <1>2, <2>1, <2>2, <2>3
<1>5. ASSUME NEW j \in Jobs, Commit(j) PROVE WalkInv'
  <2>1. PICK s \in {"closing", "enqueue"} : job' = [job EXCEPT ![j].state = s]
    BY <1>5 DEF Commit
  <2>2. /\ \A i \in Jobs \ {j} : job'[i] = job[i]
        /\ emails' = emails /\ now' = now
    BY <1>5, <2>1 DEF Commit, TypeOK
  <2>3. /\ job'[j].state = s /\ job'[j].level = job[j].level
        /\ job'[j].at = job[j].at /\ job'[j].decision = job[j].decision
        /\ job[j].level \in Levels /\ job[j].at \in Nat
    BY <2>1 DEF TypeOK
  <2>4. job[j].at <= now /\ Preceded(job[j].level, job[j].at) /\ PlansOf(j)
    BY <1>5 DEF Commit, WalkInv, JobWalks, IsRunning, Running, InTask
  <2>5. Preceded(job[j].level, job[j].at)'
    BY <2>2, <2>3, <2>4 DEF Preceded, ChainOf, InChain, EmailsAt
  <2>6. PlansOf(j)'
    BY <1>2, <1>5, <2>2, <2>3, <2>4, PlanStays DEF Commit, InTask
  <2>7. JobWalks(j)'
    BY <2>2, <2>3, <2>4, <2>5, <2>6 DEF JobWalks
  <2> QED
    BY <1>1, <1>2, <2>2, <2>7
<1>6. ASSUME NEW j \in Jobs, EnqueueNext(j) PROVE WalkInv'
  <2>1. \A i \in Jobs : JobWalks(i)'
    BY <1>6, EnqueueWalks
  <2>2. emails' = emails
    BY <1>6 DEF EnqueueNext
  <2>3. \A m \in emails : Preceded(m.level, m.at)'
    BY <2>2 DEF WalkInv, Preceded, ChainOf, InChain, EmailsAt
  <2> QED
    BY <2>1, <2>2, <2>3 DEF WalkInv
<1>7. ASSUME NEW j \in Jobs, Finish(j) \/ Raise(j) PROVE WalkInv'
  <2>1. /\ \A i \in Jobs \ {j} : job'[i] = job[i]
        /\ emails' = emails /\ now' = now
        /\ job'[j].state = "ended"
    BY <1>7 DEF Finish, Raise, TypeOK, Free
  <2>2. JobWalks(j)'
    BY <2>1 DEF JobWalks, IsRunning, Running, InTask
  <2> QED
    BY <1>1, <1>2, <2>1, <2>2
<1>8. ASSUME NEW j \in Jobs, CutOff(j) PROVE WalkInv'
  <2>1. /\ \A i \in Jobs \ {j} : job'[i] = job[i]
        /\ emails' = emails /\ now' = now
        /\ job'[j].state = "queued" /\ job'[j].level = job[j].level /\ job'[j].due = now
        /\ job[j].level \in Levels /\ job[j].at \in Nat
    BY <1>8 DEF CutOff, TypeOK, Queued, Free
  <2>2. job[j].at <= now /\ Preceded(job[j].level, job[j].at)
    BY <1>8 DEF CutOff, WalkInv, JobWalks
  <2>3. Preceded(job[j].level, now)'
    BY <1>2, <2>1, <2>2, PrecededStays DEF Preceded
  <2>4. JobWalks(j)'
    BY <2>1, <2>3 DEF JobWalks, IsRunning, Running, InTask, Preceded
  <2> QED
    BY <1>1, <1>2, <2>1, <2>4
<1>9. CASE Tick \/ Acknowledge \/ ChangeSeverity \/ UNCHANGED vars
  <2>1. job' = job /\ emails' = emails /\ now <= now'
    BY <1>2, <1>9 DEF Tick, Acknowledge, ChangeSeverity, vars, incidentVars
  <2>2. \A i \in Jobs : JobWalks(i)'
    BY <2>1, JobWalksOn DEF WalkInv
  <2>3. \A m \in emails : Preceded(m.level, m.at)'
    BY <2>1 DEF WalkInv, Preceded, ChainOf, InChain, EmailsAt
  <2> QED
    BY <2>1, <2>2, <2>3 DEF WalkInv
<1> QED
  BY <1>3, <1>4, <1>5, <1>6, <1>7, <1>8, <1>9 DEF Next, Step

LEMMA WalkAlways == Spec => []WalkInv
<1>1. Init => WalkInv
  <2> SUFFICES ASSUME Init PROVE WalkInv
    OBVIOUS
  <2>1. ASSUME NEW j \in Jobs PROVE JobWalks(j)
    <3>1. /\ job[j].state \in {"queued", "free"} /\ job[j].level = 0
      BY DEF Init, Queued, Free
    <3> QED
      BY <3>1 DEF JobWalks, IsRunning, Running, InTask, Preceded
  <2> QED
    BY <2>1 DEF Init, WalkInv
<1>2. TypeOK /\ TypeOK' /\ WalkInv /\ [Next]_vars => WalkInv'
  BY WalkStep
<1> QED
  BY <1>1, <1>2, TypeCorrect, PTL DEF Spec

\* "Each further silent interval walks one step down the configured chain" (jobs/
\* escalation.py), whatever runs are late, raise or are repeated.
THEOREM OneStepAtATime == Spec => []OneStepPerInterval
<1>1. WalkInv => OneStepPerInterval
  BY DEF WalkInv, Preceded, ChainOf, OneStepPerInterval
<1> QED
  BY <1>1, WalkAlways, PTL

-----------------------------------------------------------------------------
(* Acknowledgement.                                                        *)

\* A run that will notify after the acknowledgement was under way before it.
SilenceInv ==
  /\ \A m \in emails : m.late => acked /\ <<m.job, m.try>> \in inFlight
  /\ \A j \in Jobs :
       acked /\ job[j].state \in InTask /\ job[j].decision.targets # {}
       => <<j, job[j].try>> \in inFlight

LEMMA SilenceStep ==
  ASSUME TypeOK, TypeOK', SilenceInv, [Next]_vars
  PROVE  SilenceInv'
<1>1. ASSUME NEW j \in Jobs, \A i \in Jobs \ {j} : job'[i].state \in InTask => job'[i] = job[i],
             acked' = acked, inFlight' = inFlight,
             \/ job'[j].state \notin InTask \/ job'[j].decision.targets = {}
             \/ ~acked
             \/ /\ job[j].state \in InTask /\ job'[j].try = job[j].try
                /\ job'[j].decision = job[j].decision,
             \A m \in emails' \ emails :
               m.late => acked /\ <<m.job, m.try>> \in inFlight
      PROVE  SilenceInv'
  BY <1>1 DEF SilenceInv
<1>2. ASSUME NEW j \in Jobs, Start(j) PROVE SilenceInv'
  <2>1. PICK onCall \in {{}} \union {{u} : u \in OnCall} :
          job' = [job EXCEPT ![j].state = "notify",
                             ![j].try = @ + 1,
                             ![j].at = now,
                             ![j].decision = plan(job[j].level, onCall, now)]
    BY <1>2 DEF Start
  <2>2. /\ \A i \in Jobs \ {j} : job'[i] = job[i]
        /\ job'[j].decision = plan(job[j].level, onCall, now)
        /\ emails' = emails /\ acked' = acked /\ inFlight' = inFlight
    BY <1>2, <2>1 DEF Start, TypeOK, incidentVars
  <2>3. job'[j].decision.targets = {} \/ ~acked
    <3>1. job[j].level \in Levels
      BY DEF TypeOK
    <3> QED
      BY <2>2, <3>1, PlanDecides DEF Stop, Decision
  <2> QED
    BY <1>1, <2>2, <2>3
<1>3. ASSUME NEW j \in Jobs, Notify(j) \/ NotifyNone(j) PROVE SilenceInv'
  <2>1. /\ \A i \in Jobs \ {j} : job'[i] = job[i]
        /\ job'[j].try = job[j].try /\ job'[j].decision = job[j].decision
        /\ acked' = acked /\ inFlight' = inFlight
        /\ job[j].state \in InTask
    BY <1>3 DEF Notify, NotifyNone, TypeOK, incidentVars, InTask
  <2>2. ASSUME NEW m \in emails' \ emails, m.late
        PROVE  acked /\ <<m.job, m.try>> \in inFlight
    <3>1. Notify(j)
      BY <1>3, <2>2 DEF NotifyNone
    <3>2. PICK u \in job[j].decision.targets :
            m = [level |-> job[j].level, to |-> u, job |-> j, try |-> job[j].try,
                 at |-> now, late |-> acked]
      BY <2>2, <3>1 DEF Notify
    <3>3. m.late = acked /\ m.job = j /\ m.try = job[j].try
      BY <3>2
    <3>4. acked
      BY <2>2, <3>3
    <3> QED
      BY <2>1, <3>2, <3>3, <3>4 DEF SilenceInv
  <2> QED
    BY <1>1, <2>1, <2>2
<1>4. ASSUME NEW j \in Jobs, Commit(j) PROVE SilenceInv'
  <2>1. /\ \A i \in Jobs \ {j} : job'[i] = job[i]
        /\ job'[j].try = job[j].try /\ job'[j].decision = job[j].decision
        /\ acked' = acked /\ inFlight' = inFlight /\ emails' = emails
        /\ job[j].state \in InTask
    BY <1>4 DEF Commit, TypeOK, incidentVars, InTask
  <2> QED
    BY <1>1, <2>1
<1>5. ASSUME NEW j \in Jobs, EnqueueNext(j) PROVE SilenceInv'
  <2>1. PICK k \in Jobs, n \in job[j].decision.next :
          /\ IsFirstFree(k)
          /\ job' = [job EXCEPT ![k] = Queued(n, now + job[j].decision.delay),
                                ![j].state = "closing"]
    BY <1>5 DEF EnqueueNext
  <2>2. job[k].state = "free" /\ job[j].state = "enqueue" /\ k # j
    BY <1>5, <2>1 DEF EnqueueNext, IsFirstFree
  <2>3. /\ job'[k].state = "queued" /\ job'[j].state = "closing"
        /\ \A i \in Jobs \ {j, k} : job'[i] = job[i]
    BY <2>1, <2>2 DEF TypeOK, Queued, Free
  <2>4. acked' = acked /\ inFlight' = inFlight /\ emails' = emails
    BY <1>5 DEF EnqueueNext, incidentVars
  <2>5. \A i \in Jobs \ {j} : job'[i].state \in InTask => job'[i] = job[i]
    BY <2>3 DEF InTask
  <2>6. job'[j].state \notin InTask
    BY <2>3 DEF InTask
  <2> QED
    BY <1>1, <2>4, <2>5, <2>6
<1>6. ASSUME NEW j \in Jobs, Finish(j) \/ Raise(j) \/ CutOff(j) PROVE SilenceInv'
  <2>1. /\ \A i \in Jobs \ {j} : job'[i] = job[i]
        /\ job'[j].state \in {"ended", "queued"}
        /\ acked' = acked /\ inFlight' = inFlight /\ emails' = emails
    <3>1. CASE Finish(j) \/ Raise(j)
      BY <3>1 DEF Finish, Raise, TypeOK, incidentVars, Free
    <3>2. CASE CutOff(j)
      BY <3>2 DEF CutOff, TypeOK, incidentVars, Queued, Free
    <3> QED
      BY <1>6, <3>1, <3>2
  <2>2. job'[j].state \notin InTask
    BY <2>1 DEF InTask
  <2> QED
    BY <1>1, <2>1, <2>2
<1>7. CASE Acknowledge
  <2>1. /\ ~acked /\ acked' = TRUE /\ emails' = emails /\ job' = job
        /\ inFlight' = {<<j, job[j].try>> : j \in {k \in Jobs : IsRunning(k)}}
    BY <1>7 DEF Acknowledge
  <2>2. \A j \in Jobs : job[j].state \in InTask => IsRunning(j)
    BY DEF IsRunning, Running
  <2> QED
    BY <2>1, <2>2 DEF SilenceInv
<1>8. CASE Tick \/ ChangeSeverity \/ UNCHANGED vars
  <2>1. job' = job /\ emails' = emails /\ acked' = acked /\ inFlight' = inFlight
    BY <1>8 DEF Tick, ChangeSeverity, vars, incidentVars
  <2> QED
    BY <2>1 DEF SilenceInv
<1> QED
  BY <1>2, <1>3, <1>4, <1>5, <1>6, <1>7, <1>8 DEF Next, Step

\* Whoever acknowledges hears no more, but from the runs already under way.
THEOREM AcknowledgementSilences == Spec => []AcknowledgeSilences
<1>1. Init => SilenceInv
  BY DEF Init, SilenceInv
<1>2. SilenceInv => AcknowledgeSilences
  BY DEF SilenceInv, AcknowledgeSilences
<1>3. TypeOK /\ TypeOK' /\ SilenceInv /\ [Next]_vars => SilenceInv'
  BY SilenceStep
<1> QED
  BY <1>1, <1>2, <1>3, TypeCorrect, PTL DEF Spec

-----------------------------------------------------------------------------
(* Duplicates.                                                             *)

\* The jobs that may still bring about a notification of level n: those before it,
\* and those that come back to it.
MayNotify(n) ==
  {j \in Jobs : \/ job[j].state \in {"queued", "notify"} /\ job[j].level <= n
                \/ /\ job[j].state \in {"commit", "enqueue"}
                   /\ \/ job[j].level < n
                      \/ job[j].level = n /\ n \in job[j].decision.next}

BudgetInv ==
  /\ IsFiniteSet(emails)
  /\ \A n \in Levels :
       Cardinality(EmailsAt(n)) + Cardinality(MayNotify(n)) <= 1 + faults.cut

LEMMA Sizes ==
  ASSUME IsFiniteSet(emails), NEW n
  PROVE  /\ IsFiniteSet(EmailsAt(n)) /\ Cardinality(EmailsAt(n)) \in Nat
         /\ IsFiniteSet(MayNotify(n)) /\ Cardinality(MayNotify(n)) \in Nat
<1>1. IsFiniteSet(Jobs)
  BY FS_Interval, EscalationAssumption DEF Jobs
<1>2. EmailsAt(n) \in SUBSET emails /\ MayNotify(n) \in SUBSET Jobs
  BY DEF EmailsAt, MayNotify
<1>3. IsFiniteSet(EmailsAt(n)) /\ IsFiniteSet(MayNotify(n))
  BY <1>1, <1>2, FS_Subset
<1> QED
  BY <1>3, FS_CardinalityType

LEMMA Smaller ==
  ASSUME NEW S, IsFiniteSet(S), NEW T \in SUBSET S
  PROVE  /\ IsFiniteSet(T) /\ Cardinality(T) <= Cardinality(S)
         /\ Cardinality(S) \in Nat /\ Cardinality(T) \in Nat
BY FS_Subset, FS_CardinalityType

LEMMA OneMore ==
  ASSUME NEW S, IsFiniteSet(S), NEW x, NEW T \in SUBSET (S \union {x})
  PROVE  /\ IsFiniteSet(T) /\ Cardinality(T) <= Cardinality(S) + 1
         /\ Cardinality(S) \in Nat /\ Cardinality(T) \in Nat
<1>1. /\ IsFiniteSet(S \union {x}) /\ Cardinality(S) \in Nat
      /\ Cardinality(S \union {x}) = Cardinality(S) \/ Cardinality(S \union {x}) = Cardinality(S) + 1
  BY FS_AddElement, FS_CardinalityType
<1>2. /\ IsFiniteSet(T) /\ Cardinality(T) <= Cardinality(S \union {x})
      /\ Cardinality(T) \in Nat
  BY <1>1, Smaller
<1> QED
  BY <1>1, <1>2

LEMMA OneLess ==
  ASSUME NEW S, IsFiniteSet(S), NEW x \in S, NEW T \in SUBSET (S \ {x})
  PROVE  /\ IsFiniteSet(T) /\ Cardinality(T) + 1 <= Cardinality(S)
         /\ Cardinality(S) \in Nat /\ Cardinality(T) \in Nat
<1>1. /\ IsFiniteSet(S \ {x}) /\ Cardinality(S) \in Nat
      /\ Cardinality(S \ {x}) = Cardinality(S) - 1
  BY FS_RemoveElement, FS_CardinalityType
<1>2. /\ IsFiniteSet(T) /\ Cardinality(T) <= Cardinality(S \ {x})
      /\ Cardinality(T) \in Nat
  BY <1>1, Smaller
<1> QED
  BY <1>1, <1>2

LEMMA BudgetStep ==
  ASSUME TypeOK, TypeOK', WalkInv, BudgetInv, [Next]_vars
  PROVE  BudgetInv'
<1>1. faults.cut \in Nat /\ faults'.cut \in Nat
  BY DEF TypeOK
<1>2. \A n : /\ IsFiniteSet(EmailsAt(n)) /\ Cardinality(EmailsAt(n)) \in Nat
             /\ IsFiniteSet(MayNotify(n)) /\ Cardinality(MayNotify(n)) \in Nat
  BY Sizes DEF BudgetInv
<1>3. \A n : Cardinality(MayNotify(n)') \in Nat
  <2>1. IsFiniteSet(Jobs)
    BY FS_Interval, EscalationAssumption DEF Jobs
  <2>2. \A n : MayNotify(n)' \in SUBSET Jobs
    BY DEF MayNotify
  <2> QED
    BY <2>1, <2>2, FS_Subset, FS_CardinalityType
<1>4. ASSUME emails' = emails, faults'.cut >= faults.cut,
             \A n \in Levels : Cardinality(MayNotify(n)') + faults.cut
                                 <= Cardinality(MayNotify(n)) + faults'.cut
      PROVE  BudgetInv'
  <2>1. \A n \in Levels : EmailsAt(n)' = EmailsAt(n)
    BY <1>4 DEF EmailsAt
  <2> QED
    BY <1>1, <1>2, <1>3, <1>4, <2>1 DEF BudgetInv
\* A step that only moves the job j on.
<1>5. ASSUME NEW j \in Jobs, \A i \in Jobs \ {j} : job'[i] = job[i],
             emails' = emails, faults'.cut = faults.cut,
             \A n \in Levels : j \in MayNotify(n)' => j \in MayNotify(n)
      PROVE  BudgetInv'
  <2>1. ASSUME NEW n \in Levels PROVE MayNotify(n)' \in SUBSET MayNotify(n)
    BY <1>5 DEF MayNotify
  <2>2. \A n \in Levels : Cardinality(MayNotify(n)') <= Cardinality(MayNotify(n))
    BY <1>2, <2>1, Smaller
  <2> QED
    BY <1>1, <1>2, <1>3, <1>4, <1>5, <2>2
<1>6. ASSUME NEW j \in Jobs, Start(j) PROVE BudgetInv'
  <2>1. /\ \A i \in Jobs \ {j} : job'[i] = job[i]
        /\ job'[j].state = "notify" /\ job[j].state = "queued"
        /\ job'[j].level = job[j].level
        /\ emails' = emails /\ faults' = faults
    BY <1>6 DEF Start, TypeOK
  <2> QED
    BY <1>5, <2>1 DEF MayNotify
<1>7. ASSUME NEW j \in Jobs, NotifyNone(j) PROVE BudgetInv'
  <2>1. /\ \A i \in Jobs \ {j} : job'[i] = job[i]
        /\ job'[j].state = "commit" /\ job[j].state = "notify"
        /\ job'[j].level = job[j].level /\ job'[j].level \in Nat
        /\ emails' = emails /\ faults' = faults
    BY <1>7 DEF NotifyNone, TypeOK, Levels
  <2>2. \A n \in Levels : n \in Nat
    BY DEF Levels
  <2> QED
    BY <1>5, <2>1, <2>2 DEF MayNotify
<1>8. ASSUME NEW j \in Jobs, Notify(j) PROVE BudgetInv'
  <2>1. PICK u \in job[j].decision.targets :
          emails' = emails \union
            {[level |-> job[j].level, to |-> u, job |-> j, try |-> job[j].try,
              at |-> now, late |-> acked]}
    BY <1>8 DEF Notify
  <2> DEFINE m == [level |-> job[j].level, to |-> u, job |-> j, try |-> job[j].try,
                   at |-> now, late |-> acked]
  <2>2. /\ \A i \in Jobs \ {j} : job'[i] = job[i]
        /\ job'[j].state = "commit" /\ job[j].state = "notify"
        /\ job'[j].level = job[j].level /\ job'[j].decision = job[j].decision
        /\ job[j].level \in Nat /\ faults' = faults /\ m.level = job[j].level
    BY <1>8 DEF Notify, TypeOK, Levels
  <2>3. job[j].level \notin job[j].decision.next
    <3>1. PlansOf(j)
      BY <2>2 DEF WalkInv, JobWalks, InTask
    <3> QED
      BY <2>1, <2>2, <3>1 DEF PlansOf
  <2>4. IsFiniteSet(emails')
    BY <2>1, FS_AddElement DEF BudgetInv
  <2>5. ASSUME NEW n \in Levels
        PROVE  (Cardinality(EmailsAt(n)) + Cardinality(MayNotify(n)))' <= 1 + faults.cut
    <3>1. CASE n = job[j].level
      <4>1. EmailsAt(n)' \in SUBSET (EmailsAt(n) \union {m})
        BY <2>1 DEF EmailsAt
      <4>2. j \in MayNotify(n) /\ MayNotify(n)' \in SUBSET (MayNotify(n) \ {j})
        BY <2>2, <2>3, <3>1 DEF MayNotify
      <4>3. /\ Cardinality(EmailsAt(n)') <= Cardinality(EmailsAt(n)) + 1
            /\ Cardinality(EmailsAt(n)') \in Nat
        BY <1>2, <4>1, OneMore
      <4>4. Cardinality(MayNotify(n)') + 1 <= Cardinality(MayNotify(n))
        BY <1>2, <4>2, OneLess
      <4> QED
        BY <1>1, <1>2, <1>3, <4>3, <4>4 DEF BudgetInv
    <3>2. CASE n # job[j].level
      <4>1. EmailsAt(n)' = EmailsAt(n)
        BY <2>1, <2>2, <3>2 DEF EmailsAt
      <4>2. MayNotify(n)' \in SUBSET MayNotify(n)
        <5>1. n \in Nat
          BY DEF Levels
        <5> QED
          BY <2>2, <3>2, <5>1 DEF MayNotify
      <4>3. Cardinality(MayNotify(n)') <= Cardinality(MayNotify(n))
        BY <1>2, <4>2, Smaller
      <4> QED
        BY <1>1, <1>2, <1>3, <4>1, <4>3 DEF BudgetInv
    <3> QED
      BY <3>1, <3>2
  <2> QED
    BY <2>2, <2>4, <2>5 DEF BudgetInv
<1>9. ASSUME NEW j \in Jobs, Commit(j) PROVE BudgetInv'
  <2>1. /\ \A i \in Jobs \ {j} : job'[i] = job[i]
        /\ job'[j].state \in {"closing", "enqueue"} /\ job[j].state = "commit"
        /\ job'[j].level = job[j].level /\ job'[j].decision = job[j].decision
        /\ emails' = emails /\ faults' = faults
    BY <1>9 DEF Commit, TypeOK
  <2> QED
    BY <1>5, <2>1 DEF MayNotify
<1>10. ASSUME NEW j \in Jobs, EnqueueNext(j) PROVE BudgetInv'
  <2>1. PICK k \in Jobs, n \in job[j].decision.next :
          /\ IsFirstFree(k)
          /\ job' = [job EXCEPT ![k] = Queued(n, now + job[j].decision.delay),
                                ![j].state = "closing"]
    BY <1>10 DEF EnqueueNext
  <2>2. job[k].state = "free" /\ job[j].state = "enqueue" /\ k # j
    BY <1>10, <2>1 DEF EnqueueNext, IsFirstFree
  <2>3. /\ job'[k].level = n /\ job'[k].state = "queued" /\ job'[j].state = "closing"
        /\ \A i \in Jobs \ {j, k} : job'[i] = job[i]
        /\ emails' = emails /\ faults' = faults
        /\ job[j].level \in Nat /\ n \in Levels
    <3>1. /\ job'[k].level = n /\ job'[k].state = "queued" /\ job'[j].state = "closing"
          /\ \A i \in Jobs \ {j, k} : job'[i] = job[i]
      BY <2>1, <2>2 DEF TypeOK, Queued, Free
    <3>2. emails' = emails /\ faults' = faults
      BY <1>10 DEF EnqueueNext
    <3>3. job[j].level \in Levels /\ n \in Levels
      BY <2>1 DEF TypeOK, Decisions
    <3> QED
      BY <3>1, <3>2, <3>3 DEF Levels
  <2>4. n = job[j].level \/ n = job[j].level + 1
    BY <2>2 DEF WalkInv, JobWalks, InTask, PlansOf
  <2>5. ASSUME NEW l \in Levels
        PROVE  Cardinality(MayNotify(l)') <= Cardinality(MayNotify(l))
    <3>0. l \in Nat /\ n \in Nat
      BY <2>3 DEF Levels
    <3>1. CASE j \in MayNotify(l)
      <4>1. MayNotify(l)' \in SUBSET ((MayNotify(l) \ {j}) \union {k})
        BY <2>3 DEF MayNotify
      <4>2. /\ IsFiniteSet(MayNotify(l) \ {j})
            /\ Cardinality(MayNotify(l) \ {j}) + 1 <= Cardinality(MayNotify(l))
            /\ Cardinality(MayNotify(l) \ {j}) \in Nat
        BY <1>2, <3>1, OneLess
      <4>3. Cardinality(MayNotify(l)') <= Cardinality(MayNotify(l) \ {j}) + 1
        BY <4>1, <4>2, OneMore
      <4> QED
        BY <1>2, <1>3, <4>2, <4>3
    <3>2. CASE j \notin MayNotify(l)
      <4>1. n > l
        BY <2>2, <2>3, <2>4, <3>0, <3>2 DEF MayNotify
      <4>2. MayNotify(l)' \in SUBSET MayNotify(l)
        BY <2>3, <3>0, <4>1 DEF MayNotify
      <4> QED
        BY <1>2, <4>2, Smaller
    <3> QED
      BY <3>1, <3>2
  <2> QED
    BY <1>1, <1>2, <1>3, <1>4, <2>3, <2>5
<1>11. ASSUME NEW j \in Jobs, Finish(j) \/ Raise(j) PROVE BudgetInv'
  <2>1. /\ \A i \in Jobs \ {j} : job'[i] = job[i]
        /\ job'[j].state = "ended"
        /\ emails' = emails /\ faults'.cut = faults.cut
    BY <1>11 DEF Finish, Raise, TypeOK, Free
  <2> QED
    BY <1>5, <2>1 DEF MayNotify
<1>12. ASSUME NEW j \in Jobs, CutOff(j) PROVE BudgetInv'
  <2>1. /\ \A i \in Jobs \ {j} : job'[i] = job[i]
        /\ emails' = emails /\ faults'.cut = faults.cut + 1
    BY <1>12 DEF CutOff, TypeOK
  <2>2. \A n \in Levels : MayNotify(n)' \in SUBSET (MayNotify(n) \union {j})
    BY <2>1 DEF MayNotify
  <2>3. \A n \in Levels : Cardinality(MayNotify(n)') <= Cardinality(MayNotify(n)) + 1
    BY <1>2, <2>2, OneMore
  <2> QED
    BY <1>1, <1>2, <1>3, <1>4, <2>1, <2>3
<1>13. CASE Tick \/ Acknowledge \/ ChangeSeverity \/ UNCHANGED vars
  <2>1. job' = job /\ emails' = emails /\ faults' = faults
    BY <1>13 DEF Tick, Acknowledge, ChangeSeverity, vars, incidentVars
  <2> QED
    BY <2>1 DEF BudgetInv, EmailsAt, MayNotify
<1> QED
  BY <1>6, <1>7, <1>8, <1>9, <1>10, <1>11, <1>12, <1>13 DEF Next, Step

\* Nobody is woken twice for one level, but once more for each run that a crash or
\* a shutdown cut off.
THEOREM OnlyCrashesDuplicate == Spec => []DuplicatesNeedCrashes
<1>1. Init => BudgetInv
  <2> SUFFICES ASSUME Init PROVE BudgetInv
    OBVIOUS
  <2>1. emails = {} /\ faults.cut = 0
    BY DEF Init
  <2>2. \A n : EmailsAt(n) = {} /\ MayNotify(n) \in SUBSET ({} \union {1})
    BY DEF Init, EmailsAt, MayNotify, Free
  <2>3. IsFiniteSet({}) /\ Cardinality({}) = 0
    BY FS_EmptySet
  <2>4. \A n : Cardinality(MayNotify(n)) <= 0 + 1 /\ Cardinality(MayNotify(n)) \in Nat
    BY <2>2, <2>3, OneMore
  <2> QED
    BY <2>1, <2>2, <2>3, <2>4 DEF BudgetInv
<1>2. TypeOK /\ BudgetInv => DuplicatesNeedCrashes
  <2> SUFFICES ASSUME TypeOK, BudgetInv, NEW n \in Levels
               PROVE  Cardinality(EmailsAt(n)) <= 1 + faults.cut
    BY DEF DuplicatesNeedCrashes
  <2>1. Cardinality(EmailsAt(n)) \in Nat /\ Cardinality(MayNotify(n)) \in Nat
    BY Sizes DEF BudgetInv
  <2> QED
    BY <2>1 DEF BudgetInv, TypeOK
<1>3. TypeOK /\ TypeOK' /\ WalkInv /\ BudgetInv /\ [Next]_vars => BudgetInv'
  BY BudgetStep
<1> QED
  BY <1>1, <1>2, <1>3, TypeCorrect, WalkAlways, PTL DEF Spec
===============================================================================
