------------------------------- MODULE DeskProofs -------------------------------
(***************************************************************************)
(* Proofs about the parts that Desk puts together: the rate limiter, the   *)
(* rollup, the catalogue and the broker, each about its own specification, *)
(* then that Desk's behaviours are behaviours of every part.               *)
(***************************************************************************)
EXTENDS Desk, DiscussionProofs, SequenceTheorems

-----------------------------------------------------------------------------
(* THE RATE LIMITER                                                        *)

LimiterSteps == {"new", "stamped", "over", "admitted", "rejected", "open"}

LimiterType ==
  /\ clock \in Nat /\ expires \in Nat
  /\ zset \subseteq Requests /\ gone \subseteq Requests /\ late \subseteq Requests /\ spurious \subseteq Requests
  /\ attempt \in [Requests -> [pc : LimiterSteps, stamp : Nat]]

\* Only who ran is counted.
CountedInv ==
  \A q \in zset \union gone \union late \union spurious : attempt[q].pc \notin {"new", "stamped"}

\* Who was admitted is still in the sorted set, or known to be gone.
KeptInv == Are("admitted") \subseteq zset \union gone

\* The admitted requests, but for the late ones, that a window ending at t holds.
Within(t) == {q \in Are("admitted") \ late : Stamp(q) <= t /\ t < Stamp(q) + Window}

BudgetInv == \A t \in Nat : Cardinality(Within(t)) <= Limit

RejectInv == \A r \in Are("over") \union Are("rejected") :
               r \in spurious \/ Cardinality(Admitted(r)) >= Limit

LimiterInv == LimiterType /\ CountedInv /\ KeptInv /\ BudgetInv /\ RejectInv

-----------------------------------------------------------------------------
LEMMA LimiterSubsetBounded ==
  ASSUME NEW S, IsFiniteSet(S), NEW T \in SUBSET S, NEW n \in Nat, Cardinality(S) <= n
  PROVE  Cardinality(T) <= n
<1>1. IsFiniteSet(T) /\ Cardinality(T) <= Cardinality(S)
  BY FS_Subset
<1>2. Cardinality(S) \in Nat /\ Cardinality(T) \in Nat
  BY <1>1, FS_CardinalityType
<1> QED
  BY <1>1, <1>2

LEMMA LimiterSubsetAtLeast ==
  ASSUME NEW S, IsFiniteSet(S), NEW T \in SUBSET S, NEW n \in Nat, Cardinality(T) >= n
  PROVE  Cardinality(S) >= n
<1>1. IsFiniteSet(T) /\ Cardinality(T) <= Cardinality(S)
  BY FS_Subset
<1>2. Cardinality(S) \in Nat /\ Cardinality(T) \in Nat
  BY <1>1, FS_CardinalityType
<1> QED
  BY <1>1, <1>2

\* Every set of requests is finite.
LEMMA RequestsFinite ==
  ASSUME NEW S \in SUBSET Requests
  PROVE  IsFiniteSet(S)
BY FS_Subset, RateLimiterAssumption

LEMMA LimiterInitially == LimiterInit => LimiterInv
<1> SUFFICES ASSUME LimiterInit PROVE LimiterInv
  OBVIOUS
<1> USE RateLimiterAssumption DEF LimiterInit
<1>1. LimiterType
  BY DEF LimiterType, LimiterSteps
<1>2. CountedInv
  BY DEF CountedInv, Stamp, Are
<1>3. KeptInv /\ RejectInv
  BY DEF KeptInv, RejectInv, Are
<1>4. BudgetInv
  <2> SUFFICES ASSUME NEW t \in Nat PROVE Cardinality(Within(t)) <= Limit
    BY DEF BudgetInv
  <2>1. Within(t) = {}
    BY DEF Within, Are
  <2> QED
    BY <2>1, FS_EmptySet
<1> QED
  BY <1>1, <1>2, <1>3, <1>4 DEF LimiterInv

\* A step that admits and rejects nobody keeps what BudgetInv and RejectInv say.
LEMMA NobodyDecided ==
  ASSUME LimiterInv, LimiterType', CountedInv',
         late' = late, spurious' = spurious,
         Are("admitted")' = Are("admitted"),
         (Are("over") \union Are("rejected"))' \subseteq Are("over") \union Are("rejected"),
         \A q \in Are("admitted") \union Are("over") \union Are("rejected") :
           Stamp(q)' = Stamp(q)
  PROVE  BudgetInv' /\ RejectInv'
<1>1. \A t \in Nat : Within(t)' = Within(t)
  BY DEF Within
<1>2. BudgetInv'
  BY <1>1 DEF BudgetInv, LimiterInv
<1>3. \A r \in Are("over") \union Are("rejected") : Admitted(r)' = Admitted(r)
  BY DEF Admitted
<1>4. RejectInv'
  BY <1>3 DEF RejectInv, LimiterInv
<1> QED
  BY <1>2, <1>4

-----------------------------------------------------------------------------
\* Every step keeps the types.
LEMMA LimiterTypeStep ==
  ASSUME LimiterType, [LimiterNext]_limiterVars
  PROVE  LimiterType'
<1> USE RateLimiterAssumption DEF LimiterType, LimiterSteps
<1>1. CASE Tick
  BY <1>1 DEF Tick
<1>2. ASSUME NEW r \in Requests, TakeTime(r) PROVE LimiterType'
  BY <1>2 DEF TakeTime
<1>3. ASSUME NEW r \in Requests, Pipeline(r) PROVE LimiterType'
  BY <1>3 DEF Pipeline, Count, Kept, Becomes, Stamp
<1>4. ASSUME NEW r \in Requests, Remove(r) PROVE LimiterType'
  BY <1>4 DEF Remove, Becomes
<1>5. ASSUME NEW r \in Requests, RedisError(r) PROVE LimiterType'
  BY <1>5 DEF RedisError, Count, Kept, Becomes, Stamp
<1>6. CASE DropKey
  BY <1>6 DEF DropKey
<1>7. CASE UNCHANGED limiterVars
  BY <1>7 DEF limiterVars
<1> QED
  BY <1>1, <1>2, <1>3, <1>4, <1>5, <1>6, <1>7 DEF LimiterNext

\* A request is counted by its pipeline, whether or not it hears of it.
LEMMA CountedStep ==
  ASSUME LimiterType, LimiterType', CountedInv, [LimiterNext]_limiterVars
  PROVE  CountedInv'
<1> USE RateLimiterAssumption DEF LimiterType, LimiterSteps, CountedInv, Are, Stamp
<1>1. CASE Tick
  BY <1>1 DEF Tick
<1>2. ASSUME NEW r \in Requests, TakeTime(r) PROVE CountedInv'
  BY <1>2 DEF TakeTime
<1>3. ASSUME NEW r \in Requests, Pipeline(r) PROVE CountedInv'
  BY <1>3 DEF Pipeline, Count, Kept, Becomes
<1>4. ASSUME NEW r \in Requests, Remove(r) PROVE CountedInv'
  BY <1>4 DEF Remove, Becomes
<1>5. ASSUME NEW r \in Requests, RedisError(r) PROVE CountedInv'
  BY <1>5 DEF RedisError, Count, Kept, Becomes
<1>6. CASE DropKey
  BY <1>6 DEF DropKey
<1>7. CASE UNCHANGED limiterVars
  BY <1>7 DEF limiterVars
<1> QED
  BY <1>1, <1>2, <1>3, <1>4, <1>5, <1>6, <1>7 DEF LimiterNext

\* What is trimmed, and what goes with the key, is remembered as gone.
LEMMA KeptStep ==
  ASSUME LimiterType, LimiterType', CountedInv, KeptInv, [LimiterNext]_limiterVars
  PROVE  KeptInv'
<1> USE RateLimiterAssumption DEF LimiterType, LimiterSteps, CountedInv, KeptInv, Are, Stamp
<1>1. CASE Tick
  BY <1>1 DEF Tick
<1>2. ASSUME NEW r \in Requests, TakeTime(r) PROVE KeptInv'
  BY <1>2 DEF TakeTime
<1>3. ASSUME NEW r \in Requests, Pipeline(r) PROVE KeptInv'
  BY <1>3 DEF Pipeline, Count, Kept, Becomes, InWindow
<1>4. ASSUME NEW r \in Requests, Remove(r) PROVE KeptInv'
  BY <1>4 DEF Remove, Becomes
<1>5. ASSUME NEW r \in Requests, RedisError(r) PROVE KeptInv'
  BY <1>5 DEF RedisError, Count, Kept, Becomes, InWindow
<1>6. CASE DropKey
  BY <1>6 DEF DropKey
<1>7. CASE UNCHANGED limiterVars
  BY <1>7 DEF limiterVars
<1> QED
  BY <1>1, <1>2, <1>3, <1>4, <1>5, <1>6, <1>7 DEF LimiterNext

\* The one step that decides.  Who is admitted and not late was counted together
\* with everyone admitted in any window that holds both, for these were kept.
LEMMA PipelineDecides ==
  ASSUME LimiterInv, LimiterType', NEW r \in Requests, Pipeline(r)
  PROVE  BudgetInv' /\ RejectInv'
<1> DEFINE counted == Kept(r) \union {r}
<1> USE RateLimiterAssumption
<1>1. /\ r \notin zset \union gone \union late \union spurious
      /\ attempt[r].pc = "stamped" /\ Stamp(r) \in Nat
      /\ counted \subseteq Requests /\ r \notin Kept(r)
  BY DEF LimiterInv, LimiterType, CountedInv, Pipeline, Kept, Stamp
<1>2. IsFiniteSet(counted) /\ IsFiniteSet(Kept(r))
  BY <1>1, RequestsFinite
<1>3. /\ Cardinality(counted) = Cardinality(Kept(r)) + 1
      /\ Cardinality(Kept(r)) \in Nat
  BY <1>1, <1>2, FS_AddElement, FS_CardinalityType
<1>4. \A q \in Requests : Stamp(q)' = Stamp(q)
  BY DEF Pipeline, Becomes, Stamp, LimiterInv, LimiterType
<1>5. CASE Cardinality(counted) > Limit
  <2>1. /\ Are("admitted")' = Are("admitted")
        /\ (Are("over") \union Are("rejected"))' = Are("over") \union Are("rejected") \union {r}
    BY <1>1, <1>5 DEF Pipeline, OverBudget, Becomes, Are, LimiterInv, LimiterType
  <2>2. \A t \in Nat : Within(t)' = Within(t)
    BY <1>1, <1>4, <2>1 DEF Within, Pipeline, Are
  <2>3. BudgetInv'
    BY <2>2 DEF BudgetInv, LimiterInv
  <2>4. \A q \in Requests : Admitted(q)' = Admitted(q)
    BY <1>4, <2>1 DEF Admitted, Are
  <2>5. spurious \subseteq spurious'
    BY DEF Pipeline
  <2>6. r \in spurious' \/ Cardinality(Admitted(r)) >= Limit
    <3>1. CASE ~(Kept(r) \subseteq Are("admitted"))
      BY <3>1 DEF Pipeline
    <3>2. CASE Kept(r) \subseteq Are("admitted")
      <4>1. Kept(r) \in SUBSET Admitted(r)
        BY <3>2 DEF Kept, Admitted, InWindow
      <4>2. IsFiniteSet(Admitted(r))
        BY RequestsFinite DEF Admitted, Are
      <4>3. Cardinality(Kept(r)) >= Limit
        BY <1>3, <1>5
      <4> QED
        BY <4>1, <4>2, <4>3, LimiterSubsetAtLeast
    <3> QED
      BY <3>1, <3>2
  <2>7. RejectInv'
    BY <2>1, <2>4, <2>5, <2>6 DEF RejectInv, LimiterInv, Are
  <2> QED
    BY <2>3, <2>7
<1>6. CASE ~(Cardinality(counted) > Limit)
  <2>1. /\ Are("admitted")' = Are("admitted") \union {r}
        /\ (Are("over") \union Are("rejected"))' = Are("over") \union Are("rejected")
    BY <1>1, <1>6 DEF Pipeline, OverBudget, Becomes, Are, LimiterInv, LimiterType
  <2>2. ASSUME NEW t \in Nat PROVE Cardinality(Within(t)') <= Limit
    <3>1. CASE Within(t)' = Within(t)
      BY <3>1 DEF BudgetInv, LimiterInv
    <3>2. CASE Within(t)' # Within(t)
      <4>1. /\ Within(t)' = Within(t) \union {r}
            /\ Stamp(r) <= t /\ r \notin late'
        BY <1>1, <1>4, <2>1, <3>2 DEF Within, Pipeline, Are
      <4>2. \A q \in gone \intersect Are("admitted") : ~ InWindow(Stamp(q), Stamp(r))
        BY <1>1, <4>1 DEF Pipeline
      <4>3. Within(t) \subseteq Kept(r)
        <5>1. ASSUME NEW q \in Within(t) PROVE InWindow(Stamp(q), Stamp(r))
          BY <1>1, <4>1 DEF Within, InWindow, LimiterInv, LimiterType, Are, Stamp
        <5>2. \A q \in Within(t) : q \in Are("admitted") /\ q \in zset \union gone
          BY DEF Within, LimiterInv, KeptInv
        <5> QED
          BY <4>2, <5>1, <5>2 DEF Kept
      <4>4. Within(t)' \in SUBSET counted
        BY <4>1, <4>3
      <4>5. Cardinality(counted) <= Limit
        BY <1>3, <1>6
      <4> QED
        BY <1>2, <4>4, <4>5, LimiterSubsetBounded
    <3> QED
      BY <3>1, <3>2
  <2>3. BudgetInv'
    BY <2>2 DEF BudgetInv
  <2>4. ASSUME NEW q \in Requests PROVE Cardinality(Admitted(q)') >= Cardinality(Admitted(q))
    <3>1. Admitted(q) \in SUBSET Admitted(q)'
      BY <1>4, <2>1 DEF Admitted, Are
    <3>2. IsFiniteSet(Admitted(q)') /\ IsFiniteSet(Admitted(q))
      BY RequestsFinite DEF Admitted, Are
    <3> QED
      BY <3>1, <3>2, FS_Subset
  <2>5. RejectInv'
    <3>1. \A q \in Requests : Cardinality(Admitted(q)) \in Nat /\ Cardinality(Admitted(q)') \in Nat
      <4>1. \A q \in Requests : IsFiniteSet(Admitted(q)') /\ IsFiniteSet(Admitted(q))
        BY RequestsFinite DEF Admitted, Are
      <4> QED
        BY <4>1, FS_CardinalityType
    <3>2. spurious \subseteq spurious'
      BY DEF Pipeline
    <3>3. \A q \in Requests : Cardinality(Admitted(q)') >= Cardinality(Admitted(q))
      BY <2>4
    <3> QED
      BY <2>1, <3>1, <3>2, <3>3 DEF RejectInv, LimiterInv, Are
  <2> QED
    BY <2>3, <2>5
<1> QED
  BY <1>5, <1>6

LEMMA LimiterStep == LimiterInv /\ [LimiterNext]_limiterVars => LimiterInv'
<1> SUFFICES ASSUME LimiterInv, [LimiterNext]_limiterVars PROVE LimiterInv'
  OBVIOUS
<1>1. LimiterType' /\ CountedInv' /\ KeptInv'
  BY LimiterTypeStep, CountedStep, KeptStep DEF LimiterInv
<1>2. BudgetInv' /\ RejectInv'
  <2>1. CASE Tick \/ DropKey \/ UNCHANGED limiterVars
    BY <1>1, <2>1, NobodyDecided DEF Tick, DropKey, limiterVars, Are, Stamp
  <2>2. ASSUME NEW r \in Requests, TakeTime(r) PROVE BudgetInv' /\ RejectInv'
    BY <1>1, <2>2, NobodyDecided DEF TakeTime, Are, Stamp, LimiterInv, LimiterType
  <2>3. ASSUME NEW r \in Requests, Pipeline(r) PROVE BudgetInv' /\ RejectInv'
    BY <1>1, <2>3, PipelineDecides
  <2>4. ASSUME NEW r \in Requests, Remove(r) PROVE BudgetInv' /\ RejectInv'
    BY <1>1, <2>4, NobodyDecided DEF Remove, Becomes, Are, Stamp, LimiterInv, LimiterType
  <2>5. ASSUME NEW r \in Requests, RedisError(r) PROVE BudgetInv' /\ RejectInv'
    BY <1>1, <2>5, NobodyDecided DEF RedisError, Becomes, Are, Stamp, LimiterInv, LimiterType
  <2> QED
    BY <2>1, <2>2, <2>3, <2>4, <2>5 DEF LimiterNext
<1> QED
  BY <1>1, <1>2 DEF LimiterInv

\* "A true sliding window": whatever the limit, the window and the number of
\* requests, no window holds more admitted requests than the limit, late ones
\* apart, and nobody is rejected below it unless someone was counted who was not
\* admitted.
THEOREM WindowIsExact == LimiterSpec => []LimitIsExact
<1>1. LimiterInv => LimitIsExact
  <2> SUFFICES ASSUME LimiterInv PROVE LimitIsExact
    OBVIOUS
  <2>1. ASSUME NEW r \in Are("admitted") PROVE Cardinality(Before(r) \ late) <= Limit
    <3>1. Before(r) \ late = Within(Stamp(r)) /\ Stamp(r) \in Nat
      BY DEF Before, Admitted, Within, Are, Stamp, LimiterInv, LimiterType
    <3> QED
      BY <3>1 DEF LimiterInv, BudgetInv
  <2> QED
    BY <2>1 DEF LimitIsExact, LimiterInv, RejectInv
<1> QED
  BY <1>1, LimiterInitially, LimiterStep, PTL DEF LimiterSpec

-----------------------------------------------------------------------------
(* THE ROLLUP                                                              *)

Found == [began : Days \union {Unset}, known : SUBSET Incidents, created : SUBSET Incidents,
          resolved : SUBSET Incidents, busy : SUBSET Incidents]
RunState == [pc : {"none", "queued", "begun", "created", "counted", "stored", "done"},
             arg : Days \union {Unset}, day : Days \union {Unset}, found : Found]
Change == [incident : Incidents, from : Statuses, to : Statuses, stamp : Days \union {Unset}]

RollupType ==
  /\ today \in Days
  /\ started \in [Incidents -> Days \union {Unset}]
  /\ status \in [Incidents -> Statuses]
  /\ resolved \in [Incidents -> Days \union {Unset}]
  /\ change \in [Changers -> Change \union {Unset}]
  /\ overlapped \subseteq Incidents
  /\ run \in [Runs -> RunState]
  /\ metrics \in [Days -> Found \union {Unset}]

\* Whoever was not changed by overlapping requests is resolved once.
IncidentsOK ==
  \A i \in Incidents \ overlapped : resolved[i] = Unset <=> status[i] = "active"

ChangesOK == \A p \in Changers : change[p] # Unset => Legal(change[p].from, change[p].to)

\* Those a request may still resolve on day d.
StampedFor(d) == {i \in Incidents : \E p \in Changers :
                 /\ change[p] # Unset
                 /\ change[p].incident = i /\ change[p].stamp = d}

\* The first count of day d, and when it was taken; incidents that are known keep the
\* day they started on.
FirstOK(d, f) ==
  /\ f.began \in Days /\ f.began <= today
  /\ \A i \in f.known : started[i] # Unset
  /\ \A i \in f.created : started[i] = d
  /\ \A i \in f.known : started[i] = d => i \in f.created

\* The second: of a day that is over no resolution is to come but those of busy.
SecondOK(d, f) ==
  /\ \A i \in f.resolved \ overlapped : resolved[i] = d
  /\ f.began > d => ResolvedOn(d) \union StampedFor(d) \subseteq f.resolved \union f.busy

RunOK(r) ==
  /\ r.pc \in {"begun", "created", "counted"} => r.day \in Days
  /\ r.pc \in {"created", "counted"} => FirstOK(r.day, r.found)
  /\ r.pc = "counted" => SecondOK(r.day, r.found)

RunsOK == \A j \in Runs : RunOK(run[j])
RowsOK == \A d \in Days : metrics[d] # Unset => FirstOK(d, metrics[d]) /\ SecondOK(d, metrics[d])

RollupInv == RollupType /\ IncidentsOK /\ ChangesOK /\ RunsOK /\ RowsOK

LEMMA DaysAreNumbers == Days \subseteq Nat /\ Unset \notin Days /\ 1 \in Days
BY RollupAssumption DEF Days

LEMMA NoRunIsOK == NotFound \in Found /\ NoRun \in RunState /\ RunOK(NoRun)
BY DEF NotFound, NoRun, Found, RunState, RunOK

LEMMA RollupInitially == RollupInit => RollupInv
<1> SUFFICES ASSUME RollupInit PROVE RollupInv
  OBVIOUS
<1>1. RollupType
  BY DaysAreNumbers, NoRunIsOK DEF RollupInit, RollupType, Statuses
<1>2. IncidentsOK /\ ChangesOK /\ RowsOK
  BY DEF RollupInit, IncidentsOK, ChangesOK, RowsOK
<1>3. RunsOK
  BY NoRunIsOK DEF RollupInit, RunsOK
<1> QED
  BY <1>1, <1>2, <1>3 DEF RollupInv

\* What days and requests do to what has been counted: what is known of an incident
\* stays, but for overlaps, and nothing is resolved on a day that is over unless its
\* request has the stamp.
Onward ==
  /\ today <= today'
  /\ \A i \in Incidents : started[i] # Unset => started'[i] = started[i]
  /\ overlapped \subseteq overlapped'
  /\ \A i \in Incidents \ overlapped' : resolved[i] # Unset => resolved'[i] = resolved[i]
  /\ \A d \in Days : d < today =>
       ResolvedOn(d)' \union StampedFor(d)' \subseteq ResolvedOn(d) \union StampedFor(d)

LEMMA FirstKeeps ==
  ASSUME RollupType, RollupType', Onward, NEW d \in Days, NEW f \in Found, FirstOK(d, f)
  PROVE  FirstOK(d, f)'
<1>1. \A i \in f.known : i \in Incidents /\ started'[i] = started[i]
  BY DEF FirstOK, Onward, Found
<1>2. \A i \in f.created : i \in Incidents /\ started'[i] = started[i]
  BY DaysAreNumbers DEF FirstOK, Onward, Found
<1>3. f.began <= today'
  <2>1. f.began \in Nat /\ today \in Nat /\ today' \in Nat
    BY DaysAreNumbers DEF FirstOK, RollupType
  <2> QED
    BY <2>1 DEF FirstOK, Onward
<1> QED
  BY <1>1, <1>2, <1>3 DEF FirstOK

LEMMA SecondKeeps ==
  ASSUME RollupType, Onward, NEW d \in Days, NEW f \in Found,
         FirstOK(d, f), SecondOK(d, f)
  PROVE  SecondOK(d, f)'
<1>1. ASSUME NEW i \in f.resolved, i \notin overlapped' PROVE resolved'[i] = d
  <2>1. i \in Incidents /\ i \notin overlapped /\ resolved[i] = d
    BY <1>1 DEF SecondOK, Onward, Found
  <2> QED
    BY <1>1, <2>1, DaysAreNumbers DEF Onward
<1>2. ASSUME f.began > d
      PROVE  ResolvedOn(d)' \union StampedFor(d)' \subseteq f.resolved \union f.busy
  <2>1. d \in Nat /\ f.began \in Nat /\ today \in Nat
    BY DaysAreNumbers DEF FirstOK, RollupType
  <2>2. d < today
    BY <1>2, <2>1 DEF FirstOK
  <2> QED
    BY <1>2, <2>2 DEF SecondOK, Onward
<1> QED
  BY <1>1, <1>2 DEF SecondOK

LEMMA CountsKeep ==
  ASSUME RollupInv, RollupType', Onward, run' = run, metrics' = metrics
  PROVE  RunsOK' /\ RowsOK'
<1>1. ASSUME NEW r \in RunState, RunOK(r) PROVE RunOK(r)'
  <2>1. r.found \in Found
    BY DEF RunState
  <2> QED
    BY <1>1, <2>1, FirstKeeps, SecondKeeps DEF RunOK, RollupInv
<1>2. RunsOK'
  BY <1>1 DEF RollupInv, RollupType, RunsOK
<1>3. ASSUME NEW d \in Days, metrics[d] # Unset
      PROVE  FirstOK(d, metrics[d])' /\ SecondOK(d, metrics[d])'
  <2>1. PICK f : f = metrics[d]
    OBVIOUS
  <2>2. f \in Found /\ FirstOK(d, f) /\ SecondOK(d, f)
    BY <1>3, <2>1 DEF RollupInv, RollupType, RowsOK
  <2>3. FirstOK(d, f)' /\ SecondOK(d, f)'
    BY <2>2, FirstKeeps, SecondKeeps DEF RollupInv
  <2> QED
    BY <2>1, <2>3
<1>4. RowsOK'
  BY <1>3 DEF RowsOK
<1> QED
  BY <1>2, <1>4

LEMMA MidnightStep == RollupInv /\ Midnight => RollupInv'
<1> SUFFICES ASSUME RollupInv, Midnight PROVE RollupInv'
  OBVIOUS
<1>1. today <= today' /\ today' \in Days
  BY RollupAssumption DEF RollupInv, RollupType, Midnight, Days
<1>2. UNCHANGED <<incidentVars, run, metrics>>
  BY DEF Midnight
<1>3. RollupType' /\ IncidentsOK' /\ ChangesOK'
  BY <1>1, <1>2 DEF RollupInv, RollupType, IncidentsOK, ChangesOK, incidentVars
<1>4. Onward
  BY <1>1, <1>2 DEF Onward, ResolvedOn, StampedFor, incidentVars
<1> QED
  BY <1>2, <1>3, <1>4, CountsKeep DEF RollupInv

LEMMA StartStep ==
  ASSUME RollupInv, NEW i \in Incidents, StartIncident(i)
  PROVE  RollupInv'
<1>1. /\ UNCHANGED <<today, status, resolved, change, overlapped, run, metrics>>
      /\ started' \in [Incidents -> Days \union {Unset}]
      /\ \A k \in Incidents : started[k] # Unset => started'[k] = started[k]
  BY DEF RollupInv, RollupType, StartIncident
<1>2. RollupType' /\ IncidentsOK' /\ ChangesOK'
  BY <1>1 DEF RollupInv, RollupType, IncidentsOK, ChangesOK
<1>3. today <= today'
  BY <1>1, DaysAreNumbers DEF RollupInv, RollupType
<1>4. Onward
  BY <1>1, <1>3 DEF Onward, ResolvedOn, StampedFor
<1> QED
  BY <1>1, <1>2, <1>4, CountsKeep DEF RollupInv

\* A request that writes nothing: it may drop what it meant to, or take a stamp, which
\* is of today.
LEMMA ChangeMoves ==
  ASSUME RollupInv, NEW p \in Changers, NEW c \in Change \union {Unset},
         change' = [change EXCEPT ![p] = c],
         c # Unset => Legal(c.from, c.to) /\ c.stamp \in {Unset, today},
         UNCHANGED <<today, started, status, resolved, overlapped, run, metrics>>
  PROVE  RollupInv'
<1>1. /\ change' \in [Changers -> Change \union {Unset}] /\ change'[p] = c
      /\ \A q \in Changers \ {p} : change'[q] = change[q]
  BY DEF RollupInv, RollupType
<1>2. RollupType' /\ IncidentsOK'
  BY <1>1 DEF RollupInv, RollupType, IncidentsOK
<1>3. ChangesOK'
  BY <1>1 DEF RollupInv, ChangesOK
<1>4. ASSUME NEW d \in Days, d < today PROVE StampedFor(d)' \subseteq StampedFor(d)
  <2>1. d # today /\ d # Unset
    BY <1>4, DaysAreNumbers DEF RollupInv, RollupType
  <2>2. c # Unset => c.stamp # d
    BY <2>1
  <2> QED
    BY <1>1, <2>2 DEF StampedFor
<1>5. today <= today'
  BY DaysAreNumbers DEF RollupInv, RollupType
<1>6. Onward
  BY <1>4, <1>5 DEF Onward, ResolvedOn
<1> QED
  BY <1>2, <1>3, <1>6, CountsKeep DEF RollupInv

LEMMA ReadStatusStep ==
  ASSUME RollupInv, NEW p \in Changers, NEW i \in Incidents, ReadStatus(p, i)
  PROVE  RollupInv'
<1>1. PICK to \in Statuses :
        /\ Legal(status[i], to)
        /\ change' = [change EXCEPT ![p] =
             [incident |-> i, from |-> status[i], to |-> to, stamp |-> Unset]]
  BY DEF ReadStatus
<1> DEFINE c == [incident |-> i, from |-> status[i], to |-> to, stamp |-> Unset]
<1>2. c \in Change /\ Legal(c.from, c.to) /\ c.stamp = Unset
  BY <1>1 DEF RollupInv, RollupType, Change
<1>3. change' = [change EXCEPT ![p] = c]
  BY <1>1
<1> HIDE DEF c
<1> QED
  BY <1>2, <1>3, ChangeMoves DEF ReadStatus

LEMMA StampStep ==
  ASSUME RollupInv, NEW p \in Changers, StampResolved(p)
  PROVE  RollupInv'
<1> DEFINE c == [change[p] EXCEPT !.stamp = today]
<1>1. change[p] \in Change /\ today \in Days /\ Legal(change[p].from, change[p].to)
  BY DEF RollupInv, RollupType, ChangesOK, StampResolved
<1>2. c \in Change /\ Legal(c.from, c.to) /\ c.stamp = today
  BY <1>1 DEF Change
<1>3. change' = [change EXCEPT ![p] = c]
  BY DEF StampResolved, RollupInv, RollupType
<1> HIDE DEF c
<1> QED
  BY <1>2, <1>3, ChangeMoves DEF StampResolved

LEMMA DropStep ==
  ASSUME RollupInv, NEW p \in Changers, DropChange(p)
  PROVE  RollupInv'
BY ChangeMoves DEF DropChange

\* What it commits it had a stamp for; the row was resolved before only if someone
\* else had written it since.
LEMMA CommitStep ==
  ASSUME RollupInv, NEW p \in Changers, CommitChange(p)
  PROVE  RollupInv'
<1> DEFINE i == change[p].incident
<1> DEFINE from == change[p].from
<1> DEFINE to == change[p].to
<1> DEFINE stamp == change[p].stamp
<1>1. /\ change[p] # Unset /\ (to = "resolved" => stamp # Unset)
      /\ status' = [status EXCEPT ![i] = to]
      /\ resolved' = IF to = "resolved" THEN [resolved EXCEPT ![i] = stamp] ELSE resolved
      /\ overlapped' = IF status[i] = from THEN overlapped ELSE overlapped \union {i}
      /\ change' = [change EXCEPT ![p] = Unset]
      /\ UNCHANGED <<today, started, run, metrics>>
  BY DEF CommitChange
<1>2. /\ change[p] \in Change /\ i \in Incidents /\ from \in Statuses /\ to \in Statuses
      /\ stamp \in Days \union {Unset} /\ Legal(from, to)
  BY <1>1 DEF RollupInv, RollupType, ChangesOK, Change
<1>3. /\ change'[p] = Unset /\ \A q \in Changers \ {p} : change'[q] = change[q]
      /\ change' \in [Changers -> Change \union {Unset}]
  BY <1>1 DEF RollupInv, RollupType
<1> HIDE DEF from, to, stamp
<1>4. /\ status'[i] = to /\ (to = "resolved" => resolved'[i] = stamp)
      /\ to # "resolved" => resolved'[i] = resolved[i]
      /\ \A k \in Incidents \ {i} : status'[k] = status[k] /\ resolved'[k] = resolved[k]
      /\ status[i] # from => i \in overlapped'
      /\ overlapped \subseteq overlapped' /\ overlapped' \subseteq Incidents
  BY <1>1, <1>2 DEF RollupInv, RollupType
<1>5. RollupType'
  BY <1>1, <1>2, <1>3, <1>4 DEF RollupInv, RollupType
<1>6. ASSUME i \notin overlapped'
      PROVE  /\ resolved'[i] = Unset <=> status'[i] = "active"
             /\ resolved[i] # Unset => resolved'[i] = resolved[i]
  <2>1. resolved[i] = Unset <=> from = "active"
    BY <1>2, <1>4, <1>6 DEF RollupInv, IncidentsOK
  <2> QED
    BY <1>1, <1>2, <1>4, <2>1 DEF Legal
<1>7. IncidentsOK'
  BY <1>4, <1>6 DEF RollupInv, IncidentsOK
<1>8. ChangesOK'
  BY <1>3 DEF RollupInv, ChangesOK
<1>9. ASSUME NEW d \in Days
      PROVE  ResolvedOn(d)' \union StampedFor(d)' \subseteq ResolvedOn(d) \union StampedFor(d)
  <2>1. StampedFor(d)' \subseteq StampedFor(d)
    BY <1>3 DEF StampedFor
  <2>2. ASSUME NEW k \in Incidents, resolved'[k] = d, resolved[k] # d
        PROVE  k \in StampedFor(d)
    <3>1. k = i /\ stamp = d
      BY <1>4, <2>2
    <3> QED
      BY <1>1, <3>1 DEF StampedFor, stamp
  <2> QED
    BY <2>1, <2>2 DEF ResolvedOn
<1>10. today <= today'
  BY <1>1, DaysAreNumbers DEF RollupInv, RollupType
<1>11. Onward
  BY <1>1, <1>4, <1>6, <1>9, <1>10 DEF Onward
<1> QED
  BY <1>1, <1>5, <1>7, <1>8, <1>11, CountsKeep DEF RollupInv

\* A run goes on and may write the row of a day.
LEMMA RunMoves ==
  ASSUME RollupInv, NEW j \in Runs, NEW to \in RunState, RunOK(to), RunGoes(j, to),
         \/ metrics' = metrics
         \/ \E d \in Days : \E f \in Found :
              FirstOK(d, f) /\ SecondOK(d, f) /\ metrics' = [metrics EXCEPT ![d] = f]
  PROVE  RollupInv'
<1>1. run' = [run EXCEPT ![j] = to] /\ UNCHANGED <<today, incidentVars>>
  BY DEF RunGoes
<1>2. /\ run' \in [Runs -> RunState]
      /\ \A k \in Runs : run'[k] = to \/ run'[k] = run[k]
  BY <1>1 DEF RollupInv, RollupType
<1>3. metrics' \in [Days -> Found \union {Unset}]
  BY DEF RollupInv, RollupType
<1>4. RollupType' /\ IncidentsOK' /\ ChangesOK'
  BY <1>1, <1>2, <1>3 DEF RollupInv, RollupType, IncidentsOK, ChangesOK, incidentVars
<1>5. ASSUME NEW d, NEW f
      PROVE  (FirstOK(d, f)' <=> FirstOK(d, f)) /\ (SecondOK(d, f)' <=> SecondOK(d, f))
  BY <1>1 DEF FirstOK, SecondOK, ResolvedOn, StampedFor, incidentVars
<1>6. \A k \in Runs : RunOK(run'[k])
  BY <1>2 DEF RollupInv, RunsOK
<1>7. RunsOK'
  <2>1. ASSUME NEW k \in Runs PROVE RunOK(run[k])'
    <3>1. PICK r : r = run'[k]
      OBVIOUS
    <3>2. RunOK(r)
      BY <1>6, <3>1
    <3>3. RunOK(r)'
      BY <1>5, <3>2 DEF RunOK
    <3> QED
      BY <3>1, <3>3
  <2> QED
    BY <2>1 DEF RunsOK
<1>8. ASSUME NEW d \in Days, metrics'[d] # Unset
      PROVE  FirstOK(d, metrics[d])' /\ SecondOK(d, metrics[d])'
  <2>1. PICK f : f = metrics'[d]
    OBVIOUS
  <2>2. FirstOK(d, f) /\ SecondOK(d, f)
    BY <1>8, <2>1 DEF RollupInv, RollupType, RowsOK
  <2>3. FirstOK(d, f)' /\ SecondOK(d, f)'
    BY <1>5, <2>2
  <2> QED
    BY <2>1, <2>3
<1>9. RowsOK'
  BY <1>8 DEF RowsOK
<1> QED
  BY <1>4, <1>7, <1>9 DEF RollupInv

\* What goes on without having counted anything, or forgets it.
LEMMA RunsGoOn ==
  ASSUME RollupInv, NEW j \in Runs,
         Enqueue(j) \/ BeginRun(j) \/ EndRun(j) \/ CutOff(j)
  PROVE  RollupInv'
<1>0. /\ run[j] \in RunState /\ today \in Days /\ NotFound \in Found /\ NoRun \in RunState
      /\ 1 .. today \subseteq Days
  BY NoRunIsOK, RollupAssumption DEF RollupInv, RollupType, Days
<1>1. CASE Enqueue(j)
  <2>1. PICK d \in {Unset} \union 1 .. today :
          RunGoes(j, [run[j] EXCEPT !.pc = "queued", !.arg = d])
    BY <1>1 DEF Enqueue
  <2> DEFINE to == [run[j] EXCEPT !.pc = "queued", !.arg = d]
  <2>2. to \in RunState /\ to.pc = "queued" /\ RunGoes(j, to)
    BY <1>0, <2>1 DEF RunState
  <2> HIDE DEF to
  <2> QED
    BY <1>1, <2>2, RunMoves DEF Enqueue, RunOK
<1>2. CASE BeginRun(j)
  <2> DEFINE to == [run[j] EXCEPT !.pc = "begun",
                                  !.day = IF run[j].arg = Unset THEN today ELSE run[j].arg]
  <2>1. RunGoes(j, to) /\ metrics' = metrics
    BY <1>2 DEF BeginRun
  <2>2. to \in RunState /\ to.pc = "begun" /\ to.day \in Days
    BY <1>0 DEF RunState
  <2> HIDE DEF to
  <2> QED
    BY <2>1, <2>2, RunMoves DEF RunOK
<1>3. CASE EndRun(j)
  <2> DEFINE to == [NoRun EXCEPT !.pc = "done"]
  <2>1. RunGoes(j, to) /\ metrics' = metrics
    BY <1>3 DEF EndRun
  <2>2. to \in RunState /\ to.pc = "done"
    BY <1>0 DEF RunState, NoRun
  <2> HIDE DEF to
  <2> QED
    BY <2>1, <2>2, RunMoves DEF RunOK
<1>4. CASE CutOff(j)
  <2> DEFINE to == [NoRun EXCEPT !.pc = "queued", !.arg = run[j].arg]
  <2>1. RunGoes(j, to) /\ metrics' = metrics
    BY <1>4 DEF CutOff
  <2>2. to \in RunState /\ to.pc = "queued"
    BY <1>0 DEF RunState, NoRun
  <2> HIDE DEF to
  <2> QED
    BY <2>1, <2>2, RunMoves DEF RunOK
<1> QED
  BY <1>1, <1>2, <1>3, <1>4

LEMMA FirstStep ==
  ASSUME RollupInv, NEW j \in Runs, CountStarted(j)
  PROVE  RollupInv'
<1> DEFINE d == run[j].day
<1> DEFINE f == [NotFound EXCEPT !.began = today,
                                 !.known = {i \in Incidents : started[i] # Unset},
                                 !.created = StartedOn(d)]
<1> DEFINE to == [run[j] EXCEPT !.pc = "created", !.found = f]
<1>1. /\ run[j] \in RunState /\ d \in Days /\ today \in Days
      /\ RunGoes(j, to) /\ metrics' = metrics
  BY DEF RollupInv, RollupType, RunsOK, RunOK, CountStarted
<1>2. /\ f \in Found /\ f.began = today /\ f.created = StartedOn(d)
      /\ f.known = {i \in Incidents : started[i] # Unset}
  BY <1>1 DEF NotFound, Found, StartedOn
<1> HIDE DEF f
<1>3. FirstOK(d, f)
  BY <1>1, <1>2, DaysAreNumbers DEF FirstOK, StartedOn
<1>4. to \in RunState /\ to.pc = "created" /\ to.day = d /\ to.found = f
  BY <1>1, <1>2 DEF RunState
<1> HIDE DEF to, d
<1> QED
  BY <1>1, <1>3, <1>4, RunMoves DEF RunOK

\* The second query sees every resolution that is committed; the others are busy.
LEMMA SecondStep ==
  ASSUME RollupInv, NEW j \in Runs, CountResolved(j)
  PROVE  RollupInv'
<1> DEFINE d == run[j].day
<1> DEFINE f == [run[j].found EXCEPT !.resolved = ResolvedOn(d), !.busy = Stamping]
<1> DEFINE to == [run[j] EXCEPT !.pc = "counted", !.found = f]
<1>1. /\ run[j] \in RunState /\ run[j].found \in Found /\ d \in Days
      /\ FirstOK(d, run[j].found)
  BY DEF RollupInv, RollupType, RunState, RunsOK, RunOK, CountResolved
<1>2. RunGoes(j, to) /\ metrics' = metrics
  BY <1>1 DEF CountResolved, ResolvedRows, RunState, Found, RunGoes, RollupInv, RollupType
<1>3. ASSUME NEW i \in Stamping PROVE i \in Incidents
  <2>1. PICK p \in Changers : change[p] # Unset /\ i = change[p].incident
    BY <1>3 DEF Stamping
  <2>2. change[p] \in Change
    BY <2>1 DEF RollupInv, RollupType
  <2> QED
    BY <2>1, <2>2 DEF Change
<1>4. /\ f \in Found /\ f.began = run[j].found.began /\ f.known = run[j].found.known
      /\ f.created = run[j].found.created
      /\ f.resolved = ResolvedOn(d) /\ f.busy = Stamping
  BY <1>1, <1>3 DEF Found, ResolvedOn
<1> HIDE DEF f
<1>5. FirstOK(d, f)
  BY <1>1, <1>4 DEF FirstOK
<1>6. StampedFor(d) \subseteq Stamping
  BY <1>1, DaysAreNumbers DEF StampedFor, Stamping
<1>7. SecondOK(d, f)
  BY <1>4, <1>6 DEF SecondOK, ResolvedOn
<1>8. to \in RunState /\ to.pc = "counted" /\ to.day = d /\ to.found = f
  BY <1>1, <1>4 DEF RunState
<1> HIDE DEF to, d
<1> QED
  BY <1>1, <1>2, <1>5, <1>7, <1>8, RunMoves DEF RunOK

LEMMA StoreStep ==
  ASSUME RollupInv, NEW j \in Runs, StoreRow(j)
  PROVE  RollupInv'
<1> DEFINE to == [run[j] EXCEPT !.pc = "stored", !.day = Unset, !.found = NotFound]
<1>1. /\ run[j] \in RunState /\ run[j].day \in Days /\ run[j].found \in Found
      /\ FirstOK(run[j].day, run[j].found) /\ SecondOK(run[j].day, run[j].found)
  BY DEF RollupInv, RollupType, RunState, RunsOK, RunOK, StoreRow
<1>2. /\ RunGoes(j, to)
      /\ metrics' \in {metrics, [metrics EXCEPT ![run[j].day] = run[j].found]}
  BY DEF StoreRow
<1>3. to \in RunState /\ to.pc = "stored"
  BY <1>1, NoRunIsOK DEF RunState
<1> HIDE DEF to
<1>4. RunOK(to)
  BY <1>3 DEF RunOK
<1> QED
  BY <1>1, <1>2, <1>3, <1>4, RunMoves

LEMMA RollupStep == RollupInv /\ [RollupNext]_rollupVars => RollupInv'
<1> SUFFICES ASSUME RollupInv, [RollupNext]_rollupVars PROVE RollupInv'
  OBVIOUS
<1>1. CASE UNCHANGED rollupVars
  <2>1. RollupType' /\ IncidentsOK' /\ ChangesOK'
    BY <1>1 DEF rollupVars, incidentVars, RollupInv, RollupType, IncidentsOK, ChangesOK
  <2>2. today <= today'
    BY <1>1, DaysAreNumbers DEF rollupVars, RollupInv, RollupType
  <2>3. Onward
    BY <1>1, <2>2 DEF Onward, rollupVars, incidentVars, ResolvedOn, StampedFor
  <2>4. run' = run /\ metrics' = metrics
    BY <1>1 DEF rollupVars
  <2> QED
    BY <2>1, <2>3, <2>4, CountsKeep DEF RollupInv
<1>2. CASE RollupNext
  BY <1>2, MidnightStep, StartStep, ReadStatusStep, StampStep, CommitStep, DropStep, RunsGoOn,
    FirstStep, SecondStep, StoreStep DEF RollupNext
<1> QED
  BY <1>1, <1>2

\* compute_daily_metrics (jobs/tasks.py) beside transition_status: whatever is
\* reported and resolved around its two queries, a row counts nothing that was not so
\* and, if its run began after the day, all that was reported then and every
\* resolution but those a request had stamped and not committed; overlapping requests
\* on one incident may take a resolution it counts to another day.
THEOREM RowsCountTheDay == RollupSpec => []RollupCountsTheDay
<1>1. RollupInv => RollupCountsTheDay
  <2> SUFFICES ASSUME RollupInv, NEW d \in Days, metrics[d] # Unset
               PROVE  LET row == metrics[d]
                      IN /\ row.created \subseteq StartedOn(d)
                         /\ row.resolved \ overlapped \subseteq ResolvedOn(d)
                         /\ row.began > d =>
                              /\ StartedOn(d) \intersect row.known \subseteq row.created
                              /\ ResolvedOn(d) \subseteq row.resolved \union row.busy
    BY DEF RollupCountsTheDay
  <2>1. metrics[d] \in Found /\ FirstOK(d, metrics[d]) /\ SecondOK(d, metrics[d])
    BY DEF RollupInv, RollupType, RowsOK
  <2> QED
    BY <2>1 DEF Found, FirstOK, SecondOK, StartedOn, ResolvedOn
<1> QED
  BY <1>1, RollupInitially, RollupStep, PTL DEF RollupSpec

-----------------------------------------------------------------------------
(* THE CATALOGUE                                                           *)

Given == {w \in Want : Complete(w)}
ShiftOf == [schedule : Schedules, who : Staff, hours : Intervals]

CatalogType ==
  /\ services \in [Services -> Names \union {Absent}]
  /\ schedules \in [Schedules -> Services \union {Absent}]
  /\ shifts \in [Shifts -> ShiftOf \union {Absent}]
  /\ reported \subseteq Services
  /\ DOMAIN clerk = Clerks

\* What the rows keep to whoever overlaps.
RowsAgree ==
  /\ \A d \in Schedules : \A f, g \in On(d) :
       f # g => ~Overlap(shifts[f].hours, shifts[g].hours)
  /\ \A f \in Shifts : shifts[f] # Absent => schedules[shifts[f].schedule] # Absent
  /\ \A d \in Schedules : schedules[d] # Absent => services[schedules[d]] # Absent
  /\ \A s \in reported : services[s] # Absent
  /\ \A s, z \in Services : services[s] = services[z] => s = z \/ services[s] = Absent

\* What a cascade holds: the service, its schedules and their shifts.
CascadeOK(w, holds, ofService, seen, used) ==
  /\ \A s \in Services : ServiceRow(s) \in holds <=> s = w.service
  /\ \A d \in Schedules : ofService[d] = w.service => ScheduleRow(d) \in holds
  /\ \A f \in Shifts : seen[f] # Absent /\ ScheduleRow(seen[f].schedule) \in holds
                         => ShiftRow(f) \in holds
  /\ w.service \notin used

\* What the others hold.
Writes(w) ==
  CASE w.op \in {"create", "rename"} -> {ServiceRow(w.service), NameEntry(w.name)}
    [] w.op = "schedule" -> {ScheduleRow(w.schedule)}
    [] w.op \in {"shift", "unshift"} -> {ShiftRow(w.shift)}
    [] OTHER -> {}

\* The constraints a request met when it wrote still hold when it commits.
StillMeets(w, named, ofService, seen) ==
  /\ w.op = "create" => \A s \in Services : named[s] # w.name
  /\ w.op = "rename" => /\ named[w.service] # Absent
                        /\ \A s \in Services \ {w.service} : named[s] # w.name
  /\ w.op \in {"schedule", "report"} => named[w.service] # Absent
  /\ w.op = "shift" =>
       /\ ofService[w.schedule] # Absent
       /\ \A f \in Shifts : seen[f] # Absent /\ seen[f].schedule = w.schedule
                              => ~Overlap(seen[f].hours, w.hours)

ClerkOK(q, named, ofService, seen, used) ==
  /\ q.pc \in {"resting", "write", "commit"}
  /\ q.pc # "resting" => q.want \in Given
  /\ q.pc # "commit" => q.holds = {} /\ q.shares = {}
  /\ q.pc = "commit" =>
       /\ q.shares = Shared(q.want)
       /\ IF q.want.op = "delete" THEN CascadeOK(q.want, q.holds, ofService, seen, used)
          ELSE q.holds = Writes(q.want)
       /\ StillMeets(q.want, named, ofService, seen)

\* Two requests about to commit keep clear of each other.
ClerksApart ==
  \A j, k \in Clerks : j # k =>
    /\ clerk[j].holds \intersect (clerk[k].holds \union clerk[k].shares) = {}
    /\ /\ clerk[j].pc = "commit" /\ clerk[j].want.op = "shift"
       /\ clerk[k].pc = "commit" /\ clerk[k].want.op = "shift"
       => ~Clashes(clerk[j].want, clerk[k].want)

CatalogInv ==
  /\ CatalogType
  /\ RowsAgree
  /\ \A k \in Clerks : ClerkOK(clerk[k], services, schedules, shifts, reported)
  /\ ClerksApart

-----------------------------------------------------------------------------
LEMMA WantsAreGiven == Wants \subseteq Given
BY CatalogAssumption DEF Given

\* The rows are told apart by what they are rows of.
LEMMA CatalogRowsDiffer ==
  /\ \A a, b : ServiceRow(a) = ServiceRow(b) => a = b
  /\ \A a, b : NameEntry(a) = NameEntry(b) => a = b
  /\ \A a, b : ScheduleRow(a) = ScheduleRow(b) => a = b
  /\ \A a, b : ShiftRow(a) = ShiftRow(b) => a = b
  /\ \A a, b : ServiceRow(a) # NameEntry(b) /\ ServiceRow(a) # ScheduleRow(b)
  /\ \A a, b : ServiceRow(a) # ShiftRow(b) /\ NameEntry(a) # ScheduleRow(b)
  /\ \A a, b : NameEntry(a) # ShiftRow(b) /\ ScheduleRow(a) # ShiftRow(b)
BY DEF ServiceRow, NameEntry, ScheduleRow, ShiftRow

LEMMA CatalogInitially == CatalogInit => CatalogInv
BY DEF CatalogInit, CatalogInv, CatalogType, RowsAgree, ClerkOK, ClerksApart, Resting, On

-----------------------------------------------------------------------------
(* A step of one clerk that leaves the rows alone.                         *)

LEMMA ClerkMoves ==
  ASSUME CatalogInv, NEW k \in Clerks, NEW to, clerk' = [clerk EXCEPT ![k] = to],
         UNCHANGED catalogRows, ClerkOK(to, services, schedules, shifts, reported),
         \A j \in Clerks \ {k} :
           /\ to.holds \intersect (clerk[j].holds \union clerk[j].shares) = {}
           /\ clerk[j].holds \intersect to.shares = {}
           /\ /\ to.pc = "commit" /\ to.want.op = "shift"
              /\ clerk[j].pc = "commit" /\ clerk[j].want.op = "shift"
              => ~Clashes(to.want, clerk[j].want) /\ ~Clashes(clerk[j].want, to.want)
  PROVE  CatalogInv'
<1>1. \A j \in Clerks : clerk'[j] = IF j = k THEN to ELSE clerk[j]
  BY DEF CatalogInv, CatalogType
<1>2. CatalogType'
  BY DEF CatalogInv, CatalogType, catalogRows
<1>3. RowsAgree'
  BY DEF CatalogInv, RowsAgree, catalogRows, On
<1>4. \A j \in Clerks : ClerkOK(clerk'[j], services, schedules, shifts, reported)
  BY <1>1 DEF CatalogInv
<1>5. \A j \in Clerks : ClerkOK(clerk[j], services, schedules, shifts, reported)'
  BY <1>4 DEF catalogRows
<1>6. ClerksApart'
  BY <1>1 DEF CatalogInv, ClerksApart
<1> QED
  BY <1>2, <1>3, <1>5, <1>6 DEF CatalogInv, catalogRows

LEMMA ReadStep ==
  ASSUME CatalogInv, NEW k \in Clerks, Read(k)
  PROVE  CatalogInv'
<1>1. PICK w \in Wants :
        clerk' = [clerk EXCEPT ![k] = [Resting EXCEPT !.pc = "write", !.want = w]]
  BY DEF Read
<1> DEFINE to == [Resting EXCEPT !.pc = "write", !.want = w]
<1>2. to.pc = "write" /\ to.want = w /\ to.holds = {} /\ to.shares = {}
  BY DEF Resting
<1>3. ClerkOK(to, services, schedules, shifts, reported)
  BY <1>2, WantsAreGiven DEF ClerkOK
<1>4. clerk' = [clerk EXCEPT ![k] = to] /\ UNCHANGED catalogRows
  BY <1>1 DEF Read
<1> HIDE DEF to
<1> QED
  BY <1>2, <1>3, <1>4, ClerkMoves

LEMMA ClerkRests ==
  ASSUME CatalogInv, NEW k \in Clerks, clerk' = [clerk EXCEPT ![k] = Resting],
         UNCHANGED catalogRows
  PROVE  CatalogInv'
<1>1. Resting.pc = "resting" /\ Resting.holds = {} /\ Resting.shares = {}
  BY DEF Resting
<1>2. ClerkOK(Resting, services, schedules, shifts, reported)
  BY <1>1 DEF ClerkOK
<1> QED
  BY <1>1, <1>2, ClerkMoves

-----------------------------------------------------------------------------
(* The flush.                                                              *)

LEMMA WriteStep ==
  ASSUME CatalogInv, NEW k \in Clerks, WriteRows(k)
  PROVE  CatalogInv'
<1> DEFINE w == clerk[k].want
<1> DEFINE to == [pc |-> "commit", want |-> w, holds |-> Alone(w), shares |-> Shared(w)]
<1>1. CASE Violates(w)
  BY <1>1, ClerkRests DEF WriteRows
<1>2. CASE ~Violates(w)
  <2>1. to.pc = "commit" /\ to.want = w /\ to.holds = Alone(w) /\ to.shares = Shared(w)
    OBVIOUS
  <2>2. w \in Given /\ w.op \in {"create", "rename", "delete", "schedule", "shift",
                                 "unshift", "report", "remove"}
    BY DEF CatalogInv, ClerkOK, WriteRows, Given, Want
  <2>3. StillMeets(w, services, schedules, shifts)
    <3>1. w.op = "create" => \A s \in Services : services[s] # w.name
      BY <1>2 DEF Violates
    <3>2. w.op = "rename" => /\ services[w.service] # Absent
                             /\ \A s \in Services \ {w.service} : services[s] # w.name
      BY <1>2 DEF Violates
    <3>3. w.op \in {"schedule", "report"} => services[w.service] # Absent
      BY <1>2 DEF Violates
    <3>4. w.op = "shift" =>
            /\ schedules[w.schedule] # Absent
            /\ \A f \in Shifts : shifts[f] # Absent /\ shifts[f].schedule = w.schedule
                                   => ~Overlap(shifts[f].hours, w.hours)
      BY <1>2 DEF Violates, OverlapsShift, On
    <3> QED
      BY <3>1, <3>2, <3>3, <3>4 DEF StillMeets
  <2>4. ASSUME w.op = "delete" PROVE CascadeOK(w, Alone(w), schedules, shifts, reported)
    <3>1. Alone(w) = Cascade(w.service) /\ w.service \notin reported /\ w.service \in Services
      BY <1>2, <2>2, <2>4 DEF Alone, Violates, Given, Complete
    <3>2. \A s \in Services : ServiceRow(s) \in Cascade(w.service) <=> s = w.service
      BY CatalogRowsDiffer DEF Cascade
    <3>3. \A d \in Schedules : ScheduleRow(d) \in Cascade(w.service) <=> schedules[d] = w.service
      BY CatalogRowsDiffer DEF Cascade, Of
    <3>4. ASSUME NEW f \in Shifts, shifts[f] # Absent,
                 ScheduleRow(shifts[f].schedule) \in Cascade(w.service)
          PROVE  ShiftRow(f) \in Cascade(w.service)
      <4>1. shifts[f].schedule \in Schedules
        BY <3>4 DEF CatalogInv, CatalogType, ShiftOf
      <4>2. shifts[f].schedule \in Of(w.service)
        BY <3>3, <3>4, <4>1 DEF Of
      <4>3. f \in On(shifts[f].schedule)
        BY <3>4 DEF On
      <4> QED
        BY <4>2, <4>3 DEF Cascade
    <3> QED
      BY <3>1, <3>2, <3>3, <3>4 DEF CascadeOK
  <2>9. w.op # "delete" => Alone(w) = Writes(w)
    BY <2>2 DEF Alone, Writes
  <2>5. ClerkOK(to, services, schedules, shifts, reported)
    BY <2>1, <2>2, <2>3, <2>4, <2>9 DEF ClerkOK
  <2>6. ASSUME NEW j \in Clerks \ {k}
        PROVE  /\ Alone(w) \intersect (clerk[j].holds \union clerk[j].shares) = {}
               /\ clerk[j].holds \intersect Shared(w) = {}
    BY <2>6 DEF WriteRows, Waits
  <2>7. ASSUME NEW j \in Clerks \ {k}, w.op = "shift",
               clerk[j].pc = "commit", clerk[j].want.op = "shift"
        PROVE  ~Clashes(clerk[j].want, w) /\ ~Clashes(w, clerk[j].want)
    <3>1. clerk[j].want \in Pending(k)
      BY <2>7 DEF Pending
    <3>2. ~Clashes(clerk[j].want, w)
      BY <2>7, <3>1 DEF WriteRows, WaitsToo
    <3> QED
      BY <3>2 DEF Clashes, Overlap
  <2>8. clerk' = [clerk EXCEPT ![k] = to] /\ UNCHANGED catalogRows
    BY <1>2 DEF WriteRows
  <2>10. ASSUME NEW j \in Clerks \ {k}
         PROVE  /\ to.holds \intersect (clerk[j].holds \union clerk[j].shares) = {}
                /\ clerk[j].holds \intersect to.shares = {}
                /\ /\ to.pc = "commit" /\ to.want.op = "shift"
                   /\ clerk[j].pc = "commit" /\ clerk[j].want.op = "shift"
                   => ~Clashes(to.want, clerk[j].want) /\ ~Clashes(clerk[j].want, to.want)
    BY <2>1, <2>6, <2>7
  <2> HIDE DEF to
  <2> QED
    BY <2>5, <2>8, <2>10, ClerkMoves
<1> QED
  BY <1>1, <1>2

-----------------------------------------------------------------------------
(* The commit.  Every row it changes is a row it holds, and what a new row *)
(* refers to it shares.                                                    *)

LEMMA CommitTouches ==
  ASSUME CatalogInv, NEW k \in Clerks, CommitRows(k)
  PROVE  LET w == clerk[k].want
             held == clerk[k].holds
         IN /\ \A s \in Services :
                 \/ services'[s] = services[s] /\ (w.op = "delete" => ServiceRow(s) \notin held)
                 \/ /\ services'[s] = Absent /\ w.op = "delete" /\ ServiceRow(s) \in held
                 \/ /\ services'[s] = w.name /\ w.op \in {"create", "rename"} /\ s = w.service
            /\ \A d \in Schedules :
                 \/ schedules'[d] = schedules[d] /\ (w.op = "delete" => ScheduleRow(d) \notin held)
                 \/ /\ schedules'[d] = Absent /\ w.op = "delete" /\ ScheduleRow(d) \in held
                 \/ /\ schedules'[d] = w.service /\ w.op = "schedule" /\ d = w.schedule
            /\ \A f \in Shifts :
                 \/ shifts'[f] = shifts[f] /\ (w.op = "delete" => ShiftRow(f) \notin held)
                 \/ /\ shifts'[f] = Absent /\ w.op \in {"delete", "unshift"}
                    /\ ShiftRow(f) \in held
                 \/ /\ shifts'[f] = [schedule |-> w.schedule, who |-> w.who, hours |-> w.hours]
                    /\ w.op = "shift" /\ f = w.shift
            /\ \A s \in reported' : s \in reported \/ (w.op = "report" /\ s = w.service)
<1> DEFINE w == clerk[k].want
<1> DEFINE held == clerk[k].holds
<1>1. w.op = "unshift" => held = {ShiftRow(w.shift)}
  BY DEF CatalogInv, ClerkOK, CommitRows, Writes
<1>2. w.op = "unshift" => /\ \A s \in Services : ServiceRow(s) \notin held
                          /\ \A d \in Schedules : ScheduleRow(d) \notin held
  BY <1>1, CatalogRowsDiffer
<1>3. ASSUME NEW s \in Services
      PROVE  \/ services'[s] = services[s] /\ (w.op = "delete" => ServiceRow(s) \notin held)
             \/ /\ services'[s] = Absent /\ w.op = "delete" /\ ServiceRow(s) \in held
             \/ /\ services'[s] = w.name /\ w.op \in {"create", "rename"} /\ s = w.service
  <2>1. services'[s] = IF Gone(k, ServiceRow(s)) THEN Absent
                       ELSE IF w.op \in {"create", "rename"} /\ s = w.service THEN w.name
                       ELSE services[s]
    BY DEF CommitRows
  <2>2. Gone(k, ServiceRow(s)) <=> w.op = "delete" /\ ServiceRow(s) \in held
    BY <1>2 DEF Gone
  <2> HIDE DEF w, held
  <2> QED
    BY <2>1, <2>2
<1>4. ASSUME NEW d \in Schedules
      PROVE  \/ schedules'[d] = schedules[d] /\ (w.op = "delete" => ScheduleRow(d) \notin held)
             \/ /\ schedules'[d] = Absent /\ w.op = "delete" /\ ScheduleRow(d) \in held
             \/ /\ schedules'[d] = w.service /\ w.op = "schedule" /\ d = w.schedule
  <2>1. schedules'[d] = IF Gone(k, ScheduleRow(d)) THEN Absent
                        ELSE IF w.op = "schedule" /\ d = w.schedule THEN w.service
                        ELSE schedules[d]
    BY DEF CommitRows
  <2>2. Gone(k, ScheduleRow(d)) <=> w.op = "delete" /\ ScheduleRow(d) \in held
    BY <1>2 DEF Gone
  <2> HIDE DEF w, held
  <2> QED
    BY <2>1, <2>2
<1>5. ASSUME NEW f \in Shifts
      PROVE  \/ shifts'[f] = shifts[f] /\ (w.op = "delete" => ShiftRow(f) \notin held)
             \/ /\ shifts'[f] = Absent /\ w.op \in {"delete", "unshift"} /\ ShiftRow(f) \in held
             \/ /\ shifts'[f] = [schedule |-> w.schedule, who |-> w.who, hours |-> w.hours]
                /\ w.op = "shift" /\ f = w.shift
  <2>1. shifts'[f] = IF Gone(k, ShiftRow(f)) THEN Absent
                     ELSE IF w.op = "shift" /\ f = w.shift
                       THEN [schedule |-> w.schedule, who |-> w.who, hours |-> w.hours]
                       ELSE shifts[f]
    BY DEF CommitRows
  <2>2. Gone(k, ShiftRow(f)) <=> w.op \in {"delete", "unshift"} /\ ShiftRow(f) \in held
    BY DEF Gone
  <2> HIDE DEF w, held
  <2> QED
    BY <2>1, <2>2
<1>6. \A s \in reported' : s \in reported \/ (w.op = "report" /\ s = w.service)
  BY DEF CommitRows
<1> QED
  BY <1>3, <1>4, <1>5, <1>6

\* Another request that is about to commit finds its constraints as it met them.
LEMMA OthersStillMeet ==
  ASSUME CatalogInv, NEW k \in Clerks, CommitRows(k), NEW j \in Clerks \ {k},
         clerk[j].pc = "commit"
  PROVE  /\ StillMeets(clerk[j].want, services', schedules', shifts')
         /\ clerk[j].want.op = "delete" =>
              CascadeOK(clerk[j].want, clerk[j].holds, schedules', shifts', reported')
<1> DEFINE v == clerk[j].want
<1> DEFINE w == clerk[k].want
<1> DEFINE mine == clerk[j].holds
<1> DEFINE held == clerk[k].holds
<1> DEFINE lent == clerk[k].shares
<1>1. /\ v \in Given /\ w \in Given
      /\ StillMeets(v, services, schedules, shifts)
      /\ v.op = "delete" => CascadeOK(v, mine, schedules, shifts, reported)
      /\ v.op # "delete" => mine = Writes(v)
      /\ w.op # "delete" => held = Writes(w)
      /\ clerk[j].shares = Shared(v) /\ lent = Shared(w)
  BY DEF CatalogInv, ClerkOK, CommitRows
<1>2. /\ mine \intersect (held \union lent) = {}
      /\ held \intersect Shared(v) = {}
      /\ v.op = "shift" /\ w.op = "shift" => ~Clashes(v, w)
  BY <1>1 DEF CatalogInv, ClerksApart, CommitRows
<1>3. /\ v.op \in {"create", "rename", "delete", "schedule", "report"} => v.service \in Services
      /\ v.op \in {"create", "rename"} => v.name \in Names /\ v.name # Absent
      /\ v.op \in {"schedule", "shift"} => v.schedule \in Schedules
      /\ w.op \in {"create", "rename", "delete", "schedule", "report"} => w.service \in Services
  BY <1>1, CatalogAssumption DEF Given, Complete
<1>4. /\ v.op \in {"create", "rename"} => ServiceRow(v.service) \in mine /\ NameEntry(v.name) \in mine
      /\ v.op = "delete" => ServiceRow(v.service) \in mine
      /\ v.op \in {"schedule", "report"} => ServiceRow(v.service) \in Shared(v)
      /\ v.op = "shift" => ScheduleRow(v.schedule) \in Shared(v)
  BY <1>1, <1>3 DEF Writes, Shared, CascadeOK
<1>5. /\ w.op \in {"create", "rename"} => ServiceRow(w.service) \in held /\ NameEntry(w.name) \in held
      /\ w.op = "schedule" => ScheduleRow(w.schedule) \in held /\ ServiceRow(w.service) \in lent
      /\ w.op = "report" => ServiceRow(w.service) \in lent
      /\ w.op = "shift" => ScheduleRow(w.schedule) \in lent
  BY <1>1 DEF Writes, Shared
<1>6. /\ \A s \in Services :
           \/ services'[s] = services[s]
           \/ services'[s] = Absent /\ ServiceRow(s) \in held
           \/ services'[s] = w.name /\ w.op \in {"create", "rename"} /\ s = w.service
      /\ \A d \in Schedules :
           \/ schedules'[d] = schedules[d]
           \/ schedules'[d] = Absent /\ ScheduleRow(d) \in held
           \/ schedules'[d] = w.service /\ w.op = "schedule" /\ d = w.schedule
      /\ \A f \in Shifts :
           \/ shifts'[f] = shifts[f]
           \/ shifts'[f] = Absent
           \/ /\ shifts'[f] = [schedule |-> w.schedule, who |-> w.who, hours |-> w.hours]
              /\ w.op = "shift"
      /\ \A s \in reported' : s \in reported \/ (w.op = "report" /\ s = w.service)
  BY CommitTouches
<1>7. Absent \notin Services
  BY CatalogAssumption
<1> HIDE DEF v, w, mine, held, lent
<1>8. v.op \in {"create", "rename"} =>
        \A s \in Services : services'[s] = v.name => services[s] = v.name
  BY <1>2, <1>3, <1>4, <1>5, <1>6
<1>9. v.op \in {"rename", "schedule", "report"} => services'[v.service] = services[v.service]
  BY <1>2, <1>3, <1>4, <1>5, <1>6
<1>10. v.op = "shift" => schedules'[v.schedule] = schedules[v.schedule]
  BY <1>2, <1>3, <1>4, <1>5, <1>6
<1>11. ASSUME v.op = "shift", NEW f \in Shifts, shifts'[f] # Absent,
              shifts'[f].schedule = v.schedule
       PROVE  ~Overlap(shifts'[f].hours, v.hours)
  <2>1. CASE shifts'[f] = shifts[f]
    BY <1>1, <1>11, <2>1 DEF StillMeets
  <2>2. CASE /\ shifts'[f] = [schedule |-> w.schedule, who |-> w.who, hours |-> w.hours]
             /\ w.op = "shift"
    <3>1. shifts'[f].schedule = w.schedule /\ shifts'[f].hours = w.hours
      BY <2>2
    <3>2. ~Clashes(v, w)
      BY <1>2, <1>11, <2>2
    <3> QED
      BY <1>11, <3>1, <3>2 DEF Clashes, Overlap
  <2> QED
    BY <1>6, <1>11, <2>1, <2>2
<1>12. StillMeets(v, services', schedules', shifts')
  BY <1>1, <1>8, <1>9, <1>10, <1>11 DEF StillMeets
<1>13. ASSUME v.op = "delete" PROVE CascadeOK(v, mine, schedules', shifts', reported')
  <2>1. CascadeOK(v, mine, schedules, shifts, reported)
    BY <1>1, <1>13
  <2>2. ASSUME NEW d \in Schedules, schedules'[d] = v.service PROVE ScheduleRow(d) \in mine
    BY <1>2, <1>3, <1>4, <1>5, <1>6, <1>7, <1>13, <2>1, <2>2 DEF CascadeOK
  <2>3. ASSUME NEW f \in Shifts, shifts'[f] # Absent, ScheduleRow(shifts'[f].schedule) \in mine
        PROVE  ShiftRow(f) \in mine
    <3>1. shifts'[f] = shifts[f]
      <4>1. CASE /\ shifts'[f] = [schedule |-> w.schedule, who |-> w.who, hours |-> w.hours]
                 /\ w.op = "shift"
        <5>1. shifts'[f].schedule = w.schedule
          BY <4>1
        <5> QED
          BY <1>2, <1>5, <2>3, <4>1, <5>1
      <4> QED
        BY <1>6, <2>3, <4>1
    <3> QED
      BY <2>1, <2>3, <3>1 DEF CascadeOK
  <2>4. v.service \notin reported'
    BY <1>2, <1>4, <1>5, <1>6, <1>13, <2>1 DEF CascadeOK
  <2> QED
    BY <2>1, <2>2, <2>3, <2>4 DEF CascadeOK
<1> QED
  BY <1>12, <1>13 DEF v, mine

LEMMA CommitRowsStep ==
  ASSUME CatalogInv, NEW k \in Clerks, CommitRows(k)
  PROVE  CatalogInv'
<1> DEFINE w == clerk[k].want
<1> DEFINE held == clerk[k].holds
<1>1. /\ w \in Given
      /\ StillMeets(w, services, schedules, shifts)
      /\ w.op = "delete" => CascadeOK(w, held, schedules, shifts, reported)
  BY DEF CatalogInv, ClerkOK, CommitRows
<1>2. /\ w.op \in {"create", "rename", "delete", "schedule", "report"} => w.service \in Services
      /\ w.op \in {"create", "rename"} => w.name \in Names
      /\ w.op \in {"schedule", "shift"} => w.schedule \in Schedules
      /\ w.op = "shift" => w.who \in Staff /\ w.hours \in Intervals
      /\ Absent \notin Services /\ Absent \notin Names
  BY <1>1, CatalogAssumption DEF Given, Complete
<1>3. /\ \A s \in Services :
           \/ services'[s] = services[s] /\ (w.op = "delete" => ServiceRow(s) \notin held)
           \/ /\ services'[s] = Absent /\ w.op = "delete" /\ ServiceRow(s) \in held
           \/ /\ services'[s] = w.name /\ w.op \in {"create", "rename"} /\ s = w.service
      /\ \A d \in Schedules :
           \/ schedules'[d] = schedules[d] /\ (w.op = "delete" => ScheduleRow(d) \notin held)
           \/ /\ schedules'[d] = Absent /\ w.op = "delete" /\ ScheduleRow(d) \in held
           \/ /\ schedules'[d] = w.service /\ w.op = "schedule" /\ d = w.schedule
      /\ \A s \in reported' : s \in reported \/ (w.op = "report" /\ s = w.service)
  BY CommitTouches
<1>4. \A f \in Shifts :
         \/ shifts'[f] = shifts[f] /\ (w.op = "delete" => ShiftRow(f) \notin held)
         \/ shifts'[f] = Absent /\ w.op \in {"delete", "unshift"}
         \/ /\ shifts'[f] = [schedule |-> w.schedule, who |-> w.who, hours |-> w.hours]
            /\ w.op = "shift" /\ f = w.shift
  BY CommitTouches
<1>5. \A f \in Shifts :
         \/ shifts'[f] = shifts[f] /\ (w.op = "delete" => ShiftRow(f) \notin held)
         \/ shifts'[f] = Absent /\ w.op \in {"delete", "unshift"}
         \/ /\ shifts'[f] # Absent => shifts'[f].schedule = w.schedule
                                   /\ shifts'[f].hours = w.hours
            /\ w.op = "shift" /\ f = w.shift
  BY <1>4
<1>6. CatalogType'
  <2>1. /\ services \in [Services -> Names \union {Absent}]
        /\ schedules \in [Schedules -> Services \union {Absent}]
        /\ shifts \in [Shifts -> ShiftOf \union {Absent}]
        /\ reported \subseteq Services
        /\ DOMAIN clerk = Clerks
    BY DEF CatalogInv, CatalogType
  <2>2. /\ DOMAIN services' = Services /\ DOMAIN schedules' = Schedules /\ DOMAIN shifts' = Shifts
        /\ services' = [s \in DOMAIN services' |-> services'[s]]
        /\ schedules' = [d \in DOMAIN schedules' |-> schedules'[d]]
        /\ shifts' = [f \in DOMAIN shifts' |-> shifts'[f]]
        /\ DOMAIN clerk' = Clerks
    BY <2>1 DEF CommitRows
  <2>3. w.op = "shift" =>
          [schedule |-> w.schedule, who |-> w.who, hours |-> w.hours] \in ShiftOf
    BY <1>2 DEF ShiftOf
  <2> HIDE DEF w, held
  <2>4. \A s \in Services : services'[s] \in Names \union {Absent}
    BY <1>2, <1>3, <2>1
  <2>5. \A d \in Schedules : schedules'[d] \in Services \union {Absent}
    BY <1>2, <1>3, <2>1
  <2>6. \A f \in Shifts : shifts'[f] \in ShiftOf \union {Absent}
    BY <1>4, <2>1, <2>3
  <2>7. reported' \subseteq Services
    BY <1>2, <1>3, <2>1
  <2>8. services' \in [Services -> Names \union {Absent}]
    BY <2>2, <2>4
  <2>9. schedules' \in [Schedules -> Services \union {Absent}]
    BY <2>2, <2>5
  <2>10. shifts' \in [Shifts -> ShiftOf \union {Absent}]
    BY <2>2, <2>6
  <2> QED
    BY <2>2, <2>7, <2>8, <2>9, <2>10 DEF CatalogType
<1>7. RowsAgree'
  <2>1. /\ CatalogType /\ RowsAgree
    BY DEF CatalogInv
  <2>2. /\ w.op = "create" => \A s \in Services : services[s] # w.name
        /\ w.op = "rename" => \A s \in Services \ {w.service} : services[s] # w.name
        /\ w.op \in {"schedule", "report"} => services[w.service] # Absent
        /\ w.op = "shift" =>
             /\ schedules[w.schedule] # Absent
             /\ \A f \in Shifts : shifts[f] # Absent /\ shifts[f].schedule = w.schedule
                                    => ~Overlap(shifts[f].hours, w.hours)
    BY <1>1 DEF StillMeets
  <2>3. w.op = "delete" =>
          /\ \A s \in Services : ServiceRow(s) \in held <=> s = w.service
          /\ \A d \in Schedules : schedules[d] = w.service => ScheduleRow(d) \in held
          /\ \A f \in Shifts : shifts[f] # Absent /\ ScheduleRow(shifts[f].schedule) \in held
                                 => ShiftRow(f) \in held
          /\ w.service \notin reported
    BY <1>1 DEF CascadeOK
  <2>4. \A f \in Shifts : shifts[f] # Absent => shifts[f].schedule \in Schedules
    BY <2>1 DEF CatalogType, ShiftOf
  <2>5. \A d \in Schedules : schedules[d] # Absent => schedules[d] \in Services
    BY <2>1 DEF CatalogType
  <2> HIDE DEF w, held
  <2>6. ASSUME NEW d \in Schedules, NEW f \in Shifts, NEW g \in Shifts, f # g,
               shifts'[f] # Absent, shifts'[f].schedule = d,
               shifts'[g] # Absent, shifts'[g].schedule = d
        PROVE  ~Overlap(shifts'[f].hours, shifts'[g].hours)
    <3>1. CASE shifts'[f] = shifts[f] /\ shifts'[g] = shifts[g]
      BY <2>1, <2>6, <3>1 DEF RowsAgree, On
    <3>2. CASE shifts'[f] = shifts[f] /\ w.op = "shift" /\ g = w.shift
               /\ shifts'[g].schedule = w.schedule /\ shifts'[g].hours = w.hours
      BY <2>2, <2>6, <3>2
    <3>3. CASE shifts'[g] = shifts[g] /\ w.op = "shift" /\ f = w.shift
               /\ shifts'[f].schedule = w.schedule /\ shifts'[f].hours = w.hours
      BY <2>2, <2>6, <3>3 DEF Overlap
    <3> QED
      BY <1>5, <2>6, <3>1, <3>2, <3>3
  <2>7. ASSUME NEW f \in Shifts, shifts'[f] # Absent
        PROVE  schedules'[shifts'[f].schedule] # Absent
    <3>1. CASE shifts'[f] = shifts[f] /\ (w.op = "delete" => ShiftRow(f) \notin held)
      <4>1. shifts[f].schedule \in Schedules /\ schedules[shifts[f].schedule] # Absent
        BY <2>1, <2>4, <2>7, <3>1 DEF RowsAgree
      <4> QED
        BY <1>2, <1>3, <2>3, <2>7, <3>1, <4>1
    <3>2. CASE w.op = "shift" /\ shifts'[f].schedule = w.schedule
      BY <1>2, <1>3, <2>2, <3>2
    <3> QED
      BY <1>5, <2>7, <3>1, <3>2
  <2>8. ASSUME NEW d \in Schedules, schedules'[d] # Absent
        PROVE  services'[schedules'[d]] # Absent
    <3>1. CASE schedules'[d] = schedules[d] /\ (w.op = "delete" => ScheduleRow(d) \notin held)
      <4>1. schedules[d] \in Services /\ services[schedules[d]] # Absent
        BY <2>1, <2>5, <2>8, <3>1 DEF RowsAgree
      <4> QED
        BY <1>2, <1>3, <2>3, <2>8, <3>1, <4>1
    <3>2. CASE schedules'[d] = w.service /\ w.op = "schedule"
      BY <1>2, <1>3, <2>2, <3>2
    <3> QED
      BY <1>3, <2>8, <3>1, <3>2
  <2>9. ASSUME NEW s \in reported' PROVE services'[s] # Absent
    <3>1. CASE s \in reported
      <4>1. s \in Services /\ services[s] # Absent
        BY <2>1, <3>1 DEF RowsAgree, CatalogType
      <4> QED
        BY <1>2, <1>3, <2>3, <3>1, <4>1
    <3>2. CASE w.op = "report" /\ s = w.service
      BY <1>2, <1>3, <2>2, <3>2
    <3> QED
      BY <1>3, <3>1, <3>2
  <2>10. ASSUME NEW s \in Services, NEW z \in Services, services'[s] = services'[z]
         PROVE  s = z \/ services'[s] = Absent
    <3>1. services[s] = services[z] => s = z \/ services[s] = Absent
      BY <2>1 DEF RowsAgree
    <3> QED
      BY <1>2, <1>3, <2>2, <2>10, <3>1
  <2> QED
    BY <2>6, <2>7, <2>8, <2>9, <2>10 DEF RowsAgree, On
<1>8. \A j \in Clerks : clerk'[j] = IF j = k THEN Resting ELSE clerk[j]
  BY DEF CatalogInv, CatalogType, CommitRows
<1>9. Resting.pc = "resting" /\ Resting.holds = {} /\ Resting.shares = {}
  BY DEF Resting
<1>10. ASSUME NEW j \in Clerks
       PROVE  ClerkOK(clerk'[j], services', schedules', shifts', reported')
  <2>1. CASE j = k
    BY <1>8, <1>9, <2>1 DEF ClerkOK
  <2>2. CASE j # k
    <3>1. ClerkOK(clerk[j], services, schedules, shifts, reported)
      BY DEF CatalogInv
    <3>2. clerk[j].pc = "commit" =>
            /\ StillMeets(clerk[j].want, services', schedules', shifts')
            /\ clerk[j].want.op = "delete" =>
                 CascadeOK(clerk[j].want, clerk[j].holds, schedules', shifts', reported')
      BY <2>2, OthersStillMeet
    <3>3. ClerkOK(clerk[j], services', schedules', shifts', reported')
      BY <3>1, <3>2 DEF ClerkOK
    <3> QED
      BY <1>8, <2>2, <3>3
  <2> QED
    BY <2>1, <2>2
<1>11. ClerksApart'
  BY <1>8, <1>9 DEF CatalogInv, ClerksApart
<1> QED
  BY <1>6, <1>7, <1>10, <1>11 DEF CatalogInv

-----------------------------------------------------------------------------
LEMMA CatalogStep == CatalogInv /\ [CatalogNext]_catalogVars => CatalogInv'
<1> SUFFICES ASSUME CatalogInv, [CatalogNext]_catalogVars PROVE CatalogInv'
  OBVIOUS
<1>1. CASE UNCHANGED catalogVars
  BY <1>1 DEF catalogVars, catalogRows, CatalogInv, CatalogType, RowsAgree, ClerksApart, On
<1>2. ASSUME NEW k \in Clerks, FailRows(k) PROVE CatalogInv'
  BY <1>2, ClerkRests DEF FailRows
<1> QED
  BY <1>1, <1>2, ReadStep, WriteStep, CommitRowsStep DEF CatalogNext

LEMMA CatalogInvHolds == CatalogInv => CatalogHolds
<1> SUFFICES ASSUME CatalogInv PROVE CatalogHolds
  OBVIOUS
<1>1. ASSUME NEW d \in Schedules, NEW h \in Hours PROVE Cardinality(OnCall(d, h)) <= 1
  <2> DEFINE Then == {f \in On(d) : shifts[f].hours[1] <= h /\ h < shifts[f].hours[2]}
  <2>1. ASSUME NEW f \in Then, NEW g \in Then PROVE f = g
    <3>1. /\ f \in Shifts /\ shifts[f] # Absent /\ g \in Shifts /\ shifts[g] # Absent
          /\ f \in On(d) /\ g \in On(d)
      BY DEF On
    <3>2. shifts[f].hours \in Intervals /\ shifts[g].hours \in Intervals
      BY <3>1 DEF CatalogInv, CatalogType, ShiftOf
    <3>3. /\ shifts[f].hours[1] \in Nat /\ shifts[f].hours[2] \in Nat
          /\ shifts[g].hours[1] \in Nat /\ shifts[g].hours[2] \in Nat /\ h \in Nat
      BY <3>2, CatalogAssumption DEF Intervals
    <3>4. Overlap(shifts[f].hours, shifts[g].hours)
      BY <3>3 DEF Overlap
    <3> QED
      BY <3>1, <3>4 DEF CatalogInv, RowsAgree
  <2>2. CASE Then = {}
    <3>1. OnCall(d, h) = {}
      BY <2>2 DEF OnCall
    <3> QED
      BY <3>1, FS_EmptySet
  <2>3. CASE Then # {}
    <3>1. PICK f \in Then : TRUE
      BY <2>3
    <3>2. Then = {f}
      BY <2>1, <3>1
    <3>3. OnCall(d, h) = {shifts[f].who}
      BY <3>2 DEF OnCall
    <3>4. \A x : Cardinality({x}) = 1
      BY FS_Singleton
    <3>5. Cardinality(OnCall(d, h)) = 1
      BY <3>3, <3>4
    <3> QED
      BY <3>5
  <2> QED
    BY <2>2, <2>3
<1>2. \A d \in Schedules : On(d) # {} => schedules[d] # Absent
  BY DEF CatalogInv, RowsAgree, On
<1> QED
  BY <1>1, <1>2 DEF CatalogInv, RowsAgree, CatalogHolds

(* At any moment one person at most is on call on a schedule, shifts have   *)
(* their schedule, schedules and incidents their service, services their    *)
(* own names, however many requests overlap: the exclusion constraint, the  *)
(* foreign keys with their cascades and the unique name of db/models.py.    *)
THEOREM CatalogIsSound == CatalogSpec => []CatalogHolds
<1>1. CatalogSpec => []CatalogInv
  BY CatalogInitially, CatalogStep, PTL DEF CatalogSpec
<1> QED
  BY <1>1, CatalogInvHolds, PTL

-----------------------------------------------------------------------------
(* THE BROKER                                                              *)

HandlerSteps == {"away", "open", "add", "subscribing", "arrive", "drop", "unsubscribing", "leave",
          "closing", "cleanup", "gone", "aborted"}
Handler == [pc : HandlerSteps, channel : Channels \union {Nobody}, subscribed : SUBSET Channels,
            ending : BOOLEAN]
Command == {"subscribe", "unsubscribe"} \X Channels

BrokerType ==
  /\ conn \in [Connections -> Handler]
  /\ local \in [Channels -> SUBSET Connections]
  /\ commands \in Seq(Command)
  /\ presence \in [IncidentChannels -> SUBSET {User(c) : c \in Connections}]

\* The steps that are about one channel, and those that hold the lock.
OnChannel == {"add", "subscribing", "arrive", "drop", "unsubscribing", "leave"}
Writing == {"subscribing", "unsubscribing"}

\* Only the holder of the lock writes, and nobody listens to a channel that is
\* being unsubscribed.
LockGuardsWriting ==
  \A c \in Connections :
    /\ conn[c].pc \in OnChannel => conn[c].channel \in Channels
    /\ conn[c].pc \in Writing <=> lock = c
    /\ Upon(c, "unsubscribing") => local[conn[c].channel] = {}
    /\ Upon(c, "arrive") => conn[c].channel \in conn[c].subscribed \intersect IncidentChannels

\* Why a connection is still among the listeners of a channel, and a user still
\* a viewer.
AccountsForListening(c, ch) ==
  \/ ch \in conn[c].subscribed
  \/ Upon(c, "drop") /\ conn[c].channel = ch
  \/ Upon(c, "aborted")
  \/ <<c, "drop", ch>> \in orphans

AccountsForViewing(c, ch) ==
  \/ ch \in conn[c].subscribed
  \/ conn[c].pc \in {"drop", "unsubscribing", "leave"} /\ conn[c].channel = ch
  \/ Upon(c, "aborted")
  \/ \E o \in orphans : o[1] = c /\ o[3] = ch

Accounted ==
  /\ \A ch \in Channels : \A c \in local[ch] : AccountsForListening(c, ch)
  /\ \A ch \in IncidentChannels : \A u \in presence[ch] :
       \E c \in Connections : User(c) = u /\ AccountsForViewing(c, ch)
  /\ \A c \in Connections : Upon(c, "gone") => conn[c].subscribed = {}

RealtimeInv ==
  /\ BrokerType
  /\ LockGuardsWriting
  /\ ListenersAreFed
  /\ Accounted

-----------------------------------------------------------------------------
(* What is written, and what Redis makes of it.                            *)

LEMMA WriteDecides ==
  ASSUME commands \in Seq(Command), NEW ch \in Channels, NEW cmd \in {"subscribe", "unsubscribe"},
         Write(cmd, ch), subs' = subs
  PROVE  /\ commands' \in Seq(Command)
         /\ Subscribed(ch)' <=> cmd = "subscribe"
         /\ \A d \in Channels \ {ch} : Subscribed(d)' <=> Subscribed(d)
<1>1. commands' = Append(commands, <<cmd, ch>>) /\ <<cmd, ch>> \in Command
  BY DEF Write, Command
<1>2. commands' \in Seq(Command)
  BY <1>1
<1>3. /\ Len(commands) \in Nat /\ DOMAIN commands = 1..Len(commands)
      /\ DOMAIN commands' = 1..(Len(commands) + 1)
      /\ commands'[Len(commands) + 1] = <<cmd, ch>>
      /\ \A i \in DOMAIN commands : commands'[i] = commands[i]
  BY <1>1
<1>4. /\ commands'[Len(commands) + 1][1] = cmd /\ commands'[Len(commands) + 1][2] = ch
  BY <1>3
<1>5. Subscribed(ch)' <=> cmd = "subscribe"
  BY <1>3, <1>4 DEF Subscribed
<1>6. ASSUME NEW d \in Channels \ {ch} PROVE Subscribed(d)' <=> Subscribed(d)
  <2>1. {i \in DOMAIN commands' : commands'[i][2] = d}
        = {i \in DOMAIN commands : commands[i][2] = d}
    BY <1>3, <1>4
  <2> QED
    BY <1>3, <2>1 DEF Subscribed
<1> QED
  BY <1>2, <1>5, <1>6

LEMMA RedisFollows ==
  ASSUME commands \in Seq(Command), RedisActs
  PROVE  /\ commands' \in Seq(Command)
         /\ \A d \in Channels : Subscribed(d)' <=> Subscribed(d)
<1>1. commands # <<>> /\ commands' = Tail(commands)
  BY DEF RedisActs
<1>2. commands' \in Seq(Command)
  BY <1>1
<1> DEFINE n == Len(commands)
<1>3. /\ n \in Nat /\ n > 0 /\ DOMAIN commands = 1..n /\ DOMAIN commands' = 1..(n - 1)
      /\ \A i \in 1..(n - 1) : commands'[i] = commands[i + 1]
      /\ Head(commands) = commands[1] /\ commands[1] \in Command
  BY <1>1
<1>4. subs' = IF commands[1][1] = "subscribe" THEN subs \union {commands[1][2]}
              ELSE subs \ {commands[1][2]}
  BY <1>3 DEF RedisActs
<1> HIDE DEF n
<1>5. ASSUME NEW d \in Channels PROVE Subscribed(d)' <=> Subscribed(d)
  <2> DEFINE of == {i \in 1..n : commands[i][2] = d}
  <2> DEFINE rest == {i \in 1..(n - 1) : commands'[i][2] = d}
  <2>1. /\ \A i : i \in rest <=> i \in 1..(n - 1) /\ commands[i + 1][2] = d
        /\ \A i : i \in of <=> i \in 1..n /\ commands[i][2] = d
    BY <1>3
  <2>2. /\ Subscribed(d) <=> IF of = {} THEN d \in subs
                             ELSE \E i \in of : /\ commands[i][1] = "subscribe"
                                                /\ \A j \in of : j <= i
        /\ Subscribed(d)' <=> IF rest = {} THEN d \in subs'
                              ELSE \E i \in rest : /\ commands'[i][1] = "subscribe"
                                                   /\ \A j \in rest : j <= i
    BY <1>3 DEF Subscribed
  <2> HIDE DEF of, rest
  <2>3. CASE rest = {}
    <3>1. of \subseteq {1}
      <4>1. ASSUME NEW i \in of, i # 1 PROVE FALSE
        <5>1. i - 1 \in rest
          BY SMTT(30), <1>3, <2>1, <4>1
        <5> QED
          BY <2>3, <5>1
      <4> QED
        BY <4>1
    <3>2. 1 \in of <=> commands[1][2] = d
      BY <1>3, <2>1
    <3>3. CASE commands[1][2] = d
      <4>1. of = {1}
        BY <3>1, <3>2, <3>3
      <4>2. Subscribed(d) <=> commands[1][1] = "subscribe"
        BY <2>2, <4>1
      <4>3. Subscribed(d)' <=> d \in subs'
        BY <2>2, <2>3
      <4> QED
        BY <1>4, <3>3, <4>2, <4>3
    <3>4. CASE commands[1][2] # d
      <4>1. of = {}
        BY <3>1, <3>2, <3>4
      <4> QED
        BY <1>4, <2>2, <2>3, <3>4, <4>1
    <3> QED
      BY <3>3, <3>4
  <2>4. CASE rest # {}
    <3>1. PICK r \in rest : TRUE
      BY <2>4
    <3>2. r + 1 \in of /\ r + 1 > 1 /\ r \in Nat
      BY <1>3, <2>1
    <3>3. n \in Nat /\ n > 0 /\ rest \subseteq 1..(n - 1) /\ of \subseteq 1..n
      BY <1>3, <2>1
    <3>7. \A i \in 1..(n - 1) : i \in rest <=> i + 1 \in of
      <4>1. \A i \in 1..(n - 1) : i + 1 \in 1..n
        BY <3>3
      <4> QED
        BY <2>1, <4>1
    <3>4. of # {}
      BY <3>2
    <3>5. ASSUME NEW i \in rest, commands'[i][1] = "subscribe", \A j \in rest : j <= i
          PROVE  Subscribed(d)
      <4>1. i + 1 \in of /\ commands[i + 1][1] = "subscribe"
        BY <1>3, <3>3, <3>5, <3>7
      <4>2. ASSUME NEW j \in of PROVE j <= i + 1
        <5>1. j \in Nat /\ j >= 1 /\ i \in Nat
          BY <3>3
        <5>2. CASE j > 1
          <6>1. j - 1 \in 1..(n - 1) /\ (j - 1) + 1 = j
            BY <3>3, <5>1, <5>2
          <6>2. j - 1 \in rest
            BY <3>7, <6>1
          <6> QED
            BY <3>5, <5>1, <6>2
        <5> QED
          BY <5>1, <5>2
      <4> QED
        BY <2>2, <3>4, <4>1, <4>2
    <3>6. ASSUME NEW i \in of, commands[i][1] = "subscribe", \A j \in of : j <= i
          PROVE  Subscribed(d)'
      <4>1. i \in Nat /\ i > 1
        BY <3>2, <3>3, <3>6
      <4>5. i - 1 \in 1..(n - 1) /\ (i - 1) + 1 = i
        BY <3>3, <4>1
      <4>2. i - 1 \in rest /\ i - 1 \in 1..(n - 1)
        BY <3>7, <4>5
      <4>3. commands'[i - 1][1] = "subscribe"
        BY <1>3, <3>6, <4>1, <4>2
      <4>4. \A j \in rest : j <= i - 1
        BY <3>3, <3>6, <3>7, <4>1
      <4> QED
        BY <2>2, <2>4, <4>2, <4>3, <4>4
    <3> QED
      BY <2>2, <2>4, <3>4, <3>5, <3>6
  <2> QED
    BY <2>3, <2>4
<1> QED
  BY <1>2, <1>5

LEMMA RealtimeInitially == RealtimeInit => RealtimeInv
<1> SUFFICES ASSUME RealtimeInit PROVE RealtimeInv
  OBVIOUS
<1>1. Away \in Handler /\ Away.pc = "away"
  BY DEF Away, Handler, HandlerSteps
<1>2. commands \in Seq(Command)
  BY EmptySeq DEF RealtimeInit
<1>3. BrokerType
  BY <1>1, <1>2 DEF RealtimeInit, BrokerType
<1>4. LockGuardsWriting
  BY <1>1, RealtimeAssumption DEF RealtimeInit, LockGuardsWriting, Upon, OnChannel, Writing
<1>5. ListenersAreFed /\ Accounted
  BY <1>1 DEF RealtimeInit, ListenersAreFed, Accounted, Upon
<1> QED
  BY <1>3, <1>4, <1>5 DEF RealtimeInv

-----------------------------------------------------------------------------
(* A step of one handler that changes no set of listeners or viewers.      *)

LEMMA HandlerMoves ==
  ASSUME RealtimeInv, NEW c \in Connections, NEW to \in Handler,
         conn' = [conn EXCEPT ![c] = to],
         UNCHANGED <<local, presence>>, orphans \subseteq orphans',
         commands' \in Seq(Command), ListenersAreFed',
         \A x \in Connections \ {c} : lock' = x <=> lock = x,
         to.pc \in Writing <=> lock' = c,
         to.pc \in OnChannel => to.channel \in Channels,
         to.pc = "unsubscribing" => local[to.channel] = {},
         to.pc = "arrive" => to.channel \in to.subscribed \intersect IncidentChannels,
         to.pc = "gone" => to.subscribed = {},
         \A ch \in Channels : AccountsForListening(c, ch) =>
           \/ ch \in to.subscribed
           \/ to.pc = "drop" /\ to.channel = ch
           \/ to.pc = "aborted"
           \/ <<c, "drop", ch>> \in orphans',
         \A ch \in IncidentChannels : AccountsForViewing(c, ch) =>
           \/ ch \in to.subscribed
           \/ to.pc \in {"drop", "unsubscribing", "leave"} /\ to.channel = ch
           \/ to.pc = "aborted"
           \/ \E o \in orphans' : o[1] = c /\ o[3] = ch
  PROVE  RealtimeInv'
<1>1. \A x \in Connections : conn'[x] = IF x = c THEN to ELSE conn[x]
  BY DEF RealtimeInv, BrokerType
<1>2. BrokerType'
  BY DEF RealtimeInv, BrokerType, User
<1>3. LockGuardsWriting'
  BY <1>1 DEF RealtimeInv, LockGuardsWriting, Upon
<1>4. \A x \in Connections : \A ch \in Channels :
        AccountsForListening(x, ch) => AccountsForListening(x, ch)'
  BY <1>1 DEF AccountsForListening, Upon
<1>5. \A x \in Connections : \A ch \in IncidentChannels :
        AccountsForViewing(x, ch) => AccountsForViewing(x, ch)'
  BY <1>1 DEF AccountsForViewing, Upon
<1>6. \A x \in Connections : Upon(x, "gone")' => conn'[x].subscribed = {}
  BY <1>1 DEF RealtimeInv, Accounted, Upon
<1>7. Accounted'
  <2>1. ASSUME NEW ch \in Channels, NEW x \in local'[ch] PROVE AccountsForListening(x, ch)'
    <3>1. x \in local[ch] /\ x \in Connections
      BY DEF RealtimeInv, BrokerType
    <3> QED
      BY <1>4, <3>1 DEF RealtimeInv, Accounted
  <2>2. ASSUME NEW ch \in IncidentChannels, NEW u \in presence'[ch]
        PROVE  \E x \in Connections : User(x)' = u /\ AccountsForViewing(x, ch)'
    <3>1. PICK x \in Connections : User(x) = u /\ AccountsForViewing(x, ch)
      BY DEF RealtimeInv, Accounted
    <3> QED
      BY <1>5, <3>1 DEF User
  <2> QED
    BY <1>6, <2>1, <2>2 DEF Accounted
<1> QED
  BY <1>2, <1>3, <1>7 DEF RealtimeInv

\* A channel that is fed stays fed when neither its listeners nor what Redis is
\* told of it change.
LEMMA StillFed ==
  ASSUME ListenersAreFed, UNCHANGED <<local, commands, subs>>
  PROVE  ListenersAreFed'
BY DEF ListenersAreFed, Subscribed

LEMMA HandlerFields ==
  ASSUME NEW h \in Handler
  PROVE  /\ h.pc \in HandlerSteps /\ h.channel \in Channels \union {Nobody}
         /\ h.subscribed \subseteq Channels /\ h.ending \in BOOLEAN
BY DEF Handler

\* A step at which the broker stands still.
LEMMA HandlerWalks ==
  ASSUME RealtimeInv, NEW c \in Connections, NEW to \in Handler,
         conn' = [conn EXCEPT ![c] = to],
         UNCHANGED <<brokerVars, presence, orphans>>,
         conn[c].pc \notin Writing, to.pc \notin Writing,
         to.pc \in OnChannel => to.channel \in Channels,
         to.pc = "arrive" => to.channel \in to.subscribed \intersect IncidentChannels,
         to.pc = "gone" => to.subscribed = {},
         \/ to.pc = "aborted"
         \/ /\ conn[c].pc \notin {"drop", "leave", "aborted"}
            /\ \A ch \in conn[c].subscribed :
                 ch \in to.subscribed \/ (to.pc = "drop" /\ to.channel = ch)
  PROVE  RealtimeInv'
<1>1. ListenersAreFed'
  BY StillFed DEF RealtimeInv, brokerVars
<1>2. /\ commands' \in Seq(Command) /\ orphans' = orphans /\ lock' = lock
      /\ UNCHANGED <<local, presence>>
  BY DEF RealtimeInv, BrokerType, brokerVars
<1>3. lock # c /\ to.pc # "unsubscribing" /\ conn[c].pc # "unsubscribing"
  BY DEF RealtimeInv, LockGuardsWriting, Writing
<1>4. \A ch \in Channels : AccountsForListening(c, ch) =>
        \/ ch \in to.subscribed
        \/ to.pc = "drop" /\ to.channel = ch
        \/ to.pc = "aborted"
        \/ <<c, "drop", ch>> \in orphans'
  BY <1>2 DEF AccountsForListening, Upon
<1>5. \A ch \in IncidentChannels : AccountsForViewing(c, ch) =>
        \/ ch \in to.subscribed
        \/ to.pc \in {"drop", "unsubscribing", "leave"} /\ to.channel = ch
        \/ to.pc = "aborted"
        \/ \E o \in orphans' : o[1] = c /\ o[3] = ch
  BY <1>2, <1>3 DEF AccountsForViewing, Upon
<1>6. \A x \in Connections \ {c} : lock' = x <=> lock = x
  BY <1>2
<1>7. to.pc \in Writing <=> lock' = c
  BY <1>2, <1>3
<1> QED
  BY <1>1, <1>2, <1>3, <1>4, <1>5, <1>6, <1>7, HandlerMoves

LEMMA HandlersWalk ==
  ASSUME RealtimeInv, NEW c \in Connections,
         \/ Connect(c) \/ Disconnect(c) \/ StartCleanup(c) \/ CleanNext(c)
         \/ \E ch \in Wanted[c] : Subscribe(c, ch) \/ Unsubscribe(c, ch)
  PROVE  RealtimeInv'
<1>1. /\ conn[c] \in Handler /\ Wanted[c] \subseteq Channels
      /\ conn[c].subscribed \subseteq Channels
  BY RealtimeAssumption DEF RealtimeInv, BrokerType, Handler
<1>2. CASE Connect(c)
  <2> DEFINE to == [conn[c] EXCEPT !.pc = "open"]
  <2>1. /\ to \in Handler /\ to.pc = "open" /\ to.subscribed = conn[c].subscribed
    BY <1>1 DEF Handler, HandlerSteps
  <2>2. conn[c].pc = "away" /\ conn' = [conn EXCEPT ![c] = to]
    BY <1>1, <1>2 DEF Connect, To, Upon
  <2> HIDE DEF to
  <2> QED
    BY <1>2, <2>1, <2>2, HandlerWalks DEF Connect, OnChannel, Writing
<1>3. CASE Disconnect(c)
  <2> DEFINE to == Finally(c)
  <2>1. /\ to \in Handler /\ to.pc = "closing" /\ to.subscribed = conn[c].subscribed
    BY <1>1 DEF Finally, Handler, HandlerSteps
  <2>2. conn[c].pc = "open" /\ conn' = [conn EXCEPT ![c] = to]
    BY <1>3 DEF Disconnect, Upon
  <2> HIDE DEF to
  <2> QED
    BY <1>3, <2>1, <2>2, HandlerWalks DEF Disconnect, OnChannel, Writing
<1>4. CASE StartCleanup(c)
  <2>1. CASE deliver[c] = "failed"
    <3> DEFINE to == [Away EXCEPT !.pc = "aborted", !.ending = TRUE]
    <3>1. to \in Handler /\ to.pc = "aborted"
      BY DEF Away, Handler, HandlerSteps
    <3>2. conn[c].pc = "closing" /\ conn' = [conn EXCEPT ![c] = to]
      BY <1>4, <2>1 DEF StartCleanup, End, Upon
    <3> HIDE DEF to
    <3> QED
      BY <1>4, <3>1, <3>2, HandlerWalks DEF StartCleanup, OnChannel, Writing
  <2>2. CASE deliver[c] # "failed"
    <3> DEFINE to == [conn[c] EXCEPT !.pc = "cleanup"]
    <3>1. to \in Handler /\ to.pc = "cleanup" /\ to.subscribed = conn[c].subscribed
      BY <1>1 DEF Handler, HandlerSteps
    <3>2. conn[c].pc = "closing" /\ conn' = [conn EXCEPT ![c] = to]
      BY <1>1, <1>4, <2>2 DEF StartCleanup, To, Upon
    <3> HIDE DEF to
    <3> QED
      BY <1>4, <3>1, <3>2, HandlerWalks DEF StartCleanup, OnChannel, Writing
  <2> QED
    BY <2>1, <2>2
<1>5. CASE CleanNext(c)
  <2>1. CASE conn[c].subscribed = {}
    <3> DEFINE to == [Away EXCEPT !.pc = "gone", !.ending = TRUE]
    <3>1. to \in Handler /\ to.pc = "gone" /\ to.subscribed = {}
      BY DEF Away, Handler, HandlerSteps
    <3>2. conn[c].pc = "cleanup" /\ conn' = [conn EXCEPT ![c] = to]
      BY <1>5, <2>1 DEF CleanNext, End, Upon
    <3> HIDE DEF to
    <3> QED
      BY <1>5, <2>1, <3>1, <3>2, HandlerWalks DEF CleanNext, OnChannel, Writing
  <2>2. CASE conn[c].subscribed # {}
    <3>1. PICK ch \in conn[c].subscribed :
            conn' = [conn EXCEPT ![c].pc = "drop", ![c].channel = ch,
                                 ![c].subscribed = @ \ {ch}]
      BY <1>5, <2>2 DEF CleanNext
    <3> DEFINE to == [conn[c] EXCEPT !.pc = "drop", !.channel = ch, !.subscribed = @ \ {ch}]
    <3>2. /\ to \in Handler /\ to.pc = "drop" /\ to.channel = ch /\ ch \in Channels
          /\ to.subscribed = conn[c].subscribed \ {ch}
      BY <1>1 DEF Handler, HandlerSteps
    <3>3. conn[c].pc = "cleanup" /\ conn' = [conn EXCEPT ![c] = to]
      BY <1>1, <1>5, <3>1 DEF CleanNext, Upon
    <3> HIDE DEF to
    <3> QED
      BY <1>5, <3>2, <3>3, HandlerWalks DEF CleanNext, OnChannel, Writing
  <2> QED
    BY <2>1, <2>2
<1>6. ASSUME NEW ch \in Wanted[c], Subscribe(c, ch) PROVE RealtimeInv'
  <2> DEFINE to == [conn[c] EXCEPT !.pc = "add", !.channel = ch]
  <2>1. /\ to \in Handler /\ to.pc = "add" /\ to.channel = ch /\ ch \in Channels
        /\ to.subscribed = conn[c].subscribed
    BY <1>1 DEF Handler, HandlerSteps
  <2>2. conn[c].pc = "open" /\ conn' = [conn EXCEPT ![c] = to]
    BY <1>1, <1>6 DEF Subscribe, Upon
  <2> HIDE DEF to
  <2> QED
    BY <1>6, <2>1, <2>2, HandlerWalks DEF Subscribe, OnChannel, Writing
<1>7. ASSUME NEW ch \in Wanted[c], Unsubscribe(c, ch) PROVE RealtimeInv'
  <2>1. PICK rest : rest = conn[c].subscribed \ {ch}
    OBVIOUS
  <2> DEFINE to == [conn[c] EXCEPT !.pc = "drop", !.channel = ch, !.subscribed = rest]
  <2>2. /\ to \in Handler /\ to.pc = "drop" /\ to.channel = ch /\ ch \in Channels
        /\ to.subscribed = conn[c].subscribed \ {ch}
    BY <1>1, <2>1 DEF Handler, HandlerSteps
  <2>3. conn[c].pc = "open"
    BY <1>7 DEF Unsubscribe, Upon
  <2>4. conn' = [conn EXCEPT ![c].pc = "drop", ![c].channel = ch, ![c].subscribed = rest]
    BY <1>7, <2>1 DEF Unsubscribe
  <2>5. conn' = [conn EXCEPT ![c] = to]
    BY <2>4
  <2> HIDE DEF to
  <2> QED
    BY <1>7, <2>2, <2>3, <2>5, HandlerWalks DEF Unsubscribe, OnChannel, Writing
<1> QED
  BY <1>2, <1>3, <1>4, <1>5, <1>6, <1>7

\* The writes to Redis that end without a change of listeners: the last leaver's,
\* and those of a handler that is cut short.
LEMMA WriteUnsubscribeStep ==
  ASSUME RealtimeInv, NEW c \in Connections, WriteUnsubscribe(c)
  PROVE  RealtimeInv'
<1> DEFINE ch == conn[c].channel
<1> DEFINE to == [conn[c] EXCEPT !.pc = "leave"]
<1>1. conn[c] \in Handler /\ conn[c].pc = "unsubscribing"
  BY DEF RealtimeInv, BrokerType, WriteUnsubscribe, Upon
<1>2. ch \in Channels /\ local[ch] = {} /\ lock = c
  BY <1>1 DEF RealtimeInv, LockGuardsWriting, OnChannel, Writing, Upon
<1>3. /\ to \in Handler /\ to.pc = "leave" /\ to.channel = ch
      /\ to.subscribed = conn[c].subscribed
  BY <1>1 DEF Handler, HandlerSteps
<1>4. conn' = [conn EXCEPT ![c] = to]
  BY <1>1 DEF WriteUnsubscribe, To
<1>5. /\ commands' \in Seq(Command)
      /\ \A d \in Channels \ {ch} : Subscribed(d)' <=> Subscribed(d)
  BY <1>2, WriteDecides DEF RealtimeInv, BrokerType, WriteUnsubscribe
<1>6. ListenersAreFed'
  BY <1>2, <1>5 DEF RealtimeInv, ListenersAreFed, WriteUnsubscribe
<1>7. lock' = Nobody /\ Nobody \notin Connections /\ UNCHANGED <<local, presence, orphans>>
  BY RealtimeAssumption DEF WriteUnsubscribe
<1> HIDE DEF to
<1> QED
  BY <1>1, <1>2, <1>3, <1>4, <1>5, <1>6, <1>7, HandlerMoves
     DEF AccountsForListening, AccountsForViewing, Upon, OnChannel, Writing

LEMMA InterruptStep ==
  ASSUME RealtimeInv, NEW c \in Connections, Interrupt(c)
  PROVE  RealtimeInv'
<1> DEFINE ch == conn[c].channel
<1> DEFINE to == Finally(c)
<1>1. conn[c] \in Handler /\ conn[c].pc \notin {"away", "gone", "aborted"}
  BY DEF RealtimeInv, BrokerType, Interrupt, Running
<1>2. /\ to \in Handler /\ to.pc = "closing" /\ to.subscribed = conn[c].subscribed
  BY <1>1 DEF Finally, Handler, HandlerSteps
<1>3. conn' = [conn EXCEPT ![c] = to]
  BY DEF Interrupt
<1>4. commands' \in Seq(Command) /\ ListenersAreFed'
  <2>1. CASE commands' = commands
    BY <2>1, StillFed DEF RealtimeInv, BrokerType, Interrupt
  <2>2. CASE Upon(c, "subscribing") /\ Write("subscribe", ch)
    <3>1. PICK on \in Channels : on = ch
      BY <2>2 DEF RealtimeInv, LockGuardsWriting, OnChannel, Upon
    <3>2. commands \in Seq(Command) /\ subs' = subs /\ local' = local /\ ListenersAreFed
      BY DEF RealtimeInv, BrokerType, Interrupt
    <3>3. /\ commands' \in Seq(Command) /\ Subscribed(on)'
          /\ \A d \in Channels \ {on} : Subscribed(d)' <=> Subscribed(d)
      BY <2>2, <3>1, <3>2, WriteDecides
    <3>4. ASSUME NEW d \in Channels, local'[d] # {} PROVE Subscribed(d)'
      BY <3>2, <3>3, <3>4 DEF ListenersAreFed
    <3> QED
      BY <3>3, <3>4 DEF ListenersAreFed
  <2>3. CASE Upon(c, "unsubscribing") /\ Write("unsubscribe", ch)
    <3>1. ch \in Channels /\ local[ch] = {}
      BY <2>3 DEF RealtimeInv, LockGuardsWriting, OnChannel, Upon
    <3>2. /\ commands' \in Seq(Command)
          /\ \A d \in Channels \ {ch} : Subscribed(d)' <=> Subscribed(d)
      BY <2>3, <3>1, WriteDecides DEF RealtimeInv, BrokerType, Interrupt
    <3> QED
      BY <3>1, <3>2 DEF RealtimeInv, ListenersAreFed, Interrupt
  <2> QED
    BY <2>1, <2>2, <2>3 DEF Interrupt
<1>5. /\ lock' # c /\ \A x \in Connections \ {c} : lock' = x <=> lock = x
  BY RealtimeAssumption DEF Interrupt
<1>6. /\ orphans \subseteq orphans' /\ UNCHANGED <<local, presence>>
      /\ conn[c].pc \in {"drop", "unsubscribing", "leave"} =>
           <<c, conn[c].pc, ch>> \in orphans'
  BY DEF Interrupt
<1>7. conn[c].pc \in {"drop", "unsubscribing", "leave"} =>
        \E o \in orphans' : o[1] = c /\ o[3] = ch
  BY <1>6
<1>8. conn[c].pc = "drop" => <<c, "drop", ch>> \in orphans'
  BY <1>6
<1>9. \A d \in Channels : AccountsForListening(c, d) =>
        d \in to.subscribed \/ <<c, "drop", d>> \in orphans'
  BY <1>1, <1>2, <1>6, <1>8 DEF AccountsForListening, Upon
<1>10. \A d \in IncidentChannels : AccountsForViewing(c, d) =>
        d \in to.subscribed \/ \E o \in orphans' : o[1] = c /\ o[3] = d
  BY <1>1, <1>2, <1>6, <1>7 DEF AccountsForViewing, Upon
<1> HIDE DEF to
<1> QED
  BY <1>2, <1>3, <1>4, <1>5, <1>6, <1>9, <1>10, HandlerMoves DEF OnChannel, Writing

LEMMA CleanupFailsStep ==
  ASSUME RealtimeInv, NEW c \in Connections, CleanupFails(c)
  PROVE  RealtimeInv'
<1> DEFINE to == [Away EXCEPT !.pc = "aborted", !.ending = TRUE]
<1>1. to \in Handler /\ to.pc = "aborted"
  BY DEF Away, Handler, HandlerSteps
<1>2. conn' = [conn EXCEPT ![c] = to]
  BY DEF CleanupFails, End
<1>3. ListenersAreFed' /\ commands' \in Seq(Command)
  BY StillFed DEF RealtimeInv, BrokerType, CleanupFails
<1>4. /\ lock' # c /\ \A x \in Connections \ {c} : lock' = x <=> lock = x
      /\ orphans' = orphans /\ UNCHANGED <<local, presence>>
  BY RealtimeAssumption DEF CleanupFails
<1> HIDE DEF to
<1> QED
  BY <1>1, <1>2, <1>3, <1>4, HandlerMoves DEF OnChannel, Writing

-----------------------------------------------------------------------------
(* add_subscriber and remove_subscriber.                                   *)

\* A connection becomes a listener of a channel Redis relays, or soon will.
LEMMA ListenStep ==
  ASSUME RealtimeInv, NEW c \in Connections, conn[c].pc \in {"add", "subscribing"},
         Listen(c), UNCHANGED <<presence, orphans>>, commands' \in Seq(Command),
         \A d \in Channels : local[d] # {} \/ d = conn[c].channel => Subscribed(d)',
         lock \in {c, Nobody}, lock' = Nobody
  PROVE  RealtimeInv'
<1> DEFINE ch == conn[c].channel
<1> DEFINE to == [conn[c] EXCEPT !.subscribed = @ \union {ch},
                    !.pc = IF ch \in IncidentChannels THEN "arrive" ELSE "open",
                    !.channel = IF ch \in IncidentChannels THEN ch ELSE Nobody]
<1>1. conn[c] \in Handler /\ ch \in Channels
  BY DEF RealtimeInv, BrokerType, LockGuardsWriting, OnChannel
<1>2. /\ to \in Handler /\ to.subscribed = conn[c].subscribed \union {ch}
      /\ to.pc = IF ch \in IncidentChannels THEN "arrive" ELSE "open"
      /\ ch \in IncidentChannels => to.channel = ch
  BY <1>1, RealtimeAssumption DEF Handler, HandlerSteps
<1>3. conn' = [conn EXCEPT ![c] = to]
  <2>1. conn' = [conn EXCEPT ![c].subscribed = @ \union {ch},
                   ![c].pc = IF ch \in IncidentChannels THEN "arrive" ELSE "open",
                   ![c].channel = IF ch \in IncidentChannels THEN ch ELSE Nobody]
    BY DEF Listen
  <2>2. conn \in [Connections -> Handler]
    BY DEF RealtimeInv, BrokerType
  <2> HIDE DEF ch
  <2> QED
    BY <1>1, <2>1, <2>2
<1>4. local' = [local EXCEPT ![ch] = @ \union {c}]
  BY DEF Listen
<1>5. \A x \in Connections : conn'[x] = IF x = c THEN to ELSE conn[x]
  BY <1>3 DEF RealtimeInv, BrokerType
<1>6. \A d \in Channels : local'[d] = IF d = ch THEN local[d] \union {c} ELSE local[d]
  BY <1>1, <1>4 DEF RealtimeInv, BrokerType
<1> HIDE DEF to, ch
<1>7. BrokerType'
  BY <1>1, <1>2, <1>3, <1>4 DEF RealtimeInv, BrokerType, User
<1>8. LockGuardsWriting'
  <2>1. \A x \in Connections \ {c} : conn[x].pc \notin Writing /\ lock' # x
    BY RealtimeAssumption DEF RealtimeInv, LockGuardsWriting
  <2>2. to.pc \notin Writing /\ lock' # c
    BY <1>2, RealtimeAssumption DEF Writing
  <2>3. \A x \in Connections : conn'[x].pc \notin Writing /\ lock' # x
    BY <1>5, <2>1, <2>2
  <2> QED
    BY <1>1, <1>2, <1>5, <2>3 DEF RealtimeInv, LockGuardsWriting, Upon, Writing, OnChannel
<1>9. ListenersAreFed'
  BY <1>6 DEF ListenersAreFed, ch
<1>10. Accounted'
  <2>1. ASSUME NEW d \in Channels, NEW x \in local'[d] PROVE AccountsForListening(x, d)'
    <3>1. (x = c /\ d = ch) \/ x \in local[d]
      BY <1>6
    <3>2. CASE x = c /\ d = ch
      BY <1>2, <1>5, <3>2 DEF AccountsForListening
    <3>3. CASE x \in local[d]
      <4>1. AccountsForListening(x, d) /\ x \in Connections
        BY <3>3 DEF RealtimeInv, Accounted, BrokerType
      <4> QED
        BY <1>2, <1>5, <4>1 DEF AccountsForListening, Upon
    <3> QED
      BY <3>1, <3>2, <3>3
  <2>2. ASSUME NEW d \in IncidentChannels, NEW u \in presence'[d]
        PROVE  \E x \in Connections : User(x)' = u /\ AccountsForViewing(x, d)'
    <3>1. PICK x \in Connections : User(x) = u /\ AccountsForViewing(x, d)
      BY DEF RealtimeInv, Accounted
    <3>2. AccountsForViewing(x, d)'
      BY <1>2, <1>5, <3>1 DEF AccountsForViewing, Upon
    <3> QED
      BY <3>1, <3>2 DEF User
  <2>3. \A x \in Connections : Upon(x, "gone")' => conn'[x].subscribed = {}
    BY <1>2, <1>5 DEF RealtimeInv, Accounted, Upon
  <2> QED
    BY <2>1, <2>2, <2>3 DEF Accounted
<1> QED
  BY <1>7, <1>8, <1>9, <1>10 DEF RealtimeInv

LEMMA AddSubscriberStep ==
  ASSUME RealtimeInv, NEW c \in Connections, AddSubscriber(c)
  PROVE  RealtimeInv'
<1> DEFINE ch == conn[c].channel
<1>1. conn[c] \in Handler /\ conn[c].pc = "add" /\ ch \in Channels /\ lock = Nobody
  BY DEF RealtimeInv, BrokerType, LockGuardsWriting, OnChannel, AddSubscriber, Upon, MayLock
<1>2. /\ UNCHANGED <<commands, subs, presence, orphans>>
      /\ \A d \in Channels : Subscribed(d)' <=> Subscribed(d)
  BY DEF AddSubscriber, Subscribed
<1>3. CASE local[ch] # {} /\ Listen(c) /\ lock' = lock
  BY <1>1, <1>2, <1>3, ListenStep DEF RealtimeInv, BrokerType, ListenersAreFed
<1>4. CASE local[ch] = {} /\ To(c, "subscribing") /\ local' = local /\ lock' = c
  <2> DEFINE to == [conn[c] EXCEPT !.pc = "subscribing"]
  <2>1. /\ to \in Handler /\ to.pc = "subscribing" /\ to.channel = ch
        /\ to.subscribed = conn[c].subscribed
    BY <1>1 DEF Handler, HandlerSteps
  <2>2. conn' = [conn EXCEPT ![c] = to]
    BY <1>1, <1>4 DEF To
  <2>3. ListenersAreFed' /\ commands' \in Seq(Command)
    BY <1>2, <1>4, StillFed DEF RealtimeInv, BrokerType
  <2>4. /\ lock' = c /\ \A x \in Connections \ {c} : lock' # x /\ lock # x
    BY <1>1, <1>4, RealtimeAssumption
  <2> HIDE DEF to
  <2> QED
    BY <1>1, <1>2, <1>4, <2>1, <2>2, <2>3, <2>4, HandlerMoves
       DEF AccountsForListening, AccountsForViewing, Upon, OnChannel, Writing
<1> QED
  BY <1>3, <1>4 DEF AddSubscriber

LEMMA WriteSubscribeStep ==
  ASSUME RealtimeInv, NEW c \in Connections, WriteSubscribe(c)
  PROVE  RealtimeInv'
<1>1. PICK ch \in Channels : conn[c].pc = "subscribing" /\ ch = conn[c].channel /\ lock = c
  BY DEF RealtimeInv, LockGuardsWriting, OnChannel, Writing, WriteSubscribe, Upon
<1>2. /\ commands \in Seq(Command) /\ Write("subscribe", ch) /\ subs' = subs
      /\ lock' = Nobody /\ Listen(c) /\ UNCHANGED <<presence, orphans>> /\ ListenersAreFed
  BY <1>1 DEF RealtimeInv, BrokerType, WriteSubscribe
<1>3. /\ commands' \in Seq(Command) /\ Subscribed(ch)'
      /\ \A d \in Channels \ {ch} : Subscribed(d)' <=> Subscribed(d)
  BY <1>2, WriteDecides
<1>4. \A d \in Channels : local[d] # {} \/ d = ch => Subscribed(d)'
  BY <1>2, <1>3 DEF ListenersAreFed
<1> QED
  BY <1>1, <1>2, <1>3, <1>4, ListenStep

LEMMA RemoveSubscriberStep ==
  ASSUME RealtimeInv, NEW c \in Connections, RemoveSubscriber(c)
  PROVE  RealtimeInv'
<1> DEFINE ch == conn[c].channel
<1>1. conn[c] \in Handler /\ conn[c].pc = "drop" /\ ch \in Channels /\ lock = Nobody
  BY DEF RealtimeInv, BrokerType, LockGuardsWriting, OnChannel, RemoveSubscriber, Upon, MayLock
<1>2. /\ UNCHANGED <<commands, subs, presence, orphans>>
      /\ local' = [local EXCEPT ![ch] = @ \ {c}]
      /\ \A d \in Channels : Subscribed(d)' <=> Subscribed(d)
  BY DEF RemoveSubscriber, Subscribed
<1>3. PICK pc \in {"leave", "unsubscribing"} :
        /\ conn' = [conn EXCEPT ![c].pc = pc]
        /\ pc = "unsubscribing" => local'[ch] = {} /\ lock' = c
        /\ pc = "leave" => lock' = lock
  BY DEF RemoveSubscriber, To
<1> DEFINE to == [conn[c] EXCEPT !.pc = pc]
<1>4. /\ to \in Handler /\ to.pc = pc /\ to.channel = ch /\ to.subscribed = conn[c].subscribed
  BY <1>1 DEF Handler, HandlerSteps
<1>5. conn' = [conn EXCEPT ![c] = to]
  BY <1>1, <1>3
<1>6. \A x \in Connections : conn'[x] = IF x = c THEN to ELSE conn[x]
  BY <1>5 DEF RealtimeInv, BrokerType
<1>7. \A d \in Channels : local'[d] = IF d = ch THEN local[d] \ {c} ELSE local[d]
  BY <1>1, <1>2 DEF RealtimeInv, BrokerType
<1> HIDE DEF to, ch
<1>8. BrokerType'
  BY <1>1, <1>2, <1>4, <1>5 DEF RealtimeInv, BrokerType, User
<1>9. LockGuardsWriting'
  <2>1. \A x \in Connections : conn[x].pc \notin Writing /\ lock # x
    BY <1>1, RealtimeAssumption DEF RealtimeInv, LockGuardsWriting
  <2>2. \A x \in Connections : lock' = x <=> x = c /\ pc = "unsubscribing"
    BY <1>3, <2>1
  <2>3. \A x \in Connections \ {c} : conn'[x] = conn[x] /\ ~Upon(x, "unsubscribing")
    BY <1>6, <2>1 DEF Upon, Writing
  <2>4. \A x \in Connections : conn'[x].pc \in Writing <=> lock' = x
    BY <1>3, <1>4, <1>6, <2>1, <2>2, <2>3 DEF Writing
  <2>5. conn'[c].channel = ch /\ conn'[c].pc = pc
    BY <1>4, <1>6
  <2> QED
    BY <1>1, <1>3, <2>3, <2>4, <2>5
       DEF RealtimeInv, LockGuardsWriting, Upon, OnChannel
<1>10. ListenersAreFed'
  <2>1. \A d \in Channels : local'[d] \subseteq local[d]
    BY <1>7
  <2> QED
    BY <1>2, <2>1 DEF RealtimeInv, ListenersAreFed
<1>11. Accounted'
  <2>1. ASSUME NEW d \in Channels, NEW x \in local'[d] PROVE AccountsForListening(x, d)'
    <3>1. x \in local[d] /\ ~(x = c /\ d = ch)
      BY <1>7
    <3>2. AccountsForListening(x, d) /\ x \in Connections
      BY <3>1 DEF RealtimeInv, Accounted, BrokerType
    <3> QED
      BY <1>1, <1>2, <1>4, <1>6, <3>1, <3>2 DEF AccountsForListening, Upon, ch
  <2>2. ASSUME NEW d \in IncidentChannels, NEW u \in presence'[d]
        PROVE  \E x \in Connections : User(x)' = u /\ AccountsForViewing(x, d)'
    <3>1. PICK x \in Connections : User(x) = u /\ AccountsForViewing(x, d)
      BY <1>2 DEF RealtimeInv, Accounted
    <3>2. AccountsForViewing(x, d)'
      BY <1>1, <1>2, <1>4, <1>6, <3>1 DEF AccountsForViewing, Upon, ch
    <3> QED
      BY <3>1, <3>2 DEF User
  <2>3. \A x \in Connections : Upon(x, "gone")' => conn'[x].subscribed = {}
    BY <1>4, <1>6 DEF RealtimeInv, Accounted, Upon
  <2> QED
    BY <2>1, <2>2, <2>3 DEF Accounted
<1> QED
  BY <1>8, <1>9, <1>10, <1>11 DEF RealtimeInv

-----------------------------------------------------------------------------
(* Presence.                                                               *)

LEMMA ArriveStep ==
  ASSUME RealtimeInv, NEW c \in Connections, Arrive(c)
  PROVE  RealtimeInv'
<1> DEFINE ch == conn[c].channel
<1> DEFINE to == [conn[c] EXCEPT !.pc = "open", !.channel = Nobody]
<1>1. /\ conn[c] \in Handler /\ conn[c].pc = "arrive"
      /\ ch \in conn[c].subscribed /\ ch \in IncidentChannels
  BY DEF RealtimeInv, BrokerType, LockGuardsWriting, Arrive, Upon
<1>2. /\ to \in Handler /\ to.pc = "open" /\ to.subscribed = conn[c].subscribed
  BY <1>1 DEF Handler, HandlerSteps
<1>3. conn' = [conn EXCEPT ![c] = to]
  BY <1>1 DEF Arrive, Back, RealtimeInv, BrokerType
<1>4. presence' = [presence EXCEPT ![ch] = @ \union {User(c)}]
  BY DEF Arrive
<1>5. UNCHANGED <<brokerVars, orphans>>
  BY DEF Arrive
<1>6. \A x \in Connections : conn'[x] = IF x = c THEN to ELSE conn[x]
  BY <1>3 DEF RealtimeInv, BrokerType
<1>7. \A d \in IncidentChannels : presence'[d] = IF d = ch THEN presence[d] \union {User(c)}
                                                 ELSE presence[d]
  BY <1>1, <1>4 DEF RealtimeInv, BrokerType
<1> HIDE DEF to, ch
<1>8. BrokerType'
  BY <1>1, <1>2, <1>3, <1>4, <1>5 DEF RealtimeInv, BrokerType, User, brokerVars
<1>9. LockGuardsWriting'
  BY <1>1, <1>2, <1>5, <1>6 DEF RealtimeInv, LockGuardsWriting, Upon, Writing, OnChannel, brokerVars
<1>10. ListenersAreFed'
  BY <1>5, StillFed DEF RealtimeInv, brokerVars
<1>11. Accounted'
  <2>1. ASSUME NEW d \in Channels, NEW x \in local'[d] PROVE AccountsForListening(x, d)'
    <3>1. AccountsForListening(x, d) /\ x \in Connections
      BY <1>5 DEF RealtimeInv, Accounted, BrokerType, brokerVars
    <3> QED
      BY <1>1, <1>2, <1>5, <1>6, <3>1 DEF AccountsForListening, Upon
  <2>2. ASSUME NEW d \in IncidentChannels, NEW u \in presence'[d]
        PROVE  \E x \in Connections : User(x)' = u /\ AccountsForViewing(x, d)'
    <3>1. CASE u \in presence[d]
      <4>1. PICK x \in Connections : User(x) = u /\ AccountsForViewing(x, d)
        BY <3>1 DEF RealtimeInv, Accounted
      <4>2. AccountsForViewing(x, d)'
        BY <1>1, <1>2, <1>5, <1>6, <4>1 DEF AccountsForViewing, Upon
      <4> QED
        BY <4>1, <4>2 DEF User
    <3>2. CASE d = ch /\ u = User(c)
      <4>1. AccountsForViewing(c, d)'
        BY <1>1, <1>2, <1>6, <3>2 DEF AccountsForViewing
      <4> QED
        BY <3>2, <4>1 DEF User
    <3> QED
      BY <1>7, <3>1, <3>2
  <2>3. \A x \in Connections : Upon(x, "gone")' => conn'[x].subscribed = {}
    BY <1>2, <1>6 DEF RealtimeInv, Accounted, Upon
  <2> QED
    BY <2>1, <2>2, <2>3 DEF Accounted
<1> QED
  BY <1>8, <1>9, <1>10, <1>11 DEF RealtimeInv

LEMMA LeaveStep ==
  ASSUME RealtimeInv, NEW c \in Connections, Leave(c)
  PROVE  RealtimeInv'
<1> DEFINE ch == conn[c].channel
<1> DEFINE next == IF conn[c].ending THEN "cleanup" ELSE "open"
<1> DEFINE to == [conn[c] EXCEPT !.pc = next, !.channel = Nobody]
<1>1. conn[c] \in Handler /\ conn[c].pc = "leave"
  BY DEF RealtimeInv, BrokerType, Leave, Upon
<1>2. /\ to \in Handler /\ to.pc \in {"cleanup", "open"} /\ to.subscribed = conn[c].subscribed
  BY <1>1 DEF Handler, HandlerSteps
<1>3. conn' = [conn EXCEPT ![c] = to]
  BY <1>1 DEF Leave, Back, RealtimeInv, BrokerType
<1>4. presence' = IF ch \in IncidentChannels
                    THEN [presence EXCEPT ![ch] = @ \ {User(c)}] ELSE presence
  BY DEF Leave
<1>5. UNCHANGED <<brokerVars, orphans>>
  BY DEF Leave
<1>6. \A x \in Connections : conn'[x] = IF x = c THEN to ELSE conn[x]
  BY <1>3 DEF RealtimeInv, BrokerType
<1>7. \A d \in IncidentChannels : presence'[d] = IF d = ch THEN presence[d] \ {User(c)}
                                                 ELSE presence[d]
  BY <1>4 DEF RealtimeInv, BrokerType
<1> HIDE DEF to, ch, next
<1>8. BrokerType'
  BY <1>1, <1>2, <1>3, <1>4, <1>5 DEF RealtimeInv, BrokerType, User, brokerVars
<1>9. LockGuardsWriting'
  BY <1>1, <1>2, <1>5, <1>6 DEF RealtimeInv, LockGuardsWriting, Upon, Writing, OnChannel, brokerVars
<1>10. ListenersAreFed'
  BY <1>5, StillFed DEF RealtimeInv, brokerVars
<1>11. Accounted'
  <2>1. ASSUME NEW d \in Channels, NEW x \in local'[d] PROVE AccountsForListening(x, d)'
    <3>1. AccountsForListening(x, d) /\ x \in Connections
      BY <1>5 DEF RealtimeInv, Accounted, BrokerType, brokerVars
    <3> QED
      BY <1>1, <1>2, <1>5, <1>6, <3>1 DEF AccountsForListening, Upon
  <2>2. ASSUME NEW d \in IncidentChannels, NEW u \in presence'[d]
        PROVE  \E x \in Connections : User(x)' = u /\ AccountsForViewing(x, d)'
    <3>1. u \in presence[d] /\ ~(d = ch /\ u = User(c))
      BY <1>7
    <3>2. PICK x \in Connections : User(x) = u /\ AccountsForViewing(x, d)
      BY <3>1 DEF RealtimeInv, Accounted
    <3>3. AccountsForViewing(x, d)'
      BY <1>1, <1>2, <1>5, <1>6, <3>1, <3>2 DEF AccountsForViewing, Upon, ch
    <3> QED
      BY <3>2, <3>3 DEF User
  <2>3. \A x \in Connections : Upon(x, "gone")' => conn'[x].subscribed = {}
    BY <1>2, <1>6 DEF RealtimeInv, Accounted, Upon
  <2> QED
    BY <2>1, <2>2, <2>3 DEF Accounted
<1> QED
  BY <1>8, <1>9, <1>10, <1>11 DEF RealtimeInv

\* No handler moves, and who is a viewer is nobody new, or one who has the channel.
LEMMA HandlersStand ==
  ASSUME RealtimeInv, UNCHANGED <<conn, local, lock, orphans>>,
         commands' \in Seq(Command), ListenersAreFed',
         DOMAIN presence' = IncidentChannels,
         presence' = [d \in IncidentChannels |-> presence'[d]],
         \A d \in IncidentChannels : \A u \in presence'[d] :
           \/ u \in presence[d]
           \/ \E c \in Connections : User(c) = u /\ d \in conn[c].subscribed
  PROVE  RealtimeInv'
<1>1. \A d \in IncidentChannels : presence'[d] \subseteq {User(c) : c \in Connections}
  BY DEF RealtimeInv, BrokerType
<1>2. BrokerType'
  BY <1>1 DEF RealtimeInv, BrokerType, User
<1>3. LockGuardsWriting'
  BY DEF RealtimeInv, LockGuardsWriting, Upon
<1>4. ASSUME NEW d \in IncidentChannels, NEW u \in presence'[d]
      PROVE  \E x \in Connections : User(x)' = u /\ AccountsForViewing(x, d)'
  <2>1. PICK x \in Connections : User(x) = u /\ AccountsForViewing(x, d)
    BY DEF RealtimeInv, Accounted, AccountsForViewing
  <2> QED
    BY <2>1 DEF AccountsForViewing, Upon, User
<1>5. Accounted'
  BY <1>4 DEF RealtimeInv, Accounted, AccountsForListening, Upon
<1> QED
  BY <1>2, <1>3, <1>5 DEF RealtimeInv

LEMMA RealtimeStep == RealtimeInv /\ [RealtimeNext]_rtVars => RealtimeInv'
<1> SUFFICES ASSUME RealtimeInv, [RealtimeNext]_rtVars PROVE RealtimeInv'
  OBVIOUS
<1> USE DEF sockVars, brokerVars
<1>1. /\ presence \in [IncidentChannels -> SUBSET {User(c) : c \in Connections}]
      /\ commands \in Seq(Command) /\ ListenersAreFed
  BY DEF RealtimeInv, BrokerType
<1>2. ASSUME UNCHANGED <<conn, brokerVars, presence, orphans>> PROVE RealtimeInv'
  BY <1>1, <1>2, StillFed, HandlersStand
<1>3. CASE UNCHANGED rtVars
  BY <1>2, <1>3 DEF rtVars
<1>4. ASSUME NEW t \in Tickets, IssueTicket(t) \/ ExpireTicket(t) PROVE RealtimeInv'
  BY <1>2, <1>4 DEF IssueTicket, ExpireTicket
<1>5. ASSUME NEW c \in Connections, Ping(c) PROVE RealtimeInv'
  <2>1. presence' = [ch \in IncidentChannels |->
          presence[ch] \union (IF ch \in conn[c].subscribed THEN {User(c)} ELSE {})]
    BY <1>5 DEF Ping
  <2>2. UNCHANGED <<conn, local, lock, commands, subs, orphans>>
    BY <1>5 DEF Ping
  <2>3. \A d \in IncidentChannels : \A u \in presence'[d] :
           \/ u \in presence[d]
           \/ \E x \in Connections : User(x) = u /\ d \in conn[x].subscribed
    BY <2>1
  <2>4. DOMAIN presence' = IncidentChannels
        /\ presence' = [d \in IncidentChannels |-> presence'[d]]
    BY <2>1
  <2> QED
    BY <1>1, <2>2, <2>3, <2>4, StillFed, HandlersStand
<1>6. ASSUME NEW c \in Connections, HangUp(c) PROVE RealtimeInv'
  BY <1>2, <1>6 DEF HangUp
<1>7. ASSUME NEW ch \in Channels, Relay(ch) PROVE RealtimeInv'
  BY <1>2, <1>7 DEF Relay
<1>8. CASE Drain
  BY <1>2, <1>8 DEF Drain
<1>9. ASSUME NEW ch \in IncidentChannels, Lapse(ch) PROVE RealtimeInv'
  <2>1. PICK u : presence' = [presence EXCEPT ![ch] = @ \ {u}]
    BY <1>9 DEF Lapse
  <2>2. UNCHANGED <<conn, local, lock, commands, subs, orphans>>
    BY <1>9 DEF Lapse
  <2>3. DOMAIN presence' = IncidentChannels
        /\ presence' = [d \in IncidentChannels |-> presence'[d]]
        /\ \A d \in IncidentChannels : presence'[d] \subseteq presence[d]
    BY <1>1, <2>1
  <2> QED
    BY <1>1, <2>2, <2>3, StillFed, HandlersStand
<1>10. CASE RedisActs
  <2>1. /\ commands' \in Seq(Command)
        /\ \A d \in Channels : Subscribed(d)' <=> Subscribed(d)
    BY <1>1, <1>10, RedisFollows
  <2>2. UNCHANGED <<conn, local, lock, presence, orphans>>
    BY <1>10 DEF RedisActs
  <2>3. ListenersAreFed'
    BY <1>1, <2>1, <2>2 DEF ListenersAreFed
  <2>4. DOMAIN presence' = IncidentChannels
        /\ presence' = [d \in IncidentChannels |-> presence'[d]]
    BY <1>1, <2>2
  <2> QED
    BY <2>1, <2>2, <2>3, <2>4, HandlersStand
<1> QED
  BY <1>3, <1>4, <1>5, <1>6, <1>7, <1>8, <1>9, <1>10, HandlersWalk, WriteUnsubscribeStep,
     InterruptStep, CleanupFailsStep, AddSubscriberStep, WriteSubscribeStep,
     RemoveSubscriberStep, ArriveStep, LeaveStep DEF RealtimeNext, Step

(* What DepartedIsForgotten promises of a connection whose cleanup ran to    *)
(* its end (api/realtime_ws.py, _cleanup), and for good.                    *)
GoneIsForgotten == \A c \in Connections : Upon(c, "gone") => Forgotten(c)

LEMMA RealtimeInvForgets == RealtimeInv => GoneIsForgotten
<1> SUFFICES ASSUME RealtimeInv, NEW c \in Connections, Upon(c, "gone") PROVE Forgotten(c)
  BY DEF GoneIsForgotten
<1>1. conn[c].subscribed = {} /\ conn[c].pc = "gone"
  BY DEF RealtimeInv, Accounted, Upon
<1>2. ASSUME NEW ch \in Channels, c \in local[ch] PROVE <<c, "drop", ch>> \in orphans
  BY <1>1, <1>2 DEF RealtimeInv, Accounted, AccountsForListening, Upon
<1>3. ASSUME NEW ch \in IncidentChannels, User(c) \in presence[ch]
      PROVE  Watching(User(c), ch)
  BY <1>3 DEF RealtimeInv, Accounted, AccountsForViewing, Watching
<1> QED
  BY <1>2, <1>3 DEF Forgotten

LEMMA RealtimeInvHolds == RealtimeSpec => []RealtimeInv
BY RealtimeInitially, RealtimeStep, PTL DEF RealtimeSpec

(* Redis relays a channel that somebody listens to as soon as it has acted   *)
(* on what the broker wrote (services/realtime.py): whatever handlers do     *)
(* while others wait for the lock, are cancelled, or clean up.               *)
THEOREM ListenersStayFed == RealtimeSpec => []ListenersAreFed
<1>1. RealtimeInv => ListenersAreFed
  BY DEF RealtimeInv
<1> QED
  BY <1>1, RealtimeInvHolds, PTL

(* The safety half of DepartedIsForgotten, for any number of connections,    *)
(* tickets and channels: a cleaned-up connection listens to nothing, but for *)
(* unsubscribes that were interrupted, and its user is shown as a viewer     *)
(* only on account of another connection.                                    *)
THEOREM TheGoneAreForgotten == RealtimeSpec => []GoneIsForgotten
BY RealtimeInvHolds, RealtimeInvForgets, PTL

-----------------------------------------------------------------------------
(* THE WHOLE                                                               *)

\* A step of the application is a step of each part, or leaves it as it is.
LEMMA StepsAreOfTheParts ==
  [Next]_deskVars => /\ [RealtimeNext]_rtVars
                     /\ [DiscussionNext]_discussionVars
                     /\ [LimiterNext]_limiterVars
                     /\ [RollupNext]_rollupVars
                     /\ [CatalogNext]_catalogVars
BY DEF Next, deskVars

\* None of the parts is hindered by another: what Desk does is, for each of them,
\* a behaviour of its own specification.
THEOREM DeskRunsItsParts ==
  Spec => RealtimeSpec /\ DiscussionSpec /\ LimiterSpec /\ RollupSpec /\ CatalogSpec
BY StepsAreOfTheParts, PTL
   DEF Spec, Init, RealtimeSpec, DiscussionSpec, LimiterSpec, RollupSpec, CatalogSpec

\* The invariants of every part hold of the whole.
THEOREM DeskIsSound ==
  Spec => []( /\ ListenersAreFed /\ GoneIsForgotten
              /\ WalkSkipsNothing /\ DeletionIsFinal /\ AttachmentsAreStored
              /\ LimitIsExact
              /\ RollupCountsTheDay
              /\ CatalogHolds )
BY DeskRunsItsParts, ListenersStayFed, TheGoneAreForgotten, WalksSkipNothing, DeletionsAreFinal,
   AttachmentsStayStored, WindowIsExact, RowsCountTheDay, CatalogIsSound, PTL
===============================================================================
