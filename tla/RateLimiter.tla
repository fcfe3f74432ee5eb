----------------------------- MODULE RateLimiter -----------------------------
(***************************************************************************)
(* The sliding window of one bucket and identity.  A request takes its     *)
(* time from the clock of the host it runs on, is counted by one atomic    *)
(* pipeline and, when it is one too many, taken out again by a later call. *)
(***************************************************************************)
EXTENDS Naturals, FiniteSets

CONSTANTS
  Requests, Limit, Window,
  MaxSkew,   \* how far a host's clock may be from that of Redis, either way
  MaxTime    \* bound on the clock

ASSUME RateLimiterAssumption ==
  /\ IsFiniteSet(Requests)
  /\ Limit \in Nat /\ Window \in Nat \ {0} /\ MaxSkew \in Nat /\ MaxTime \in Nat

VARIABLES
  clock,     \* that of Redis, which drops keys by it
  zset,      \* the requests in the sorted set; a member's score is its stamp
  expires,   \* when Redis drops the key
  attempt,   \* [pc, stamp] of each request
  gone,      \* history: requests that were removed as old, or with the key
  late,      \* history: requests that ran when part of their window was gone
  spurious   \* history: requests that ran while one that was not admitted, but
             \* rejected or let through by an error, was counted

limiterVars == <<clock, zset, expires, attempt, gone, late, spurious>>

LimiterInit ==
  /\ clock = Window
  /\ zset = {}
  /\ expires = 0
  /\ attempt = [r \in Requests |-> [pc |-> "new", stamp |-> 0]]
  /\ gone = {}
  /\ late = {} /\ spurious = {}

Stamp(r) == attempt[r].stamp
Are(pc) == {r \in Requests : attempt[r].pc = pc}
Becomes(r, pc) == attempt' = [attempt EXCEPT ![r].pc = pc]

Tick ==
  /\ clock < MaxTime
  /\ clock' = clock + 1
  /\ UNCHANGED <<zset, expires, attempt, gone, late, spurious>>

\* time.time() of the host: ahead of the others, behind them, or set back.
TakeTime(r) ==
  /\ attempt[r].pc = "new"
  /\ \E now \in 0 .. clock + MaxSkew :
       /\ clock <= now + MaxSkew
       /\ attempt' = [attempt EXCEPT ![r] = [pc |-> "stamped", stamp |-> now]]
  /\ UNCHANGED <<clock, zset, expires, gone, late, spurious>>

\* A bug: the newcomer is not counted.
OverBudgetByOne(S) == Cardinality(S) > Limit + 1

InWindow(s, now) == s + Window > now
OverBudget(S) == Cardinality(S) > Limit

Kept(r) == {q \in zset : InWindow(Stamp(q), Stamp(r))}

\* The four commands of the transaction.
Count(r) ==
  /\ zset' = Kept(r) \union {r}
  /\ expires' = clock + Window
  /\ gone' = gone \union (zset \ Kept(r))

Pipeline(r) ==
  /\ attempt[r].pc = "stamped"
  /\ Count(r)
  /\ Becomes(r, IF OverBudget(Kept(r) \union {r}) THEN "over" ELSE "admitted")
  /\ late' = IF \E q \in gone \intersect Are("admitted") : InWindow(Stamp(q), Stamp(r))
                THEN late \union {r} ELSE late
  /\ spurious' = IF Kept(r) \subseteq Are("admitted") THEN spurious
                 ELSE spurious \union {r}
  /\ UNCHANGED clock

Remove(r) ==
  /\ attempt[r].pc = "over"
  /\ zset' = zset \ {r}
  /\ Becomes(r, "rejected")
  /\ UNCHANGED <<clock, expires, gone, late, spurious>>

\* The limiter fails open; what it had sent may have been done or not.
RedisError(r) ==
  /\ attempt[r].pc \in {"stamped", "over"}
  /\ Becomes(r, "open")
  /\ \/ UNCHANGED <<zset, expires, gone>>
     \/ attempt[r].pc = "stamped" /\ Count(r)
     \/ /\ attempt[r].pc = "over"
        /\ zset' = zset \ {r}
        /\ UNCHANGED <<expires, gone>>
  /\ UNCHANGED <<clock, late, spurious>>

DropKey ==
  /\ zset # {}
  /\ clock >= expires
  /\ zset' = {}
  /\ gone' = gone \union zset
  /\ UNCHANGED <<clock, expires, attempt, late, spurious>>

LimiterNext ==
  \/ Tick
  \/ \E r \in Requests : TakeTime(r) \/ Pipeline(r) \/ Remove(r) \/ RedisError(r)
  \/ DropKey

LimiterSpec == LimiterInit /\ [][LimiterNext]_limiterVars

-----------------------------------------------------------------------------
\* The admitted requests that a window which ends with r's holds, and those it
\* could have held when r ran.
Admitted(r) == {q \in Are("admitted") : Stamp(q) + Window > Stamp(r)}
Before(r) == {q \in Admitted(r) : Stamp(q) <= Stamp(r)}

(* "A true sliding window" without "boundary burst" (ratelimit.py): no      *)
(* window holds more than the limit of admitted requests, unless Redis      *)
(* failed or a request ran so long after the time it took that part of its  *)
(* window had been forgotten; and a request is rejected only if the limit   *)
(* was reached, unless one that was not admitted was counted.               *)
LimitIsExact ==
  /\ \A r \in Are("admitted") : Cardinality(Before(r) \ late) <= Limit
  /\ \A r \in Are("over") \union Are("rejected") :
       r \in spurious \/ Cardinality(Admitted(r)) >= Limit
===============================================================================
