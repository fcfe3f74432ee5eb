---------------------------------- MODULE Desk ----------------------------------
(***************************************************************************)
(* The parts of the application that keep state of their own: the broker   *)
(* and its sockets, discussions, the rate limiter, the nightly rollup and  *)
(* the catalogue.  None reads what another writes (a request calls the     *)
(* limiter before its handler, an event is published after its commit), so *)
(* their steps commute and a property of one holds of the whole if it      *)
(* holds whenever the others stand still.  A behaviour of this module is   *)
(* one part at work; its checks then cost the sum of the parts, not the    *)
(* product.                                                                *)
(***************************************************************************)
EXTENDS Realtime, Discussion, RateLimiter, Rollup, Catalog

VARIABLE part   \* the part at work

deskVars == <<rtVars, discussionVars, limiterVars, rollupVars, catalogVars, part>>

Parts == {"realtime", "discussion", "limiter", "rollup", "catalog"}

Init ==
  /\ part \in Parts
  /\ RealtimeInit
  /\ DiscussionInit
  /\ LimiterInit
  /\ RollupInit
  /\ CatalogInit

Next ==
  /\ UNCHANGED part
  /\ \/ /\ part = "realtime" /\ RealtimeNext
        /\ UNCHANGED <<discussionVars, limiterVars, rollupVars, catalogVars>>
     \/ /\ part = "discussion" /\ DiscussionNext
        /\ UNCHANGED <<rtVars, limiterVars, rollupVars, catalogVars>>
     \/ /\ part = "limiter" /\ LimiterNext
        /\ UNCHANGED <<rtVars, discussionVars, rollupVars, catalogVars>>
     \/ /\ part = "rollup" /\ RollupNext
        /\ UNCHANGED <<rtVars, discussionVars, limiterVars, catalogVars>>
     \/ /\ part = "catalog" /\ CatalogNext
        /\ UNCHANGED <<rtVars, discussionVars, limiterVars, rollupVars>>

\* The coroutines of the broker go on whatever the rest does; its fairness is the
\* only one a property needs.
Spec == Init /\ [][Next]_deskVars /\ RealtimeFairness
===============================================================================
