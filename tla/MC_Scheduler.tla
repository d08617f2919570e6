---------------------------- MODULE MC_Scheduler ----------------------------
(***************************************************************************)
(* Two threads and a family creation that share one line of the cache.       *)
(***************************************************************************)
EXTENDS Scheduler, TLC

CONSTANTS t1, t2, a1, a2

\* The bank selector of a cache with one set.
OneSet == [a \in Addr |-> 0]
=============================================================================
