----------------------------- MODULE MCScheduler -----------------------------
(***************************************************************************)
(* Scheduler for TLC: keys, lanes and quotas of the small instances.       *)
(***************************************************************************)
EXTENDS Scheduler, TLC

CONSTANTS j1, j2, j3, j4

\* j1, j2 and j4 are routed to shard 0, j3 to shard 1 (if there are two).
MCKeyHash == [j \in Jobs |-> IF j = j3 THEN 1 ELSE 2]
\* j2 is in the last lane, the others are in lane 0.
MCJobLane == [j \in Jobs |-> IF j = j2 THEN NumLanes - 1 ELSE 0]

OneEach == {[l \in Lanes |-> 1]}
OneOrTwoEach == {[l \in Lanes |-> 1], [l \in Lanes |-> 2]}

WorkerSymmetry == Permutations(Workers)
=============================================================================
