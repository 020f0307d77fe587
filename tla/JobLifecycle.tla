---------------------------- MODULE JobLifecycle -----------------------------
(***************************************************************************)
(* What the scheduler promises about one job, with queues, shards, tokens  *)
(* and workers hidden: an accepted job waits, then runs once, then is      *)
(* gone.  A waiting job may be discarded without running only after the    *)
(* workers' context was cancelled.                                         *)
(***************************************************************************)
CONSTANT Jobs

VARIABLES
  phase,       \* where each job is: "out", "waiting" or "running"
  cancelled    \* the workers' context has been cancelled

vars == <<phase, cancelled>>

Init ==
  /\ phase = [j \in Jobs |-> "out"]
  /\ cancelled = FALSE

Accept(j) ==
  /\ phase[j] = "out"
  /\ phase' = [phase EXCEPT ![j] = "waiting"]
  /\ UNCHANGED cancelled

Run(j) ==
  /\ phase[j] = "waiting"
  /\ phase' = [phase EXCEPT ![j] = "running"]
  /\ UNCHANGED cancelled

Finish(j) ==
  /\ phase[j] = "running"
  /\ phase' = [phase EXCEPT ![j] = "out"]
  /\ UNCHANGED cancelled

\* A cancelled worker gives up the rest of its batch in one step.
Discard ==
  /\ cancelled
  /\ phase' \in [Jobs -> {"out", "waiting", "running"}]
  /\ \A j \in Jobs : phase'[j] # phase[j] => phase[j] = "waiting" /\ phase'[j] = "out"
  /\ UNCHANGED cancelled

Cancel ==
  /\ ~cancelled
  /\ cancelled' = TRUE
  /\ UNCHANGED phase

Next ==
  \/ \E j \in Jobs : Accept(j) \/ Run(j) \/ Finish(j)
  \/ Discard
  \/ Cancel

Spec == Init /\ [][Next]_vars
=============================================================================
