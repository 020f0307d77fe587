----------------------------- MODULE DataPlane -----------------------------
(***************************************************************************)
(* What the control plane reads and never writes: time and the scheduler's *)
(* queues and counters.  A workload is a script of situations, views as    *)
(* PressureSignals describes them, that the workers and submitters pass    *)
(* through while the control plane looks on.                               *)
(***************************************************************************)
EXTENDS Integers, Sequences

CONSTANTS Workloads   \* a sequence of records: script, a sequence of views; maxTime; and what the actors do

VARIABLES
    load,   \* which workload this behaviour has
    now,    \* time.Now, from 1: 0 is never
    pos     \* the situation the scheduler is in

dataVars == <<load, now, pos>>

Plan == Workloads[load]
Data == Plan.script[pos]

DataInit == load \in DOMAIN Workloads /\ now = 1 /\ pos = 1

\* Jobs are submitted, run and refused.
Work == pos < Len(Plan.script) /\ pos' = pos + 1 /\ UNCHANGED <<load, now>>
=============================================================================
