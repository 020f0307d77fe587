--------------------------- MODULE ControlPlane ---------------------------
(***************************************************************************)
(* The control plane of a queue: quota updates, the adaptive controller    *)
(* and the autoscaling signal, over one data plane and one clock.          *)
(***************************************************************************)
EXTENDS AdaptiveQuota, ScaleSignal

vars == <<dataVars, quotaVars, scaleVars>>

Init == DataInit /\ AdaptiveInit /\ ScaleInit

Next ==
    \/ Work /\ UNCHANGED <<quotaVars, scaleVars>>
    \/ Tick /\ UNCHANGED scaleVars
    \/ QuotaNext /\ UNCHANGED <<dataVars, scaleVars>>
    \/ ScaleNext /\ UNCHANGED <<dataVars, quotaVars>>

\* Goroutines that can run do, and select takes a ready case at random, so that ctx.Done is taken in the end.
\* The controller can run unless it waits in select; this is WF_vars of its steps with ENABLED spelled out.
Alone(A) == A /\ UNCHANGED <<dataVars, scaleVars>>
ControllerRuns == []<>(ctl.loop \in {"none", "select", "exited"}) \/ []<><<Alone(ControllerStep)>>_vars
Fairness ==
    /\ WF_vars(Alone(StartStep)) /\ SF_vars(Alone(LoopExit)) /\ ControllerRuns
    /\ \A s \in Stoppers : WF_vars(Alone(StopStep(s)))

Spec == Init /\ [][Next]_vars /\ Fairness
=============================================================================
