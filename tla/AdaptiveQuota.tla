--------------------------- MODULE AdaptiveQuota ---------------------------
(***************************************************************************)
(* The quota policy of a queue and those who change it: callers of         *)
(* UpdateQuotaPolicy and UpdateLaneQuota, and the adaptive controller,     *)
(* which Queue.Start starts and Queue.Stop stops (quota_policy.go,         *)
(* adaptive_quota_queue.go, queue.go, stop.go; internal/core/              *)
(* quota_policy.go, adaptive_quota_controller.go, adaptive_quota_signals.go)*)
(*                                                                         *)
(* A step ends where the code reads or writes what another goroutine       *)
(* writes.  Hooks, events and statistics of decisions are left out.        *)
(***************************************************************************)
EXTENDS QuotaEvaluation, PressureSignals, DataPlane, TLC

CONSTANTS
    Clients,            \* callers of the update functions; workload: ops[c]
    Controller,         \* the adaptive controller's goroutine
    Stoppers,           \* callers of Queue.Stop; workload: stoppers
    MaxLastDecisions    \* 16 in the code

ASSUME ControllerAssumption == Controller \notin Clients

\* An AdaptiveQuotaConfig and the lane policies beside it: flags and numbers, which New has yet to look at.
ASSUME AdaptiveAssumption ==
    LET flags == {"enabled", "inc", "dec"} IN
    \A n \in DOMAIN Workloads :
        LET c == Workloads[n].adaptive
            entries == Workloads[n].lanePolicies IN
        /\ DOMAIN c = DOMAIN DefaultAdaptiveQuotaConfig
        /\ \A f \in DOMAIN c : IF f \in flags THEN c[f] \in BOOLEAN ELSE c[f] \in Int
        /\ DOMAIN entries = 1..Len(entries)
        /\ \A i \in DOMAIN entries : entries[i].policy.min \in Int /\ entries[i].policy.max \in Int

VARIABLES
    sched,      \* Scheduler.state
    policy,     \* Scheduler.quotaPolicy: [version, default, lanes]
    call,       \* the update each writer is in the middle of
    start,      \* where the caller of Queue.Start is
    stop,       \* where each caller of Queue.Stop is
    ctl,        \* AdaptiveQuotaController: [cancel, cancelled, running, wg, loop, ticker]
    tick,       \* the locals of tick: [now, snap, decisions, next]
    state,      \* AdaptiveControllerState: [startedAt, lastAdjusted, lastDecisions, reasons]
    adjusted    \* history: the tick of the last adaptive change of a lane, 0 for none

quotaVars == <<sched, policy, call, start, stop, ctl, tick, state, adjusted>>

Writers == Clients \union {Controller}
Config == NormalizeAdaptiveQuotaConfig(Plan.adaptive)
Policies == resolveAdaptiveLanePolicies(Plan.lanePolicies, Plan.laneClass)

NoInput == [default |-> 1, lanes |-> <<>>]
NoCall == [pc |-> "idle", cas |-> FALSE, lane |-> "", quota |-> 0, expected |-> 0, input |-> NoInput]
ConditionalCall(lane, quota, expected) ==
    [pc |-> "read", cas |-> TRUE, lane |-> lane, quota |-> quota, expected |-> expected, input |-> NoInput]
NoTick == [now |-> 0, snap |-> <<>>, decisions |-> <<>>, next |-> 0]

\* New refuses a configuration that does not validate; initAdaptiveController builds the controller.
AdaptiveInit ==
    /\ ValidateAdaptiveQuotaPolicy(Plan.adaptive, Plan.lanePolicies)
    /\ sched = "created" /\ policy = snapshotFromRegistry
    /\ call = [p \in Writers |-> NoCall]
    /\ start = "idle"
    /\ stop = [s \in Stoppers |-> [pc |-> "idle", took |-> FALSE, afterStart |-> FALSE]]
    /\ ctl = [cancel |-> FALSE, cancelled |-> FALSE, running |-> FALSE, wg |-> 0, loop |-> "none", ticker |-> FALSE]
    /\ tick = NoTick
    /\ state = [startedAt |-> 0, lastAdjusted |-> [l \in Lanes |-> 0], lastDecisions |-> <<>>,
                reasons |-> [l \in Lanes |-> ""]]
    /\ adjusted = [l \in Lanes |-> 0]

-----------------------------------------------------------------------------
(* Updates of the quota policy. *)

Leave(p, pc) == call' = [call EXCEPT ![p].pc = pc]

\* UpdateLaneQuota: the version is read first.
UpdateLaneQuota(c) ==
    /\ Plan.ops[c].kind = "lane" /\ call[c].pc = "idle"
    /\ call' = [call EXCEPT ![c] = ConditionalCall(Plan.ops[c].lane, Plan.ops[c].quota, policy.version)]
    /\ UNCHANGED <<sched, policy, start, stop, ctl, tick, state, adjusted>>

\* updateLaneQuotaIfVersionInternal copies the active policy and changes one lane of the copy.
updateLaneQuotaIfVersionInternal(p) ==
    /\ call[p].pc = "read"
    /\ call' = [call EXCEPT ![p].pc = "check",
                            ![p].input = [default |-> policy.default,
                                           lanes |-> [l \in Lanes \union {call[p].lane} |->
                                                         IF l = call[p].lane THEN call[p].quota ELSE policy.lanes[l]]]]
    /\ UNCHANGED <<sched, policy, start, stop, ctl, tick, state, adjusted>>

UpdateQuotaPolicy(c) ==
    /\ Plan.ops[c].kind = "policy" /\ call[c].pc = "idle"
    /\ call' = [call EXCEPT ![c] = [NoCall EXCEPT !.pc = "check", !.input = Plan.ops[c].input]]
    /\ UNCHANGED <<sched, policy, start, stop, ctl, tick, state, adjusted>>

\* The input is validated and the scheduler's state read, under a lock that is given up again.
CheckUpdate(p) ==
    /\ call[p].pc = "check"
    /\ Leave(p, IF ~ValidQuotaPolicy(call[p].input) THEN "invalid" ELSE IF sched = "stopping" THEN "stopped" ELSE "publish")
    /\ UNCHANGED <<sched, policy, start, stop, ctl, tick, state, adjusted>>

\* Mutant: the version is not compared again under quotaMu.
publishQuotaPolicy_Blind(p) ==
    /\ call[p].pc = "publish" /\ Leave(p, "ok")
    /\ policy' = buildQuotaPolicySnapshot(policy.version + 1, call[p].input)
    /\ adjusted' = IF p = Controller THEN [adjusted EXCEPT ![call[p].lane] = tick.now] ELSE adjusted
    /\ UNCHANGED <<sched, start, stop, ctl, tick, state>>

\* Under quotaMu: compare the version, when the caller expects one, and publish the next one.
publishQuotaPolicy(p) ==
    /\ call[p].pc = "publish"
    /\ IF call[p].cas /\ policy.version # call[p].expected
       THEN Leave(p, "conflict") /\ UNCHANGED <<policy, adjusted>>
       ELSE /\ Leave(p, "ok")
            /\ policy' = buildQuotaPolicySnapshot(policy.version + 1, call[p].input)
            /\ adjusted' = IF p = Controller THEN [adjusted EXCEPT ![call[p].lane] = tick.now] ELSE adjusted
    /\ UNCHANGED <<sched, start, stop, ctl, tick, state>>

UpdateStep(p) == updateLaneQuotaIfVersionInternal(p) \/ CheckUpdate(p) \/ publishQuotaPolicy(p)

-----------------------------------------------------------------------------
(* Queue.Start: the scheduler, then the controller. *)

StartScheduler ==
    /\ Plan.start /\ start = "idle"
    /\ IF sched = "created" THEN sched' = "running" /\ start' = IF Config.enabled THEN "scheduler" ELSE "returned"
       ELSE start' = "failed" /\ UNCHANGED sched
    /\ UNCHANGED <<policy, call, stop, ctl, tick, state, adjusted>>

\* AdaptiveQuotaController.Start under c.mu, ...
StartController ==
    /\ start = "scheduler" /\ start' = "registered"
    /\ ctl' = [ctl EXCEPT !.cancel = TRUE]
    /\ state' = [state EXCEPT !.startedAt = now]
    /\ UNCHANGED <<sched, policy, call, stop, tick, adjusted>>

\* ... and after it: running, wg.Add and the goroutine.
LaunchLoop ==
    /\ start = "registered" /\ start' = "returned"
    /\ ctl' = [ctl EXCEPT !.running = TRUE, !.wg = 1, !.loop = "select", !.ticker = FALSE]
    /\ UNCHANGED <<sched, policy, call, stop, tick, state, adjusted>>

\* The context given to Start is cancelled.
CancelContext ==
    /\ Plan.cancel /\ start \in {"registered", "returned"} /\ Config.enabled /\ ~ctl.cancelled
    /\ ctl' = [ctl EXCEPT !.cancelled = TRUE]
    /\ UNCHANGED <<sched, policy, call, start, stop, tick, state, adjusted>>

StartStep == StartScheduler \/ StartController \/ LaunchLoop

-----------------------------------------------------------------------------
(* Queue.Stop: the controller, then the scheduler. *)

\* AdaptiveQuotaController.Stop takes the cancel function under c.mu ...
TakeCancel(s) ==
    /\ s \in Plan.stoppers /\ stop[s].pc = "idle"
    /\ stop' = [stop EXCEPT ![s] = [pc |-> IF Config.enabled THEN "check" ELSE "scheduler", took |-> ctl.cancel,
                                    afterStart |-> start = "returned"]]
    /\ ctl' = [ctl EXCEPT !.cancel = FALSE]
    /\ UNCHANGED <<sched, policy, call, start, tick, state, adjusted>>

\* Mutant: cancel is not called.
CancelLoop_Forgotten(s) ==
    /\ stop[s].pc = "check"
    /\ stop' = [stop EXCEPT ![s].pc = IF stop[s].took \/ ctl.running THEN "wait" ELSE "scheduler"]
    /\ UNCHANGED <<sched, policy, call, start, ctl, tick, state, adjusted>>

\* ... and looks at running and calls it without the lock.
CancelLoop(s) ==
    /\ stop[s].pc = "check"
    /\ stop' = [stop EXCEPT ![s].pc = IF stop[s].took \/ ctl.running THEN "wait" ELSE "scheduler"]
    /\ ctl' = [ctl EXCEPT !.cancelled = @ \/ stop[s].took]
    /\ UNCHANGED <<sched, policy, call, start, tick, state, adjusted>>

\* Mutant: Stop does not wait for the loop.
WaitLoop_Not(s) ==
    /\ stop[s].pc = "wait"
    /\ stop' = [stop EXCEPT ![s].pc = "scheduler"]
    /\ ctl' = [ctl EXCEPT !.running = FALSE]
    /\ UNCHANGED <<sched, policy, call, start, tick, state, adjusted>>

WaitLoop(s) ==
    /\ stop[s].pc = "wait" /\ ctl.wg = 0
    /\ stop' = [stop EXCEPT ![s].pc = "scheduler"]
    /\ ctl' = [ctl EXCEPT !.running = FALSE]
    /\ UNCHANGED <<sched, policy, call, start, tick, state, adjusted>>

\* Scheduler.Stop, whose waiting is Scheduler's matter.
StopScheduler(s) ==
    /\ stop[s].pc = "scheduler"
    /\ stop' = [stop EXCEPT ![s].pc = "returned"]
    /\ sched' = "stopping"
    /\ UNCHANGED <<policy, call, start, ctl, tick, state, adjusted>>

StopStep(s) == CancelLoop(s) \/ WaitLoop(s) \/ StopScheduler(s)

-----------------------------------------------------------------------------
(* The controller's loop. *)

LaneSignal(l, quota) ==
    LET ln == Data.lanes[l] IN
    [quota |-> quota, samples |-> ln.samples, waitMax |-> ln.waitMax,
     waitAvg |-> IF ln.samples = 0 THEN 0 ELSE ln.waitTotal \div ln.samples,
     runMax |-> ln.runMax, queueFull |-> ln.queueFull, shed |-> ln.overloadShed, reject |-> ln.overloadRejected,
     degrade |-> ln.overloadDegrade]

\* The ticker fires: buildAdaptiveSignalSnapshot reads pressure, counters and the policy's version.
ReadSignals ==
    /\ ctl.loop = "select" /\ ctl.ticker
    /\ ctl' = [ctl EXCEPT !.loop = "quotas", !.ticker = FALSE]
    /\ tick' = [NoTick EXCEPT !.now = now,
                              !.snap = [pressure |-> TotalDepthRatio(Data), version |-> policy.version,
                                        lanes |-> [l \in Lanes |-> LaneSignal(l, policy.lanes[l])]]]
    /\ UNCHANGED <<sched, policy, call, start, stop, state, adjusted>>

\* It reads the quotas last, and EvaluateAdaptiveQuota decides.
ReadQuotas ==
    /\ ctl.loop = "quotas"
    /\ LET snap == [tick.snap EXCEPT !.lanes = [l \in Lanes |-> [@[l] EXCEPT !.quota = policy.lanes[l]]]] IN
       tick' = [tick EXCEPT !.snap = snap, !.next = 1,
                            !.decisions = EvaluateAdaptiveQuota(Config, Policies, snap, state, tick.now)]
    /\ ctl' = [ctl EXCEPT !.loop = "decide"]
    /\ UNCHANGED <<sched, policy, call, start, stop, state, adjusted>>

Changes(d) == d.action # "hold" /\ d.new # d.old

appendDecision(decisions, d) ==
    Append(IF Len(decisions) >= MaxLastDecisions THEN Tail(decisions) ELSE decisions, d)

\* The last reason of each lane; holds are kept only when they are asked for.
recordHolds(held) ==
    LET about(l) == {i \in DOMAIN held : held[i].lane = l} IN
    [state EXCEPT !.reasons = [l \in Lanes |-> IF about(l) = {} THEN @[l] ELSE held[Max(about(l))].reason],
                  !.lastDecisions = IF Plan.emitHold THEN FoldLeft(appendDecision, @, held) ELSE @]

\* The decisions up to the next change are holds: their reasons are recorded.  Then the context is looked at
\* and the change sent on its way.
Decide ==
    /\ ctl.loop = "decide"
    /\ LET later == {i \in DOMAIN tick.decisions : i >= tick.next /\ Changes(tick.decisions[i])}
           to == IF later = {} THEN Len(tick.decisions) + 1 ELSE Min(later)
           held == SubSeq(tick.decisions, tick.next, to - 1)
           apply == later # {} /\ ~ctl.cancelled IN
       /\ state' = recordHolds(held)
       /\ call' = IF apply
                  THEN [call EXCEPT ![Controller] =
                           ConditionalCall(tick.decisions[to].lane, tick.decisions[to].new, tick.snap.version)]
                  ELSE call
       /\ ctl' = [ctl EXCEPT !.loop = IF apply THEN "apply" ELSE "select"]
       /\ tick' = IF apply THEN [tick EXCEPT !.next = to] ELSE NoTick
    /\ UNCHANGED <<sched, policy, start, stop, adjusted>>

\* Mutant: the time of the change is not recorded.
Applied_Unrecorded ==
    LET d == tick.decisions[tick.next] IN
    /\ ctl.loop = "apply" /\ call[Controller].pc \in {"ok", "conflict", "stopped", "invalid"}
    /\ state' = [state EXCEPT !.lastDecisions = appendDecision(@, d)]
    /\ call' = [call EXCEPT ![Controller] = NoCall]
    /\ ctl' = [ctl EXCEPT !.loop = "decide"]
    /\ tick' = [tick EXCEPT !.next = @ + 1]
    /\ UNCHANGED <<sched, policy, start, stop, adjusted>>

\* apply came back: recordApplied, or the decision becomes a hold.
Applied ==
    LET d == tick.decisions[tick.next]
        ok == call[Controller].pc = "ok"
        entry == IF ok THEN d ELSE [d EXCEPT !.action = "hold", !.reason = "quota_update_failed", !.new = d.old] IN
    /\ ctl.loop = "apply" /\ call[Controller].pc \in {"ok", "conflict", "stopped", "invalid"}
    /\ state' = [state EXCEPT !.lastAdjusted[d.lane] = IF ok THEN tick.now ELSE @,
                              !.reasons[d.lane] = entry.reason,
                              !.lastDecisions = appendDecision(@, entry)]
    /\ call' = [call EXCEPT ![Controller] = NoCall]
    /\ ctl' = [ctl EXCEPT !.loop = "decide"]
    /\ tick' = [tick EXCEPT !.next = @ + 1]
    /\ UNCHANGED <<sched, policy, start, stop, adjusted>>

\* select takes ctx.Done: running is cleared, ...
LoopExit ==
    /\ ctl.loop = "select" /\ ctl.cancelled
    /\ ctl' = [ctl EXCEPT !.loop = "ended", !.running = FALSE]
    /\ UNCHANGED <<sched, policy, call, start, stop, tick, state, adjusted>>

\* ... then wg.Done.
LoopDone ==
    /\ ctl.loop = "ended"
    /\ ctl' = [ctl EXCEPT !.loop = "exited", !.wg = 0]
    /\ UNCHANGED <<sched, policy, call, start, stop, tick, state, adjusted>>

ControllerStep == ReadQuotas \/ Decide \/ UpdateStep(Controller) \/ Applied \/ LoopDone

\* Time passes; the ticker of a live loop fires every interval, into a channel of one.
Tick ==
    /\ now < Plan.maxTime /\ now' = now + 1
    /\ ctl' = [ctl EXCEPT !.ticker = @ \/ (ctl.loop \notin {"none", "ended", "exited"} /\ now' % Config.interval = 0)]
    /\ UNCHANGED <<load, pos, sched, policy, call, start, stop, tick, state, adjusted>>

QuotaNext ==
    \/ \E c \in Clients : UpdateLaneQuota(c) \/ UpdateQuotaPolicy(c) \/ UpdateStep(c)
    \/ StartStep \/ CancelContext
    \/ \E s \in Stoppers : TakeCancel(s) \/ StopStep(s)
    \/ ReadSignals \/ ControllerStep \/ LoopExit

-----------------------------------------------------------------------------
Published(p) == call[p].pc = "publish" /\ call'[p].pc = "ok"

\* A change of one lane, by a caller or by the controller, leaves every other lane and the default as they are
\* in the policy it replaces, whoever published in the meantime.
NoLostUpdate ==
    [][\A p \in Writers : Published(p) /\ call[p].cas =>
          /\ policy'.default = policy.default
          /\ \A l \in Lanes \ {call[p].lane} : policy'.lanes[l] = policy.lanes[l]]_<<policy, call>>

\* A quota the controller publishes replaces the very quota it was decided from, moves it by at most one step
\* and not past the lane's bound, and follows the last change of that lane by a cooldown, evaluation to
\* evaluation.
AdaptiveFromCurrent ==
    [][Published(Controller) =>
          LET d == tick.decisions[tick.next]
              pol == Policies[d.lane] IN
          /\ policy.lanes[d.lane] = d.old /\ policy'.lanes[d.lane] = d.new
          /\ \/ d.action = "increase" /\ d.new \in d.old + 1 .. d.old + Config.incStep /\ d.new <= pol.max
             \/ d.action = "decrease" /\ d.new \in d.old - Config.decStep .. d.old - 1 /\ d.new >= pol.min
          /\ adjusted[d.lane] # 0 => tick.now - adjusted[d.lane] >= Config.cooldown]_<<policy, call>>

\* Once a Stop that was called on a started queue has stopped the controller, the controller publishes nothing.
QuietAfterStop ==
    [][\A s \in Stoppers : stop[s].afterStart /\ stop[s].pc \in {"scheduler", "returned"} => ~Published(Controller)]_<<policy, call>>

\* A Stop called on a started queue comes back, whatever the controller is doing.
ControllerStops == \A s \in Stoppers : stop[s].afterStart ~> stop[s].pc = "returned"
=============================================================================
