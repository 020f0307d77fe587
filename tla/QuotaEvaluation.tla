-------------------------- MODULE QuotaEvaluation --------------------------
(***************************************************************************)
(* The lane quota policy and the adaptive quota rules as pure operators:   *)
(* configuration, what a policy input resolves to, and the decisions of    *)
(* one evaluation (internal/core/quota_policy.go, adaptive_quota_eval.go,  *)
(* adaptive_quota_policy.go; adaptive_quota.go at the top level).          *)
(*                                                                         *)
(* Durations are whole numbers of milliseconds for waits and run times,    *)
(* and of model ticks for warmup, cooldown and the interval; thresholds    *)
(* are whole percents.  The signals a decision repeats for its observers   *)
(* are left out.                                                           *)
(***************************************************************************)
EXTENDS Integers, Sequences, SequencesExt, FiniteSetsExt, Fractions

CONSTANTS
    LaneOrder,      \* the lanes in LaneRegistry's order
    LaneQuotas,     \* the quotas the lanes are registered with
    MaxLaneQuota    \* 1024 in the code

ASSUME QuotaAssumption ==
    /\ MaxLaneQuota \in Nat \ {0}
    /\ LaneOrder \in Seq(DOMAIN LaneQuotas)
    /\ LaneQuotas \in [DOMAIN LaneQuotas -> 1..MaxLaneQuota]

Lanes == DOMAIN LaneQuotas
LaneClasses == {"critical", "normal", "background", "best_effort"}

-----------------------------------------------------------------------------
(* The quota policy: an input is [default, lanes], lanes a function on some lanes. *)

snapshotFromRegistry == [version |-> 0, default |-> 1, lanes |-> LaneQuotas]

ValidQuotaPolicy(p) ==
    /\ p.default \in 1..MaxLaneQuota
    /\ \A l \in DOMAIN p.lanes : l \in Lanes /\ p.lanes[l] \in 1..MaxLaneQuota

buildQuotaPolicySnapshot(version, p) ==
    [version |-> version, default |-> p.default,
     lanes |-> [l \in Lanes |-> IF l \in DOMAIN p.lanes THEN p.lanes[l] ELSE p.default]]

-----------------------------------------------------------------------------
(* Adaptive configuration. *)

DefaultAdaptiveQuotaConfig ==
    [enabled |-> FALSE, interval |-> 1, warmup |-> 5, cooldown |-> 5, high |-> 85, low |-> 60,
     waitHigh |-> 25, runHigh |-> 250, incStep |-> 1, decStep |-> 1, maxAdj |-> 1, inc |-> TRUE, dec |-> TRUE]

\* Unset fields take their defaults; neither direction enabled means both.
NormalizeAdaptiveQuotaConfig(c) ==
    LET def == DefaultAdaptiveQuotaConfig
        both == ~c.inc /\ ~c.dec
        flags == {"enabled", "inc", "dec"} IN
    [f \in DOMAIN c |-> IF f \in flags THEN c[f] \/ (f # "enabled" /\ both)
                        ELSE IF c[f] <= 0 THEN def[f] ELSE c[f]]

\* entries: the explicit lane policies, a sequence of [lane, policy].
ValidateAdaptiveQuotaPolicy(c, entries) ==
    LET n == NormalizeAdaptiveQuotaConfig(c) IN
    c.enabled =>
        /\ c.interval > 0 /\ c.low >= 0 /\ c.high >= 0 /\ c.incStep >= 0 /\ c.decStep >= 0 /\ c.maxAdj >= 1
        /\ n.low \in 0..100 /\ n.high \in 0..100 /\ n.low < n.high
        /\ \A i, j \in DOMAIN entries : entries[i].lane = entries[j].lane => i = j
        /\ \A i \in DOMAIN entries :
              LET p == entries[i].policy IN
              /\ entries[i].lane \in Lanes /\ p.class \in LaneClasses \union {""}
              /\ p.min >= 1 /\ p.max >= p.min /\ p.max <= MaxLaneQuota

\* What a lane's class allows when the lane has no policy of its own.
defaultResolvedPolicy(class, initialQuota) ==
    [class |-> class, enabled |-> TRUE, min |-> 1, max |-> Min({Max({initialQuota, 1}), MaxLaneQuota}),
     inc |-> class \notin {"background", "best_effort"}, dec |-> class # "critical",
     targetWait |-> IF class = "critical" THEN 20 ELSE IF class = "background" THEN 100 ELSE 50]

\* Explicit policies over class defaults.  laneClass: the classes of the admission policy.
resolveAdaptiveLanePolicies(entries, laneClass) ==
    LET listed(l) == {i \in DOMAIN entries : entries[i].lane = l}
        merge(r, p) ==
            LET min == IF p.min >= 1 THEN p.min ELSE r.min
                max == IF p.max >= min THEN p.max ELSE r.max IN
            [r EXCEPT !.enabled = p.enabled, !.min = min, !.max = Min({Max({max, min}), MaxLaneQuota}),
                      !.targetWait = IF p.targetWait > 0 THEN p.targetWait ELSE @,
                      !.inc = p.inc, !.dec = p.dec] IN
    [l \in Lanes |->
        IF listed(l) = {} THEN defaultResolvedPolicy(laneClass[l], LaneQuotas[l])
        ELSE LET p == entries[Max(listed(l))].policy IN
             merge(defaultResolvedPolicy(IF p.class = "" THEN laneClass[l] ELSE p.class, LaneQuotas[l]), p)]

-----------------------------------------------------------------------------
(* One evaluation.  sig: [quota, samples, waitMax, waitAvg, runMax, queueFull, shed, reject, degrade] of a *)
(* lane; pressure: the total depth ratio.  An outcome is [action, reason]; NoOutcome leaves it to the next rule. *)

NoOutcome == [action |-> "none", reason |-> ""]
Hold(reason) == [action |-> "hold", reason |-> reason]

PressureHigh(cfg, pressure) == AtLeast(pressure, Percent(cfg.high))
PressureLow(cfg, pressure) == AtLeast(Percent(cfg.low), pressure)

laneOverloadElevated(sig) == sig.shed > 0 \/ sig.reject > 0 \/ sig.degrade > 0
localizedOverloadDecreaseEligible(class, sig) == laneOverloadElevated(sig) /\ class \in {"background", "best_effort"}

queueWaitHigh(sig, pol, cfg) ==
    LET wait == IF sig.waitMax = 0 THEN sig.waitAvg ELSE sig.waitMax IN
    \/ pol.targetWait > 0 /\ wait >= pol.targetWait
    \/ cfg.waitHigh > 0 /\ wait >= cfg.waitHigh

increaseReasonForClass(class) ==
    IF class = "best_effort" THEN ""
    ELSE IF class = "critical" THEN "critical_queue_wait_high"
    ELSE IF class = "normal" THEN "normal_queue_wait_high" ELSE "background_queue_wait_high"

decreaseReasonForClass(class, sig, high) ==
    IF class = "best_effort" /\ (high \/ laneOverloadElevated(sig)) THEN "best_effort_pressure_high"
    ELSE IF class = "background" /\ (high \/ laneOverloadElevated(sig)) THEN "background_pressure_high"
    ELSE IF class = "normal" /\ (high \/ sig.shed > 0 \/ sig.reject > 0) THEN "global_pressure_high" ELSE ""

increasePriority(class) == CASE class = "critical" -> 0 [] class = "normal" -> 1 [] class = "background" -> 2 [] OTHER -> 99
decreasePriority(class) == CASE class = "best_effort" -> 0 [] class = "background" -> 1 [] class = "normal" -> 2 [] OTHER -> 99

\* What keeps a lane out of this evaluation.  last: when it was last adjusted, 0 for never.
BlockedOutcome(cfg, pol, sig, pressure, startedAt, last, now) ==
    IF ~pol.enabled THEN Hold("increase_disabled")
    ELSE IF cfg.warmup > 0 /\ now - startedAt < cfg.warmup THEN Hold("warmup_active")
    ELSE IF last # 0 /\ now - last < cfg.cooldown THEN Hold("cooldown_active")
    ELSE IF /\ sig.samples < 1 /\ ~PressureHigh(cfg, pressure)
            /\ ~localizedOverloadDecreaseEligible(pol.class, sig) THEN Hold("insufficient_samples")
    ELSE NoOutcome

DecreaseOutcome(cfg, pol, sig, pressure) ==
    LET high == PressureHigh(cfg, pressure)
        reason == decreaseReasonForClass(pol.class, sig, high) IN
    IF ~(cfg.dec /\ pol.dec /\ (high \/ localizedOverloadDecreaseEligible(pol.class, sig))) THEN NoOutcome
    ELSE IF sig.quota <= pol.min THEN Hold("at_min_bound")
    ELSE IF reason # "" THEN [action |-> "decrease", reason |-> reason] ELSE NoOutcome

IncreaseOutcome(cfg, pol, sig, pressure) ==
    LET reason == increaseReasonForClass(pol.class) IN
    IF ~(cfg.inc /\ pol.inc /\ PressureLow(cfg, pressure)) THEN NoOutcome
    ELSE IF sig.queueFull > 0 THEN Hold("queue_full")
    ELSE IF sig.quota >= pol.max THEN Hold("at_max_bound")
    ELSE IF sig.runMax > cfg.runHigh /\ cfg.runHigh > 0 THEN Hold("runtime_too_high")
    ELSE IF ~queueWaitHigh(sig, pol, cfg) THEN Hold("neutral_pressure")
    ELSE IF reason # "" THEN [action |-> "increase", reason |-> reason] ELSE NoOutcome

RestOutcome(cfg, pol, pressure) ==
    IF PressureHigh(cfg, pressure) THEN Hold(IF pol.dec THEN "global_pressure_high" ELSE "decrease_disabled")
    ELSE IF ~PressureLow(cfg, pressure) THEN Hold("neutral_pressure")
    ELSE Hold(IF pol.inc THEN "none" ELSE "increase_disabled")

\* The new quota of a candidate: one step, within the lane's bounds on the side it moves to.
applyCandidate(cfg, pol, quota, action) ==
    LET moved == IF action = "increase" THEN Min({quota + cfg.incStep, pol.max}) ELSE Max({quota - cfg.decStep, pol.min}) IN
    Min({Max({moved, 1}), MaxLaneQuota})

\* What becomes of a lane: the first rule that has something to say decides.
LaneOutcome(cfg, pol, sig, pressure, startedAt, last, now) ==
    LET rules == <<BlockedOutcome(cfg, pol, sig, pressure, startedAt, last, now), DecreaseOutcome(cfg, pol, sig, pressure),
                   IncreaseOutcome(cfg, pol, sig, pressure), RestOutcome(cfg, pol, pressure)>> IN
    rules[Min({n \in DOMAIN rules : rules[n] # NoOutcome})]

\* Candidates for a decrease go first, then those for an increase, each kind by class (lanes of one class in
\* LaneOrder), up to the limit of a tick.  The result are positions in LaneOrder.
ChosenCandidates(cfg, pols, outcome) ==
    LET candidates(action, priority(_)) ==
            LET rank(i) == priority(pols[LaneOrder[i]].class) IN
            SetToSortSeq({i \in DOMAIN LaneOrder : outcome[LaneOrder[i]].action = action},
                         LAMBDA i, j : rank(i) < rank(j) \/ (rank(i) = rank(j) /\ i < j))
        ranked == candidates("decrease", decreasePriority) \o candidates("increase", increasePriority) IN
    {ranked[n] : n \in 1..Min({Len(ranked), Max({cfg.maxAdj, 1})})}

\* The decisions of one tick, one for each lane in LaneOrder.  Candidates that are not chosen hold and name no reason.
EvaluateAdaptiveQuota(cfg, pols, snap, state, now) ==
    LET outcome == [l \in Lanes |-> LaneOutcome(cfg, pols[l], snap.lanes[l], snap.pressure, state.startedAt,
                                                state.lastAdjusted[l], now)]
        chosen == ChosenCandidates(cfg, pols, outcome) IN
    [i \in DOMAIN LaneOrder |->
        LET l == LaneOrder[i]
            old == snap.lanes[l].quota
            o == IF outcome[l].action = "hold" \/ i \in chosen THEN outcome[l] ELSE Hold("none") IN
        [lane |-> l, action |-> o.action, reason |-> o.reason, old |-> old,
         new |-> IF o.action = "hold" THEN old ELSE applyCandidate(cfg, pols[l], old, o.action)]]
=============================================================================
