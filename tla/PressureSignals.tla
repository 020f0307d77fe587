-------------------------- MODULE PressureSignals --------------------------
(***************************************************************************)
(* The pressure diagnostics and the autoscaling triggers as pure operators *)
(* (internal/core/pressure.go, shard_pressure_classification.go,           *)
(* shard_pressure_policy.go, shard_pressure_snapshot.go, hotspot.go,       *)
(* scale_signal.go and their configuration in shard_pressure.go and        *)
(* autoscaling.go).                                                        *)
(*                                                                         *)
(* A view of the data plane is                                             *)
(*   [workers, throttled,                                                  *)
(*    shards : a sequence of [deps, capacity, inFlight, wait, cands],      *)
(*    lanes  : lane -> [inFlight, submitted, completed, admissionRejected, *)
(*                      overloadRejected, overloadShed, waitTotal, waitMax]]*)
(* deps maps a lane to its depth in the shard, cands are the hot key       *)
(* candidates the shard's tracker reports: [lane, depthRatio, waitRatio,   *)
(* queued, submitted, rejected, action].  Every counter is cumulative.     *)
(***************************************************************************)
EXTENDS Integers, Sequences, SequencesExt, FiniteSetsExt, Folds, Fractions

\* Every lane has a queue in every shard; depths, gauges and counters are natural numbers.
IsView(view) ==
    /\ view.workers \in Nat /\ IsFiniteSet(DOMAIN view.lanes)
    /\ \A l \in DOMAIN view.lanes :
          LET ln == view.lanes[l] IN {ln.submitted, ln.admissionRejected, ln.overloadRejected, ln.overloadShed} \subseteq Nat
    /\ Len(view.shards) \in Nat /\ DOMAIN view.shards = 1..Len(view.shards)
    /\ \A i \in DOMAIN view.shards :
          LET sh == view.shards[i] IN
          /\ DOMAIN sh.deps = DOMAIN view.lanes /\ \A l \in DOMAIN sh.deps : sh.deps[l] \in Nat
          /\ {sh.capacity, sh.inFlight, sh.wait, Len(sh.cands)} \subseteq Nat /\ DOMAIN sh.cands = 1..Len(sh.cands)
          /\ \A n \in DOMAIN sh.cands : sh.cands[n].rejected \in Nat

SumOf(seq, Item(_)) == SumFunction([i \in DOMAIN seq |-> Item(seq[i])])
Largest(seq) == FoldLeft(Larger, Zero, seq)

depth(sh) == SumFunction(sh.deps)
laneDepth(view, l) == SumOf(view.shards, LAMBDA sh : sh.deps[l])

\* collectPressureTotals and Pressure.
debugViewTotals(view) ==
    [depth |-> SumOf(view.shards, depth), capacity |-> SumOf(view.shards, LAMBDA sh : sh.capacity),
     inFlight |-> SumOf(view.shards, LAMBDA sh : sh.inFlight)]
TotalDepthRatio(view) == safeRatio(debugViewTotals(view).depth, debugViewTotals(view).capacity)

-----------------------------------------------------------------------------
(* Configuration; ratios are whole percents, 0 is unset. *)

Unset(c, def) == [f \in DOMAIN c |-> IF f # "enabled" /\ c[f] <= 0 THEN def[f] ELSE c[f]]

DefaultShardPressureConfig ==
    [enabled |-> TRUE, window |-> 30, hot |-> 70, dominantLane |-> 60, localized |-> 40, distributed |-> 50,
     workerBusy |-> 80, maxHotShards |-> 16, maxLanes |-> 8, maxKeys |-> 4]
NormalizeShardPressureConfig(c) == IF c.enabled THEN Unset(c, DefaultShardPressureConfig) ELSE c
ValidateShardPressureConfig(c) ==
    c.enabled => /\ c.window > 0 /\ {c.hot, c.dominantLane, c.localized} \subseteq 1..100
                 /\ c.maxHotShards >= 0 /\ c.maxLanes >= 0 /\ c.maxKeys >= 0
\* The scheduler's own normalisation, which leaves the window alone.
normalizeShardPressureConfig(c) == [NormalizeShardPressureConfig(c) EXCEPT !.window = c.window]

DefaultAutoscalingSignalConfig ==
    [enabled |-> TRUE, window |-> 30, consecutive |-> 2, depth |-> 70, waitMax |-> 50, reject |-> 5, shed |-> 1,
     workerBusy |-> 85, hotShards |-> 70, manyHotShards |-> 4, localized |-> 40]
NormalizeAutoscalingSignalConfig(c) == IF c.enabled THEN Unset(c, DefaultAutoscalingSignalConfig) ELSE c
ValidateAutoscalingSignalConfig(c) ==
    c.enabled => /\ c.window > 0 /\ c.consecutive >= 1 /\ c.manyHotShards >= 1
                 /\ {c.depth, c.workerBusy, c.hotShards, c.localized} \subseteq 1..100
                 /\ {c.reject, c.shed} \subseteq 0..100

-----------------------------------------------------------------------------
(* The pressure of a shard. *)

computeQueueWaitRatio(wait, window, workers) ==
    IF window <= 0 \/ workers <= 0 THEN Zero ELSE Capped(<<wait, window * workers>>)
computeWorkerContributionRatio(inFlight, workers) == IF workers <= 0 THEN Zero ELSE Capped(<<inFlight, workers>>)
computeAdmissionPressureRatio(rejected, throttled, shed, submitted) ==
    Capped(safeRatio(rejected + throttled + shed, submitted))
computeShardPressureRatio(depthRatio, waitRatio, admissionRatio, workerRatio) ==
    Larger(Larger(Larger(depthRatio, waitRatio), admissionRatio), workerRatio)

\* Skew is a shard's pressure over the mean of its peers'.  Only "below 2" is ever asked of it: a shard
\* under pressure among idle peers is not, one without pressure or without peers is.
SkewBelowTwo(ratio, peerSum, peers) ==
    peers <= 0 \/ ratio[1] = 0 \/ ~AtLeast(<<ratio[1] * peers, ratio[2]>>, <<2 * peerSum[1], peerSum[2]>>)

\* A shard's part of what is counted per lane: by its share of the lane's depth.
laneDepthShare(shardLaneDepth, laneGlobalDepth) == safeRatio(shardLaneDepth, laneGlobalDepth)
shardLaneAdmissionTotals(view, sh) ==
    LET part(l, n) == Portion(n, laneDepthShare(sh.deps[l], laneDepth(view, l)))
        total(Count(_)) == SumFunction([l \in {m \in DOMAIN sh.deps : sh.deps[m] > 0} |-> part(l, Count(view.lanes[l]))]) IN
    [submitted |-> total(LAMBDA ln : ln.submitted), shed |-> total(LAMBDA ln : ln.overloadShed),
     rejected |-> total(LAMBDA ln : ln.admissionRejected + ln.overloadRejected)]

\* What a hot key adds to its shard; its refusals count as throttles while it is being throttled.
hotKeyToPressureSnapshot(c, sh) ==
    [contribution |-> Largest(<<safeRatio(c.queued, depth(sh)), IF sh.wait > 0 THEN c.waitRatio ELSE Zero,
                                safeRatio(c.rejected, c.submitted)>>),
     throttled |-> IF c.action = "throttle" THEN c.rejected ELSE 0]

\* The largest share a lane has of its shard's depth, and whether it dominates; the list is left out.
buildLaneBreakdown(sh, cfg) ==
    LET top == safeRatio(Max({sh.deps[l] : l \in DOMAIN sh.deps} \union {0}), depth(sh)) IN
    [top |-> top, dominant |-> depth(sh) > 0 /\ AtLeast(top, Percent(cfg.dominantLane))]

classifyShardPressure(cfg, ratio, hasHotKey, topKey, topLane) ==
    IF ~cfg.enabled THEN "unknown"
    ELSE IF ~AtLeast(ratio, Percent(cfg.hot)) THEN "healthy"
    ELSE IF hasHotKey /\ AtLeast(topKey, Percent(cfg.localized)) THEN "localized_key"
    ELSE IF AtLeast(topLane, Percent(cfg.dominantLane)) THEN "lane_dominant"
    ELSE "shard_hot"

\* The pressure of shard i without its admission part, which is what its peers are compared by.
PeerRatio(view, cfg, i) ==
    LET sh == view.shards[i] IN
    computeShardPressureRatio(safeRatio(depth(sh), sh.capacity), computeQueueWaitRatio(sh.wait, cfg.window, view.workers),
                              Zero, computeWorkerContributionRatio(sh.inFlight, view.workers))
PeerSum(view, cfg, i) ==
    FoldFunctionOnSet(Plus, Zero, [j \in DOMAIN view.shards |-> PeerRatio(view, cfg, j)], DOMAIN view.shards \ {i})

ShardSnapshot(view, cfg, i, keys, ratio, lanes) ==
    [shard |-> i, ratio |-> ratio, depth |-> depth(view.shards[i]), dominant |-> lanes.dominant,
     skewBelowTwo |-> SkewBelowTwo(ratio, PeerSum(view, cfg, i), Len(view.shards) - 1),
     class |-> classifyShardPressure(cfg, ratio, keys # <<>>, Largest([n \in DOMAIN keys |-> keys[n].contribution]), lanes.top)]

AdmissionRatio(totals, keys) ==
    computeAdmissionPressureRatio(totals.rejected, SumOf(keys, LAMBDA k : k.throttled), totals.shed, totals.submitted)

buildShardPressureSnapshot(view, cfg, i) ==
    LET sh == view.shards[i]
        keys == [n \in 1..Min({Len(sh.cands), cfg.maxKeys}) |-> hotKeyToPressureSnapshot(sh.cands[n], sh)] IN
    ShardSnapshot(view, cfg, i, keys, Larger(PeerRatio(view, cfg, i), AdmissionRatio(shardLaneAdmissionTotals(view, sh), keys)),
                  buildLaneBreakdown(sh, cfg))

rankHotShardPressures(snaps, limit) ==
    LET warm == {i \in DOMAIN snaps : snaps[i].ratio[1] > 0 \/ snaps[i].depth > 0}
        level(i, j) == AtLeast(snaps[i].ratio, snaps[j].ratio) /\ AtLeast(snaps[j].ratio, snaps[i].ratio)
        before(i, j) == \/ ~AtLeast(snaps[j].ratio, snaps[i].ratio)
                        \/ level(i, j) /\ snaps[i].depth > snaps[j].depth
                        \/ level(i, j) /\ snaps[i].depth = snaps[j].depth /\ i < j
        ranked == SetToSortSeq(warm, before) IN
    [n \in 1..Min({Len(ranked), limit}) |-> ranked[n]]

-----------------------------------------------------------------------------
(* The pressure of the scheduler.  in: [shards, hotCount, depthRatio, waitRatio, workerBusy, skewBelowTwo, localized]. *)

HotShardRatio(in) == safeRatio(in.hotCount, in.shards)
isDistributedPressure(cfg, in) == cfg.enabled /\ AtLeast(HotShardRatio(in), Percent(cfg.distributed))

classifyGlobalPressure(cfg, in) ==
    IF ~cfg.enabled \/ in.shards = 0 THEN "unknown"
    ELSE IF isDistributedPressure(cfg, in) THEN "distributed"
    ELSE IF /\ AtLeast(in.workerBusy, Percent(cfg.workerBusy)) /\ AtLeast(in.waitRatio, <<cfg.hot, 200>>)
            /\ in.skewBelowTwo THEN "worker_bound"
    ELSE IF in.hotCount = 0 /\ ~AtLeast(in.depthRatio, Percent(cfg.hot)) THEN "healthy"
    ELSE IF in.localized > 0 THEN "localized_key"
    ELSE IF in.hotCount = 1 THEN "shard_hot"
    ELSE IF in.hotCount > 0 THEN "distributed" ELSE "healthy"

computeScaleMitigationFlags(cfg, class, in) ==
    LET lone == class = "shard_hot" IN
    [scale |-> \/ class \in {"distributed", "worker_bound"}
               \/ lone /\ in.localized = 0 /\ AtLeast(HotShardRatio(in), <<cfg.distributed, 200>>)
               \/ class = "unknown" /\ AtLeast(in.depthRatio, Percent(cfg.hot)),
     mitigation |-> class = "localized_key" \/ (class \in {"shard_hot", "unknown"} /\ in.localized > 0)]

TotalWaitRatio(view, cfg) == computeQueueWaitRatio(SumOf(view.shards, LAMBDA sh : sh.wait), cfg.window, view.workers)
WorkerBusy(view) == computeWorkerContributionRatio(debugViewTotals(view).inFlight, view.workers)

HotCount(snaps, cfg, S) == Cardinality({i \in S : AtLeast(snaps[i].ratio, Percent(cfg.hot))})
GlobalInput(view, cfg, snaps, hotCount) ==
    [shards |-> Len(snaps), hotCount |-> hotCount, depthRatio |-> TotalDepthRatio(view),
     waitRatio |-> TotalWaitRatio(view, cfg), workerBusy |-> WorkerBusy(view),
     skewBelowTwo |-> \A i \in DOMAIN snaps : snaps[i].skewBelowTwo,
     localized |-> Cardinality({i \in DOMAIN snaps : snaps[i].class = "localized_key"})]

SummaryOf(cfg, in, class, listed) ==
    [class |-> class, hotCount |-> in.hotCount, flags |-> computeScaleMitigationFlags(cfg, class, in), hotShards |-> listed]
Classified(cfg, in, listed) == SummaryOf(cfg, in, classifyGlobalPressure(cfg, in), listed)

\* Mutant: only the shards that are listed are counted as hot.
Summarise_Listed(view, cfg, snaps) ==
    LET listed == rankHotShardPressures(snaps, cfg.maxHotShards) IN
    Classified(cfg, GlobalInput(view, cfg, snaps, HotCount(snaps, cfg, {listed[n] : n \in DOMAIN listed})), listed)

Summarise(view, cfg, snaps) ==
    Classified(cfg, GlobalInput(view, cfg, snaps, HotCount(snaps, cfg, DOMAIN snaps)),
               rankHotShardPressures(snaps, cfg.maxHotShards))

\* collectPressureView and the summary made of it.
buildPressureSummary(view, cfg) ==
    Summarise(view, cfg, [i \in DOMAIN view.shards |-> buildShardPressureSnapshot(view, cfg, i)])

-----------------------------------------------------------------------------
(* The autoscaling signal's view of the shards: the same classification from fewer signals. *)

rankHotShards(view, limit) ==
    Min({Cardinality({i \in DOMAIN view.shards : depth(view.shards[i]) > 0 \/ view.shards[i].inFlight > 0}), limit})

\* Depth ratios of the candidates only, on the first hot shards only.
buildScaleSignalShardAggregates(view, cfg) ==
    LET ids == DOMAIN view.shards
        busy(i) == depth(view.shards[i]) > 0 \/ view.shards[i].inFlight > 0
        limit == IF cfg.maxHotShards <= 0 THEN 16 ELSE cfg.maxHotShards
        hot == {i \in ids : IF cfg.enabled THEN AtLeast(PeerRatio(view, cfg, i), Percent(cfg.hot)) ELSE busy(i)}
        looked == {i \in hot : Cardinality({j \in hot : j < i}) < limit}
        topKey(i) == Largest([n \in DOMAIN view.shards[i].cands |-> view.shards[i].cands[n].depthRatio])
        threshold == IF cfg.localized <= 0 THEN 40 ELSE cfg.localized
        in == [shards |-> Len(view.shards),
               hotCount |-> IF cfg.enabled THEN Cardinality(hot) ELSE rankHotShards(view, limit),
               depthRatio |-> TotalDepthRatio(view), waitRatio |-> TotalWaitRatio(view, cfg),
               workerBusy |-> WorkerBusy(view),
               skewBelowTwo |-> \A i \in ids : SkewBelowTwo(PeerRatio(view, cfg, i), PeerSum(view, cfg, i), Len(view.shards) - 1),
               localized |-> Cardinality({i \in looked : AtLeast(topKey(i), Percent(threshold))})] IN
    IF ids = {} THEN [hotCount |-> 0, hotRatio |-> Zero, localizedRatio |-> Zero, class |-> "unknown"]
    ELSE [hotCount |-> in.hotCount, hotRatio |-> HotShardRatio(in),
          localizedRatio |-> FoldFunctionOnSet(Larger, Zero, [i \in ids |-> topKey(i)], looked),
          class |-> IF cfg.enabled THEN classifyGlobalPressure(cfg, in) ELSE "healthy"]

admissionCounterSample(view) ==
    LET total(Count(_)) == SumFunction([l \in DOMAIN view.lanes |-> Count(view.lanes[l])]) IN
    [submitted |-> total(LAMBDA ln : ln.submitted), shed |-> total(LAMBDA ln : ln.overloadShed),
     rejected |-> total(LAMBDA ln : ln.admissionRejected + ln.overloadRejected), throttled |-> view.throttled]

\* The rates since the last sample, in unsigned arithmetic modulo word (2^64 in the code): a counter that is
\* behind the last sample's gives a huge difference.
admissionRates(current, last, word) ==
    LET delta(f) == (current[f] - last[f] + word) % word IN
    [f \in {"rejected", "shed", "throttled"} |-> Capped(safeRatio(delta(f), delta("submitted")))]

\* in: [depth, capacity, waitMax, rates, workerBusy, hotCount, hotRatio, localizedRatio, class].
buildScaleSignalRawInput(view, pressureCfg) ==
    LET agg == buildScaleSignalShardAggregates(view, pressureCfg)
        totals == debugViewTotals(view) IN
    [depth |-> totals.depth, capacity |-> totals.capacity,
     waitMax |-> Max({view.lanes[l].waitMax : l \in DOMAIN view.lanes} \union {0}),
     workerBusy |-> WorkerBusy(view), counters |-> admissionCounterSample(view),
     hotCount |-> agg.hotCount, hotRatio |-> agg.hotRatio, localizedRatio |-> agg.localizedRatio, class |-> agg.class]

\* The reasons to scale by priority, and the priorities of those that hold.
ScaleReasons == <<"admission_shed_high", "admission_reject_high", "distributed_pressure", "many_hot_shards",
                  "worker_saturated", "queue_wait_high", "queue_depth_high">>
evaluateScaleTriggers(cfg, in, rates) ==
    LET fired == <<
        AtLeast(rates.shed, Percent(cfg.shed)),
        AtLeast(rates.rejected, Percent(cfg.reject)),
        in.class \in {"distributed", "worker_bound"},
        in.hotCount >= cfg.manyHotShards \/ AtLeast(in.hotRatio, Percent(cfg.hotShards)),
        AtLeast(in.workerBusy, Percent(cfg.workerBusy)) \/ in.class = "worker_bound",
        cfg.waitMax > 0 /\ in.waitMax >= cfg.waitMax,
        AtLeast(safeRatio(in.depth, in.capacity), Percent(cfg.depth))>> IN
    {n \in DOMAIN ScaleReasons : fired[n]}

computeScalePressureRatio(cfg, in, rates) ==
    Largest(<<safeRatio(in.depth, in.capacity), safeRatio(in.waitMax, cfg.waitMax), rates.rejected, rates.shed,
              rates.throttled, in.workerBusy, in.hotRatio>>)

scopeForScaleTrigger(reason, in) ==
    LET lone == CASE reason = "many_hot_shards" -> in.hotCount <= 1
                  [] reason = "worker_saturated" -> in.hotCount = 1 /\ in.class # "worker_bound"
                  [] reason \in {"queue_wait_high", "queue_depth_high"} ->
                        in.hotCount = 1 /\ in.class \notin {"distributed", "worker_bound"}
                  [] OTHER -> FALSE IN
    IF lone THEN "shard" ELSE "global"
=============================================================================
