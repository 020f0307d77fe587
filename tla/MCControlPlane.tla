--------------------------- MODULE MCControlPlane ---------------------------
EXTENDS ControlPlane

MCLaneOrder == <<"hi", "mid", "lo">>
MCLaneQuotas == [hi |-> 2, mid |-> 2, lo |-> 3]
MCLaneClass == [hi |-> "critical", mid |-> "normal", lo |-> "background"]
MCWord == 256

\* Views: a lane counts what the workload says and nothing else, a shard holds deps of a capacity of 10.
Quiet == [inFlight |-> 0, submitted |-> 0, completed |-> 0, admissionRejected |-> 0, overloadRejected |-> 0,
          overloadShed |-> 0, overloadDegrade |-> 0, queueFull |-> 0, waitTotal |-> 0, waitMax |-> 0, samples |-> 0, runMax |-> 0]
Busy(submitted, wait) == [Quiet EXCEPT !.submitted = submitted, !.completed = submitted - 1, !.waitTotal = wait,
                                       !.waitMax = wait, !.samples = 1, !.runMax = 10]
Shard(hi, mid, lo, inFlight, wait, cands) ==
    [deps |-> [hi |-> hi, mid |-> mid, lo |-> lo], capacity |-> 10, inFlight |-> inFlight, wait |-> wait, cands |-> cands]
View(shards, hi, mid, lo, throttled) ==
    [shards |-> shards, lanes |-> [hi |-> hi, mid |-> mid, lo |-> lo], throttled |-> throttled, workers |-> 2]

\* A workload in which nobody does anything.
Adaptive == [enabled |-> TRUE, interval |-> 1, warmup |-> 1, cooldown |-> 2, high |-> 85, low |-> 60, waitHigh |-> 25,
             runHigh |-> 250, incStep |-> 1, decStep |-> 1, maxAdj |-> 2, inc |-> TRUE, dec |-> TRUE]
Grow == [class |-> "", enabled |-> TRUE, min |-> 1, max |-> 4, inc |-> TRUE, dec |-> FALSE, targetWait |-> 0]
NoOp == [kind |-> "none"]
Idle == [script |-> <<View(<<Shard(0, 0, 0, 0, 0, <<>>)>>, Quiet, Quiet, Quiet, 0)>>, maxTime |-> 1,
         adaptive |-> [Adaptive EXCEPT !.enabled = FALSE], lanePolicies |-> <<[lane |-> "hi", policy |-> Grow]>>,
         laneClass |-> MCLaneClass, ops |-> [c \in Clients |-> NoOp], start |-> FALSE, cancel |-> FALSE,
         stoppers |-> {}, emitHold |-> FALSE, polls |-> [p \in Pollers |-> 0],
         summaries |-> FALSE, signal |-> [DefaultAutoscalingSignalConfig EXCEPT !.window = 2],
         pressure |-> [DefaultShardPressureConfig EXCEPT !.maxHotShards = 1]]

\* The queues fill up, then drain while the critical lane has waited.
Full == View(<<Shard(3, 3, 3, 2, 20, <<>>)>>, Busy(5, 10), Busy(5, 10), Busy(5, 10), 0)
Drained == View(<<Shard(1, 0, 0, 0, 40, <<>>)>>, Busy(9, 40), Busy(8, 10), Busy(8, 10), 0)
Refused == View(<<Shard(1, 1, 1, 0, 40, <<>>)>>, Busy(9, 40), Busy(8, 10), [Busy(9, 10) EXCEPT !.overloadShed = 1], 0)

LaneOp(l, q) == [kind |-> "lane", lane |-> l, quota |-> q]
PolicyOp(d, lanes) == [kind |-> "policy", input |-> [default |-> d, lanes |-> lanes]]

QuotaLoads ==
    LET on == [Idle EXCEPT !.adaptive = Adaptive, !.start = TRUE] IN
    << [on EXCEPT !.script = <<Full, Drained>>, !.maxTime = 4,
                 !.ops = [c \in Clients |-> IF c = "c1" THEN LaneOp("lo", 1) ELSE PolicyOp(2, [hi |-> 3])]],
      [on EXCEPT !.script = <<Drained, Refused>>, !.maxTime = 5,
                 !.ops = [c \in Clients |-> IF c = "c1" THEN LaneOp("mid", 1) ELSE NoOp]],
      [on EXCEPT !.script = <<Full>>, !.maxTime = 3, !.stoppers = Stoppers,
                 !.ops = [c \in Clients |-> IF c = "c1" THEN LaneOp("hi", 3) ELSE NoOp]],
      [on EXCEPT !.script = <<Full>>, !.maxTime = 3, !.stoppers = {"s1"}, !.cancel = TRUE, !.emitHold = TRUE],
      [on EXCEPT !.adaptive = [Adaptive EXCEPT !.enabled = FALSE], !.stoppers = {"s1"},
                 !.ops = [c \in Clients |-> IF c = "c1" THEN LaneOp("hi", 0) ELSE PolicyOp(1, [hi |-> 2, lo |-> 5])]] >>

\* Two pollers, or one that polls often, over what the signal reacts to.
ScaleLoads ==
    LET hot(r) == View(<<Shard(3, 3, 3, 2, 60, <<>>), Shard(1, 0, 0, 0, 0, <<>>)>>, Busy(10, 60),
                       [Busy(10, 60) EXCEPT !.admissionRejected = r], Busy(10, 60), 0)
        mid(n, r) == View(<<Shard(2, 0, 0, 0, 5, <<>>), Shard(1, 0, 0, 1, 0, <<>>)>>, Busy(n, 5),
                          [Busy(n, 5) EXCEPT !.admissionRejected = r], Busy(n, 5), 0)
        key == <<[lane |-> "lo", depthRatio |-> <<8, 9>>, waitRatio |-> <<1, 2>>, queued |-> 8, submitted |-> 9,
                  rejected |-> 1, action |-> "throttle"]>>
        oneKey == View(<<Shard(0, 0, 9, 1, 5, key), Shard(0, 0, 0, 0, 0, <<>>), Shard(0, 0, 0, 0, 0, <<>>)>>, Quiet, Quiet, Busy(20, 60), 1)
        two == [p \in Pollers |-> 2] IN
    << [Idle EXCEPT !.script = <<mid(4, 0), mid(6, 2), mid(8, 2)>>, !.maxTime = 4, !.polls = two],
      [Idle EXCEPT !.script = <<Idle.script[1], mid(4, 0), hot(0)>>, !.maxTime = 5, !.polls = [p \in Pollers |-> IF p = "p1" THEN 5 ELSE 0]],
      [Idle EXCEPT !.script = <<oneKey>>, !.maxTime = 3, !.polls = two],
      [Idle EXCEPT !.signal.enabled = FALSE, !.pressure.enabled = FALSE, !.polls = two] >>

\* Every load of two shards, for the two readings of the pressure: the digits of n say which.
SurveyLoads ==
    LET view(n) ==
            LET digit(m, base, values) == values[((n \div m) % base) + 1] IN
            View(<<Shard(digit(1, 3, <<0, 4, 8>>), 0, digit(3, 2, <<0, 2>>), digit(6, 2, <<0, 1>>), digit(12, 3, <<0, 30, 60>>), <<>>),
                   Shard(digit(36, 3, <<0, 4, 8>>), 0, digit(108, 2, <<0, 2>>), digit(216, 2, <<0, 1>>), 0, <<>>)>>,
                 Busy(8, 10), Quiet, [Busy(8, 10) EXCEPT !.overloadRejected = digit(432, 2, <<0, 6>>)], 0) IN
    [n \in 1..864 |-> [Idle EXCEPT !.script = <<view(n - 1)>>, !.summaries = TRUE,
                                   !.polls = [p \in Pollers |-> IF p = "p1" THEN 1 ELSE 0]]]

MCWorkloads == QuotaLoads \o ScaleLoads \o SurveyLoads
=============================================================================
