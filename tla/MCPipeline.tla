----------------------------- MODULE MCPipeline -----------------------------
(* One request with a deadline and two completer calls on its continuation; *)
(* or one that is retried and may be cancelled; or two requests of a shard   *)
(* that has room for one pending continuation and one queued job.            *)
EXTENDS Pipeline, TLC

CONSTANTS req_deadline, req_retry, req_first, req_second

MCReqs == {req_deadline, req_retry, req_first, req_second}
MCWorkloads == {{req_deadline}, {req_retry}, {req_first, req_second}}
MCShardOf == [r \in MCReqs |-> 0]
MCStages == [r \in MCReqs |-> IF r = req_retry THEN <<"cont", "sync">> ELSE <<"cont">>]
MCCallers == [r \in MCReqs |-> IF r = req_deadline THEN {1, 2} ELSE {1}]
AtOnce == [NoPolicy EXCEPT !.enabled = TRUE, !.maxAttempts = 2, !.initial = 1, !.maxBackoff = 2,
                           !.multiplier = 2, !.jitter = TRUE, !.jitterPct = 100, !.minBudget = 1]
MCRetry == [r \in MCReqs |-> IF r = req_retry THEN AtOnce ELSE NoPolicy]
MCIdem == [safety |-> "safe", hasKey |-> TRUE, allowUnsafe |-> FALSE]
MCIdemPolicy == [requireKey |-> TRUE, hook |-> FALSE]
MCSuppression == [enabled |-> TRUE, flags |-> {}, laneRatio |-> 0, shardRatio |-> 0,
                  allowCriticalHotKey |-> FALSE, hook |-> FALSE]
MCSnapshots == {[pressure |-> x, laneRatio |-> 1, shardRatio |-> 1, laneClass |-> "background",
                 hotKey |-> FALSE, scaleOut |-> FALSE] : x \in {"ok", "pressured"}}
MCClassifier == [x \in ErrorClasses |-> ""]
=============================================================================
