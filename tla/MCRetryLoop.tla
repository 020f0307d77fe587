---------------------------- MODULE MCRetryLoop ----------------------------
(* Two jobs, one idempotent under a deadline and suppression, beside one     *)
(* that is repeated at once, asks a hook, has no idempotency key, or has no  *)
(* retry policy.  The backend lane has room for one attempt.                 *)
EXTENDS RetryLoop, TLC

CONSTANTS a, b

MCJobs == {a, b}

Retry(max, min) ==
    [NoPolicy EXCEPT !.enabled = TRUE, !.maxAttempts = max, !.initial = 1, !.maxBackoff = 2,
                     !.multiplier = 2, !.jitterPct = 50, !.minBudget = min]

Suppression ==
    [enabled |-> TRUE, flags |-> {}, laneRatio |-> 0, shardRatio |-> 0,
     allowCriticalHotKey |-> FALSE, hook |-> FALSE]
NoSuppression == [Suppression EXCEPT !.enabled = FALSE]

Idem(safety, hasKey, allow) == [safety |-> safety, hasKey |-> hasKey, allowUnsafe |-> allow]
Deadline(d) == [hasDeadline |-> TRUE, deadline |-> d]
NoDeadline == [hasDeadline |-> FALSE, deadline |-> 0]

Idempotent ==
    [retry |-> Retry(3, 1), idem |-> Idem("safe", TRUE, FALSE), supp |-> Suppression,
     budget |-> Deadline(3), lane |-> "db", outcomes |-> {"ok", "retryable"}]
AtOnce ==
    [Idempotent EXCEPT !.retry = [Retry(2, 1) EXCEPT !.jitter = TRUE, !.jitterPct = 100],
                       !.supp = NoSuppression, !.budget = NoDeadline, !.outcomes = {"retryable"}]
Checked ==
    [AtOnce EXCEPT !.retry = Retry(2, 1), !.idem = Idem("requires_check", TRUE, FALSE),
                   !.supp = [Suppression EXCEPT !.hook = TRUE], !.outcomes = {"retryable", "other"}]
Keyless == [AtOnce EXCEPT !.retry = Retry(2, 1), !.idem = Idem("safe", FALSE, FALSE)]
Once == [Keyless EXCEPT !.retry = NoPolicy, !.lane = "unknown"]

MCRequests == (a :> {"idempotent"}) @@ (b :> {"at_once", "checked", "keyless", "once"})
MCRequestCfg == [idempotent |-> Idempotent, at_once |-> AtOnce, checked |-> Checked,
                 keyless |-> Keyless, once |-> Once]

MCIdempotencyPolicy == [requireKey |-> TRUE, hook |-> TRUE]
MCMaxInFlight == [l \in {"db"} |-> 1]

Calm == [pressure |-> "ok", laneRatio |-> 1, shardRatio |-> 1, laneClass |-> "background",
         hotKey |-> FALSE, scaleOut |-> FALSE]
MCSnapshots == {Calm, [Calm EXCEPT !.pressure = "pressured"]}

\* The application's classifier knows one of its own errors not to be a failure.
MCClassifier == [x \in ErrorClasses |-> IF x = "other" THEN "none" ELSE ""]
=============================================================================
