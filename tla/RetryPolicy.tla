---------------------------- MODULE RetryPolicy ----------------------------
(***************************************************************************)
(* The decisions behind a retry, as operators: what kind of failure an     *)
(* error is (failure.go, future.go), whether another attempt may run and   *)
(* after which delay (retry_policy.go), whether the job may be duplicated  *)
(* (idempotency.go) and whether the queue is healthy enough to take the    *)
(* retry (retry_suppression.go).  RetryLoop and Pipeline build on it.      *)
(*                                                                         *)
(* An error is a record [class, stage]: class is what errors.Is and        *)
(* errors.As can tell of it, stage says that a StageFailure wraps it.      *)
(* Durations and times are naturals.                                       *)
(***************************************************************************)
EXTENDS Integers, FiniteSets, Sequences

CONSTANTS
    DurationMax,   \* the largest time.Duration (2^63 - 1 nanoseconds in the code)
    Classifier     \* FailurePolicy.Classifier: class -> failure kind, "" where it does not answer

FailureKinds == {"none", "retryable", "permanent", "timeout", "cancelled", "overloaded",
                 "rejected", "deadline_exhausted", "panic", "unknown"}

\* Classes of a typed Failure (errors.As finds one) and the kind it carries.
TypedKind == [retryable |-> "retryable", permanent |-> "permanent",
              budget |-> "deadline_exhausted", deadline_failure |-> "deadline_exhausted"]

OverloadClasses == {"overload_rejected", "overload_shed", "overload_degraded"}
PerKeyClasses == {"perkey_rejected", "perkey_throttled", "perkey_shed"}
AdmissionClasses == {"admission_rejected"}
QueueClasses == {"queue_full", "stopped", "not_started", "invalid"}
ErrorClasses == DOMAIN TypedKind \cup OverloadClasses \cup PerKeyClasses \cup AdmissionClasses
                \cup QueueClasses \cup {"canceled", "deadline", "backend_admission", "other"}

ASSUME RetryPolicyAssumption ==
    /\ DurationMax \in Nat
    /\ Classifier \in [ErrorClasses -> FailureKinds \cup {""}]

NoError == [class |-> "nil", stage |-> FALSE]
Err(class) == [class |-> class, stage |-> FALSE]
NewStageFailure(err) == [err EXCEPT !.stage = TRUE]

\* errors.Is(err, context.Canceled) and errors.Is(err, context.DeadlineExceeded): the sentinel of
\* an exhausted pipeline budget, and a Failure wrapping the context error, both unwrap to it.
IsCanceled(err) == err.class = "canceled"
IsDeadlineExceeded(err) == err.class \in {"deadline", "budget", "deadline_failure"}

NewFailure(kind, class) == [kind |-> kind, retryable |-> kind = "retryable", cause |-> class]
NoFailure == NewFailure("none", "nil")

isOverloadError(class) == class \in OverloadClasses
isRejectedError(class) == class \in AdmissionClasses \cup QueueClasses \cup PerKeyClasses

classifyDefault(err) ==
    LET c == err.class IN
    CASE c = "nil" -> NoFailure
      [] c \in DOMAIN TypedKind -> NewFailure(TypedKind[c], c)
      [] c = "canceled" -> NewFailure("cancelled", c)
      [] c = "deadline" -> NewFailure("timeout", c)
      [] isOverloadError(c) -> NewFailure("overloaded", c)
      [] isRejectedError(c) ->
            [NewFailure("rejected", c) EXCEPT !.retryable = (c = "perkey_throttled")]
      [] OTHER -> NewFailure("unknown", c)

classifyFailureWithPolicy(err) ==
    LET c == err.class IN
    IF c = "nil" \/ c \in DOMAIN TypedKind \/ Classifier[c] \in {"", "unknown"}
      THEN classifyDefault(err)
      ELSE NewFailure(Classifier[c], c)

\* ClassifyContextErrorAt: a deadline that passed before the handler ran is exhaustion, one that
\* passed during it is a timeout.
ClassifyContextErrorAt(err, exhausted, beforeHandler) ==
    IF err.class = "nil" THEN NoFailure
    ELSE IF IsCanceled(err) THEN NewFailure("cancelled", err.class)
    ELSE IF IsDeadlineExceeded(err) /\ beforeHandler /\ exhausted THEN
            NewFailure("deadline_exhausted", err.class)
    ELSE IF IsDeadlineExceeded(err) THEN NewFailure("timeout", err.class)
    ELSE classifyDefault(err)

\* The classification a Future stores: the pre-stage budget sentinel keeps its kind, every other
\* context error is classified by phase, the rest by policy.
classifyCompletionFailure(err, exhausted, beforeHandler) ==
    IF err.class = "nil" THEN NoFailure
    ELSE IF err.stage /\ err.class = "budget" THEN classifyFailureWithPolicy(err)
    ELSE IF IsCanceled(err) \/ IsDeadlineExceeded(err) THEN
            ClassifyContextErrorAt(err, exhausted, beforeHandler)
    ELSE classifyFailureWithPolicy(err)

----------------------------------------------------------------------------
(* The retry policy: enabled, maxAttempts, initial, maxBackoff, multiplier, *)
(* jitter, jitterPct (JitterFraction in percent), minBudget, kinds.         *)

RetryPolicies ==
    [enabled : BOOLEAN, maxAttempts : Int, initial : Int, maxBackoff : Int, multiplier : Int,
     jitter : BOOLEAN, jitterPct : Int, minBudget : Int, kinds : SUBSET FailureKinds]

NoPolicy == [enabled |-> FALSE, maxAttempts |-> 0, initial |-> 0, maxBackoff |-> 0, multiplier |-> 0,
             jitter |-> FALSE, jitterPct |-> 0, minBudget |-> 0, kinds |-> {}]

\* The defaults 3 attempts, 10ms, 250ms, 2.0 and 20%, in a time unit of 10ms.
OrDefault(x, default) == IF x <= 0 THEN default ELSE x

NormalizeRetryPolicy(p) ==
    IF ~p.enabled THEN p
    ELSE LET initial == OrDefault(p.initial, 1) IN
         [p EXCEPT !.maxAttempts = OrDefault(@, 3),
                   !.initial     = initial,
                   !.maxBackoff  = OrDefault(@, 25),
                   !.multiplier  = OrDefault(@, 2),
                   !.jitter      = @ \/ p.jitterPct <= 0,
                   !.jitterPct   = OrDefault(@, 20),
                   !.minBudget   = OrDefault(@, initial)]

ValidateRetryPolicy(p) ==
    p.enabled =>
       /\ p.maxAttempts >= 1
       /\ p.initial >= 0 /\ p.minBudget >= 0
       /\ p.maxBackoff > 0 => p.maxBackoff >= p.initial
       /\ p.jitterPct \in 0..100

resolveRetryPolicy(queue, override) ==
    IF override.enabled THEN NormalizeRetryPolicy(override)
    ELSE IF queue.enabled THEN NormalizeRetryPolicy(queue)
    ELSE NoPolicy

\* time.Duration(float64): a value the type cannot hold converts to the smallest value or to the
\* largest one, by the architecture the binary is built for.
ToDuration(x) == IF x <= DurationMax THEN {x} ELSE {-(DurationMax + 1), DurationMax}

\* The delays RetryDelay may return before attempt + 1: exponential, capped, then spread by jitter,
\* never negative.
RetryDelay(p, attempt) ==
    LET base    == p.initial * p.multiplier ^ (attempt - 1)
        capped  == {IF d > p.maxBackoff THEN p.maxBackoff ELSE d : d \in ToDuration(base)}
        spread(d) == IF p.jitter /\ d > 0 THEN (d * p.jitterPct) \div 100 ELSE 0
        spreads == UNION {(d - spread(d))..(d + spread(d)) : d \in capped}
    IN  {IF d < 0 THEN 0 ELSE d : d \in spreads}

isRetryableFailure(p, failure) ==
    IF failure.kind = "none" THEN FALSE
    ELSE IF p.kinds # {} THEN failure.kind \in p.kinds
    ELSE failure.kind = "retryable"

\* A deadline budget: hasDeadline and the deadline itself.
RemainingAt(budget, now) ==
    IF budget.hasDeadline /\ budget.deadline > now THEN budget.deadline - now ELSE 0
IsExhaustedAt(budget, now) == budget.hasDeadline /\ now >= budget.deadline

\* Mutant: MaxAttempts counts the retries and not the attempts.
DecideRetry_OneMore(p, ctxErr, attempt, failure, budget, now, delay) ==
    LET remaining == RemainingAt(budget, now)
        stop(reason) == [retry |-> FALSE, reason |-> reason]
    IN  IF ~p.enabled THEN stop("disabled")
        ELSE IF ctxErr # "nil" THEN stop("context_cancelled")
        ELSE IF attempt > p.maxAttempts THEN stop("max_attempts")
        ELSE IF ~isRetryableFailure(p, failure) THEN stop("permanent_failure")
        ELSE IF IsExhaustedAt(budget, now) THEN stop("deadline_exhausted")
        ELSE IF budget.hasDeadline /\ remaining < delay + p.minBudget THEN
                stop(IF remaining = 0 THEN "deadline_exhausted" ELSE "budget_too_small")
        ELSE [retry |-> TRUE, reason |-> "retryable_failure"]

\* DecideRetry: the reason, and the retry it allows; the order of the tests is the code's.
DecideRetry(p, ctxErr, attempt, failure, budget, now, delay) ==
    LET remaining == RemainingAt(budget, now)
        stop(reason) == [retry |-> FALSE, reason |-> reason]
    IN  IF ~p.enabled THEN stop("disabled")
        ELSE IF ctxErr # "nil" THEN stop("context_cancelled")
        ELSE IF attempt >= p.maxAttempts THEN stop("max_attempts")
        ELSE IF ~isRetryableFailure(p, failure) THEN stop("permanent_failure")
        ELSE IF IsExhaustedAt(budget, now) THEN stop("deadline_exhausted")
        ELSE IF budget.hasDeadline /\ remaining < delay + p.minBudget THEN
                stop(IF remaining = 0 THEN "deadline_exhausted" ELSE "budget_too_small")
        ELSE [retry |-> TRUE, reason |-> "retryable_failure"]

----------------------------------------------------------------------------
(* Duplicate safety.  idem is [safety, hasKey, allowUnsafe], pol is         *)
(* [requireKey, hook]; a hook that is set answers or panics.                *)

HookPanic == [allow |-> FALSE, reason |-> "panic"]
SafetyHookAnswers(idem, pol) ==
    IF pol.hook /\ idem.safety = "requires_check"
      THEN {HookPanic} \cup [allow : BOOLEAN, reason : {"", "safe", "unsafe"}]
      ELSE {HookPanic}

normalizeRetrySafetyHookDecision(d) ==
    CASE d.allow /\ d.reason \in {"", "unsafe"} -> [d EXCEPT !.reason = "hook_allowed"]
      [] ~d.allow /\ d.reason \in {"", "safe"}  -> [d EXCEPT !.reason = "hook_rejected"]
      [] OTHER -> d

\* Mutant: a missing idempotency key is ignored.
DecideRetrySafety_KeyOptional(p, idem, pol, answer) ==
    LET result(allow, reason) == [allow |-> allow, reason |-> reason]
    IN  IF ~p.enabled THEN result(TRUE, "safe")
        ELSE IF idem.safety = "unsafe" /\ idem.allowUnsafe THEN result(TRUE, "explicit_override")
        ELSE IF idem.safety = "safe" THEN result(TRUE, "safe")
        ELSE IF idem.safety = "requires_check" /\ ~pol.hook THEN result(FALSE, "no_hook")
        ELSE IF idem.safety = "requires_check" /\ answer = HookPanic THEN result(FALSE, "hook_failed")
        ELSE IF idem.safety = "requires_check" THEN normalizeRetrySafetyHookDecision(answer)
        ELSE result(FALSE, "unsafe")

DecideRetrySafety(p, idem, pol, answer) ==
    LET result(allow, reason) == [allow |-> allow, reason |-> reason]
    IN  IF ~p.enabled THEN result(TRUE, "safe")
        ELSE IF idem.safety = "unsafe" /\ idem.allowUnsafe THEN result(TRUE, "explicit_override")
        ELSE IF pol.requireKey /\ ~idem.hasKey THEN result(FALSE, "missing_idempotency_key")
        ELSE IF idem.safety = "safe" THEN result(TRUE, "safe")
        ELSE IF idem.safety = "requires_check" /\ ~pol.hook THEN result(FALSE, "no_hook")
        ELSE IF idem.safety = "requires_check" /\ answer = HookPanic THEN result(FALSE, "hook_failed")
        ELSE IF idem.safety = "requires_check" THEN normalizeRetrySafetyHookDecision(answer)
        ELSE result(FALSE, "unsafe")

----------------------------------------------------------------------------
(* Suppression.  snap is RetrySuppressionSnapshot with its ratios in tenths *)
(* and pressure in {"ok", "pressured", "overloaded"}.                       *)

PressuredDepthRatio == 7
isNonCriticalLaneClass(class) == class \in {"background", "best_effort"}

SuppressionFlags == {"overloaded", "pressured", "overloadFailures", "admissionFailures",
                     "perKeyFailures", "hotKey", "scaleOut"}

\* A policy is [enabled, flags, laneRatio, shardRatio, allowCriticalHotKey, hook]: a policy that
\* sets nothing gets every flag, and a zero ratio the default.
NormalizeRetrySuppressionPolicy(pol) ==
    IF ~pol.enabled THEN pol
    ELSE LET unset == pol.flags = {} /\ pol.laneRatio = 0 /\ pol.shardRatio = 0 /\ ~pol.hook IN
         [pol EXCEPT !.flags = IF unset THEN SuppressionFlags ELSE @,
                     !.laneRatio  = IF @ = 0 THEN PressuredDepthRatio ELSE @,
                     !.shardRatio = IF @ = 0 THEN PressuredDepthRatio ELSE @]

ValidateRetrySuppressionPolicy(pol) ==
    pol.enabled => pol.laneRatio \in 0..10 /\ pol.shardRatio \in 0..10

resolveRetrySuppressionPolicy(queue, override) ==
    IF override.enabled THEN NormalizeRetrySuppressionPolicy(override)
    ELSE IF queue.enabled THEN NormalizeRetrySuppressionPolicy(queue)
    ELSE queue

isPerKeyAdmissionFailure(failure) == failure.cause \in PerKeyClasses
isGeneralAdmissionFailure(failure) ==
    failure.kind = "rejected" /\ failure.cause \in AdmissionClasses

\* The hot key rule: never on a non-critical lane, once on a critical lane that was given permission.
SuppressHotKey(pol, snap, attempt) ==
    /\ "hotKey" \in pol.flags /\ snap.hotKey
    /\ \/ isNonCriticalLaneClass(snap.laneClass)
       \/ snap.laneClass = "critical" /\ (~pol.allowCriticalHotKey \/ attempt > 1)

SuppressionHookAnswers(pol) ==
    IF pol.enabled /\ pol.hook THEN {"panic", "allow", "suppress"} ELSE {"allow"}

DecideRetrySuppression(pol, snap, failure, attempt, answer) ==
    LET is(flag) == flag \in pol.flags
        suppress(reason) == [suppress |-> TRUE, reason |-> reason]
        pass(reason) == [suppress |-> FALSE, reason |-> reason]
        nonCritical == isNonCriticalLaneClass(snap.laneClass)
    IN  IF ~pol.enabled THEN pass("disabled")
        ELSE IF is("overloadFailures") /\ failure.kind = "overloaded" THEN suppress("overload_failure")
        ELSE IF is("admissionFailures") /\ isGeneralAdmissionFailure(failure) THEN suppress("admission_failure")
        ELSE IF is("perKeyFailures") /\ isPerKeyAdmissionFailure(failure) THEN suppress("per_key_admission")
        ELSE IF is("overloaded") /\ snap.pressure = "overloaded" THEN suppress("global_overload")
        ELSE IF is("pressured") /\ snap.pressure = "pressured" /\ nonCritical THEN
                suppress("global_pressure")
        ELSE IF pol.laneRatio > 0 /\ snap.laneRatio >= pol.laneRatio THEN suppress("lane_pressure")
        ELSE IF pol.shardRatio > 0 /\ snap.shardRatio >= pol.shardRatio THEN suppress("shard_pressure")
        ELSE IF SuppressHotKey(pol, snap, attempt) THEN suppress("hot_key")
        ELSE IF is("scaleOut") /\ snap.scaleOut /\ nonCritical THEN suppress("scale_out_recommended")
        ELSE IF answer = "panic" THEN suppress("hook_failed")
        ELSE IF answer = "suppress" THEN suppress("hook_rejected")
        ELSE pass("none")
=============================================================================
