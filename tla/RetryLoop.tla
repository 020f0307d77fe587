----------------------------- MODULE RetryLoop -----------------------------
(***************************************************************************)
(* Handlers run by workers with bounded retry: the job body of SubmitValue *)
(* and SubmitRequest (submit_value.go, submit_request.go) around           *)
(* runWithRetry (retry_policy.go), with each attempt holding a lease of a  *)
(* backend lane (backend_coordinator.go, backend_stage_context.go), the    *)
(* caller's context ending at any moment, the clock running and the        *)
(* pressure of the queue, read at the decision, whatever it is then.       *)
(***************************************************************************)
EXTENDS RetryPolicy

CONSTANTS
    Jobs,               \* the jobs whose bodies run, one worker each
    Requests,           \* job -> the requests its caller may submit
    RequestCfg,         \* request -> [retry, idem, supp, budget, lane, outcomes]
    QueueRetry,         \* Config.Retry, used where the request does not override it
    QueueSuppression,   \* Config.RetrySuppression, likewise
    IdempotencyPolicy,  \* Config.Idempotency: [requireKey, hook]
    BackendEnabled,     \* BackendResourceConfig.Enabled
    MaxInFlight,        \* backend lane -> BackendLanePolicy.MaxInFlight
    Snapshots,          \* the values RetrySuppressionSnapshot takes
    WorkHorizon         \* bound: handlers spend time only up to this moment, backoff beyond it

\* What an enabled backend coordinator must be given: lanes, each with room for one operation.
ValidateBackendResourceConfig ==
    BackendEnabled => DOMAIN MaxInFlight # {} /\ \A l \in DOMAIN MaxInFlight : MaxInFlight[l] >= 1

ASSUME RetryLoopAssumption ==
    /\ IsFiniteSet(Jobs) /\ WorkHorizon \in Nat
    /\ QueueRetry \in RetryPolicies
    /\ \A j \in Jobs : \A r \in Requests[j] :
          RequestCfg[r].retry \in RetryPolicies /\ RequestCfg[r].outcomes \subseteq ErrorClasses \cup {"ok"}
    /\ MaxInFlight \in [DOMAIN MaxInFlight -> Nat] /\ ValidateBackendResourceConfig
    /\ \A j \in Jobs : \A r \in Requests[j] : ValidateRetryPolicy(NormalizeRetryPolicy(RequestCfg[r].retry))
    /\ \A j \in Jobs : \A r \in Requests[j] : ValidateRetrySuppressionPolicy(RequestCfg[r].supp)

VARIABLES
    req,        \* job -> the request its body closes over
    now,        \* clock.Now()
    ctx,        \* job -> ctx.Err(): "nil", "canceled" or "deadline"
    pc,         \* job -> where its body is
    attempt,    \* job -> attempt number of the loop
    startedAt,  \* job -> the loop's now, taken when the attempt starts
    wakeAt,     \* job -> when the backoff timer fires
    lease,      \* job -> "none", "noop", "held" or "released"
    inflight,   \* backend lane -> backendLaneState.inflight
    err,        \* job -> what the handler returned
    trace,      \* job -> retryAttempts: one record for each retry the policy allowed
    future,     \* job -> its Future: pending, or the result it was completed with
    counters    \* retryCounters

vars == <<req, now, ctx, pc, attempt, startedAt, wakeAt, lease, inflight, err, trace, future, counters>>

Cfg(j) == RequestCfg[req[j]]
Policy(j) == resolveRetryPolicy(QueueRetry, Cfg(j).retry)
\* buildRunWithRetryOpts: the suppression policy of the body.
SuppressionPolicy(j) == resolveRetrySuppressionPolicy(QueueSuppression, Cfg(j).supp)
\* The totals the properties are about; the others count the same events by reason.
CounterNames == {"attempts", "scheduled", "suppressed", "safety_suppressed", "exhausted", "failures"}

Pending == [done |-> FALSE]
Completed(failure, final) == [done |-> TRUE, failure |-> failure, final |-> final]
NoFinal == [succeeded |-> FALSE, stopped |-> "untracked", safety |-> "", suppression |-> ""]
Succeeded == [NoFinal EXCEPT !.succeeded = TRUE, !.stopped = "none"]
finalStateFromFailure(stopped, safety, suppression) ==
    [succeeded |-> FALSE, stopped |-> stopped, safety |-> safety, suppression |-> suppression]

\* retryCounters.recordFailureKind.
FailureCounters(kind) ==
    IF kind = "none" THEN {} ELSE {"failures"}

\* Mutant: a retry that does not fit the deadline counts as exhausted.
TerminalCounters_AnyStop(reason) ==
    IF reason \in {"max_attempts", "budget_too_small", "permanent_failure"} THEN {"exhausted"} ELSE {}

\* observeRetryTerminalStop, through retryCounters.record.
TerminalCounters(reason) ==
    IF reason = "max_attempts" THEN {"exhausted"} ELSE {}

Count(names) == counters' = [n \in CounterNames |-> counters[n] + (IF n \in names THEN 1 ELSE 0)]

Init ==
    /\ req \in {r \in [Jobs -> UNION {Requests[j] : j \in Jobs}] : \A j \in Jobs : r[j] \in Requests[j]}
    /\ now = 0
    /\ ctx = [j \in Jobs |-> "nil"]
    /\ pc = [j \in Jobs |-> "queued"]
    /\ attempt = [j \in Jobs |-> 1]
    /\ startedAt = [j \in Jobs |-> 0]
    /\ wakeAt = [j \in Jobs |-> 0]
    /\ lease = [j \in Jobs |-> "none"]
    /\ inflight = [l \in DOMAIN MaxInFlight |-> 0]
    /\ err = [j \in Jobs |-> NoError]
    /\ trace = [j \in Jobs |-> <<>>]
    /\ future = [j \in Jobs |-> Pending]
    /\ counters = [n \in CounterNames |-> 0]

\* future.complete: classify and store; nothing completes it twice.
Complete(j, e, beforeHandler, final) ==
    /\ future' = [future EXCEPT ![j] =
          Completed(classifyCompletionFailure(e, IsExhaustedAt(Cfg(j).budget, now), beforeHandler), final)]
    /\ pc' = [pc EXCEPT ![j] = "done"]

----------------------------------------------------------------------------
\* A worker calls the job body: a context that has already ended completes the future at once.
RunBody(j) ==
    /\ pc[j] = "queued"
    /\ \/ /\ ctx[j] # "nil"
          /\ Complete(j, Err(ctx[j]), TRUE, NoFinal)
       \/ /\ ctx[j] = "nil"
          /\ pc' = [pc EXCEPT ![j] = IF Policy(j).enabled THEN "loop" ELSE "acquire"]
          /\ UNCHANGED future
    /\ startedAt' = [startedAt EXCEPT ![j] = now]
    /\ UNCHANGED <<req, now, ctx, attempt, wakeAt, lease, inflight, err, trace, counters>>

\* The head of the loop: now is taken, the context is checked, the attempt is counted.
StartAttempt(j) ==
    /\ pc[j] = "loop"
    /\ startedAt' = [startedAt EXCEPT ![j] = now]
    /\ IF ctx[j] # "nil"
         THEN /\ Complete(j, Err(ctx[j]), TRUE, finalStateFromFailure("context_cancelled", "", ""))
              /\ Count(FailureCounters(
                    ClassifyContextErrorAt(Err(ctx[j]), IsExhaustedAt(Cfg(j).budget, now), TRUE).kind))
         ELSE /\ pc' = [pc EXCEPT ![j] = "acquire"]
              /\ Count({"attempts"})
              /\ UNCHANGED future
    /\ UNCHANGED <<req, now, ctx, attempt, wakeAt, lease, inflight, err, trace>>

\* backendCoordinator.acquire at the head of WithBackend: the error it returns, or the lease.
AcquireError(j) ==
    LET lane == Cfg(j).lane IN
    IF ctx[j] # "nil" THEN ctx[j]
    ELSE IF ~BackendEnabled THEN "nil"
    ELSE IF IsExhaustedAt(Cfg(j).budget, startedAt[j]) THEN "deadline_failure"
    ELSE IF lane \notin DOMAIN MaxInFlight THEN "backend_admission"
    ELSE IF inflight[lane] >= MaxInFlight[lane] THEN "backend_admission"
    ELSE "nil"

AcquireBackend(j) ==
    /\ pc[j] = "acquire"
    /\ IF AcquireError(j) # "nil"
         THEN /\ err' = [err EXCEPT ![j] = Err(AcquireError(j))]
              /\ pc' = [pc EXCEPT ![j] = "returned"]
              /\ UNCHANGED <<lease, inflight>>
         ELSE /\ lease' = [lease EXCEPT ![j] = IF BackendEnabled THEN "held" ELSE "noop"]
              /\ inflight' = IF BackendEnabled THEN [inflight EXCEPT ![Cfg(j).lane] = @ + 1] ELSE inflight
              /\ pc' = [pc EXCEPT ![j] = "run"]
              /\ UNCHANGED err
    /\ UNCHANGED <<req, now, ctx, attempt, startedAt, wakeAt, trace, future, counters>>

\* Mutant: the release of a lease is not guarded by sync.Once.
Release_EveryCall(j) ==
    /\ lease' = [lease EXCEPT ![j] = IF @ = "held" THEN "released" ELSE @]
    /\ inflight' = IF lease[j] \in {"held", "released"} /\ inflight[Cfg(j).lane] > 0
                     THEN [inflight EXCEPT ![Cfg(j).lane] = @ - 1] ELSE inflight

\* trackedBackendLease.Release: once, and the count never goes below zero.
Release(j) ==
    /\ lease' = [lease EXCEPT ![j] = IF @ = "held" THEN "released" ELSE @]
    /\ inflight' = IF lease[j] = "held" /\ inflight[Cfg(j).lane] > 0
                     THEN [inflight EXCEPT ![Cfg(j).lane] = @ - 1] ELSE inflight

\* The handler gives its lease back before it returns; the deferred Release comes again.
HandlerRelease(j) ==
    /\ pc[j] = "run" /\ lease[j] = "held"
    /\ Release(j)
    /\ UNCHANGED <<req, now, ctx, pc, attempt, startedAt, wakeAt, err, trace, future, counters>>

\* Mutant: WithBackend releases on success only.
HandlerReturn_LeakOnError(j) ==
    /\ pc[j] = "run"
    /\ \E c \in Cfg(j).outcomes \cup ({ctx[j]} \ {"nil"}) :
          /\ err' = [err EXCEPT ![j] = IF c = "ok" THEN NoError ELSE Err(c)]
          /\ IF c = "ok" THEN Release(j) ELSE UNCHANGED <<lease, inflight>>
    /\ pc' = [pc EXCEPT ![j] = "returned"]
    /\ UNCHANGED <<req, now, ctx, attempt, startedAt, wakeAt, trace, future, counters>>

\* The handler returns, a value or an error, its context's included; WithBackend's defer releases.
HandlerReturn(j) ==
    /\ pc[j] = "run"
    /\ Release(j)
    /\ \E c \in Cfg(j).outcomes \cup ({ctx[j]} \ {"nil"}) :
          err' = [err EXCEPT ![j] = IF c = "ok" THEN NoError ELSE Err(c)]
    /\ pc' = [pc EXCEPT ![j] = "returned"]
    /\ UNCHANGED <<req, now, ctx, attempt, startedAt, wakeAt, trace, future, counters>>

\* Without retry the body completes the future with the handler's result and counts a failure.
CompleteWithoutRetry(j) ==
    /\ pc[j] = "returned" /\ ~Policy(j).enabled
    /\ Complete(j, err[j], FALSE, NoFinal)
    /\ Count(FailureCounters(
          classifyCompletionFailure(err[j], IsExhaustedAt(Cfg(j).budget, now), FALSE).kind))
    /\ UNCHANGED <<req, now, ctx, attempt, startedAt, wakeAt, lease, inflight, err, trace>>

CompleteSuccess(j) ==
    /\ pc[j] = "returned" /\ Policy(j).enabled
    /\ err[j] = NoError
    /\ Complete(j, NoError, FALSE, Succeeded)
    /\ UNCHANGED <<req, now, ctx, attempt, startedAt, wakeAt, lease, inflight, err, trace, counters>>

\* The time DecideRetry is given: the loop's now, taken before the attempt ran.
DecisionTime(j) == startedAt[j]

\* Mutant: suppression is recorded in the trace and not acted upon.
Verdict_SuppressionIgnored(failure, decision, safety, suppress) ==
    IF failure.kind = "none" THEN "not_a_failure"
    ELSE IF ~decision.retry THEN "stop"
    ELSE IF ~safety.allow THEN "unsafe"
    ELSE "sleep"

\* What becomes of a failed attempt: retry policy, duplicate safety and suppression in this order.
Verdict(failure, decision, safety, suppress) ==
    IF failure.kind = "none" THEN "not_a_failure"
    ELSE IF ~decision.retry THEN "stop"
    ELSE IF ~safety.allow THEN "unsafe"
    ELSE IF suppress.suppress THEN "suppressed"
    ELSE "sleep"

\* The body stops with its failure or sleeps, as the verdict says; a retry that was considered leaves
\* its record.
ActOnVerdict(j, delay, failure, decision, safety, suppress) ==
    LET verdict == Verdict(failure, decision, safety, suppress)
        record  == [attempt |-> attempt[j], at |-> now, delay |-> delay, safety |-> safety.reason,
                    refused |-> ~safety.allow \/ suppress.suppress]
        stop(final, names) ==
            /\ Complete(j, err[j], FALSE, final)
            /\ Count(names \cup FailureCounters(failure.kind))
            /\ UNCHANGED wakeAt
    IN  /\ trace' = IF verdict \in {"unsafe", "suppressed", "sleep"}
                      THEN [trace EXCEPT ![j] = Append(@, record)] ELSE trace
        /\ \/ verdict = "not_a_failure" /\ stop(NoFinal, {})
           \/ verdict = "stop" /\ stop(finalStateFromFailure(decision.reason, "", ""),
                                       TerminalCounters(decision.reason))
           \/ verdict = "unsafe" /\ stop(finalStateFromFailure(decision.reason, safety.reason, ""),
                                         {"safety_suppressed"})
           \/ verdict = "suppressed" /\ stop(
                 finalStateFromFailure(decision.reason, safety.reason, suppress.reason), {"suppressed"})
           \/ /\ verdict = "sleep"
              /\ pc' = [pc EXCEPT ![j] = "sleep"]
              /\ wakeAt' = [wakeAt EXCEPT ![j] = now + delay]
              /\ Count({"scheduled"} \cup FailureCounters(failure.kind))
              /\ UNCHANGED future

\* A failed attempt is classified and judged: retry policy, duplicate safety, suppression.
DecideAfterFailure(j) ==
    LET failure == classifyFailureWithPolicy(err[j]) IN
    /\ pc[j] = "returned" /\ Policy(j).enabled
    /\ err[j] # NoError
    /\ \E delay \in RetryDelay(Policy(j), attempt[j]),
          safetyAnswer \in SafetyHookAnswers(Cfg(j).idem, IdempotencyPolicy),
          snap \in Snapshots,
          suppressAnswer \in SuppressionHookAnswers(SuppressionPolicy(j)) :
       ActOnVerdict(j, delay, failure,
          DecideRetry(Policy(j), ctx[j], attempt[j], failure, Cfg(j).budget, DecisionTime(j), delay),
          DecideRetrySafety(Policy(j), Cfg(j).idem, IdempotencyPolicy, safetyAnswer),
          DecideRetrySuppression(SuppressionPolicy(j), snap, failure, attempt[j], suppressAnswer))
    /\ UNCHANGED <<req, now, ctx, attempt, startedAt, lease, inflight, err>>

\* Mutant: a sleep does not end once the context has ended.
SleepEnds_UnlessCancelled(j) ==
    /\ pc[j] = "sleep" /\ now >= wakeAt[j] /\ ctx[j] = "nil"
    /\ pc' = [pc EXCEPT ![j] = "loop"]
    /\ attempt' = [attempt EXCEPT ![j] = @ + 1]
    /\ lease' = [lease EXCEPT ![j] = "none"]
    /\ UNCHANGED <<req, now, ctx, startedAt, wakeAt, inflight, err, trace, future, counters>>

\* realRetryClock.Sleep: the timer fires ...
SleepEnds(j) ==
    /\ pc[j] = "sleep" /\ now >= wakeAt[j]
    /\ pc' = [pc EXCEPT ![j] = "loop"]
    /\ attempt' = [attempt EXCEPT ![j] = @ + 1]
    /\ lease' = [lease EXCEPT ![j] = "none"]
    /\ UNCHANGED <<req, now, ctx, startedAt, wakeAt, inflight, err, trace, future, counters>>

\* ... or the context ends first; select may take either when both are ready.  A sleep of zero
\* returns without looking at the context.
SleepCancelled(j) ==
    /\ pc[j] = "sleep" /\ ctx[j] # "nil"
    /\ trace[j][Len(trace[j])].delay > 0
    /\ Complete(j, Err(ctx[j]), TRUE,
                finalStateFromFailure("context_cancelled", trace[j][Len(trace[j])].safety, ""))
    /\ Count(FailureCounters(
          ClassifyContextErrorAt(Err(ctx[j]), IsExhaustedAt(Cfg(j).budget, now), TRUE).kind))
    /\ UNCHANGED <<req, now, ctx, attempt, startedAt, wakeAt, lease, inflight, err, trace>>

----------------------------------------------------------------------------
\* The environment: the clock and the callers' contexts.
Tick ==
    /\ now < WorkHorizon \/ \E j \in Jobs : pc[j] = "sleep" /\ now < wakeAt[j]
    /\ now' = now + 1
    /\ UNCHANGED <<req, ctx, pc, attempt, startedAt, wakeAt, lease, inflight, err, trace, future, counters>>

ContextEnds(j) ==
    /\ ctx[j] = "nil" /\ pc[j] # "done"
    /\ \/ ctx' = [ctx EXCEPT ![j] = "canceled"]
       \/ IsExhaustedAt(Cfg(j).budget, now) /\ ctx' = [ctx EXCEPT ![j] = "deadline"]
    /\ UNCHANGED <<req, now, pc, attempt, startedAt, wakeAt, lease, inflight, err, trace, future, counters>>

JobStep(j) ==
    \/ RunBody(j) \/ StartAttempt(j) \/ AcquireBackend(j) \/ HandlerReturn(j)
    \/ CompleteWithoutRetry(j) \/ CompleteSuccess(j) \/ DecideAfterFailure(j)
    \/ SleepEnds(j) \/ SleepCancelled(j)

Next ==
    \/ \E j \in Jobs : JobStep(j) \/ HandlerRelease(j) \/ ContextEnds(j)
    \/ Tick

Spec == Init /\ [][Next]_vars

\* Workers run, handlers return, time passes: a worker never blocks but in the backoff timer.
Fairness == WF_vars(Tick) /\ \A j \in Jobs : WF_vars(JobStep(j))
FairSpec == Spec /\ Fairness

----------------------------------------------------------------------------
\* Every variable has its type; the attempt number of a job never passes MaxAttempts
\* (retry_policy.go:461, the loop, against DecideRetry's own bound).
TypeOK ==
    /\ \A j \in Jobs : req[j] \in Requests[j]
    /\ now \in Nat
    /\ ctx \in [Jobs -> {"nil", "canceled", "deadline"}]
    /\ pc \in [Jobs -> {"queued", "loop", "acquire", "run", "returned", "sleep", "done"}]
    /\ \A j \in Jobs : attempt[j] \in 1..(IF Policy(j).enabled THEN Policy(j).maxAttempts ELSE 1)
    /\ startedAt \in [Jobs -> Nat] /\ wakeAt \in [Jobs -> Nat]
    /\ lease \in [Jobs -> {"none", "noop", "held", "released"}]
    /\ inflight \in [DOMAIN MaxInFlight -> Nat]
    /\ \A j \in Jobs : err[j] = NoError \/ err[j].class \in ErrorClasses
    /\ \A j \in Jobs : future[j] = Pending \/ future[j].failure.kind \in FailureKinds
    /\ counters \in [CounterNames -> Nat]

\* A backend lane's in-flight count is the number of leases its holders have not given back, and
\* never passes MaxInFlight: across retries, early and repeated Release calls and failed attempts
\* (backend_coordinator.go:85-117, backend_lease.go:22).
LeaseLedger ==
    \A l \in DOMAIN MaxInFlight :
        /\ inflight[l] = Cardinality({j \in Jobs : lease[j] = "held" /\ Cfg(j).lane = l})
        /\ inflight[l] <= MaxInFlight[l]

\* A lease is held only while its handler runs: no retry sleep, no finished job keeps one
\* (backend_stage_context.go:44, the deferred Release).
NoLeaseWhileIdle == \A j \in Jobs : lease[j] = "held" => pc[j] = "run"

\* A handler that is not declared safe to duplicate runs once: not when unsafe or unspecified
\* without the explicit override, not without a key when keys are required (idempotency.go:112).
NoUnsafeDuplicate ==
    \A j \in Jobs :
        LET idem == Cfg(j).idem
            override == idem.safety = "unsafe" /\ idem.allowUnsafe
            forbidden == \/ idem.safety \notin {"safe", "requires_check"}
                         \/ idem.safety = "requires_check" /\ ~IdempotencyPolicy.hook
                         \/ IdempotencyPolicy.requireKey /\ ~idem.hasKey
        IN  forbidden /\ ~override => attempt[j] = 1

Retrying == {j \in Jobs : Policy(j).enabled}
\* The jobs whose retry loop ended for this reason, and every record of every trace.
Stopped(reason) == {j \in Retrying : future[j].done /\ future[j].final.stopped = reason}
Traced == UNION {{j} \X DOMAIN trace[j] : j \in Jobs}

\* The counters tell the story of the traces: every retry the policy allowed was scheduled,
\* suppressed or refused as unsafe, exactly one of them; every scheduled retry started its attempt,
\* is asleep, or was ended by its context; a job is exhausted when it stops at MaxAttempts
\* (retry_counters.go:198).
RetryLedger ==
    /\ counters["scheduled"] + counters["suppressed"] + counters["safety_suppressed"] = Cardinality(Traced)
    /\ counters["exhausted"] = Cardinality(Stopped("max_attempts"))
    /\ counters["attempts"] <= Cardinality(Retrying) + counters["scheduled"]
    /\ counters["failures"] <= counters["attempts"] + Cardinality(Stopped("context_cancelled"))
                               + Cardinality(Jobs \ Retrying)
    /\ \A j \in Stopped("max_attempts") : Len(trace[j]) = Policy(j).maxAttempts - 1

\* A retry that pressure, overload or a hot key suppressed is not run: the attempt after a
\* suppressed or unsafe record never starts, and its future keeps the attempt's own failure
\* (retry_policy.go:597-610).
SuppressedIsFinal ==
    \A j \in Jobs : \A i \in DOMAIN trace[j] :
        trace[j][i].refused =>
            /\ i = Len(trace[j]) /\ attempt[j] = i
            /\ future[j].done /\ future[j].failure.kind # "none"

\* Every job's future is completed, whatever fails, sleeps or is cancelled on the way
\* (submit_request.go:92-170).
EveryFutureCompletes == \A j \in Jobs : <>(future[j].done)

\* What docs/deadline-budget.md:25 says: "Before each retry, Keylane checks
\* `remaining >= backoff_delay + MinRemainingBudget`", at the moment the retry is scheduled.
RetryFitsBudget ==
    \A j \in Jobs : pc[j] = "sleep" /\ Cfg(j).budget.hasDeadline =>
        LET r == trace[j][Len(trace[j])]
        IN  RemainingAt(Cfg(j).budget, r.at) >= r.delay + Policy(j).minBudget
=============================================================================
