------------------------------ MODULE Pipeline ------------------------------
(***************************************************************************)
(* Pipelines with continuation stages: submit_pipeline_continuation.go,    *)
(* continuation.go and continuation_registry.go.                           *)
(*                                                                         *)
(* An attempt of a request is driven by one thread at a time: a queued     *)
(* job, the worker that runs its stages, the resolution goroutine of the   *)
(* continuation it yielded to, or a backoff sleep.  Beside the drivers run *)
(* the completers, which application code calls from any goroutine, at any *)
(* time, more than once; the contexts of the requests, which end at any    *)
(* time; and the queue, which fills, stops, or has its workers cancelled.  *)
(***************************************************************************)
EXTENDS RetryPolicy

CONSTANTS
    Reqs,               \* the requests
    Workloads,          \* sets of requests: what is submitted in one behaviour
    HasDeadline,        \* the requests whose context has a deadline
    Cancellable,        \* the requests whose context may be cancelled
    Stages,             \* request -> sequence of "sync" and "cont": its pipeline's stages
    StageErrors,        \* classes of the errors stages and completers report
    Callers,            \* request -> the completer calls made on each of its continuations
    ShardOf,            \* request -> shard of its key
    MaxPending,         \* ContinuationConfig.MaxPending, 0 for no limit
    MaxPendingPerShard, \* ContinuationConfig.MaxPendingPerShard, 0 for no limit
    QueueCap,           \* room in the lane for queued jobs
    Retry,              \* request -> the retry policy of its pipeline
    Idem, IdemPolicy,   \* duplicate-safety metadata and policy
    Suppression, Snapshots \* retry suppression policy and what it may read

ASSUME PipelineAssumption ==
    /\ Workloads \subseteq SUBSET Reqs /\ HasDeadline \subseteq Reqs /\ Cancellable \subseteq Reqs
    /\ \A r \in Reqs : Stages[r] \in Seq({"sync", "cont"}) /\ Stages[r] # <<>>
    /\ StageErrors \subseteq ErrorClasses
    /\ \A r \in Reqs : Retry[r] \in RetryPolicies
    /\ MaxPending \in Nat /\ MaxPendingPerShard \in Nat /\ QueueCap \in Nat

Policy(r) == NormalizeRetryPolicy(Retry[r])
Attempts(r) == 1..(IF Policy(r).enabled THEN Policy(r).maxAttempts ELSE 1)
Threads == UNION {{r} \X Attempts(r) : r \in Reqs}
Conts == UNION {{r} \X Attempts(r) \X {s \in DOMAIN Stages[r] : Stages[r][s] = "cont"} : r \in Reqs}
Shards == {ShardOf[r] : r \in Reqs}

VARIABLES
    workload,  \* the requests submitted in this behaviour
    ctx,       \* request -> "nil", "expired" (deadline passed, not yet reported), "deadline", "canceled"
    future,    \* request -> its Future: "unsubmitted", "pending", "ok" or "failed"
    completed, \* request -> number of calls of future.complete
    pc,        \* thread -> what drives the attempt
    stage,     \* thread -> stage index
    err,       \* thread -> the error completeFailed was called with
    outcome,   \* thread -> what its resolver took: an outcome kind, or "ctx" when the context ended it
    cont,      \* continuation -> [created, done, buf, once, handler, late]
    call,      \* continuation, caller -> "idle", "checked", "true", "false"
    registry,  \* continuationRegistry.pending
    perShard,  \* continuationRegistry.perShard
    counters,  \* completed, failed, cancelled, late, resumeRejected, registered
    stopped,   \* the scheduler refuses new jobs
    killed     \* the workers' context is cancelled: queued jobs are dropped

vars == <<workload, ctx, future, completed, pc, stage, err, outcome, cont, call, registry, perShard, counters,
          stopped, killed>>
threadVars == <<pc, stage, err, outcome>>
registryVars == <<registry, perShard, counters>>
queueVars == <<workload, stopped, killed>>

NewContinuation == [created |-> FALSE, done |-> FALSE, buf |-> "empty", once |-> FALSE,
                    handler |-> FALSE, late |-> FALSE]
CounterNames == {"registered", "complete", "fail", "cancel", "late", "resumeRejected"}

Init ==
    /\ workload \in Workloads
    /\ ctx = [r \in Reqs |-> "nil"]
    /\ future = [r \in Reqs |-> "unsubmitted"]
    /\ completed = [r \in Reqs |-> 0]
    /\ pc = [t \in Threads |-> "none"]
    /\ stage = [t \in Threads |-> 1]
    /\ err = [t \in Threads |-> NoError]
    /\ outcome = [t \in Threads |-> "none"]
    /\ cont = [c \in Conts |-> NewContinuation]
    /\ call = [c \in Conts |-> [k \in Callers[c[1]] |-> "idle"]]
    /\ registry = {}
    /\ perShard = [s \in Shards |-> 0]
    /\ counters = [n \in CounterNames |-> 0]
    /\ stopped = FALSE /\ killed = FALSE

CtxErr(r) == IF ctx[r] \in {"canceled", "deadline"} THEN ctx[r] ELSE "nil"
BudgetExhausted(r) == ctx[r] \in {"expired", "deadline"}
ContOf(t) == <<t[1], t[2], stage[t]>>
Bump(name) == counters' = [counters EXCEPT ![name] = @ + 1]

\* enqueueContinuationJob: the queue takes the job or reports it full or stopped.
CanEnqueue(r) ==
    /\ ~stopped
    /\ QueueCap > Cardinality({t \in Threads : ShardOf[t[1]] = ShardOf[r] /\ pc[t] \in {"queued", "resume"}})
EnqueueError == IF stopped THEN "stopped" ELSE "queue_full"

\* future.complete with an error (or none); only the first call counts.
CompleteFuture(r, e) ==
    /\ future' = [future EXCEPT ![r] = IF @ \notin {"pending", "unsubmitted"} THEN @
                                       ELSE IF e = NoError THEN "ok" ELSE "failed"]
    /\ completed' = [completed EXCEPT ![r] = @ + 1]

----------------------------------------------------------------------------
(* Submission and the jobs.                                                *)

\* submitPipelineWithContinuation: a context that ended, an overload, admission or per-key
\* rejection and a refused enqueue complete the future; otherwise attempt 1 is queued.
SubmitPipeline(r) ==
    /\ r \in workload /\ future[r] = "unsubmitted"
    /\ \/ /\ CtxErr(r) # "nil"
          /\ CompleteFuture(r, Err(CtxErr(r)))
          /\ UNCHANGED pc
       \/ /\ CtxErr(r) = "nil"
          /\ \E c \in {"overload_rejected", "admission_rejected", "perkey_shed"} :
                CompleteFuture(r, Err(c))
          /\ UNCHANGED pc
       \/ /\ CtxErr(r) = "nil" /\ ~CanEnqueue(r)
          /\ CompleteFuture(r, Err(EnqueueError))
          /\ UNCHANGED pc
       \/ /\ CtxErr(r) = "nil" /\ CanEnqueue(r)
          /\ pc' = [pc EXCEPT ![<<r, 1>>] = "queued"]
          /\ future' = [future EXCEPT ![r] = "pending"]
          /\ UNCHANGED completed
    /\ UNCHANGED <<ctx, stage, err, outcome, cont, call, registryVars, queueVars>>

\* A worker runs the job of an attempt: an ended context completes the future, no stage runs.
RunJob(t) ==
    /\ pc[t] = "queued" /\ ~killed
    /\ IF CtxErr(t[1]) # "nil"
         THEN /\ CompleteFuture(t[1], Err(CtxErr(t[1])))
              /\ pc' = [pc EXCEPT ![t] = "ended"]
         ELSE /\ pc' = [pc EXCEPT ![t] = "stage"]
              /\ UNCHANGED <<future, completed>>
    /\ UNCHANGED <<ctx, stage, err, outcome, cont, call, registryVars, queueVars>>

\* A worker runs the resume job: the loop continues after the stage that yielded.
RunResume(t) ==
    /\ pc[t] = "resume" /\ ~killed
    /\ pc' = [pc EXCEPT ![t] = "stage"]
    /\ stage' = [stage EXCEPT ![t] = @ + 1]
    /\ UNCHANGED <<ctx, future, completed, err, outcome, cont, call, registryVars, queueVars>>

\* A cancelled worker drops the batch it dequeued; nobody completes the future of a dropped job.
DropJob(t) ==
    /\ killed /\ pc[t] \in {"queued", "resume"}
    /\ pc' = [pc EXCEPT ![t] = "dropped"]
    /\ UNCHANGED <<ctx, future, completed, stage, err, outcome, cont, call, registryVars, queueVars>>

----------------------------------------------------------------------------
(* The stage loop of runContinuationPipeline.                              *)

\* pipelineStageDeadlineExhausted: the failure of a stage whose budget is gone before it starts.
PreStageExhaustion == NewStageFailure(Err("budget"))
\* recoverStageRun, recoverStageResult: a panic becomes a permanent failure.
StagePanic == "permanent"

Fail(t, e) == pc' = [pc EXCEPT ![t] = "failing"] /\ err' = [err EXCEPT ![t] = e]

\* The head of an iteration: an exhausted budget and an ended context fail the attempt; a
\* continuation stage starts and makes its continuation.
BeginStage(t) ==
    LET r == t[1] IN
    /\ pc[t] = "stage" /\ stage[t] <= Len(Stages[r])
    /\ \/ /\ BudgetExhausted(r)
          /\ Fail(t, PreStageExhaustion)
          /\ UNCHANGED cont
       \/ /\ ~BudgetExhausted(r) /\ CtxErr(r) # "nil"
          /\ Fail(t, Err(CtxErr(r)))
          /\ UNCHANGED cont
       \/ /\ ~BudgetExhausted(r) /\ CtxErr(r) = "nil"
          /\ pc' = [pc EXCEPT ![t] = "running"]
          /\ cont' = IF Stages[t[1]][stage[t]] = "cont" THEN [cont EXCEPT ![ContOf(t)].created = TRUE] ELSE cont
          /\ UNCHANGED err
    /\ UNCHANGED <<ctx, future, completed, stage, outcome, call, registryVars, queueVars>>

\* The stage returns an error, or panics and recoverStageRun makes it a permanent failure; or its
\* new state, and the loop goes on.
StageReturns(t) ==
    /\ pc[t] = "running"
    /\ \/ /\ \E c \in StageErrors \cup {StagePanic} : Fail(t, NewStageFailure(Err(c)))
          /\ UNCHANGED stage
       \/ /\ pc' = [pc EXCEPT ![t] = "stage"]
          /\ stage' = [stage EXCEPT ![t] = @ + 1]
          /\ UNCHANGED err
    /\ UNCHANGED <<ctx, future, completed, outcome, cont, call, registryVars, queueVars>>

\* The stage yields: a context that has ended closes the continuation and fails the attempt;
\* otherwise the late handler is installed before the continuation is registered.
StageYields(t) ==
    LET r == t[1]  c == ContOf(t) IN
    /\ pc[t] = "running" /\ Stages[t[1]][stage[t]] = "cont"
    /\ IF CtxErr(r) # "nil"
         THEN /\ cont' = [cont EXCEPT ![c].done = TRUE]
              /\ Fail(t, IF CtxErr(r) = "deadline" THEN NewStageFailure(Err("deadline_failure"))
                                                   ELSE Err("canceled"))
         ELSE /\ cont' = [cont EXCEPT ![c].handler = TRUE]
              /\ pc' = [pc EXCEPT ![t] = "registering"]
              /\ UNCHANGED err
    /\ UNCHANGED <<ctx, future, completed, stage, outcome, call, registryVars, queueVars>>

\* Mutant: the limits are passed by one.
LimitExceeded_OneMore(s) ==
    \/ MaxPending > 0 /\ Cardinality(registry) > MaxPending
    \/ MaxPendingPerShard > 0 /\ perShard[s] > MaxPendingPerShard

LimitExceeded(s) ==
    \/ MaxPending > 0 /\ Cardinality(registry) >= MaxPending
    \/ MaxPendingPerShard > 0 /\ perShard[s] >= MaxPendingPerShard

\* continuationRegistry.register, under its lock; the resolution goroutine takes over.
Register(t) ==
    LET c == ContOf(t)  s == ShardOf[t[1]] IN
    /\ pc[t] = "registering"
    /\ IF LimitExceeded(s)
         THEN /\ cont' = [cont EXCEPT ![c].done = TRUE]
              /\ Fail(t, NewStageFailure(Err("other")))
              /\ UNCHANGED registryVars
         ELSE /\ registry' = registry \cup {c}
              /\ perShard' = [perShard EXCEPT ![s] = @ + 1]
              /\ Bump("registered")
              /\ pc' = [pc EXCEPT ![t] = "pending"]
              /\ UNCHANGED <<cont, err>>
    /\ UNCHANGED <<ctx, future, completed, stage, outcome, call, queueVars>>

\* After the last stage: the budget is checked once more, then Complete runs; its error is not
\* retried.
RunComplete(t) ==
    LET r == t[1] IN
    /\ pc[t] = "stage" /\ stage[t] > Len(Stages[r])
    /\ IF BudgetExhausted(r)
         THEN /\ Fail(t, PreStageExhaustion)
              /\ UNCHANGED <<future, completed>>
         ELSE /\ \E e \in {NoError} \cup {Err(c) : c \in StageErrors} : CompleteFuture(r, e)
              /\ pc' = [pc EXCEPT ![t] = "ended"]
              /\ UNCHANGED err
    /\ UNCHANGED <<ctx, stage, outcome, cont, call, registryVars, queueVars>>

----------------------------------------------------------------------------
(* Completers: Complete, Fail and Cancel, all through deliver.             *)

\* recordLateRegistry: the late counter moves once for a continuation, and a completer's call moves
\* it only once the late handler is installed.
LateCall(c, used) ==
    IF cont[c].handler
      THEN /\ cont' = [cont EXCEPT ![c].late = TRUE, ![c].once = @ \/ used]
           /\ counters' = [counters EXCEPT !["late"] = @ + (IF cont[c].late THEN 0 ELSE 1)]
      ELSE /\ cont' = [cont EXCEPT ![c].once = @ \/ used]
           /\ UNCHANGED counters

\* deliver looks at done, then at the request's context: a call that is late returns false.
CheckCall(c, k) ==
    LET r == c[1] IN
    /\ cont[c].created /\ call[c][k] = "idle"
    /\ \/ /\ cont[c].done
          /\ LateCall(c, FALSE)
          /\ call' = [call EXCEPT ![c][k] = "false"]
       \/ /\ ~cont[c].done /\ CtxErr(r) # "nil"
          /\ IF cont[c].once THEN UNCHANGED <<cont, counters>> ELSE LateCall(c, TRUE)
          /\ call' = [call EXCEPT ![c][k] = "false"]
       \/ /\ ~cont[c].done /\ CtxErr(r) = "nil"
          /\ call' = [call EXCEPT ![c][k] = "checked"]
          /\ UNCHANGED <<cont, counters>>
    /\ UNCHANGED <<ctx, future, completed, threadVars, registry, perShard, queueVars>>

\* Mutant: no sync.Once, the one-place buffer alone makes the first call win.
Send_BufferOnly(c, k) ==
    /\ call[c][k] = "checked"
    /\ IF cont[c].buf # "empty"
         THEN LateCall(c, TRUE) /\ call' = [call EXCEPT ![c][k] = "false"]
         ELSE /\ \E o \in {"complete", "fail", "cancel"} : cont' = [cont EXCEPT ![c].once = TRUE, ![c].buf = o]
              /\ call' = [call EXCEPT ![c][k] = "true"]
              /\ UNCHANGED counters
    /\ UNCHANGED <<ctx, future, completed, threadVars, registry, perShard, queueVars>>

\* Then, once for a continuation, it sends without blocking; a full buffer makes the call late.
Send(c, k) ==
    /\ call[c][k] = "checked"
    /\ CASE cont[c].once ->
              /\ call' = [call EXCEPT ![c][k] = "false"]
              /\ UNCHANGED <<cont, counters>>
         [] ~cont[c].once /\ cont[c].buf # "empty" ->
              LateCall(c, TRUE) /\ call' = [call EXCEPT ![c][k] = "false"]
         [] OTHER ->
              /\ \E o \in {"complete", "fail", "cancel"} :
                    cont' = [cont EXCEPT ![c].once = TRUE, ![c].buf = o]
              /\ call' = [call EXCEPT ![c][k] = "true"]
              /\ UNCHANGED counters
    /\ UNCHANGED <<ctx, future, completed, threadVars, registry, perShard, queueVars>>

----------------------------------------------------------------------------
(* The resolution goroutine.                                               *)

\* It receives an outcome; a context that has ended meanwhile turns it into a cancellation.
TakeOutcome(t) ==
    LET c == ContOf(t)  o == cont[c].buf IN
    /\ pc[t] = "pending" /\ o # "empty"
    /\ pc' = [pc EXCEPT ![t] = "resolving"]
    /\ outcome' = [outcome EXCEPT ![t] = IF CtxErr(t[1]) # "nil" THEN "ctx" ELSE o]
    /\ LET late == CtxErr(t[1]) # "nil" /\ o # "cancel"
       IN  /\ cont' = [cont EXCEPT ![c].buf = "empty", ![c].late = @ \/ late]
           /\ counters' = [counters EXCEPT !["late"] = @ + (IF late /\ ~cont[c].late THEN 1 ELSE 0)]
    /\ UNCHANGED <<ctx, future, completed, stage, err, call, registry, perShard, queueVars>>

\* The context ends first: done is closed before the buffer is drained.
TakeCtxDone(t) ==
    /\ pc[t] = "pending" /\ CtxErr(t[1]) # "nil"
    /\ pc' = [pc EXCEPT ![t] = "drain1"]
    /\ outcome' = [outcome EXCEPT ![t] = "ctx"]
    /\ cont' = [cont EXCEPT ![ContOf(t)].done = TRUE]
    /\ UNCHANGED <<ctx, future, completed, stage, err, call, registryVars, queueVars>>

\* Receiving what the buffer holds; an outcome of a completer that was no cancellation is late.
Receive(c) ==
    IF cont[c].buf \in {"complete", "fail"}
      THEN /\ cont' = [cont EXCEPT ![c].buf = "empty", ![c].late = TRUE]
           /\ counters' = [counters EXCEPT !["late"] = @ + (IF cont[c].late THEN 0 ELSE 1)]
      ELSE cont' = [cont EXCEPT ![c].buf = "empty"] /\ UNCHANGED counters

\* Three selects drain the buffer: the first fills it with the cancellation when it is empty, the
\* others receive what is there.
Drain(t) ==
    LET c == ContOf(t) IN
    /\ pc[t] \in {"drain1", "drain2", "drain3"}
    /\ IF pc[t] = "drain1" /\ cont[c].buf = "empty"
         THEN cont' = [cont EXCEPT ![c].buf = "cancel"] /\ UNCHANGED counters
         ELSE Receive(c)
    /\ pc' = [pc EXCEPT ![t] = CASE @ = "drain1" -> "drain2" [] @ = "drain2" -> "drain3"
                                  [] OTHER -> "resolving"]
    /\ UNCHANGED <<ctx, future, completed, stage, err, outcome, call, registry, perShard, queueVars>>

\* Mutant: the shard's count is given back by the closing of the continuation as well.
Remove_Twice(c) ==
    /\ registry' = registry \ {c}
    /\ perShard' = [perShard EXCEPT ![ShardOf[c[1]]] = @ - 2]

Remove(c) ==
    /\ registry' = registry \ {c}
    /\ perShard' = [perShard EXCEPT ![ShardOf[c[1]]] = @ - 1]

\* Mutant: a refused resume job is counted and its future forgotten.
Resume_Forgotten(t) ==
    /\ pc' = [pc EXCEPT ![t] = IF CanEnqueue(t[1]) THEN "resume" ELSE "ended"]
    /\ UNCHANGED <<future, completed>>

\* The pipeline goes on in a job of its own; when the queue refuses it the future fails.
Resume(t) ==
    IF CanEnqueue(t[1])
      THEN /\ pc' = [pc EXCEPT ![t] = "resume"]
           /\ UNCHANGED <<future, completed>>
      ELSE /\ CompleteFuture(t[1], NewStageFailure(Err("other")))
           /\ pc' = [pc EXCEPT ![t] = "ended"]

\* continuationRegistry.resolve and what follows by the kind of the outcome.
Resolve(t) ==
    LET c == ContOf(t)
        kind == IF outcome[t] = "ctx" THEN "cancel" ELSE outcome[t]
        rejected == kind = "complete" /\ ~CanEnqueue(t[1])
    IN
    /\ pc[t] = "resolving"
    /\ IF c \in registry
         THEN /\ Remove(c)
              /\ cont' = [cont EXCEPT ![c].done = TRUE]
              /\ counters' = [counters EXCEPT ![kind] = @ + 1,
                                 !["resumeRejected"] = @ + (IF rejected THEN 1 ELSE 0)]
              /\ CASE kind = "complete" -> Resume(t) /\ UNCHANGED err
                   [] kind = "fail" ->
                        /\ \E x \in StageErrors : Fail(t, NewStageFailure(Err(x)))
                        /\ UNCHANGED <<future, completed>>
                   [] OTHER ->
                        /\ \E x \in IF outcome[t] = "ctx" THEN {CtxErr(t[1])} ELSE {"other"} \cup StageErrors :
                              Fail(t, Err(x))
                        /\ UNCHANGED <<future, completed>>
         ELSE /\ Bump("late")
              /\ pc' = [pc EXCEPT ![t] = "ended"]
              /\ UNCHANGED <<cont, registry, perShard, future, completed, err>>
    /\ UNCHANGED <<ctx, stage, outcome, call, queueVars>>

----------------------------------------------------------------------------
(* completeFailed: a retry restarts the pipeline from its first stage.     *)

\* The budget of the attempt, seen from the decision: what is left of it, where it has a deadline.
AttemptBudgets(r) ==
    [hasDeadline : {r \in HasDeadline}, deadline : IF BudgetExhausted(r) THEN {0} ELSE {1, DurationMax}]

\* evaluatePipelineRetry: the delays after which the attempt may be repeated, NoRetry where it may not.
NoRetry == -1
evaluatePipelineRetry(t, budget, answer, snap, suppressAnswer) ==
    LET r == t[1]
        failure == classifyCompletionFailure(err[t], BudgetExhausted(r), FALSE)
        safety == DecideRetrySafety(Policy(r), Idem, IdemPolicy, answer)
        suppress == DecideRetrySuppression(NormalizeRetrySuppressionPolicy(Suppression), snap, failure,
                                           t[2], suppressAnswer)
    IN  IF ~Policy(r).enabled \/ t[2] >= Policy(r).maxAttempts \/ ~safety.allow \/ suppress.suppress THEN {NoRetry}
        ELSE {IF DecideRetry(Policy(r), CtxErr(r), t[2], failure, budget, 0, d).retry THEN d ELSE NoRetry :
                 d \in RetryDelay(Policy(r), t[2])}

\* The attempt's failure completes the future, or the goroutine (a worker, or the resolver) sleeps.
CompleteFailed(t) ==
    /\ pc[t] = "failing"
    /\ \E budget \in AttemptBudgets(t[1]), answer \in SafetyHookAnswers(Idem, IdemPolicy),
          snap \in Snapshots, suppressAnswer \in SuppressionHookAnswers(Suppression) :
       \E delay \in evaluatePipelineRetry(t, budget, answer, snap, suppressAnswer) :
       \/ /\ delay # NoRetry
          /\ pc' = [pc EXCEPT ![t] = IF delay = 0 THEN "backoff0" ELSE "backoff"]
          /\ UNCHANGED <<future, completed>>
       \/ /\ delay = NoRetry
          /\ CompleteFuture(t[1], err[t])
          /\ pc' = [pc EXCEPT ![t] = "ended"]
    /\ err' = [err EXCEPT ![t] = NoError]
    /\ UNCHANGED <<ctx, stage, outcome, cont, call, registryVars, queueVars>>

\* Mutant: no return after the retry was enqueued, the attempt's failure is reported too.
BackoffEnds_NoReturn(t) ==
    LET r == t[1] IN
    /\ pc[t] \in {"backoff", "backoff0"}
    /\ pc' = IF CanEnqueue(r) THEN [pc EXCEPT ![t] = "ended", ![<<r, t[2] + 1>>] = "queued"]
                              ELSE [pc EXCEPT ![t] = "ended"]
    /\ CompleteFuture(r, IF CanEnqueue(r) THEN Err("other") ELSE Err(EnqueueError))
    /\ UNCHANGED <<ctx, stage, err, outcome, cont, call, registryVars, queueVars>>

\* The timer fires: the next attempt is queued, or its refusal is the request's failure.
BackoffEnds(t) ==
    LET r == t[1] IN
    /\ pc[t] \in {"backoff", "backoff0"}
    /\ IF CanEnqueue(r)
         THEN /\ pc' = [pc EXCEPT ![t] = "ended", ![<<r, t[2] + 1>>] = "queued"]
              /\ UNCHANGED <<future, completed>>
         ELSE /\ pc' = [pc EXCEPT ![t] = "ended"]
              /\ CompleteFuture(r, Err(EnqueueError))
    /\ UNCHANGED <<ctx, stage, err, outcome, cont, call, registryVars, queueVars>>

\* The context ends the sleep, unless its delay was zero.
BackoffCancelled(t) ==
    /\ pc[t] = "backoff" /\ CtxErr(t[1]) # "nil"
    /\ pc' = [pc EXCEPT ![t] = "ended"]
    /\ CompleteFuture(t[1], Err(CtxErr(t[1])))
    /\ UNCHANGED <<ctx, stage, err, outcome, cont, call, registryVars, queueVars>>

----------------------------------------------------------------------------
(* The callers' contexts and the queue.                                    *)

\* The deadline passes before the context reports it.
ContextEnds(r) ==
    /\ r \in workload /\ future[r] \in {"unsubmitted", "pending"}
    /\ \/ ctx[r] = "nil" /\ r \in Cancellable /\ ctx' = [ctx EXCEPT ![r] = "canceled"]
       \/ ctx[r] = "nil" /\ r \in HasDeadline /\ ctx' = [ctx EXCEPT ![r] = "expired"]
       \/ ctx[r] = "expired" /\ ctx' = [ctx EXCEPT ![r] = "deadline"]
    /\ UNCHANGED <<future, completed, threadVars, cont, call, registryVars, queueVars>>

Stop ==
    /\ ~stopped
    /\ stopped' = TRUE
    /\ UNCHANGED <<ctx, future, completed, threadVars, cont, call, registryVars, workload, killed>>

\* Stop gives up waiting and cancels the workers.
CancelWorkers ==
    /\ stopped /\ ~killed
    /\ killed' = TRUE
    /\ UNCHANGED <<ctx, future, completed, threadVars, cont, call, registryVars, workload, stopped>>

Drive(t) ==
    \/ RunJob(t) \/ RunResume(t) \/ DropJob(t) \/ BeginStage(t) \/ StageReturns(t) \/ StageYields(t)
    \/ Register(t) \/ RunComplete(t) \/ TakeOutcome(t) \/ TakeCtxDone(t) \/ Drain(t) \/ Resolve(t)
    \/ CompleteFailed(t) \/ BackoffEnds(t) \/ BackoffCancelled(t)

\* What is done for request r: its driver moves, or the operation behind one of its continuations
\* calls the completer.
Serve(r) ==
    \/ \E a \in Attempts(r) : Drive(<<r, a>>)
    \/ \E c \in {d \in Conts : d[1] = r}, k \in Callers[r] : CheckCall(c, k) \/ Send(c, k)

Next ==
    \/ \E r \in Reqs : SubmitPipeline(r) \/ ContextEnds(r) \/ Serve(r)
    \/ Stop \/ CancelWorkers

Spec == Init /\ [][Next]_vars

\* Workers and goroutines run, timers fire, and the operations behind continuations end: nothing
\* that can be done for a request is put off for ever.
Fairness == \A r \in Reqs : WF_vars(Serve(r))
FairSpec == Spec /\ Fairness

----------------------------------------------------------------------------
Idle == {"none", "ended", "dropped"}
Resolving == {"pending", "drain1", "drain2", "drain3", "resolving"}

\* Every variable has its type (continuation.go:32-55, continuation_registry.go:42-57).
TypeOK ==
    /\ workload \subseteq Reqs
    /\ ctx \in [Reqs -> {"nil", "expired", "deadline", "canceled"}]
    /\ future \in [Reqs -> {"unsubmitted", "pending", "ok", "failed"}] /\ completed \in [Reqs -> Nat]
    /\ pc \in [Threads -> Idle \cup Resolving \cup {"queued", "resume", "stage", "running", "registering",
                                                    "failing", "backoff", "backoff0"}]
    /\ \A t \in Threads : stage[t] \in 1..(Len(Stages[t[1]]) + 1)
    /\ \A t \in Threads : err[t] = NoError \/ err[t].class \in ErrorClasses
    /\ outcome \in [Threads -> {"none", "complete", "fail", "cancel", "ctx"}]
    /\ \A c \in Conts : cont[c].buf \in {"empty", "complete", "fail", "cancel"}
    /\ \A c \in Conts : call[c] \in [Callers[c[1]] -> {"idle", "checked", "true", "false"}]
    /\ registry \subseteq Conts /\ perShard \in [Shards -> Nat] /\ counters \in [CounterNames -> Nat]
    /\ stopped \in BOOLEAN /\ killed \in BOOLEAN

\* One goroutine or queued job drives a request at any time and its future is completed once:
\* attempts never overlap, nothing runs on behalf of a request that has its result, and a request
\* nobody drives has its result or lost its job to a cancelled worker
\* (submit_pipeline_continuation.go:208-245, 397-440).
OneDriver ==
    \A r \in Reqs :
        LET driven == {a \in Attempts(r) : pc[<<r, a>>] \notin Idle}
            lost == \E a \in Attempts(r) : pc[<<r, a>>] = "dropped"
        IN  /\ Cardinality(driven) = (IF future[r] = "pending" /\ ~lost THEN 1 ELSE 0)
            /\ completed[r] = (IF future[r] \in {"pending", "unsubmitted"} THEN 0 ELSE 1)

\* The registry holds exactly the continuations a resolver waits for, within both limits; every one
\* it ever took is pending or counted by its outcome, and is closed once it has left
\* (continuation_registry.go:75-131).
RegistryExact ==
    /\ registry = {ContOf(t) : t \in {u \in Threads : pc[u] \in Resolving}}
    /\ \A s \in Shards : perShard[s] = Cardinality({c \in registry : ShardOf[c[1]] = s})
    /\ MaxPending > 0 => Cardinality(registry) <= MaxPending
    /\ MaxPendingPerShard > 0 => \A s \in Shards : perShard[s] <= MaxPendingPerShard
    /\ counters["registered"] =
          Cardinality(registry) + counters["complete"] + counters["fail"] + counters["cancel"]
    /\ \A c \in Conts : cont[c].handler /\ ~cont[c].done => pc[<<c[1], c[2]>>] \in Resolving \cup {"registering"}

\* Of all the calls on a continuation's completer, whatever their timing, at most one returns true
\* (continuation.go:110-117, 169-190).
AtMostOneAccepted ==
    \A c \in Conts : Cardinality({k \in Callers[c[1]] : call[c][k] = "true"}) <= 1

\* A submitted pipeline ends: its future is completed, whatever fails, is refused, cancelled or
\* late, unless a cancelled worker dropped its job (submit_pipeline_continuation.go:419-425).
EveryPipelineEnds ==
    \A r \in Reqs : future[r] = "pending" ~>
        (future[r] # "pending" \/ \E a \in Attempts(r) : pc[<<r, a>>] = "dropped")

\* What the comment at continuation.go:186-188 says: "Once published, the resolver owns resolution
\* (including late accounting when the request is already cancelled)": no outcome a completer
\* published stays in the buffer of a continuation whose resolver has finished.
PublishedIsOwned ==
    \A c \in Conts :
        outcome[<<c[1], c[2]>>] # "none" /\ pc[<<c[1], c[2]>>] \in Idle /\ (\E k \in Callers[c[1]] : call[c][k] = "true")
            => cont[c].buf = "empty"
=============================================================================
