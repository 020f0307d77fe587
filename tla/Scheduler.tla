------------------------------ MODULE Scheduler ------------------------------
(***************************************************************************)
(* The scheduler of internal/core and the submission calls of the public   *)
(* package: callers enqueue jobs into the lane queues of a shard, a shard  *)
(* that becomes ready is announced once on ReadyCh, workers receive ready  *)
(* shards, pop a batch under the lanes' quotas, run it outside the shard   *)
(* lock and requeue the shard if work is left; Stop drains and cancels.    *)
(*                                                                         *)
(* One action is one critical section or one channel operation, the        *)
(* granularity at which goroutines can interleave.  A lane is a sequence:  *)
(* module LaneQueue shows that the ring buffer implements one.             *)
(*                                                                         *)
(* A member of Jobs stands for a caller's goroutine and for the job it     *)
(* submits; the same member may submit again once its job has left the     *)
(* system, so at most Cardinality(Jobs) jobs are outstanding at a time.    *)
(***************************************************************************)
EXTENDS Integers, Sequences, FiniteSets

CONSTANTS
  NumShards,          \* Config.ShardCount
  NumLanes,           \* the number of lanes of the registry
  QueueSize,          \* Config.QueueSizePerLane
  Workers,            \* the worker goroutines (Config.WorkerCount of them)
  Jobs,               \* callers and their jobs
  KeyHash,            \* the hash of each job's key
  JobLane,            \* the LaneID of each job
  Quotas,             \* the lane quotas a policy may publish
  NoPolicy,           \* no policy is waiting to be published
  Updaters,           \* goroutines calling UpdateQuotaPolicy
  Stoppers,           \* goroutines calling Stop
  DrainChoices,       \* the drain arguments Stop is called with
  Cancellable,        \* the jobs whose caller's context may be cancelled
  StartCtxMayCancel,  \* whether the context given to Start may be cancelled
  StopCtxMayExpire    \* whether the contexts given to Stop may expire

Shards == 0..(NumShards - 1)
Lanes == 0..(NumLanes - 1)

\* config.go rejects zero counts and queue sizes; quota_policy.go rejects
\* quotas below one.
ASSUME SizesAssumption ==
  /\ NumShards \in Nat \ {0}
  /\ NumLanes \in Nat \ {0}
  /\ QueueSize \in Nat \ {0}
ASSUME JobsAssumption ==
  /\ KeyHash \in [Jobs -> Nat]
  /\ JobLane \in [Jobs -> Lanes]
  /\ Cancellable \subseteq Jobs
ASSUME QuotasAssumption ==
  Quotas # {} /\ Quotas \subseteq [Lanes -> Nat \ {0}] /\ NoPolicy \notin Quotas
ASSUME StopAssumption ==
  /\ DrainChoices \subseteq BOOLEAN
  /\ StartCtxMayCancel \in BOOLEAN
  /\ StopCtxMayExpire \in BOOLEAN
ASSUME FiniteAssumption == IsFiniteSet(Jobs) /\ IsFiniteSet(Workers)

VARIABLES
  state,       \* Scheduler.state
  workerCtx,   \* the workers' context: "none" before Start, "live", "done"
  ready,       \* shard.Ready
  lanes,       \* shard.Lanes: per shard and lane, the queued jobs
  readyCh,     \* the ready channel, oldest shard first
  spc,         \* where each submitting goroutine is
  callerCtx,   \* whether the caller's context is still live
  result,      \* what the last Submit or TrySubmit of the caller returned
  wpc,         \* where each worker is
  wshard,      \* the shard a worker holds
  wbatch,      \* the popped jobs it has not finished, by lane
  wmore,       \* its hasMore
  inflight, shardInflight, laneInflight,   \* the in-flight gauges
  quota,       \* the laneQuotas of the published policy snapshot
  upd,         \* the policy an updater is about to publish, or NoPolicy
  stopPc,      \* where each Stop call is
  stopDrain,   \* its drain argument
  stopCtx,     \* whether its context is still live
  stopScan,    \* the next shard isDrained looks at
  stopRet,     \* what Stop returned: "none", "nil" or "ctx"
  drained,     \* isDrained returned true in this call
  waiter       \* the goroutine that waits for the workers to exit

schedVars == <<ready, lanes, readyCh>>
callVars == <<spc, callerCtx, result>>
workerVars == <<wpc, wshard, wbatch, wmore>>
gaugeVars == <<inflight, shardInflight, laneInflight>>
quotaVars == <<quota, upd>>
stopVars == <<stopPc, stopDrain, stopCtx, stopScan, stopRet, drained, waiter>>
vars == <<state, workerCtx, schedVars, callVars, workerVars, gaugeVars, quotaVars, stopVars>>

-----------------------------------------------------------------------------
(***************************************************************************)
(* Helpers.                                                                *)
(***************************************************************************)

\* routeShardID: the key hash modulo the shard count.
JobShard(j) == KeyHash[j] % NumShards

\* Mutant of ReadyCap: one slot too few.
ReadyCapTooSmall == NumShards - 1

\* NewScheduler: the ready channel has one slot per shard.
ReadyCap == NumShards

CtxDone == workerCtx = "done"

\* hasWorkLocked on a shard's lanes.
HasWork(ls) == \E l \in Lanes : ls[l] # <<>>

EmptyBatch == [l \in Lanes |-> <<>>]

\* The jobs popN takes from a lane: as many as the quota allows.
Taken(queue, n) == SubSeq(queue, 1, IF n < Len(queue) THEN n ELSE Len(queue))

\* Mutant of Left: head is advanced one slot too few.
LeftOffByOne(queue, n) ==
  IF queue = <<>> THEN <<>>
  ELSE SubSeq(queue, IF n < Len(queue) THEN n ELSE Len(queue), Len(queue))

\* The jobs popN leaves in a lane.
Left(queue, n) == SubSeq(queue, (IF n < Len(queue) THEN n ELSE Len(queue)) + 1, Len(queue))

\* Mutant of LaneFull: the full check is off by one.
LaneFullOffByOne(queue) == Len(queue) = QueueSize + 1

\* push: the lane is full.
LaneFull(queue) == Len(queue) = QueueSize

\* The number of jobs in a batch.
BatchSlots(b) == UNION {{l} \X (1..Len(b[l])) : l \in Lanes}
BatchSize(b) == Cardinality(BatchSlots(b))

\* A batch is run in LaneID order.
FirstLane(b) == CHOOSE l \in Lanes : b[l] # <<>> /\ \A m \in Lanes : b[m] # <<>> => l <= m

\* The job a worker is about to run or running.
CurrentJob(w) == Head(wbatch[w][FirstLane(wbatch[w])])

Queued(j) == \E i \in DOMAIN lanes[JobShard(j)][JobLane[j]] :
                lanes[JobShard(j)][JobLane[j]][i] = j
Popped(j) == \E w \in Workers : \E i \in DOMAIN wbatch[w][JobLane[j]] :
                wbatch[w][JobLane[j]][i] = j
InSystem(j) == Queued(j) \/ Popped(j)

-----------------------------------------------------------------------------
Init ==
  /\ state = "new"
  /\ workerCtx = "none"
  /\ ready = [s \in Shards |-> FALSE]
  /\ lanes = [s \in Shards |-> EmptyBatch]
  /\ readyCh = <<>>
  /\ spc = [j \in Jobs |-> "idle"]
  /\ callerCtx = [j \in Jobs |-> TRUE]
  /\ result = [j \in Jobs |-> "none"]
  /\ wpc = [w \in Workers |-> "none"]
  /\ wshard = [w \in Workers |-> 0]
  /\ wbatch = [w \in Workers |-> EmptyBatch]
  /\ wmore = [w \in Workers |-> FALSE]
  /\ inflight = 0
  /\ shardInflight = [s \in Shards |-> 0]
  /\ laneInflight = [l \in Lanes |-> 0]
  /\ quota \in Quotas
  /\ upd = [u \in Updaters |-> NoPolicy]
  /\ stopPc = [p \in Stoppers |-> "idle"]
  /\ stopDrain = [p \in Stoppers |-> FALSE]
  /\ stopCtx = [p \in Stoppers |-> TRUE]
  /\ stopScan = [p \in Stoppers |-> 0]
  /\ stopRet = [p \in Stoppers |-> "none"]
  /\ drained = [p \in Stoppers |-> FALSE]
  /\ waiter = "none"

\* Start: once, from the new state; the workers' context derives from ctx.
Start ==
  /\ state = "new"
  /\ state' = "running"
  /\ workerCtx' = "live"
  /\ wpc' = [w \in Workers |-> "loop"]
  /\ UNCHANGED <<schedVars, callVars, wshard, wbatch, wmore, gaugeVars, quotaVars, stopVars>>

\* The application cancels the context it gave to Start.
CancelStartCtx ==
  /\ StartCtxMayCancel
  /\ workerCtx = "live"
  /\ workerCtx' = "done"
  /\ UNCHANGED <<state, schedVars, callVars, workerVars, gaugeVars, quotaVars, stopVars>>

-----------------------------------------------------------------------------
(***************************************************************************)
(* Submission.                                                             *)
(***************************************************************************)

\* Mutant of EnqueueIntoShard: every push announces the shard.
EnqueueAlwaysAnnounces(j, sendPc) ==
  LET s == JobShard(j)
      l == JobLane[j]
  IN  IF LaneFull(lanes[s][l])
      THEN /\ spc' = [spc EXCEPT ![j] = "idle"]
           /\ result' = [result EXCEPT ![j] = "err"]
           /\ UNCHANGED schedVars
      ELSE /\ lanes' = [lanes EXCEPT ![s][l] = Append(@, j)]
           /\ ready' = [ready EXCEPT ![s] = TRUE]
           /\ spc' = [spc EXCEPT ![j] = sendPc]
           /\ result' = [result EXCEPT ![j] = "none"]
           /\ UNCHANGED readyCh

\* enqueueIntoShard under the shard lock: a full lane is ErrQueueFull; the
\* push that finds the shard not ready marks it ready, and its caller goes on
\* to announce the shard (sendPc).
EnqueueIntoShard(j, sendPc) ==
  LET s == JobShard(j)
      l == JobLane[j]
  IN  IF LaneFull(lanes[s][l])
      THEN /\ spc' = [spc EXCEPT ![j] = "idle"]
           /\ result' = [result EXCEPT ![j] = "err"]
           /\ UNCHANGED schedVars
      ELSE /\ lanes' = [lanes EXCEPT ![s][l] = Append(@, j)]
           /\ ready' = [ready EXCEPT ![s] = TRUE]
           /\ spc' = [spc EXCEPT ![j] = IF ready[s] THEN "idle" ELSE sendPc]
           /\ result' = [result EXCEPT ![j] = IF ready[s] THEN "nil" ELSE "none"]
           /\ UNCHANGED readyCh

\* ErrStopped or ErrNotStarted.
Reject(j) ==
  /\ spc' = [spc EXCEPT ![j] = "idle"]
  /\ result' = [result EXCEPT ![j] = "err"]
  /\ UNCHANGED schedVars

\* Submit up to Enqueue: a context that is done already is refused; the
\* checks that follow do not touch the scheduler.
SubmitBegin(j) ==
  /\ spc[j] = "idle"
  /\ ~InSystem(j)
  /\ spc' = [spc EXCEPT ![j] = "enqueue"]
  /\ callerCtx' = [callerCtx EXCEPT ![j] = TRUE]
  /\ result' = [result EXCEPT ![j] = "none"]
  /\ UNCHANGED <<state, workerCtx, schedVars, workerVars, gaugeVars, quotaVars, stopVars>>

\* The caller's context is cancelled or its deadline passes during Submit.
CancelCaller(j) ==
  /\ j \in Cancellable
  /\ spc[j] \in {"enqueue", "send"}
  /\ callerCtx[j]
  /\ callerCtx' = [callerCtx EXCEPT ![j] = FALSE]
  /\ UNCHANGED <<state, workerCtx, schedVars, spc, result, workerVars, gaugeVars,
                 quotaVars, stopVars>>

\* Scheduler.Enqueue holds mu.RLock from the state check to the push, so
\* Stop cannot come in between.  Jobs are accepted before Start.
Enqueue(j, sendPc) ==
  IF state \in {"stopping", "stopped"} THEN Reject(j) ELSE EnqueueIntoShard(j, sendPc)

\* Submit: Enqueue, then the blocking send below.
Submit(j) ==
  /\ spc[j] = "enqueue"
  /\ Enqueue(j, "send")
  /\ UNCHANGED <<state, workerCtx, callerCtx, workerVars, gaugeVars, quotaVars, stopVars>>

\* Submit's select: the send case.
SubmitSend(j) ==
  /\ spc[j] = "send"
  /\ Len(readyCh) < ReadyCap
  /\ readyCh' = Append(readyCh, JobShard(j))
  /\ spc' = [spc EXCEPT ![j] = "idle"]
  /\ result' = [result EXCEPT ![j] = "nil"]
  /\ UNCHANGED <<state, workerCtx, ready, lanes, callerCtx, workerVars, gaugeVars,
                 quotaVars, stopVars>>

\* Submit's select: the ctx.Done case, which Go may choose although the
\* channel has room.  The job stays queued and the shard stays ready.
SubmitCancelled(j) ==
  /\ spc[j] = "send"
  /\ ~callerCtx[j]
  /\ spc' = [spc EXCEPT ![j] = "idle"]
  /\ result' = [result EXCEPT ![j] = "ctx"]
  /\ UNCHANGED <<state, workerCtx, schedVars, callerCtx, workerVars, gaugeVars,
                 quotaVars, stopVars>>

\* TrySubmit up to TryEnqueue, which rejects in every state but running.
TrySubmit(j) ==
  /\ spc[j] = "idle"
  /\ ~InSystem(j)
  /\ IF state # "running" THEN Reject(j) ELSE EnqueueIntoShard(j, "trySend")
  /\ UNCHANGED <<state, workerCtx, callerCtx, workerVars, gaugeVars, quotaVars, stopVars>>

\* enqueueContinuationJob up to the send: Enqueue for a pipeline run or a
\* resume job, with no caller context.
EnqueueContinuation(j) ==
  /\ spc[j] = "idle"
  /\ ~InSystem(j)
  /\ Enqueue(j, "trySend")
  /\ UNCHANGED <<state, workerCtx, callerCtx, workerVars, gaugeVars, quotaVars, stopVars>>

\* The non-blocking send of TrySubmit and enqueueContinuationJob: a full
\* channel is taken to mean that the shard is already announced.
TrySend(j) ==
  /\ spc[j] = "trySend"
  /\ readyCh' = IF Len(readyCh) < ReadyCap THEN Append(readyCh, JobShard(j)) ELSE readyCh
  /\ spc' = [spc EXCEPT ![j] = "idle"]
  /\ result' = [result EXCEPT ![j] = "nil"]
  /\ UNCHANGED <<state, workerCtx, ready, lanes, callerCtx, workerVars, gaugeVars,
                 quotaVars, stopVars>>

-----------------------------------------------------------------------------
(***************************************************************************)
(* Workers.                                                                *)
(***************************************************************************)

\* WorkerLoop: a ready shard is received.
Receive(w) ==
  /\ wpc[w] = "loop"
  /\ readyCh # <<>>
  /\ readyCh' = Tail(readyCh)
  /\ wshard' = [wshard EXCEPT ![w] = Head(readyCh)]
  /\ wpc' = [wpc EXCEPT ![w] = "collect"]
  /\ UNCHANGED <<state, workerCtx, ready, lanes, callVars, wbatch, wmore, gaugeVars,
                 quotaVars, stopVars>>

\* WorkerLoop: the ctx.Done case.
WorkerExit(w) ==
  /\ wpc[w] = "loop"
  /\ CtxDone
  /\ wpc' = [wpc EXCEPT ![w] = "exited"]
  /\ UNCHANGED <<state, workerCtx, schedVars, callVars, wshard, wbatch, wmore, gaugeVars,
                 quotaVars, stopVars>>

\* Mutant of AfterBatch: step 5 is missing.
AfterBatchNoRequeue(more) == "loop"

\* Where processShard goes once the batch is done: step 5, or back to the loop.
AfterBatch(more) == IF more THEN "requeue" ELSE "loop"

\* Mutant of CollectBatch: strict priority, only the first lane with work is
\* popped.
CollectBatchByPriority(w) ==
  LET s == wshard[w]
      first == FirstLane(lanes[s])
      taken == [l \in Lanes |-> IF l = first THEN Taken(lanes[s][l], quota[l]) ELSE <<>>]
      left == [l \in Lanes |-> IF l = first THEN Left(lanes[s][l], quota[l]) ELSE lanes[s][l]]
  IN  /\ wpc[w] = "collect"
      /\ lanes' = [lanes EXCEPT ![s] = left]
      /\ ready' = [ready EXCEPT ![s] = @ /\ HasWork(left)]
      /\ wbatch' = [wbatch EXCEPT ![w] = taken]
      /\ wmore' = [wmore EXCEPT ![w] = HasWork(left)]
      /\ wpc' = [wpc EXCEPT ![w] = "check"]
      /\ inflight' = inflight + BatchSize(taken)
      /\ shardInflight' = [shardInflight EXCEPT ![s] = @ + BatchSize(taken)]
      /\ laneInflight' = [l \in Lanes |-> laneInflight[l] + Len(taken[l])]
      /\ UNCHANGED <<state, workerCtx, readyCh, callVars, wshard, quotaVars, stopVars>>

\* processShard under the shard lock: the quotas of the current snapshot are
\* popped from every lane, Ready is cleared if nothing is left, and the batch
\* is counted in flight before the lock is released.
CollectBatch(w) ==
  LET s == wshard[w]
      taken == [l \in Lanes |-> Taken(lanes[s][l], quota[l])]
      left == [l \in Lanes |-> Left(lanes[s][l], quota[l])]
  IN  /\ wpc[w] = "collect"
      /\ lanes' = [lanes EXCEPT ![s] = left]
      /\ ready' = [ready EXCEPT ![s] = @ /\ HasWork(left)]
      /\ wbatch' = [wbatch EXCEPT ![w] = taken]
      /\ wmore' = [wmore EXCEPT ![w] = HasWork(left)]
      /\ wpc' = [wpc EXCEPT ![w] = IF HasWork(taken) THEN "check" ELSE AfterBatch(HasWork(left))]
      /\ inflight' = inflight + BatchSize(taken)
      /\ shardInflight' = [shardInflight EXCEPT ![s] = @ + BatchSize(taken)]
      /\ laneInflight' = [l \in Lanes |-> laneInflight[l] + Len(taken[l])]
      /\ UNCHANGED <<state, workerCtx, readyCh, callVars, wshard, quotaVars, stopVars>>

\* The head of the run loop with a live context: job.Run begins.
RunJob(w) ==
  /\ wpc[w] = "check"
  /\ ~CtxDone
  /\ wpc' = [wpc EXCEPT ![w] = "running"]
  /\ UNCHANGED <<state, workerCtx, schedVars, callVars, wshard, wbatch, wmore, gaugeVars,
                 quotaVars, stopVars>>

\* job.Run returns; the deferred function takes the job off the gauges.
FinishJob(w) ==
  LET l == FirstLane(wbatch[w])
      rest == [wbatch[w] EXCEPT ![l] = Tail(@)]
  IN  /\ wpc[w] = "running"
      /\ wbatch' = [wbatch EXCEPT ![w] = rest]
      /\ wpc' = [wpc EXCEPT ![w] = IF HasWork(rest) THEN "check" ELSE AfterBatch(wmore[w])]
      /\ inflight' = inflight - 1
      /\ shardInflight' = [shardInflight EXCEPT ![wshard[w]] = @ - 1]
      /\ laneInflight' = [laneInflight EXCEPT ![l] = @ - 1]
      /\ UNCHANGED <<state, workerCtx, schedVars, callVars, wshard, wmore, quotaVars, stopVars>>

\* Mutant of AbandonBatch: the jobs that never ran stay on the lane gauge.
AbandonBatchKeepsLaneGauge(w) ==
  /\ wpc[w] = "check"
  /\ CtxDone
  /\ wbatch' = [wbatch EXCEPT ![w] = EmptyBatch]
  /\ wpc' = [wpc EXCEPT ![w] = AfterBatch(wmore[w])]
  /\ inflight' = inflight - BatchSize(wbatch[w])
  /\ shardInflight' = [shardInflight EXCEPT ![wshard[w]] = @ - BatchSize(wbatch[w])]
  /\ UNCHANGED <<state, workerCtx, schedVars, callVars, wshard, wmore, laneInflight, quotaVars,
                 stopVars>>

\* The head of the run loop with a cancelled context: the rest of the batch
\* is taken off the gauges and never runs.
AbandonBatch(w) ==
  /\ wpc[w] = "check"
  /\ CtxDone
  /\ wbatch' = [wbatch EXCEPT ![w] = EmptyBatch]
  /\ wpc' = [wpc EXCEPT ![w] = AfterBatch(wmore[w])]
  /\ inflight' = inflight - BatchSize(wbatch[w])
  /\ shardInflight' = [shardInflight EXCEPT ![wshard[w]] = @ - BatchSize(wbatch[w])]
  /\ laneInflight' = [l \in Lanes |-> laneInflight[l] - Len(wbatch[w][l])]
  /\ UNCHANGED <<state, workerCtx, schedVars, callVars, wshard, wmore, quotaVars, stopVars>>

\* Step 5 of processShard: the send case.
Requeue(w) ==
  /\ wpc[w] = "requeue"
  /\ Len(readyCh) < ReadyCap
  /\ readyCh' = Append(readyCh, wshard[w])
  /\ wpc' = [wpc EXCEPT ![w] = "loop"]
  /\ UNCHANGED <<state, workerCtx, ready, lanes, callVars, wshard, wbatch, wmore, gaugeVars,
                 quotaVars, stopVars>>

\* Step 5 of processShard: the ctx.Done case.
RequeueCancelled(w) ==
  /\ wpc[w] = "requeue"
  /\ CtxDone
  /\ wpc' = [wpc EXCEPT ![w] = "loop"]
  /\ UNCHANGED <<state, workerCtx, schedVars, callVars, wshard, wbatch, wmore, gaugeVars,
                 quotaVars, stopVars>>

-----------------------------------------------------------------------------
(***************************************************************************)
(* Quota policy: UpdateQuotaPolicy reads the state under mu and publishes  *)
(* the snapshot afterwards, under quotaMu only.                            *)
(***************************************************************************)
UpdateQuotaCheck(u, q) ==
  /\ upd[u] = NoPolicy
  /\ state \notin {"stopping", "stopped"}
  /\ upd' = [upd EXCEPT ![u] = q]
  /\ UNCHANGED <<state, workerCtx, schedVars, callVars, workerVars, gaugeVars, quota, stopVars>>

UpdateQuotaPublish(u) ==
  /\ upd[u] # NoPolicy
  /\ quota' = upd[u]
  /\ upd' = [upd EXCEPT ![u] = NoPolicy]
  /\ UNCHANGED <<state, workerCtx, schedVars, callVars, workerVars, gaugeVars, stopVars>>

-----------------------------------------------------------------------------
(***************************************************************************)
(* Stop.                                                                   *)
(***************************************************************************)

\* Stop up to the unlock: a stopped scheduler returns nil, a stopping one is
\* waited for, otherwise this call owns the shutdown.
StopBegin(p, drain) ==
  /\ stopPc[p] = "idle"
  /\ stopDrain' = [stopDrain EXCEPT ![p] = drain]
  /\ \/ /\ state = "stopped"
        /\ stopPc' = [stopPc EXCEPT ![p] = "returned"]
        /\ stopRet' = [stopRet EXCEPT ![p] = "nil"]
        /\ UNCHANGED state
     \/ /\ state = "stopping"
        /\ stopPc' = [stopPc EXCEPT ![p] = "waitOther"]
        /\ UNCHANGED <<state, stopRet>>
     \/ /\ state \in {"new", "running"}
        /\ state' = "stopping"
        /\ stopPc' = [stopPc EXCEPT ![p] = IF drain THEN "drain" ELSE "cancel"]
        /\ UNCHANGED stopRet
  /\ UNCHANGED <<workerCtx, schedVars, callVars, workerVars, gaugeVars, quotaVars,
                 stopCtx, stopScan, drained, waiter>>

\* The context given to this Stop call expires.
ExpireStop(p) ==
  /\ StopCtxMayExpire
  /\ stopPc[p] \notin {"idle", "returned"}
  /\ stopCtx[p]
  /\ stopCtx' = [stopCtx EXCEPT ![p] = FALSE]
  /\ UNCHANGED <<state, workerCtx, schedVars, callVars, workerVars, gaugeVars, quotaVars,
                 stopPc, stopDrain, stopScan, stopRet, drained, waiter>>

\* isDrained: the first look at the in-flight gauge.
DrainBegin(p) ==
  /\ stopPc[p] = "drain"
  /\ stopPc' = [stopPc EXCEPT ![p] = IF inflight = 0 THEN "scan" ELSE "tick"]
  /\ stopScan' = [stopScan EXCEPT ![p] = 0]
  /\ UNCHANGED <<state, workerCtx, schedVars, callVars, workerVars, gaugeVars, quotaVars,
                 stopDrain, stopCtx, stopRet, drained, waiter>>

\* isDrained: one shard at a time, each under its own lock.
DrainScan(p) ==
  /\ stopPc[p] = "scan"
  /\ stopScan[p] \in Shards
  /\ IF HasWork(lanes[stopScan[p]])
     THEN /\ stopPc' = [stopPc EXCEPT ![p] = "tick"]
          /\ UNCHANGED stopScan
     ELSE /\ stopScan' = [stopScan EXCEPT ![p] = @ + 1]
          /\ UNCHANGED stopPc
  /\ UNCHANGED <<state, workerCtx, schedVars, callVars, workerVars, gaugeVars, quotaVars,
                 stopDrain, stopCtx, stopRet, drained, waiter>>

\* Mutant of DrainVerdict: isDrained without the second look at the gauge.
DrainVerdictNoRecheck(p) ==
  /\ stopPc[p] = "scan"
  /\ stopScan[p] = NumShards
  /\ stopPc' = [stopPc EXCEPT ![p] = "cancel"]
  /\ drained' = [drained EXCEPT ![p] = TRUE]
  /\ UNCHANGED <<state, workerCtx, schedVars, callVars, workerVars, gaugeVars, quotaVars,
                 stopDrain, stopCtx, stopScan, stopRet, waiter>>

\* isDrained: the second look at the gauge, for jobs popped during the scan.
DrainVerdict(p) ==
  /\ stopPc[p] = "scan"
  /\ stopScan[p] = NumShards
  /\ stopPc' = [stopPc EXCEPT ![p] = IF inflight = 0 THEN "cancel" ELSE "tick"]
  /\ drained' = [drained EXCEPT ![p] = (inflight = 0)]
  /\ UNCHANGED <<state, workerCtx, schedVars, callVars, workerVars, gaugeVars, quotaVars,
                 stopDrain, stopCtx, stopScan, stopRet, waiter>>

\* Not drained: the next tick of the 10ms ticker, or the end of the context.
DrainTick(p) ==
  /\ stopPc[p] = "tick"
  /\ \/ stopPc' = [stopPc EXCEPT ![p] = "drain"]
     \/ /\ ~stopCtx[p]
        /\ stopPc' = [stopPc EXCEPT ![p] = "cancel"]
  /\ UNCHANGED <<state, workerCtx, schedVars, callVars, workerVars, gaugeVars, quotaVars,
                 stopDrain, stopCtx, stopScan, stopRet, drained, waiter>>

\* Mutant of StopCancel: the workers are waited for but not cancelled.
StopCancelKeepsWorkers(p) ==
  /\ stopPc[p] = "cancel"
  /\ stopPc' = [stopPc EXCEPT ![p] = "wait"]
  /\ waiter' = "waiting"
  /\ UNCHANGED <<state, workerCtx, schedVars, callVars, workerVars, gaugeVars, quotaVars,
                 stopDrain, stopCtx, stopScan, stopRet, drained>>

\* workerCancel (nil before Start), and the goroutine that waits is spawned.
StopCancel(p) ==
  /\ stopPc[p] = "cancel"
  /\ workerCtx' = IF workerCtx = "none" THEN "none" ELSE "done"
  /\ stopPc' = [stopPc EXCEPT ![p] = "wait"]
  /\ waiter' = "waiting"
  /\ UNCHANGED <<state, schedVars, callVars, workerVars, gaugeVars, quotaVars,
                 stopDrain, stopCtx, stopScan, stopRet, drained>>

\* Mutant of WaiterDone: the wait group is not waited for.
WaiterDoneAtOnce ==
  /\ waiter = "waiting"
  /\ waiter' = "done"
  /\ state' = "stopped"
  /\ UNCHANGED <<workerCtx, schedVars, callVars, workerVars, gaugeVars, quotaVars,
                 stopPc, stopDrain, stopCtx, stopScan, stopRet, drained>>

\* workerWG.Wait returns; the state is stopped and stopDone closed.
WaiterDone ==
  /\ waiter = "waiting"
  /\ \A w \in Workers : wpc[w] \in {"none", "exited"}
  /\ waiter' = "done"
  /\ state' = "stopped"
  /\ UNCHANGED <<workerCtx, schedVars, callVars, workerVars, gaugeVars, quotaVars,
                 stopPc, stopDrain, stopCtx, stopScan, stopRet, drained>>

\* The owner returns ctx.Err() whether the workers exited or its context
\* ended first.
StopReturn(p) ==
  /\ stopPc[p] = "wait"
  /\ waiter = "done" \/ ~stopCtx[p]
  /\ stopPc' = [stopPc EXCEPT ![p] = "returned"]
  /\ stopRet' = [stopRet EXCEPT ![p] = IF stopCtx[p] THEN "nil" ELSE "ctx"]
  /\ UNCHANGED <<state, workerCtx, schedVars, callVars, workerVars, gaugeVars, quotaVars,
                 stopDrain, stopCtx, stopScan, drained, waiter>>

\* A concurrent call returns nil on stopDone, or its context's error.
StopReturnOther(p) ==
  /\ stopPc[p] = "waitOther"
  /\ \/ /\ waiter = "done"
        /\ stopRet' = [stopRet EXCEPT ![p] = "nil"]
     \/ /\ ~stopCtx[p]
        /\ stopRet' = [stopRet EXCEPT ![p] = "ctx"]
  /\ stopPc' = [stopPc EXCEPT ![p] = "returned"]
  /\ UNCHANGED <<state, workerCtx, schedVars, callVars, workerVars, gaugeVars, quotaVars,
                 stopDrain, stopCtx, stopScan, drained, waiter>>

-----------------------------------------------------------------------------
CallerNext(j) ==
  \/ SubmitBegin(j) \/ CancelCaller(j) \/ Submit(j) \/ SubmitSend(j) \/ SubmitCancelled(j)
  \/ TrySubmit(j) \/ EnqueueContinuation(j) \/ TrySend(j)

WorkerNext(w) ==
  \/ Receive(w) \/ WorkerExit(w) \/ CollectBatch(w) \/ RunJob(w) \/ FinishJob(w)
  \/ AbandonBatch(w) \/ Requeue(w) \/ RequeueCancelled(w)

StopNext(p) ==
  \/ \E drain \in DrainChoices : StopBegin(p, drain)
  \/ ExpireStop(p) \/ DrainBegin(p) \/ DrainScan(p) \/ DrainVerdict(p) \/ DrainTick(p)
  \/ StopCancel(p) \/ StopReturn(p) \/ StopReturnOther(p)

Next ==
  \/ Start
  \/ CancelStartCtx
  \/ \E j \in Jobs : CallerNext(j)
  \/ \E w \in Workers : WorkerNext(w)
  \/ \E u \in Updaters : UpdateQuotaPublish(u) \/ \E q \in Quotas : UpdateQuotaCheck(u, q)
  \/ \E p \in Stoppers : StopNext(p)
  \/ WaiterDone

Spec == Init /\ [][Next]_vars

\* What Go's scheduler and the library's callers guarantee: a goroutine that
\* can take a step of the library takes one in the end, and every job.Run
\* returns.  No new call, cancellation or expiry is ever promised.
CallerSteps(j) == Submit(j) \/ SubmitSend(j) \/ SubmitCancelled(j) \/ TrySend(j)
StopSteps(p) ==
  \/ DrainBegin(p) \/ DrainScan(p) \/ DrainVerdict(p) \/ DrainTick(p)
  \/ StopCancel(p) \/ StopReturn(p) \/ StopReturnOther(p)

Fairness ==
  /\ \A j \in Jobs : WF_vars(CallerSteps(j))
  /\ \A w \in Workers : WF_vars(WorkerNext(w))
  /\ \A p \in Stoppers : WF_vars(StopSteps(p))
  /\ WF_vars(WaiterDone)

FairSpec == Spec /\ Fairness

-----------------------------------------------------------------------------
(***************************************************************************)
(* Properties.                                                             *)
(***************************************************************************)

\* The type invariant: the lane queues never exceed QueueSizePerLane, the
\* ready channel never exceeds its capacity and no gauge is negative.
TypeOK ==
  /\ state \in {"new", "running", "stopping", "stopped"}
  /\ workerCtx \in {"none", "live", "done"}
  /\ ready \in [Shards -> BOOLEAN]
  /\ lanes \in [Shards -> [Lanes -> Seq(Jobs)]]
  /\ \A s \in Shards, l \in Lanes : Len(lanes[s][l]) <= QueueSize
  /\ readyCh \in Seq(Shards)
  /\ Len(readyCh) <= ReadyCap
  /\ spc \in [Jobs -> {"idle", "enqueue", "send", "trySend"}]
  /\ callerCtx \in [Jobs -> BOOLEAN]
  /\ result \in [Jobs -> {"none", "nil", "err", "ctx"}]
  /\ wpc \in [Workers -> {"none", "loop", "collect", "check", "running", "requeue", "exited"}]
  /\ wshard \in [Workers -> Shards]
  /\ wbatch \in [Workers -> [Lanes -> Seq(Jobs)]]
  /\ wmore \in [Workers -> BOOLEAN]
  /\ inflight \in Nat
  /\ shardInflight \in [Shards -> Nat]
  /\ laneInflight \in [Lanes -> Nat]
  /\ quota \in Quotas
  /\ upd \in [Updaters -> Quotas \cup {NoPolicy}]
  /\ stopPc \in [Stoppers -> {"idle", "drain", "scan", "tick", "cancel", "wait", "waitOther",
                               "returned"}]
  /\ stopDrain \in [Stoppers -> BOOLEAN]
  /\ stopCtx \in [Stoppers -> BOOLEAN]
  /\ stopScan \in [Stoppers -> 0..NumShards]
  /\ stopRet \in [Stoppers -> {"none", "nil", "ctx"}]
  /\ drained \in [Stoppers -> BOOLEAN]
  /\ waiter \in {"none", "waiting", "done"}

\* Who is responsible for a ready shard: the channel, the caller that is
\* about to announce it, or the worker that is going to look at its lanes
\* or to requeue it.
InChannel(s) == \E i \in DOMAIN readyCh : readyCh[i] = s
CallerHolds(j, s) == spc[j] \in {"send", "trySend"} /\ JobShard(j) = s
WorkerHolds(w, s) ==
  /\ wshard[w] = s
  /\ \/ wpc[w] = "collect"
     \/ wpc[w] \in {"check", "running", "requeue"} /\ wmore[w]
Held(s) ==
  \/ InChannel(s)
  \/ \E j \in Jobs : CallerHolds(j, s)
  \/ \E w \in Workers : WorkerHolds(w, s)

\* A shard is announced at most once: over the channel, the callers and the
\* workers there is one holder of a shard at most, and only while its Ready
\* flag is set.  This is what makes one worker at a time pop from a shard and
\* bounds the channel.
SingleAnnouncement ==
  /\ \A i, k \in DOMAIN readyCh : readyCh[i] = readyCh[k] => i = k
  /\ \A s \in Shards :
       /\ \A j, k \in Jobs : CallerHolds(j, s) /\ CallerHolds(k, s) => j = k
       /\ \A v, w \in Workers : WorkerHolds(v, s) /\ WorkerHolds(w, s) => v = w
       /\ InChannel(s) => ~ \E j \in Jobs : CallerHolds(j, s)
       /\ InChannel(s) => ~ \E w \in Workers : WorkerHolds(w, s)
       /\ (\E j \in Jobs : CallerHolds(j, s)) => ~ \E w \in Workers : WorkerHolds(w, s)
       /\ Held(s) => ready[s]

\* Whoever is about to announce a shard finds room in the channel.  So the
\* default branch of the non-blocking sends ("shard already queued") is never
\* taken, the blocking sends never block, and no worker waits for a worker.
ChannelHasRoom ==
  /\ \A j \in Jobs : spc[j] \in {"send", "trySend"} => Len(readyCh) < ReadyCap
  /\ \A w \in Workers : wpc[w] = "requeue" => Len(readyCh) < ReadyCap

\* A Submit that returned its context's error and left its job in shard s.
Orphan(j, s) == result[j] = "ctx" /\ JobShard(j) = s /\ Queued(j)

\* No lost wakeup: a shard with queued work is announced or held, unless the
\* workers were cancelled or the very caller that owed the announcement gave
\* up on its context.
NoLostWakeup ==
  \A s \in Shards : HasWork(lanes[s]) =>
     Held(s) \/ CtxDone \/ \E j \in Jobs : Orphan(j, s)

\* The gauges that isDrained and the diagnostics read are exact: they count
\* the popped jobs that have neither finished nor been abandoned.
GaugesExact ==
  /\ inflight = Cardinality(UNION {{w} \X BatchSlots(wbatch[w]) : w \in Workers})
  /\ \A s \in Shards : shardInflight[s] =
        Cardinality(UNION {{w} \X BatchSlots(wbatch[w]) : w \in {v \in Workers : wshard[v] = s}})
  /\ \A l \in Lanes : laneInflight[l] =
        Cardinality(UNION {{w} \X (1..Len(wbatch[w][l])) : w \in Workers})

\* When isDrained has returned true nothing is queued and nothing runs, and
\* nothing comes back: the scan that takes one shard lock at a time is sound.
DrainedMeansEmpty ==
  (\E p \in Stoppers : drained[p]) =>
     /\ \A s \in Shards : ~HasWork(lanes[s])
     /\ \A w \in Workers : ~HasWork(wbatch[w])

\* A scheduler that reports stopped runs nothing: every worker has exited.
StoppedMeansQuiet ==
  state = "stopped" => \A w \in Workers : wpc[w] \in {"none", "exited"} /\ ~HasWork(wbatch[w])

\* The refinement mapping of JobLifecycle.
Phase == [j \in Jobs |->
            IF \E w \in Workers : wpc[w] = "running" /\ CurrentJob(w) = j THEN "running"
            ELSE IF InSystem(j) THEN "waiting" ELSE "out"]

Lifecycle == INSTANCE JobLifecycle WITH phase <- Phase, cancelled <- CtxDone

\* Through every interleaving an accepted job runs at most once, never before
\* it was accepted, and is dropped only by a cancelled worker.
ImplementsJobLifecycle == Lifecycle!Spec

\* A queued job is run in the end, however the other lanes of its shard and
\* the other shards are kept busy, unless the workers' context ends.
QueuedJobRuns ==
  \A j \in Jobs : (Queued(j) /\ workerCtx = "live") ~>
     (CtxDone \/ \E w \in Workers : wpc[w] = "running" /\ CurrentJob(w) = j)

\* docs/phase-3-worker-scheduler.md: "Jobs run as long as the context passed
\* to `Start` is alive."  A job whose submission returned nil runs in the end,
\* whatever other callers' contexts do.
AcceptedJobRuns ==
  \A j \in Jobs : (Queued(j) /\ result[j] = "nil" /\ workerCtx = "live") ~>
     (CtxDone \/ \E w \in Workers : wpc[w] = "running" /\ CurrentJob(w) = j)

\* Once the workers have been started, every Stop call returns.
StopReturns ==
  \A p \in Stoppers : (stopPc[p] # "idle" /\ workerCtx # "none") ~> (stopPc[p] = "returned")

\* docs/phase-5-backpressure-and-shutdown.md, WithDrain(true): "Waits for all
\* enqueued and in-flight jobs to finish before stopping."  A Stop in drain
\* mode of a started queue that returns nil leaves no job behind.
NilDrainMeansProcessed ==
  \A p \in Stoppers : (stopDrain[p] /\ stopRet[p] = "nil" /\ workerCtx # "none") =>
     \A s \in Shards : ~HasWork(lanes[s])
=============================================================================
