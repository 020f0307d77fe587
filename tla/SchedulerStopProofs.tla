------------------------- MODULE SchedulerStopProofs --------------------------
(***************************************************************************)
(* Proofs about the shutdown of Scheduler: what isDrained has seen stays   *)
(* so, and a scheduler that reports stopped runs nothing.  And about the   *)
(* life of a job: it is in one place at a time, and so the scheduler       *)
(* implements JobLifecycle.                                                *)
(***************************************************************************)
EXTENDS SchedulerProofs

Closed == state \in {"stopping", "stopped"}

\* The scan of isDrained: it runs in a closed scheduler only, the shards it
\* has passed are empty, and its verdict holds.
ScanInv ==
  \A p \in Stoppers :
     /\ stopPc[p] \notin {"idle", "returned"} => Closed
     /\ stopPc[p] = "scan" =>
          \A s \in Shards : s < stopScan[p] => ~HasWork(lanes[s])
     /\ drained[p] => /\ Closed
                      /\ \A s \in Shards : ~HasWork(lanes[s])
                      /\ \A w \in Workers : ~HasWork(wbatch[w])

\* The waiter runs in a closed scheduler, and once it is done no worker runs.
QuietInv ==
  /\ waiter # "none" => Closed
  /\ state = "stopped" => \A w \in Workers : wpc[w] \in {"none", "exited"}

StopInv == TypeInv /\ ScanInv /\ QuietInv

-----------------------------------------------------------------------------
\* A closed scheduler stays closed.
LEMMA ClosedForGood ==
  ASSUME Closed, [Next]_vars
  PROVE  Closed'
<1>1. CASE UNCHANGED state
  BY <1>1 DEF Closed
<1>2. CASE state' # state
  BY <1>2
  DEF Next, vars, Start, CancelStartCtx, WaiterDone, UpdateQuotaPublish, UpdateQuotaCheck,
      CallerNext, SubmitBegin, CancelCaller, Submit, SubmitSend, SubmitCancelled, TrySubmit,
      EnqueueContinuation, TrySend, WorkerNext, Receive, WorkerExit, CollectBatch, RunJob,
      FinishJob, AbandonBatch, Requeue, RequeueCancelled, StopNext, StopBegin, ExpireStop,
      DrainBegin, DrainScan, DrainVerdict, DrainTick, StopCancel, StopReturn, StopReturnOther,
      Closed
<1> QED
  BY <1>1, <1>2

\* popN takes nothing from an empty lane and leaves nothing there.
LEMMA PopNothing ==
  ASSUME NEW n \in Nat \ {0}
  PROVE  Taken(<<>>, n) = <<>> /\ Left(<<>>, n) = <<>>
<1>1. Len(<<>>) = 0 /\ ~(n < 0)
  OBVIOUS
<1> QED
  BY <1>1 DEF Taken, Left

\* In a closed scheduler an empty shard stays empty: every way to queue a job
\* checks the state first.
LEMMA EmptyForGood ==
  ASSUME TypeInv, Closed, [Next]_vars, NEW s \in Shards, ~HasWork(lanes[s])
  PROVE  ~HasWork(lanes'[s])
<1>1. /\ lanes \in [Shards -> [Lanes -> Seq(Jobs)]] /\ quota \in [Lanes -> Nat \ {0}]
      /\ wshard \in [Workers -> Shards]
  BY QuotasAssumption DEF TypeInv, GaugeInv, WakeInv, WakeTypes, TokenInv, TokenTypes
<1>2. ASSUME lanes' = lanes PROVE ~HasWork(lanes'[s])
  BY <1>2
<1>3. ASSUME NEW j \in Jobs, CallerNext(j) PROVE lanes' = lanes
  BY <1>3
  DEF CallerNext, SubmitBegin, CancelCaller, Submit, SubmitSend, SubmitCancelled, TrySubmit,
      EnqueueContinuation, TrySend, Enqueue, Reject, schedVars, Closed
<1>4. ASSUME NEW w \in Workers, CollectBatch(w) PROVE ~HasWork(lanes'[s])
  <2> DEFINE t == wshard[w]
  <2>1. /\ t \in Shards
        /\ lanes' = [lanes EXCEPT ![t] = [l \in Lanes |-> Left(lanes[t][l], quota[l])]]
    BY <1>1, <1>4 DEF CollectBatch
  <2> HIDE DEF t
  <2>2. CASE s # t
    BY <1>1, <2>1, <2>2
  <2>3. CASE s = t
    <3>1. \A l \in Lanes : lanes[s][l] = <<>>
      BY DEF HasWork
    <3>2. \A l \in Lanes : Left(lanes[s][l], quota[l]) = <<>>
      BY <1>1, <3>1, PopNothing
    <3>3. \A l \in Lanes : lanes'[s][l] = <<>>
      BY <1>1, <2>1, <2>3, <3>2
    <3> QED
      BY <3>3 DEF HasWork
  <2> QED
    BY <2>2, <2>3
<1>5. ASSUME NEW w \in Workers, WorkerNext(w), ~CollectBatch(w) PROVE lanes' = lanes
  BY <1>5
  DEF WorkerNext, Receive, WorkerExit, RunJob, FinishJob, AbandonBatch, Requeue,
      RequeueCancelled, schedVars
<1>6. CASE \/ UNCHANGED vars \/ Start \/ CancelStartCtx \/ WaiterDone
           \/ \E u \in Updaters : UpdateQuotaPublish(u) \/ \E q \in Quotas : UpdateQuotaCheck(u, q)
           \/ \E p \in Stoppers : StopNext(p)
  <2>1. lanes' = lanes
    BY <1>6
    DEF vars, Start, CancelStartCtx, WaiterDone, UpdateQuotaPublish, UpdateQuotaCheck, StopNext,
        StopBegin, ExpireStop, DrainBegin, DrainScan, DrainVerdict, DrainTick, StopCancel,
        StopReturn, StopReturnOther, schedVars
  <2> QED
    BY <1>2, <2>1
<1> QED
  BY <1>2, <1>3, <1>4, <1>5, <1>6 DEF Next

\* Where nothing is queued, no worker gets work.
LEMMA NoNewWork ==
  ASSUME TypeInv, Closed, [Next]_vars,
         \A s \in Shards : ~HasWork(lanes[s]),
         \A w \in Workers : ~HasWork(wbatch[w]),
         NEW w \in Workers
  PROVE  ~HasWork(wbatch'[w])
<1>1. /\ quota \in [Lanes -> Nat \ {0}] /\ wshard \in [Workers -> Shards]
      /\ wbatch \in [Workers -> Batches]
      /\ \A v \in Workers : HasWork(wbatch[v]) <=> wpc[v] \in {"check", "running"}
  BY QuotasAssumption
  DEF TypeInv, GaugeInv, GaugeTypes, WakeInv, WakeTypes, TokenInv, TokenTypes
<1>2. ASSUME NEW v \in Workers, CollectBatch(v) PROVE ~HasWork(wbatch'[w])
  <2> DEFINE t == wshard[v]
  <2>1. /\ t \in Shards
        /\ wbatch' = [wbatch EXCEPT ![v] = [l \in Lanes |-> Taken(lanes[t][l], quota[l])]]
    BY <1>1, <1>2 DEF CollectBatch
  <2> HIDE DEF t
  <2>2. CASE w # v
    BY <1>1, <2>1, <2>2
  <2>3. CASE w = v
    <3>1. \A l \in Lanes : lanes[t][l] = <<>>
      BY <2>1 DEF HasWork
    <3>2. \A l \in Lanes : Taken(lanes[t][l], quota[l]) = <<>>
      BY <1>1, <3>1, PopNothing
    <3>3. \A l \in Lanes : wbatch'[w][l] = <<>>
      BY <1>1, <2>1, <2>3, <3>2
    <3> QED
      BY <3>3 DEF HasWork
  <2> QED
    BY <2>2, <2>3
<1>3. ASSUME NEW v \in Workers, WorkerNext(v), ~CollectBatch(v) PROVE wbatch' = wbatch
  <2>1. wpc[v] \notin {"check", "running"}
    BY <1>1
  <2> QED
    BY <1>3, <2>1
    DEF WorkerNext, Receive, WorkerExit, RunJob, FinishJob, AbandonBatch, Requeue,
        RequeueCancelled
<1>4. ASSUME NEW j \in Jobs, CallerNext(j) PROVE wbatch' = wbatch
  BY <1>4
  DEF CallerNext, SubmitBegin, CancelCaller, Submit, SubmitSend, SubmitCancelled, TrySubmit,
      EnqueueContinuation, TrySend, workerVars
<1>5. CASE \/ UNCHANGED vars \/ Start \/ CancelStartCtx \/ WaiterDone
           \/ \E u \in Updaters : UpdateQuotaPublish(u) \/ \E q \in Quotas : UpdateQuotaCheck(u, q)
           \/ \E p \in Stoppers : StopNext(p)
  <2>1. wbatch' = wbatch
    BY <1>5
    DEF vars, Start, CancelStartCtx, WaiterDone, UpdateQuotaPublish, UpdateQuotaCheck, StopNext,
        StopBegin, ExpireStop, DrainBegin, DrainScan, DrainVerdict, DrainTick, StopCancel,
        StopReturn, StopReturnOther, workerVars
  <2> QED
    BY <2>1
<1> QED
  BY <1>2, <1>3, <1>4, <1>5 DEF Next

\* A gauge at zero means that no worker has a job: the gauge is exact.
LEMMA ZeroMeansIdle ==
  ASSUME TypeInv, inflight = 0, NEW w \in Workers
  PROVE  ~HasWork(wbatch[w])
<1>1. GaugesExact /\ wbatch \in [Workers -> Batches]
  BY DEF TypeInv, GaugeInv, GaugeTypes
<1>2. inflight = Cardinality(Total(Workers, AllSlots))
  BY <1>1, ExactIsTotals DEF GaugesAsTotals
<1>3. \A v \in Workers : IsFiniteSet(AllSlots[v])
  BY <1>1, BatchFinite DEF AllSlots
<1>4. IsFiniteSet(Total(Workers, AllSlots))
  <2> DEFINE g == AllSlots
  <2>1. IsFiniteSet(Workers) /\ \A v \in Workers : IsFiniteSet(g[v])
    BY <1>3, FiniteAssumption
  <2> HIDE DEF g
  <2>2. IsFiniteSet(Total(Workers, g))
    BY <2>1, TotalFinite
  <2> QED
    BY <2>2 DEF g
<1>5. Total(Workers, AllSlots) = {}
  BY <1>2, <1>4, FS_EmptySet
<1>6. \A x \in BatchSlots(wbatch[w]) : <<w, x>> \in Total(Workers, AllSlots)
  BY DEF Total, AllSlots
<1>7. SUFFICES ASSUME NEW l \in Lanes, wbatch[w][l] # <<>> PROVE FALSE
  BY DEF HasWork
<1>8. wbatch[w][l] \in Seq(Jobs)
  BY <1>1 DEF Batches
<1>9. 1 \in 1..Len(wbatch[w][l])
  BY <1>7, <1>8
<1>10. <<l, 1>> \in BatchSlots(wbatch[w])
  BY <1>9 DEF BatchSlots
<1> QED
  BY <1>5, <1>6, <1>10

-----------------------------------------------------------------------------
\* The scan takes one shard lock at a time, yet its verdict is sound: the
\* shards it has passed cannot fill again, and the second look at the gauge
\* sees every job popped in the meantime.
LEMMA ScanStep ==
  ASSUME StopInv, [Next]_vars
  PROVE  ScanInv'
<1>1. TypeInv /\ ScanInv /\ ControlTypes
  BY DEF StopInv, TypeInv
<1>2. Closed => Closed'
  BY ClosedForGood
<1>3. Closed => \A s \in Shards : ~HasWork(lanes[s]) => ~HasWork(lanes'[s])
  BY <1>1, EmptyForGood
<1>4. ASSUME NEW p \in Stoppers, drained[p]
      PROVE  /\ Closed'
             /\ \A s \in Shards : ~HasWork(lanes'[s])
             /\ \A w \in Workers : ~HasWork(wbatch'[w])
  BY <1>1, <1>2, <1>3, <1>4, NoNewWork DEF ScanInv
<1>5. ASSUME NEW p \in Stoppers,
             stopPc'[p] = stopPc[p], stopScan'[p] = stopScan[p], drained'[p] => drained[p]
      PROVE  /\ stopPc'[p] \notin {"idle", "returned"} => Closed'
             /\ stopPc'[p] = "scan" =>
                  \A s \in Shards : s < stopScan'[p] => ~HasWork(lanes'[s])
             /\ drained'[p] => /\ Closed'
                               /\ \A s \in Shards : ~HasWork(lanes'[s])
                               /\ \A w \in Workers : ~HasWork(wbatch'[w])
  <2>1. stopPc'[p] \notin {"idle", "returned"} => Closed'
    BY <1>1, <1>2, <1>5 DEF ScanInv
  <2>2. stopPc'[p] = "scan" => \A s \in Shards : s < stopScan'[p] => ~HasWork(lanes'[s])
    <3> SUFFICES ASSUME stopPc[p] = "scan", NEW s \in Shards, s < stopScan[p]
                 PROVE  ~HasWork(lanes'[s])
      BY <1>5
    <3>1. Closed /\ ~HasWork(lanes[s])
      BY <1>1 DEF ScanInv
    <3> QED
      BY <1>3, <3>1
  <2> QED
    BY <1>4, <1>5, <2>1, <2>2
<1>6. ASSUME UNCHANGED <<stopPc, stopScan, drained>> PROVE ScanInv'
  BY <1>5, <1>6 DEF ScanInv
<1>7. ASSUME NEW p \in Stoppers, StopNext(p) PROVE ScanInv'
  <2>0. \A q \in Stoppers \ {p} :
           stopPc'[q] = stopPc[q] /\ stopScan'[q] = stopScan[q] /\ drained'[q] = drained[q]
    BY <1>1, <1>7
    DEF StopNext, StopBegin, ExpireStop, DrainBegin, DrainScan, DrainVerdict, DrainTick,
        StopCancel, StopReturn, StopReturnOther, ControlTypes
  <2> SUFFICES /\ stopPc'[p] \notin {"idle", "returned"} => Closed'
               /\ stopPc'[p] = "scan" =>
                    \A s \in Shards : s < stopScan'[p] => ~HasWork(lanes'[s])
               /\ drained'[p] => /\ Closed'
                                 /\ \A s \in Shards : ~HasWork(lanes'[s])
                                 /\ \A w \in Workers : ~HasWork(wbatch'[w])
    BY <1>5, <2>0 DEF ScanInv
  <2>1. ASSUME NEW drain \in DrainChoices, StopBegin(p, drain)
        PROVE  /\ stopPc'[p] \notin {"idle", "returned"} => Closed'
               /\ stopPc'[p] # "scan" /\ drained'[p] = drained[p]
    BY <1>1, <2>1 DEF StopBegin, Closed, ControlTypes
  <2>2. CASE ExpireStop(p)
    BY <1>5, <2>2 DEF ExpireStop
  <2>3. CASE DrainBegin(p)
    <3>1. stopPc[p] = "drain" /\ stopScan'[p] = 0 /\ drained'[p] = drained[p]
      BY <1>1, <2>3 DEF DrainBegin, ControlTypes
    <3>2. \A s \in Shards : ~(s < 0)
      BY SizesAssumption DEF Shards
    <3>3. Closed'
      BY <1>1, <1>2, <3>1 DEF ScanInv
    <3> QED
      BY <1>4, <3>1, <3>2, <3>3
  <2>4. CASE DrainScan(p)
    <3>1. /\ stopPc[p] = "scan" /\ stopScan[p] \in Shards /\ drained'[p] = drained[p]
          /\ lanes' = lanes
          /\ \/ stopPc'[p] = "tick"
             \/ stopScan'[p] = stopScan[p] + 1 /\ ~HasWork(lanes[stopScan[p]])
      BY <1>1, <2>4 DEF DrainScan, ControlTypes, schedVars
    <3>2. Closed'
      BY <1>1, <1>2, <3>1 DEF ScanInv
    <3>3. stopPc'[p] # "tick" =>
             \A s \in Shards : s < stopScan'[p] => s < stopScan[p] \/ s = stopScan[p]
      BY <3>1, SizesAssumption DEF Shards
    <3>4. \A s \in Shards : s < stopScan[p] => ~HasWork(lanes[s])
      BY <1>1, <3>1 DEF ScanInv
    <3>5. stopPc'[p] = "scan" => \A s \in Shards : s < stopScan'[p] => ~HasWork(lanes'[s])
      BY <3>1, <3>3, <3>4
    <3> QED
      BY <1>4, <3>1, <3>2, <3>5
  <2>5. CASE DrainVerdict(p)
    <3>1. /\ stopPc[p] = "scan" /\ stopScan[p] = NumShards
          /\ stopPc'[p] \in {"cancel", "tick"}
          /\ drained'[p] => inflight = 0
          /\ UNCHANGED <<lanes, wbatch>>
      BY <1>1, <2>5 DEF DrainVerdict, ControlTypes, schedVars, workerVars
    <3>2. Closed'
      BY <1>1, <1>2, <3>1 DEF ScanInv
    <3>3. \A s \in Shards : s < NumShards
      BY SizesAssumption DEF Shards
    <3>4. \A s \in Shards : ~HasWork(lanes[s])
      BY <1>1, <3>1, <3>3 DEF ScanInv
    <3>5. inflight = 0 => \A w \in Workers : ~HasWork(wbatch[w])
      BY <1>1, ZeroMeansIdle
    <3> QED
      BY <3>1, <3>2, <3>4, <3>5
  <2>6. CASE DrainTick(p) \/ StopCancel(p) \/ StopReturn(p) \/ StopReturnOther(p)
    <3>1. /\ stopPc[p] \in {"tick", "cancel", "wait", "waitOther"}
          /\ stopPc'[p] # "scan" /\ drained'[p] = drained[p]
      BY <1>1, <2>6 DEF DrainTick, StopCancel, StopReturn, StopReturnOther, ControlTypes
    <3>2. Closed'
      BY <1>1, <1>2, <3>1 DEF ScanInv
    <3> QED
      BY <1>4, <3>1, <3>2
  <2> QED
    BY <1>4, <1>7, <2>1, <2>2, <2>3, <2>4, <2>5, <2>6 DEF StopNext
<1>8. ASSUME NEW j \in Jobs, CallerNext(j) PROVE UNCHANGED stopVars
  BY <1>8
  DEF CallerNext, SubmitBegin, CancelCaller, Submit, SubmitSend, SubmitCancelled, TrySubmit,
      EnqueueContinuation, TrySend
<1>9. ASSUME NEW w \in Workers, WorkerNext(w) PROVE UNCHANGED stopVars
  BY <1>9
  DEF WorkerNext, Receive, WorkerExit, CollectBatch, RunJob, FinishJob, AbandonBatch, Requeue,
      RequeueCancelled
<1>10. CASE \/ UNCHANGED vars \/ Start \/ CancelStartCtx \/ WaiterDone
            \/ \E u \in Updaters : UpdateQuotaPublish(u) \/ \E q \in Quotas : UpdateQuotaCheck(u, q)
  <2>1. UNCHANGED <<stopPc, stopScan, drained>>
    BY <1>10
    DEF vars, Start, CancelStartCtx, WaiterDone, UpdateQuotaPublish, UpdateQuotaCheck, stopVars
  <2> QED
    BY <1>6, <2>1
<1> QED
  BY <1>6, <1>7, <1>8, <1>9, <1>10 DEF Next, stopVars

\* The state is stopped only once the wait group has been waited for, and no
\* worker starts again.
LEMMA QuietStep ==
  ASSUME StopInv, [Next]_vars
  PROVE  QuietInv'
<1>1. /\ ControlTypes /\ ScanInv /\ QuietInv
      /\ wpc \in [Workers -> {"none", "loop", "collect", "check", "running", "requeue", "exited"}]
  BY DEF StopInv, TypeInv, GaugeInv, WakeInv, TokenInv, TokenTypes
<1>2. Closed => Closed'
  BY ClosedForGood
<1>3. ASSUME UNCHANGED <<state, waiter, wpc>> PROVE QuietInv'
  BY <1>1, <1>3 DEF QuietInv, Closed
<1>4. CASE Start
  BY <1>1, <1>4 DEF Start, QuietInv, Closed, stopVars
<1>5. CASE WaiterDone
  BY <1>5 DEF WaiterDone, QuietInv, Closed, workerVars
<1>6. ASSUME NEW w \in Workers, WorkerNext(w) PROVE QuietInv'
  <2>1. UNCHANGED <<state, waiter>> /\ wpc[w] \notin {"none", "exited"}
    BY <1>6
    DEF WorkerNext, Receive, WorkerExit, CollectBatch, RunJob, FinishJob, AbandonBatch, Requeue,
        RequeueCancelled, stopVars
  <2> QED
    BY <1>1, <2>1 DEF QuietInv, Closed
<1>7. ASSUME NEW p \in Stoppers, StopNext(p) PROVE QuietInv'
  <2>1. CASE StopCancel(p)
    <3>1. Closed /\ UNCHANGED <<state, wpc>>
      BY <1>1, <2>1 DEF StopCancel, ScanInv, workerVars
    <3> QED
      BY <1>1, <3>1 DEF QuietInv, Closed
  <2>2. CASE ~StopCancel(p)
    <3>1. /\ UNCHANGED <<waiter, wpc>>
          /\ state' = state \/ state' = "stopping"
      BY <1>7, <2>2
      DEF StopNext, StopBegin, ExpireStop, DrainBegin, DrainScan, DrainVerdict, DrainTick,
          StopReturn, StopReturnOther, workerVars
    <3> QED
      BY <1>1, <1>2, <3>1 DEF QuietInv, Closed
  <2> QED
    BY <2>1, <2>2
<1>8. ASSUME NEW j \in Jobs, CallerNext(j) PROVE UNCHANGED <<state, waiter, wpc>>
  BY <1>8
  DEF CallerNext, SubmitBegin, CancelCaller, Submit, SubmitSend, SubmitCancelled, TrySubmit,
      EnqueueContinuation, TrySend, workerVars, stopVars
<1>9. CASE \/ UNCHANGED vars \/ CancelStartCtx
           \/ \E u \in Updaters : UpdateQuotaPublish(u) \/ \E q \in Quotas : UpdateQuotaCheck(u, q)
  <2>1. UNCHANGED <<state, waiter, wpc>>
    BY <1>9
    DEF vars, CancelStartCtx, UpdateQuotaPublish, UpdateQuotaCheck, stopVars, workerVars
  <2> QED
    BY <1>3, <2>1
<1> QED
  BY <1>3, <1>4, <1>5, <1>6, <1>7, <1>8, <1>9 DEF Next

\* Every step keeps the shutdown's invariant.
LEMMA StopStep == StopInv /\ [Next]_vars => StopInv'
  BY TypeStep, ScanStep, QuietStep DEF StopInv

\* A new scheduler has not been asked to stop.
LEMMA StopInit == Init => StopInv
<1> SUFFICES ASSUME Init PROVE StopInv
  OBVIOUS
<1>1. TypeInv
  BY TypeInit
<1>2. ScanInv /\ QuietInv
  BY DEF Init, ScanInv, QuietInv
<1> QED
  BY <1>1, <1>2 DEF StopInv

\* When isDrained has returned true, nothing is queued and nothing is in a
\* worker's batch, then and ever after, although the scan looks at one shard
\* at a time while workers go on popping.
THEOREM DrainIsSound == Spec => []DrainedMeansEmpty
<1>1. StopInv => DrainedMeansEmpty
  BY DEF StopInv, ScanInv, DrainedMeansEmpty
<1> QED
  BY <1>1, StopInit, StopStep, PTL DEF Spec

\* A scheduler that reports stopped has no worker left and no job in a batch.
THEOREM StoppedIsQuiet == Spec => []StoppedMeansQuiet
<1>1. StopInv => StoppedMeansQuiet
  BY DEF StopInv, QuietInv, TypeInv, GaugeInv, GaugeTypes, StoppedMeansQuiet
<1> QED
  BY <1>1, StopInit, StopStep, PTL DEF Spec
-----------------------------------------------------------------------------
(***************************************************************************)
(* A job's life.  A job of the system is in one place: in its lane of its  *)
(* shard or in one worker's batch, and there once.  With that a step of    *)
(* the scheduler is a step of JobLifecycle or none.                        *)
(***************************************************************************)
In(q, j) == \E i \in DOMAIN q : q[i] = j
Once(q) == \A i, k \in DOMAIN q : q[i] = q[k] => i = k

InBatch(w, j) == In(wbatch[w][JobLane[j]], j)
Running(j) == \E w \in Workers : wpc[w] = "running" /\ CurrentJob(w) = j

LanesTidy ==
  \A s \in Shards, l \in Lanes :
     /\ Once(lanes[s][l])
     /\ \A j \in Jobs : In(lanes[s][l], j) => JobShard(j) = s /\ JobLane[j] = l
BatchesTidy ==
  \A w \in Workers, l \in Lanes :
     /\ Once(wbatch[w][l])
     /\ \A j \in Jobs : In(wbatch[w][l], j) => JobLane[j] = l
OnePlace ==
  \A j \in Jobs :
     /\ Queued(j) => \A w \in Workers : ~InBatch(w, j)
     /\ \A v, w \in Workers : InBatch(v, j) /\ InBatch(w, j) => v = w
     /\ spc[j] = "enqueue" => ~InSystem(j)

PlaceInv == LanesTidy /\ BatchesTidy /\ OnePlace

\* A job is in the system when it is in its lane or in some batch.
LEMMA Places ==
  ASSUME NEW j
  PROVE  /\ Queued(j) <=> In(lanes[JobShard(j)][JobLane[j]], j)
         /\ InSystem(j) <=> Queued(j) \/ \E w \in Workers : InBatch(w, j)
  BY Zenon DEF In, InBatch, Queued, Popped, InSystem

\* popN splits a lane in two: every job of it is in one of the parts, and in
\* one only.
LEMMA PopParts ==
  ASSUME NEW q \in Seq(Jobs), NEW n \in Nat \ {0}, Once(q)
  PROVE  /\ Once(Taken(q, n)) /\ Once(Left(q, n))
         /\ \A j : In(q, j) <=> In(Taken(q, n), j) \/ In(Left(q, n), j)
         /\ \A j : ~(In(Taken(q, n), j) /\ In(Left(q, n), j))
<1>1. PICK c \in Nat : /\ c <= Len(q) /\ Len(q) \in Nat /\ DOMAIN q = 1..Len(q)
                       /\ Taken(q, n) = SubSeq(q, 1, c)
                       /\ Left(q, n) = SubSeq(q, c + 1, Len(q))
  <2>1. CASE n < Len(q)
    BY <2>1 DEF Taken, Left
  <2>2. CASE ~(n < Len(q))
    BY <2>2 DEF Taken, Left
  <2> QED
    BY <2>1, <2>2
<1> DEFINE T == Taken(q, n)
           L == Left(q, n)
           m == Len(q)
<1>2. /\ DOMAIN T = 1..c /\ \A i \in 1..c : i \in 1..m /\ T[i] = q[i]
      /\ DOMAIN L = 1..(m - c) /\ \A i \in 1..(m - c) : c + i \in 1..m /\ L[i] = q[c + i]
  <2>1. DOMAIN SubSeq(q, 1, c) = 1..c /\ \A i \in 1..c : i \in 1..Len(q) /\ SubSeq(q, 1, c)[i] = q[i]
    BY <1>1
  <2>2. /\ DOMAIN SubSeq(q, c + 1, Len(q)) = 1..(Len(q) - c)
        /\ \A i \in 1..(Len(q) - c) : c + i \in 1..Len(q) /\ SubSeq(q, c + 1, Len(q))[i] = q[c + i]
    BY <1>1
  <2> QED
    BY <1>1, <2>1, <2>2
<1>3. \A i \in 1..m : i \in 1..c \/ (i - c \in 1..(m - c) /\ c + (i - c) = i)
  BY <1>1
<1>4. \A i \in 1..c : \A k \in 1..(m - c) : i # c + k
  BY <1>1
<1>5. \A i, k \in 1..(m - c) : c + i = c + k => i = k
  BY <1>1
<1>6. \A i, k \in 1..m : q[i] = q[k] => i = k
  BY <1>1 DEF Once
<1>7. DOMAIN q = 1..m
  BY <1>1
<1> HIDE DEF T, L, m
<1>8. Once(T)
  BY <1>2, <1>6 DEF Once
<1>9. Once(L)
  <2>1. ASSUME NEW i \in 1..(m - c), NEW k \in 1..(m - c), L[i] = L[k] PROVE i = k
    <3>1. c + i \in 1..m /\ c + k \in 1..m /\ q[c + i] = q[c + k]
      BY <1>2, <2>1
    <3> QED
      BY <1>5, <1>6, <3>1
  <2> QED
    BY <1>2, <2>1 DEF Once
<1>10. ASSUME NEW j PROVE In(q, j) <=> In(T, j) \/ In(L, j)
  <2>1. ASSUME NEW i \in 1..m, q[i] = j PROVE In(T, j) \/ In(L, j)
    <3>1. CASE i \in 1..c
      BY <1>2, <2>1, <3>1 DEF In
    <3>2. CASE i - c \in 1..(m - c) /\ c + (i - c) = i
      <4>1. L[i - c] = q[i]
        BY <1>2, <3>2
      <4> QED
        BY <1>2, <2>1, <3>2, <4>1 DEF In
    <3> QED
      BY <1>3, <3>1, <3>2
  <2>2. In(T, j) => In(q, j)
    BY <1>2, <1>7, Zenon DEF In
  <2>3. In(L, j) => In(q, j)
    BY <1>2, <1>7, Zenon DEF In
  <2> QED
    BY <1>7, <2>1, <2>2, <2>3 DEF In
<1>11. ASSUME NEW j, In(T, j), In(L, j) PROVE FALSE
  <2>1. PICK i \in 1..c : T[i] = j
    BY <1>2, <1>11, Zenon DEF In
  <2>2. PICK k \in 1..(m - c) : L[k] = j
    BY <1>2, <1>11, Zenon DEF In
  <2>3. q[i] = q[c + k] /\ i \in 1..m /\ c + k \in 1..m
    BY <1>2, <2>1, <2>2
  <2> QED
    BY <1>4, <1>6, <2>3
<1> QED
  BY <1>8, <1>9, <1>10, <1>11 DEF T, L

\* A push adds its job to a lane and keeps the lane free of repetition when
\* the job is not there yet.
LEMMA PushOnce ==
  ASSUME NEW q \in Seq(Jobs), NEW j \in Jobs, Once(q), ~In(q, j)
  PROVE  /\ Once(Append(q, j))
         /\ \A k : In(Append(q, j), k) <=> In(q, k) \/ k = j
<1> DEFINE r == Append(q, j)
           m == Len(q)
<1>1. m \in Nat /\ DOMAIN q = 1..m /\ DOMAIN r = 1..(m + 1)
      /\ r[m + 1] = j /\ \A i \in 1..m : r[i] = q[i]
  OBVIOUS
<1>2. \A i \in 1..(m + 1) : i \in 1..m \/ i = m + 1
  BY <1>1
<1> HIDE DEF r, m
<1>3. \A i \in 1..m : r[i] # j
  BY <1>1 DEF In
<1>4. \A i, k \in 1..m : r[i] = r[k] => i = k
  BY <1>1 DEF Once
<1>5. ASSUME NEW i \in 1..(m + 1), NEW k \in 1..(m + 1), r[i] = r[k] PROVE i = k
  BY <1>1, <1>2, <1>3, <1>4, <1>5, Zenon
<1>6. Once(r)
  BY <1>1, <1>5, Zenon DEF Once
<1>7. m + 1 \in 1..(m + 1) /\ \A i \in 1..m : i \in 1..(m + 1)
  BY <1>1
<1>8. ASSUME NEW k PROVE In(r, k) <=> In(q, k) \/ k = j
  BY <1>1, <1>2, <1>7, Zenon DEF In
<1> QED
  BY <1>6, <1>8 DEF r

\* The head of a list is in it; the tail holds the rest.
LEMMA TailParts ==
  ASSUME NEW q \in Seq(Jobs), q # <<>>, Once(q)
  PROVE  /\ Head(q) \in Jobs /\ In(q, Head(q)) /\ Once(Tail(q))
         /\ \A j : In(Tail(q), j) <=> In(q, j) /\ j # Head(q)
<1> DEFINE r == Tail(q)
           m == Len(q)
<1>1. m \in Nat /\ m # 0 /\ DOMAIN q = 1..m /\ DOMAIN r = 1..(m - 1)
      /\ Head(q) = q[1] /\ q[1] \in Jobs /\ 1 \in 1..m
      /\ \A i \in 1..(m - 1) : i + 1 \in 1..m /\ i + 1 # 1 /\ r[i] = q[i + 1]
  OBVIOUS
<1>2. \A i \in 1..m : i = 1 \/ (i - 1 \in 1..(m - 1) /\ (i - 1) + 1 = i)
  BY <1>1
<1>3. \A i, k \in 1..(m - 1) : i + 1 = k + 1 => i = k
  BY <1>1
<1> HIDE DEF r, m
<1>4. \A i, k \in 1..m : q[i] = q[k] => i = k
  BY <1>1 DEF Once
<1>5. Once(r)
  BY <1>1, <1>3, <1>4 DEF Once
<1>6. ASSUME NEW j PROVE In(r, j) <=> In(q, j) /\ j # q[1]
  <2>1. ASSUME NEW i \in 1..(m - 1), r[i] = j PROVE In(q, j) /\ j # q[1]
    <3>1. i + 1 \in 1..m /\ i + 1 # 1 /\ q[i + 1] = j
      BY <1>1, <2>1
    <3> QED
      BY <1>1, <1>4, <3>1 DEF In
  <2>2. ASSUME NEW i \in 1..m, q[i] = j, j # q[1] PROVE In(r, j)
    <3>1. i - 1 \in 1..(m - 1) /\ (i - 1) + 1 = i
      BY <1>2, <2>2
    <3>2. r[i - 1] = j
      BY <1>1, <2>2, <3>1
    <3> QED
      BY <1>1, <3>1, <3>2 DEF In
  <2> QED
    BY <1>1, <2>1, <2>2 DEF In
<1> QED
  BY <1>1, <1>5, <1>6 DEF In, r
-----------------------------------------------------------------------------
\* The types the argument uses.
JobTypes ==
  /\ lanes \in [Shards -> [Lanes -> Seq(Jobs)]]
  /\ wbatch \in [Workers -> Batches]
  /\ wshard \in [Workers -> Shards]
  /\ quota \in [Lanes -> Nat \ {0}]
  /\ spc \in [Jobs -> {"idle", "enqueue", "send", "trySend"}]
  /\ wpc \in [Workers -> {"none", "loop", "collect", "check", "running", "requeue", "exited"}]
  /\ \A w \in Workers : HasWork(wbatch[w]) <=> wpc[w] \in {"check", "running"}

LEMMA TypedJobs == TypeInv => JobTypes
  BY QuotasAssumption
  DEF TypeInv, GaugeInv, GaugeTypes, WakeInv, WakeTypes, TokenInv, TokenTypes, JobTypes

\* A worker in the run loop has its current job in its batch.
LEMMA CurrentInBatch ==
  ASSUME JobTypes, BatchesTidy, NEW w \in Workers, wpc[w] \in {"check", "running"}
  PROVE  CurrentJob(w) \in Jobs /\ InBatch(w, CurrentJob(w))
<1> DEFINE b == wbatch[w]
           l == FirstLane(b)
           q == b[l]
<1>1. b \in Batches /\ HasWork(b)
  BY DEF JobTypes
<1>2. l \in Lanes /\ q # <<>>
  BY <1>1, FirstLaneExists
<1>3. q \in Seq(Jobs)
  BY <1>1, <1>2 DEF Batches
<1>4. Once(q) /\ \A j \in Jobs : In(q, j) => JobLane[j] = l
  BY <1>2 DEF BatchesTidy
<1>5. Head(q) \in Jobs /\ In(q, Head(q))
  <2> HIDE DEF q
  <2> QED
    BY <1>2, <1>3, <1>4, TailParts
<1>6. JobLane[Head(q)] = l
  BY <1>4, <1>5
<1> QED
  BY <1>5, <1>6 DEF CurrentJob, InBatch

\* A step that leaves lanes and batches alone, and sends no caller of a job in
\* the system to Enqueue, keeps every job in its place.
LEMMA PlaceFrame ==
  ASSUME PlaceInv, UNCHANGED <<lanes, wbatch>>,
         \A j \in Jobs : spc'[j] = "enqueue" => spc[j] = "enqueue" \/ ~InSystem(j)
  PROVE  PlaceInv' /\ \A j : InSystem(j)' <=> InSystem(j)
<1>1. ASSUME NEW j
      PROVE  /\ Queued(j)' <=> Queued(j)
             /\ InSystem(j)' <=> InSystem(j)
             /\ \A w \in Workers : InBatch(w, j)' <=> InBatch(w, j)
  BY Zenon DEF Queued, Popped, InSystem, InBatch
<1>2. LanesTidy' /\ BatchesTidy'
  BY Zenon DEF PlaceInv, LanesTidy, BatchesTidy
<1>3. OnePlace'
  BY <1>1, Zenon DEF PlaceInv, OnePlace
<1> QED
  BY <1>1, <1>2, <1>3 DEF PlaceInv

\* A push of a job that is not in the system.
LEMMA PlacePush ==
  ASSUME JobTypes, PlaceInv, NEW j \in Jobs, ~InSystem(j), wbatch' = wbatch,
         lanes' = [lanes EXCEPT ![JobShard(j)][JobLane[j]] = Append(@, j)],
         \A k \in Jobs : spc'[k] = "enqueue" => k # j /\ spc[k] = "enqueue"
  PROVE  PlaceInv' /\ \A k \in Jobs : InSystem(k)' <=> InSystem(k) \/ k = j
<1> DEFINE t == JobShard(j)
           m == JobLane[j]
<1>1. t \in Shards /\ m \in Lanes
  BY JobShardType, JobsAssumption
<1>2. /\ lanes[t][m] \in Seq(Jobs) /\ lanes'[t][m] = Append(lanes[t][m], j)
      /\ \A s \in Shards, l \in Lanes : (s # t \/ l # m) => lanes'[s][l] = lanes[s][l]
  BY <1>1 DEF JobTypes
<1>3. \A k \in Jobs : Queued(k)' <=> Queued(k) \/ k = j
  BY PushQueued DEF JobTypes
<1>4. \A k \in Jobs, w \in Workers : InBatch(w, k)' <=> InBatch(w, k)
  BY DEF InBatch
<1>5. \A k \in Jobs : InSystem(k)' <=> InSystem(k) \/ k = j
  <2>1. ASSUME NEW k \in Jobs PROVE InSystem(k)' <=> Queued(k)' \/ \E w \in Workers : InBatch(w, k)'
    BY Zenon DEF Popped, InSystem, InBatch, In
  <2> QED
    BY <1>3, <1>4, <2>1, Places
<1>6. ~In(lanes[t][m], j)
  BY Places
<1>7. LanesTidy'
  <2>1. ASSUME NEW s \in Shards, NEW l \in Lanes
        PROVE  /\ Once(lanes'[s][l])
               /\ \A k \in Jobs : In(lanes'[s][l], k) => JobShard(k) = s /\ JobLane[k] = l
    <3>1. CASE s # t \/ l # m
      BY <1>2, <3>1 DEF PlaceInv, LanesTidy
    <3>2. CASE s = t /\ l = m
      <4> DEFINE q == lanes[t][m]
      <4>1. Once(q) /\ q \in Seq(Jobs) /\ ~In(q, j)
            /\ \A k \in Jobs : In(q, k) => JobShard(k) = t /\ JobLane[k] = m
        BY <1>1, <1>2, <1>6 DEF PlaceInv, LanesTidy
      <4>2. lanes'[s][l] = Append(q, j)
        BY <1>2, <3>2
      <4> HIDE DEF q
      <4>3. Once(Append(q, j)) /\ \A k : In(Append(q, j), k) <=> In(q, k) \/ k = j
        BY <4>1, PushOnce
      <4> QED
        BY <3>2, <4>1, <4>2, <4>3
    <3> QED
      BY <3>1, <3>2
  <2> QED
    BY <2>1 DEF LanesTidy, Once, In
<1>8. BatchesTidy'
  BY Zenon DEF PlaceInv, BatchesTidy
<1>9. OnePlace'
  <2>1. \A w \in Workers : ~InBatch(w, j)
    BY Places
  <2> QED
    BY <1>3, <1>4, <1>5, <2>1, Zenon DEF PlaceInv, OnePlace
<1> QED
  BY <1>5, <1>7, <1>8, <1>9 DEF PlaceInv

\* A worker that replaces its batch leaves the others' alone.
LEMMA BatchMembers ==
  ASSUME JobTypes, NEW w \in Workers, NEW b, wbatch' = [wbatch EXCEPT ![w] = b]
  PROVE  /\ \A j, v : v \in Workers \ {w} => (InBatch(v, j)' <=> InBatch(v, j))
         /\ \A j : InBatch(w, j)' <=> In(b[JobLane[j]], j)
         /\ \A j : InSystem(j)' <=> Queued(j)' \/ \E v \in Workers : InBatch(v, j)'
         /\ \A v \in Workers : wbatch'[v] = IF v = w THEN b ELSE wbatch[v]
<1>1. \A v \in Workers : wbatch'[v] = IF v = w THEN b ELSE wbatch[v]
  BY DEF JobTypes
<1>2. wbatch'[w] = b /\ \A v \in Workers \ {w} : wbatch'[v] = wbatch[v]
  BY <1>1
<1>3. \A j : InSystem(j)' <=> Queued(j)' \/ \E v \in Workers : InBatch(v, j)'
  BY Zenon DEF Popped, InSystem, InBatch, In
<1> QED
  BY <1>1, <1>2, <1>3 DEF InBatch
\* popN moves jobs from the lanes of the worker's shard into its batch, which
\* was empty: every job of the system is still in one place.
LEMMA PlaceCollect ==
  ASSUME JobTypes, PlaceInv, NEW w \in Workers, CollectBatch(w)
  PROVE  PlaceInv' /\ \A j \in Jobs : InSystem(j)' <=> InSystem(j)
<1> DEFINE t == wshard[w]
           taken == [l \in Lanes |-> Taken(lanes[t][l], quota[l])]
           left == [l \in Lanes |-> Left(lanes[t][l], quota[l])]
<1>1. /\ t \in Shards /\ wpc[w] = "collect" /\ spc' = spc
      /\ lanes' = [lanes EXCEPT ![t] = left]
      /\ wbatch' = [wbatch EXCEPT ![w] = taken]
  BY DEF CollectBatch, JobTypes, callVars
<1>2. \A s \in Shards : lanes'[s] = IF s = t THEN left ELSE lanes[s]
  BY <1>1 DEF JobTypes
<1>3. /\ \A j, v : v \in Workers \ {w} => (InBatch(v, j)' <=> InBatch(v, j))
      /\ \A j : InBatch(w, j)' <=> In(taken[JobLane[j]], j)
      /\ \A j : InSystem(j)' <=> Queued(j)' \/ \E v \in Workers : InBatch(v, j)'
      /\ \A v \in Workers : wbatch'[v] = IF v = w THEN taken ELSE wbatch[v]
  <2> HIDE DEF taken
  <2> QED
    BY <1>1, BatchMembers
<1>4. \A j \in Jobs : ~InBatch(w, j)
  <2>1. \A l \in Lanes : wbatch[w][l] = <<>>
    BY <1>1 DEF JobTypes, HasWork
  <2> QED
    BY <2>1, JobsAssumption DEF InBatch, In
<1>5. \A l \in Lanes :
        /\ Once(taken[l]) /\ Once(left[l])
        /\ \A j : In(lanes[t][l], j) <=> In(taken[l], j) \/ In(left[l], j)
        /\ \A j : ~(In(taken[l], j) /\ In(left[l], j))
  <2>1. ASSUME NEW l \in Lanes
        PROVE  /\ Once(taken[l]) /\ Once(left[l])
               /\ \A j : In(lanes[t][l], j) <=> In(taken[l], j) \/ In(left[l], j)
               /\ \A j : ~(In(taken[l], j) /\ In(left[l], j))
    <3> DEFINE q == lanes[t][l]
               n == quota[l]
    <3>1. q \in Seq(Jobs) /\ n \in Nat \ {0} /\ Once(q)
      BY <1>1 DEF JobTypes, PlaceInv, LanesTidy
    <3>2. taken[l] = Taken(q, n) /\ left[l] = Left(q, n)
      OBVIOUS
    <3> HIDE DEF q, n, taken, left
    <3>3. /\ Once(Taken(q, n)) /\ Once(Left(q, n))
          /\ \A j : In(q, j) <=> In(Taken(q, n), j) \/ In(Left(q, n), j)
          /\ \A j : ~(In(Taken(q, n), j) /\ In(Left(q, n), j))
      BY <3>1, PopParts
    <3> QED
      BY <3>2, <3>3 DEF q
  <2> QED
    BY <2>1
<1> HIDE DEF taken, left, t
<1>6. \A j \in Jobs : JobShard(j) \in Shards /\ JobLane[j] \in Lanes
  BY JobShardType, JobsAssumption
<1>7. ASSUME NEW j \in Jobs
      PROVE  /\ JobShard(j) # t => (Queued(j)' <=> Queued(j)) /\ ~In(taken[JobLane[j]], j)
             /\ JobShard(j) = t => /\ Queued(j)' <=> In(left[JobLane[j]], j)
                                   /\ Queued(j) <=> In(taken[JobLane[j]], j) \/ In(left[JobLane[j]], j)
  <2>1. /\ Queued(j) <=> In(lanes[JobShard(j)][JobLane[j]], j)
        /\ Queued(j)' <=> In(lanes'[JobShard(j)][JobLane[j]], j)
    BY Zenon DEF Queued, In
  <2>2. JobShard(j) # t => (Queued(j)' <=> Queued(j))
    BY <1>2, <1>6, <2>1
  <2>3. JobShard(j) # t => ~In(taken[JobLane[j]], j)
    BY <1>1, <1>5, <1>6 DEF PlaceInv, LanesTidy
  <2>4. JobShard(j) = t => /\ Queued(j)' <=> In(left[JobLane[j]], j)
                           /\ Queued(j) <=> In(taken[JobLane[j]], j) \/ In(left[JobLane[j]], j)
    BY <1>2, <1>5, <1>6, <2>1
  <2> QED
    BY <2>2, <2>3, <2>4
<1>8. ASSUME NEW j \in Jobs PROVE InSystem(j)' <=> InSystem(j)
  <2>1. Queued(j) <=> Queued(j)' \/ InBatch(w, j)'
    BY <1>3, <1>7
  <2>2. InSystem(j) <=> Queued(j) \/ \E v \in Workers : InBatch(v, j)
    BY Places
  <2> QED
    BY <1>3, <1>4, <2>1, <2>2, Zenon
<1>9. LanesTidy'
  <2>1. ASSUME NEW s \in Shards, NEW l \in Lanes
        PROVE  /\ Once(lanes'[s][l])
               /\ \A j \in Jobs : In(lanes'[s][l], j) => JobShard(j) = s /\ JobLane[j] = l
    BY <1>1, <1>2, <1>5 DEF PlaceInv, LanesTidy
  <2> QED
    BY <2>1 DEF LanesTidy, Once, In
<1>10. BatchesTidy'
  <2>1. ASSUME NEW v \in Workers, NEW l \in Lanes
        PROVE  /\ Once(wbatch'[v][l])
               /\ \A j \in Jobs : In(wbatch'[v][l], j) => JobLane[j] = l
    BY <1>1, <1>3, <1>5 DEF PlaceInv, BatchesTidy, LanesTidy
  <2> QED
    BY <2>1 DEF BatchesTidy, Once, In
<1>11. OnePlace'
  <2>1. ASSUME NEW j \in Jobs, NEW v \in Workers, InBatch(v, j)' PROVE ~Queued(j)'
    <3>1. CASE v = w
      BY <1>3, <1>5, <1>6, <1>7, <2>1, <3>1
    <3>2. CASE v # w
      <4>1. InBatch(v, j) /\ ~Queued(j)
        BY <1>3, <2>1, <3>2 DEF PlaceInv, OnePlace
      <4> QED
        BY <1>7, <4>1
    <3> QED
      BY <3>1, <3>2
  <2>2. ASSUME NEW j \in Jobs, InBatch(w, j)', NEW v \in Workers \ {w}, InBatch(v, j)' PROVE FALSE
    <3>1. InBatch(v, j) /\ ~Queued(j)
      BY <1>3, <2>2 DEF PlaceInv, OnePlace
    <3>2. In(taken[JobLane[j]], j)
      BY <1>3, <2>2
    <3> QED
      BY <1>7, <3>1, <3>2
  <2>3. ASSUME NEW j \in Jobs, NEW u \in Workers, NEW v \in Workers, InBatch(u, j)', InBatch(v, j)'
        PROVE  u = v
    <3>1. CASE u # w /\ v # w
      BY <1>3, <2>3, <3>1 DEF PlaceInv, OnePlace
    <3> QED
      BY <2>2, <2>3, <3>1
  <2>4. \A j \in Jobs : spc'[j] = "enqueue" => ~InSystem(j)'
    BY <1>1, <1>8 DEF PlaceInv, OnePlace
  <2> QED
    BY <2>1, <2>3, <2>4, Zenon DEF OnePlace
<1> QED
  BY <1>8, <1>9, <1>10, <1>11 DEF PlaceInv

\* A worker that drops jobs from its batch drops them from the system.
LEMMA PlaceDrop ==
  ASSUME JobTypes, PlaceInv, NEW w \in Workers, NEW b, wbatch' = [wbatch EXCEPT ![w] = b],
         lanes' = lanes, spc' = spc,
         \A l \in Lanes : Once(b[l]) /\ \A j \in Jobs : In(b[l], j) => In(wbatch[w][l], j)
  PROVE  /\ PlaceInv'
         /\ \A j \in Jobs : InSystem(j)' <=> InSystem(j) /\ (InBatch(w, j) => In(b[JobLane[j]], j))
<1>1. /\ \A j, v : v \in Workers \ {w} => (InBatch(v, j)' <=> InBatch(v, j))
      /\ \A j : InBatch(w, j)' <=> In(b[JobLane[j]], j)
      /\ \A j : InSystem(j)' <=> Queued(j)' \/ \E v \in Workers : InBatch(v, j)'
      /\ \A v \in Workers : wbatch'[v] = IF v = w THEN b ELSE wbatch[v]
  BY BatchMembers
<1>2. \A j : Queued(j)' <=> Queued(j)
  BY Zenon DEF Queued
<1>3. ASSUME NEW j \in Jobs, NEW v \in Workers, InBatch(v, j)' PROVE InBatch(v, j)
  BY <1>1, <1>3, JobsAssumption DEF InBatch
<1>4. ASSUME NEW j \in Jobs
      PROVE  InSystem(j)' <=> InSystem(j) /\ (InBatch(w, j) => In(b[JobLane[j]], j))
  <2>1. InSystem(j) <=> Queued(j) \/ \E v \in Workers : InBatch(v, j)
    BY Places
  <2>2. CASE InBatch(w, j)
    <3>1. ~Queued(j) /\ \A v \in Workers : InBatch(v, j) => v = w
      BY <2>2 DEF PlaceInv, OnePlace
    <3> QED
      BY <1>1, <1>2, <1>3, <2>1, <2>2, <3>1, Zenon
  <2>3. CASE ~InBatch(w, j)
    <3>1. ~InBatch(w, j)'
      BY <1>3, <2>3
    <3> QED
      BY <1>1, <1>2, <2>1, <2>3, <3>1, Zenon
  <2> QED
    BY <2>2, <2>3
<1>5. LanesTidy'
  BY Zenon DEF PlaceInv, LanesTidy
<1>6. BatchesTidy'
  <2>1. ASSUME NEW v \in Workers, NEW l \in Lanes
        PROVE  /\ Once(wbatch'[v][l])
               /\ \A j \in Jobs : In(wbatch'[v][l], j) => JobLane[j] = l
    BY <1>1 DEF PlaceInv, BatchesTidy
  <2> QED
    BY <2>1 DEF BatchesTidy, Once, In
<1>7. OnePlace'
  BY <1>2, <1>3, <1>4, Zenon DEF PlaceInv, OnePlace
<1> QED
  BY <1>4, <1>5, <1>6, <1>7 DEF PlaceInv
\* job.Run has returned: its job leaves the batch, and nothing else does.
LEMMA PlaceFinish ==
  ASSUME JobTypes, PlaceInv, NEW w \in Workers, FinishJob(w)
  PROVE  /\ PlaceInv'
         /\ \A j \in Jobs : InSystem(j)' <=> InSystem(j) /\ j # CurrentJob(w)
         /\ \A v \in Workers \ {w} : wbatch'[v] = wbatch[v] /\ wpc'[v] = wpc[v]
         /\ wpc[w] = "running" /\ wpc'[w] # "running" /\ workerCtx' = workerCtx
<1> DEFINE b == wbatch[w]
           l == FirstLane(b)
           q == b[l]
           rest == [b EXCEPT ![l] = Tail(@)]
<1>1. /\ wpc[w] = "running" /\ lanes' = lanes /\ spc' = spc /\ workerCtx' = workerCtx
      /\ wbatch' = [wbatch EXCEPT ![w] = rest]
      /\ wpc' = [wpc EXCEPT ![w] = IF HasWork(rest) THEN "check" ELSE AfterBatch(wmore[w])]
  BY DEF FinishJob, schedVars, callVars
<1>2. b \in Batches /\ HasWork(b)
  BY <1>1 DEF JobTypes
<1>3. l \in Lanes /\ q # <<>>
  BY <1>2, FirstLaneExists
<1>4. q \in Seq(Jobs) /\ Once(q) /\ \A j \in Jobs : In(q, j) => JobLane[j] = l
  BY <1>2, <1>3 DEF Batches, PlaceInv, BatchesTidy
<1>5. /\ Head(q) \in Jobs /\ In(q, Head(q)) /\ Once(Tail(q))
      /\ \A j : In(Tail(q), j) <=> In(q, j) /\ j # Head(q)
  <2> HIDE DEF q
  <2> QED
    BY <1>3, <1>4, TailParts
<1>6. rest[l] = Tail(q) /\ \A k \in Lanes \ {l} : rest[k] = b[k]
  BY <1>2, <1>3 DEF Batches
<1>7. CurrentJob(w) = Head(q) /\ JobLane[Head(q)] = l
  BY <1>4, <1>5 DEF CurrentJob
<1> HIDE DEF rest
<1>8. \A k \in Lanes : Once(rest[k]) /\ \A j \in Jobs : In(rest[k], j) => In(wbatch[w][k], j)
  <2>1. ASSUME NEW k \in Lanes
        PROVE  Once(rest[k]) /\ \A j \in Jobs : In(rest[k], j) => In(wbatch[w][k], j)
    <3>1. CASE k = l
      BY <1>5, <1>6, <3>1
    <3>2. CASE k # l
      BY <1>6, <3>2 DEF PlaceInv, BatchesTidy
    <3> QED
      BY <3>1, <3>2
  <2> QED
    BY <2>1
<1>9. /\ PlaceInv'
      /\ \A j \in Jobs : InSystem(j)' <=> InSystem(j) /\ (InBatch(w, j) => In(rest[JobLane[j]], j))
  BY <1>1, <1>8, PlaceDrop
<1>10. ASSUME NEW j \in Jobs PROVE (InBatch(w, j) => In(rest[JobLane[j]], j)) <=> j # CurrentJob(w)
  <2>1. JobLane[j] \in Lanes
    BY JobsAssumption
  <2>2. CASE JobLane[j] = l
    BY <1>5, <1>6, <1>7, <2>2 DEF InBatch
  <2>3. CASE JobLane[j] # l
    BY <1>6, <1>7, <2>1, <2>3 DEF InBatch
  <2> QED
    BY <2>2, <2>3
<1>11. \A v \in Workers \ {w} : wbatch'[v] = wbatch[v] /\ wpc'[v] = wpc[v]
  BY <1>1 DEF JobTypes
<1>12. wpc'[w] # "running"
  BY <1>1 DEF JobTypes, AfterBatch
<1> QED
  BY <1>1, <1>9, <1>10, <1>11, <1>12

\* A cancelled worker drops its whole batch, of which nothing is running.
LEMMA PlaceAbandon ==
  ASSUME JobTypes, PlaceInv, NEW w \in Workers, AbandonBatch(w)
  PROVE  /\ PlaceInv'
         /\ \A j \in Jobs : InSystem(j)' <=> InSystem(j) /\ ~InBatch(w, j)
         /\ \A v \in Workers \ {w} : wbatch'[v] = wbatch[v] /\ wpc'[v] = wpc[v]
         /\ wpc[w] # "running" /\ wpc'[w] # "running" /\ CtxDone /\ workerCtx' = workerCtx
<1>1. /\ wpc[w] = "check" /\ lanes' = lanes /\ spc' = spc /\ CtxDone /\ workerCtx' = workerCtx
      /\ wbatch' = [wbatch EXCEPT ![w] = EmptyBatch]
      /\ wpc' = [wpc EXCEPT ![w] = AfterBatch(wmore[w])]
  BY DEF AbandonBatch, schedVars, callVars
<1>2. \A l \in Lanes : EmptyBatch[l] = <<>>
  BY DEF EmptyBatch
<1>3. Once(<<>>) /\ \A j : ~In(<<>>, j)
  BY DEF Once, In
<1>4. \A l \in Lanes : Once(EmptyBatch[l]) /\ \A j \in Jobs : ~In(EmptyBatch[l], j)
  BY <1>2, <1>3
<1>5. /\ PlaceInv'
      /\ \A j \in Jobs : InSystem(j)' <=> InSystem(j) /\ (InBatch(w, j) => In(EmptyBatch[JobLane[j]], j))
  BY <1>1, <1>4, PlaceDrop
<1>6. \A j \in Jobs : ~In(EmptyBatch[JobLane[j]], j)
  BY <1>4, JobsAssumption
<1>7. \A v \in Workers \ {w} : wbatch'[v] = wbatch[v] /\ wpc'[v] = wpc[v]
  BY <1>1 DEF JobTypes
<1>8. wpc[w] # "running" /\ wpc'[w] # "running"
  BY <1>1 DEF JobTypes, AfterBatch
<1> QED
  BY <1>1, <1>5, <1>6, <1>7, <1>8

-----------------------------------------------------------------------------
\* Where a job's phase comes from.
LEMMA PhaseIs ==
  ASSUME NEW j \in Jobs
  PROVE  /\ Phase[j] = IF Running(j) THEN "running" ELSE IF InSystem(j) THEN "waiting" ELSE "out"
         /\ Phase'[j] = IF Running(j)' THEN "running" ELSE IF InSystem(j)' THEN "waiting" ELSE "out"
  BY Zenon DEF Phase, Running

LEMMA PhaseKept ==
  ASSUME \A j \in Jobs : Running(j)' <=> Running(j),
         \A j \in Jobs : InSystem(j)' <=> InSystem(j)
  PROVE  Phase' = Phase
<1>1. \A j \in Jobs : Phase'[j] = Phase[j]
  BY PhaseIs
<1>2. Phase = [j \in Jobs |-> Phase[j]] /\ Phase' = [j \in Jobs |-> Phase'[j]]
  BY DEF Phase
<1> QED
  BY <1>1, <1>2

LEMMA PhaseMoves ==
  ASSUME NEW j \in Jobs, NEW to, Phase'[j] = to,
         \A k \in Jobs \ {j} : (Running(k)' <=> Running(k)) /\ (InSystem(k)' <=> InSystem(k))
  PROVE  Phase' = [Phase EXCEPT ![j] = to]
<1>1. \A k \in Jobs \ {j} : Phase'[k] = Phase[k]
  BY PhaseIs
<1>2. Phase = [k \in Jobs |-> Phase[k]] /\ Phase' = [k \in Jobs |-> Phase'[k]]
  BY DEF Phase
<1> QED
  BY <1>1, <1>2

\* Who runs what depends on the workers that run, and on their batches.
LEMMA SameRun ==
  ASSUME NEW v \in Workers, wbatch'[v] = wbatch[v]
  PROVE  CurrentJob(v)' = CurrentJob(v)
  BY DEF CurrentJob, FirstLane

LEMMA RunningKept ==
  ASSUME \A v \in Workers : wpc[v] = "running" \/ wpc'[v] = "running"
                              => wpc'[v] = wpc[v] /\ wbatch'[v] = wbatch[v]
  PROVE  \A j : Running(j)' <=> Running(j)
<1>1. \A v \in Workers : wpc[v] = "running" \/ wpc'[v] = "running" => CurrentJob(v)' = CurrentJob(v)
  BY SameRun
<1> QED
  BY <1>1 DEF Running

\* A running job is in the batch of its worker, and so nobody else runs it.
LEMMA RunningPlace ==
  ASSUME JobTypes, PlaceInv, NEW w \in Workers, wpc[w] \in {"check", "running"}
  PROVE  /\ CurrentJob(w) \in Jobs /\ InSystem(CurrentJob(w)) /\ ~Queued(CurrentJob(w))
         /\ \A v \in Workers : InBatch(v, CurrentJob(w)) => v = w
         /\ \A v \in Workers : wpc[v] = "running" /\ CurrentJob(v) = CurrentJob(w) => v = w
<1>1. \A v \in Workers : wpc[v] \in {"check", "running"} => CurrentJob(v) \in Jobs /\ InBatch(v, CurrentJob(v))
  BY CurrentInBatch DEF PlaceInv
<1>2. CurrentJob(w) \in Jobs /\ InBatch(w, CurrentJob(w))
  BY <1>1
<1>3. InSystem(CurrentJob(w))
  BY <1>2, Places
<1>4. ~Queued(CurrentJob(w)) /\ \A v \in Workers : InBatch(v, CurrentJob(w)) => v = w
  BY <1>2 DEF PlaceInv, OnePlace
<1> QED
  BY <1>1, <1>2, <1>3, <1>4
-----------------------------------------------------------------------------
\* The step is none of JobLifecycle.
Unseen == Phase' = Phase /\ CtxDone' = CtxDone

\* A caller's step accepts its job or moves nothing.
LEMMA CallerLife ==
  ASSUME JobTypes, PlaceInv, NEW j \in Jobs, CallerNext(j)
  PROVE  PlaceInv' /\ (Lifecycle!Accept(j) \/ Unseen)
<1>1. UNCHANGED <<workerCtx, wpc, wbatch>>
  BY DEF CallerNext, SubmitBegin, CancelCaller, Submit, SubmitSend, SubmitCancelled, TrySubmit,
         EnqueueContinuation, TrySend, workerVars
<1>2. (\A k : Running(k)' <=> Running(k)) /\ CtxDone' = CtxDone
  BY <1>1, RunningKept DEF CtxDone
<1>3. ASSUME lanes' = lanes,
             \A k \in Jobs : spc'[k] = "enqueue" => spc[k] = "enqueue" \/ ~InSystem(k)
      PROVE  PlaceInv' /\ Unseen
  <2>1. PlaceInv' /\ \A k : InSystem(k)' <=> InSystem(k)
    BY <1>1, <1>3, PlaceFrame
  <2> QED
    BY <1>2, <2>1, PhaseKept DEF Unseen
<1>4. ASSUME ~InSystem(j), NEW sendPc \in {"send", "trySend"}, EnqueueIntoShard(j, sendPc) \/ Reject(j)
      PROVE  PlaceInv' /\ (Lifecycle!Accept(j) \/ Unseen)
  <2>1. /\ \A k \in Jobs : spc'[k] = "enqueue" => k # j /\ spc[k] = "enqueue"
        /\ \/ lanes' = lanes
           \/ lanes' = [lanes EXCEPT ![JobShard(j)][JobLane[j]] = Append(@, j)]
    BY <1>4 DEF EnqueueIntoShard, Reject, schedVars, JobTypes
  <2>2. CASE lanes' = lanes
    BY <1>3, <2>1, <2>2
  <2>3. CASE lanes' = [lanes EXCEPT ![JobShard(j)][JobLane[j]] = Append(@, j)]
    <3>1. PlaceInv' /\ \A k \in Jobs : InSystem(k)' <=> InSystem(k) \/ k = j
      BY <1>1, <1>4, <2>1, <2>3, PlacePush
    <3>2. ~Running(j)
      BY <1>4, RunningPlace DEF Running
    <3>3. Phase[j] = "out" /\ Phase'[j] = "waiting"
      BY <1>2, <1>4, <3>1, <3>2, PhaseIs
    <3>4. Phase' = [Phase EXCEPT ![j] = "waiting"]
      BY <1>2, <3>1, <3>3, PhaseMoves
    <3> QED
      BY <1>2, <3>1, <3>3, <3>4 DEF Lifecycle!Accept
  <2> QED
    BY <2>1, <2>2, <2>3
<1>5. CASE Submit(j) \/ TrySubmit(j) \/ EnqueueContinuation(j)
  <2>1. ~InSystem(j)
    BY <1>5 DEF Submit, TrySubmit, EnqueueContinuation, PlaceInv, OnePlace
  <2>2. \E sendPc \in {"send", "trySend"} : EnqueueIntoShard(j, sendPc) \/ Reject(j)
    BY <1>5 DEF Submit, TrySubmit, EnqueueContinuation, Enqueue
  <2> QED
    BY <1>4, <2>1, <2>2
<1>6. CASE \/ SubmitBegin(j) \/ CancelCaller(j) \/ SubmitSend(j) \/ SubmitCancelled(j) \/ TrySend(j)
  <2>1. lanes' = lanes
    BY <1>6 DEF SubmitBegin, CancelCaller, SubmitSend, SubmitCancelled, TrySend, schedVars
  <2>2. \A k \in Jobs : spc'[k] = "enqueue" => spc[k] = "enqueue" \/ ~InSystem(k)
    BY <1>6 DEF SubmitBegin, CancelCaller, SubmitSend, SubmitCancelled, TrySend, JobTypes
  <2> QED
    BY <1>3, <2>1, <2>2
<1> QED
  BY <1>5, <1>6 DEF CallerNext

\* A worker's step runs a job, ends one, drops its batch or moves nothing.
LEMMA WorkerLife ==
  ASSUME JobTypes, PlaceInv, NEW w \in Workers, WorkerNext(w)
  PROVE  PlaceInv' /\ (Unseen \/ Lifecycle!Discard \/ \E j \in Jobs : Lifecycle!Run(j) \/ Lifecycle!Finish(j))
<1>0. PICK j : j = CurrentJob(w)
  OBVIOUS
<1>1. workerCtx' = workerCtx /\ CtxDone' = CtxDone /\ spc' = spc
  BY DEF WorkerNext, Receive, WorkerExit, CollectBatch, RunJob, FinishJob, AbandonBatch, Requeue,
         RequeueCancelled, callVars, CtxDone
<1>2. CASE Receive(w) \/ WorkerExit(w) \/ Requeue(w) \/ RequeueCancelled(w)
  <2>1. UNCHANGED <<lanes, wbatch>>
    BY <1>2 DEF Receive, WorkerExit, Requeue, RequeueCancelled, schedVars
  <2>2. /\ wpc[w] # "running" /\ wpc'[w] # "running"
        /\ \A v \in Workers \ {w} : wpc'[v] = wpc[v]
    BY <1>2 DEF Receive, WorkerExit, Requeue, RequeueCancelled, JobTypes
  <2>3. PlaceInv' /\ \A k : InSystem(k)' <=> InSystem(k)
    BY <1>1, <2>1, PlaceFrame
  <2>4. \A k : Running(k)' <=> Running(k)
    BY <2>1, <2>2, RunningKept
  <2> QED
    BY <1>1, <2>3, <2>4, PhaseKept DEF Unseen
<1>3. CASE CollectBatch(w)
  <2>1. PlaceInv' /\ \A k \in Jobs : InSystem(k)' <=> InSystem(k)
    BY <1>3, PlaceCollect
  <2>2. /\ wpc[w] # "running" /\ wpc'[w] # "running"
        /\ \A v \in Workers \ {w} : wpc'[v] = wpc[v] /\ wbatch'[v] = wbatch[v]
    BY <1>3 DEF CollectBatch, AfterBatch, JobTypes
  <2>3. \A k : Running(k)' <=> Running(k)
    BY <2>2, RunningKept
  <2> QED
    BY <1>1, <2>1, <2>3, PhaseKept DEF Unseen
<1>4. CASE RunJob(w)
  <2>1. /\ UNCHANGED <<lanes, wbatch>> /\ wpc[w] = "check" /\ wpc'[w] = "running"
        /\ \A v \in Workers \ {w} : wpc'[v] = wpc[v]
    BY <1>4 DEF RunJob, schedVars, JobTypes
  <2>2. PlaceInv' /\ \A k : InSystem(k)' <=> InSystem(k)
    BY <1>1, <2>1, PlaceFrame
  <2>3. /\ j \in Jobs /\ InSystem(j)
        /\ \A v \in Workers : wpc[v] = "running" /\ CurrentJob(v) = j => v = w
    BY <1>0, <2>1, RunningPlace
  <2>4. \A v \in Workers : CurrentJob(v)' = CurrentJob(v)
    BY <2>1, SameRun
  <2>5. ~Running(j)
    BY <2>1, <2>3 DEF Running
  <2>6. CurrentJob(w) = j
    BY <1>0
  <2>7. Running(j)'
    BY <2>1, <2>4, <2>6 DEF Running
  <2>8. ASSUME NEW k \in Jobs \ {j} PROVE Running(k)' <=> Running(k)
    <3>1. \A v \in Workers : /\ wpc[v] = "running" /\ CurrentJob(v) = k => v # w
                             /\ wpc'[v] = "running" /\ CurrentJob(v) = k => v # w
      BY <2>1, <2>6
    <3> QED
      BY <2>1, <2>4, <3>1 DEF Running
  <2>9. Phase[j] = "waiting" /\ Phase'[j] = "running"
    BY <2>3, <2>5, <2>7, PhaseIs
  <2>10. Phase' = [Phase EXCEPT ![j] = "running"]
    BY <2>2, <2>3, <2>8, <2>9, PhaseMoves
  <2>11. Lifecycle!Run(j)
    BY <1>1, <2>9, <2>10 DEF Lifecycle!Run
  <2> QED
    BY <2>2, <2>3, <2>11
<1>5. CASE FinishJob(w)
  <2>1. /\ PlaceInv' /\ \A k \in Jobs : InSystem(k)' <=> InSystem(k) /\ k # j
        /\ \A v \in Workers \ {w} : wbatch'[v] = wbatch[v] /\ wpc'[v] = wpc[v]
        /\ wpc[w] = "running" /\ wpc'[w] # "running"
    BY <1>0, <1>5, PlaceFinish
  <2>2. /\ j \in Jobs /\ InSystem(j)
        /\ \A v \in Workers : wpc[v] = "running" /\ CurrentJob(v) = j => v = w
    BY <1>0, <2>1, RunningPlace
  <2>3. \A v \in Workers \ {w} : CurrentJob(v)' = CurrentJob(v)
    BY <2>1, SameRun
  <2>4. CurrentJob(w) = j
    BY <1>0
  <2>5. Running(j)
    BY <2>1, <2>4 DEF Running
  <2>6. ~Running(j)'
    BY <2>1, <2>2, <2>3 DEF Running
  <2>7. \A k \in Jobs \ {j} : Running(k)' <=> Running(k)
    BY <2>1, <2>3, <2>4 DEF Running
  <2>8. Phase[j] = "running" /\ Phase'[j] = "out"
    BY <2>1, <2>2, <2>5, <2>6, PhaseIs
  <2>9. Phase' = [Phase EXCEPT ![j] = "out"]
    BY <2>1, <2>2, <2>7, <2>8, PhaseMoves
  <2>10. Lifecycle!Finish(j)
    BY <1>1, <2>8, <2>9 DEF Lifecycle!Finish
  <2> QED
    BY <2>1, <2>2, <2>10
<1>6. CASE AbandonBatch(w)
  <2>1. /\ PlaceInv' /\ \A k \in Jobs : InSystem(k)' <=> InSystem(k) /\ ~InBatch(w, k)
        /\ \A v \in Workers \ {w} : wbatch'[v] = wbatch[v] /\ wpc'[v] = wpc[v]
        /\ wpc[w] # "running" /\ wpc'[w] # "running" /\ CtxDone
    BY <1>6, PlaceAbandon
  <2>2. \A k : Running(k)' <=> Running(k)
    BY <2>1, RunningKept
  <2>3. ASSUME NEW k \in Jobs, Running(k) PROVE ~InBatch(w, k)
    <3>1. PICK v \in Workers : wpc[v] = "running" /\ CurrentJob(v) = k
      BY <2>3 DEF Running
    <3> QED
      BY <2>1, <3>1, RunningPlace
  <2>4. ASSUME NEW k \in Jobs, Phase'[k] # Phase[k] PROVE Phase[k] = "waiting" /\ Phase'[k] = "out"
    BY <2>1, <2>2, <2>3, <2>4, PhaseIs
  <2>5. Phase' \in [Jobs -> {"out", "waiting", "running"}]
    BY DEF Phase
  <2>6. Lifecycle!Discard
    BY <1>1, <2>1, <2>4, <2>5 DEF Lifecycle!Discard
  <2> QED
    BY <2>1, <2>6
<1> QED
  BY <1>2, <1>3, <1>4, <1>5, <1>6 DEF WorkerNext

\* Every step keeps each job in one place, and is a step of JobLifecycle or
\* none.
LEMMA LifeStep ==
  ASSUME TypeInv, PlaceInv, [Next]_vars
  PROVE  PlaceInv' /\ (Lifecycle!Next \/ Unseen)
<1>1. JobTypes /\ workerCtx \in {"none", "live", "done"}
      /\ (state = "new" => workerCtx = "none" /\ \A w \in Workers : wpc[w] = "none")
  BY TypedJobs DEF TypeInv, ControlTypes, GaugeInv, WakeInv, WakeTypes
<1>2. ASSUME UNCHANGED <<lanes, wbatch, spc>>,
             \A v \in Workers : wpc[v] = "running" \/ wpc'[v] = "running" => wpc'[v] = wpc[v],
             \/ CtxDone' = CtxDone
             \/ ~CtxDone /\ CtxDone' = TRUE
      PROVE  PlaceInv' /\ (Lifecycle!Next \/ Unseen)
  <2>1. PlaceInv' /\ \A k : InSystem(k)' <=> InSystem(k)
    BY <1>2, PlaceFrame
  <2>2. \A k : Running(k)' <=> Running(k)
    BY <1>2, RunningKept
  <2>3. Phase' = Phase
    BY <2>1, <2>2, PhaseKept
  <2> QED
    BY <1>2, <2>1, <2>3 DEF Unseen, Lifecycle!Next, Lifecycle!Cancel
<1>3. ASSUME NEW j \in Jobs, CallerNext(j) PROVE PlaceInv' /\ (Lifecycle!Next \/ Unseen)
  BY <1>1, <1>3, CallerLife DEF Lifecycle!Next
<1>4. ASSUME NEW w \in Workers, WorkerNext(w) PROVE PlaceInv' /\ (Lifecycle!Next \/ Unseen)
  BY <1>1, <1>4, WorkerLife DEF Lifecycle!Next
<1>5. CASE Start
  <2>1. /\ UNCHANGED <<lanes, wbatch, spc>> /\ CtxDone' = CtxDone
        /\ \A v \in Workers : wpc[v] = "none" /\ wpc'[v] = "loop"
    BY <1>1, <1>5 DEF Start, schedVars, callVars, CtxDone
  <2> QED
    BY <1>2, <2>1
<1>6. CASE CancelStartCtx \/ \E p \in Stoppers : StopCancel(p)
  <2>1. /\ UNCHANGED <<lanes, wbatch, spc, wpc>>
        /\ workerCtx' = workerCtx \/ (workerCtx # "done" /\ workerCtx' = "done")
    BY <1>1, <1>6 DEF CancelStartCtx, StopCancel, schedVars, callVars, workerVars
  <2>2. CtxDone' = CtxDone \/ (~CtxDone /\ CtxDone' = TRUE)
    BY <2>1 DEF CtxDone
  <2>3. UNCHANGED <<lanes, wbatch, spc>> /\ \A v \in Workers : wpc'[v] = wpc[v]
    BY <2>1
  <2> QED
    BY <1>2, <2>2, <2>3
<1>7. CASE \/ UNCHANGED vars \/ WaiterDone
           \/ \E u \in Updaters : UpdateQuotaPublish(u) \/ \E q \in Quotas : UpdateQuotaCheck(u, q)
           \/ \E p \in Stoppers : StopNext(p) /\ ~StopCancel(p)
  <2>1. UNCHANGED <<lanes, wbatch, spc, wpc, workerCtx>>
    BY <1>7
    DEF vars, WaiterDone, UpdateQuotaPublish, UpdateQuotaCheck, StopNext, StopBegin, ExpireStop,
        DrainBegin, DrainScan, DrainVerdict, DrainTick, StopReturn, StopReturnOther, schedVars,
        callVars, workerVars
  <2> QED
    BY <1>2, <2>1 DEF CtxDone
<1> QED
  BY <1>3, <1>4, <1>5, <1>6, <1>7 DEF Next

\* A new scheduler holds no job.
LEMMA LifeInit == Init => PlaceInv /\ Lifecycle!Init
<1> SUFFICES ASSUME Init PROVE PlaceInv /\ Lifecycle!Init
  OBVIOUS
<1>1. /\ \A s \in Shards, l \in Lanes : lanes[s][l] = <<>>
      /\ \A w \in Workers, l \in Lanes : wbatch[w][l] = <<>>
      /\ \A w \in Workers : wpc[w] = "none"
      /\ \A j \in Jobs : spc[j] = "idle"
      /\ ~CtxDone
  BY DEF Init, EmptyBatch, CtxDone
<1>2. Once(<<>>) /\ \A j : ~In(<<>>, j)
  BY DEF Once, In
<1>3. LanesTidy /\ BatchesTidy
  BY <1>1, <1>2 DEF LanesTidy, BatchesTidy
<1>4. ASSUME NEW j \in Jobs PROVE ~Queued(j) /\ ~Running(j) /\ \A w \in Workers : ~InBatch(w, j)
  <2>1. JobShard(j) \in Shards /\ JobLane[j] \in Lanes
    BY JobShardType, JobsAssumption
  <2>2. ~In(lanes[JobShard(j)][JobLane[j]], j)
    BY <1>1, <1>2, <2>1
  <2> QED
    BY <1>1, <1>2, <2>1, <2>2, Places DEF InBatch, Running
<1>5. OnePlace
  BY <1>1, <1>4 DEF OnePlace
<1>6. \A j \in Jobs : Phase[j] = "out"
  BY <1>4, PhaseIs, Places
<1>7. Phase = [j \in Jobs |-> Phase[j]]
  BY DEF Phase
<1>8. Phase = [j \in Jobs |-> "out"] /\ CtxDone = FALSE
  BY <1>1, <1>6, <1>7 DEF CtxDone
<1> QED
  BY <1>3, <1>5, <1>8 DEF PlaceInv, Lifecycle!Init

\* The scheduler implements JobLifecycle: through every interleaving of
\* callers, workers, updates and Stop calls an accepted job runs at most
\* once, never before it was accepted and by one worker, and it is dropped
\* only by a worker whose context was cancelled.
THEOREM JobsLiveOnce == Spec => ImplementsJobLifecycle
<1>1. TypeInv /\ PlaceInv /\ [Next]_vars => TypeInv' /\ PlaceInv'
  BY TypeStep, LifeStep
<1>2. TypeInv /\ PlaceInv /\ [Next]_vars => [Lifecycle!Next]_(Lifecycle!vars)
  BY LifeStep DEF Unseen, Lifecycle!vars
<1> QED
  BY <1>1, <1>2, TypeInit, LifeInit, PTL DEF Spec, ImplementsJobLifecycle, Lifecycle!Spec
=============================================================================
