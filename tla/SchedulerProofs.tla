--------------------------- MODULE SchedulerProofs ---------------------------
(***************************************************************************)
(* Proofs about Scheduler, for every number of shards, lanes, workers and  *)
(* jobs, every queue size and every set of quotas.                         *)
(*                                                                         *)
(* The ready protocol: a shard has one holder at most (the channel, the    *)
(* caller about to announce it, the worker about to look at it or to       *)
(* requeue it), and only while its Ready flag is set.                      *)
(***************************************************************************)
EXTENDS Scheduler, OperatorLemmas

\* The part of the state the ready protocol works on, and the one fact it
\* needs besides SingleAnnouncement: only a worker whose hasMore is set
\* requeues its shard.
TokenTypes ==
  /\ ready \in [Shards -> BOOLEAN]
  /\ readyCh \in Seq(Shards)
  /\ spc \in [Jobs -> {"idle", "enqueue", "send", "trySend"}]
  /\ wpc \in [Workers -> {"none", "loop", "collect", "check", "running", "requeue", "exited"}]
  /\ wshard \in [Workers -> Shards]
  /\ wmore \in [Workers -> BOOLEAN]
  /\ \A w \in Workers : wpc[w] = "requeue" => wmore[w]

TokenInv == TokenTypes /\ SingleAnnouncement

-----------------------------------------------------------------------------
\* routeShardID returns a valid shard for every key hash.
LEMMA JobShardType == \A j \in Jobs : JobShard(j) \in Shards
  BY SizesAssumption, JobsAssumption DEF JobShard, Shards

\* The first shard exists: the ShardID a worker starts with is valid.
LEMMA ZeroShard == 0 \in Shards
  BY SizesAssumption DEF Shards

\* A step in which no caller and no worker gains a shard, and which leaves
\* the channel and the flags alone, keeps the announcement unique.
LEMMA NobodyGains ==
  ASSUME SingleAnnouncement,
         UNCHANGED <<ready, readyCh>>,
         \A j \in Jobs, s \in Shards : CallerHolds(j, s)' => CallerHolds(j, s),
         \A w \in Workers, s \in Shards : WorkerHolds(w, s)' => WorkerHolds(w, s)
  PROVE  SingleAnnouncement'
  BY DEF SingleAnnouncement, Held, InChannel

\* Appending a shard that a caller or a worker held and gives up keeps the
\* announcement unique.
LEMMA HolderAnnounces ==
  ASSUME TokenTypes, SingleAnnouncement,
         NEW t \in Shards,
         (\E j \in Jobs : CallerHolds(j, t)) \/ (\E w \in Workers : WorkerHolds(w, t)),
         ready' = ready,
         readyCh' = Append(readyCh, t),
         \A j \in Jobs, s \in Shards : CallerHolds(j, s)' => CallerHolds(j, s) /\ s # t,
         \A w \in Workers, s \in Shards : WorkerHolds(w, s)' => WorkerHolds(w, s) /\ s # t
  PROVE  SingleAnnouncement'
<1>1. ~ InChannel(t)
  BY DEF SingleAnnouncement
<1>2. \A i \in DOMAIN readyCh : readyCh[i] # t
  BY <1>1 DEF InChannel
<1>3. readyCh' \in Seq(Shards) /\ DOMAIN readyCh' = 1..(Len(readyCh) + 1)
      /\ DOMAIN readyCh = 1..Len(readyCh) /\ Len(readyCh) \in Nat
  BY DEF TokenTypes
<1>4. readyCh'[Len(readyCh) + 1] = t /\ \A i \in 1..Len(readyCh) : readyCh'[i] = readyCh[i]
  BY <1>3 DEF TokenTypes
<1>5. \A i, k \in DOMAIN readyCh' : readyCh'[i] = readyCh'[k] => i = k
  BY <1>2, <1>3, <1>4 DEF SingleAnnouncement
<1>6. \A s \in Shards : InChannel(s)' => InChannel(s) \/ s = t
  BY <1>3, <1>4 DEF InChannel
<1>7. ready[t]
  BY DEF SingleAnnouncement, Held
<1> QED
  BY <1>5, <1>6, <1>7 DEF SingleAnnouncement, Held

\* The push that finds the shard not ready is the only one that goes on to
\* announce it: enqueueIntoShard keeps the announcement unique.
LEMMA EnqueueToken ==
  ASSUME TokenInv, NEW j \in Jobs, NEW sendPc \in {"send", "trySend"},
         spc[j] \in {"idle", "enqueue"},
         EnqueueIntoShard(j, sendPc) \/ Reject(j),
         UNCHANGED <<wpc, wshard, wmore>>
  PROVE  TokenInv'
<1> DEFINE t == JobShard(j)
<1>1. t \in Shards
  BY JobShardType
<1>2. TokenTypes /\ SingleAnnouncement
  BY DEF TokenInv
<1>3. \A w \in Workers, s \in Shards : WorkerHolds(w, s)' <=> WorkerHolds(w, s)
  BY DEF WorkerHolds
<1>4. \A k \in Jobs \ {j} : spc'[k] = spc[k]
  BY <1>2 DEF EnqueueIntoShard, Reject, TokenTypes
<1>5. readyCh' = readyCh
  BY DEF EnqueueIntoShard, Reject, schedVars
<1>6. \A k \in Jobs \ {j}, s \in Shards : CallerHolds(k, s)' <=> CallerHolds(k, s)
  BY <1>4 DEF CallerHolds
<1>7. CASE spc'[j] = "idle"
  <2>1. \A k \in Jobs, s \in Shards : CallerHolds(k, s)' => CallerHolds(k, s)
    BY <1>6, <1>7 DEF CallerHolds
  <2>2. \A s \in Shards : ready[s] => ready'[s]
    BY <1>1, <1>2 DEF EnqueueIntoShard, Reject, schedVars, TokenTypes
  <2>3. SingleAnnouncement'
    BY <1>2, <1>3, <1>5, <2>1, <2>2 DEF SingleAnnouncement, Held, InChannel
  <2>4. TokenTypes'
    BY <1>1, <1>2, <1>5 DEF TokenTypes, EnqueueIntoShard, Reject, schedVars
  <2> QED
    BY <2>3, <2>4 DEF TokenInv
<1>8. CASE spc'[j] # "idle"
  <2>1. /\ ~ ready[t]
        /\ ready' = [ready EXCEPT ![t] = TRUE]
        /\ spc' = [spc EXCEPT ![j] = sendPc]
    BY <1>2, <1>8 DEF EnqueueIntoShard, Reject, TokenTypes
  <2>2. ~ Held(t)
    BY <1>1, <1>2, <2>1 DEF SingleAnnouncement
  <2>3. \A s \in Shards : CallerHolds(j, s)' <=> s = t
    BY <1>2, <2>1 DEF CallerHolds, TokenTypes, JobShard
  <2>4. \A s \in Shards : s # t => ready'[s] = ready[s]
    BY <1>1, <1>2, <2>1 DEF TokenTypes
  <2>5. ready'[t]
    BY <1>1, <1>2, <2>1 DEF TokenTypes
  <2>6. \A s \in Shards : ~ CallerHolds(j, s)
    BY DEF CallerHolds
  <2>7. SingleAnnouncement'
    <3>1. \A s \in Shards \ {t} : \A k \in Jobs : CallerHolds(k, s)' <=> CallerHolds(k, s)
      BY <1>6, <2>3, <2>6
    <3>2. \A k \in Jobs : CallerHolds(k, t)' <=> k = j
      BY <1>1, <1>6, <2>2, <2>3 DEF Held
    <3>3. ~ InChannel(t)' /\ \A w \in Workers : ~ WorkerHolds(w, t)'
      BY <1>1, <1>3, <1>5, <2>2 DEF Held, InChannel
    <3>4. \A s \in Shards : InChannel(s)' <=> InChannel(s)
      BY <1>5 DEF InChannel
    <3> QED
      BY <1>2, <1>3, <1>5, <2>4, <2>5, <3>1, <3>2, <3>3, <3>4 DEF SingleAnnouncement, Held
  <2>8. TokenTypes'
    BY <1>1, <1>2, <1>5, <2>1 DEF TokenTypes
  <2> QED
    BY <2>7, <2>8 DEF TokenInv
<1> QED
  BY <1>7, <1>8

\* Receiving moves the shard from the channel to the worker.
LEMMA ReceiveToken ==
  ASSUME TokenInv, NEW w \in Workers, Receive(w)
  PROVE  TokenInv'
<1> DEFINE t == Head(readyCh)
<1>1. TokenTypes /\ SingleAnnouncement
  BY DEF TokenInv
<1>2. /\ readyCh \in Seq(Shards) /\ readyCh # <<>>
      /\ readyCh' = Tail(readyCh)
      /\ wpc[w] = "loop"
      /\ wshard' = [wshard EXCEPT ![w] = t]
      /\ wpc' = [wpc EXCEPT ![w] = "collect"]
      /\ UNCHANGED <<ready, spc, wmore>>
  BY <1>1 DEF Receive, TokenTypes, callVars
<1>3. /\ t \in Shards /\ t = readyCh[1] /\ 1 \in DOMAIN readyCh
      /\ readyCh' \in Seq(Shards)
      /\ DOMAIN readyCh' = 1..(Len(readyCh) - 1)
      /\ DOMAIN readyCh = 1..Len(readyCh) /\ Len(readyCh) \in Nat
      /\ \A i \in 1..(Len(readyCh) - 1) : readyCh'[i] = readyCh[i + 1]
  BY <1>2
<1>4. \A i, k \in DOMAIN readyCh' : readyCh'[i] = readyCh'[k] => i = k
  <2> SUFFICES ASSUME NEW i \in 1..(Len(readyCh) - 1), NEW k \in 1..(Len(readyCh) - 1),
                      readyCh'[i] = readyCh'[k]
               PROVE  i = k
    BY <1>3
  <2>1. i + 1 \in DOMAIN readyCh /\ k + 1 \in DOMAIN readyCh
    BY <1>3
  <2>2. i + 1 = k + 1
    BY <1>1, <1>3, <2>1 DEF SingleAnnouncement
  <2> QED
    BY <2>2, <1>3
<1>5. \A s \in Shards : InChannel(s)' => InChannel(s) /\ s # t
  <2> SUFFICES ASSUME NEW s \in Shards, NEW i \in 1..(Len(readyCh) - 1), readyCh'[i] = s
               PROVE  InChannel(s) /\ s # t
    BY <1>3 DEF InChannel
  <2>1. i + 1 \in DOMAIN readyCh /\ readyCh[i + 1] = s /\ i + 1 # 1
    BY <1>3
  <2> QED
    BY <1>1, <1>3, <2>1 DEF InChannel, SingleAnnouncement
<1>6. InChannel(t)
  BY <1>3 DEF InChannel
<1>7. \A j \in Jobs, s \in Shards : CallerHolds(j, s)' <=> CallerHolds(j, s)
  BY <1>2 DEF CallerHolds
<1>8. \A v \in Workers, s \in Shards :
         WorkerHolds(v, s)' <=> (IF v = w THEN s = t ELSE WorkerHolds(v, s))
  BY <1>1, <1>2, <1>3 DEF WorkerHolds, TokenTypes
<1>9. SingleAnnouncement'
  BY <1>1, <1>2, <1>3, <1>4, <1>5, <1>6, <1>7, <1>8 DEF SingleAnnouncement, Held
<1>10. TokenTypes'
  BY <1>1, <1>2, <1>3 DEF TokenTypes
<1> QED
  BY <1>9, <1>10 DEF TokenInv

\* Under the shard lock the worker keeps the shard exactly if work is left,
\* and otherwise clears Ready as it lets go.
LEMMA CollectToken ==
  ASSUME TokenInv, NEW w \in Workers, CollectBatch(w)
  PROVE  TokenInv'
<1> DEFINE t == wshard[w]
<1> DEFINE left == [l \in Lanes |-> Left(lanes[t][l], quota[l])]
<1> DEFINE more == HasWork(left)
<1>1. TokenTypes /\ SingleAnnouncement
  BY DEF TokenInv
<1>2. more \in BOOLEAN /\ t \in Shards
  BY <1>1 DEF HasWork, TokenTypes
<1>3. /\ wpc[w] = "collect"
      /\ ready' = [ready EXCEPT ![t] = @ /\ more]
      /\ wmore' = [wmore EXCEPT ![w] = more]
      /\ \E pc \in {"check", "requeue", "loop"} :
            /\ wpc' = [wpc EXCEPT ![w] = pc]
            /\ pc = "requeue" => more
            /\ pc = "loop" => ~more
      /\ UNCHANGED <<readyCh, spc, wshard>>
  BY <1>2, Zenon DEF CollectBatch, AfterBatch, callVars
<1> HIDE DEF left, more
<1>4. WorkerHolds(w, t) /\ ready[t]
  BY <1>1, <1>2, <1>3 DEF WorkerHolds, SingleAnnouncement, Held
<1>5. \A v \in Workers, s \in Shards :
         WorkerHolds(v, s)' <=> (IF v = w THEN s = t /\ more ELSE WorkerHolds(v, s))
  BY <1>1, <1>2, <1>3 DEF WorkerHolds, TokenTypes
<1>6. \A j \in Jobs, s \in Shards : CallerHolds(j, s)' <=> CallerHolds(j, s)
  BY <1>3 DEF CallerHolds
<1>7. \A s \in Shards : ready'[s] = IF s = t THEN more ELSE ready[s]
  BY <1>1, <1>2, <1>3, <1>4 DEF TokenTypes
<1>8. \A s \in Shards : InChannel(s)' <=> InChannel(s)
  BY <1>3 DEF InChannel
<1>9. SingleAnnouncement'
  BY <1>1, <1>2, <1>3, <1>4, <1>5, <1>6, <1>7, <1>8 DEF SingleAnnouncement, Held
<1>10. TokenTypes'
  BY <1>1, <1>2, <1>3 DEF TokenTypes
<1> QED
  BY <1>9, <1>10 DEF TokenInv

-----------------------------------------------------------------------------
\* Every step of the scheduler keeps the ready protocol's invariant.
LEMMA TokenStep == TokenInv /\ [Next]_vars => TokenInv'
<1> SUFFICES ASSUME TokenInv, [Next]_vars
             PROVE  TokenInv'
  OBVIOUS
<1>1. TokenTypes /\ SingleAnnouncement
  BY DEF TokenInv
<1>2. ASSUME UNCHANGED <<ready, readyCh, spc, wpc, wshard, wmore>>
      PROVE  TokenInv'
  BY <1>2 DEF TokenInv, TokenTypes, SingleAnnouncement, Held, InChannel, CallerHolds, WorkerHolds
<1>3. CASE UNCHANGED vars
  BY <1>2, <1>3 DEF vars, schedVars, callVars, workerVars
<1>4. CASE Start
  <2>1. TokenTypes'
    BY <1>1, <1>4 DEF TokenTypes, Start, schedVars, callVars
  <2>2. SingleAnnouncement'
    BY <1>1, <1>4, NobodyGains DEF Start, schedVars, callVars, CallerHolds, WorkerHolds
  <2> QED
    BY <2>1, <2>2 DEF TokenInv
<1>5. CASE CancelStartCtx
  BY <1>2, <1>5 DEF CancelStartCtx, schedVars, callVars, workerVars
<1>6. ASSUME NEW j \in Jobs, CallerNext(j)
      PROVE  TokenInv'
  <2>1. CASE SubmitBegin(j)
    <3>1. TokenTypes'
      BY <1>1, <2>1 DEF TokenTypes, SubmitBegin, schedVars, workerVars
    <3>2. SingleAnnouncement'
      BY <1>1, <2>1, NobodyGains
      DEF SubmitBegin, TokenTypes, schedVars, workerVars, CallerHolds, WorkerHolds
    <3> QED
      BY <3>1, <3>2 DEF TokenInv
  <2>2. CASE CancelCaller(j)
    BY <1>2, <2>2 DEF CancelCaller, schedVars, workerVars
  <2>3. CASE Submit(j)
    BY <2>3, EnqueueToken DEF Submit, Enqueue, workerVars
  <2>4. CASE SubmitSend(j)
    <3>1. TokenTypes'
      BY <1>1, <2>4, JobShardType DEF TokenTypes, SubmitSend, workerVars
    <3>2. CallerHolds(j, JobShard(j)) /\ JobShard(j) \in Shards
      BY <2>4, JobShardType DEF SubmitSend, CallerHolds
    <3>3. \A k \in Jobs, s \in Shards : CallerHolds(k, s)' => CallerHolds(k, s) /\ k # j
      BY <1>1, <2>4 DEF SubmitSend, TokenTypes, CallerHolds
    <3>4. \A w \in Workers, s \in Shards : WorkerHolds(w, s)' => WorkerHolds(w, s)
      BY <2>4 DEF SubmitSend, workerVars, WorkerHolds
    <3>5. SingleAnnouncement'
      BY <1>1, <2>4, <3>2, <3>3, <3>4, HolderAnnounces DEF SubmitSend, SingleAnnouncement
    <3> QED
      BY <3>1, <3>5 DEF TokenInv
  <2>5. CASE SubmitCancelled(j)
    <3>1. TokenTypes'
      BY <1>1, <2>5 DEF TokenTypes, SubmitCancelled, schedVars, workerVars
    <3>2. SingleAnnouncement'
      BY <1>1, <2>5, NobodyGains
      DEF SubmitCancelled, TokenTypes, schedVars, workerVars, CallerHolds, WorkerHolds
    <3> QED
      BY <3>1, <3>2 DEF TokenInv
  <2>6. CASE TrySubmit(j)
    BY <2>6, EnqueueToken DEF TrySubmit, workerVars
  <2>7. CASE EnqueueContinuation(j)
    BY <2>7, EnqueueToken DEF EnqueueContinuation, Enqueue, workerVars
  <2>8. CASE TrySend(j)
    <3>1. TokenTypes'
      BY <1>1, <2>8, JobShardType DEF TokenTypes, TrySend, workerVars
    <3>2. CallerHolds(j, JobShard(j)) /\ JobShard(j) \in Shards
      BY <2>8, JobShardType DEF TrySend, CallerHolds
    <3>3. \A k \in Jobs, s \in Shards : CallerHolds(k, s)' => CallerHolds(k, s) /\ k # j
      BY <1>1, <2>8 DEF TrySend, TokenTypes, CallerHolds
    <3>4. \A w \in Workers, s \in Shards : WorkerHolds(w, s)' => WorkerHolds(w, s)
      BY <2>8 DEF TrySend, workerVars, WorkerHolds
    <3>5. CASE Len(readyCh) < ReadyCap
      BY <1>1, <2>8, <3>1, <3>2, <3>3, <3>4, <3>5, HolderAnnounces
      DEF TrySend, SingleAnnouncement, TokenInv
    <3>6. CASE ~(Len(readyCh) < ReadyCap)
      BY <1>1, <2>8, <3>1, <3>3, <3>4, <3>6, NobodyGains DEF TrySend, TokenInv
    <3> QED
      BY <3>5, <3>6
  <2> QED
    BY <1>6, <2>1, <2>2, <2>3, <2>4, <2>5, <2>6, <2>7, <2>8 DEF CallerNext
<1>7. ASSUME NEW w \in Workers, WorkerNext(w)
      PROVE  TokenInv'
  <2>1. CASE Receive(w)
    BY <2>1, ReceiveToken
  <2>2. CASE WorkerExit(w)
    <3>1. TokenTypes'
      BY <1>1, <2>2 DEF TokenTypes, WorkerExit, schedVars, callVars
    <3>2. SingleAnnouncement'
      BY <1>1, <2>2, NobodyGains
      DEF WorkerExit, TokenTypes, schedVars, callVars, CallerHolds, WorkerHolds
    <3> QED
      BY <3>1, <3>2 DEF TokenInv
  <2>3. CASE CollectBatch(w)
    BY <2>3, CollectToken
  <2>4. CASE RunJob(w)
    <3>1. TokenTypes'
      BY <1>1, <2>4 DEF TokenTypes, RunJob, schedVars, callVars
    <3>2. SingleAnnouncement'
      BY <1>1, <2>4, NobodyGains
      DEF RunJob, TokenTypes, schedVars, callVars, CallerHolds, WorkerHolds
    <3> QED
      BY <3>1, <3>2 DEF TokenInv
  <2>5. CASE FinishJob(w) \/ AbandonBatch(w)
    <3>1. /\ wpc[w] \in {"check", "running"}
          /\ \/ wpc' = [wpc EXCEPT ![w] = "check"]
             \/ wpc' = [wpc EXCEPT ![w] = IF wmore[w] THEN "requeue" ELSE "loop"]
          /\ UNCHANGED <<ready, readyCh, spc, wshard, wmore>>
      BY <2>5 DEF FinishJob, AbandonBatch, AfterBatch, schedVars, callVars
    <3>2. TokenTypes'
      BY <1>1, <3>1 DEF TokenTypes
    <3>3. SingleAnnouncement'
      BY <1>1, <3>1, NobodyGains DEF TokenTypes, CallerHolds, WorkerHolds
    <3> QED
      BY <3>2, <3>3 DEF TokenInv
  <2>6. CASE Requeue(w)
    <3>1. TokenTypes'
      BY <1>1, <2>6 DEF TokenTypes, Requeue, callVars
    <3>2. WorkerHolds(w, wshard[w]) /\ wshard[w] \in Shards
      BY <1>1, <2>6 DEF Requeue, TokenTypes, WorkerHolds
    <3>3. \A v \in Workers, s \in Shards : WorkerHolds(v, s)' => WorkerHolds(v, s) /\ v # w
      BY <1>1, <2>6 DEF Requeue, TokenTypes, WorkerHolds
    <3>4. \A j \in Jobs, s \in Shards : CallerHolds(j, s)' => CallerHolds(j, s)
      BY <2>6 DEF Requeue, callVars, CallerHolds
    <3>5. SingleAnnouncement'
      BY <1>1, <2>6, <3>2, <3>3, <3>4, HolderAnnounces DEF Requeue, SingleAnnouncement
    <3> QED
      BY <3>1, <3>5 DEF TokenInv
  <2>7. CASE RequeueCancelled(w)
    <3>1. TokenTypes'
      BY <1>1, <2>7 DEF TokenTypes, RequeueCancelled, schedVars, callVars
    <3>2. SingleAnnouncement'
      BY <1>1, <2>7, NobodyGains
      DEF RequeueCancelled, TokenTypes, schedVars, callVars, CallerHolds, WorkerHolds
    <3> QED
      BY <3>1, <3>2 DEF TokenInv
  <2> QED
    BY <1>7, <2>1, <2>2, <2>3, <2>4, <2>5, <2>6, <2>7 DEF WorkerNext
<1>8. ASSUME NEW u \in Updaters,
             UpdateQuotaPublish(u) \/ \E q \in Quotas : UpdateQuotaCheck(u, q)
      PROVE  TokenInv'
  BY <1>2, <1>8 DEF UpdateQuotaPublish, UpdateQuotaCheck, schedVars, callVars, workerVars
<1>9. ASSUME NEW p \in Stoppers, StopNext(p)
      PROVE  TokenInv'
  BY <1>2, <1>9
  DEF StopNext, StopBegin, ExpireStop, DrainBegin, DrainScan, DrainVerdict, DrainTick,
      StopCancel, StopReturn, StopReturnOther, schedVars, callVars, workerVars
<1>10. CASE WaiterDone
  BY <1>2, <1>10 DEF WaiterDone, schedVars, callVars, workerVars
<1> QED
  BY <1>3, <1>4, <1>5, <1>6, <1>7, <1>8, <1>9, <1>10 DEF Next

\* A new scheduler holds no shard.
LEMMA TokenInit == Init => TokenInv
<1> SUFFICES ASSUME Init PROVE TokenInv
  OBVIOUS
<1>1. TokenTypes
  BY ZeroShard DEF Init, TokenTypes
<1>2. SingleAnnouncement
  BY DEF Init, SingleAnnouncement, Held, InChannel, CallerHolds, WorkerHolds
<1> QED
  BY <1>1, <1>2 DEF TokenInv

\* Over the channel, the callers and the workers a shard is announced at most
\* once, and only while its Ready flag is set, in every configuration.
THEOREM AnnouncedOnce == Spec => []SingleAnnouncement
<1>1. Spec => []TokenInv
  BY TokenInit, TokenStep, PTL DEF Spec
<1>2. TokenInv => SingleAnnouncement
  BY DEF TokenInv
<1> QED
  BY <1>1, <1>2, PTL

-----------------------------------------------------------------------------
\* With one slot per shard, a shard that is not in the channel finds room in
\* it: the shards in the channel are distinct.
LEMMA RoomForHeld ==
  ASSUME TokenInv, NEW t \in Shards, ~InChannel(t)
  PROVE  Len(readyCh) < ReadyCap
<1> DEFINE n == Len(readyCh)
<1>1. readyCh \in [1..n -> Shards \ {t}] /\ n \in Nat
  BY DEF TokenInv, TokenTypes, InChannel
<1>2. IsFiniteSet(Shards) /\ Cardinality(Shards) = NumShards /\ NumShards \in Nat
  BY FS_Interval, SizesAssumption DEF Shards
<1>3. IsFiniteSet(Shards \ {t}) /\ Cardinality(Shards \ {t}) = NumShards - 1
  BY <1>2, FS_RemoveElement
<1>4. IsFiniteSet(1..n) /\ Cardinality(1..n) = n
  <2>1. n \in Int /\ 1 \in Int
    BY <1>1
  <2> HIDE DEF n
  <2>2. IsFiniteSet(1..n) /\ Cardinality(1..n) = IF 1 > n THEN 0 ELSE n - 1 + 1
    BY <2>1, FS_Interval
  <2> QED
    BY <1>1, <2>1, <2>2
<1>5. ASSUME ~(n < NumShards) PROVE FALSE
  <2>1. Cardinality(Shards \ {t}) < Cardinality(1..n)
    BY <1>1, <1>2, <1>3, <1>4, <1>5
  <2>2. \E x, y \in 1..n : x # y /\ readyCh[x] = readyCh[y]
    BY <1>1, <1>3, <1>4, <2>1, FS_PigeonHole
  <2> QED
    BY <1>1, <2>2 DEF TokenInv, TokenTypes, SingleAnnouncement
<1> QED
  BY <1>5 DEF ReadyCap

\* Whoever is about to announce a shard finds room in the channel.
LEMMA TokenRoom == TokenInv => ChannelHasRoom
<1> SUFFICES ASSUME TokenInv PROVE ChannelHasRoom
  OBVIOUS
<1>1. ASSUME NEW j \in Jobs, spc[j] \in {"send", "trySend"} PROVE Len(readyCh) < ReadyCap
  <2>1. JobShard(j) \in Shards /\ CallerHolds(j, JobShard(j))
    BY <1>1, JobShardType DEF CallerHolds
  <2>2. ~InChannel(JobShard(j))
    BY <2>1 DEF TokenInv, SingleAnnouncement
  <2> QED
    BY <2>1, <2>2, RoomForHeld
<1>2. ASSUME NEW w \in Workers, wpc[w] = "requeue" PROVE Len(readyCh) < ReadyCap
  <2>1. wshard[w] \in Shards /\ WorkerHolds(w, wshard[w])
    BY <1>2 DEF TokenInv, TokenTypes, WorkerHolds
  <2>2. ~InChannel(wshard[w])
    BY <2>1 DEF TokenInv, SingleAnnouncement
  <2> QED
    BY <2>1, <2>2, RoomForHeld
<1> QED
  BY <1>1, <1>2 DEF ChannelHasRoom

\* No announcement ever finds the ready channel full: the default branches of
\* TrySubmit and enqueueContinuationJob are dead code, and the sends of Submit
\* and processShard never block, in every configuration.
THEOREM AnnouncementsFindRoom == Spec => []ChannelHasRoom
  BY TokenInit, TokenStep, TokenRoom, PTL DEF Spec

-----------------------------------------------------------------------------
(***************************************************************************)
(* No lost wakeup.  What has to be known besides the ready protocol: work  *)
(* implies Ready, Ready implies a holder or one of the two excuses, the    *)
(* job of a caller that owes an announcement is still queued, and a caller *)
(* on its way into Enqueue has nothing queued.                             *)
(***************************************************************************)
WakeTypes ==
  /\ lanes \in [Shards -> [Lanes -> Seq(Jobs)]]
  /\ result \in [Jobs -> {"none", "nil", "err", "ctx"}]
  /\ quota \in Quotas
  /\ upd \in [Updaters -> Quotas \cup {NoPolicy}]
  /\ state = "new" => workerCtx = "none" /\ \A w \in Workers : wpc[w] = "none"

CallersQueued ==
  \A j \in Jobs : /\ spc[j] = "enqueue" => ~Queued(j)
                  /\ spc[j] \in {"send", "trySend"} => Queued(j) /\ result[j] = "none"

Excused(s) == CtxDone \/ \E j \in Jobs : Orphan(j, s)

WorkIsReady == \A s \in Shards : HasWork(lanes[s]) => ready[s]
ReadyIsHeld == \A s \in Shards : ready[s] => Held(s) \/ Excused(s)

WakeInv == TokenInv /\ WakeTypes /\ CallersQueued /\ WorkIsReady /\ ReadyIsHeld

\* The elements of a sequence after Append.
LEMMA AppendElements ==
  ASSUME NEW S, NEW q \in Seq(S), NEW x \in S
  PROVE  \A k : (\E i \in DOMAIN Append(q, x) : Append(q, x)[i] = k)
                <=> (\E i \in DOMAIN q : q[i] = k) \/ k = x
<1>1. /\ DOMAIN Append(q, x) = 1..(Len(q) + 1)
      /\ DOMAIN q = 1..Len(q) /\ Len(q) \in Nat
      /\ Append(q, x)[Len(q) + 1] = x
      /\ \A i \in 1..Len(q) : Append(q, x)[i] = q[i]
  OBVIOUS
<1>2. \A i \in 1..(Len(q) + 1) : i \in 1..Len(q) \/ i = Len(q) + 1
  BY <1>1
<1>3. Len(q) + 1 \in 1..(Len(q) + 1) /\ \A i \in 1..Len(q) : i \in 1..(Len(q) + 1)
  BY <1>1
<1> QED
  BY <1>1, <1>2, <1>3, Zenon

\* A push adds its job to what is queued and nothing else.
LEMMA PushQueued ==
  ASSUME lanes \in [Shards -> [Lanes -> Seq(Jobs)]], NEW j \in Jobs,
         lanes' = [lanes EXCEPT ![JobShard(j)][JobLane[j]] = Append(@, j)]
  PROVE  /\ lanes' \in [Shards -> [Lanes -> Seq(Jobs)]]
         /\ \A k \in Jobs : Queued(k)' <=> Queued(k) \/ k = j
         /\ \A s \in Shards \ {JobShard(j)} : lanes'[s] = lanes[s]
<1> DEFINE t == JobShard(j)
<1> DEFINE m == JobLane[j]
<1>1. t \in Shards /\ m \in Lanes /\ \A k \in Jobs : JobShard(k) \in Shards /\ JobLane[k] \in Lanes
  BY JobShardType, JobsAssumption
<1>2. lanes[t][m] \in Seq(Jobs) /\ lanes'[t][m] = Append(lanes[t][m], j)
  BY <1>1
<1>3. \A s \in Shards, l \in Lanes : (s # t \/ l # m) => lanes'[s][l] = lanes[s][l]
  BY <1>1
<1>4. lanes' \in [Shards -> [Lanes -> Seq(Jobs)]]
  BY <1>1, <1>2
<1>5. \A k \in Jobs : (\E i \in DOMAIN lanes'[t][m] : lanes'[t][m][i] = k)
                      <=> (\E i \in DOMAIN lanes[t][m] : lanes[t][m][i] = k) \/ k = j
  <2> DEFINE q == lanes[t][m]
  <2> DEFINE r == lanes'[t][m]
  <2>1. q \in Seq(Jobs) /\ r = Append(q, j)
    BY <1>2
  <2> HIDE DEF q, r
  <2>2. \A k \in Jobs : (\E i \in DOMAIN r : r[i] = k) <=> (\E i \in DOMAIN q : q[i] = k) \/ k = j
    BY <2>1, AppendElements
  <2> QED
    BY <2>2 DEF q, r
<1>6. ASSUME NEW k \in Jobs PROVE Queued(k)' <=> Queued(k) \/ k = j
  <2>1. CASE JobShard(k) = t /\ JobLane[k] = m
    <3>1. Queued(k) <=> \E i \in DOMAIN lanes[t][m] : lanes[t][m][i] = k
      BY <2>1, Zenon DEF Queued
    <3>2. Queued(k)' <=> \E i \in DOMAIN lanes'[t][m] : lanes'[t][m][i] = k
      BY <2>1, Zenon DEF Queued
    <3> HIDE DEF t, m
    <3> QED
      BY <1>5, <3>1, <3>2, Zenon
  <2>2. CASE ~(JobShard(k) = t /\ JobLane[k] = m)
    BY <1>1, <1>3, <2>2 DEF Queued
  <2> QED
    BY <2>1, <2>2
<1> QED
  BY <1>1, <1>4, <1>6

\* What popN takes and leaves are lists of jobs.
LEMMA PopTypes ==
  ASSUME NEW queue \in Seq(Jobs), NEW n \in Nat \ {0}
  PROVE  Taken(queue, n) \in Seq(Jobs) /\ Left(queue, n) \in Seq(Jobs)
<1>1. Len(queue) \in Nat /\ \A i \in 1..Len(queue) : queue[i] \in Jobs
  OBVIOUS
<1>2. CASE n < Len(queue)
  BY <1>1, <1>2 DEF Taken, Left
<1>3. CASE ~(n < Len(queue))
  BY <1>1, <1>3 DEF Taken, Left
<1> QED
  BY <1>2, <1>3

\* Every step keeps the types the wakeup argument needs, and no worker runs
\* before Start.
LEMMA WakeTypesStep ==
  ASSUME TokenInv, WakeTypes, [Next]_vars
  PROVE  WakeTypes'
<1>1. ASSUME UNCHANGED <<lanes, result, quota, upd, state, workerCtx, wpc>>
      PROVE  WakeTypes'
  BY <1>1 DEF WakeTypes
<1>2. CASE UNCHANGED vars
  BY <1>1, <1>2 DEF vars, schedVars, callVars, workerVars, quotaVars
<1>3. CASE Start \/ CancelStartCtx
  BY <1>3 DEF WakeTypes, Start, CancelStartCtx, schedVars, callVars, workerVars, quotaVars
<1>4. ASSUME NEW j \in Jobs, CallerNext(j)
      PROVE  WakeTypes'
  <2>1. UNCHANGED <<quota, upd, state, workerCtx, wpc>>
    BY <1>4
    DEF CallerNext, SubmitBegin, CancelCaller, Submit, SubmitSend, SubmitCancelled, TrySubmit,
        EnqueueContinuation, TrySend, workerVars, quotaVars
  <2>2. /\ \/ lanes' = lanes
           \/ lanes' = [lanes EXCEPT ![JobShard(j)][JobLane[j]] = Append(@, j)]
        /\ \/ result' = result
           \/ \E r \in {"none", "nil", "err", "ctx"} : result' = [result EXCEPT ![j] = r]
    BY <1>4
    DEF CallerNext, SubmitBegin, CancelCaller, Submit, SubmitSend, SubmitCancelled, TrySubmit,
        EnqueueContinuation, TrySend, Enqueue, EnqueueIntoShard, Reject, schedVars
  <2>3. lanes' \in [Shards -> [Lanes -> Seq(Jobs)]]
    BY <2>2, PushQueued DEF WakeTypes
  <2> QED
    BY <2>1, <2>2, <2>3 DEF WakeTypes
<1>5. ASSUME NEW w \in Workers, WorkerNext(w)
      PROVE  WakeTypes'
  <2>1. /\ UNCHANGED <<result, quota, upd, state, workerCtx>>
        /\ state = "new" => wpc' = wpc
    BY <1>5
    DEF WorkerNext, Receive, WorkerExit, CollectBatch, RunJob, FinishJob, AbandonBatch, Requeue,
        RequeueCancelled, WakeTypes, callVars, quotaVars
  <2>2. lanes' \in [Shards -> [Lanes -> Seq(Jobs)]]
    <3>1. CASE CollectBatch(w)
      <4>1. wshard[w] \in Shards /\ quota \in [Lanes -> Nat \ {0}]
        BY QuotasAssumption DEF TokenInv, TokenTypes, WakeTypes
      <4>2. \A l \in Lanes : Left(lanes[wshard[w]][l], quota[l]) \in Seq(Jobs)
        BY <4>1, PopTypes DEF WakeTypes
      <4> QED
        BY <3>1, <4>1, <4>2 DEF CollectBatch, WakeTypes
    <3>2. CASE ~CollectBatch(w)
      BY <1>5, <3>2
      DEF WorkerNext, Receive, WorkerExit, RunJob, FinishJob, AbandonBatch, Requeue,
          RequeueCancelled, WakeTypes, schedVars
    <3> QED
      BY <3>1, <3>2
  <2> QED
    BY <2>1, <2>2 DEF WakeTypes
<1>6. ASSUME NEW u \in Updaters,
             UpdateQuotaPublish(u) \/ \E q \in Quotas : UpdateQuotaCheck(u, q)
      PROVE  WakeTypes'
  BY <1>6 DEF UpdateQuotaPublish, UpdateQuotaCheck, WakeTypes, schedVars, callVars, workerVars
<1>7. ASSUME NEW p \in Stoppers, StopNext(p)
      PROVE  WakeTypes'
  BY <1>7
  DEF StopNext, StopBegin, ExpireStop, DrainBegin, DrainScan, DrainVerdict, DrainTick, StopCancel,
      StopReturn, StopReturnOther, WakeTypes, schedVars, callVars, workerVars, quotaVars
<1>8. CASE WaiterDone
  BY <1>8 DEF WaiterDone, WakeTypes, schedVars, callVars, workerVars, quotaVars
<1> QED
  BY <1>2, <1>3, <1>4, <1>5, <1>6, <1>7, <1>8 DEF Next

\* A step that leaves the queues, the flags and the callers alone keeps the
\* wakeup invariant if no shard is dropped while the workers live.
LEMMA WakeFrame ==
  ASSUME WakeInv, TokenInv', WakeTypes',
         UNCHANGED <<lanes, ready, spc, result>>,
         CtxDone => CtxDone',
         \A s \in Shards : Held(s) => Held(s)' \/ CtxDone'
  PROVE  WakeInv'
<1>1. \A j \in Jobs : Queued(j)' <=> Queued(j)
  BY DEF Queued
<1>2. \A s \in Shards : Excused(s) => Excused(s)'
  BY <1>1 DEF Excused, Orphan
<1>3. CallersQueued' /\ WorkIsReady'
  BY <1>1 DEF WakeInv, CallersQueued, WorkIsReady, HasWork
<1>4. ReadyIsHeld'
  BY <1>2 DEF WakeInv, ReadyIsHeld, Excused
<1> QED
  BY <1>3, <1>4 DEF WakeInv

\* The callers' steps keep the wakeup invariant: a push that finds the shard
\* ready relies on its holder, one that does not becomes its holder, and a
\* caller that gives up leaves its own job behind as the excuse.
LEMMA WakeCaller ==
  ASSUME WakeInv, TokenInv', WakeTypes', NEW j \in Jobs, CallerNext(j)
  PROVE  WakeInv'
<1>1. /\ TokenTypes /\ SingleAnnouncement /\ WakeTypes /\ CallersQueued
      /\ WorkIsReady /\ ReadyIsHeld
  BY DEF WakeInv, TokenInv
<1>2. UNCHANGED <<workerCtx, wpc, wshard, wmore>>
  BY DEF CallerNext, SubmitBegin, CancelCaller, Submit, SubmitSend, SubmitCancelled, TrySubmit,
         EnqueueContinuation, TrySend, workerVars
<1>3. (CtxDone <=> CtxDone') /\ \A w \in Workers, s \in Shards : WorkerHolds(w, s) <=> WorkerHolds(w, s)'
  BY <1>2 DEF CtxDone, WorkerHolds
<1>4. JobShard(j) \in Shards /\ JobLane[j] \in Lanes
  BY JobShardType, JobsAssumption
<1>5. ASSUME UNCHANGED <<lanes, ready, readyCh>>, ~Queued(j),
             \E pc \in {"idle", "enqueue"} : spc' = [spc EXCEPT ![j] = pc],
             \E r \in {"none", "err"} : result' = [result EXCEPT ![j] = r]
      PROVE  WakeInv'
  <2>1. \A k \in Jobs : Queued(k)' <=> Queued(k)
    BY <1>5 DEF Queued
  <2>2. \A k \in Jobs \ {j} : spc'[k] = spc[k] /\ result'[k] = result[k]
    BY <1>1, <1>5 DEF TokenTypes, WakeTypes
  <2>3. spc'[j] \in {"idle", "enqueue"}
    BY <1>1, <1>5 DEF TokenTypes
  <2>4. CallersQueued'
    BY <1>1, <1>5, <2>1, <2>2, <2>3 DEF CallersQueued
  <2>5. ~CallerHolds(j, JobShard(j))
    BY <1>1, <1>5 DEF CallersQueued, CallerHolds
  <2>6. \A s \in Shards : Held(s) => Held(s)'
    BY <1>3, <1>5, <2>2, <2>5 DEF Held, InChannel, CallerHolds
  <2>7. \A s \in Shards : Excused(s) => Excused(s)'
    BY <1>3, <1>5, <2>1, <2>2 DEF Excused, Orphan
  <2>8. WorkIsReady' /\ ReadyIsHeld'
    BY <1>1, <1>5, <2>6, <2>7 DEF WorkIsReady, ReadyIsHeld, HasWork
  <2> QED
    BY <2>4, <2>8 DEF WakeInv
<1>6. ASSUME NEW sendPc \in {"send", "trySend"}, EnqueueIntoShard(j, sendPc), ~Queued(j),
             spc[j] \in {"idle", "enqueue"}
      PROVE  WakeInv'
  <2>1. CASE LaneFull(lanes[JobShard(j)][JobLane[j]])
    BY <1>5, <1>6, <2>1 DEF EnqueueIntoShard, schedVars
  <2>2. CASE ~LaneFull(lanes[JobShard(j)][JobLane[j]])
    <3> DEFINE t == JobShard(j)
    <3>1. /\ lanes' = [lanes EXCEPT ![t][JobLane[j]] = Append(@, j)]
          /\ ready' = [ready EXCEPT ![t] = TRUE]
          /\ spc' = [spc EXCEPT ![j] = IF ready[t] THEN "idle" ELSE sendPc]
          /\ result' = [result EXCEPT ![j] = IF ready[t] THEN "nil" ELSE "none"]
          /\ readyCh' = readyCh
      BY <1>6, <2>2 DEF EnqueueIntoShard
    <3>2. /\ \A k \in Jobs : Queued(k)' <=> Queued(k) \/ k = j
          /\ \A s \in Shards \ {t} : lanes'[s] = lanes[s]
      BY <1>1, <3>1, PushQueued DEF WakeTypes
    <3>3. \A k \in Jobs \ {j} : spc'[k] = spc[k] /\ result'[k] = result[k]
      BY <1>1, <3>1 DEF TokenTypes, WakeTypes
    <3>4. /\ spc'[j] = (IF ready[t] THEN "idle" ELSE sendPc)
          /\ result'[j] = (IF ready[t] THEN "nil" ELSE "none")
      BY <1>1, <3>1 DEF TokenTypes, WakeTypes
    <3>5. CallersQueued'
      BY <1>1, <3>2, <3>3, <3>4 DEF CallersQueued
    <3>6. ready'[t] /\ \A s \in Shards \ {t} : ready'[s] = ready[s]
      BY <1>1, <1>4, <3>1 DEF TokenTypes
    <3>7. WorkIsReady'
      BY <1>1, <3>2, <3>6 DEF WorkIsReady, HasWork
    <3>8. \A s \in Shards : Held(s) => Held(s)'
      BY <1>3, <1>6, <3>1, <3>3 DEF Held, InChannel, CallerHolds
    <3>9. \A s \in Shards : Excused(s) => Excused(s)'
      BY <1>3, <1>6, <3>2, <3>3 DEF Excused, Orphan
    <3>10. ~ready[t] => CallerHolds(j, t)'
      BY <3>4 DEF CallerHolds
    <3>11. ReadyIsHeld'
      BY <1>1, <3>6, <3>8, <3>9, <3>10 DEF ReadyIsHeld, Held
    <3> QED
      BY <3>5, <3>7, <3>11 DEF WakeInv
  <2> QED
    BY <2>1, <2>2
<1>7. ASSUME Reject(j), ~Queued(j) PROVE WakeInv'
  BY <1>5, <1>7 DEF Reject, schedVars
<1>8. CASE SubmitBegin(j)
  BY <1>5, <1>8 DEF SubmitBegin, InSystem, schedVars
<1>9. CASE CancelCaller(j)
  <2>1. \A s \in Shards : Held(s) => Held(s)'
    BY <1>3, <1>9 DEF CancelCaller, schedVars, Held, InChannel, CallerHolds
  <2> QED
    BY <1>3, <1>9, <2>1, WakeFrame DEF CancelCaller, schedVars
<1>10. CASE Submit(j)
  BY <1>1, <1>6, <1>7, <1>10 DEF Submit, Enqueue, CallersQueued
<1>11. CASE TrySubmit(j)
  BY <1>6, <1>7, <1>11 DEF TrySubmit, InSystem
<1>12. CASE EnqueueContinuation(j)
  BY <1>6, <1>7, <1>12 DEF EnqueueContinuation, Enqueue, InSystem
<1>13. ASSUME SubmitSend(j) \/ TrySend(j)
       PROVE  WakeInv'
  <2>1. spc[j] \in {"send", "trySend"}
    BY <1>13 DEF SubmitSend, TrySend
  <2>2. Len(readyCh) < ReadyCap
    BY <2>1, TokenRoom DEF WakeInv, ChannelHasRoom
  <2>3. /\ readyCh' = Append(readyCh, JobShard(j))
        /\ spc' = [spc EXCEPT ![j] = "idle"]
        /\ result' = [result EXCEPT ![j] = "nil"]
        /\ UNCHANGED <<lanes, ready>>
    BY <1>13, <2>2 DEF SubmitSend, TrySend
  <2>4. \A k \in Jobs : Queued(k)' <=> Queued(k)
    BY <2>3 DEF Queued
  <2>5. /\ \A k \in Jobs \ {j} : spc'[k] = spc[k] /\ result'[k] = result[k]
        /\ spc'[j] = "idle"
    BY <1>1, <2>3 DEF TokenTypes, WakeTypes
  <2>6. CallersQueued'
    BY <1>1, <2>4, <2>5 DEF CallersQueued
  <2>7. InChannel(JobShard(j))' /\ \A s \in Shards : InChannel(s) => InChannel(s)'
    <3>1. \A s : (\E i \in DOMAIN readyCh' : readyCh'[i] = s)
                   <=> (\E i \in DOMAIN readyCh : readyCh[i] = s) \/ s = JobShard(j)
      <4>1. readyCh \in Seq(Shards)
        BY <1>1 DEF TokenTypes
      <4>2. \A s : (\E i \in DOMAIN Append(readyCh, JobShard(j)) :
                       Append(readyCh, JobShard(j))[i] = s)
                   <=> (\E i \in DOMAIN readyCh : readyCh[i] = s) \/ s = JobShard(j)
        BY <1>4, <4>1, AppendElements
      <4> QED
        BY <2>3, <4>2, Zenon
    <3> QED
      BY <3>1 DEF InChannel
  <2>8. \A s \in Shards : Held(s) => Held(s)'
    BY <1>3, <2>5, <2>7 DEF Held, CallerHolds
  <2>9. \A s \in Shards : Excused(s) => Excused(s)'
    BY <1>1, <1>3, <2>1, <2>4, <2>5 DEF Excused, Orphan, CallersQueued
  <2>10. WorkIsReady' /\ ReadyIsHeld'
    BY <1>1, <2>3, <2>8, <2>9 DEF WorkIsReady, ReadyIsHeld, HasWork
  <2> QED
    BY <2>6, <2>10 DEF WakeInv
<1>14. CASE SubmitCancelled(j)
  <2>1. /\ spc[j] = "send"
        /\ spc' = [spc EXCEPT ![j] = "idle"]
        /\ result' = [result EXCEPT ![j] = "ctx"]
        /\ UNCHANGED <<lanes, ready, readyCh>>
    BY <1>14 DEF SubmitCancelled, schedVars
  <2>2. \A k \in Jobs : Queued(k)' <=> Queued(k)
    BY <2>1 DEF Queued
  <2>3. /\ \A k \in Jobs \ {j} : spc'[k] = spc[k] /\ result'[k] = result[k]
        /\ spc'[j] = "idle" /\ result'[j] = "ctx"
    BY <1>1, <2>1 DEF TokenTypes, WakeTypes
  <2>4. CallersQueued'
    BY <1>1, <2>2, <2>3 DEF CallersQueued
  <2>5. Orphan(j, JobShard(j))'
    BY <1>1, <2>1, <2>2, <2>3 DEF Orphan, CallersQueued
  <2>6. \A s \in Shards : Excused(s) => Excused(s)'
    BY <1>1, <1>3, <2>1, <2>2, <2>3 DEF Excused, Orphan
  <2>7. \A s \in Shards : Held(s) => Held(s)' \/ Excused(s)'
    BY <1>3, <2>1, <2>3, <2>5 DEF Held, InChannel, CallerHolds, Excused
  <2>8. WorkIsReady' /\ ReadyIsHeld'
    BY <1>1, <2>1, <2>6, <2>7 DEF WorkIsReady, ReadyIsHeld, HasWork
  <2> QED
    BY <2>4, <2>8 DEF WakeInv
<1> QED
  BY <1>8, <1>9, <1>10, <1>11, <1>12, <1>13, <1>14 DEF CallerNext

\* popN leaves nothing in a lane that was not queued there.
LEMMA LeftElements ==
  ASSUME NEW queue \in Seq(Jobs), NEW n \in Nat \ {0},
         NEW i \in DOMAIN Left(queue, n)
  PROVE  \E k \in DOMAIN queue : queue[k] = Left(queue, n)[i]
<1> DEFINE c == IF n < Len(queue) THEN n ELSE Len(queue)
<1>1. c \in Nat /\ c <= Len(queue) /\ Len(queue) \in Nat /\ DOMAIN queue = 1..Len(queue)
  OBVIOUS
<1>2. Left(queue, n) = SubSeq(queue, c + 1, Len(queue))
  BY DEF Left
<1> HIDE DEF c
<1>3. DOMAIN SubSeq(queue, c + 1, Len(queue)) = 1..(Len(queue) - c)
  BY <1>1
<1>4. i \in 1..(Len(queue) - c)
  BY <1>2, <1>3
<1>5. c + i \in DOMAIN queue /\ SubSeq(queue, c + 1, Len(queue))[i] = queue[c + i]
  BY <1>1, <1>4
<1> QED
  BY <1>2, <1>5

\* The worker that pops a batch answers for what it leaves in the shard.
LEMMA WakeCollect ==
  ASSUME WakeInv, TokenInv', WakeTypes', NEW w \in Workers, CollectBatch(w)
  PROVE  WakeInv'
<1> DEFINE t == wshard[w]
<1> DEFINE left == [l \in Lanes |-> Left(lanes[t][l], quota[l])]
<1> DEFINE more == HasWork(left)
<1>1. /\ TokenTypes /\ SingleAnnouncement /\ WakeTypes /\ CallersQueued
      /\ WorkIsReady /\ ReadyIsHeld
  BY DEF WakeInv, TokenInv
<1>2. t \in Shards /\ quota \in [Lanes -> Nat \ {0}] /\ more \in BOOLEAN
  BY <1>1, QuotasAssumption DEF TokenTypes, WakeTypes, HasWork
<1>3. /\ wpc[w] = "collect"
      /\ lanes' = [lanes EXCEPT ![t] = left]
      /\ ready' = [ready EXCEPT ![t] = @ /\ more]
      /\ wmore' = [wmore EXCEPT ![w] = more]
      /\ \E pc \in {"check", "requeue", "loop"} :
            /\ wpc' = [wpc EXCEPT ![w] = pc]
            /\ pc = "loop" => ~more
      /\ UNCHANGED <<workerCtx, readyCh, spc, result, wshard>>
  BY <1>2, Zenon DEF CollectBatch, AfterBatch, callVars
<1>4. \A l \in Lanes : \A i \in DOMAIN left[l] :
         \E k \in DOMAIN lanes[t][l] : lanes[t][l][k] = left[l][i]
  BY <1>1, <1>2, LeftElements DEF WakeTypes
<1> HIDE DEF left
<1>5. lanes'[t] = left /\ \A s \in Shards \ {t} : lanes'[s] = lanes[s]
  BY <1>1, <1>2, <1>3 DEF WakeTypes
<1>6. WorkerHolds(w, t) /\ ready[t]
  BY <1>1, <1>2, <1>3 DEF WorkerHolds, SingleAnnouncement, Held
<1>7. \A k \in Jobs : JobShard(k) \in Shards /\ JobLane[k] \in Lanes
  BY JobShardType, JobsAssumption
<1>8. \A k \in Jobs : JobShard(k) # t => (Queued(k)' <=> Queued(k))
  BY <1>5, <1>7 DEF Queued
<1>9. \A k \in Jobs : Queued(k)' => Queued(k)
  <2> SUFFICES ASSUME NEW k \in Jobs, Queued(k)', JobShard(k) = t PROVE Queued(k)
    BY <1>8
  <2>1. PICK i \in DOMAIN left[JobLane[k]] : left[JobLane[k]][i] = k
    BY <1>5 DEF Queued
  <2> QED
    BY <1>4, <1>7, <2>1 DEF Queued
<1>10. \A k \in Jobs : spc[k] \in {"send", "trySend"} => JobShard(k) # t
  BY <1>1, <1>2, <1>6 DEF SingleAnnouncement, CallerHolds
<1>11. CallersQueued'
  BY <1>1, <1>3, <1>8, <1>9, <1>10 DEF CallersQueued
<1>12. ready'[t] = more /\ \A s \in Shards \ {t} : ready'[s] = ready[s]
  BY <1>1, <1>2, <1>3, <1>6 DEF TokenTypes
<1>13. WorkIsReady'
  <2>1. HasWork(lanes[t])' <=> more
    BY <1>3, <1>5 DEF HasWork
  <2>2. \A s \in Shards \ {t} : HasWork(lanes[s])' <=> HasWork(lanes[s])
    BY <1>5 DEF HasWork
  <2> HIDE DEF more
  <2> QED
    BY <1>1, <1>2, <1>3, <1>12, <2>1, <2>2 DEF WorkIsReady
<1>14. more => WorkerHolds(w, t)'
  BY <1>1, <1>2, <1>3 DEF WorkerHolds, TokenTypes
<1>15. \A s \in Shards \ {t} : Held(s) => Held(s)'
  <2>1. \A v \in Workers, s \in Shards \ {t} : WorkerHolds(v, s) => WorkerHolds(v, s)'
    BY <1>1, <1>2, <1>3 DEF WorkerHolds, TokenTypes
  <2> QED
    BY <1>3, <2>1 DEF Held, InChannel, CallerHolds
<1>16. \A s \in Shards \ {t} : Excused(s) => Excused(s)'
  BY <1>3, <1>8 DEF Excused, Orphan, CtxDone
<1>17. ReadyIsHeld'
  <2> SUFFICES ASSUME NEW s \in Shards, ready'[s] PROVE Held(s)' \/ Excused(s)'
    BY DEF ReadyIsHeld
  <2>1. CASE s = t
    <3>1. WorkerHolds(w, s)'
      BY <1>3, <1>12, <1>14, <2>1 DEF WorkerHolds
    <3> QED
      BY <3>1 DEF Held
  <2>2. CASE s # t
    BY <1>1, <1>12, <1>15, <1>16, <2>2 DEF ReadyIsHeld
  <2> QED
    BY <2>1, <2>2
<1> QED
  BY <1>11, <1>13, <1>17 DEF WakeInv

\* A worker's other steps never drop a shard while the workers' context lives.
LEMMA WakeWorker ==
  ASSUME WakeInv, TokenInv', WakeTypes', NEW w \in Workers, WorkerNext(w)
  PROVE  WakeInv'
<1>1. TokenTypes /\ SingleAnnouncement
  BY DEF WakeInv, TokenInv
<1>2. CASE CollectBatch(w)
  BY <1>2, WakeCollect
<1>3. CASE ~CollectBatch(w)
  <2>1. UNCHANGED <<workerCtx, lanes, ready, spc, result, wmore>>
    BY <1>3
    DEF WorkerNext, Receive, WorkerExit, RunJob, FinishJob, AbandonBatch, Requeue,
        RequeueCancelled, schedVars, callVars
  <2>2. \A j \in Jobs, s \in Shards : CallerHolds(j, s) <=> CallerHolds(j, s)'
    BY <2>1 DEF CallerHolds
  <2>3. CASE Receive(w)
    <3>1. /\ readyCh \in Seq(Shards) /\ readyCh # <<>> /\ readyCh' = Tail(readyCh)
          /\ wpc[w] = "loop"
          /\ wpc' = [wpc EXCEPT ![w] = "collect"]
          /\ wshard' = [wshard EXCEPT ![w] = Head(readyCh)]
      BY <1>1, <2>3 DEF Receive, TokenTypes
    <3>2. \A s \in Shards : s = Head(readyCh) => WorkerHolds(w, s)'
      BY <1>1, <3>1 DEF WorkerHolds, TokenTypes
    <3>3. \A v \in Workers, s \in Shards : WorkerHolds(v, s) => WorkerHolds(v, s)'
      BY <1>1, <2>1, <3>1 DEF WorkerHolds, TokenTypes
    <3>4. \A s \in Shards : InChannel(s) => InChannel(s)' \/ s = Head(readyCh)
      <4> SUFFICES ASSUME NEW i \in 1..Len(readyCh), i # 1
                   PROVE  \E k \in DOMAIN readyCh' : readyCh'[k] = readyCh[i]
        BY <3>1 DEF InChannel
      <4>1. i - 1 \in DOMAIN readyCh' /\ readyCh'[i - 1] = readyCh[i]
        BY <3>1
      <4> QED
        BY <4>1
    <3>5. \A s \in Shards : Held(s) => Held(s)'
      BY <2>2, <3>2, <3>3, <3>4 DEF Held
    <3> QED
      BY <2>1, <3>5, WakeFrame DEF CtxDone
  <2>4. CASE Requeue(w)
    <3> DEFINE t == wshard[w]
    <3>1. /\ readyCh' = Append(readyCh, t) /\ wpc[w] = "requeue"
          /\ wpc' = [wpc EXCEPT ![w] = "loop"] /\ wshard' = wshard
      BY <2>4 DEF Requeue
    <3>2. readyCh \in Seq(Shards) /\ t \in Shards
      BY <1>1 DEF TokenTypes
    <3>3. \A v \in Workers, s \in Shards : WorkerHolds(v, s) => WorkerHolds(v, s)' \/ s = t
      BY <1>1, <2>1, <3>1 DEF WorkerHolds, TokenTypes
    <3> HIDE DEF t
    <3>4. \A s : (\E i \in DOMAIN Append(readyCh, t) : Append(readyCh, t)[i] = s)
                 <=> (\E i \in DOMAIN readyCh : readyCh[i] = s) \/ s = t
      BY <3>2, AppendElements
    <3>5. \A s \in Shards : InChannel(s)' <=> InChannel(s) \/ s = t
      BY <3>1, <3>4, Zenon DEF InChannel
    <3>6. \A s \in Shards : Held(s) => Held(s)'
      BY <2>2, <3>3, <3>5 DEF Held
    <3> QED
      BY <2>1, <3>6, WakeFrame DEF CtxDone
  <2>5. CASE WorkerExit(w) \/ RunJob(w) \/ FinishJob(w) \/ AbandonBatch(w)
    <3>1. /\ UNCHANGED <<readyCh, wshard>>
          /\ \E pc \in {"exited", "check", "running", "requeue", "loop"} :
                /\ wpc' = [wpc EXCEPT ![w] = pc]
                /\ pc \in {"exited", "loop"} => wpc[w] = "loop" \/ ~wmore[w]
                /\ wpc[w] # "collect"
      BY <2>5 DEF WorkerExit, RunJob, FinishJob, AbandonBatch, AfterBatch, schedVars
    <3>2. \A v \in Workers, s \in Shards : WorkerHolds(v, s) => WorkerHolds(v, s)'
      BY <1>1, <2>1, <3>1 DEF WorkerHolds, TokenTypes
    <3>3. \A s \in Shards : Held(s) => Held(s)'
      BY <2>2, <3>1, <3>2 DEF Held, InChannel
    <3> QED
      BY <2>1, <3>3, WakeFrame DEF CtxDone
  <2>6. CASE RequeueCancelled(w)
    <3>1. CtxDone /\ CtxDone'
      BY <2>1, <2>6 DEF RequeueCancelled, CtxDone
    <3> QED
      BY <2>1, <3>1, WakeFrame
  <2> QED
    BY <1>3, <2>3, <2>4, <2>5, <2>6 DEF WorkerNext
<1> QED
  BY <1>2, <1>3

\* Every step keeps the wakeup invariant.
LEMMA WakeStep == WakeInv /\ [Next]_vars => WakeInv'
<1> SUFFICES ASSUME WakeInv, [Next]_vars PROVE WakeInv'
  OBVIOUS
<1>1. TokenInv' /\ WakeTypes'
  BY TokenStep, WakeTypesStep DEF WakeInv
<1>2. ASSUME UNCHANGED <<schedVars, callVars, workerVars>>, CtxDone => CtxDone'
      PROVE  WakeInv'
  <2>1. \A s \in Shards : Held(s) => Held(s)'
    BY <1>2 DEF Held, InChannel, CallerHolds, WorkerHolds, schedVars, callVars, workerVars
  <2> QED
    BY <1>1, <1>2, <2>1, WakeFrame DEF schedVars, callVars
<1>3. CASE UNCHANGED vars
  BY <1>2, <1>3 DEF vars, CtxDone
<1>4. CASE Start
  <2>1. \A w \in Workers, s \in Shards : ~WorkerHolds(w, s)
    BY <1>4 DEF Start, WakeInv, WakeTypes, WorkerHolds
  <2>2. \A s \in Shards : Held(s) => Held(s)'
    BY <1>4, <2>1 DEF Start, Held, InChannel, CallerHolds, schedVars, callVars
  <2>3. ~CtxDone
    BY <1>4 DEF Start, WakeInv, WakeTypes, CtxDone
  <2> QED
    BY <1>1, <1>4, <2>2, <2>3, WakeFrame DEF Start, schedVars, callVars
<1>5. CASE CancelStartCtx
  BY <1>2, <1>5 DEF CancelStartCtx, CtxDone
<1>6. ASSUME NEW j \in Jobs, CallerNext(j) PROVE WakeInv'
  BY <1>1, <1>6, WakeCaller
<1>7. ASSUME NEW w \in Workers, WorkerNext(w) PROVE WakeInv'
  BY <1>1, <1>7, WakeWorker
<1>8. ASSUME NEW u \in Updaters,
             UpdateQuotaPublish(u) \/ \E q \in Quotas : UpdateQuotaCheck(u, q)
      PROVE  WakeInv'
  BY <1>2, <1>8 DEF UpdateQuotaPublish, UpdateQuotaCheck, CtxDone
<1>9. ASSUME NEW p \in Stoppers, StopNext(p) PROVE WakeInv'
  BY <1>2, <1>9
  DEF StopNext, StopBegin, ExpireStop, DrainBegin, DrainScan, DrainVerdict, DrainTick,
      StopCancel, StopReturn, StopReturnOther, CtxDone
<1>10. CASE WaiterDone
  BY <1>2, <1>10 DEF WaiterDone, CtxDone
<1> QED
  BY <1>3, <1>4, <1>5, <1>6, <1>7, <1>8, <1>9, <1>10 DEF Next

\* A new scheduler has nothing queued.
LEMMA WakeInit == Init => WakeInv
<1> SUFFICES ASSUME Init PROVE WakeInv
  OBVIOUS
<1>1. TokenInv
  BY TokenInit
<1>2. \A s \in Shards : lanes[s] = EmptyBatch /\ ~ready[s]
  BY DEF Init
<1>3. \A s \in Shards : ~HasWork(lanes[s])
  BY <1>2 DEF HasWork, EmptyBatch
<1>4. WakeTypes
  BY QuotasAssumption DEF Init, WakeTypes, EmptyBatch
<1>5. CallersQueued /\ WorkIsReady /\ ReadyIsHeld
  BY <1>2, <1>3 DEF Init, CallersQueued, WorkIsReady, ReadyIsHeld
<1> QED
  BY <1>1, <1>4, <1>5 DEF WakeInv

\* A shard with queued work is announced or held by a goroutine that will
\* announce or empty it, unless the workers were cancelled or the caller that
\* owed the announcement gave up on its context: those are the only two ways
\* the scheduler can lose a wakeup, in every configuration.
THEOREM WakeupsNotLost == Spec => []NoLostWakeup
<1>1. WakeInv => NoLostWakeup
  BY DEF WakeInv, WorkIsReady, ReadyIsHeld, Excused, NoLostWakeup
<1> QED
  BY <1>1, WakeInit, WakeStep, PTL DEF Spec

-----------------------------------------------------------------------------
(* The gauges count the popped jobs that have neither finished nor been    *)
(* abandoned, and so they are natural numbers and the type invariant       *)
(* holds, in every configuration.                                          *)

\* The disjoint union of the sets g[v], v in V.
Total(V, g) == UNION {{v} \X g[v] : v \in V}

\* A disjoint union of finitely many finite sets is finite.
LEMMA TotalFinite ==
  ASSUME NEW V, NEW g, IsFiniteSet(V), \A v \in V : IsFiniteSet(g[v])
  PROVE  IsFiniteSet(Total(V, g))
<1> DEFINE part == [v \in V |-> {v} \X g[v]]
<1> DEFINE parts == {{v} \X g[v] : v \in V}
<1>1. part \in Surjection(V, parts)
  BY DEF Surjection
<1>2. IsFiniteSet(parts)
  <2> HIDE DEF part, parts
  <2> QED
    BY <1>1, FS_Surjection
<1>3. \A v \in V : IsFiniteSet({v} \X g[v])
  BY FS_Singleton, FS_Product
<1>4. \A t \in parts : IsFiniteSet(t)
  BY <1>3
<1> QED
  BY <1>2, <1>4, FS_UNION DEF Total

\* Changing one of the sets changes the size of the union by the difference.
LEMMA TotalChange ==
  ASSUME NEW V, NEW g, NEW h, NEW w \in V, IsFiniteSet(V),
         \A v \in V : IsFiniteSet(g[v]), IsFiniteSet(h[w]),
         \A v \in V \ {w} : h[v] = g[v]
  PROVE  /\ Cardinality(Total(V, h)) =
              Cardinality(Total(V, g)) - Cardinality(g[w]) + Cardinality(h[w])
         /\ Cardinality(Total(V, g)) \in Nat
         /\ Cardinality(Total(V, h)) \in Nat
<1> DEFINE rest == Total(V \ {w}, g)
<1> DEFINE gw == {w} \X g[w]
<1> DEFINE hw == {w} \X h[w]
<1>1. Total(V, g) = rest \cup gw /\ Total(V, h) = rest \cup hw
  BY DEF Total
<1>2. rest \cap gw = {} /\ rest \cap hw = {}
  BY DEF Total
<1>3. IsFiniteSet(rest)
  <2>1. IsFiniteSet(V \ {w}) /\ \A v \in V \ {w} : IsFiniteSet(g[v])
    BY FS_RemoveElement
  <2> QED
    BY <2>1, TotalFinite
<1>4. IsFiniteSet(g[w]) /\ IsFiniteSet(h[w]) /\ IsFiniteSet({w}) /\ Cardinality({w}) = 1
  BY FS_Singleton
<1>5. /\ IsFiniteSet(gw) /\ Cardinality(gw) = 1 * Cardinality(g[w])
      /\ IsFiniteSet(hw) /\ Cardinality(hw) = 1 * Cardinality(h[w])
  BY <1>4, FS_Product
<1>6. /\ Cardinality(g[w]) \in Nat /\ Cardinality(h[w]) \in Nat /\ Cardinality(rest) \in Nat
  BY <1>3, <1>4, FS_CardinalityType
<1> HIDE DEF rest, gw, hw
<1>7. /\ Cardinality(rest \cup gw) = Cardinality(rest) + Cardinality(gw) - Cardinality({})
      /\ Cardinality(rest \cup hw) = Cardinality(rest) + Cardinality(hw) - Cardinality({})
  BY <1>2, <1>3, <1>5, FS_Union
<1>8. Cardinality({}) = 0
  BY FS_EmptySet
<1> QED
  BY <1>1, <1>5, <1>6, <1>7, <1>8

-----------------------------------------------------------------------------
Batches == [Lanes -> Seq(Jobs)]

\* The sets the gauges count, by worker.
AllSlots == [w \in Workers |-> BatchSlots(wbatch[w])]
ShardSlots(s) == [w \in Workers |-> IF wshard[w] = s THEN BatchSlots(wbatch[w]) ELSE {}]
LaneSlots(l) == [w \in Workers |-> 1..Len(wbatch[w][l])]

\* The lengths of a batch's lists, as sets of positions.
LEMMA Positions ==
  ASSUME NEW q \in Seq(Jobs)
  PROVE  IsFiniteSet(1..Len(q)) /\ Cardinality(1..Len(q)) = Len(q) /\ Len(q) \in Nat
<1>1. Len(q) \in Nat
  OBVIOUS
<1> DEFINE n == Len(q)
<1>2. n \in Int /\ 1 \in Int
  BY <1>1
<1> HIDE DEF n
<1>3. IsFiniteSet(1..n) /\ Cardinality(1..n) = IF 1 > n THEN 0 ELSE n - 1 + 1
  BY <1>2, FS_Interval
<1>4. n \in Nat
  BY <1>1 DEF n
<1>5. Cardinality(1..n) = n
  BY <1>3, <1>4
<1> QED
  BY <1>3, <1>4, <1>5 DEF n

\* There are finitely many lanes.
LEMMA LanesFinite == IsFiniteSet(Lanes) /\ Lanes \subseteq Nat
  BY FS_Interval, SizesAssumption DEF Lanes

\* A batch is finite, and replacing one of its lists changes its size by the
\* difference of the lengths.
LEMMA BatchFinite ==
  ASSUME NEW b \in Batches
  PROVE  IsFiniteSet(BatchSlots(b)) /\ BatchSize(b) \in Nat
<1> DEFINE g == [l \in Lanes |-> 1..Len(b[l])]
<1>1. BatchSlots(b) = Total(Lanes, g)
  BY DEF BatchSlots, Total
<1>2. \A l \in Lanes : IsFiniteSet(g[l])
  BY Positions DEF Batches
<1> HIDE DEF g
<1>3. IsFiniteSet(BatchSlots(b))
  BY <1>1, <1>2, LanesFinite, TotalFinite
<1> QED
  BY <1>3, FS_CardinalityType DEF BatchSize

\* An empty batch has no slot.
LEMMA EmptySlots ==
  ASSUME NEW b \in Batches, ~HasWork(b)
  PROVE  BatchSlots(b) = {} /\ BatchSize(b) = 0 /\ \A l \in Lanes : Len(b[l]) = 0
<1>1. \A l \in Lanes : b[l] = <<>> /\ Len(b[l]) = 0
  BY DEF HasWork, Batches
<1>2. BatchSlots(b) = {}
  BY <1>1 DEF BatchSlots
<1> QED
  BY <1>1, <1>2, FS_EmptySet DEF BatchSize

\* A batch with work has a first lane, and its list is not empty.
LEMMA FirstLaneExists ==
  ASSUME NEW b \in Batches, HasWork(b)
  PROVE  FirstLane(b) \in Lanes /\ b[FirstLane(b)] # <<>>
<1> DEFINE T == {l \in Lanes : b[l] # <<>>}
<1>1. T \subseteq Nat /\ T # {}
  BY LanesFinite DEF HasWork
<1>2. \E l \in T : \A m \in T : l <= m
  <2> HIDE DEF T
  <2> QED
    BY <1>1, LeastOf
<1>3. \E l \in Lanes : b[l] # <<>> /\ \A m \in Lanes : b[m] # <<>> => l <= m
  BY <1>2
<1> QED
  BY <1>3 DEF FirstLane

\* Taking the head off one list takes one off the batch.
LEMMA TailSize ==
  ASSUME NEW b \in Batches, NEW l \in Lanes, b[l] # <<>>
  PROVE  LET rest == [b EXCEPT ![l] = Tail(@)]
         IN  /\ rest \in Batches
             /\ BatchSize(rest) = BatchSize(b) - 1
             /\ \A m \in Lanes : Len(rest[m]) = IF m = l THEN Len(b[m]) - 1 ELSE Len(b[m])
<1> DEFINE rest == [b EXCEPT ![l] = Tail(@)]
<1> DEFINE g == [m \in Lanes |-> 1..Len(b[m])]
<1> DEFINE h == [m \in Lanes |-> 1..Len(rest[m])]
<1>1. b[l] \in Seq(Jobs) /\ Tail(b[l]) \in Seq(Jobs) /\ Len(Tail(b[l])) = Len(b[l]) - 1
  BY DEF Batches
<1>2. rest \in Batches
  BY <1>1 DEF Batches
<1>3. \A m \in Lanes : Len(rest[m]) = IF m = l THEN Len(b[m]) - 1 ELSE Len(b[m])
  BY <1>1 DEF Batches
<1>4. BatchSlots(b) = Total(Lanes, g) /\ BatchSlots(rest) = Total(Lanes, h)
  BY DEF BatchSlots, Total
<1>5. \A m \in Lanes : /\ IsFiniteSet(g[m]) /\ Cardinality(g[m]) = Len(b[m])
                       /\ IsFiniteSet(h[m]) /\ Cardinality(h[m]) = Len(rest[m])
                       /\ Len(b[m]) \in Nat /\ Len(rest[m]) \in Nat
  BY <1>2, Positions DEF Batches
<1>6. \A m \in Lanes \ {l} : h[m] = g[m]
  BY <1>3
<1> HIDE DEF g, h, rest
<1>7. /\ Cardinality(Total(Lanes, h)) =
           Cardinality(Total(Lanes, g)) - Cardinality(g[l]) + Cardinality(h[l])
      /\ Cardinality(Total(Lanes, g)) \in Nat
  BY <1>5, <1>6, LanesFinite, TotalChange
<1>8. BatchSize(rest) = BatchSize(b) - 1
  BY <1>3, <1>4, <1>5, <1>7 DEF BatchSize
<1> QED
  BY <1>2, <1>3, <1>8 DEF rest

-----------------------------------------------------------------------------
\* What the gauges need besides their exactness: a worker has jobs in its
\* batch exactly while it is in the run loop, so the batch that popping
\* replaces is empty, and a worker that changes its shard counts for none.
GaugeTypes ==
  /\ wbatch \in [Workers -> Batches]
  /\ shardInflight \in [Shards -> Nat]
  /\ laneInflight \in [Lanes -> Nat]
  /\ inflight \in Nat
  /\ \A w \in Workers : HasWork(wbatch[w]) <=> wpc[w] \in {"check", "running"}

GaugeInv == WakeInv /\ GaugeTypes /\ GaugesExact

\* The gauges as sizes of disjoint unions over the workers.
GaugesAsTotals ==
  /\ inflight = Cardinality(Total(Workers, AllSlots))
  /\ \A s \in Shards : shardInflight[s] = Cardinality(Total(Workers, ShardSlots(s)))
  /\ \A l \in Lanes : laneInflight[l] = Cardinality(Total(Workers, LaneSlots(l)))

\* GaugesExact and GaugesAsTotals say the same.
LEMMA ExactIsTotals == GaugesExact <=> GaugesAsTotals
<1>1. UNION {{w} \X BatchSlots(wbatch[w]) : w \in Workers} = Total(Workers, AllSlots)
  BY DEF Total, AllSlots
<1>2. \A s \in Shards :
        UNION {{w} \X BatchSlots(wbatch[w]) : w \in {v \in Workers : wshard[v] = s}}
          = Total(Workers, ShardSlots(s))
  BY DEF Total, ShardSlots
<1>3. \A l \in Lanes :
        UNION {{w} \X (1..Len(wbatch[w][l])) : w \in Workers} = Total(Workers, LaneSlots(l))
  BY DEF Total, LaneSlots
<1> QED
  BY <1>1, <1>2, <1>3 DEF GaugesExact, GaugesAsTotals

\* A worker that replaces its batch and corrects the gauges by the difference
\* keeps them exact.
LEMMA BatchStep ==
  ASSUME GaugeTypes, GaugesExact, wshard \in [Workers -> Shards],
         NEW w \in Workers, NEW b \in Batches,
         wbatch' = [wbatch EXCEPT ![w] = b],
         wshard' = wshard,
         inflight' = inflight - BatchSize(wbatch[w]) + BatchSize(b),
         \A s \in Shards : shardInflight'[s] =
            IF s = wshard[w] THEN shardInflight[s] - BatchSize(wbatch[w]) + BatchSize(b)
            ELSE shardInflight[s],
         \A l \in Lanes : laneInflight'[l] = laneInflight[l] - Len(wbatch[w][l]) + Len(b[l])
  PROVE  /\ GaugesExact'
         /\ inflight' \in Nat
         /\ \A s \in Shards : shardInflight'[s] \in Nat
         /\ \A l \in Lanes : laneInflight'[l] \in Nat
<1>1. GaugesAsTotals
  BY ExactIsTotals
<1>2. IsFiniteSet(Workers) /\ \A v \in Workers : wbatch[v] \in Batches
  BY FiniteAssumption DEF GaugeTypes
<1>3. wbatch'[w] = b /\ \A v \in Workers \ {w} : wbatch'[v] = wbatch[v]
  BY DEF GaugeTypes
<1>4. /\ IsFiniteSet(BatchSlots(b)) /\ \A v \in Workers : IsFiniteSet(BatchSlots(wbatch[v]))
      /\ BatchSize(b) \in Nat /\ BatchSize(wbatch[w]) \in Nat
  BY <1>2, BatchFinite
<1>5. /\ inflight' = Cardinality(Total(Workers, AllSlots'))
      /\ inflight' \in Nat
  <2> DEFINE g == AllSlots
  <2> DEFINE h == AllSlots'
  <2>1. /\ \A v \in Workers : IsFiniteSet(g[v])
        /\ h[w] = BatchSlots(b) /\ g[w] = BatchSlots(wbatch[w])
        /\ \A v \in Workers \ {w} : h[v] = g[v]
    BY <1>3, <1>4 DEF AllSlots
  <2>2. IsFiniteSet(h[w]) /\ inflight = Cardinality(Total(Workers, g))
    BY <1>1, <1>4, <2>1 DEF GaugesAsTotals
  <2> HIDE DEF g, h
  <2>3. /\ Cardinality(Total(Workers, h)) =
             Cardinality(Total(Workers, g)) - Cardinality(g[w]) + Cardinality(h[w])
        /\ Cardinality(Total(Workers, h)) \in Nat
    BY <1>2, <2>1, <2>2, TotalChange
  <2>4. inflight' = Cardinality(Total(Workers, h)) /\ inflight' \in Nat
    BY <2>1, <2>2, <2>3 DEF BatchSize
  <2> QED
    BY <2>4 DEF h
<1>6. ASSUME NEW s \in Shards
      PROVE  /\ shardInflight'[s] = Cardinality(Total(Workers, ShardSlots(s)'))
             /\ shardInflight'[s] \in Nat
  <2> DEFINE g == ShardSlots(s)
  <2> DEFINE h == ShardSlots(s)'
  <2>0. IsFiniteSet({}) /\ Cardinality({}) = 0
    BY FS_EmptySet
  <2>1. /\ \A v \in Workers : IsFiniteSet(g[v])
        /\ h[w] = (IF wshard[w] = s THEN BatchSlots(b) ELSE {})
        /\ g[w] = (IF wshard[w] = s THEN BatchSlots(wbatch[w]) ELSE {})
        /\ \A v \in Workers \ {w} : h[v] = g[v]
    BY <1>3, <1>4, <2>0 DEF ShardSlots
  <2>2. IsFiniteSet(h[w]) /\ shardInflight[s] = Cardinality(Total(Workers, g))
    BY <1>1, <1>4, <2>0, <2>1 DEF GaugesAsTotals
  <2> HIDE DEF g, h
  <2>3. /\ Cardinality(Total(Workers, h)) =
             Cardinality(Total(Workers, g)) - Cardinality(g[w]) + Cardinality(h[w])
        /\ Cardinality(Total(Workers, h)) \in Nat
        /\ Cardinality(Total(Workers, g)) \in Nat
    BY <1>2, <2>1, <2>2, TotalChange
  <2>4. shardInflight'[s] = Cardinality(Total(Workers, h)) /\ shardInflight'[s] \in Nat
    <3>1. CASE wshard[w] = s
      BY <2>1, <2>2, <2>3, <3>1 DEF BatchSize
    <3>2. CASE wshard[w] # s
      BY <2>0, <2>1, <2>2, <2>3, <3>2
    <3> QED
      BY <3>1, <3>2
  <2> QED
    BY <2>4 DEF h
<1>7. ASSUME NEW l \in Lanes
      PROVE  /\ laneInflight'[l] = Cardinality(Total(Workers, LaneSlots(l)'))
             /\ laneInflight'[l] \in Nat
  <2> DEFINE g == LaneSlots(l)
  <2> DEFINE h == LaneSlots(l)'
  <2>0. b[l] \in Seq(Jobs) /\ \A v \in Workers : wbatch[v][l] \in Seq(Jobs)
    BY <1>2 DEF Batches
  <2>1. /\ \A v \in Workers : IsFiniteSet(1..Len(wbatch[v][l]))
        /\ Cardinality(1..Len(wbatch[w][l])) = Len(wbatch[w][l]) /\ Len(wbatch[w][l]) \in Nat
        /\ IsFiniteSet(1..Len(b[l])) /\ Cardinality(1..Len(b[l])) = Len(b[l]) /\ Len(b[l]) \in Nat
    BY <2>0, Positions
  <2>2. /\ \A v \in Workers : g[v] = 1..Len(wbatch[v][l])
        /\ h[w] = 1..Len(b[l])
        /\ \A v \in Workers \ {w} : h[v] = g[v]
    BY <1>3 DEF LaneSlots
  <2>3. laneInflight[l] = Cardinality(Total(Workers, g))
    BY <1>1 DEF GaugesAsTotals
  <2> HIDE DEF g, h
  <2>4. /\ \A v \in Workers : IsFiniteSet(g[v])
        /\ IsFiniteSet(h[w])
        /\ \A v \in Workers \ {w} : h[v] = g[v]
    BY <2>1, <2>2
  <2>5. /\ Cardinality(Total(Workers, h)) =
             Cardinality(Total(Workers, g)) - Cardinality(g[w]) + Cardinality(h[w])
        /\ Cardinality(Total(Workers, h)) \in Nat
    BY <1>2, <2>3, <2>4, TotalChange
  <2>6. laneInflight'[l] = Cardinality(Total(Workers, h)) /\ laneInflight'[l] \in Nat
    BY <2>1, <2>2, <2>3, <2>5
  <2> QED
    BY <2>6 DEF h
<1>8. GaugesAsTotals'
  BY <1>5, <1>6, <1>7 DEF GaugesAsTotals
<1>9. GaugesExact'
  <2>1. (GaugesExact <=> GaugesAsTotals)'
    BY ExactIsTotals, PTL
  <2> QED
    BY <1>8, <2>1
<1> QED
  BY <1>5, <1>6, <1>7, <1>9

\* Popping a batch: the batch it replaces is empty, and the gauges grow by
\* what is popped.
LEMMA GaugeCollect ==
  ASSUME GaugeInv, NEW w \in Workers, CollectBatch(w)
  PROVE  GaugeTypes' /\ GaugesExact'
<1> DEFINE t == wshard[w]
<1> DEFINE taken == [l \in Lanes |-> Taken(lanes[t][l], quota[l])]
<1>1. /\ GaugeTypes /\ GaugesExact /\ wshard \in [Workers -> Shards] /\ t \in Shards
      /\ wpc \in [Workers -> {"none", "loop", "collect", "check", "running", "requeue", "exited"}]
      /\ lanes \in [Shards -> [Lanes -> Seq(Jobs)]] /\ quota \in [Lanes -> Nat \ {0}]
  BY QuotasAssumption DEF GaugeInv, WakeInv, TokenInv, TokenTypes, WakeTypes
<1>2. taken \in Batches
  BY <1>1, PopTypes DEF Batches
<1>3. /\ wpc[w] = "collect"
      /\ wbatch' = [wbatch EXCEPT ![w] = taken]
      /\ \E pc \in {"check", "requeue", "loop"} :
            wpc' = [wpc EXCEPT ![w] = pc] /\ (pc = "check" <=> HasWork(taken))
      /\ inflight' = inflight + BatchSize(taken)
      /\ shardInflight' = [shardInflight EXCEPT ![t] = @ + BatchSize(taken)]
      /\ laneInflight' = [l \in Lanes |-> laneInflight[l] + Len(taken[l])]
      /\ wshard' = wshard
  BY Zenon DEF CollectBatch, AfterBatch
<1> HIDE DEF taken
<1>4. wbatch[w] \in Batches /\ ~HasWork(wbatch[w])
  BY <1>1, <1>3 DEF GaugeTypes
<1>5. BatchSize(wbatch[w]) = 0 /\ \A l \in Lanes : Len(wbatch[w][l]) = 0
  BY <1>4, EmptySlots
<1>6. BatchSize(taken) \in Nat /\ \A l \in Lanes : Len(taken[l]) \in Nat
  BY <1>2, BatchFinite DEF Batches
<1>7. inflight' = inflight - BatchSize(wbatch[w]) + BatchSize(taken)
  BY <1>1, <1>3, <1>5, <1>6 DEF GaugeTypes
<1>8. \A s \in Shards : shardInflight'[s] =
         IF s = wshard[w] THEN shardInflight[s] - BatchSize(wbatch[w]) + BatchSize(taken)
         ELSE shardInflight[s]
  BY <1>1, <1>3, <1>5, <1>6 DEF GaugeTypes
<1>9. \A l \in Lanes : laneInflight'[l] = laneInflight[l] - Len(wbatch[w][l]) + Len(taken[l])
  BY <1>1, <1>3, <1>5, <1>6 DEF GaugeTypes
<1>10. /\ GaugesExact' /\ inflight' \in Nat
       /\ \A s \in Shards : shardInflight'[s] \in Nat
       /\ \A l \in Lanes : laneInflight'[l] \in Nat
  BY <1>1, <1>2, <1>3, <1>7, <1>8, <1>9, BatchStep
<1>11. shardInflight' \in [Shards -> Nat] /\ laneInflight' \in [Lanes -> Nat]
  BY <1>1, <1>3, <1>10 DEF GaugeTypes
<1>12. \A v \in Workers : HasWork(wbatch[v])' <=> wpc'[v] \in {"check", "running"}
  BY <1>1, <1>3 DEF GaugeTypes, HasWork
<1> QED
  BY <1>1, <1>2, <1>3, <1>10, <1>11, <1>12 DEF GaugeTypes

\* A job that returns leaves the batch and the gauges.
LEMMA GaugeFinish ==
  ASSUME GaugeInv, NEW w \in Workers, FinishJob(w)
  PROVE  GaugeTypes' /\ GaugesExact'
<1> DEFINE f == FirstLane(wbatch[w])
<1> DEFINE rest == [wbatch[w] EXCEPT ![f] = Tail(@)]
<1>1. /\ GaugeTypes /\ GaugesExact /\ wshard \in [Workers -> Shards]
      /\ wpc \in [Workers -> {"none", "loop", "collect", "check", "running", "requeue", "exited"}]
  BY DEF GaugeInv, WakeInv, TokenInv, TokenTypes
<1>2. /\ wpc[w] = "running"
      /\ wbatch' = [wbatch EXCEPT ![w] = rest]
      /\ \E pc \in {"check", "requeue", "loop"} :
            wpc' = [wpc EXCEPT ![w] = pc] /\ (pc = "check" <=> HasWork(rest))
      /\ inflight' = inflight - 1
      /\ shardInflight' = [shardInflight EXCEPT ![wshard[w]] = @ - 1]
      /\ laneInflight' = [laneInflight EXCEPT ![f] = @ - 1]
      /\ wshard' = wshard
  BY Zenon DEF FinishJob, AfterBatch
<1>3. wbatch[w] \in Batches /\ HasWork(wbatch[w])
  BY <1>1, <1>2 DEF GaugeTypes
<1>4. f \in Lanes /\ wbatch[w][f] # <<>>
  BY <1>3, FirstLaneExists
<1> HIDE DEF f
<1>5. /\ rest \in Batches
      /\ BatchSize(rest) = BatchSize(wbatch[w]) - 1
      /\ \A m \in Lanes : Len(rest[m]) = IF m = f THEN Len(wbatch[w][m]) - 1
                                          ELSE Len(wbatch[w][m])
  BY <1>3, <1>4, TailSize
<1> HIDE DEF rest
<1>6. BatchSize(wbatch[w]) \in Nat /\ \A m \in Lanes : Len(wbatch[w][m]) \in Nat
  BY <1>3, BatchFinite DEF Batches
<1>7. inflight' = inflight - BatchSize(wbatch[w]) + BatchSize(rest)
  BY <1>1, <1>2, <1>5, <1>6 DEF GaugeTypes
<1>8. \A s \in Shards : shardInflight'[s] =
         IF s = wshard[w] THEN shardInflight[s] - BatchSize(wbatch[w]) + BatchSize(rest)
         ELSE shardInflight[s]
  BY <1>1, <1>2, <1>5, <1>6 DEF GaugeTypes
<1>9. \A l \in Lanes : laneInflight'[l] = laneInflight[l] - Len(wbatch[w][l]) + Len(rest[l])
  <2> SUFFICES ASSUME NEW l \in Lanes
               PROVE  laneInflight'[l] = laneInflight[l] - Len(wbatch[w][l]) + Len(rest[l])
    OBVIOUS
  <2>1. laneInflight'[l] = IF l = f THEN laneInflight[l] - 1 ELSE laneInflight[l]
    BY <1>1, <1>2, <1>4 DEF GaugeTypes
  <2>2. laneInflight[l] \in Nat /\ Len(wbatch[w][l]) \in Nat
    BY <1>1, <1>6 DEF GaugeTypes
  <2>3. Len(rest[l]) = IF l = f THEN Len(wbatch[w][l]) - 1 ELSE Len(wbatch[w][l])
    BY <1>5
  <2> QED
    BY <2>1, <2>2, <2>3
<1>10. /\ GaugesExact' /\ inflight' \in Nat
       /\ \A s \in Shards : shardInflight'[s] \in Nat
       /\ \A l \in Lanes : laneInflight'[l] \in Nat
  BY <1>1, <1>2, <1>5, <1>7, <1>8, <1>9, BatchStep
<1>11. shardInflight' \in [Shards -> Nat] /\ laneInflight' \in [Lanes -> Nat]
  BY <1>1, <1>2, <1>10 DEF GaugeTypes
<1>12. \A v \in Workers : HasWork(wbatch[v])' <=> wpc'[v] \in {"check", "running"}
  BY <1>1, <1>2 DEF GaugeTypes, HasWork
<1> QED
  BY <1>1, <1>2, <1>5, <1>10, <1>11, <1>12 DEF GaugeTypes

\* An abandoned batch leaves the gauges as a whole.
LEMMA GaugeAbandon ==
  ASSUME GaugeInv, NEW w \in Workers, AbandonBatch(w)
  PROVE  GaugeTypes' /\ GaugesExact'
<1>1. /\ GaugeTypes /\ GaugesExact /\ wshard \in [Workers -> Shards]
      /\ wpc \in [Workers -> {"none", "loop", "collect", "check", "running", "requeue", "exited"}]
  BY DEF GaugeInv, WakeInv, TokenInv, TokenTypes
<1>2. /\ wbatch' = [wbatch EXCEPT ![w] = EmptyBatch]
      /\ \E pc \in {"requeue", "loop"} : wpc' = [wpc EXCEPT ![w] = pc]
      /\ inflight' = inflight - BatchSize(wbatch[w])
      /\ shardInflight' = [shardInflight EXCEPT ![wshard[w]] = @ - BatchSize(wbatch[w])]
      /\ laneInflight' = [l \in Lanes |-> laneInflight[l] - Len(wbatch[w][l])]
      /\ wshard' = wshard
  BY Zenon DEF AbandonBatch, AfterBatch
<1>3. EmptyBatch \in Batches /\ ~HasWork(EmptyBatch)
  BY DEF EmptyBatch, Batches, HasWork
<1>4. BatchSize(EmptyBatch) = 0 /\ \A l \in Lanes : Len(EmptyBatch[l]) = 0
  BY <1>3, EmptySlots
<1>5. wbatch[w] \in Batches
  BY <1>1 DEF GaugeTypes
<1>6. BatchSize(wbatch[w]) \in Nat /\ \A m \in Lanes : Len(wbatch[w][m]) \in Nat
  BY <1>5, BatchFinite DEF Batches
<1>7. inflight' = inflight - BatchSize(wbatch[w]) + BatchSize(EmptyBatch)
  BY <1>1, <1>2, <1>4, <1>6 DEF GaugeTypes
<1>8. \A s \in Shards : shardInflight'[s] =
         IF s = wshard[w] THEN shardInflight[s] - BatchSize(wbatch[w]) + BatchSize(EmptyBatch)
         ELSE shardInflight[s]
  BY <1>1, <1>2, <1>4, <1>6 DEF GaugeTypes
<1>9. \A l \in Lanes : laneInflight'[l] =
         laneInflight[l] - Len(wbatch[w][l]) + Len(EmptyBatch[l])
  BY <1>1, <1>2, <1>4, <1>6 DEF GaugeTypes
<1>10. /\ GaugesExact' /\ inflight' \in Nat
       /\ \A s \in Shards : shardInflight'[s] \in Nat
       /\ \A l \in Lanes : laneInflight'[l] \in Nat
  BY <1>1, <1>2, <1>3, <1>7, <1>8, <1>9, BatchStep
<1>11. shardInflight' \in [Shards -> Nat] /\ laneInflight' \in [Lanes -> Nat]
  BY <1>1, <1>2, <1>10 DEF GaugeTypes
<1>12. \A v \in Workers : HasWork(wbatch[v])' <=> wpc'[v] \in {"check", "running"}
  BY <1>1, <1>2, <1>3 DEF GaugeTypes, HasWork
<1> QED
  BY <1>1, <1>2, <1>3, <1>10, <1>11, <1>12 DEF GaugeTypes

\* A worker that receives a shard has no jobs, so it counts for neither the
\* shard it leaves nor the one it gets.
LEMMA GaugeReceive ==
  ASSUME GaugeInv, NEW w \in Workers, Receive(w)
  PROVE  GaugeTypes' /\ GaugesExact'
<1>1. /\ GaugeTypes /\ GaugesExact
      /\ wpc \in [Workers -> {"none", "loop", "collect", "check", "running", "requeue", "exited"}]
      /\ wshard \in [Workers -> Shards]
  BY DEF GaugeInv, WakeInv, TokenInv, TokenTypes
<1>2. /\ wpc[w] = "loop"
      /\ wpc' = [wpc EXCEPT ![w] = "collect"]
      /\ \A v \in Workers \ {w} : wshard'[v] = wshard[v]
      /\ UNCHANGED <<wbatch, inflight, shardInflight, laneInflight>>
  BY <1>1 DEF Receive, gaugeVars
<1>3. wbatch[w] \in Batches /\ ~HasWork(wbatch[w])
  BY <1>1, <1>2 DEF GaugeTypes
<1>4. BatchSlots(wbatch[w]) = {}
  BY <1>3, EmptySlots
<1>5. \A s \in Shards : ShardSlots(s)' = ShardSlots(s)
  BY <1>2, <1>4 DEF ShardSlots
<1>6. GaugesAsTotals
  BY <1>1, ExactIsTotals
<1>7. AllSlots' = AllSlots /\ \A l \in Lanes : LaneSlots(l)' = LaneSlots(l)
  BY <1>2 DEF AllSlots, LaneSlots
<1>8. GaugesAsTotals'
  BY <1>2, <1>5, <1>6, <1>7 DEF GaugesAsTotals
<1>9. GaugesExact'
  <2>1. (GaugesExact <=> GaugesAsTotals)'
    BY ExactIsTotals, PTL
  <2> QED
    BY <1>8, <2>1
<1>10. GaugeTypes'
  BY <1>1, <1>2 DEF GaugeTypes
<1> QED
  BY <1>9, <1>10

\* Every step keeps the gauges exact.
LEMMA GaugeStep == GaugeInv /\ [Next]_vars => GaugeInv'
<1> SUFFICES ASSUME GaugeInv, [Next]_vars PROVE GaugeInv'
  OBVIOUS
<1>1. WakeInv'
  BY WakeStep DEF GaugeInv
<1>2. ASSUME UNCHANGED <<wshard, wbatch, gaugeVars>>,
             \A w \in Workers : wpc'[w] \in {"check", "running"} <=> wpc[w] \in {"check", "running"}
      PROVE  GaugeTypes' /\ GaugesExact'
  <2>1. GaugeTypes'
    BY <1>2 DEF GaugeInv, GaugeTypes, gaugeVars, HasWork
  <2>2. GaugesExact'
    BY <1>2 DEF GaugeInv, GaugesExact, gaugeVars, BatchSlots
  <2> QED
    BY <2>1, <2>2
<1>3. ASSUME UNCHANGED <<workerVars, gaugeVars>>
      PROVE  GaugeTypes' /\ GaugesExact'
  BY <1>2, <1>3 DEF workerVars
<1>4. CASE UNCHANGED vars
  BY <1>1, <1>3, <1>4 DEF vars, GaugeInv
<1>5. CASE Start
  <2>1. \A w \in Workers : wpc[w] = "none" /\ wpc'[w] = "loop"
    BY <1>5 DEF Start, GaugeInv, WakeInv, WakeTypes
  <2> QED
    BY <1>1, <1>2, <1>5, <2>1 DEF Start, GaugeInv
<1>6. CASE CancelStartCtx
  BY <1>1, <1>3, <1>6 DEF CancelStartCtx, GaugeInv
<1>7. ASSUME NEW j \in Jobs, CallerNext(j) PROVE GaugeInv'
  <2>1. UNCHANGED <<workerVars, gaugeVars>>
    BY <1>7
    DEF CallerNext, SubmitBegin, CancelCaller, Submit, SubmitSend, SubmitCancelled, TrySubmit,
        EnqueueContinuation, TrySend
  <2> QED
    BY <1>1, <1>3, <2>1 DEF GaugeInv
<1>8. ASSUME NEW w \in Workers, WorkerNext(w) PROVE GaugeInv'
  <2>1. CASE Receive(w)
    BY <1>1, <2>1, GaugeReceive DEF GaugeInv
  <2>2. CASE CollectBatch(w)
    BY <1>1, <2>2, GaugeCollect DEF GaugeInv
  <2>3. CASE FinishJob(w)
    BY <1>1, <2>3, GaugeFinish DEF GaugeInv
  <2>4. CASE AbandonBatch(w)
    BY <1>1, <2>4, GaugeAbandon DEF GaugeInv
  <2>5. CASE WorkerExit(w) \/ RunJob(w) \/ Requeue(w) \/ RequeueCancelled(w)
    <3>1. wpc \in [Workers -> {"none", "loop", "collect", "check", "running", "requeue", "exited"}]
      BY DEF GaugeInv, WakeInv, TokenInv, TokenTypes
    <3>2. UNCHANGED <<wshard, wbatch, gaugeVars>>
      BY <2>5 DEF WorkerExit, RunJob, Requeue, RequeueCancelled
    <3>3. \A v \in Workers :
             wpc'[v] \in {"check", "running"} <=> wpc[v] \in {"check", "running"}
      BY <2>5, <3>1 DEF WorkerExit, RunJob, Requeue, RequeueCancelled
    <3> QED
      BY <1>1, <1>2, <3>2, <3>3 DEF GaugeInv
  <2> QED
    BY <1>8, <2>1, <2>2, <2>3, <2>4, <2>5 DEF WorkerNext
<1>9. ASSUME NEW u \in Updaters,
             UpdateQuotaPublish(u) \/ \E q \in Quotas : UpdateQuotaCheck(u, q)
      PROVE  GaugeInv'
  BY <1>1, <1>3, <1>9 DEF UpdateQuotaPublish, UpdateQuotaCheck, GaugeInv
<1>10. ASSUME NEW p \in Stoppers, StopNext(p) PROVE GaugeInv'
  BY <1>1, <1>3, <1>10
  DEF StopNext, StopBegin, ExpireStop, DrainBegin, DrainScan, DrainVerdict, DrainTick,
      StopCancel, StopReturn, StopReturnOther, GaugeInv
<1>11. CASE WaiterDone
  BY <1>1, <1>3, <1>11 DEF WaiterDone, GaugeInv
<1> QED
  BY <1>4, <1>5, <1>6, <1>7, <1>8, <1>9, <1>10, <1>11 DEF Next

\* A new scheduler has nothing in flight.
LEMMA GaugeInit == Init => GaugeInv
<1> SUFFICES ASSUME Init PROVE GaugeInv
  OBVIOUS
<1>1. WakeInv
  BY WakeInit
<1>2. EmptyBatch \in Batches /\ ~HasWork(EmptyBatch)
  BY DEF EmptyBatch, Batches, HasWork
<1>3. BatchSlots(EmptyBatch) = {} /\ \A l \in Lanes : Len(EmptyBatch[l]) = 0
  BY <1>2, EmptySlots
<1>4. GaugeTypes
  BY <1>2 DEF Init, GaugeTypes
<1>5. \A w \in Workers : wbatch[w] = EmptyBatch
  BY DEF Init
<1>6. UNION {{w} \X BatchSlots(wbatch[w]) : w \in Workers} = {}
  BY <1>3, <1>5
<1>7. \A s \in Shards :
        UNION {{w} \X BatchSlots(wbatch[w]) : w \in {v \in Workers : wshard[v] = s}} = {}
  BY <1>3, <1>5
<1>8. \A l \in Lanes : UNION {{w} \X (1..Len(wbatch[w][l])) : w \in Workers} = {}
  BY <1>3, <1>5
<1>9. Cardinality({}) = 0
  BY FS_EmptySet
<1>10. GaugesExact
  BY <1>6, <1>7, <1>8, <1>9 DEF Init, GaugesExact
<1> QED
  BY <1>1, <1>4, <1>10 DEF GaugeInv

\* The in-flight gauges that isDrained and the diagnostics read equal the
\* number of popped jobs that have neither finished nor been abandoned, in
\* total, by shard and by lane, through every interleaving of the workers.
THEOREM GaugesAreExact == Spec => []GaugesExact
<1>1. GaugeInv => GaugesExact
  BY DEF GaugeInv
<1> QED
  BY <1>1, GaugeInit, GaugeStep, PTL DEF Spec

-----------------------------------------------------------------------------
\* The conjuncts of TypeOK that the gauges' invariant does not hold.
Bounds ==
  /\ \A s \in Shards, l \in Lanes : Len(lanes[s][l]) <= QueueSize
  /\ Len(readyCh) <= ReadyCap

ControlTypes ==
  /\ state \in {"new", "running", "stopping", "stopped"}
  /\ workerCtx \in {"none", "live", "done"}
  /\ callerCtx \in [Jobs -> BOOLEAN]
  /\ stopPc \in [Stoppers -> {"idle", "drain", "scan", "tick", "cancel", "wait", "waitOther",
                               "returned"}]
  /\ stopDrain \in [Stoppers -> BOOLEAN]
  /\ stopCtx \in [Stoppers -> BOOLEAN]
  /\ stopScan \in [Stoppers -> 0..NumShards]
  /\ stopRet \in [Stoppers -> {"none", "nil", "ctx"}]
  /\ drained \in [Stoppers -> BOOLEAN]
  /\ waiter \in {"none", "waiting", "done"}

TypeInv == GaugeInv /\ Bounds /\ ControlTypes

\* The invariant of the proof gives the type invariant.
LEMMA TypeInvImplies == TypeInv => TypeOK
  BY DEF TypeInv, TypeOK, Bounds, ControlTypes, GaugeInv, GaugeTypes, WakeInv, WakeTypes,
         TokenInv, TokenTypes, Batches

\* popN never lengthens a lane.
LEMMA LeftShorter ==
  ASSUME NEW queue \in Seq(Jobs), NEW n \in Nat \ {0}
  PROVE  Len(Left(queue, n)) <= Len(queue)
<1>1. Len(queue) \in Nat /\ Left(queue, n) \in Seq(Jobs)
  BY PopTypes
<1>2. CASE n < Len(queue)
  BY <1>1, <1>2 DEF Left
<1>3. CASE ~(n < Len(queue))
  BY <1>1, <1>3 DEF Left
<1> QED
  BY <1>2, <1>3

\* A push is made only into a lane that is not full, and a send only into a
\* channel that has room.
LEMMA BoundsStep ==
  ASSUME TypeInv, [Next]_vars
  PROVE  Bounds'
<1>1. /\ lanes \in [Shards -> [Lanes -> Seq(Jobs)]] /\ quota \in [Lanes -> Nat \ {0}]
      /\ readyCh \in Seq(Shards) /\ wshard \in [Workers -> Shards]
      /\ Bounds
  BY QuotasAssumption DEF TypeInv, GaugeInv, WakeInv, WakeTypes, TokenInv, TokenTypes
<1>2. ReadyCap \in Nat /\ Len(readyCh) \in Nat /\ QueueSize \in Nat
      /\ \A s \in Shards, l \in Lanes : Len(lanes[s][l]) \in Nat
  BY <1>1, SizesAssumption DEF ReadyCap
<1>3. ASSUME UNCHANGED <<lanes, readyCh>> PROVE Bounds'
  BY <1>1, <1>3 DEF Bounds
<1>4. ASSUME lanes' = lanes, Len(readyCh) < ReadyCap, NEW s, readyCh' = Append(readyCh, s)
      PROVE  Bounds'
  <2>1. Len(readyCh') <= ReadyCap
    <3>1. Len(readyCh') = Len(readyCh) + 1
      BY <1>1, <1>4
    <3> QED
      BY <1>2, <1>4, <3>1 DEF ReadyCap
  <2> QED
    BY <1>1, <1>4, <2>1 DEF Bounds, ReadyCap
<1>5. ASSUME NEW j \in Jobs, NEW sendPc, EnqueueIntoShard(j, sendPc) \/ Reject(j)
      PROVE  Bounds'
  <2> DEFINE t == JobShard(j)
  <2> DEFINE k == JobLane[j]
  <2>1. t \in Shards /\ k \in Lanes
    BY JobShardType, JobsAssumption
  <2>2. \/ UNCHANGED <<lanes, readyCh>>
        \/ /\ lanes' = [lanes EXCEPT ![t][k] = Append(@, j)]
           /\ Len(lanes[t][k]) # QueueSize
           /\ readyCh' = readyCh
    BY <1>5 DEF EnqueueIntoShard, Reject, LaneFull, schedVars
  <2> HIDE DEF t, k
  <2>3. CASE UNCHANGED <<lanes, readyCh>>
    BY <1>3, <2>3
  <2>4. CASE /\ lanes' = [lanes EXCEPT ![t][k] = Append(@, j)]
             /\ Len(lanes[t][k]) # QueueSize
             /\ readyCh' = readyCh
    <3>1. \A s \in Shards, l \in Lanes :
             lanes'[s][l] = IF s = t /\ l = k THEN Append(lanes[s][l], j) ELSE lanes[s][l]
      BY <1>1, <2>1, <2>4
    <3>2. Len(Append(lanes[t][k], j)) = Len(lanes[t][k]) + 1
      BY <1>1, <2>1
    <3>3. Len(lanes[t][k]) + 1 <= QueueSize
      BY <1>1, <1>2, <2>1, <2>4 DEF Bounds
    <3> QED
      BY <1>1, <2>4, <3>1, <3>2, <3>3 DEF Bounds
  <2> QED
    BY <2>2, <2>3, <2>4
<1>6. ASSUME NEW j \in Jobs, CallerNext(j) PROVE Bounds'
  <2>1. CASE Submit(j) \/ TrySubmit(j) \/ EnqueueContinuation(j)
    BY <1>5, <2>1 DEF Submit, TrySubmit, EnqueueContinuation, Enqueue
  <2>2. CASE SubmitSend(j) \/ TrySend(j)
    BY <1>3, <1>4, <2>2 DEF SubmitSend, TrySend
  <2>3. CASE SubmitBegin(j) \/ CancelCaller(j) \/ SubmitCancelled(j)
    BY <1>3, <2>3 DEF SubmitBegin, CancelCaller, SubmitCancelled, schedVars
  <2> QED
    BY <1>6, <2>1, <2>2, <2>3 DEF CallerNext
<1>7. ASSUME NEW w \in Workers, WorkerNext(w) PROVE Bounds'
  <2>1. CASE Receive(w)
    <3>1. readyCh # <<>> /\ readyCh' = Tail(readyCh) /\ lanes' = lanes
      BY <2>1 DEF Receive
    <3>2. Len(readyCh') <= ReadyCap
      BY <1>1, <1>2, <3>1 DEF Bounds
    <3> QED
      BY <1>1, <3>1, <3>2 DEF Bounds, ReadyCap
  <2>2. CASE CollectBatch(w)
    <3> DEFINE t == wshard[w]
    <3>1. t \in Shards /\ readyCh' = readyCh
          /\ lanes' = [lanes EXCEPT ![t] = [l \in Lanes |-> Left(lanes[t][l], quota[l])]]
      BY <1>1, <2>2 DEF CollectBatch
    <3> HIDE DEF t
    <3>2. \A l \in Lanes : /\ Len(Left(lanes[t][l], quota[l])) <= Len(lanes[t][l])
                           /\ Len(Left(lanes[t][l], quota[l])) \in Nat
      BY <1>1, <3>1, LeftShorter, PopTypes
    <3>3. \A s \in Shards, l \in Lanes :
             lanes'[s][l] = IF s = t THEN Left(lanes[t][l], quota[l]) ELSE lanes[s][l]
      BY <1>1, <3>1
    <3>4. \A s \in Shards, l \in Lanes : Len(lanes'[s][l]) <= QueueSize
      BY <1>1, <1>2, <3>1, <3>2, <3>3 DEF Bounds
    <3> QED
      BY <1>1, <3>1, <3>4 DEF Bounds
  <2>3. CASE Requeue(w)
    BY <1>4, <2>3 DEF Requeue
  <2>4. CASE WorkerExit(w) \/ RunJob(w) \/ FinishJob(w) \/ AbandonBatch(w) \/ RequeueCancelled(w)
    BY <1>3, <2>4 DEF WorkerExit, RunJob, FinishJob, AbandonBatch, RequeueCancelled, schedVars
  <2> QED
    BY <1>7, <2>1, <2>2, <2>3, <2>4 DEF WorkerNext
<1>8. CASE \/ UNCHANGED vars \/ Start \/ CancelStartCtx \/ WaiterDone
           \/ \E u \in Updaters : UpdateQuotaPublish(u) \/ \E q \in Quotas : UpdateQuotaCheck(u, q)
           \/ \E p \in Stoppers : StopNext(p)
  <2>1. UNCHANGED schedVars
    BY <1>8
    DEF vars, Start, CancelStartCtx, WaiterDone, UpdateQuotaPublish, UpdateQuotaCheck, StopNext,
        StopBegin, ExpireStop, DrainBegin, DrainScan, DrainVerdict, DrainTick, StopCancel,
        StopReturn, StopReturnOther
  <2> QED
    BY <1>3, <2>1 DEF schedVars
<1> QED
  BY <1>6, <1>7, <1>8 DEF Next

\* Every step keeps the types of the contexts and of the Stop calls.
LEMMA ControlStep ==
  ASSUME ControlTypes, [Next]_vars
  PROVE  ControlTypes'
<1>1. ASSUME UNCHANGED <<state, workerCtx, callerCtx, stopVars>> PROVE ControlTypes'
  BY <1>1 DEF ControlTypes, stopVars
<1>2. CASE \/ UNCHANGED vars \/ Start \/ CancelStartCtx \/ WaiterDone
           \/ \E u \in Updaters : UpdateQuotaPublish(u) \/ \E q \in Quotas : UpdateQuotaCheck(u, q)
  BY <1>2
  DEF vars, Start, CancelStartCtx, WaiterDone, UpdateQuotaPublish, UpdateQuotaCheck,
      ControlTypes, stopVars, callVars
<1>3. ASSUME NEW j \in Jobs, CallerNext(j) PROVE ControlTypes'
  <2>1. /\ UNCHANGED <<state, workerCtx, stopVars>>
        /\ \/ callerCtx' = callerCtx
           \/ \E c \in BOOLEAN : callerCtx' = [callerCtx EXCEPT ![j] = c]
    BY <1>3
    DEF CallerNext, SubmitBegin, CancelCaller, Submit, SubmitSend, SubmitCancelled, TrySubmit,
        EnqueueContinuation, TrySend
  <2> QED
    BY <2>1 DEF ControlTypes, stopVars
<1>4. ASSUME NEW w \in Workers, WorkerNext(w) PROVE ControlTypes'
  <2>1. UNCHANGED <<state, workerCtx, callerCtx, stopVars>>
    BY <1>4
    DEF WorkerNext, Receive, WorkerExit, CollectBatch, RunJob, FinishJob, AbandonBatch, Requeue,
        RequeueCancelled, callVars
  <2> QED
    BY <1>1, <2>1
<1>5. ASSUME NEW p \in Stoppers, StopNext(p) PROVE ControlTypes'
  <2>1. ASSUME NEW drain \in DrainChoices, StopBegin(p, drain) PROVE ControlTypes'
    <3>1. drain \in BOOLEAN
      BY StopAssumption
    <3> QED
      BY <2>1, <3>1 DEF StopBegin, ControlTypes, callVars
  <2>2. CASE ExpireStop(p)
    BY <2>2 DEF ExpireStop, ControlTypes, callVars
  <2>3. CASE DrainBegin(p)
    BY <2>3, SizesAssumption DEF DrainBegin, ControlTypes, callVars
  <2>4. CASE DrainScan(p)
    <3>1. stopScan[p] + 1 \in 0..NumShards
      BY <2>4, SizesAssumption DEF DrainScan, Shards
    <3> QED
      BY <2>4, <3>1 DEF DrainScan, ControlTypes, callVars
  <2>5. CASE DrainVerdict(p)
    BY <2>5 DEF DrainVerdict, ControlTypes, callVars
  <2>6. CASE DrainTick(p)
    BY <2>6 DEF DrainTick, ControlTypes, callVars
  <2>7. CASE StopCancel(p)
    BY <2>7 DEF StopCancel, ControlTypes, callVars
  <2>8. CASE StopReturn(p)
    BY <2>8 DEF StopReturn, ControlTypes, callVars
  <2>9. CASE StopReturnOther(p)
    BY <2>9 DEF StopReturnOther, ControlTypes, callVars
  <2> QED
    BY <1>5, <2>1, <2>2, <2>3, <2>4, <2>5, <2>6, <2>7, <2>8, <2>9 DEF StopNext
<1> QED
  BY <1>2, <1>3, <1>4, <1>5 DEF Next

\* Every step keeps the types and the bounds.
LEMMA TypeStep == TypeInv /\ [Next]_vars => TypeInv'
  BY GaugeStep, BoundsStep, ControlStep DEF TypeInv

\* A new scheduler has the types and respects the bounds.
LEMMA TypeInit == Init => TypeInv
<1> SUFFICES ASSUME Init PROVE TypeInv
  OBVIOUS
<1>1. GaugeInv
  BY GaugeInit
<1>2. Bounds
  BY SizesAssumption DEF Init, Bounds, EmptyBatch, ReadyCap
<1>3. ControlTypes
  BY SizesAssumption DEF Init, ControlTypes
<1> QED
  BY <1>1, <1>2, <1>3 DEF TypeInv

\* No lane ever holds more than QueueSizePerLane jobs, the ready channel never
\* holds more than one entry per shard, no gauge is ever negative, and every
\* variable keeps its type.
THEOREM SchedulerTypes == Spec => []TypeOK
  BY TypeInit, TypeStep, TypeInvImplies, PTL DEF Spec
=============================================================================
