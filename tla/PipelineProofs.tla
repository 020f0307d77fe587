--------------------------- MODULE PipelineProofs ---------------------------
(***************************************************************************)
(* Proofs about Pipeline, for every set of requests, pipelines of any      *)
(* stages, any number of completer calls and every limit: one driver for   *)
(* each request, an exact registry, one accepted completion.               *)
(***************************************************************************)
EXTENDS Pipeline, FiniteSetTheorems, TLAPS

-----------------------------------------------------------------------------
(* Threads, continuations and errors. *)

LEMMA AttemptsShape ==
  ASSUME NEW r \in Reqs
  PROVE  /\ 1 \in Attempts(r) /\ Attempts(r) \subseteq Nat
         /\ \A a \in Attempts(r) : Policy(r).enabled /\ a < Policy(r).maxAttempts => a + 1 \in Attempts(r)
  <1>1. Retry[r] \in RetryPolicies
    BY PipelineAssumption
  <1>2. Policy(r).enabled => Policy(r).maxAttempts \in Nat /\ Policy(r).maxAttempts >= 1
    BY <1>1 DEF Policy, NormalizeRetryPolicy, OrDefault, RetryPolicies
  <1> QED
    BY <1>2 DEF Attempts

LEMMA ThreadShape ==
  /\ \A r \in Reqs : \A a \in Attempts(r) : <<r, a>> \in Threads
  /\ \A t \in Threads : t[1] \in Reqs /\ t[2] \in Attempts(t[1]) /\ t = <<t[1], t[2]>>
  BY DEF Threads

LEMMA ContShape ==
  /\ \A c \in Conts : /\ c[1] \in Reqs /\ c[2] \in Attempts(c[1]) /\ c = <<c[1], c[2], c[3]>>
                      /\ <<c[1], c[2]>> \in Threads
                      /\ c[3] \in DOMAIN Stages[c[1]] /\ Stages[c[1]][c[3]] = "cont"
  /\ \A t \in Threads : stage[t] \in DOMAIN Stages[t[1]] /\ Stages[t[1]][stage[t]] = "cont" => ContOf(t) \in Conts
  <1>1. \A r \in Reqs : \A a, s : a \in Attempts(r) /\ s \in DOMAIN Stages[r] /\ Stages[r][s] = "cont" =>
          <<r, a, s>> \in Conts
    BY DEF Conts
  <1>2. \A c \in Conts : \E r \in Reqs : \E a \in Attempts(r) : \E s \in DOMAIN Stages[r] :
          c = <<r, a, s>> /\ Stages[r][s] = "cont"
    BY DEF Conts
  <1>3. \A r \in Reqs : DOMAIN Stages[r] = 1..Len(Stages[r])
    BY PipelineAssumption
  <1> QED
    BY <1>1, <1>2, ThreadShape DEF ContOf

\* Two threads never share a continuation.
LEMMA ContsApart ==
  ASSUME NEW t \in Threads, NEW u \in Threads, ContOf(t) = ContOf(u)
  PROVE  t = u
  BY ThreadShape DEF ContOf

Errors == {NoError} \cup [class : ErrorClasses, stage : BOOLEAN]

LEMMA ErrorShapes ==
  /\ NoError \in Errors
  /\ \A c \in ErrorClasses : Err(c) \in Errors /\ NewStageFailure(Err(c)) \in Errors
                             /\ Err(c) # NoError /\ NewStageFailure(Err(c)) # NoError
  /\ {"budget", "canceled", "deadline", "deadline_failure", "other", "permanent", "overload_rejected",
      "admission_rejected", "perkey_shed", "stopped", "queue_full"} \subseteq ErrorClasses
  /\ \A e \in Errors : e = NoError \/ e.class \in ErrorClasses
  BY DEF Errors, NoError, Err, NewStageFailure, ErrorClasses, TypedKind, OverloadClasses, PerKeyClasses,
         AdmissionClasses, QueueClasses

-----------------------------------------------------------------------------
(* The inductive invariant. *)

ContStates == [created : BOOLEAN, done : BOOLEAN, buf : {"empty", "complete", "fail", "cancel"}, once : BOOLEAN,
               handler : BOOLEAN, late : BOOLEAN]
Places == {"none", "ended", "dropped", "pending", "drain1", "drain2", "drain3", "resolving", "queued", "resume",
           "stage", "running", "registering", "failing", "backoff", "backoff0"}

Types ==
  /\ workload \subseteq Reqs
  /\ ctx \in [Reqs -> {"nil", "expired", "deadline", "canceled"}]
  /\ future \in [Reqs -> {"unsubmitted", "pending", "ok", "failed"}]
  /\ completed \in [Reqs -> Nat]
  /\ pc \in [Threads -> Places]
  /\ stage \in [Threads -> Nat]
  /\ err \in [Threads -> Errors]
  /\ outcome \in [Threads -> {"none", "complete", "fail", "cancel", "ctx"}]
  /\ cont \in [Conts -> ContStates]
  /\ DOMAIN call = Conts
  /\ \A c \in Conts : call[c] \in [Callers[c[1]] -> {"idle", "checked", "true", "false"}]
  /\ registry \subseteq Conts
  /\ perShard \in [Shards -> Int]
  /\ counters \in [CounterNames -> Nat]
  /\ stopped \in BOOLEAN /\ killed \in BOOLEAN

\* Where a thread is says how far its pipeline has come.
ThreadInv(t) ==
  /\ stage[t] >= 1 /\ stage[t] <= Len(Stages[t[1]]) + 1
  /\ pc[t] \in Resolving \cup {"running", "registering", "resume"} => stage[t] <= Len(Stages[t[1]])
  /\ pc[t] \in Resolving \cup {"registering"} => Stages[t[1]][stage[t]] = "cont"
  /\ pc[t] \in {"drain1", "drain2", "drain3", "resolving"} => outcome[t] # "none"
  /\ outcome[t] = "ctx" => ctx[t[1]] \in {"deadline", "canceled"}
  /\ pc[t] \in {"backoff", "backoff0"} => t[2] + 1 \in Attempts(t[1])

Driven(r) == {a \in Attempts(r) : pc[<<r, a>>] \notin Idle}
Lost(r) == \E a \in Attempts(r) : pc[<<r, a>>] = "dropped"

\* A request is driven exactly while its future is pending, by one thread, unless its job was dropped.
DriverInv(r) ==
  /\ future[r] = "unsubmitted" => \A a \in Attempts(r) : pc[<<r, a>>] = "none"
  /\ future[r] = "pending" /\ ~Lost(r) => \E a \in Attempts(r) : Driven(r) = {a}
  /\ future[r] # "pending" \/ Lost(r) => Driven(r) = {}
  /\ completed[r] = IF future[r] \in {"pending", "unsubmitted"} THEN 0 ELSE 1

\* The registry is what the resolvers wait for, and the counters account for what it ever held.
RegistryInv ==
  /\ IsFiniteSet(registry)
  /\ registry = {ContOf(t) : t \in {u \in Threads : pc[u] \in Resolving}}
  /\ \A s \in Shards : perShard[s] = Cardinality({c \in registry : ShardOf[c[1]] = s})
  /\ MaxPending > 0 => Cardinality(registry) <= MaxPending
  /\ MaxPendingPerShard > 0 => \A s \in Shards : perShard[s] <= MaxPendingPerShard
  /\ counters["registered"] = Cardinality(registry) + counters["complete"] + counters["fail"] + counters["cancel"]

\* A continuation with its late handler is closed, or its own thread is at it.
HandlerInv(c) ==
  cont[c].handler /\ ~cont[c].done =>
    pc[<<c[1], c[2]>>] \in Resolving \cup {"registering"} /\ stage[<<c[1], c[2]>>] = c[3]

\* A call that returned true used the continuation's sync.Once, and no other did.
CallInv(c) ==
  /\ \A k \in Callers[c[1]] : call[c][k] = "true" => cont[c].once
  /\ \A k, m \in Callers[c[1]] : call[c][k] = "true" /\ call[c][m] = "true" => k = m

PipelineInv ==
  /\ Types /\ RegistryInv
  /\ \A t \in Threads : ThreadInv(t)
  /\ \A r \in Reqs : DriverInv(r)
  /\ \A c \in Conts : HandlerInv(c) /\ CallInv(c)

LEMMA PipelineInvInit == Init => PipelineInv
  <1> SUFFICES ASSUME Init PROVE PipelineInv
    OBVIOUS
  <1>1. Types
    <2>1. NewContinuation \in ContStates
      BY DEF NewContinuation, ContStates
    <2>2. cont \in [Conts -> ContStates] /\ pc \in [Threads -> Places] /\ err \in [Threads -> Errors]
      BY <2>1, ErrorShapes DEF Init, Places
    <2>3. DOMAIN call = Conts /\ \A c \in Conts : call[c] \in [Callers[c[1]] -> {"idle", "checked", "true", "false"}]
      BY DEF Init
    <2>4. workload \subseteq Reqs
      BY PipelineAssumption DEF Init
    <2>5. counters \in [CounterNames -> Nat] /\ perShard \in [Shards -> Int] /\ registry \subseteq Conts
      BY DEF Init
    <2>6. /\ ctx \in [Reqs -> {"nil", "expired", "deadline", "canceled"}]
          /\ future \in [Reqs -> {"unsubmitted", "pending", "ok", "failed"}] /\ completed \in [Reqs -> Nat]
      BY DEF Init
    <2>7. stage \in [Threads -> Nat] /\ outcome \in [Threads -> {"none", "complete", "fail", "cancel", "ctx"}]
      BY DEF Init
    <2>8. stopped \in BOOLEAN /\ killed \in BOOLEAN
      BY DEF Init
    <2> QED
      BY <2>2, <2>3, <2>4, <2>5, <2>6, <2>7, <2>8 DEF Types
  <1>2. RegistryInv
    <2>1. registry = {} /\ \A t \in Threads : pc[t] \notin Resolving
      BY DEF Init, Resolving
    <2>2. IsFiniteSet(registry) /\ Cardinality(registry) = 0
      BY <2>1, FS_EmptySet
    <2>3. \A s \in Shards : {c \in registry : ShardOf[c[1]] = s} = {} /\ perShard[s] = 0
      BY <2>1 DEF Init
    <2>4. \A n \in CounterNames : counters[n] = 0
      BY DEF Init
    <2> QED
      BY <2>1, <2>2, <2>3, <2>4, FS_EmptySet, PipelineAssumption DEF RegistryInv, CounterNames
  <1>3. ASSUME NEW t \in Threads PROVE ThreadInv(t)
    <2>1. pc[t] = "none" /\ stage[t] = 1 /\ outcome[t] = "none" /\ Len(Stages[t[1]]) \in Nat
      BY ThreadShape, PipelineAssumption DEF Init
    <2> QED
      BY <2>1 DEF ThreadInv, Resolving
  <1>4. ASSUME NEW r \in Reqs PROVE DriverInv(r)
    <2>1. \A a \in Attempts(r) : pc[<<r, a>>] = "none"
      BY ThreadShape DEF Init
    <2> QED
      BY <2>1 DEF Init, DriverInv, Driven, Lost, Idle
  <1>5. ASSUME NEW c \in Conts PROVE HandlerInv(c) /\ CallInv(c)
    BY DEF Init, NewContinuation, HandlerInv, CallInv
  <1> QED
    BY <1>1, <1>2, <1>3, <1>4, <1>5 DEF PipelineInv

-----------------------------------------------------------------------------
(* What a driver's step does to the threads. *)

Goes(t) == \E p \in Places \ Idle : pc' = [pc EXCEPT ![t] = p] /\ UNCHANGED <<future, completed>>
Drops(t) == pc' = [pc EXCEPT ![t] = "dropped"] /\ UNCHANGED <<future, completed>>
Finishes(t) == \E e \in Errors : pc' = [pc EXCEPT ![t] = "ended"] /\ CompleteFuture(t[1], e)
HandsOver(t) ==
  /\ <<t[1], t[2] + 1>> \in Threads
  /\ pc' = [pc EXCEPT ![t] = "ended", ![<<t[1], t[2] + 1>>] = "queued"] /\ UNCHANGED <<future, completed>>

LEMMA Places_ == Places \ Idle = {"pending", "drain1", "drain2", "drain3", "resolving", "queued", "resume",
                                  "stage", "running", "registering", "failing", "backoff", "backoff0"}
  BY DEF Places, Idle

LEMMA CtxErrs ==
  ASSUME Types, NEW r \in Reqs
  PROVE  /\ CtxErr(r) # "nil" => CtxErr(r) \in ErrorClasses /\ ctx[r] \in {"deadline", "canceled"}
         /\ ctx[r] \in {"deadline", "canceled"} => CtxErr(r) # "nil"
         /\ EnqueueError \in ErrorClasses
  BY ErrorShapes DEF Types, CtxErr, EnqueueError

\* A resolver's continuation is registered: the late branch of resolve is never taken.
LEMMA ResolverRegistered ==
  ASSUME PipelineInv, NEW t \in Threads, pc[t] \in Resolving
  PROVE  ContOf(t) \in registry /\ ContOf(t) \in Conts
  BY DEF PipelineInv, RegistryInv, Types

LEMMA OwnContinuation ==
  ASSUME PipelineInv, NEW t \in Threads, pc[t] \in Resolving \cup {"running", "registering"},
         Stages[t[1]][stage[t]] = "cont"
  PROVE  ContOf(t) \in Conts
  <1>1. t[1] \in Reqs
    BY ThreadShape
  <1>2. stage[t] \in Nat /\ stage[t] >= 1 /\ stage[t] <= Len(Stages[t[1]])
    BY DEF PipelineInv, ThreadInv, Types
  <1>3. DOMAIN Stages[t[1]] = 1..Len(Stages[t[1]]) /\ Len(Stages[t[1]]) \in Nat
    BY <1>1, PipelineAssumption
  <1> QED
    BY <1>2, <1>3, ContShape

\* A failed attempt is repeated only where the policy has an attempt left.
LEMMA RetryHasRoom ==
  ASSUME NEW t \in Threads, NEW budget, NEW answer, NEW snap, NEW suppressAnswer,
         NEW delay \in evaluatePipelineRetry(t, budget, answer, snap, suppressAnswer), delay # NoRetry
  PROVE  t[2] + 1 \in Attempts(t[1])
  <1>1. Policy(t[1]).enabled /\ ~(t[2] >= Policy(t[1]).maxAttempts)
    BY DEF evaluatePipelineRetry
  <1>2. t[1] \in Reqs /\ t[2] \in Attempts(t[1]) /\ Retry[t[1]] \in RetryPolicies
    BY ThreadShape, PipelineAssumption
  <1>3. Policy(t[1]).maxAttempts \in Nat
    BY <1>1, <1>2 DEF Policy, NormalizeRetryPolicy, OrDefault, RetryPolicies
  <1>4. t[2] \in Nat
    BY <1>2, AttemptsShape
  <1> QED
    BY <1>1, <1>2, <1>3, <1>4, AttemptsShape

LEMMA DriveCases ==
  ASSUME PipelineInv, NEW t \in Threads, Drive(t)
  PROVE  /\ pc[t] \in Places \ Idle
         /\ Goes(t) \/ Drops(t) \/ Finishes(t) \/ HandsOver(t)
  <1>0. Types /\ t[1] \in Reqs /\ ThreadInv(t) /\ t[2] \in Attempts(t[1])
    BY ThreadShape DEF PipelineInv
  <1>1. CASE RunJob(t)
    <2>1. pc[t] \in Places \ Idle
      BY <1>1, Places_ DEF RunJob
    <2>2. CASE CtxErr(t[1]) # "nil"
      BY <1>0, <1>1, <2>1, <2>2, CtxErrs, ErrorShapes DEF RunJob, Finishes
    <2>3. CASE CtxErr(t[1]) = "nil"
      BY <1>1, <2>1, <2>3, Places_ DEF RunJob, Goes
    <2> QED
      BY <2>2, <2>3
  <1>2. CASE RunResume(t)
    BY <1>2, Places_ DEF RunResume, Goes
  <1>3. CASE DropJob(t)
    BY <1>3, Places_ DEF DropJob, Drops
  <1>4. CASE BeginStage(t)
    BY <1>4, Places_ DEF BeginStage, Fail, Goes
  <1>5. CASE StageReturns(t)
    BY <1>5, Places_ DEF StageReturns, Fail, Goes
  <1>6. CASE StageYields(t)
    BY <1>6, Places_ DEF StageYields, Fail, Goes
  <1>7. CASE Register(t)
    BY <1>7, Places_ DEF Register, Fail, Goes
  <1>8. CASE RunComplete(t)
    <2>1. pc[t] \in Places \ Idle
      BY <1>8, Places_ DEF RunComplete
    <2>2. CASE BudgetExhausted(t[1])
      BY <1>8, <2>1, <2>2, Places_ DEF RunComplete, Fail, Goes
    <2>3. CASE ~BudgetExhausted(t[1])
      <3>1. \A e \in {NoError} \cup {Err(c) : c \in StageErrors} : e \in Errors
        BY ErrorShapes, PipelineAssumption
      <3> QED
        BY <1>8, <2>1, <2>3, <3>1 DEF RunComplete, Finishes
    <2> QED
      BY <2>2, <2>3
  <1>9. CASE TakeOutcome(t)
    BY <1>9, Places_ DEF TakeOutcome, Goes
  <1>10. CASE TakeCtxDone(t)
    BY <1>10, Places_ DEF TakeCtxDone, Goes
  <1>11. CASE Drain(t)
    <2>1. pc[t] \in {"drain1", "drain2", "drain3"} /\ UNCHANGED <<future, completed>>
      BY <1>11 DEF Drain
    <2>2. \E p \in {"drain2", "drain3", "resolving"} : pc' = [pc EXCEPT ![t] = p]
      BY <1>11 DEF Drain
    <2> QED
      BY <2>1, <2>2, Places_ DEF Goes
  <1>12. CASE Resolve(t)
    <2>1. pc[t] = "resolving" /\ ContOf(t) \in registry
      BY <1>12, ResolverRegistered DEF Resolve, Resolving
    <2>2. pc[t] \in Places \ Idle
      BY <2>1, Places_
    <2> DEFINE kind == IF outcome[t] = "ctx" THEN "cancel" ELSE outcome[t]
    <2>3. CASE kind = "complete"
      <3>1. Resume(t)
        BY <1>12, <2>1, <2>3 DEF Resolve
      <3> QED
        BY <2>2, <3>1, Places_, ErrorShapes DEF Resume, Goes, Finishes
    <2>4. CASE kind # "complete"
      <3>1. UNCHANGED <<future, completed>> /\ pc' = [pc EXCEPT ![t] = "failing"]
        BY <1>12, <2>1, <2>4 DEF Resolve, Fail
      <3> QED
        BY <2>2, <3>1, Places_ DEF Goes
    <2> QED
      BY <2>3, <2>4
  <1>13. CASE CompleteFailed(t)
    <2>1. pc[t] \in Places \ Idle /\ err[t] \in Errors
      BY <1>0, <1>13, Places_ DEF CompleteFailed, Types
    <2>2. \/ UNCHANGED <<future, completed>> /\ \E p \in {"backoff0", "backoff"} : pc' = [pc EXCEPT ![t] = p]
          \/ CompleteFuture(t[1], err[t]) /\ pc' = [pc EXCEPT ![t] = "ended"]
      BY <1>13 DEF CompleteFailed
    <2> QED
      BY <2>1, <2>2, Places_ DEF Goes, Finishes
  <1>14. CASE BackoffEnds(t)
    <2>1. pc[t] \in Places \ Idle /\ <<t[1], t[2] + 1>> \in Threads
      BY <1>0, <1>14, Places_, ThreadShape DEF BackoffEnds, ThreadInv
    <2>2. CASE CanEnqueue(t[1])
      BY <1>14, <2>1, <2>2 DEF BackoffEnds, HandsOver
    <2>3. CASE ~CanEnqueue(t[1])
      BY <1>0, <1>14, <2>1, <2>3, ErrorShapes, CtxErrs DEF BackoffEnds, Finishes
    <2> QED
      BY <2>2, <2>3
  <1>15. CASE BackoffCancelled(t)
    BY <1>0, <1>15, Places_, ErrorShapes, CtxErrs DEF BackoffCancelled, Finishes
  <1> QED
    BY <1>1, <1>2, <1>3, <1>4, <1>5, <1>6, <1>7, <1>8, <1>9, <1>10, <1>11, <1>12, <1>13, <1>14, <1>15 DEF Drive

\* Completing the future of a request whose future is open.
LEMMA CompleteOpen ==
  ASSUME Types, NEW r \in Reqs, NEW e \in Errors, CompleteFuture(r, e), future[r] \in {"pending", "unsubmitted"}
  PROVE  /\ future'[r] \in {"ok", "failed"} /\ completed'[r] = completed[r] + 1
         /\ \A q \in Reqs \ {r} : future'[q] = future[q] /\ completed'[q] = completed[q]
         /\ future' \in [Reqs -> {"unsubmitted", "pending", "ok", "failed"}] /\ completed' \in [Reqs -> Nat]
  BY DEF CompleteFuture, Types

\* Only the one driver of a pending request takes a step.
LEMMA TheDriver ==
  ASSUME PipelineInv, NEW t \in Threads, pc[t] \notin Idle
  PROVE  /\ future[t[1]] = "pending" /\ ~Lost(t[1]) /\ completed[t[1]] = 0
         /\ \A a \in Attempts(t[1]) \ {t[2]} : pc[<<t[1], a>>] \in Idle \ {"dropped"}
  <1>1. t[1] \in Reqs /\ t[2] \in Attempts(t[1]) /\ t = <<t[1], t[2]>>
    BY ThreadShape
  <1>2. t[2] \in Driven(t[1]) /\ DriverInv(t[1])
    BY <1>1 DEF Driven, PipelineInv
  <1>3. future[t[1]] = "pending" /\ ~Lost(t[1]) /\ completed[t[1]] = 0
    BY <1>2 DEF DriverInv
  <1>4. Driven(t[1]) = {t[2]}
    BY <1>2, <1>3 DEF DriverInv
  <1> QED
    BY <1>3, <1>4 DEF Driven, Lost

\* A step that touches the threads of one request only leaves the drivers of the others alone.
LEMMA DriverSame ==
  ASSUME NEW r \in Reqs, DriverInv(r), \A a \in Attempts(r) : pc'[<<r, a>>] = pc[<<r, a>>],
         future'[r] = future[r], completed'[r] = completed[r]
  PROVE  DriverInv(r)'
  BY DEF DriverInv, Driven, Lost

LEMMA DriverStep ==
  ASSUME PipelineInv, NEW t \in Threads, Drive(t), NEW r \in Reqs
  PROVE  DriverInv(r)'
  <1>0. /\ Types /\ DriverInv(r) /\ t[1] \in Reqs /\ t[2] \in Attempts(t[1]) /\ t = <<t[1], t[2]>>
        /\ pc[t] \in Places \ Idle
    BY ThreadShape, DriveCases DEF PipelineInv
  <1>1. /\ future[t[1]] = "pending" /\ ~Lost(t[1]) /\ completed[t[1]] = 0
        /\ \A a \in Attempts(t[1]) \ {t[2]} : pc[<<t[1], a>>] \in Idle \ {"dropped"}
    BY <1>0, TheDriver
  <1>2. \A a \in Attempts(r) : <<r, a>> \in Threads
    BY ThreadShape
  <1>3. DOMAIN pc = Threads
    BY <1>0 DEF Types
  <1>4. CASE r # t[1]
    <2>1. \A a \in Attempts(r) : pc'[<<r, a>>] = pc[<<r, a>>]
      <3>1. \A a : <<r, a>> # t /\ <<r, a>> # <<t[1], t[2] + 1>>
        BY <1>0, <1>4
      <3>2. Goes(t) => \A u \in Threads \ {t} : pc'[u] = pc[u]
        BY <1>3 DEF Goes
      <3>3. Drops(t) \/ Finishes(t) => \A u \in Threads \ {t} : pc'[u] = pc[u]
        BY <1>3 DEF Drops, Finishes
      <3>4. HandsOver(t) => \A u \in Threads \ {t, <<t[1], t[2] + 1>>} : pc'[u] = pc[u]
        BY <1>3 DEF HandsOver
      <3> QED
        BY <1>2, <3>1, <3>2, <3>3, <3>4, DriveCases
    <2>2. future'[r] = future[r] /\ completed'[r] = completed[r]
      BY <1>0, <1>1, <1>4, DriveCases, CompleteOpen DEF Goes, Drops, Finishes, HandsOver
    <2> QED
      BY <1>0, <2>1, <2>2, DriverSame
  <1>5. CASE r = t[1]
    <2>1. CASE Goes(t)
      <3>1. PICK p \in Places \ Idle : pc' = [pc EXCEPT ![t] = p] /\ UNCHANGED <<future, completed>>
        BY <2>1 DEF Goes
      <3>2. \A a \in Attempts(r) : pc'[<<r, a>>] = IF a = t[2] THEN p ELSE pc[<<r, a>>]
        BY <1>0, <1>2, <1>3, <1>5, <3>1
      <3>3. ~Lost(r)' /\ Driven(r)' = {t[2]}
        BY <1>0, <1>1, <1>5, <3>1, <3>2 DEF Lost, Driven, Idle
      <3> QED
        BY <1>0, <1>1, <1>5, <3>1, <3>3 DEF DriverInv
    <2>2. CASE Drops(t)
      <3>1. \A a \in Attempts(r) : pc'[<<r, a>>] = IF a = t[2] THEN "dropped" ELSE pc[<<r, a>>]
        BY <1>0, <1>2, <1>3, <1>5, <2>2 DEF Drops
      <3>2. Lost(r)' /\ Driven(r)' = {}
        BY <1>0, <1>1, <1>5, <3>1 DEF Lost, Driven, Idle
      <3> QED
        BY <1>0, <1>1, <1>5, <2>2, <3>2 DEF DriverInv, Drops
    <2>3. CASE Finishes(t)
      <3>1. \A a \in Attempts(r) : pc'[<<r, a>>] = IF a = t[2] THEN "ended" ELSE pc[<<r, a>>]
        BY <1>0, <1>2, <1>3, <1>5, <2>3 DEF Finishes
      <3>2. future'[r] \in {"ok", "failed"} /\ completed'[r] = 1
        BY <1>0, <1>1, <1>5, <2>3, CompleteOpen DEF Finishes
      <3>3. Driven(r)' = {}
        BY <1>0, <1>1, <1>5, <3>1 DEF Driven, Idle
      <3> QED
        BY <3>2, <3>3 DEF DriverInv
    <2>4. CASE HandsOver(t)
      <3>1. t[2] + 1 \in Attempts(r) /\ t[2] \in Nat
        BY <1>0, <1>5, <2>4, ThreadShape, AttemptsShape DEF HandsOver
      <3>2. \A a \in Attempts(r) : pc'[<<r, a>>] = IF a = t[2] THEN "ended"
                                                   ELSE IF a = t[2] + 1 THEN "queued" ELSE pc[<<r, a>>]
        BY <1>0, <1>2, <1>3, <1>5, <2>4, <3>1 DEF HandsOver
      <3>3. ~Lost(r)' /\ Driven(r)' = {t[2] + 1}
        BY <1>0, <1>1, <1>5, <3>1, <3>2 DEF Lost, Driven, Idle
      <3>4. UNCHANGED <<future, completed>>
        BY <2>4 DEF HandsOver
      <3> QED
        BY <1>0, <1>1, <1>5, <3>1, <3>3, <3>4 DEF DriverInv
    <2> QED
      BY <2>1, <2>2, <2>3, <2>4, DriveCases
  <1> QED
    BY <1>4, <1>5

\* Submission makes the first attempt the driver, or completes the future without one.
LEMMA DriverSubmit ==
  ASSUME PipelineInv, NEW r \in Reqs, SubmitPipeline(r), NEW q \in Reqs
  PROVE  /\ DriverInv(q)'
         /\ pc' \in [Threads -> Places]
         /\ future' \in [Reqs -> {"unsubmitted", "pending", "ok", "failed"}] /\ completed' \in [Reqs -> Nat]
         /\ \A u \in Threads : pc'[u] = pc[u] \/ (pc'[u] = "queued" /\ pc[u] = "none")
  <1>0. Types /\ DriverInv(q) /\ DriverInv(r) /\ future[r] = "unsubmitted"
    BY DEF PipelineInv, SubmitPipeline
  <1>1. /\ \A a \in Attempts(r) : pc[<<r, a>>] = "none"
        /\ completed[r] = 0 /\ 1 \in Attempts(r) /\ \A a \in Attempts(r) : <<r, a>> \in Threads
    BY <1>0, AttemptsShape, ThreadShape DEF DriverInv
  <1>2. CASE UNCHANGED pc /\ \E e \in Errors : CompleteFuture(r, e)
    <2>1. /\ future'[r] \in {"ok", "failed"} /\ completed'[r] = 1
          /\ \A p \in Reqs \ {r} : future'[p] = future[p] /\ completed'[p] = completed[p]
          /\ future' \in [Reqs -> {"unsubmitted", "pending", "ok", "failed"}] /\ completed' \in [Reqs -> Nat]
      BY <1>0, <1>1, <1>2, CompleteOpen
    <2>2. CASE q = r
      <3>1. Driven(r)' = {}
        BY <1>1, <1>2 DEF Driven, Idle
      <3> QED
        BY <1>0, <1>2, <2>1, <2>2, <3>1 DEF DriverInv, Types
    <2>3. CASE q # r
      BY <1>0, <1>2, <2>1, <2>3, DriverSame DEF Types
    <2> QED
      BY <2>2, <2>3
  <1>3. CASE /\ pc' = [pc EXCEPT ![<<r, 1>>] = "queued"]
             /\ future' = [future EXCEPT ![r] = "pending"]
             /\ UNCHANGED completed
    <2>1. \A a \in Attempts(r) : pc'[<<r, a>>] = IF a = 1 THEN "queued" ELSE "none"
      BY <1>0, <1>1, <1>3 DEF Types
    <2>2. \A p \in Reqs \ {r} : \A a \in Attempts(p) : pc'[<<p, a>>] = pc[<<p, a>>]
      BY <1>0, <1>3, ThreadShape DEF Types
    <2>3. /\ pc' \in [Threads -> Places]
          /\ \A u \in Threads : pc'[u] = pc[u] \/ (pc'[u] = "queued" /\ pc[u] = "none")
      BY <1>0, <1>1, <1>3 DEF Types, Places
    <2>4. future'[r] = "pending" /\ \A p \in Reqs \ {r} : future'[p] = future[p]
      BY <1>0, <1>3 DEF Types
    <2>5. future' \in [Reqs -> {"unsubmitted", "pending", "ok", "failed"}] /\ completed' \in [Reqs -> Nat]
      BY <1>0, <1>3 DEF Types
    <2>6. CASE q = r
      <3>1. Driven(r)' = {1} /\ ~Lost(r)'
        BY <1>1, <2>1 DEF Driven, Lost, Idle
      <3> QED
        BY <1>1, <1>3, <2>3, <2>4, <2>5, <2>6, <3>1 DEF DriverInv
    <2>7. CASE q # r
      BY <1>0, <1>3, <2>2, <2>3, <2>4, <2>5, <2>7, DriverSame
    <2> QED
      BY <2>6, <2>7
  <1>4. CtxErr(r) # "nil" => Err(CtxErr(r)) \in Errors
    BY <1>0, CtxErrs, ErrorShapes
  <1>5. Err(EnqueueError) \in Errors /\ \A c \in {"overload_rejected", "admission_rejected", "perkey_shed"} : Err(c) \in Errors
    BY <1>0, CtxErrs, ErrorShapes
  <1>6. \/ UNCHANGED pc /\ \E e \in Errors : CompleteFuture(r, e)
        \/ /\ pc' = [pc EXCEPT ![<<r, 1>>] = "queued"]
           /\ future' = [future EXCEPT ![r] = "pending"]
           /\ UNCHANGED completed
    BY <1>4, <1>5 DEF SubmitPipeline
  <1> QED
    BY <1>2, <1>3, <1>6

\* What a driver's step leaves of the other threads.
LEMMA OtherThreads ==
  ASSUME PipelineInv, NEW t \in Threads, Drive(t), NEW u \in Threads \ {t}
  PROVE  /\ stage'[u] = stage[u] /\ outcome'[u] = outcome[u] /\ UNCHANGED ctx
         /\ pc'[u] = pc[u] \/ (pc'[u] = "queued" /\ pc[u] \in Idle)
  <1>0. Types
    BY DEF PipelineInv
  <1>1. pc'[u] = pc[u] \/ (pc'[u] = "queued" /\ pc[u] \in Idle)
    <2>1. Goes(t) \/ Drops(t) \/ Finishes(t) => pc'[u] = pc[u]
      <3>1. Goes(t) => pc'[u] = pc[u]
        BY <1>0 DEF Goes, Types
      <3>2. Drops(t) \/ Finishes(t) => pc'[u] = pc[u]
        BY <1>0 DEF Drops, Finishes, Types
      <3> QED
        BY <3>1, <3>2
    <2>2. ASSUME HandsOver(t) PROVE pc'[u] = pc[u] \/ (pc'[u] = "queued" /\ pc[u] \in Idle)
      <3>1. CASE u # <<t[1], t[2] + 1>>
        BY <1>0, <2>2, <3>1 DEF HandsOver, Types
      <3>2. CASE u = <<t[1], t[2] + 1>>
        <4>1. pc'[u] = "queued"
          BY <1>0, <2>2, <3>2 DEF HandsOver, Types
        <4>2. t[2] \in Nat /\ t[2] + 1 \in Attempts(t[1]) \ {t[2]}
          BY <2>2, ThreadShape, AttemptsShape DEF HandsOver
        <4>3. pc[t] \notin Idle
          BY DriveCases
        <4> QED
          BY <3>2, <4>1, <4>2, <4>3, TheDriver
      <3> QED
        BY <3>1, <3>2
    <2> QED
      BY <2>1, <2>2, DriveCases
  <1>2. stage'[u] = stage[u] /\ outcome'[u] = outcome[u] /\ UNCHANGED ctx
    <2>1. CASE RunJob(t) \/ RunResume(t) \/ DropJob(t) \/ BeginStage(t) \/ StageReturns(t)
      BY <1>0, <2>1 DEF RunJob, RunResume, DropJob, BeginStage, StageReturns, Types
    <2>2. CASE StageYields(t) \/ Register(t) \/ RunComplete(t) \/ TakeOutcome(t) \/ TakeCtxDone(t)
      BY <1>0, <2>2 DEF StageYields, Register, RunComplete, TakeOutcome, TakeCtxDone, Types
    <2>3. CASE Drain(t) \/ Resolve(t) \/ CompleteFailed(t) \/ BackoffEnds(t) \/ BackoffCancelled(t)
      BY <1>0, <2>3 DEF Drain, Resolve, CompleteFailed, BackoffEnds, BackoffCancelled, Types
    <2> QED
      BY <2>1, <2>2, <2>3 DEF Drive
  <1> QED
    BY <1>1, <1>2

\* The driver's own thread.
LEMMA ThreadStep ==
  ASSUME PipelineInv, NEW t \in Threads, Drive(t)
  PROVE  ThreadInv(t)'
  <1>0. /\ Types /\ ThreadInv(t) /\ t[1] \in Reqs /\ Len(Stages[t[1]]) \in Nat /\ Len(Stages[t[1]]) >= 1
        /\ stage[t] \in Nat
    BY ThreadShape, PipelineAssumption DEF PipelineInv, Types
  <1>1. CASE RunJob(t) \/ DropJob(t)
    <2>1. pc'[t] \in {"ended", "stage", "dropped"} /\ UNCHANGED <<stage, outcome, ctx>>
      BY <1>0, <1>1 DEF RunJob, DropJob, Types
    <2> QED
      BY <1>0, <2>1 DEF ThreadInv, Resolving
  <1>2. CASE RunResume(t)
    <2>1. pc[t] = "resume" /\ pc'[t] = "stage" /\ stage'[t] = stage[t] + 1 /\ UNCHANGED <<outcome, ctx>>
      BY <1>0, <1>2 DEF RunResume, Types
    <2> QED
      BY <1>0, <2>1 DEF ThreadInv, Resolving
  <1>3. CASE BeginStage(t)
    <2>1. pc'[t] \in {"failing", "running"} /\ stage[t] <= Len(Stages[t[1]]) /\ UNCHANGED <<stage, outcome, ctx>>
      BY <1>0, <1>3 DEF BeginStage, Fail, Types
    <2> QED
      BY <1>0, <2>1 DEF ThreadInv, Resolving
  <1>4. CASE StageReturns(t)
    <2>1. /\ pc[t] = "running" /\ UNCHANGED <<outcome, ctx>>
          /\ \/ pc'[t] = "failing" /\ stage'[t] = stage[t]
             \/ pc'[t] = "stage" /\ stage'[t] = stage[t] + 1
      BY <1>0, <1>4 DEF StageReturns, Fail, Types
    <2> QED
      BY <1>0, <2>1 DEF ThreadInv, Resolving
  <1>5. CASE StageYields(t)
    <2>1. /\ pc[t] = "running" /\ Stages[t[1]][stage[t]] = "cont" /\ UNCHANGED <<stage, outcome, ctx>>
          /\ pc'[t] \in {"failing", "registering"}
      BY <1>0, <1>5 DEF StageYields, Fail, Types
    <2> QED
      BY <1>0, <2>1 DEF ThreadInv, Resolving
  <1>6. CASE Register(t)
    <2>1. pc[t] = "registering" /\ pc'[t] \in {"failing", "pending"} /\ UNCHANGED <<stage, outcome, ctx>>
      BY <1>0, <1>6 DEF Register, Fail, Types
    <2> QED
      BY <1>0, <2>1 DEF ThreadInv, Resolving
  <1>7. CASE RunComplete(t)
    <2>1. pc'[t] \in {"failing", "ended"} /\ UNCHANGED <<stage, outcome, ctx>>
      BY <1>0, <1>7 DEF RunComplete, Fail, Types
    <2> QED
      BY <1>0, <2>1 DEF ThreadInv, Resolving
  <1>8. CASE TakeOutcome(t)
    <2>1. pc[t] = "pending" /\ pc'[t] = "resolving" /\ UNCHANGED <<stage, ctx>>
      BY <1>0, <1>8 DEF TakeOutcome, Types
    <2>2. cont[ContOf(t)].buf \in {"complete", "fail", "cancel"}
      <3>1. cont[ContOf(t)] \in ContStates
        BY <1>0, <2>1, ResolverRegistered DEF Types, Resolving
      <3> QED
        BY <1>8, <3>1 DEF TakeOutcome, ContStates
    <2>3. outcome'[t] = IF CtxErr(t[1]) # "nil" THEN "ctx" ELSE cont[ContOf(t)].buf
      BY <1>0, <1>8 DEF TakeOutcome, Types
    <2>4. outcome'[t] # "none" /\ (outcome'[t] = "ctx" => ctx[t[1]] \in {"deadline", "canceled"})
      BY <1>0, <2>2, <2>3, CtxErrs
    <2> QED
      BY <1>0, <2>1, <2>4 DEF ThreadInv, Resolving
  <1>9. CASE TakeCtxDone(t)
    <2>1. /\ pc[t] = "pending" /\ pc'[t] = "drain1" /\ outcome'[t] = "ctx" /\ UNCHANGED <<stage, ctx>>
          /\ ctx[t[1]] \in {"deadline", "canceled"}
      BY <1>0, <1>9, CtxErrs DEF TakeCtxDone, Types
    <2> QED
      BY <1>0, <2>1 DEF ThreadInv, Resolving
  <1>10. CASE Drain(t)
    <2>1. /\ pc[t] \in {"drain1", "drain2", "drain3"} /\ pc'[t] \in {"drain2", "drain3", "resolving"}
          /\ UNCHANGED <<stage, outcome, ctx>>
      BY <1>0, <1>10 DEF Drain, Types
    <2> QED
      BY <1>0, <2>1 DEF ThreadInv, Resolving
  <1>11. CASE Resolve(t)
    <2>1. /\ pc[t] = "resolving" /\ pc'[t] \in {"resume", "ended", "failing"} /\ UNCHANGED <<stage, outcome, ctx>>
      BY <1>0, <1>11 DEF Resolve, Resume, Fail, Types
    <2> QED
      BY <1>0, <2>1 DEF ThreadInv, Resolving
  <1>12. CASE CompleteFailed(t)
    <2>1. UNCHANGED <<stage, outcome, ctx>>
      BY <1>12 DEF CompleteFailed
    <2>2. pc'[t] \in {"backoff", "backoff0", "ended"}
      BY <1>0, <1>12 DEF CompleteFailed, Types
    <2>3. pc'[t] \in {"backoff", "backoff0"} => t[2] + 1 \in Attempts(t[1])
      BY <1>0, <1>12, RetryHasRoom DEF CompleteFailed, Types
    <2> QED
      BY <1>0, <2>1, <2>2, <2>3 DEF ThreadInv, Resolving
  <1>13. CASE BackoffEnds(t) \/ BackoffCancelled(t)
    <2>1. UNCHANGED <<stage, outcome, ctx>>
      BY <1>13 DEF BackoffEnds, BackoffCancelled
    <2>2. pc'[t] = "ended"
      <3>1. t # <<t[1], t[2] + 1>>
        BY ThreadShape, AttemptsShape
      <3> QED
        BY <1>0, <1>13, <3>1 DEF BackoffEnds, BackoffCancelled, Types
    <2> QED
      BY <1>0, <2>1, <2>2 DEF ThreadInv, Resolving
  <1> QED
    BY <1>1, <1>2, <1>3, <1>4, <1>5, <1>6, <1>7, <1>8, <1>9, <1>10, <1>11, <1>12, <1>13 DEF Drive

-----------------------------------------------------------------------------
(* Types. *)

LEMMA DriveTypes ==
  ASSUME PipelineInv, NEW t \in Threads, Drive(t)
  PROVE  /\ pc' \in [Threads -> Places]
         /\ future' \in [Reqs -> {"unsubmitted", "pending", "ok", "failed"}] /\ completed' \in [Reqs -> Nat]
         /\ UNCHANGED <<queueVars, ctx, call>>
  <1>0. Types /\ t[1] \in Reqs /\ pc[t] \notin Idle
    BY ThreadShape, DriveCases DEF PipelineInv
  <1>1. pc' \in [Threads -> Places]
    <2>1. Goes(t) => pc' \in [Threads -> Places]
      BY <1>0 DEF Goes, Types
    <2>2. Drops(t) \/ Finishes(t) => pc' \in [Threads -> Places]
      BY <1>0 DEF Drops, Finishes, Types, Places
    <2>3. HandsOver(t) => pc' \in [Threads -> Places]
      BY <1>0 DEF HandsOver, Types, Places
    <2> QED
      BY <2>1, <2>2, <2>3, DriveCases
  <1>2. future' \in [Reqs -> {"unsubmitted", "pending", "ok", "failed"}] /\ completed' \in [Reqs -> Nat]
    <2>1. CASE Finishes(t)
      BY <1>0, <2>1, TheDriver, CompleteOpen DEF Finishes
    <2>2. CASE ~Finishes(t)
      BY <1>0, <2>2, DriveCases DEF Goes, Drops, HandsOver, Types
    <2> QED
      BY <2>1, <2>2
  <1>3. UNCHANGED <<queueVars, ctx, call>>
    <2>1. CASE RunJob(t) \/ RunResume(t) \/ DropJob(t) \/ BeginStage(t) \/ StageReturns(t)
      BY <2>1 DEF RunJob, RunResume, DropJob, BeginStage, StageReturns, queueVars
    <2>2. CASE StageYields(t) \/ Register(t) \/ RunComplete(t) \/ TakeOutcome(t) \/ TakeCtxDone(t)
      BY <2>2 DEF StageYields, Register, RunComplete, TakeOutcome, TakeCtxDone, queueVars
    <2>3. CASE Drain(t) \/ Resolve(t) \/ CompleteFailed(t) \/ BackoffEnds(t) \/ BackoffCancelled(t)
      BY <2>3 DEF Drain, Resolve, CompleteFailed, BackoffEnds, BackoffCancelled, queueVars
    <2> QED
      BY <2>1, <2>2, <2>3 DEF Drive
  <1> QED
    BY <1>1, <1>2, <1>3

\* The driver's own variables.
LEMMA DriveThreadTypes ==
  ASSUME PipelineInv, NEW t \in Threads, Drive(t)
  PROVE  /\ stage' \in [Threads -> Nat] /\ err' \in [Threads -> Errors]
         /\ outcome' \in [Threads -> {"none", "complete", "fail", "cancel", "ctx"}]
  <1>0. Types /\ t[1] \in Reqs /\ ThreadInv(t)
    BY ThreadShape DEF PipelineInv
  <1>1. \A e \in Errors : Fail(t, e) => err' \in [Threads -> Errors]
    BY <1>0 DEF Fail, Types
  <1>2. CtxErr(t[1]) # "nil" => Err(CtxErr(t[1])) \in Errors
    BY <1>0, CtxErrs, ErrorShapes
  <1>3. \A x \in StageErrors : NewStageFailure(Err(x)) \in Errors /\ Err(x) \in Errors
    BY ErrorShapes, PipelineAssumption
  <1>4. CASE RunJob(t) \/ DropJob(t) \/ BackoffEnds(t) \/ BackoffCancelled(t) \/ Drain(t)
    BY <1>0, <1>4 DEF RunJob, DropJob, BackoffEnds, BackoffCancelled, Drain, Types
  <1>5. CASE RunResume(t)
    BY <1>0, <1>5 DEF RunResume, Types
  <1>6. CASE BeginStage(t)
    <2>1. PreStageExhaustion \in Errors
      BY ErrorShapes DEF PreStageExhaustion
    <2>2. err' \in [Threads -> Errors]
      BY <1>0, <1>1, <1>2, <1>6, <2>1 DEF BeginStage, Types
    <2> QED
      BY <1>0, <1>6, <2>2 DEF BeginStage, Types
  <1>7. CASE StageReturns(t)
    <2>1. \A c \in StageErrors \cup {StagePanic} : NewStageFailure(Err(c)) \in Errors
      BY <1>3, ErrorShapes DEF StagePanic
    <2>2. err' \in [Threads -> Errors]
      BY <1>0, <1>1, <1>7, <2>1 DEF StageReturns, Types
    <2> QED
      BY <1>0, <1>7, <2>2 DEF StageReturns, Types
  <1>8. CASE StageYields(t)
    <2>1. NewStageFailure(Err("deadline_failure")) \in Errors /\ Err("canceled") \in Errors
      BY ErrorShapes
    <2>2. err' \in [Threads -> Errors]
      BY <1>0, <1>1, <1>8, <2>1 DEF StageYields, Types
    <2> QED
      BY <1>0, <1>8, <2>2 DEF StageYields, Types
  <1>9. CASE Register(t)
    <2>1. NewStageFailure(Err("other")) \in Errors
      BY ErrorShapes
    <2>2. err' \in [Threads -> Errors]
      BY <1>0, <1>1, <1>9, <2>1 DEF Register, Types
    <2> QED
      BY <1>0, <1>9, <2>2 DEF Register, Types
  <1>10. CASE RunComplete(t)
    <2>1. PreStageExhaustion \in Errors
      BY ErrorShapes DEF PreStageExhaustion
    <2>2. err' \in [Threads -> Errors]
      BY <1>0, <1>1, <1>10, <2>1 DEF RunComplete, Types
    <2> QED
      BY <1>0, <1>10, <2>2 DEF RunComplete, Types
  <1>11. CASE TakeOutcome(t)
    <2>1. cont[ContOf(t)] \in ContStates
      BY <1>0, <1>11, ResolverRegistered DEF TakeOutcome, Resolving, Types
    <2>2. cont[ContOf(t)].buf \in {"complete", "fail", "cancel"}
      BY <1>11, <2>1 DEF TakeOutcome, ContStates
    <2> QED
      BY <1>0, <1>11, <2>2 DEF TakeOutcome, Types
  <1>12. CASE TakeCtxDone(t)
    BY <1>0, <1>12 DEF TakeCtxDone, Types
  <1>13. CASE CompleteFailed(t)
    BY <1>0, <1>13, ErrorShapes DEF CompleteFailed, Types
  <1>14. CASE Resolve(t)
    <2>1. pc[t] = "resolving" /\ ContOf(t) \in registry /\ UNCHANGED <<stage, outcome>>
      BY <1>14, ResolverRegistered DEF Resolve, Resolving
    <2>2. outcome[t] = "ctx" => Err(CtxErr(t[1])) \in Errors
      BY <1>0, <1>2, CtxErrs DEF ThreadInv
    <2>3. \A x \in {"other"} \cup StageErrors : Err(x) \in Errors
      BY <1>3, ErrorShapes
    <2>4. \/ UNCHANGED err
          \/ \E x \in StageErrors : Fail(t, NewStageFailure(Err(x)))
          \/ \E x \in IF outcome[t] = "ctx" THEN {CtxErr(t[1])} ELSE {"other"} \cup StageErrors : Fail(t, Err(x))
      BY <1>14, <2>1 DEF Resolve
    <2>5. err' \in [Threads -> Errors]
      BY <1>0, <1>1, <1>3, <2>2, <2>3, <2>4 DEF Types
    <2> QED
      BY <1>0, <2>1, <2>5 DEF Types
  <1> QED
    BY <1>4, <1>5, <1>6, <1>7, <1>8, <1>9, <1>10, <1>11, <1>12, <1>13, <1>14 DEF Drive

\* One step on one continuation, with the new value it takes.
Becomes(c, k) ==
  /\ cont' \in [Conts -> ContStates] /\ cont'[c] = k
  /\ \A d \in Conts \ {c} : cont'[d] = cont[d]

LEMMA ContChange ==
  ASSUME Types, NEW c \in Conts, NEW k \in ContStates, cont' = [cont EXCEPT ![c] = k]
  PROVE  Becomes(c, k)
  BY DEF Types, Becomes

\* What a driver's step does to the continuations: it moves its own one, never takes back its
\* sync.Once, and only a stage that yields installs a handler.
LEMMA DriveConts ==
  ASSUME PipelineInv, NEW t \in Threads, Drive(t)
  PROVE  /\ cont' \in [Conts -> ContStates]
         /\ \A c \in Conts : cont'[c].once = cont[c].once
         /\ \A c \in Conts : (cont[c].done => cont'[c].done)
               /\ (cont'[c].handler => cont[c].handler \/ (c = ContOf(t) /\ pc'[t] = "registering"))
  <1>0. Types /\ cont \in [Conts -> ContStates]
    BY DEF PipelineInv, Types
  <1> DEFINE o == ContOf(t)
             Fine == /\ cont' \in [Conts -> ContStates]
                     /\ \A c \in Conts : cont'[c].once = cont[c].once
                     /\ \A c \in Conts : (cont[c].done => cont'[c].done)
                           /\ (cont'[c].handler => cont[c].handler \/ (c = ContOf(t) /\ pc'[t] = "registering"))
  <1> SUFFICES Fine
    OBVIOUS
  <1>a. (UNCHANGED cont) => Fine
    BY <1>0
  <1>b. ASSUME NEW k \in ContStates, o \in Conts, cont' = [cont EXCEPT ![o] = k],
               k.once = cont[o].once, cont[o].done => k.done,
               k.handler => cont[o].handler \/ pc'[t] = "registering"
        PROVE  Fine
    <2>1. Becomes(o, k)
      BY <1>0, <1>b, ContChange
    <2> HIDE DEF o
    <2> QED
      BY <1>b, <2>1 DEF Becomes, o
  <1>c. ASSUME pc[t] \in Resolving \cup {"running", "registering"}, Stages[t[1]][stage[t]] = "cont"
        PROVE  o \in Conts /\ cont[o] \in ContStates
    BY <1>0, <1>c, OwnContinuation
  <1>d. ASSUME pc[t] \in Resolving \cup {"registering"} PROVE o \in Conts /\ cont[o] \in ContStates
    BY <1>c, <1>d DEF PipelineInv, ThreadInv
  <1>e. ASSUME o \in Conts, cont[o] \in ContStates, NEW b \in {"empty", "complete", "fail", "cancel"}, NEW l \in BOOLEAN
        PROVE  /\ cont' = [cont EXCEPT ![o].created = TRUE] => Fine
               /\ cont' = [cont EXCEPT ![o].done = TRUE] => Fine
               /\ cont' = [cont EXCEPT ![o].handler = TRUE] /\ pc'[t] = "registering" => Fine
               /\ cont' = [cont EXCEPT ![o].buf = b] => Fine
               /\ cont' = [cont EXCEPT ![o].buf = "empty", ![o].late = l] => Fine
    <2> HIDE DEF o, Fine
    <2>2. ASSUME cont' = [cont EXCEPT ![o].created = TRUE] PROVE Fine
      <3> DEFINE k == [cont[o] EXCEPT !.created = TRUE]
      <3>1. k \in ContStates /\ k.once = cont[o].once /\ k.done = cont[o].done /\ k.handler = cont[o].handler
        BY <1>e DEF ContStates
      <3>2. cont' = [cont EXCEPT ![o] = k]
        BY <1>0, <1>e, <2>2
      <3> HIDE DEF k
      <3> QED
        BY <1>b, <1>e, <2>2, <3>1, <3>2
    <2>3. ASSUME cont' = [cont EXCEPT ![o].done = TRUE] PROVE Fine
      <3> DEFINE k == [cont[o] EXCEPT !.done = TRUE]
      <3>1. k \in ContStates /\ k.once = cont[o].once /\ k.done /\ k.handler = cont[o].handler
        BY <1>e DEF ContStates
      <3>2. cont' = [cont EXCEPT ![o] = k]
        BY <1>0, <1>e, <2>3
      <3> HIDE DEF k
      <3> QED
        BY <1>b, <1>e, <2>3, <3>1, <3>2
    <2>4. ASSUME cont' = [cont EXCEPT ![o].handler = TRUE], pc'[t] = "registering" PROVE Fine
      <3> DEFINE k == [cont[o] EXCEPT !.handler = TRUE]
      <3>1. k \in ContStates /\ k.once = cont[o].once /\ k.done = cont[o].done
        BY <1>e DEF ContStates
      <3>2. cont' = [cont EXCEPT ![o] = k]
        BY <1>0, <1>e, <2>4
      <3> HIDE DEF k
      <3> QED
        BY <1>b, <1>e, <2>4, <3>1, <3>2
    <2>5. ASSUME cont' = [cont EXCEPT ![o].buf = b] PROVE Fine
      <3> DEFINE k == [cont[o] EXCEPT !.buf = b]
      <3>1. k \in ContStates /\ k.once = cont[o].once /\ k.done = cont[o].done /\ k.handler = cont[o].handler
        BY <1>e DEF ContStates
      <3>2. cont' = [cont EXCEPT ![o] = k]
        BY <1>0, <1>e, <2>5
      <3> HIDE DEF k
      <3> QED
        BY <1>b, <1>e, <2>5, <3>1, <3>2
    <2>6. ASSUME cont' = [cont EXCEPT ![o].buf = "empty", ![o].late = l] PROVE Fine
      <3> DEFINE k == [cont[o] EXCEPT !.buf = "empty", !.late = l]
      <3>1. k \in ContStates /\ k.once = cont[o].once /\ k.done = cont[o].done /\ k.handler = cont[o].handler
        BY <1>e DEF ContStates
      <3>2. cont' = [cont EXCEPT ![o] = k]
        BY <1>0, <1>e, <2>6
      <3> HIDE DEF k
      <3> QED
        BY <1>b, <1>e, <2>6, <3>1, <3>2
    <2> QED
      BY <2>2, <2>3, <2>4, <2>5, <2>6
  <1> HIDE DEF o, Fine
  <1>1. CASE RunJob(t) \/ RunResume(t) \/ DropJob(t) \/ StageReturns(t) \/ RunComplete(t) \/ CompleteFailed(t)
             \/ BackoffEnds(t) \/ BackoffCancelled(t)
    <2>1. UNCHANGED cont
      BY <1>1 DEF RunJob, RunResume, DropJob, StageReturns, RunComplete, CompleteFailed, BackoffEnds, BackoffCancelled
    <2> QED
      BY <1>a, <2>1
  <1>2. CASE BeginStage(t)
    <2>1. CASE UNCHANGED cont
      BY <1>a, <2>1
    <2>2. CASE /\ Stages[t[1]][stage[t]] = "cont"
               /\ cont' = [cont EXCEPT ![ContOf(t)].created = TRUE]
      <3>1. t[1] \in Reqs /\ stage[t] \in Nat /\ stage[t] >= 1 /\ stage[t] <= Len(Stages[t[1]])
        BY <1>0, <1>2, ThreadShape DEF BeginStage, PipelineInv, ThreadInv, Types
      <3>2. stage[t] \in DOMAIN Stages[t[1]]
        BY <3>1, PipelineAssumption
      <3>3. o \in Conts
        BY <2>2, <3>2, ContShape DEF o
      <3> QED
        BY <1>0, <1>e, <2>2, <3>3 DEF o
    <2> QED
      BY <1>2, <2>1, <2>2 DEF BeginStage
  <1>3. CASE StageYields(t)
    <2>1. o \in Conts /\ cont[o] \in ContStates
      BY <1>3, <1>c DEF StageYields
    <2>2. \/ cont' = [cont EXCEPT ![o].done = TRUE]
          \/ cont' = [cont EXCEPT ![o].handler = TRUE] /\ pc'[t] = "registering"
      BY <1>0, <1>3 DEF StageYields, Types, o
    <2> QED
      BY <1>e, <2>1, <2>2
  <1>4. CASE Register(t)
    <2>1. o \in Conts /\ cont[o] \in ContStates
      BY <1>4, <1>d DEF Register
    <2>2. (UNCHANGED cont) \/ cont' = [cont EXCEPT ![o].done = TRUE]
      BY <1>4 DEF Register, o
    <2> QED
      BY <1>a, <1>e, <2>1, <2>2
  <1>5. CASE TakeOutcome(t)
    <2>1. o \in Conts /\ cont[o] \in ContStates
      BY <1>5, <1>d DEF TakeOutcome, Resolving
    <2> DEFINE late == CtxErr(t[1]) # "nil" /\ cont[o].buf # "cancel"
    <2>2. cont' = [cont EXCEPT ![o].buf = "empty", ![o].late = @ \/ late]
      BY <1>5 DEF TakeOutcome, o
    <2>3. cont' = [cont EXCEPT ![o].buf = "empty", ![o].late = cont[o].late \/ late]
      <3> HIDE DEF late
      <3> QED
        BY <1>0, <2>1, <2>2 DEF ContStates
    <2>4. (cont[o].late \/ late) \in BOOLEAN
      BY <2>1 DEF ContStates
    <2> HIDE DEF late
    <2> QED
      BY <1>e, <2>1, <2>3, <2>4
  <1>6. CASE TakeCtxDone(t)
    <2>1. o \in Conts /\ cont[o] \in ContStates
      BY <1>6, <1>d DEF TakeCtxDone, Resolving
    <2> QED
      BY <1>6, <1>e, <2>1 DEF TakeCtxDone, o
  <1>7. CASE Drain(t)
    <2>1. o \in Conts /\ cont[o] \in ContStates
      BY <1>7, <1>d DEF Drain, Resolving
    <2>2. \/ cont' = [cont EXCEPT ![o].buf = "cancel"]
          \/ cont' = [cont EXCEPT ![o].buf = "empty", ![o].late = TRUE]
          \/ cont' = [cont EXCEPT ![o].buf = "empty"]
      BY <1>7 DEF Drain, Receive, o
    <2> QED
      BY <1>e, <2>1, <2>2
  <1>8. CASE Resolve(t)
    <2>1. o \in Conts /\ cont[o] \in ContStates
      BY <1>8, <1>d DEF Resolve, Resolving
    <2>2. (UNCHANGED cont) \/ cont' = [cont EXCEPT ![o].done = TRUE]
      BY <1>8 DEF Resolve, o
    <2> QED
      BY <1>a, <1>e, <2>1, <2>2
  <1> QED
    BY <1>1, <1>2, <1>3, <1>4, <1>5, <1>6, <1>7, <1>8 DEF Drive

-----------------------------------------------------------------------------
(* The registry. *)

Tallies == {"registered", "complete", "fail", "cancel"}

\* The three ways a driver's step moves the registry.
Leaves(t) ==
  /\ UNCHANGED <<registry, perShard>> /\ \A n \in Tallies : counters'[n] = counters[n]
  /\ pc'[t] \in Resolving <=> pc[t] \in Resolving
  /\ pc[t] \in Resolving => stage'[t] = stage[t]

Adds(t) ==
  /\ pc[t] \notin Resolving /\ pc'[t] \in Resolving /\ stage'[t] = stage[t] /\ ContOf(t) \in Conts
  /\ ~LimitExceeded(ShardOf[t[1]])
  /\ registry' = registry \cup {ContOf(t)}
  /\ perShard' = [perShard EXCEPT ![ShardOf[t[1]]] = @ + 1]
  /\ \A n \in Tallies : counters'[n] = counters[n] + (IF n = "registered" THEN 1 ELSE 0)

Removes(t) ==
  /\ pc[t] \in Resolving /\ pc'[t] \notin Resolving /\ ContOf(t) \in registry
  /\ registry' = registry \ {ContOf(t)}
  /\ perShard' = [perShard EXCEPT ![ShardOf[t[1]]] = @ - 1]
  /\ \E kind \in {"complete", "fail", "cancel"} :
        \A n \in Tallies : counters'[n] = counters[n] + (IF n = kind THEN 1 ELSE 0)

LEMMA DriveRegistry ==
  ASSUME PipelineInv, NEW t \in Threads, Drive(t)
  PROVE  /\ counters' \in [CounterNames -> Nat]
         /\ Leaves(t) \/ Adds(t) \/ Removes(t)
  <1>0. Types /\ ThreadInv(t)
    BY DEF PipelineInv
  <1>1. CASE RunJob(t) \/ DropJob(t) \/ BeginStage(t) \/ StageReturns(t) \/ StageYields(t)
    <2>1. UNCHANGED registryVars /\ pc[t] \notin Resolving /\ pc'[t] \notin Resolving
      BY <1>0, <1>1 DEF RunJob, DropJob, BeginStage, StageReturns, StageYields, Fail, Types, Resolving
    <2> QED
      BY <1>0, <2>1 DEF registryVars, Leaves, Types
  <1>2. CASE RunResume(t) \/ RunComplete(t) \/ CompleteFailed(t) \/ BackoffCancelled(t)
    <2>1. UNCHANGED registryVars /\ pc[t] \notin Resolving /\ pc'[t] \notin Resolving
      BY <1>0, <1>2 DEF RunResume, RunComplete, CompleteFailed, BackoffCancelled, Fail, Types, Resolving
    <2> QED
      BY <1>0, <2>1 DEF registryVars, Leaves, Types
  <1>3. CASE BackoffEnds(t)
    <2>1. t # <<t[1], t[2] + 1>>
      BY ThreadShape, AttemptsShape
    <2>2. UNCHANGED registryVars /\ pc[t] \notin Resolving /\ pc'[t] \notin Resolving
      BY <1>0, <1>3, <2>1 DEF BackoffEnds, Types, Resolving
    <2> QED
      BY <1>0, <2>2 DEF registryVars, Leaves, Types
  <1>4. CASE TakeCtxDone(t)
    <2>1. UNCHANGED <<registryVars, stage>> /\ pc[t] \in Resolving /\ pc'[t] \in Resolving
      BY <1>0, <1>4 DEF TakeCtxDone, Types, Resolving
    <2> QED
      BY <1>0, <2>1 DEF registryVars, Leaves, Types
  <1>5. CASE TakeOutcome(t) \/ Drain(t)
    <2>1. UNCHANGED <<registry, perShard, stage>> /\ pc[t] \in Resolving /\ pc'[t] \in Resolving
      BY <1>0, <1>5 DEF TakeOutcome, Drain, Types, Resolving
    <2>2. \/ UNCHANGED counters
          \/ \E k \in {0, 1} : counters' = [counters EXCEPT !["late"] = @ + k]
      BY <1>5 DEF TakeOutcome, Drain, Receive
    <2>3. counters' \in [CounterNames -> Nat] /\ \A n \in Tallies : counters'[n] = counters[n]
      BY <1>0, <2>2 DEF Types, Tallies, CounterNames
    <2> QED
      BY <2>1, <2>3 DEF Leaves
  <1>6. CASE Register(t)
    <2>1. pc[t] = "registering" /\ pc[t] \notin Resolving /\ UNCHANGED stage
      BY <1>6 DEF Register, Resolving
    <2>2. CASE LimitExceeded(ShardOf[t[1]])
      <3>1. UNCHANGED registryVars /\ pc'[t] = "failing"
        BY <1>0, <1>6, <2>2 DEF Register, Fail, Types
      <3> QED
        BY <1>0, <2>1, <3>1 DEF registryVars, Leaves, Types, Resolving
    <2>3. CASE ~LimitExceeded(ShardOf[t[1]])
      <3>1. /\ pc'[t] \in Resolving /\ registry' = registry \cup {ContOf(t)}
            /\ perShard' = [perShard EXCEPT ![ShardOf[t[1]]] = @ + 1]
            /\ counters' = [counters EXCEPT !["registered"] = @ + 1]
        BY <1>0, <1>6, <2>3 DEF Register, Bump, Types, Resolving
      <3>2. /\ counters' \in [CounterNames -> Nat]
            /\ \A n \in Tallies : counters'[n] = counters[n] + (IF n = "registered" THEN 1 ELSE 0)
        BY <1>0, <3>1 DEF Types, Tallies, CounterNames
      <3>3. ContOf(t) \in Conts
        BY <1>0, <2>1, OwnContinuation DEF ThreadInv
      <3> QED
        BY <2>1, <2>3, <3>1, <3>2, <3>3 DEF Adds
    <2> QED
      BY <2>2, <2>3
  <1>7. CASE Resolve(t)
    <2>1. pc[t] = "resolving" /\ pc[t] \in Resolving /\ ContOf(t) \in registry /\ t[1] \in Reqs /\ ContOf(t)[1] = t[1]
      BY <1>7, ResolverRegistered, ThreadShape DEF Resolve, Resolving, ContOf
    <2>2. pc'[t] \notin Resolving
      BY <1>0, <1>7 DEF Resolve, Resume, Fail, Types, Resolving
    <2>3. /\ registry' = registry \ {ContOf(t)} /\ perShard' = [perShard EXCEPT ![ShardOf[t[1]]] = @ - 1]
      BY <1>7, <2>1 DEF Resolve, Remove
    <2> DEFINE kind == IF outcome[t] = "ctx" THEN "cancel" ELSE outcome[t]
    <2>4. kind \in {"complete", "fail", "cancel"}
      BY <1>0, <2>1 DEF ThreadInv, Types
    <2>5. \E k \in {0, 1} : counters' = [counters EXCEPT ![kind] = @ + 1, !["resumeRejected"] = @ + k]
      BY <1>7, <2>1 DEF Resolve
    <2> HIDE DEF kind
    <2>6. /\ counters' \in [CounterNames -> Nat]
          /\ \A n \in Tallies : counters'[n] = counters[n] + (IF n = kind THEN 1 ELSE 0)
      BY <1>0, <2>4, <2>5 DEF Types, Tallies, CounterNames
    <2> QED
      BY <2>1, <2>2, <2>3, <2>4, <2>6 DEF Removes
  <1> QED
    BY <1>1, <1>2, <1>3, <1>4, <1>5, <1>6, <1>7 DEF Drive

Waited == {ContOf(t) : t \in {u \in Threads : pc[u] \in Resolving}}

\* The set the registry must be, after a driver's step.
LEMMA WaitedStep ==
  ASSUME PipelineInv, NEW t \in Threads, Drive(t)
  PROVE  /\ Leaves(t) => Waited' = Waited
         /\ Adds(t) => Waited' = Waited \cup {ContOf(t)} /\ ContOf(t) \notin Waited
         /\ Removes(t) => Waited' = Waited \ {ContOf(t)}
  <1>1. \A u \in Threads \ {t} : ContOf(u)' = ContOf(u) /\ (pc'[u] \in Resolving <=> pc[u] \in Resolving)
    BY OtherThreads DEF ContOf, Idle, Resolving
  <1>2. stage'[t] = stage[t] => ContOf(t)' = ContOf(t)
    BY DEF ContOf
  <1>3. \A u \in Threads \ {t} : ContOf(u) # ContOf(t)
    BY ContsApart
  <1>4. \A c : c \in Waited <=> \E u \in Threads : pc[u] \in Resolving /\ c = ContOf(u)
    BY DEF Waited
  <1>5. \A c : c \in Waited' <=> \E u \in Threads : pc'[u] \in Resolving /\ c = ContOf(u)'
    BY DEF Waited
  <1>6. ASSUME Leaves(t) PROVE Waited' = Waited
    BY <1>1, <1>2, <1>4, <1>5, <1>6 DEF Leaves
  <1>7. ASSUME Adds(t) PROVE Waited' = Waited \cup {ContOf(t)} /\ ContOf(t) \notin Waited
    BY <1>1, <1>2, <1>3, <1>4, <1>5, <1>7 DEF Adds
  <1>8. ASSUME Removes(t) PROVE Waited' = Waited \ {ContOf(t)}
    BY <1>1, <1>3, <1>4, <1>5, <1>8 DEF Removes
  <1> QED
    BY <1>6, <1>7, <1>8

InShard(s) == {c \in registry : ShardOf[c[1]] = s}

LEMMA RegistryStep ==
  ASSUME PipelineInv, NEW t \in Threads, Drive(t)
  PROVE  RegistryInv' /\ registry' \subseteq Conts /\ perShard' \in [Shards -> Int]
  <1>0. Types /\ RegistryInv /\ t[1] \in Reqs /\ ShardOf[t[1]] \in Shards /\ ContOf(t)[1] = t[1]
    BY ThreadShape DEF PipelineInv, Shards, ContOf
  <1>1. /\ IsFiniteSet(registry) /\ Cardinality(registry) \in Nat /\ registry = Waited
        /\ \A s \in Shards : perShard[s] = Cardinality(InShard(s)) /\ perShard[s] \in Int
        /\ MaxPending > 0 => Cardinality(registry) <= MaxPending
        /\ MaxPendingPerShard > 0 => \A s \in Shards : perShard[s] <= MaxPendingPerShard
        /\ counters["registered"] = Cardinality(registry) + counters["complete"] + counters["fail"] + counters["cancel"]
        /\ MaxPending \in Nat /\ MaxPendingPerShard \in Nat
    BY <1>0, FS_CardinalityType, PipelineAssumption DEF RegistryInv, Waited, InShard, Types
  <1>2. \A s \in Shards : IsFiniteSet(InShard(s)) /\ Cardinality(InShard(s)) \in Nat
    <2>1. \A s : InShard(s) \subseteq registry
      BY DEF InShard
    <2> QED
      BY <1>1, <2>1, FS_Subset, FS_CardinalityType
  <1>3. \A n \in Tallies : counters[n] \in Nat
    BY <1>0 DEF Types, Tallies, CounterNames
  <1>4. SUFFICES
        /\ registry' \subseteq Conts /\ perShard' \in [Shards -> Int]
        /\ IsFiniteSet(registry') /\ registry' = Waited'
        /\ \A s \in Shards : perShard'[s] = Cardinality(InShard(s)')
        /\ MaxPending > 0 => Cardinality(registry') <= MaxPending
        /\ MaxPendingPerShard > 0 => \A s \in Shards : perShard'[s] <= MaxPendingPerShard
        /\ counters'["registered"] = Cardinality(registry') + counters'["complete"] + counters'["fail"] + counters'["cancel"]
    BY DEF RegistryInv, Waited, InShard
  <1>5. CASE Leaves(t)
    <2>1. UNCHANGED <<registry, perShard>> /\ \A n \in Tallies : counters'[n] = counters[n]
      BY <1>5 DEF Leaves
    <2>2. Waited' = Waited
      BY <1>5, WaitedStep
    <2>3. \A s : InShard(s)' = InShard(s)
      BY <2>1 DEF InShard
    <2> QED
      BY <1>0, <1>1, <2>1, <2>2, <2>3 DEF Types, Tallies
  <1>6. CASE Adds(t)
    <2>1. /\ registry' = registry \cup {ContOf(t)} /\ ContOf(t) \notin registry /\ ContOf(t) \in Conts
          /\ registry' = Waited'
          /\ perShard' = [perShard EXCEPT ![ShardOf[t[1]]] = @ + 1]
          /\ ~LimitExceeded(ShardOf[t[1]])
          /\ \A n \in Tallies : counters'[n] = counters[n] + (IF n = "registered" THEN 1 ELSE 0)
      BY <1>1, <1>6, WaitedStep DEF Adds
    <2>2. IsFiniteSet(registry') /\ Cardinality(registry') = Cardinality(registry) + 1
      BY <1>1, <2>1, FS_AddElement
    <2>3. ASSUME NEW s \in Shards
          PROVE  perShard'[s] = Cardinality(InShard(s)') /\ (MaxPendingPerShard > 0 => perShard'[s] <= MaxPendingPerShard)
      <3>1. CASE s = ShardOf[t[1]]
        <4>1. InShard(s)' = InShard(s) \cup {ContOf(t)} /\ ContOf(t) \notin InShard(s)
          BY <1>0, <2>1, <3>1 DEF InShard
        <4>2. Cardinality(InShard(s)') = Cardinality(InShard(s)) + 1
          BY <1>2, <4>1, FS_AddElement
        <4>3. perShard'[s] = perShard[s] + 1
          BY <1>0, <2>1, <3>1 DEF Types
        <4>4. MaxPendingPerShard > 0 => ~(perShard[s] >= MaxPendingPerShard)
          BY <2>1, <3>1 DEF LimitExceeded
        <4> QED
          BY <1>1, <1>2, <4>2, <4>3, <4>4
      <3>2. CASE s # ShardOf[t[1]]
        <4>1. InShard(s)' = InShard(s)
          BY <1>0, <2>1, <3>2 DEF InShard
        <4>2. perShard'[s] = perShard[s]
          BY <1>0, <2>1, <3>2 DEF Types
        <4> QED
          BY <1>1, <4>1, <4>2
      <3> QED
        BY <3>1, <3>2
    <2>4. MaxPending > 0 => Cardinality(registry') <= MaxPending
      BY <1>1, <2>1, <2>2 DEF LimitExceeded
    <2>5. counters'["registered"] = Cardinality(registry') + counters'["complete"] + counters'["fail"] + counters'["cancel"]
      BY <1>1, <1>3, <2>1, <2>2 DEF Tallies
    <2>6. registry' \subseteq Conts /\ perShard' \in [Shards -> Int]
      BY <1>0, <2>1 DEF Types
    <2> QED
      BY <2>1, <2>2, <2>3, <2>4, <2>5, <2>6
  <1>7. CASE Removes(t)
    <2>1. /\ registry' = registry \ {ContOf(t)} /\ ContOf(t) \in registry
          /\ registry' = Waited'
          /\ perShard' = [perShard EXCEPT ![ShardOf[t[1]]] = @ - 1]
      BY <1>1, <1>7, WaitedStep DEF Removes
    <2>2. IsFiniteSet(registry') /\ Cardinality(registry') = Cardinality(registry) - 1
      BY <1>1, <2>1, FS_RemoveElement
    <2>3. ASSUME NEW s \in Shards
          PROVE  perShard'[s] = Cardinality(InShard(s)') /\ perShard'[s] <= perShard[s]
      <3>1. CASE s = ShardOf[t[1]]
        <4>1. InShard(s)' = InShard(s) \ {ContOf(t)} /\ ContOf(t) \in InShard(s)
          BY <1>0, <2>1, <3>1 DEF InShard
        <4>2. Cardinality(InShard(s)') = Cardinality(InShard(s)) - 1
          BY <1>2, <4>1, FS_RemoveElement
        <4>3. perShard'[s] = perShard[s] - 1
          BY <1>0, <2>1, <3>1 DEF Types
        <4> QED
          BY <1>1, <1>2, <4>2, <4>3
      <3>2. CASE s # ShardOf[t[1]]
        <4>1. InShard(s)' = InShard(s)
          BY <1>0, <2>1, <3>2 DEF InShard
        <4>2. perShard'[s] = perShard[s]
          BY <1>0, <2>1, <3>2 DEF Types
        <4> QED
          BY <1>1, <4>1, <4>2
      <3> QED
        BY <3>1, <3>2
    <2>4. MaxPending > 0 => Cardinality(registry') <= MaxPending
      BY <1>1, <2>2
    <2>5. PICK kind \in {"complete", "fail", "cancel"} :
            \A n \in Tallies : counters'[n] = counters[n] + (IF n = kind THEN 1 ELSE 0)
      BY <1>7 DEF Removes
    <2>6. counters'["registered"] = Cardinality(registry') + counters'["complete"] + counters'["fail"] + counters'["cancel"]
      BY <1>1, <1>3, <2>2, <2>5 DEF Tallies
    <2>7. registry' \subseteq Conts /\ perShard' \in [Shards -> Int]
      BY <1>0, <2>1 DEF Types
    <2>8. MaxPendingPerShard > 0 => \A s \in Shards : perShard'[s] <= MaxPendingPerShard
      <3>1. \A s \in Shards : perShard'[s] \in Int
        BY <2>7
      <3> QED
        BY <1>1, <2>3, <3>1
    <2> QED
      BY <2>1, <2>2, <2>3, <2>4, <2>6, <2>7, <2>8
  <1> QED
    BY <1>5, <1>6, <1>7, DriveRegistry

-----------------------------------------------------------------------------
(* Continuations and their completers. *)

\* A driver that leaves its continuation behind has closed it.
LEMMA HandlerStep ==
  ASSUME PipelineInv, NEW t \in Threads, Drive(t), NEW c \in Conts
  PROVE  HandlerInv(c)'
  <1>0. /\ Types /\ HandlerInv(c) /\ ThreadInv(t) /\ c = <<c[1], c[2], c[3]>> /\ <<c[1], c[2]>> \in Threads
        /\ t = <<t[1], t[2]>>
    BY ContShape, ThreadShape DEF PipelineInv
  <1> DEFINE u == <<c[1], c[2]>>
             At == Resolving \cup {"registering"}
  <1>1. SUFFICES ASSUME cont'[c].handler, ~cont'[c].done
                 PROVE  pc'[u] \in At /\ stage'[u] = c[3]
    BY DEF HandlerInv
  <1>2. ~cont[c].done /\ (cont[c].handler \/ (c = ContOf(t) /\ pc'[t] = "registering"))
    BY <1>1, DriveConts
  <1>3. CASE u # t
    <2>1. cont[c].handler
      BY <1>0, <1>2, <1>3 DEF ContOf
    <2>2. pc[u] \in At /\ stage[u] = c[3]
      BY <1>2, <2>1 DEF HandlerInv, PipelineInv
    <2>3. /\ stage'[u] = stage[u]
          /\ pc'[u] = pc[u] \/ (pc'[u] = "queued" /\ pc[u] \in Idle)
      BY <1>0, <1>3, OtherThreads
    <2> QED
      BY <2>2, <2>3 DEF Idle, Resolving
  <1>4. CASE u = t /\ ~cont[c].handler
    <2>1. c = ContOf(t) /\ pc'[t] = "registering"
      BY <1>2, <1>4
    <2>2. UNCHANGED stage
      <3>1. Register(t) \/ RunJob(t) \/ DropJob(t) \/ BeginStage(t) \/ StageYields(t) \/ RunComplete(t) \/ TakeOutcome(t)
            \/ TakeCtxDone(t) \/ Drain(t) \/ Resolve(t) \/ CompleteFailed(t) \/ BackoffEnds(t) \/ BackoffCancelled(t)
            => UNCHANGED stage
        BY DEF Register, RunJob, DropJob, BeginStage, StageYields, RunComplete, TakeOutcome, TakeCtxDone, Drain, Resolve,
           CompleteFailed, BackoffEnds, BackoffCancelled
      <3>2. RunResume(t) \/ StageReturns(t) => pc'[t] \in {"stage", "failing"}
        BY <1>0 DEF RunResume, StageReturns, Fail, Types
      <3> QED
        BY <2>1, <3>1, <3>2 DEF Drive
    <2> QED
      BY <1>4, <2>1, <2>2 DEF ContOf
  <1>5. CASE u = t /\ cont[c].handler
    <2>1. pc[t] \in At /\ stage[t] = c[3] /\ c = ContOf(t)
      BY <1>0, <1>2, <1>5 DEF HandlerInv, PipelineInv, ContOf
    <2>2. CASE Register(t)
      <3>1. UNCHANGED stage
        BY <2>2 DEF Register
      <3>2. CASE LimitExceeded(ShardOf[t[1]])
        <4>1. cont' = [cont EXCEPT ![c].done = TRUE]
          BY <2>1, <2>2, <3>2 DEF Register
        <4>2. cont'[c].done
          BY <1>0, <4>1 DEF Types, ContStates
        <4> QED
          BY <1>1, <4>2
      <3>3. CASE ~LimitExceeded(ShardOf[t[1]])
        BY <1>0, <1>5, <2>1, <2>2, <3>1, <3>3 DEF Register, Types, Resolving
      <3> QED
        BY <3>2, <3>3
    <2>3. CASE TakeOutcome(t) \/ TakeCtxDone(t) \/ Drain(t)
      BY <1>0, <1>5, <2>1, <2>3 DEF TakeOutcome, TakeCtxDone, Drain, Types, Resolving
    <2>4. CASE Resolve(t)
      <3>1. ContOf(t) \in registry
        BY <2>4, ResolverRegistered DEF Resolve, Resolving
      <3>2. cont' = [cont EXCEPT ![c].done = TRUE]
        BY <2>1, <2>4, <3>1 DEF Resolve
      <3>3. cont'[c].done
        BY <1>0, <3>2 DEF Types, ContStates
      <3> QED
        BY <1>1, <3>3
    <2>5. Register(t) \/ TakeOutcome(t) \/ TakeCtxDone(t) \/ Drain(t) \/ Resolve(t)
      BY <2>1 DEF Drive, RunJob, RunResume, DropJob, BeginStage, StageReturns, StageYields, RunComplete, CompleteFailed,
         BackoffEnds, BackoffCancelled, Resolving
    <2> QED
      BY <2>2, <2>3, <2>4, <2>5
  <1> QED
    BY <1>3, <1>4, <1>5

\* What a completer's call may do to its continuation: nothing is reopened, no handler installed or
\* removed, and a used sync.Once stays used.
Called(c, used) ==
  /\ cont' \in [Conts -> ContStates] /\ counters' \in [CounterNames -> Nat]
  /\ \A n \in Tallies : counters'[n] = counters[n]
  /\ \A d \in Conts : cont'[d].done = cont[d].done /\ cont'[d].handler = cont[d].handler
  /\ \A d \in Conts : cont[d].once => cont'[d].once
  /\ used => cont'[c].once

LEMMA ContCalled ==
  ASSUME Types, NEW c \in Conts, NEW k \in ContStates, cont' = [cont EXCEPT ![c] = k], NEW used \in BOOLEAN,
         k.done = cont[c].done, k.handler = cont[c].handler, cont[c].once => k.once, used => k.once,
         counters' \in [CounterNames -> Nat], \A n \in Tallies : counters'[n] = counters[n]
  PROVE  Called(c, used)
  <1>1. Becomes(c, k)
    BY ContChange
  <1> QED
    BY <1>1 DEF Becomes, Called

LEMMA LateEffects ==
  ASSUME Types, NEW c \in Conts, NEW used \in BOOLEAN, LateCall(c, used)
  PROVE  Called(c, used)
  <1>0. cont[c] \in ContStates /\ counters \in [CounterNames -> Nat]
    BY DEF Types
  <1>1. CASE cont[c].handler
    <2> DEFINE k == [cont[c] EXCEPT !.late = TRUE, !.once = cont[c].once \/ used]
    <2>1. /\ k \in ContStates /\ k.done = cont[c].done /\ k.handler = cont[c].handler
          /\ (cont[c].once => k.once) /\ (used => k.once)
      BY <1>0 DEF ContStates
    <2>2. cont' = [cont EXCEPT ![c].late = TRUE, ![c].once = @ \/ used]
      BY <1>1 DEF LateCall
    <2>3. cont' = [cont EXCEPT ![c] = k]
      BY <1>0, <2>2 DEF Types, ContStates
    <2>4. \E n \in {0, 1} : counters' = [counters EXCEPT !["late"] = @ + n]
      BY <1>1 DEF LateCall
    <2>5. counters' \in [CounterNames -> Nat] /\ \A n \in Tallies : counters'[n] = counters[n]
      BY <1>0, <2>4 DEF Tallies, CounterNames
    <2> HIDE DEF k
    <2> QED
      BY <2>1, <2>3, <2>5, ContCalled
  <1>2. CASE ~cont[c].handler
    <2> DEFINE k == [cont[c] EXCEPT !.once = cont[c].once \/ used]
    <2>1. /\ k \in ContStates /\ k.done = cont[c].done /\ k.handler = cont[c].handler
          /\ (cont[c].once => k.once) /\ (used => k.once)
      BY <1>0 DEF ContStates
    <2>2. cont' = [cont EXCEPT ![c].once = @ \/ used] /\ UNCHANGED counters
      BY <1>2 DEF LateCall
    <2>3. cont' = [cont EXCEPT ![c] = k]
      BY <1>0, <2>2 DEF Types, ContStates
    <2> HIDE DEF k
    <2> QED
      BY <1>0, <2>1, <2>2, <2>3, ContCalled
  <1> QED
    BY <1>1, <1>2

LEMMA NothingCalled ==
  ASSUME Types, UNCHANGED <<cont, counters>>, NEW c
  PROVE  Called(c, FALSE)
  BY DEF Types, Called

\* A call moves its own state; it returns true only where it is the one to use the sync.Once.
LEMMA CallCases ==
  ASSUME PipelineInv, NEW c \in Conts, NEW k \in Callers[c[1]], CheckCall(c, k) \/ Send(c, k)
  PROVE  /\ UNCHANGED <<ctx, future, completed, threadVars, registry, perShard, queueVars>>
         /\ \E answer \in {"checked", "true", "false"} :
               /\ call' = [call EXCEPT ![c][k] = answer]
               /\ Called(c, answer = "true")
               /\ answer = "true" => ~cont[c].once
  <1>0. Types /\ cont[c] \in ContStates
    BY DEF PipelineInv, Types
  <1>1. UNCHANGED <<ctx, future, completed, threadVars, registry, perShard, queueVars>>
    BY DEF CheckCall, Send
  <1>2. CASE CheckCall(c, k)
    <2>1. CASE cont[c].done
      <3>1. LateCall(c, FALSE) /\ call' = [call EXCEPT ![c][k] = "false"]
        BY <1>2, <2>1 DEF CheckCall
      <3>2. Called(c, FALSE)
        BY <1>0, <3>1, LateEffects
      <3> QED
        BY <1>1, <3>1, <3>2
    <2>2. CASE ~cont[c].done /\ CtxErr(c[1]) # "nil"
      <3>1. call' = [call EXCEPT ![c][k] = "false"] /\ (UNCHANGED <<cont, counters>> \/ LateCall(c, TRUE))
        BY <1>2, <2>2 DEF CheckCall
      <3>2. LateCall(c, TRUE) => Called(c, TRUE)
        BY <1>0, LateEffects
      <3>3. Called(c, FALSE)
        BY <1>0, <3>1, <3>2, NothingCalled DEF Called
      <3> QED
        BY <1>1, <3>1, <3>3
    <2>3. CASE ~cont[c].done /\ CtxErr(c[1]) = "nil"
      <3>1. call' = [call EXCEPT ![c][k] = "checked"] /\ UNCHANGED <<cont, counters>>
        BY <1>2, <2>3 DEF CheckCall
      <3>2. Called(c, FALSE)
        BY <1>0, <3>1, NothingCalled
      <3> QED
        BY <1>1, <3>1, <3>2
    <2> QED
      BY <1>0, <2>1, <2>2, <2>3
  <1>3. CASE Send(c, k)
    <2>1. CASE cont[c].once
      <3>1. call' = [call EXCEPT ![c][k] = "false"] /\ UNCHANGED <<cont, counters>>
        BY <1>3, <2>1 DEF Send
      <3>2. Called(c, FALSE)
        BY <1>0, <3>1, NothingCalled
      <3> QED
        BY <1>1, <3>1, <3>2
    <2>2. CASE ~cont[c].once /\ cont[c].buf # "empty"
      <3>1. call' = [call EXCEPT ![c][k] = "false"] /\ LateCall(c, TRUE)
        BY <1>3, <2>2 DEF Send
      <3>2. Called(c, TRUE)
        BY <1>0, <3>1, LateEffects
      <3>3. Called(c, FALSE)
        BY <3>2 DEF Called
      <3> QED
        BY <1>1, <3>1, <3>3
    <2>3. CASE ~cont[c].once /\ cont[c].buf = "empty"
      <3>1. PICK o \in {"complete", "fail", "cancel"} : cont' = [cont EXCEPT ![c].once = TRUE, ![c].buf = o]
        BY <1>3, <2>3 DEF Send
      <3>2. call' = [call EXCEPT ![c][k] = "true"] /\ UNCHANGED counters
        BY <1>3, <2>3 DEF Send
      <3> DEFINE n == [cont[c] EXCEPT !.once = TRUE, !.buf = o]
      <3>3. n \in ContStates /\ n.done = cont[c].done /\ n.handler = cont[c].handler /\ n.once
        BY <1>0 DEF ContStates
      <3>4. cont' = [cont EXCEPT ![c] = n]
        BY <1>0, <3>1 DEF Types
      <3> HIDE DEF n
      <3>5. Called(c, TRUE)
        BY <1>0, <3>2, <3>3, <3>4, ContCalled DEF Types
      <3> QED
        BY <1>1, <2>3, <3>2, <3>5
    <2> QED
      BY <2>1, <2>2, <2>3
  <1> QED
    BY <1>2, <1>3

LEMMA CallStep ==
  ASSUME PipelineInv, NEW c \in Conts, NEW k \in Callers[c[1]], CheckCall(c, k) \/ Send(c, k)
  PROVE  PipelineInv'
  <1>0. Types
    BY DEF PipelineInv
  <1>1. UNCHANGED <<ctx, future, completed, pc, stage, err, outcome, registry, perShard, workload, stopped, killed>>
    BY CallCases DEF threadVars, queueVars
  <1>2. PICK answer \in {"checked", "true", "false"} :
          /\ call' = [call EXCEPT ![c][k] = answer]
          /\ Called(c, answer = "true")
          /\ answer = "true" => ~cont[c].once
    BY CallCases
  <1>3. /\ cont' \in [Conts -> ContStates] /\ counters' \in [CounterNames -> Nat]
        /\ \A n \in Tallies : counters'[n] = counters[n]
        /\ \A d \in Conts : cont'[d].done = cont[d].done /\ cont'[d].handler = cont[d].handler
        /\ \A d \in Conts : cont[d].once => cont'[d].once
        /\ answer = "true" => cont'[c].once
    BY <1>2 DEF Called
  <1>4. /\ DOMAIN call' = Conts
        /\ \A d \in Conts \ {c} : call'[d] = call[d]
        /\ call'[c] = [call[c] EXCEPT ![k] = answer]
    BY <1>0, <1>2 DEF Types
  <1>5. call[c] \in [Callers[c[1]] -> {"idle", "checked", "true", "false"}]
    BY <1>0 DEF Types
  <1>6. call'[c] \in [Callers[c[1]] -> {"idle", "checked", "true", "false"}]
    BY <1>4, <1>5
  <1>7. Types'
    <2>1. \A d \in Conts : call'[d] \in [Callers[d[1]] -> {"idle", "checked", "true", "false"}]
      BY <1>0, <1>4, <1>6 DEF Types
    <2> QED
      BY <1>0, <1>1, <1>3, <1>4, <2>1 DEF Types
  <1>8. RegistryInv'
    <2>1. RegistryInv /\ \A n \in {"registered", "complete", "fail", "cancel"} : counters'[n] = counters[n]
      BY <1>3 DEF PipelineInv, Tallies
    <2> QED
      BY <1>1, <2>1 DEF RegistryInv, ContOf
  <1>9. ASSUME NEW t \in Threads PROVE ThreadInv(t)'
    BY <1>1 DEF PipelineInv, ThreadInv
  <1>10. ASSUME NEW r \in Reqs PROVE DriverInv(r)'
    BY <1>1, DriverSame DEF PipelineInv
  <1>11. ASSUME NEW d \in Conts PROVE HandlerInv(d)'
    BY <1>1, <1>3 DEF PipelineInv, HandlerInv
  <1>12. ASSUME NEW d \in Conts PROVE CallInv(d)'
    <2>1. CallInv(d)
      BY DEF PipelineInv
    <2>2. CASE d # c
      BY <1>3, <1>4, <2>1, <2>2 DEF CallInv
    <2>3. CASE d = c
      <3>1. \A m \in Callers[c[1]] : call'[c][m] = IF m = k THEN answer ELSE call[c][m]
        BY <1>4, <1>5
      <3> QED
        BY <1>2, <1>3, <2>1, <2>3, <3>1 DEF CallInv
    <2> QED
      BY <2>2, <2>3
  <1> QED
    BY <1>7, <1>8, <1>9, <1>10, <1>11, <1>12 DEF PipelineInv

-----------------------------------------------------------------------------
(* The invariant. *)

LEMMA DriveStep ==
  ASSUME PipelineInv, NEW t \in Threads, Drive(t)
  PROVE  PipelineInv'
  <1>0. Types
    BY DEF PipelineInv
  <1>1. Types'
    <2>1. UNCHANGED <<workload, stopped, killed, ctx, call>>
      BY DriveTypes DEF queueVars
    <2>2. /\ pc' \in [Threads -> Places]
          /\ future' \in [Reqs -> {"unsubmitted", "pending", "ok", "failed"}] /\ completed' \in [Reqs -> Nat]
          /\ stage' \in [Threads -> Nat] /\ err' \in [Threads -> Errors]
          /\ outcome' \in [Threads -> {"none", "complete", "fail", "cancel", "ctx"}]
          /\ cont' \in [Conts -> ContStates] /\ counters' \in [CounterNames -> Nat]
          /\ registry' \subseteq Conts /\ perShard' \in [Shards -> Int]
      BY DriveTypes, DriveThreadTypes, DriveConts, DriveRegistry, RegistryStep
    <2> QED
      BY <1>0, <2>1, <2>2 DEF Types
  <1>2. RegistryInv'
    BY RegistryStep
  <1>3. ASSUME NEW u \in Threads PROVE ThreadInv(u)'
    <2>1. CASE u = t
      BY <2>1, ThreadStep
    <2>2. CASE u # t
      <3>1. /\ stage'[u] = stage[u] /\ outcome'[u] = outcome[u] /\ UNCHANGED ctx
            /\ pc'[u] = pc[u] \/ (pc'[u] = "queued" /\ pc[u] \in Idle)
        BY <2>2, OtherThreads
      <3> QED
        BY <3>1 DEF PipelineInv, ThreadInv, Resolving, Idle
    <2> QED
      BY <2>1, <2>2
  <1>4. ASSUME NEW r \in Reqs PROVE DriverInv(r)'
    BY DriverStep
  <1>5. ASSUME NEW c \in Conts PROVE HandlerInv(c)' /\ CallInv(c)'
    <2>1. UNCHANGED call /\ cont'[c].once = cont[c].once
      BY DriveTypes, DriveConts
    <2> QED
      BY <2>1, HandlerStep DEF PipelineInv, CallInv
  <1> QED
    BY <1>1, <1>2, <1>3, <1>4, <1>5 DEF PipelineInv

LEMMA SubmitStep ==
  ASSUME PipelineInv, NEW r \in Reqs, SubmitPipeline(r)
  PROVE  PipelineInv'
  <1>0. Types /\ RegistryInv
    BY DEF PipelineInv
  <1>1. UNCHANGED <<ctx, stage, err, outcome, cont, call, registry, perShard, counters, workload, stopped, killed>>
    BY DEF SubmitPipeline, registryVars, queueVars
  <1>2. /\ pc' \in [Threads -> Places]
        /\ future' \in [Reqs -> {"unsubmitted", "pending", "ok", "failed"}] /\ completed' \in [Reqs -> Nat]
        /\ \A u \in Threads : pc'[u] = pc[u] \/ (pc'[u] = "queued" /\ pc[u] = "none")
    BY DriverSubmit
  <1>3. Types'
    BY <1>0, <1>1, <1>2 DEF Types
  <1>4. {u \in Threads : pc'[u] \in Resolving} = {u \in Threads : pc[u] \in Resolving}
    BY <1>2 DEF Resolving
  <1>5. RegistryInv'
    BY <1>0, <1>1, <1>4 DEF RegistryInv, ContOf
  <1>6. ASSUME NEW t \in Threads PROVE ThreadInv(t)'
    BY <1>1, <1>2 DEF PipelineInv, ThreadInv, Resolving
  <1>7. ASSUME NEW q \in Reqs PROVE DriverInv(q)'
    BY DriverSubmit
  <1>8. ASSUME NEW c \in Conts PROVE HandlerInv(c)' /\ CallInv(c)'
    <2>1. <<c[1], c[2]>> \in Threads /\ HandlerInv(c) /\ CallInv(c)
      BY ContShape DEF PipelineInv
    <2> QED
      BY <1>1, <1>2, <2>1 DEF HandlerInv, CallInv, Resolving
  <1> QED
    BY <1>3, <1>5, <1>6, <1>7, <1>8 DEF PipelineInv

\* The contexts, Stop and the cancelled workers touch no thread.
LEMMA EnvironmentStep ==
  ASSUME PipelineInv, UNCHANGED <<future, completed, threadVars, cont, call, registryVars>>,
         Types', \A r \in Reqs : ctx[r] \in {"deadline", "canceled"} => ctx'[r] = ctx[r]
  PROVE  PipelineInv'
  <1>1. UNCHANGED <<pc, stage, outcome, registry, perShard, counters, cont, call, future, completed>>
    BY DEF threadVars, registryVars
  <1>2. RegistryInv'
    BY <1>1 DEF PipelineInv, RegistryInv, ContOf
  <1>3. ASSUME NEW t \in Threads PROVE ThreadInv(t)'
    BY <1>1, ThreadShape DEF PipelineInv, ThreadInv
  <1>4. ASSUME NEW r \in Reqs PROVE DriverInv(r)'
    BY <1>1, DriverSame DEF PipelineInv
  <1>5. ASSUME NEW c \in Conts PROVE HandlerInv(c)' /\ CallInv(c)'
    BY <1>1 DEF PipelineInv, HandlerInv, CallInv
  <1> QED
    BY <1>2, <1>3, <1>4, <1>5 DEF PipelineInv

LEMMA PipelineInvNext ==
  ASSUME PipelineInv, [Next]_vars
  PROVE  PipelineInv'
  <1>0. Types
    BY DEF PipelineInv
  <1>1. ASSUME NEW r \in Reqs, SubmitPipeline(r) PROVE PipelineInv'
    BY <1>1, SubmitStep
  <1>2. ASSUME NEW r \in Reqs, ContextEnds(r) PROVE PipelineInv'
    <2>1. /\ ctx' \in [Reqs -> {"nil", "expired", "deadline", "canceled"}]
          /\ \A q \in Reqs : ctx[q] \in {"deadline", "canceled"} => ctx'[q] = ctx[q]
      BY <1>0, <1>2 DEF ContextEnds, Types
    <2>2. UNCHANGED <<future, completed, threadVars, cont, call, registryVars, queueVars>>
      BY <1>2 DEF ContextEnds
    <2>3. Types'
      BY <1>0, <2>1, <2>2 DEF Types, threadVars, registryVars, queueVars
    <2> QED
      BY <2>1, <2>2, <2>3, EnvironmentStep
  <1>3. ASSUME NEW r \in Reqs, Serve(r) PROVE PipelineInv'
    <2>1. ASSUME NEW a \in Attempts(r), Drive(<<r, a>>) PROVE PipelineInv'
      BY <2>1, ThreadShape, DriveStep
    <2>2. ASSUME NEW c \in {d \in Conts : d[1] = r}, NEW k \in Callers[r], CheckCall(c, k) \/ Send(c, k)
          PROVE  PipelineInv'
      BY <2>2, CallStep
    <2> QED
      BY <1>3, <2>1, <2>2 DEF Serve
  <1>4. CASE Stop \/ CancelWorkers
    <2>1. /\ UNCHANGED <<ctx, future, completed, threadVars, cont, call, registryVars, workload>>
          /\ stopped' \in BOOLEAN /\ killed' \in BOOLEAN
      BY <1>0, <1>4 DEF Stop, CancelWorkers, Types
    <2>2. Types'
      BY <1>0, <2>1 DEF Types, threadVars, registryVars
    <2> QED
      BY <2>1, <2>2, EnvironmentStep
  <1>5. CASE UNCHANGED vars
    <2>1. UNCHANGED <<ctx, future, completed, threadVars, cont, call, registryVars, queueVars>>
      BY <1>5 DEF vars, threadVars, registryVars, queueVars
    <2>2. Types'
      BY <1>0, <2>1 DEF Types, threadVars, registryVars, queueVars
    <2> QED
      BY <2>1, <2>2, EnvironmentStep
  <1> QED
    BY <1>1, <1>2, <1>3, <1>4, <1>5 DEF Next

LEMMA PipelineInvariant == Spec => []PipelineInv
  <1>1. PipelineInv /\ [Next]_vars => PipelineInv'
    BY PipelineInvNext
  <1> QED
    BY <1>1, PipelineInvInit, PTL DEF Spec

\* The types of every variable: the stage loop of runContinuationPipeline never indexes past its
\* stages and one, the registry's counts never go below zero.
THEOREM Typed == Spec => []TypeOK
  <1>1. ASSUME PipelineInv PROVE TypeOK
    <2>1. Types /\ RegistryInv
      BY <1>1 DEF PipelineInv
    <2>2. \A t \in Threads : stage[t] \in 1..(Len(Stages[t[1]]) + 1)
      <3>1. \A t \in Threads : Len(Stages[t[1]]) \in Nat
        BY ThreadShape, PipelineAssumption
      <3> QED
        BY <1>1, <2>1, <3>1 DEF PipelineInv, ThreadInv, Types
    <2>3. \A t \in Threads : err[t] = NoError \/ err[t].class \in ErrorClasses
      BY <2>1, ErrorShapes DEF Types
    <2>4. \A c \in Conts : cont[c].buf \in {"empty", "complete", "fail", "cancel"}
      BY <2>1 DEF Types, ContStates
    <2>5. perShard \in [Shards -> Nat]
      <3>1. ASSUME NEW s \in Shards PROVE perShard[s] \in Nat
        <4>1. {c \in registry : ShardOf[c[1]] = s} \subseteq registry
          OBVIOUS
        <4>2. IsFiniteSet({c \in registry : ShardOf[c[1]] = s})
          BY <2>1, <4>1, FS_Subset DEF RegistryInv
        <4> QED
          BY <2>1, <4>2, FS_CardinalityType DEF RegistryInv
      <3> QED
        BY <2>1, <3>1 DEF Types
    <2>6. Places = Idle \cup Resolving \cup {"queued", "resume", "stage", "running", "registering",
                                             "failing", "backoff", "backoff0"}
      BY DEF Places, Idle, Resolving
    <2> QED
      BY <2>1, <2>2, <2>3, <2>4, <2>5, <2>6 DEF TypeOK, Types
  <1> QED
    BY <1>1, PipelineInvariant, PTL

\* One goroutine or queued job drives a request at any time and its future is completed once, whatever
\* yields, resumes, retries, is refused or cancelled.
THEOREM OneDriverAlways == Spec => []OneDriver
  <1>1. ASSUME PipelineInv PROVE OneDriver
    <2>1. ASSUME NEW r \in Reqs
          PROVE  /\ Cardinality(Driven(r)) = (IF future[r] = "pending" /\ ~Lost(r) THEN 1 ELSE 0)
                 /\ completed[r] = (IF future[r] \in {"pending", "unsubmitted"} THEN 0 ELSE 1)
      <3>1. DriverInv(r)
        BY <1>1 DEF PipelineInv
      <3>2. CASE future[r] = "pending" /\ ~Lost(r)
        <4>1. PICK a \in Attempts(r) : Driven(r) = {a}
          BY <3>1, <3>2 DEF DriverInv
        <4> QED
          BY <3>1, <3>2, <4>1, FS_Singleton DEF DriverInv
      <3>3. CASE ~(future[r] = "pending" /\ ~Lost(r))
        <4>1. Driven(r) = {}
          BY <3>1, <3>3 DEF DriverInv
        <4> QED
          BY <3>1, <3>3, <4>1, FS_EmptySet DEF DriverInv
      <3> QED
        BY <3>2, <3>3
    <2> QED
      BY <2>1 DEF OneDriver, Driven, Lost
  <1> QED
    BY <1>1, PipelineInvariant, PTL

\* The registry holds exactly the continuations a resolver waits for, within both limits, and its
\* counters account for every one it took: register and resolve, interleaved with completers.
THEOREM RegistryIsExact == Spec => []RegistryExact
  <1>1. PipelineInv => RegistryExact
    BY DEF PipelineInv, RegistryInv, HandlerInv, RegistryExact
  <1> QED
    BY <1>1, PipelineInvariant, PTL

\* At most one call on a continuation's completer returns true: deliver's sync.Once decides among
\* any number of racing calls.
THEOREM OneAccepted == Spec => []AtMostOneAccepted
  <1>1. ASSUME PipelineInv PROVE AtMostOneAccepted
    <2>1. ASSUME NEW c \in Conts
          PROVE  Cardinality({k \in Callers[c[1]] : call[c][k] = "true"}) <= 1
      <3> DEFINE W == {k \in Callers[c[1]] : call[c][k] = "true"}
      <3>1. \A k, m \in W : k = m
        BY <1>1 DEF PipelineInv, CallInv
      <3>2. CASE W = {}
        BY <3>2, FS_EmptySet
      <3>3. CASE W # {}
        <4>1. PICK k : W = {k}
          BY <3>1, <3>3
        <4> HIDE DEF W
        <4>2. Cardinality(W) = 1
          BY <4>1, FS_Singleton
        <4> QED
          BY <4>2 DEF W
      <3> QED
        BY <3>2, <3>3
    <2> QED
      BY <2>1 DEF AtMostOneAccepted
  <1> QED
    BY <1>1, PipelineInvariant, PTL
=============================================================================
