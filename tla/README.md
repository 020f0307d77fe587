# go-keylane: TLA+ models, checks and proofs

go-keylane is an in-memory Go library that runs keyed jobs: a key is hashed to
a shard, a shard has one bounded queue per lane, and a pool of workers serves
the shards that have work. This directory models its core, model-checks it
with TLC on small instances and proves the main results with TLAPS for every
configuration. `PROJECT.json` lists the components, the runs, the mutants that
show that every property can fail, the source lines behind every definition,
the findings, the hazards and the theorems.

## 1. Inventory

| Component | State | Operations | What is hard | Correct when | Module |
|---|---|---|---|---|---|
| Lane ring buffer (`internal/core/lane_queue.go`) | slice, head, tail, size | push, stampNewestAccepted, pop, popN | wrap-around, exactly full, limits of popN | a bounded FIFO queue, popped slots cleared | `LaneQueue` |
| Shards and ready protocol (`shard.go`, `enqueue.go`, `scheduler.go`) | lane queues, `Ready`, `ReadyCh` | enqueueIntoShard, announce, receive, requeue | the flag and the channel change in different steps, by different goroutines | one announcement per ready shard, none lost, the channel never full | `Scheduler` |
| Submission (`submit.go`, `try_submit.go`, `submit_pipeline_continuation.go`) | the caller's context | Submit, TrySubmit, enqueueContinuationJob | contexts that end between the push and the send | an accepted job runs | `Scheduler`, `Admission` |
| Workers (`worker.go`, `process_shard.go`) | batch, hasMore, in-flight gauges | collect, run, finish, abandon, requeue | jobs run outside the lock while the shard goes on; cancellation in mid-batch | a job runs once; the gauges are exact; no lane starves | `Scheduler` |
| Lifecycle (`lifecycle.go`, `shutdown.go`, `drain.go`, `stop.go`) | `state`, `stopDone`, the worker context | Start, Stop | overlapping Stop calls, expiring contexts, a scan that takes one lock at a time | drained means empty, stopped means quiet, Stop returns | `Scheduler` |
| Retry (`retry_policy.go`, `deadline_budget.go`, `retry_suppression.go`, `idempotency.go`, `failure.go`) | attempt, budget, counters | DecideRetry, DecideRetrySafety, suppression, runWithRetry | a context that ends during the attempt, the decision or the sleep; three judges one after the other | no unsafe or refused attempt runs; the future is completed | `RetryPolicy`, `RetryLoop` |
| Backends (`backend_*.go`) | in-flight leases of a lane | acquire, Release | many acquirers at the limit, a release that is made twice | the limit holds; nobody sleeps with a lease | `RetryLoop` |
| Futures (`future.go`, `submit_value.go`, `submit_request.go`) | value, done channel | complete, Await | failures on every path | completed once | `RetryLoop`, `Pipeline` |
| Continuations (`continuation*.go`, `submit_pipeline*.go`) | registry, outcome channel, done channel | yield, register, deliver, cancel, resolve, resume | completer, cancellation, deadline, registration and a refused resume race | one driver per request, one outcome per continuation | `Pipeline` |
| Hot keys, per-key admission (`hotkey_*.go`, `per_key_policy.go`) | bounded tracker slots and index | observe*, evaluate, plan, detect | observations out of order, eviction, stale entries | a key answers for its own recent history | `HotKeys`, `Admission` |
| Admission, overload (`admission_policy.go`, `overload_policy.go`, `pressure.go`) | policy snapshots | evaluate, update | the policy changes while a submission is judged | every submission is counted once under what refused it | `AdmissionPolicy`, `Admission` |
| Lane counters (`lane_counters.go`) | atomics | record, snapshot | the order of the loads | accepted + rejected never exceed submitted | `Admission` |
| Quota policy (`quota_policy.go`) | snapshot pointer, version | UpdateQuotaPolicy, UpdateLaneQuota | copy, check and publish in different critical sections | whole snapshots, no lost update | `QuotaEvaluation`, `AdaptiveQuota` |
| Adaptive quotas (`adaptive_quota_*.go`) | cooldowns, last decisions, the loop | tick, evaluate, apply, Start, Stop | reads at different moments, a manual update in between, Stop during a tick | decisions from current quotas; quiet after Stop | `QuotaEvaluation`, `AdaptiveQuota` |
| Shard pressure, scaling signals (`shard_pressure_*.go`, `scale_signal.go`, `hotspot.go`) | the calculator's window | collect, summarise, ScaleSignal | pollers that overtake each other; two judges of the same shards | scaling only after sustained pressure; the two agree | `PressureSignals`, `ScaleSignal` |
| Hooks, debug snapshots, `httpkeylane`, `metrics/prometheus`, `tracing/otel` | | adapters, formatting | I/O | | not modelled |

Components meet in few places. Callers and workers share a shard only under
its mutex, and otherwise only `ReadyCh`, the atomic gauges and the policy
pointer. `Stop` shares `state` with the callers under `mu`, which `Enqueue`
holds for reading from its check to its push. The continuation resolver calls
back into `enqueueContinuationJob`, so every job reaches a shard through
`enqueueIntoShard`. The hot key tracker of a shard is told of a job by its
submitter and its worker, each in critical sections of the tracker's own lock,
so it sees the two in any order. The control plane (quota updates, adaptive
controller, scaling signal) reads the counters and depths the data plane
writes, and writes one thing the data plane reads: the quota policy.

## 2. Modules

| Module | Role |
|---|---|
| `BoundedFIFO` | what a lane promises: a bounded FIFO queue of stamped jobs |
| `LaneQueue` | the ring buffer, one action per locked operation |
| `LaneQueueProofs` | its invariant and its refinement of `BoundedFIFO` |
| `JobLifecycle` | what the scheduler promises about a job: accepted, run once, gone; dropped only after cancellation |
| `Scheduler` | submission, shards, workers, quota updates, Start and Stop |
| `SchedulerProofs` | the ready protocol and the wakeup theorem; the gauges are exact; the type invariant |
| `SchedulerStopProofs` | the drain scan is sound; a stopped scheduler is quiet; the refinement of `JobLifecycle` |
| `RetryPolicy` | retry, duplicate safety, suppression and budget as pure operators |
| `RetryLoop` | job bodies that retry their handler over a backend lease (uses `RetryPolicy`) |
| `RetryLoopProofs` | leases, duplicate safety, suppression and counters of the retry loop |
| `Pipeline` | pipelines with continuation stages and their retries (uses `RetryPolicy`) |
| `PipelineProofs` | one driver per request, the registry, one accepted outcome |
| `Fractions` | exact ratios |
| `HotKeys` | the tracker of one shard: every observation and every judgement as an operator on it |
| `AdmissionPolicy` | overload and lane admission: validation, snapshots, decisions |
| `Admission` | the way of a submission through the checks into a lane and out of it (composes `HotKeys` and `AdmissionPolicy`) |
| `AdmissionProofs` | what the tracker, the counters and the reasons of a refusal rest on; what observers of a tracker are told |
| `QuotaEvaluation` | quota snapshots and the adaptive rules as pure operators |
| `PressureSignals` | shard pressure, summary and scaling triggers as pure operators |
| `DataPlane` | time and the load the control plane looks at |
| `AdaptiveQuota` | quota updates, the adaptive controller, Queue.Start and Queue.Stop |
| `ScaleSignal` | the scaling calculator and its pollers |
| `ControlPlane` | `AdaptiveQuota` and `ScaleSignal` over one `DataPlane` |
| `AdaptiveQuotaProofs` | no update is lost; a stopped controller is quiet; an adaptive change is one step from the current quota; scaling is sustained; signal and summary agree |
| `OperatorLemmas` | sums over finite sets, ratios, least elements and first elements of an order: the lemmas the proofs share |
| `MC*` | the instances TLC checks |

### Scheduler

`Scheduler` keeps a lane as a sequence; that is sound because `LaneQueue`
implements `BoundedFIFO`. An action is one critical section or one channel
operation, which is where goroutines can interleave:

- `EnqueueIntoShard` is the body of the shard lock on the caller's side, and
  `Enqueue` adds the state check, which is under the same read lock as the push.
  `Submit` goes on to a select of `SubmitSend` and `SubmitCancelled`; `TrySubmit`
  and `EnqueueContinuation` go on to `TrySend`, whose ELSE branch is the code's
  `default:`.
- `CollectBatch` is the body of the shard lock on the worker's side: it pops the
  quotas of the snapshot it loaded, decides `hasMore`, clears `Ready` and counts
  the batch. `RunJob` and `FinishJob` are the start and the end of `job.Run` (the
  deferred function included), `AbandonBatch` the `ctx.Err()` branch, `Requeue`
  and `RequeueCancelled` the select of step 5.
- `StopBegin` is Stop up to the unlock, `DrainBegin`, `DrainScan` (one shard at a
  time) and `DrainVerdict` are `isDrained`, `DrainTick` the ticker's select,
  `StopCancel`, `WaiterDone`, `StopReturn` and `StopReturnOther` the rest.
- `CancelCaller`, `CancelStartCtx` and `ExpireStop` are the environment: the ends
  of the three kinds of context.

The three gauges of a finished job are decremented in one step. The code does it
with three atomic operations; `isDrained`, the only reader on which control
depends, reads one of them.

A member of `Jobs` is a caller and its outstanding job. It may submit again when
its job has left, so behaviours are infinite but at most that many jobs are
outstanding. Timing, counters, hooks, the pooled batch slice (its capacity is at
least the sum of the quotas) and the hot key tracker do not influence these
steps and are left out.

### RetryLoop and RetryPolicy

`RunBody` enters the loop, `AcquireBackend` takes a lease or fails with the error the
loop classifies, the handler returns one of the outcomes its request allows or releases
its lease early, and the decision (`DecideAfterFailure`) is one action because nothing
another goroutine could change is read twice in it: classification, `DecideRetry`, `DecideRetrySafety`,
`DecideRetrySuppression`, the counters, the trace. `startedAt` is the loop's `now`:
the time before the attempt, which the decision uses (a finding). What suppression
reads of the queue is any of `Snapshots` at that moment, and a hook may answer
anything or panic. A duration beyond `DurationMax` becomes what the platform's
float conversion makes of it.

### Pipeline

An attempt of a request is a thread whose `pc` says who drives it: a queued job, a
worker, the resolver goroutine or a backoff. `deliver` is two steps, `CheckCall`
and `Send`, because it can be overtaken between its checks and its send; the resolver's
receive, its three drains and the resolution are steps of their own for the same reason. The
queue is what the pipeline sees of it: a job is taken or refused for a full lane or a
stopping queue, and a cancelled worker drops it. That stands on `Scheduler`'s
`ImplementsJobLifecycle`.

### Admission and HotKeys

A submission is a caller's walk through overload check, lane admission, per-key
admission, state check, push and observation; each access to a tracker is a critical
section and a step. A worker's walk is dequeue, start, end or drop. `HotKeys` has the
tracker as a record of slots and index, so that `Admission` and the two read-only paths
(retry suppression, debug view) are the same operators on the same state. Policies may
be replaced between any two steps; statistics are loaded counter by counter.

### ControlPlane

`AdaptiveQuota` has one update call per writer (`call`) through copy, check and publish;
the controller uses the same steps for its own updates. A tick is `ReadSignals`,
`ReadQuotas`, `Decide`, the update, `Applied`, since other goroutines publish in between.
Start and Stop are split where the code leaves `c.mu`. `ScaleSignal` splits a poll into
the time, the reading and the calculation under the lock. The data plane is a script of
situations, each a set of depths, waits and counters that the scheduler could show.

## 3. Runs

| Run | Instance | Shows |
|---|---|---|
| `lanequeue` | capacity 4, 3 jobs, every limit and room up to 5 | indices in range, one consistent window, refinement of `BoundedFIFO` |
| `scheduler_safety` | 2 shards, 1 lane of size 2, 2 workers, 4 callers (3 on one shard), 1 updater with two policies, 1 cancellable caller, cancellable Start context | `TypeOK`, `SingleAnnouncement`, `ChannelHasRoom`, `NoLostWakeup`, `GaugesExact` |
| `scheduler_shutdown` | 2 shards, 2 workers, 3 callers, 2 Stop calls with both drain modes and expiring contexts | `DrainedMeansEmpty`, `StoppedMeansQuiet` |
| `scheduler_liveness` | 1 shard, 2 lanes, 2 workers, 3 callers, 1 draining Stop, fairness | `ImplementsJobLifecycle`, `QueuedJobRuns`, `StopReturns` |
| `scheduler_lost_wakeup` (violation) | 1 shard, 1 worker, 2 callers, 1 cancellable, fairness | `AcceptedJobRuns` fails |
| `scheduler_nil_drain` (violation) | 1 shard, 1 worker, 2 draining Stop calls with expiring contexts | `NilDrainMeansProcessed` fails |
| `retry_loop` | 2 jobs; one idempotent with 3 attempts, deadline 3 and suppression, beside one that is repeated at once, asks hooks, lacks its key, or has no policy; one lease; calm and pressured queue; fairness | `TypeOK`, `LeaseLedger`, `NoLeaseWhileIdle`, `NoUnsafeDuplicate`, `RetryLedger`, `SuppressedIsFinal`, `EveryFutureCompletes` |
| `retry_stale_budget` (violation) | the same, with attempts that take up to 2 ticks | `RetryFitsBudget` fails |
| `pipeline` | a request with a deadline and 2 completer calls; or one with 2 stages and 2 attempts that may be cancelled; or two requests for one pending place and one queue place; Stop and cancelled workers; fairness | `TypeOK`, `OneDriver`, `RegistryExact`, `AtMostOneAccepted`, `EveryPipelineEnds` |
| `pipeline_published` (violation) | the same without fairness | `PublishedIsOwned` fails |
| `admission` | 2 callers, up to 4 submissions of 3 keys on a shard with 2 tracker slots and 2 lanes of size 1; time, policy updates, Stop or statistics by workload | `TypeOK`, `IndexExact`, `InflightJustified`, `QueuedDriftBounded`, `MitigationIsolated`, `ObserversAgree`, `LaneLedger`, `SnapshotOrdered`, `QuietKeyAdmitted` |
| `control_plane` | 3 lanes; controller with 2 callers, then with 2 Stop calls or a cancelled context; 2 pollers; every one of 864 loads of two shards; fairness | `ScaleSustained`, `SummaryCoversSignal`, `NoLostUpdate`, `AdaptiveFromCurrent`, `QuietAfterStop`, `ControllerStops` |

Bounds. Two shards are enough for one shard's announcement to meet another's in
the channel and for a drain scan to be overtaken; three callers on one shard with
queue size 2 make the lane full, leave work behind a quota of 1 and let a second
worker take a shard whose first batch still runs. Quotas of 1 and of 2 occur, and
change under way. One worker beyond the one that is busy is enough for every pair
of workers. Workers are symmetric; jobs are not, they differ in key and lane. The
liveness run has no symmetry.

The other runs take their cases apart into workloads: one behaviour has one workload,
so that the environment of a case (time, updates, Stop, statistics) does not multiply
with the others. In `retry_loop` two jobs contend for one lease, the deadline ends an
attempt, a decision or a sleep, and `WorkHorizon` bounds the time handlers spend; three
attempts are enough for a retry to follow a retry. In `pipeline` two calls race on one
continuation; the retried request meets a late completion of its first attempt; the pair
of requests fills the registry and the lane, so that registration and resume are refused.
In `admission` three keys on two slots force eviction and reuse, and a lane of size 1
makes queue-full rejections; windows and cooldowns of 1 and 2 ticks within at most 3
ticks let entries expire before, during and after a cooldown. In `control_plane` the
controller raises a quota, lowers one twice with a cooldown in between, and loses a race
against a manual update; `Word` is 256 instead of 2^64, small enough to keep numbers
small and large enough that only a subtraction below zero wraps. The 864 loads give each
shard three depths, two backlogs, two in-flight counts and three waits, below, at and
above the thresholds.

Deadlock is checked in `lanequeue`, `scheduler_liveness` and `admission`. The others may stop
for good, as the library may: when the application cancels the Start context the
workers exit and nothing takes the queued jobs any more (`scheduler_safety`), and
a queue that is stopped before it is started keeps what it has buffered
(`scheduler_shutdown`, `scheduler_nil_drain`); in `scheduler_lost_wakeup` the stall
is the finding. A retry loop, a pipeline and the control plane's workloads come to an
end when their requests, calls and time are used up.

Fairness. `FairSpec` assumes weak fairness of each goroutine's own steps inside
the library: a caller inside Submit, a worker, a Stop call, the goroutine that
waits. Go's scheduler is preemptive and every mutex is released, so a goroutine
that can go on does; `FinishJob` under fairness says that job functions return.
No call, cancellation, expiry or quota update is assumed to happen.
`RetryLoop` assumes that time passes and that each job body goes on (handlers return,
timers fire). `Pipeline` assumes that what can be done for a request is done, by its
worker, its resolver or the operation behind its continuation; that such an operation
calls its completer is the contract of a continuation without a deadline
(`docs/continuations.md`). `ControlPlane` assumes weak fairness of Start, of each Stop
and of the controller inside a tick, and strong fairness of `LoopExit`: the select of
the loop finds its ticker and `ctx.Done` ready together, and Go picks at random, so
`ctx.Done` is taken in the end. The controller's weak fairness is written out
(`ControllerRuns`) because TLC would otherwise evaluate ENABLED of a whole evaluation
in every state.

### Findings

1. `scheduler_lost_wakeup`. `Submit` pushes its job and sets `Ready`, and then
   selects between announcing the shard and `ctx.Done()`. If its context has ended
   by then, Go may take the second case although the channel has room. The shard
   is then marked ready and announced by nobody; later pushes see `Ready` and
   announce nothing either. Jobs of other callers on that shard are accepted with
   nil and never run. `NoLostWakeup`, proved in general, says that this and the end
   of the workers' context are the only ways to lose a wakeup.
2. `scheduler_nil_drain`. A second `Stop(WithDrain(true))` returns nil when the
   first one is over, also when the first one gave up draining because its context
   expired and jobs were left in the queues.

3. `retry_stale_budget`. `runWithRetry` gives `DecideRetry` the time at which the failed
   attempt began, so a slow attempt is followed by a retry that no longer fits the
   deadline, although `docs/deadline-budget.md` says the remaining time is checked before
   each retry. The pipeline's own decision uses the time after the failure.
4. `pipeline_published`. A completer call that has passed its checks may send its outcome
   after the resolver, woken by the context, has drained the channel for the last time.
   The call returns true, the future is cancelled, and nobody counts the outcome as late,
   against the comment in `deliver`.

### What the model showed without a run of its own

- Start and Stop of the adaptive controller may overlap badly. Stop that comes before
  Start's locked section returns at once and the loop outlives it; Stop that read no
  cancel function and then sees `running` waits for a loop that nobody cancels. The
  properties are about Stop calls that begin when Start has returned.
- A tick with MaxAdjustmentsPerTick of 2 or more applies one change only: the second one
  expects the version that the first has replaced. A manual quota above a lane's maximum
  is lowered by a step and may stay above it. The cooldown is measured from tick to tick.
- Concurrent `ScaleSignal` calls may present older counters than the last sample; the
  unsigned difference wraps, the rate is 1, and the sample is unhealthy.
- Wait maxima and queue-full and overload counters are totals since the start, so a lane
  that was full once is never raised again, a background lane that shed once is lowered to
  its minimum, and one long wait keeps the scaling signal unhealthy.
- A rejection by admission counts `rejected` without `submitted`: accepted plus rejected may
  exceed submitted when policies reject. `SnapshotOrdered` is about queue-full rejections,
  for which the order of the loads is right.
- The count of queued jobs of a hot key may stay too high after an enqueue that was observed
  late, until the entry expires; it may throttle a key that has nothing queued.

## 4. Proofs

The theorems hold for every value of the constants that satisfies the named assumptions
of the modules, and those say what the code validates or normalises before it uses it:

- `LaneQueue`, `Scheduler`: sizes are positive (`config.go` rejects others), quotas are
  positive (`quota_policy.go`), a key has a hash and a lane, the drain argument is a
  Boolean, and there are finitely many workers (the gauges count sets of their jobs).
- `RetryLoopAssumption`: finitely many jobs, retry and suppression policies that the
  code's validation accepts, failures of the classes the code knows, a limit per backend.
- `PipelineAssumption`: at least one stage per request (`validatePipeline` refuses an
  empty pipeline), retry policies of the policies' type, limits of the registry and of the lane that are
  numbers. There may be any number of requests and of completer calls.
- `AdmissionAssumption`: hot-key, per-key, admission and overload configurations that New
  accepts, finitely many callers, submissions and lanes, and workloads in which each
  submission is made once (a `Submit` call is one submission; the model names it).
- `QuotaAssumption`: lanes are registered with quotas from 1 to the maximum.
  `AdaptiveAssumption`: an adaptive configuration and the lane policies beside it are flags
  and numbers; that they are valid is no assumption but what New checks, in `AdaptiveInit`.
- `ControllerAssumption`: the controller is none of the callers. `ScaleAssumption`: a
  signal configuration is a flag and numbers; that the normalised one is valid is no
  assumption but what New checks, in `ScaleInit`. `PressureAssumption`: a situation is one
  the scheduler can show (`IsView`: every shard has a queue for every lane, depths, gauges
  and counters are natural numbers), and a pressure configuration is a flag and numbers,
  which the model normalises as the code does.

**Shared lemmas** (`OperatorLemmas`). The depth of a shard and the totals of a tracker are
sums of a function over a finite set (`SumFunction`, in the end a recursive function of sets).
The library's induction over finite sets takes the induction property as an operator, which
the provers cannot instantiate; `FiniteInduction` states it for a Boolean function of the
subsets instead and proves it by the smallest counterexample, and `FiniteRecursion` shows in
the same way that a function that takes one element after the other out of a finite set
exists. `SumNat` follows: a sum of natural numbers is one, and no term exceeds it. The
other lemmas are about ratios (`AtLeast` is total and transitive by cross multiplication,
`Larger` is one of its arguments and reaches what either reaches), about `Min` and `Max`
(`LeastOf`, `PairMin`, `PairMax`), and about the first element of a strict order on a finite
set (`FirstOfOrder`).

**Ring and scheduler** (`LaneQueueProofs`, `SchedulerProofs`, `SchedulerStopProofs`)

- `RingInvariant`: `Spec => [](TypeOK /\ RingConsistent)`. The conjunction is
  inductive; the work is in four lemmas on indices modulo the capacity. `RingTyped` is
  its first half, the indices in range.
- `RingImplementsFIFO`: `Spec => ImplementsFIFO`, with the window read from head as
  the refinement mapping.
- `AnnouncedOnce`: `Spec => []SingleAnnouncement`. The inductive invariant
  `TokenInv` adds the types of the protocol's variables and "a worker that is about
  to requeue has hasMore set". `NobodyGains` and `HolderAnnounces` are the two shapes
  of step; the push, the receive and the pop have a lemma each.
- `AnnouncementsFindRoom`: `Spec => []ChannelHasRoom`, from `TokenInv` by the
  pigeonhole principle: the shards in the channel are distinct and differ from the
  one about to be sent.
- `WakeupsNotLost`: `Spec => []NoLostWakeup`. `NoLostWakeup` is not inductive. The
  invariant `WakeInv` splits it into work => ready and ready => held or excused, and
  adds that a caller that owes an announcement still has its job queued (so that its
  giving up leaves a witness) and that a caller on its way to Enqueue has nothing
  queued. It uses `AnnouncementsFindRoom`'s lemma: a full channel would lose the
  announcement of a non-blocking send.

- `GaugesAreExact`: `Spec => []GaugesExact`. A gauge is the size of a disjoint union
  over the workers (`Total`), and a step that replaces one worker's batch changes it by
  the difference (`TotalChange`, `BatchStep`). `GaugeInv` adds what makes the difference
  right: a worker has jobs in its batch exactly while it is in the run loop, so a pop
  replaces an empty batch and a worker that changes its shard counts for none.
- `SchedulerTypes`: `Spec => []TypeOK`: lanes and channel within their capacities, no
  gauge negative. That a gauge is a natural number follows only from its exactness,
  so the type invariant is proved after the gauges.
- `DrainIsSound`: `Spec => []DrainedMeansEmpty`. `ScanInv` says that a scan runs in a
  closed scheduler only and that the shards it has passed are empty. They stay empty
  because every way to queue a job checks the state under the lock that Stop takes
  (`EmptyForGood`), and a gauge that is zero at the second look means that no worker
  has a job, because it is exact (`ZeroMeansIdle`).
- `StoppedIsQuiet`: `Spec => []StoppedMeansQuiet`, from `QuietInv`: the waiter runs in
  a closed scheduler only, so Start cannot come after it.
- `JobsLiveOnce`: `Spec => ImplementsJobLifecycle`, the refinement: through every
  interleaving a job is accepted before it runs, runs at most once and by one worker, and
  is dropped only when the workers' context has ended. `PlaceInv` is the reason. A job
  occurs at most once in its lane (`LanesTidy`) and in a batch (`BatchesTidy`), it is in
  one place only, a lane or the batch of one worker, and a caller on its way to Enqueue has
  no job in the system (`OnePlace`). The phase of a job then depends on its own place
  alone (`PhaseIs`), so a step moves the phase of one job (`PhaseMoves`) or of none
  (`PhaseKept`), except the pop and the abandonment, which move those of a batch
  (`PlaceCollect`, `PlaceAbandon`).

**Retry loop** (`RetryLoopProofs`). The inductive invariant `RetryInv` is the types and,
for each job by itself, where its future, its attempt, its trace and its lease stand:
`FutureInv`, `AttemptInv`, `TraceInv`, `LeaseInv`. A step of one job leaves the others'
alone, so each action is judged for one job.

- `Typed`, `LeaseOnlyWhileRunning` (`NoLeaseWhileIdle`), `UnsafeRunsOnce`
  (`NoUnsafeDuplicate`) and `SuppressionIsFinal` (`SuppressedIsFinal`) follow from it. The
  argument for duplicate safety is that a second attempt begins only behind a backoff, a
  backoff only behind the verdict of `DecideRetrySafety`, and the declaration it judged
  does not change in between.
- `LeaseAccounting` (`LeaseLedger`): the backend's in-flight count is the number of jobs
  that hold a lease, and never above the limit. `CardChange` counts a set that gains or
  loses one job.
- `CountersTellTheStory` (`RetryLedger`): the counters of attempts, retries and stops are
  the numbers of jobs and attempts they claim to count. Each step is `Quiet`, `Starts` an
  attempt, `Ends` one or `Backs` off, and each of the four moves both sides alike.

**Pipelines** (`PipelineProofs`). `PipelineInv` relates the request's own program counter
to the registry (`RegistryInv`), to the goroutines that may act for it (`ThreadInv`,
`DriverInv`, `HandlerInv`) and to the completer calls (`CallInv`). A step either leaves the
set of drivers as it is, drops one, ends the request or hands it over; and it leaves the
registry, adds to it or removes from it.

- `Typed`; `OneDriverAlways` (`OneDriver`): worker, resolver and resume never act for a
  request at the same time; `RegistryIsExact` (`RegistryExact`): the pending continuations
  are those of the requests that wait; `OneAccepted` (`AtMostOneAccepted`): of the calls of
  one continuation's completer at most one is answered with true. On the way the proof
  shows that the branch of `resolve` for an outcome that is already there is never taken.

**Admission** (`AdmissionProofs`).

- `Typed` and `IndexStaysExact` (`IndexExact`): index and slots of the tracker describe the
  same entries, through eviction, reuse and expiry. `Good` and `Exact` are stated for one
  tracker; a lemma per operation of `HotKeys` (`Expired`, `Cleared`, `Placed`, `Evaluated`
  and the observations) shows what it does to them.
- `CountersAddUp` (`LaneLedger`): the lane counters equal the submissions that have passed
  the corresponding point, from `Calls`, which says where each submission is.
- `SnapshotsAreOrdered` (`SnapshotOrdered`): a reader that loads the counters one at a time,
  against callers that go on, still sees accepted and queue-full rejections within
  submitted. `SnapInv` keeps what was loaded below what the counter is now, which works
  because the counters only grow (`CountersGrow`) and are loaded in the right order.
- `InflightIsJustified` and `QueuedDriftIsBounded`: the counts of a hot-key entry are never
  above the number of submissions of that key that can account for them. `KeyInv` says that
  a tracked key is in its own shard and that its entry is `Backed`.
- `QuietKeysAreAdmitted` (`QuietKeyAdmitted`, an action property) and
  `MitigationStaysIsolated` (`MitigationIsolated`): a key with no history is not refused for
  being hot, and whoever is refused for being hot has a history of its own key. What a
  reason rests on only grows afterwards (`Lasting`, `Grow`), so it is enough to judge it at
  the moment it is given (`Refusal`).
- `ObserversTellTheTruth`: `Spec => []ObserversAgree`. It needs of the trackers only that they
  are `Good` and empty unless enabled, which `TypesHold` has. `SkippedIsExpired` is the
  heart: an observer that skips the stale entries sees the entries, the index and the totals
  that are left once admission has removed them, so the plan for a key is the decision
  (`PlannedIsEvaluated`). For the debug snapshot, `FirstByScore` shows that "higher score,
  then lower slot" is a strict order, so that there is a first candidate and none scores
  higher (`CandidatesLed`); `SnapshotAgrees` compares it with the status of a single key.

**Control plane** (`AdaptiveQuotaProofs`)

- `UpdatesNotLost`: `Spec => NoLostUpdate` (`ControlPlane`), for all lanes, callers and
  workloads. `UpdateInv` says that the version an update expects, and the version of the
  controller's snapshot, are not newer than the policy's, and that an input whose expected
  version is still the policy's is that policy with one lane replaced. A publication moves
  the version past every version that was read before, which is why the second part
  survives it. `WhoPublishes` shows that no other step publishes.
- `StoppedControllerIsQuiet`: `Spec => QuietAfterStop`. `QuietInv` adds that the loop is
  launched once, that a living loop is visible to Stop (`running` and the wait group), that
  the controller is in an update only while its loop waits for it, and that a Stop past the
  controller has left no living loop. It assumes that the controller is none of the callers.
- `ScalingIsSustained`: `Spec => []ScaleSustained`. The calculator only has a count and a
  time, the property is about the samples behind them. `WindowsBacked` says that for every
  number up to the count there is a chain of that many consecutive unhealthy samples, the
  last of which opened the window the calculator is in. An unhealthy sample that closes
  the window continues every chain (`ChainContinued`), a healthy one ends them, and one
  within the window leaves them (`ChainKept`). It does not matter what the triggers say, nor
  that a poller that was overtaken brings an older time: such a sample falls within the
  window.
- `AdaptiveChangesAreCurrent`: `Spec => AdaptiveFromCurrent`. A decision is made from the
  quotas of one moment and published at a later one. `AdaptInv` says that the decisions of a
  tick stand as long as nobody has published since its snapshot (`DecisionsStand`: the old
  quota is the current one, the new one a step away and within the lane's bounds, the
  cooldown over), that the update the controller waits for is the decision it has come to
  (`DecisionSent`), and that its record of the last change of a lane is right except between
  a success and the moment it hears of it (`RecordRight`). The version check at the
  publication then makes the decision a current one. What an evaluation decides
  (`CandidateMoves`, `CandidateReasons`, `Evaluated`) does not depend on the order of the
  candidates, so the sort in `ChosenCandidates` stays unopened; that the first of a lane's
  rules decides needs the least element of a set of numbers (`LeastOf`). It assumes of a
  configuration what New has validated, as `AdaptiveNumbers` and `LaneBounds` derive.
- `SummaryAgreesWithSignal`: `Spec => []SummaryCoversSignal`. `ReadingInv` says that what a
  poller holds between its reading and its calculation, and what the summary shows, are
  functions of the situation each has seen (`ReadFrom`, `SummaryFrom`), however the load
  moves on; it is what makes the two comparable when they have seen the same. The rest is
  about the operators. Of one shard the summary measures everything that the signal measures
  and its refusals besides, so its ratio reaches every threshold that the signal's reaches
  (`SnapshotReaches`); the hot shards of the signal are therefore among those of the summary
  (`HotSetsNested`) and no more numerous (`SignalCounts`). Enough of them make the summary
  call the pressure distributed (`ReadingsAgree`), and no classification sets both flags
  (`FlagsExclusive`). `PressureNumbers` derives from the normalisation what it needs of the
  thresholds.

What the proofs changed in the model. The arms of a TLA+ `CASE` have no order; the Go code
they translated has. TLC takes the first arm that holds, so the runs did not see it, but
nothing could be proved of the operators whose guards overlap. `DecideRetry`,
`DecideRetrySafety`, `DecideRetrySuppression`, `resolveRetryPolicy`, the classification of
failures and the retry loop's verdicts are now `IF`/`ELSE` chains in the order of the code.
`evaluateScaleTriggers` returns the priorities of the triggers that fired and `calculate`
takes the smallest, as the code's loop does; `LaneOutcome` takes the first rule of a lane
that has an outcome. Both had been the head of a selected sequence, of which the provers know
nothing. `LaneOutcome` and `ChosenCandidates` are now operators of their own. Depths, totals
and admission counters are sums of functions (`SumFunction`) instead of folds over sequences;
what a poller has read is a record that keeps apart which situation was seen and what was made
of it. `detectHotKeyCandidates` had sorted its candidates with equal ones in slot order. The
code's selection sort swaps, so that is true of the first candidate only; the operator now
says what holds, the first candidate and how many are listed, and begins with the code's
check that the tracker is enabled.

Only model-checked:

- all liveness properties: `QueuedJobRuns`, `StopReturns`, `EveryFutureCompletes`,
  `EveryPipelineEnds`, `ControllerStops`. Reasoning about fairness and ENABLED is beyond the
  installed provers;
- the properties of the four runs that expect a violation.

## 5. Plan

Modelled is what section 1 lists, and every safety property of the passing runs, invariant,
action property or refinement, is proved. What is left are the hazards that have no property: a
manual `UpdateQuotaPolicy` that overwrites another one, Stop during Start of the controller,
the exponential backoff computed in floating point, and the unsigned subtraction of a poller
that was overtaken.

## 6. Not modelled

- HTTP, Prometheus and OpenTelemetry adapters, hooks and their panics outside retry, debug
  snapshots and trace formatting: they change no state of the library.
- Job pooling and allocation; timing counters and their averages, except where a decision
  reads them.
- Backend pressure reports and the SQL adapter: they label an outcome and read no state back.
- `Await`: it waits for the done channel or its context and changes nothing.
- Rounding of float64 ratios (they are exact fractions) and whole-number durations; delays
  beyond the largest Duration are modelled but reached by no run.
- The top-level `Config` and the assembly of a `Queue`; the policies' own validation is
  modelled beside each policy.
