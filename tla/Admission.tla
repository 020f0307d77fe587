----------------------------- MODULE Admission -----------------------------
(***************************************************************************)
(* The way of a job through Submit or TrySubmit: overload policy, lane     *)
(* admission, per-key admission, enqueue (submit.go, overload.go,          *)
(* admission.go, per_key_admission.go, internal/core/scheduler.go), with   *)
(* workers taking jobs out again (process_shard.go), policies replaced and *)
(* the queue stopped meanwhile, and the statistics read counter by counter *)
(* (lane_counters.go).  Callers, workers, updaters and the reader          *)
(* interleave between the critical sections of the code: every access to   *)
(* the hot key tracker is a step of its own, so each of them may see what  *)
(* another has done to it.                                                 *)
(***************************************************************************)
EXTENDS HotKeys, AdmissionPolicy

CONSTANTS
    Reqs,            \* the submissions
    KeyOf, LaneOf,   \* submission -> its key, its lane
    Shards, ShardOf, \* the shards; key -> its shard
    Callers,         \* goroutines that submit
    Workloads,       \* what the environment may do: [scripts, ticks, stop, update, snapshot]
    QueueSize,       \* Config.QueueSizePerLane
    OverloadEnabled, AdmissionEnabled,
    PerKeyAdmission, \* Config.PerKeyAdmission
    OverloadPolicies, AdmissionPolicies   \* the arguments updates are called with

\* New normalises and validates the configuration before anything is built from it; a submission is made once.
ASSUME AdmissionAssumption ==
    /\ QueueSize \in Nat \ {0}
    /\ HotKeyConfig \in [enabled : BOOLEAN, maxTracked : Int, window : Int, depthRatio : Int, waitRatio : Int,
                         maxCandidates : Int]
    /\ HotKeyConfig = NormalizeHotKeyConfig(HotKeyConfig)
    /\ ValidateHotKeyConfig(HotKeyConfig)
    /\ PerKeyAdmission \in [enabled : BOOLEAN, minStatus : STRING, defaultAction : STRING, maxQueued : Int,
                            maxInflight : Int, pressureRatio : Int, rejectRatio : Int, cooldown : Int, recovery : Int]
    /\ ValidatePerKeyAdmissionConfig(NormalizePerKeyAdmissionConfig(PerKeyAdmission), HotKeyConfig)
    /\ ValidAdmissionPolicy(defaultAdmissionPolicy(Cardinality(Shards), QueueSize))
    /\ ValidOverloadPolicy(defaultOverloadPolicy(Cardinality(Shards), QueueSize))
    /\ IsFiniteSet(Reqs) /\ IsFiniteSet(Callers) /\ IsFiniteSet(Lanes)
    /\ KeyOf \in [Reqs -> Keys] /\ LaneOf \in [Reqs -> Lanes] /\ ShardOf \in [Keys -> Shards]
    /\ \A w \in Workloads :
        /\ w.scripts \in [Callers -> Seq(Reqs)] /\ w.ticks \in Nat
        /\ \A d, e \in Callers : \A i \in DOMAIN w.scripts[d] : \A j \in DOMAIN w.scripts[e] :
              w.scripts[d][i] = w.scripts[e][j] => d = e /\ i = j

VARIABLES
    load,         \* the workload
    now,          \* time.Now(), from 1
    state,        \* "running" or "stopping"
    cancelled,    \* the context of the workers
    overload, admission,   \* the active policy snapshots
    upd,          \* the update in progress: [pc, policy]
    lanes,        \* shard -> lane -> the jobs queued
    tracker,      \* shard -> its hot key tracker
    shardWait,    \* shard -> shardQueueWait.totalNanos
    pc, pos,      \* caller -> where it is; which submission of its script
    job,          \* submission -> [st, early, acceptedAt]
    outcome,      \* submission -> what its caller was told, or will be
    counters,     \* lane -> laneCounters
    snap,         \* a snapshotGCPressure in progress; pc is the next load, 0 before it begins
    lastObserved  \* key -> when its tracker last recorded something under it (history)

Reasons == {"max_queued_per_key", "max_inflight_per_key", "cooldown_active", "shard_overloaded",
            "hot_key_candidate", "dominant_hot_key"}
Outcomes == {"pending", "overload", "admission", "stopped", "full", "accepted"} \cup Reasons

vars == <<load, now, state, cancelled, overload, admission, upd, lanes, tracker, shardWait, pc, pos, job,
          outcome, counters, snap, lastObserved>>

CounterNames == {"submitted", "accepted", "rejected", "pressureRejected", "overloadReject", "overloadShed",
                 "overloadDegrade", "queueFull", "completed", "canceled"}
NoCounters == [n \in CounterNames |-> 0]

PerKeyConfig == NormalizePerKeyAdmissionConfig(PerKeyAdmission)
Script(c) == load.scripts[c]
Busy(c) == pos[c] <= Len(Script(c))
Req(c) == Script(c)[pos[c]]
Shard(r) == ShardOf[KeyOf[r]]

\* What a submission reads of the queues: the totals over all shards, those of its lane and shard.
LaneDepth(s, l) == Len(lanes[s][l])
ShardDepth(s) == SumFunction([l \in Lanes |-> LaneDepth(s, l)])
TotalDepth == SumFunction([s \in Shards |-> ShardDepth(s)])
TotalCapacity == Cardinality(Shards) * Cardinality(Lanes) * QueueSize
laneQueueDepth(l) == SumFunction([s \in Shards |-> LaneDepth(s, l)])
wouldQueueFull(r) == LaneDepth(Shard(r), LaneOf[r]) >= QueueSize
OverloadSignalsForLane(r) ==
    [depth |-> TotalDepth, capacity |-> TotalCapacity, laneDepth |-> laneQueueDepth(LaneOf[r]),
     full |-> wouldQueueFull(r), closed |-> state = "stopping"]
shardDepthAndWaitForHotKey(s) == [depth |-> ShardDepth(s), wait |-> shardWait[s]]

Init ==
    /\ load \in Workloads
    /\ now = 1 /\ state = "running" /\ cancelled = FALSE
    /\ overload = buildOverloadPolicySnapshot(defaultOverloadPolicy(Cardinality(Shards), QueueSize), 0)
    /\ admission = buildAdmissionPolicySnapshot(defaultAdmissionPolicy(Cardinality(Shards), QueueSize), 0)
    /\ upd = [pc |-> "idle"]
    /\ lanes = [s \in Shards |-> [l \in Lanes |-> <<>>]]
    /\ tracker = [s \in Shards |-> newHotKeyTracker]
    /\ shardWait = [s \in Shards |-> 0]
    /\ pc = [c \in Callers |-> "overload"] /\ pos = [c \in Callers |-> 1]
    /\ job = [r \in Reqs |-> [st |-> "none", early |-> FALSE, acceptedAt |-> 0]]
    /\ outcome = [r \in Reqs |-> "pending"]
    /\ counters = [l \in Lanes |-> NoCounters]
    /\ snap = [pc |-> 0]
    /\ lastObserved = [k \in Keys |-> 0]

-----------------------------------------------------------------------------
(* Counters (lane_counters.go).  The atomics one record call adds to are added to in one step. *)

Count(l, names) ==
    counters' = [counters EXCEPT ![l] = [n \in CounterNames |-> IF n \in names THEN @[n] + 1 ELSE @[n]]]

\* Every overload decision but "keep" also counts as rejected and as a pressure rejection.
RecordOverloadDecision(l, action) ==
    Count(l, {"rejected", "pressureRejected", CASE action = "shed" -> "overloadShed"
                                                [] action = "degrade" -> "overloadDegrade"
                                                [] OTHER -> "overloadReject"})
recordPressureAdmissionRejected(l) == Count(l, {"rejected", "pressureRejected"})
recordLaneAdmissionAttempt(l) == Count(l, {"submitted"})
\* Mutant: a full lane is not counted as a rejection.
recordLaneAdmissionResult_FullOnly(l, ok) == Count(l, IF ok THEN {"accepted"} ELSE {"queueFull"})
recordLaneAdmissionResult(l, ok) == Count(l, IF ok THEN {"accepted"} ELSE {"rejected", "queueFull"})

\* Mutant: the counter that grows first is read first.
ReadOrder_SubmittedFirst == <<"submitted", "queueFull", "accepted", "rejected">>
\* snapshotGCPressure, after the counters of finished jobs: queue-full rejections before accepted, rejected
\* after it, submitted last.
ReadOrder == <<"queueFull", "accepted", "rejected", "submitted">>

SnapshotBegin(l) ==
    /\ load.snapshot /\ snap.pc = 0
    /\ snap' = [pc |-> 1, lane |-> l, read |-> NoCounters]
    /\ UNCHANGED <<load, now, state, cancelled, overload, admission, upd, lanes, tracker, shardWait, pc, pos, job,
                   outcome, counters, lastObserved>>

SnapshotRead ==
    /\ snap.pc \in 1..Len(ReadOrder)
    /\ snap' = [snap EXCEPT !.pc = @ + 1, !.read[ReadOrder[snap.pc]] = counters[snap.lane][ReadOrder[snap.pc]]]
    /\ UNCHANGED <<load, now, state, cancelled, overload, admission, upd, lanes, tracker, shardWait, pc, pos, job,
                   outcome, counters, lastObserved>>

-----------------------------------------------------------------------------
(* The tracker of a shard, changed in one critical section. *)

Observe(r, t) ==
    /\ tracker' = [tracker EXCEPT ![Shard(r)] = t]
    /\ lastObserved' = [lastObserved EXCEPT ![KeyOf[r]] = now]

\* What a caller's step leaves alone besides the counters, the tracker and the outcome.
CallerFrame == UNCHANGED <<load, now, state, cancelled, overload, admission, upd, shardWait, snap>>

Goto(c, label) == pc' = [pc EXCEPT ![c] = label] /\ UNCHANGED pos
Return(c) == pc' = [pc EXCEPT ![c] = "overload"] /\ pos' = [pos EXCEPT ![c] = @ + 1]
Tell(r, what) == outcome' = [outcome EXCEPT ![r] = what]

CheckOverload(c) ==
    LET r == Req(c)
        decision == evaluateOverload(overload, LaneOf[r], OverloadSignalsForLane(r)) IN
    /\ Busy(c) /\ pc[c] = "overload"
    /\ IF OverloadEnabled /\ decision.action # "keep"
       THEN Goto(c, "reject") /\ Tell(r, "overload") /\ RecordOverloadDecision(LaneOf[r], decision.action)
       ELSE Goto(c, "admission") /\ UNCHANGED <<outcome, counters>>
    /\ CallerFrame /\ UNCHANGED <<lanes, tracker, job, lastObserved>>

CheckAdmission(c) ==
    LET r == Req(c) IN
    /\ Busy(c) /\ pc[c] = "admission"
    /\ IF AdmissionEnabled /\ evaluateAdmission(admission, LaneOf[r], OverloadSignalsForLane(r)) # "admit"
       THEN Goto(c, "reject") /\ Tell(r, "admission") /\ recordPressureAdmissionRejected(LaneOf[r])
       ELSE Goto(c, "perkey") /\ UNCHANGED <<outcome, counters>>
    /\ CallerFrame /\ UNCHANGED <<lanes, tracker, job, lastObserved>>

CheckPerKeyAdmission(c) ==
    LET r == Req(c)
        e == evaluatePerKeyAdmission(tracker[Shard(r)], KeyOf[r], shardDepthAndWaitForHotKey(Shard(r)),
                                     <<TotalDepth, TotalCapacity>>, PerKeyConfig, now) IN
    /\ Busy(c) /\ pc[c] = "perkey"
    /\ tracker' = [tracker EXCEPT ![Shard(r)] = e.tracker]
    /\ IF e.verdict.action = "allow"
       THEN Goto(c, "enqueue") /\ UNCHANGED outcome
       ELSE Goto(c, "reject") /\ Tell(r, e.verdict.reason)
    /\ lastObserved' = IF e.verdict.kind = "decide" THEN [lastObserved EXCEPT ![KeyOf[r]] = now] ELSE lastObserved
    /\ CallerFrame /\ UNCHANGED <<lanes, job, counters>>

\* Whichever check refused, the refusal is recorded under the key, if it is tracked, and returned.
RecordHotKeyReject(c) ==
    /\ Busy(c) /\ pc[c] = "reject"
    /\ Observe(Req(c), observeReject(tracker[Shard(Req(c))], KeyOf[Req(c)], now))
    /\ Return(c)
    /\ CallerFrame /\ UNCHANGED <<lanes, job, outcome, counters>>

\* Enqueue, which holds the scheduler's read lock to its end: the attempt is counted and, unless the queue
\* is stopping, the tracker hears of the submission.
EnqueueBegin(c) ==
    LET r == Req(c) IN
    /\ Busy(c) /\ pc[c] = "enqueue"
    /\ \/ /\ state = "stopping"
          /\ Count(LaneOf[r], {"submitted", "rejected"}) /\ Tell(r, "stopped") /\ Return(c)
          /\ UNCHANGED <<tracker, lastObserved>>
       \/ /\ state = "running"
          /\ recordLaneAdmissionAttempt(LaneOf[r]) /\ Goto(c, "push")
          /\ Observe(r, observeSubmit(tracker[Shard(r)], KeyOf[r], now))
          /\ UNCHANGED outcome
    /\ CallerFrame /\ UNCHANGED <<lanes, job>>

enqueueIntoShard(c) ==
    LET r == Req(c) IN
    /\ Busy(c) /\ pc[c] = "push"
    /\ \/ /\ wouldQueueFull(r)
          /\ recordLaneAdmissionResult(LaneOf[r], FALSE) /\ Tell(r, "full") /\ Return(c)
          /\ UNCHANGED <<lanes, job>>
       \/ /\ ~wouldQueueFull(r)
          /\ lanes' = [lanes EXCEPT ![Shard(r)][LaneOf[r]] = Append(@, r)]
          /\ job' = [job EXCEPT ![r].st = "queued", ![r].acceptedAt = now]
          /\ Goto(c, "observe") /\ UNCHANGED <<outcome, counters>>
    /\ CallerFrame /\ UNCHANGED <<tracker, lastObserved>>

\* The job is visible to the workers before the tracker hears of it.
EnqueueEnd(c) ==
    LET r == Req(c) IN
    /\ Busy(c) /\ pc[c] = "observe"
    /\ Observe(r, observeEnqueue(tracker[Shard(r)], KeyOf[r], now))
    /\ recordLaneAdmissionResult(LaneOf[r], TRUE) /\ Tell(r, "accepted") /\ Return(c)
    /\ CallerFrame /\ UNCHANGED <<lanes, job>>

-----------------------------------------------------------------------------
(* Workers (processShard), one job at a time. *)

WorkerFrame == UNCHANGED <<load, now, state, cancelled, overload, admission, upd, pc, pos, outcome, snap>>

\* A worker that was woken pops even when its context has ended meanwhile: that is noticed job by job.
PopN(s, l) ==
    /\ lanes[s][l] # <<>>
    /\ lanes' = [lanes EXCEPT ![s][l] = Tail(@)]
    /\ job' = [job EXCEPT ![Head(lanes[s][l])].st = "batch"]
    /\ WorkerFrame /\ UNCHANGED <<tracker, shardWait, counters, lastObserved>>

EnqueueUnobserved(r) == \E c \in Callers : Busy(c) /\ Req(c) = r /\ pc[c] = "observe"

\* observeDequeue and observeInflightStart for every job of the batch, before any of them runs.
ObserveStart(r) ==
    LET t == tracker[Shard(r)] IN
    /\ job[r].st = "batch"
    /\ Observe(r, observeInflightStart(observeDequeue(t, KeyOf[r], now), KeyOf[r], now))
    /\ job' = [job EXCEPT ![r].st = "started", ![r].early = EnqueueUnobserved(r)]
    /\ WorkerFrame /\ UNCHANGED <<lanes, shardWait, counters>>

RunJob(r) ==
    LET wait == now - job[r].acceptedAt IN
    /\ job[r].st = "started" /\ ~cancelled
    /\ shardWait' = [shardWait EXCEPT ![Shard(r)] = @ + wait]
    /\ Observe(r, observeQueueWait(tracker[Shard(r)], KeyOf[r], wait, now))
    /\ job' = [job EXCEPT ![r].st = "running"]
    /\ WorkerFrame /\ UNCHANGED <<lanes, counters>>

JobDone(r) ==
    /\ job[r].st = "running"
    /\ Observe(r, observeInflightEnd(tracker[Shard(r)], KeyOf[r], now))
    /\ job' = [job EXCEPT ![r].st = "done"] /\ Count(LaneOf[r], {"completed"})
    /\ WorkerFrame /\ UNCHANGED <<lanes, shardWait>>

\* The rest of a batch is abandoned: its jobs are counted as cancelled, and the tracker hears nothing.
AbandonJob(r) ==
    /\ job[r].st = "started" /\ cancelled
    /\ job' = [job EXCEPT ![r].st = "dropped"] /\ Count(LaneOf[r], {"canceled"})
    /\ WorkerFrame /\ UNCHANGED <<lanes, tracker, shardWait, lastObserved>>

-----------------------------------------------------------------------------
(* Policy updates, detection, shutdown and time. *)

EnvFrame == UNCHANGED <<load, lanes, shardWait, pc, pos, job, outcome, counters, snap>>

\* UpdateOverloadPolicy and UpdateAdmissionPolicy: an invalid policy changes nothing; the state of the queue
\* is read under one lock, the policy published under another.
UpdateOverloadPolicy(p) ==
    /\ load.update /\ upd.pc = "idle" /\ state = "running" /\ ValidOverloadPolicy(NormalizedOverloadPolicy(p))
    /\ upd' = [pc |-> "overload", policy |-> NormalizedOverloadPolicy(p)]
    /\ EnvFrame /\ UNCHANGED <<now, state, cancelled, overload, admission, tracker, lastObserved>>

UpdateAdmissionPolicy(p) ==
    /\ load.update /\ upd.pc = "idle" /\ state = "running" /\ ValidAdmissionPolicy(p)
    /\ upd' = [pc |-> "admission", policy |-> p]
    /\ EnvFrame /\ UNCHANGED <<now, state, cancelled, overload, admission, tracker, lastObserved>>

publishOverloadPolicy ==
    /\ upd.pc = "overload"
    /\ overload' = buildOverloadPolicySnapshot(upd.policy, overload.version + 1)
    /\ upd' = [pc |-> "done"]
    /\ EnvFrame /\ UNCHANGED <<now, state, cancelled, admission, tracker, lastObserved>>

publishAdmissionPolicy ==
    /\ upd.pc = "admission"
    /\ admission' = buildAdmissionPolicySnapshot(upd.policy, admission.version + 1)
    /\ upd' = [pc |-> "done"]
    /\ EnvFrame /\ UNCHANGED <<now, state, cancelled, overload, tracker, lastObserved>>

\* A debug snapshot asks for hot keys: the tracker forgets what is stale.
DetectHotKeys(s) ==
    /\ enabled
    /\ tracker' = [tracker EXCEPT ![s] = expireStaleEntriesLocked(@, now)]
    /\ EnvFrame /\ UNCHANGED <<now, state, cancelled, overload, admission, upd, lastObserved>>

\* Stop waits for the enqueues that hold the read lock.
Stop ==
    /\ load.stop /\ state = "running" /\ \A c \in Callers : pc[c] \notin {"push", "observe"}
    /\ state' = "stopping"
    /\ EnvFrame /\ UNCHANGED <<now, cancelled, overload, admission, upd, tracker, lastObserved>>

CancelWorkers ==
    /\ state = "stopping" /\ ~cancelled
    /\ cancelled' = TRUE
    /\ EnvFrame /\ UNCHANGED <<now, state, overload, admission, upd, tracker, lastObserved>>

Tick ==
    /\ now <= load.ticks
    /\ now' = now + 1
    /\ EnvFrame /\ UNCHANGED <<state, cancelled, overload, admission, upd, tracker, lastObserved>>

Next ==
    \/ \E c \in Callers : \/ CheckOverload(c) \/ CheckAdmission(c) \/ CheckPerKeyAdmission(c)
                          \/ RecordHotKeyReject(c) \/ EnqueueBegin(c) \/ enqueueIntoShard(c) \/ EnqueueEnd(c)
    \/ \E r \in Reqs : ObserveStart(r) \/ RunJob(r) \/ JobDone(r) \/ AbandonJob(r)
    \/ \E s \in Shards : DetectHotKeys(s) \/ \E l \in Lanes : PopN(s, l)
    \/ \E p \in OverloadPolicies : UpdateOverloadPolicy(p)
    \/ \E p \in AdmissionPolicies : UpdateAdmissionPolicy(p)
    \/ publishOverloadPolicy \/ publishAdmissionPolicy
    \/ \E l \in Lanes : SnapshotBegin(l)
    \/ SnapshotRead \/ Stop \/ CancelWorkers \/ Tick

Spec == Init /\ [][Next]_vars

-----------------------------------------------------------------------------
(* Properties. *)

\* The counts of the tracker (hotkey_tracker.go) never go below zero and the other variables hold what the
\* code keeps in them.
TypeOK ==
    /\ load \in Workloads /\ now \in 1..(load.ticks + 1)
    /\ state \in {"running", "stopping"} /\ cancelled \in BOOLEAN
    /\ upd.pc \in {"idle", "overload", "admission", "done"}
    /\ \A s \in Shards : \A l \in Lanes : lanes[s][l] \in Seq(Reqs) /\ Len(lanes[s][l]) <= QueueSize
    /\ \A s \in Shards : \A i \in Slots :
          LET e == tracker[s].entries[i] IN
          /\ e.key \in Keys \cup {NoKey} /\ e.action \in {"", "allow", "throttle", "reject", "shed"}
          /\ {e.submitted, e.queued, e.rejected, e.wait, e.seen, e.inflight, e.cooldown, e.recovery} \subseteq Nat
    /\ shardWait \in [Shards -> Nat]
    /\ pc \in [Callers -> {"overload", "admission", "perkey", "reject", "enqueue", "push", "observe"}]
    /\ \A r \in Reqs : job[r].st \in {"none", "queued", "batch", "started", "running", "done", "dropped"}
    /\ outcome \in [Reqs -> Outcomes]
    /\ \A l \in Lanes : counters[l] \in [CounterNames -> Nat]
    /\ lastObserved \in [Keys -> Nat]

\* However evictions, expiry and reuse of slots (allocateSlot, clearEntry) interleave, a tracked key is
\* found in exactly the slot that holds it, no key has two slots and none is lost from the index.
IndexExact ==
    \A s \in Shards : LET t == tracker[s] IN
        /\ \A k \in DOMAIN t.index : t.entries[t.index[k]].key = k
        /\ \A i \in InUse(t) : Indexed(t, t.entries[i].key) /\ t.index[t.entries[i].key] = i

JobsOf(k, states) == {r \in Reqs : KeyOf[r] = k /\ job[r].st \in states}

\* MaxInflightPerKey (per_key_policy.go) never throttles a key on account of jobs that have ended: what
\* the tracker counts in flight are jobs that started and have not ended, or that a cancelled worker dropped.
InflightJustified ==
    \A k \in Keys : LET t == tracker[ShardOf[k]] IN
        Tracked(t, k) => EntryOf(t, k).inflight <= Cardinality(JobsOf(k, {"started", "running", "dropped"}))

\* The tracker hears of an enqueue after the job became visible (Scheduler.Enqueue), so a dequeue may be
\* heard of first.  Its count of queued jobs then stays too high by one for each such job, never by more.
QueuedDriftBounded ==
    \A k \in Keys : LET t == tracker[ShardOf[k]]
                         waiting == {r \in JobsOf(k, {"queued", "batch"}) : ~EnqueueUnobserved(r)}
                         early == {r \in JobsOf(k, {"started", "running", "done", "dropped"}) :
                                      job[r].early /\ ~EnqueueUnobserved(r)} IN
        Tracked(t, k) => EntryOf(t, k).queued <= Cardinality(waiting) + Cardinality(early)

Pushing(q) == \E c \in Callers : Busy(c) /\ Req(c) = q /\ pc[c] = "push"
Others(r) == {q \in Reqs \ {r} : KeyOf[q] = KeyOf[r]}

\* Per-key admission (CheckPerKeyAdmission) punishes a key for its own history only, also when the slot it
\* is tracked in belonged to another key before: every reason it gives is backed by submissions of that key,
\* and the keys listed as mitigated (perKeyAdmissionSnapshots) are keys some submission was refused for.
MitigationIsolated ==
    /\ \A s \in Shards : \A k \in perKeyAdmissionSnapshots(tracker[s], HotKeyConfig.maxTracked) :
          \E r \in Reqs : KeyOf[r] = k /\ outcome[r] \in Reasons
    /\ \A r \in Reqs :
        /\ outcome[r] = "max_queued_per_key" =>
              Cardinality({q \in Others(r) : job[q].st # "none"}) >= PerKeyConfig.maxQueued
        /\ outcome[r] = "max_inflight_per_key" =>
              Cardinality({q \in Others(r) : job[q].st \in {"started", "running", "done", "dropped"}})
                >= PerKeyConfig.maxInflight
        /\ outcome[r] = "cooldown_active" => \E q \in Others(r) : outcome[q] \in Reasons
        /\ outcome[r] \in Reasons => \E q \in Others(r) : job[q].st # "none" \/ outcome[q] = "full" \/ Pushing(q)

\* A caller that leaves its key alone for longer than the detection window is not mitigated when it comes
\* back (expireStaleEntriesLocked), whatever cooldown and recovery window its last refusal had armed.
QuietKeyAdmitted ==
    [][\A r \in Reqs : outcome[r] \notin Reasons /\ outcome'[r] \in Reasons =>
            now - lastObserved[KeyOf[r]] <= HotKeyConfig.window]_vars

\* The two paths that ask the tracker without changing it (retry suppression: planPerKeyAdmission,
\* hotKeyStatusForKey) and the debug snapshot (detectHotKeyCandidates) tell of a key what admission would
\* decide at that moment, also while stale entries have not been removed.  (A shard in which nothing was
\* submitted or is queued any more shows no candidates, though a job's wait may still make its key hot.)
ObserversAgree ==
    \A k \in Keys :
        LET s == ShardOf[k]
            t == tracker[s]
            u == expireStaleEntriesLocked(t, now)
            shard == shardDepthAndWaitForHotKey(s)
            pressure == <<TotalDepth, TotalCapacity>>
            found == detectHotKeyCandidates(u, shard)
            status == hotKeyStatusForKey(t, k, shard, now) IN
        /\ planPerKeyAdmission(t, k, shard, pressure, PerKeyConfig, now)
             = evaluatePerKeyAdmission(t, k, shard, pressure, PerKeyConfig, now).verdict
        /\ (status # "none" /\ \E i \in InUse(u) : u.entries[i].submitted > 0) => found.listed > 0
        /\ (status = "dominant" /\ found.listed > 0) => found.top.status = "dominant"
        /\ (found.listed > 0 /\ found.top.key = k) => status # "none"

Enqueuing(l) == {c \in Callers : Busy(c) /\ pc[c] \in {"push", "observe"} /\ LaneOf[Req(c)] = l}

\* Between the calls that record them (lane_counters.go, RecordOverloadDecision), every attempt to enqueue
\* is counted once as accepted, rejected or still under way, and every pressure rejection once under what
\* refused it, whichever way a submission left: refused, stopped, full, or accepted.
LaneLedger ==
    \A l \in Lanes : LET n == counters[l] IN
        /\ n["submitted"] = n["accepted"] + (n["rejected"] - n["pressureRejected"]) + Cardinality(Enqueuing(l))
        /\ n["pressureRejected"] = n["overloadReject"] + n["overloadShed"] + n["overloadDegrade"]
                                     + Cardinality({r \in Reqs : LaneOf[r] = l /\ outcome[r] = "admission"})

\* A statistics snapshot taken while jobs are submitted never shows more jobs accepted or turned away by a
\* full lane than attempts to enqueue: that is what the order of the loads in snapshotGCPressure is for.
SnapshotOrdered ==
    snap.pc = Len(ReadOrder) + 1 => snap.read["submitted"] >= snap.read["accepted"] + snap.read["queueFull"]
=============================================================================
