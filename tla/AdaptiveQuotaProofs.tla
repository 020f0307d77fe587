------------------------ MODULE AdaptiveQuotaProofs ------------------------
(***************************************************************************)
(* Proofs about ControlPlane, for every set of lanes, callers, pollers and *)
(* workloads: a conditional update of the quotas loses nothing that others *)
(* published, a stopped controller publishes nothing, a quota the          *)
(* controller publishes is one step from the one it replaces, scaling is   *)
(* recommended only after sustained pressure, and the pressure summary     *)
(* covers what the autoscaling signal reports.                             *)
(***************************************************************************)
EXTENDS ControlPlane, OperatorLemmas

CallFields == {"pc", "cas", "lane", "quota", "expected", "input"}

\* What EXCEPT needs to know of the functions and records, and nothing about their values.
Shapes ==
  /\ DOMAIN call = Writers
  /\ \A p \in Writers : DOMAIN call[p] = CallFields
  /\ DOMAIN tick = {"now", "snap", "decisions", "next"}
  /\ DOMAIN ctl = {"cancel", "cancelled", "running", "wg", "loop", "ticker"}
  /\ policy.version \in Nat

InTick == {"quotas", "decide", "apply"}

\* The snapshot of a tick under way was taken at this version of the policy or an earlier one.
SnapshotPast ==
  ctl.loop \in InTick =>
    /\ DOMAIN tick.snap = {"pressure", "version", "lanes"}
    /\ tick.snap.version \in Nat /\ tick.snap.version <= policy.version

\* An update that was built from a version it expects, and is not over.
Conditional(p) == call[p].cas /\ call[p].pc \in {"read", "check", "publish"}

ExpectedPast == \A p \in Writers : Conditional(p) => call[p].expected \in Nat /\ call[p].expected <= policy.version

\* While nobody else has published, the input of a conditional update is the policy with one lane replaced.
InputCurrent ==
  \A p \in Writers :
    Conditional(p) /\ call[p].pc # "read" /\ call[p].expected = policy.version =>
      /\ call[p].input.default = policy.default
      /\ Lanes \subseteq DOMAIN call[p].input.lanes
      /\ \A l \in Lanes \ {call[p].lane} : call[p].input.lanes[l] = policy.lanes[l]

UpdateInv == Shapes /\ SnapshotPast /\ ExpectedPast /\ InputCurrent

LEMMA UpdateInvInit == Init => UpdateInv
  <1> SUFFICES ASSUME Init PROVE UpdateInv
    OBVIOUS
  <1>1. Shapes
    BY DEF Init, AdaptiveInit, Shapes, CallFields, NoCall, NoTick, snapshotFromRegistry
  <1>2. SnapshotPast
    BY DEF Init, AdaptiveInit, SnapshotPast, InTick
  <1>3. \A p \in Writers : ~Conditional(p)
    BY DEF Init, AdaptiveInit, Conditional, NoCall
  <1> QED
    BY <1>1, <1>2, <1>3 DEF UpdateInv, ExpectedPast, InputCurrent

\* A step of the controller that touches neither policy nor updates nor the tick.
LEMMA UpdatesUntouched ==
  ASSUME UpdateInv, UNCHANGED <<policy, call, tick>>, DOMAIN ctl' = DOMAIN ctl,
         ctl'.loop \in InTick => ctl'.loop = ctl.loop
  PROVE  UpdateInv'
  <1>1. Shapes'
    BY DEF UpdateInv, Shapes
  <1>2. SnapshotPast'
    BY DEF UpdateInv, SnapshotPast
  <1>3. ExpectedPast' /\ InputCurrent'
    BY DEF UpdateInv, ExpectedPast, InputCurrent, Conditional
  <1> QED
    BY <1>1, <1>2, <1>3 DEF UpdateInv

LEMMA ControlKeepsUpdates ==
  ASSUME UpdateInv,
         \/ StartScheduler \/ StartController \/ LaunchLoop \/ CancelContext \/ LoopExit \/ LoopDone \/ Tick
         \/ \E s \in Stoppers : TakeCancel(s) \/ CancelLoop(s) \/ WaitLoop(s) \/ StopScheduler(s)
  PROVE  UpdateInv'
  <1>1. DOMAIN ctl = {"cancel", "cancelled", "running", "wg", "loop", "ticker"}
    BY DEF UpdateInv, Shapes
  <1>2. UNCHANGED <<policy, call, tick>>
    BY DEF StartScheduler, StartController, LaunchLoop, CancelContext, LoopExit, LoopDone, Tick, TakeCancel, CancelLoop,
           WaitLoop, StopScheduler
  <1>3. DOMAIN ctl' = DOMAIN ctl /\ (ctl'.loop \in InTick => ctl'.loop = ctl.loop)
    <2>1. CASE StartScheduler \/ StartController \/ LaunchLoop \/ CancelContext
      BY <1>1, <2>1 DEF StartScheduler, StartController, LaunchLoop, CancelContext, InTick
    <2>2. CASE LoopExit \/ LoopDone \/ Tick
      BY <1>1, <2>2 DEF LoopExit, LoopDone, Tick, InTick
    <2>3. ASSUME NEW s \in Stoppers, TakeCancel(s) \/ CancelLoop(s) \/ WaitLoop(s) \/ StopScheduler(s)
          PROVE  DOMAIN ctl' = DOMAIN ctl /\ (ctl'.loop \in InTick => ctl'.loop = ctl.loop)
      BY <1>1, <2>3 DEF TakeCancel, CancelLoop, WaitLoop, StopScheduler
    <2> QED
      BY <2>1, <2>2, <2>3
  <1> QED
    BY <1>2, <1>3, UpdatesUntouched

\* What an update has to satisfy as long as the policy is pol.
Sound(r, pol) ==
  /\ r.cas /\ r.pc \in {"read", "check", "publish"} => r.expected \in Nat /\ r.expected <= pol.version
  /\ r.cas /\ r.pc \in {"check", "publish"} /\ r.expected = pol.version =>
       /\ r.input.default = pol.default
       /\ Lanes \subseteq DOMAIN r.input.lanes
       /\ \A l \in Lanes \ {r.lane} : r.input.lanes[l] = pol.lanes[l]

LEMMA SoundUpdates == ExpectedPast /\ InputCurrent <=> \A p \in Writers : Sound(call[p], policy)
  BY DEF ExpectedPast, InputCurrent, Conditional, Sound

\* A step of one update that leaves the policy alone: it is enough to look at that update.
LEMMA OneUpdateMoves ==
  ASSUME UpdateInv, NEW p \in Writers, UNCHANGED policy, Shapes', SnapshotPast', Sound(call'[p], policy),
         \A q \in Writers : q # p => call'[q] = call[q]
  PROVE  UpdateInv'
  <1>1. \A q \in Writers : Sound(call[q], policy)
    BY SoundUpdates DEF UpdateInv
  <1>2. \A q \in Writers : Sound(call'[q], policy)
    BY <1>1
  <1>3. \A q \in Writers : Sound(call'[q], policy')
    BY <1>2
  <1>4. ExpectedPast' /\ InputCurrent'
    BY <1>3 DEF ExpectedPast, InputCurrent, Conditional, Sound
  <1> QED
    BY <1>4 DEF UpdateInv

LEMMA UpdateBegins ==
  ASSUME UpdateInv, NEW c \in Clients, UpdateLaneQuota(c) \/ UpdateQuotaPolicy(c)
  PROVE  UpdateInv'
  <1>1. c \in Writers /\ UNCHANGED <<policy, tick, ctl>>
    BY DEF Writers, UpdateLaneQuota, UpdateQuotaPolicy
  <1>2. Shapes'
    BY <1>1 DEF UpdateInv, Shapes, UpdateLaneQuota, UpdateQuotaPolicy, ConditionalCall, NoCall, CallFields
  <1>3. SnapshotPast'
    BY <1>1 DEF UpdateInv, SnapshotPast
  <1>4. \A q \in Writers : q # c => call'[q] = call[q]
    BY <1>1 DEF UpdateInv, Shapes, UpdateLaneQuota, UpdateQuotaPolicy
  <1>5. Sound(call'[c], policy)
    <2>1. CASE UpdateLaneQuota(c)
      <3>1. call'[c] = ConditionalCall(Plan.ops[c].lane, Plan.ops[c].quota, policy.version) /\ policy.version \in Nat
        BY <1>1, <2>1 DEF UpdateInv, Shapes, UpdateLaneQuota
      <3>2. call'[c].pc = "read" /\ call'[c].expected = policy.version
        BY <3>1 DEF ConditionalCall
      <3> QED
        BY <3>1, <3>2 DEF Sound
    <2>2. CASE UpdateQuotaPolicy(c)
      <3>1. call'[c].cas = FALSE
        BY <1>1, <2>2 DEF UpdateInv, Shapes, UpdateQuotaPolicy, NoCall
      <3> QED
        BY <3>1 DEF Sound
    <2> QED
      BY <2>1, <2>2
  <1> QED
    BY <1>1, <1>2, <1>3, <1>4, <1>5, OneUpdateMoves

LEMMA CopyKeepsInv ==
  ASSUME UpdateInv, NEW p \in Writers, updateLaneQuotaIfVersionInternal(p)
  PROVE  UpdateInv'
  <1>1. UNCHANGED <<policy, tick, ctl>>
    BY DEF updateLaneQuotaIfVersionInternal
  <1>2. Shapes'
    BY <1>1 DEF UpdateInv, Shapes, updateLaneQuotaIfVersionInternal, CallFields
  <1>3. SnapshotPast'
    BY <1>1 DEF UpdateInv, SnapshotPast
  <1>4. \A q \in Writers : q # p => call'[q] = call[q]
    BY DEF UpdateInv, Shapes, updateLaneQuotaIfVersionInternal
  <1>5. Sound(call'[p], policy)
    <2>1. /\ call'[p].cas = call[p].cas /\ call'[p].expected = call[p].expected /\ call'[p].lane = call[p].lane
          /\ call'[p].input = [default |-> policy.default,
                               lanes |-> [l \in Lanes \union {call[p].lane} |->
                                             IF l = call[p].lane THEN call[p].quota ELSE policy.lanes[l]]]
      BY DEF UpdateInv, Shapes, CallFields, updateLaneQuotaIfVersionInternal
    <2>2. call[p].cas => call[p].expected \in Nat /\ call[p].expected <= policy.version
      BY DEF updateLaneQuotaIfVersionInternal, UpdateInv, ExpectedPast, Conditional
    <2> QED
      BY <2>1, <2>2 DEF Sound
  <1> QED
    BY <1>1, <1>2, <1>3, <1>4, <1>5, OneUpdateMoves

LEMMA CheckKeepsInv ==
  ASSUME UpdateInv, NEW p \in Writers, CheckUpdate(p)
  PROVE  UpdateInv'
  <1>1. UNCHANGED <<policy, tick, ctl>>
    BY DEF CheckUpdate
  <1>2. Shapes'
    BY <1>1 DEF UpdateInv, Shapes, CheckUpdate, Leave, CallFields
  <1>3. SnapshotPast'
    BY <1>1 DEF UpdateInv, SnapshotPast
  <1>4. \A q \in Writers : q # p => call'[q] = call[q]
    BY DEF UpdateInv, Shapes, CheckUpdate, Leave
  <1>5. Sound(call'[p], policy)
    <2>1. /\ call'[p].cas = call[p].cas /\ call'[p].expected = call[p].expected /\ call'[p].lane = call[p].lane
          /\ call'[p].input = call[p].input
      BY DEF UpdateInv, Shapes, CallFields, CheckUpdate, Leave
    <2>2. call[p].pc = "check" /\ Sound(call[p], policy)
      BY SoundUpdates DEF CheckUpdate, UpdateInv
    <2> QED
      BY <2>1, <2>2 DEF Sound
  <1> QED
    BY <1>1, <1>2, <1>3, <1>4, <1>5, OneUpdateMoves

\* Publishing moves the version past everything that was read before.
LEMMA PublishKeepsInv ==
  ASSUME UpdateInv, NEW p \in Writers, publishQuotaPolicy(p)
  PROVE  UpdateInv'
  <1>1. UNCHANGED <<tick, ctl>> /\ \E pc \in {"conflict", "ok"} : call' = [call EXCEPT ![p].pc = pc]
    BY DEF publishQuotaPolicy, Leave
  <1>2. call'[p].pc \in {"conflict", "ok"} /\ \A q \in Writers : q # p => call'[q] = call[q]
    BY <1>1 DEF UpdateInv, Shapes, CallFields
  <1>3. policy.version \in Nat /\ (policy' = policy \/ policy'.version = policy.version + 1)
    BY DEF publishQuotaPolicy, buildQuotaPolicySnapshot, UpdateInv, Shapes
  <1>4. Shapes'
    BY <1>1, <1>3 DEF UpdateInv, Shapes, CallFields
  <1>5. SnapshotPast'
    BY <1>1, <1>3 DEF UpdateInv, SnapshotPast
  <1>6. \A q \in Writers : Conditional(q)' => call'[q] = call[q] /\ Conditional(q)
    BY <1>2 DEF Conditional
  <1>7. ExpectedPast'
    BY <1>3, <1>6 DEF UpdateInv, ExpectedPast
  <1>8. InputCurrent'
    BY <1>3, <1>6 DEF UpdateInv, ExpectedPast, InputCurrent
  <1> QED
    BY <1>4, <1>5, <1>7, <1>8 DEF UpdateInv

LEMMA ReadKeepsInv ==
  ASSUME UpdateInv, ReadSignals \/ ReadQuotas
  PROVE  UpdateInv'
  <1>1. UNCHANGED <<policy, call>>
    BY DEF ReadSignals, ReadQuotas
  <1>2. Shapes'
    BY <1>1 DEF UpdateInv, Shapes, ReadSignals, ReadQuotas, NoTick
  <1>3. SnapshotPast'
    <2>1. CASE ReadSignals
      <3>1. /\ DOMAIN tick'.snap = {"pressure", "version", "lanes"}
            /\ tick'.snap.version = policy.version
        BY <2>1 DEF ReadSignals, NoTick
      <3> QED
        BY <1>1, <3>1 DEF SnapshotPast, UpdateInv, Shapes
    <2>2. CASE ReadQuotas
      <3>1. /\ DOMAIN tick.snap = {"pressure", "version", "lanes"}
            /\ tick.snap.version \in Nat /\ tick.snap.version <= policy.version
        BY <2>2 DEF ReadQuotas, UpdateInv, SnapshotPast, InTick
      <3>2. DOMAIN tick'.snap = DOMAIN tick.snap /\ tick'.snap.version = tick.snap.version
        BY <2>2, <3>1 DEF ReadQuotas, UpdateInv, Shapes
      <3> QED
        BY <1>1, <3>1, <3>2 DEF SnapshotPast
    <2> QED
      BY <2>1, <2>2
  <1>4. ExpectedPast' /\ InputCurrent'
    BY <1>1 DEF UpdateInv, ExpectedPast, InputCurrent, Conditional
  <1> QED
    BY <1>2, <1>3, <1>4 DEF UpdateInv

\* A change that the controller sends on its way expects the version of its snapshot.
LEMMA DecideKeepsInv ==
  ASSUME UpdateInv, Decide
  PROVE  UpdateInv'
  <1> DEFINE c == Controller
  <1>1. c \in Writers /\ UNCHANGED policy
    BY DEF Decide, Writers
  <1>2. /\ tick.snap.version \in Nat /\ tick.snap.version <= policy.version
        /\ DOMAIN tick.snap = {"pressure", "version", "lanes"}
    BY DEF Decide, UpdateInv, SnapshotPast, InTick
  <1>3. \/ /\ UNCHANGED call /\ tick' = NoTick /\ ctl' = [ctl EXCEPT !.loop = "select"]
        \/ \E l, q, n : /\ call' = [call EXCEPT ![c] = ConditionalCall(l, q, tick.snap.version)]
                        /\ tick' = [tick EXCEPT !.next = n] /\ ctl' = [ctl EXCEPT !.loop = "apply"]
    BY DEF Decide
  <1>4. CASE UNCHANGED call /\ tick' = NoTick /\ ctl' = [ctl EXCEPT !.loop = "select"]
    <2>1. Shapes' /\ SnapshotPast'
      BY <1>1, <1>4 DEF UpdateInv, Shapes, SnapshotPast, InTick, NoTick
    <2>2. ExpectedPast' /\ InputCurrent'
      BY <1>1, <1>4 DEF UpdateInv, ExpectedPast, InputCurrent, Conditional
    <2> QED
      BY <2>1, <2>2 DEF UpdateInv
  <1>5. ASSUME NEW l, NEW q, NEW n, call' = [call EXCEPT ![c] = ConditionalCall(l, q, tick.snap.version)],
               tick' = [tick EXCEPT !.next = n], ctl' = [ctl EXCEPT !.loop = "apply"]
        PROVE  UpdateInv'
    <2>1. call'[c] = ConditionalCall(l, q, tick.snap.version) /\ \A p \in Writers : p # c => call'[p] = call[p]
      BY <1>1, <1>5 DEF UpdateInv, Shapes
    <2>2. Shapes'
      BY <1>1, <1>5 DEF UpdateInv, Shapes, ConditionalCall, CallFields
    <2>3. SnapshotPast'
      BY <1>1, <1>2, <1>5 DEF UpdateInv, Shapes, SnapshotPast
    <2>4. call'[c].pc = "read" /\ call'[c].expected = tick.snap.version
      BY <2>1 DEF ConditionalCall
    <2>5. Sound(call'[c], policy)
      BY <1>2, <2>4 DEF Sound
    <2> QED
      BY <1>1, <2>1, <2>2, <2>3, <2>5, OneUpdateMoves
  <1> QED
    BY <1>3, <1>4, <1>5

LEMMA AppliedKeepsInv ==
  ASSUME UpdateInv, Applied
  PROVE  UpdateInv'
  <1>1. Controller \in Writers /\ UNCHANGED policy /\ ctl.loop = "apply"
    BY DEF Applied, Writers
  <1>2. Shapes'
    BY <1>1 DEF UpdateInv, Shapes, Applied, NoCall, CallFields
  <1>3. SnapshotPast'
    BY <1>1 DEF UpdateInv, Shapes, SnapshotPast, Applied, InTick
  <1>4. call'[Controller] = NoCall /\ \A p \in Writers : p # Controller => call'[p] = call[p]
    BY <1>1 DEF UpdateInv, Shapes, Applied
  <1>5. Sound(call'[Controller], policy)
    <2>1. NoCall.cas = FALSE
      BY DEF NoCall
    <2>2. call'[Controller].cas = FALSE
      BY <1>4, <2>1
    <2> QED
      BY <2>2 DEF Sound
  <1> QED
    BY <1>1, <1>2, <1>3, <1>4, <1>5, OneUpdateMoves

LEMMA UpdateInvNext ==
  ASSUME UpdateInv, [Next]_vars
  PROVE  UpdateInv'
  <1>1. CASE UNCHANGED quotaVars
    <2>1. UNCHANGED <<policy, call, tick, ctl>>
      BY <1>1 DEF quotaVars
    <2> QED
      BY <2>1, UpdatesUntouched
  <1>2. CASE Tick
    BY <1>2, ControlKeepsUpdates
  <1>3. CASE QuotaNext
    <2>1. ASSUME NEW p \in Writers, UpdateStep(p)
          PROVE  UpdateInv'
      BY <2>1, CopyKeepsInv, CheckKeepsInv, PublishKeepsInv DEF UpdateStep
    <2>2. ASSUME NEW c \in Clients, UpdateLaneQuota(c) \/ UpdateQuotaPolicy(c) \/ UpdateStep(c)
          PROVE  UpdateInv'
      BY <2>1, <2>2, UpdateBegins DEF Writers
    <2>3. CASE StartStep \/ CancelContext \/ LoopExit \/ LoopDone
      BY <2>3, ControlKeepsUpdates DEF StartStep
    <2>4. CASE \E s \in Stoppers : TakeCancel(s) \/ StopStep(s)
      BY <2>4, ControlKeepsUpdates DEF StopStep
    <2>5. CASE ReadSignals \/ ReadQuotas
      BY <2>5, ReadKeepsInv
    <2>6. CASE Decide \/ Applied \/ UpdateStep(Controller)
      BY <2>6, <2>1, DecideKeepsInv, AppliedKeepsInv DEF Writers
    <2> QED
      BY <1>3, <2>2, <2>3, <2>4, <2>5, <2>6 DEF QuotaNext, ControllerStep
  <1> QED
    BY <1>1, <1>2, <1>3 DEF Next, vars

\* Only publishQuotaPolicy publishes.
LEMMA WhoPublishes ==
  ASSUME UpdateInv, [Next]_vars, NEW p \in Writers, Published(p)
  PROVE  publishQuotaPolicy(p)
  <1>0. call[p].pc = "publish" /\ call'[p].pc = "ok"
    BY DEF Published
  <1>1. call' # call
    BY <1>0
  <1>2. QuotaNext
    BY <1>1 DEF Next, vars, quotaVars, Tick
  <1>3. ASSUME NEW c \in Clients, UpdateLaneQuota(c) \/ UpdateQuotaPolicy(c)
        PROVE  FALSE
    <2>1. call[c].pc = "idle" /\ \A q \in Writers : q # c => call'[q] = call[q]
      BY <1>3 DEF UpdateLaneQuota, UpdateQuotaPolicy, UpdateInv, Shapes
    <2> QED
      BY <1>0, <2>1
  <1>4. ASSUME NEW c \in Writers, UpdateStep(c)
        PROVE  publishQuotaPolicy(p)
    <2>1. CASE c = p
      <3>1. call[p].pc \notin {"read", "check"}
        BY <1>0
      <3> QED
        BY <1>4, <2>1, <3>1 DEF UpdateStep, updateLaneQuotaIfVersionInternal, CheckUpdate
    <2>2. CASE c # p
      <3>1. call'[p] = call[p]
        BY <1>4, <2>2 DEF UpdateStep, updateLaneQuotaIfVersionInternal, CheckUpdate, publishQuotaPolicy, Leave, UpdateInv, Shapes
      <3> QED
        BY <1>0, <3>1
    <2> QED
      BY <2>1, <2>2
  <1>5. ~Decide
    <2>1. ASSUME Decide PROVE FALSE
      <3>1. \E l, q, v : call' = [call EXCEPT ![Controller] = ConditionalCall(l, q, v)]
        BY <1>1, <2>1 DEF Decide
      <3>2. PICK l, q, v : call' = [call EXCEPT ![Controller] = ConditionalCall(l, q, v)]
        BY <3>1
      <3>3. ConditionalCall(l, q, v).pc = "read"
        BY DEF ConditionalCall
      <3>4. call'[p] = call[p] \/ call'[p] = ConditionalCall(l, q, v)
        BY <3>2 DEF UpdateInv, Shapes
      <3> QED
        BY <1>0, <3>3, <3>4
    <2> QED
      BY <2>1
  <1>6. ~Applied
    <2>1. ASSUME Applied PROVE FALSE
      <3>1. NoCall.pc = "idle"
        BY DEF NoCall
      <3>2. call'[p] = call[p] \/ call'[p] = NoCall
        BY <2>1 DEF Applied, UpdateInv, Shapes
      <3> QED
        BY <1>0, <3>1, <3>2
    <2> QED
      BY <2>1
  <1>7. ~(StartStep \/ CancelContext \/ (\E s \in Stoppers : TakeCancel(s) \/ StopStep(s)) \/ ReadSignals \/ ReadQuotas
          \/ LoopExit \/ LoopDone)
    BY <1>1 DEF StartStep, StartScheduler, StartController, LaunchLoop, CancelContext, TakeCancel, StopStep, CancelLoop,
           WaitLoop, StopScheduler, ReadSignals, ReadQuotas, LoopExit, LoopDone
  <1> QED
    BY <1>2, <1>3, <1>4, <1>5, <1>6, <1>7 DEF QuotaNext, ControllerStep, Writers

\* A conditional update that goes through was built from the very policy it replaces.
LEMMA PublishedKeepsLanes ==
  ASSUME UpdateInv, [Next]_vars, NEW p \in Writers, Published(p), call[p].cas
  PROVE  /\ policy'.default = policy.default
         /\ \A l \in Lanes \ {call[p].lane} : policy'.lanes[l] = policy.lanes[l]
  <1>1. publishQuotaPolicy(p) /\ call'[p].pc = "ok" /\ call[p].pc = "publish"
    BY WhoPublishes DEF Published
  <1>2. policy.version = call[p].expected /\ policy' = buildQuotaPolicySnapshot(policy.version + 1, call[p].input)
    BY <1>1 DEF publishQuotaPolicy, Leave, UpdateInv, Shapes, CallFields
  <1>3. /\ call[p].input.default = policy.default
        /\ Lanes \subseteq DOMAIN call[p].input.lanes
        /\ \A l \in Lanes \ {call[p].lane} : call[p].input.lanes[l] = policy.lanes[l]
    BY <1>1, <1>2 DEF UpdateInv, InputCurrent, Conditional
  <1> QED
    BY <1>2, <1>3 DEF buildQuotaPolicySnapshot

LEMMA UpdateInvariant == Spec => []UpdateInv
  <1>1. UpdateInv /\ [Next]_vars => UpdateInv'
    BY UpdateInvNext
  <1> QED
    BY <1>1, UpdateInvInit, PTL DEF Spec

\* UpdateLaneQuota and the adaptive controller's apply change the lane they are about and nothing else of the
\* policy that is active at that moment, whoever published while they were under way.
THEOREM UpdatesNotLost == Spec => NoLostUpdate
  <1>1. ASSUME UpdateInv, [Next]_vars
        PROVE  [\A p \in Writers : Published(p) /\ call[p].cas =>
                   /\ policy'.default = policy.default
                   /\ \A l \in Lanes \ {call[p].lane} : policy'.lanes[l] = policy.lanes[l]]_<<policy, call>>
    BY <1>1, PublishedKeepsLanes
  <1> QED
    BY <1>1, UpdateInvariant, PTL DEF Spec, NoLostUpdate

-----------------------------------------------------------------------------
(* The controller after Stop. *)

Live == {"select", "quotas", "decide", "apply"}

\* The loop is launched once, by Start, and only for an enabled controller; while it lives Stop can see it and
\* has to wait for it.
LoopInv ==
  /\ start # "returned" => ctl.loop = "none"
  /\ start \in {"scheduler", "registered"} => Config.enabled
  /\ ctl.loop # "none" => Config.enabled
  /\ ctl.loop \in Live => ctl.running = TRUE /\ ctl.wg = 1

\* The controller is in the middle of an update only while its loop waits for it.
ApplyInv == call[Controller].pc # "idle" => ctl.loop = "apply"

StopShapes == DOMAIN stop = Stoppers /\ \A s \in Stoppers : DOMAIN stop[s] = {"pc", "took", "afterStart"}

\* A Stop that was called after Start has returned and is past the controller has left no loop behind.
StopInv ==
  \A s \in Stoppers : stop[s].afterStart =>
    /\ start = "returned"
    /\ stop[s].pc \in {"scheduler", "returned"} => ctl.loop \notin Live

QuietInv == StopShapes /\ LoopInv /\ ApplyInv /\ StopInv

LEMMA QuietInvInit == Init => QuietInv
  <1> SUFFICES ASSUME Init PROVE QuietInv
    OBVIOUS
  <1>1. StopShapes /\ StopInv
    BY DEF Init, AdaptiveInit, StopShapes, StopInv
  <1>2. LoopInv
    BY DEF Init, AdaptiveInit, LoopInv, Live
  <1>3. ApplyInv
    BY DEF Init, AdaptiveInit, ApplyInv, NoCall, Writers
  <1> QED
    BY <1>1, <1>2, <1>3 DEF QuietInv

LEMMA ConfigFixed == [Next]_vars => UNCHANGED Config
  BY DEF Next, vars, dataVars, Work, Tick, Config, Plan

\* A step that moves neither Start nor Stop, and the loop only among the states of a living one.
LEMMA LoopTurns ==
  ASSUME QuietInv, UNCHANGED <<start, stop, Config>>,
         ctl'.loop = ctl.loop \/ (ctl.loop \in Live /\ ctl'.loop \in Live),
         ctl'.running = ctl.running, ctl'.wg = ctl.wg, ApplyInv'
  PROVE  QuietInv'
  <1>1. StopShapes' /\ LoopInv'
    BY DEF QuietInv, StopShapes, LoopInv, Live
  <1>2. StopInv'
    BY DEF QuietInv, StopInv
  <1> QED
    BY <1>1, <1>2 DEF QuietInv

LEMMA StartKeepsQuiet ==
  ASSUME UpdateInv, QuietInv, UNCHANGED Config, StartStep
  PROVE  QuietInv'
  <1>1. DOMAIN ctl = {"cancel", "cancelled", "running", "wg", "loop", "ticker"}
    BY DEF UpdateInv, Shapes
  <1>2. UNCHANGED <<stop, call>> /\ start # "returned"
    BY DEF StartStep, StartScheduler, StartController, LaunchLoop
  <1>3. \A s \in Stoppers : ~stop[s].afterStart
    BY <1>2 DEF QuietInv, StopInv
  <1>4. StopShapes' /\ StopInv'
    BY <1>2, <1>3 DEF QuietInv, StopShapes, StopInv
  <1>5. call[Controller].pc = "idle"
    BY <1>2 DEF QuietInv, ApplyInv, LoopInv
  <1>6. ApplyInv'
    BY <1>2, <1>5 DEF ApplyInv
  <1>7. LoopInv'
    <2>1. CASE StartScheduler
      BY <1>2, <2>1 DEF StartScheduler, QuietInv, LoopInv
    <2>2. CASE StartController
      BY <1>1, <1>2, <2>2 DEF StartController, QuietInv, LoopInv
    <2>3. CASE LaunchLoop
      BY <1>1, <1>2, <2>3 DEF LaunchLoop, QuietInv, LoopInv, Live
    <2> QED
      BY <2>1, <2>2, <2>3 DEF StartStep
  <1> QED
    BY <1>4, <1>6, <1>7 DEF QuietInv

LEMMA StopKeepsQuiet ==
  ASSUME UpdateInv, QuietInv, UNCHANGED Config, NEW s \in Stoppers, TakeCancel(s) \/ StopStep(s)
  PROVE  QuietInv'
  <1>1. DOMAIN ctl = {"cancel", "cancelled", "running", "wg", "loop", "ticker"}
    BY DEF UpdateInv, Shapes
  <1>2. UNCHANGED <<start, call>> /\ ctl'.loop = ctl.loop /\ ctl'.wg = ctl.wg
    BY <1>1 DEF TakeCancel, StopStep, CancelLoop, WaitLoop, StopScheduler
  <1>3. ctl.loop \in Live => ctl'.running = ctl.running
    BY <1>1 DEF TakeCancel, StopStep, CancelLoop, WaitLoop, StopScheduler, QuietInv, LoopInv
  <1>4. LoopInv' /\ ApplyInv'
    BY <1>2, <1>3 DEF QuietInv, LoopInv, ApplyInv
  <1>5. StopShapes' /\ \A t \in Stoppers : t # s => stop'[t] = stop[t]
    BY DEF QuietInv, StopShapes, TakeCancel, StopStep, CancelLoop, WaitLoop, StopScheduler
  <1>6. stop'[s].afterStart =>
          /\ start = "returned"
          /\ stop'[s].pc \in {"scheduler", "returned"} => ctl.loop \notin Live
    <2>1. CASE TakeCancel(s)
      <3>1. /\ stop'[s].afterStart = (start = "returned")
            /\ stop'[s].pc = IF Config.enabled THEN "check" ELSE "scheduler"
        BY <2>1 DEF TakeCancel, QuietInv, StopShapes
      <3> QED
        BY <3>1 DEF QuietInv, LoopInv, Live
    <2>2. CASE CancelLoop(s)
      <3>1. /\ stop'[s].afterStart = stop[s].afterStart
            /\ stop'[s].pc = IF stop[s].took \/ ctl.running THEN "wait" ELSE "scheduler"
        BY <2>2 DEF CancelLoop, QuietInv, StopShapes
      <3> QED
        BY <3>1 DEF QuietInv, LoopInv, StopInv
    <2>3. CASE WaitLoop(s)
      <3>1. stop'[s].afterStart = stop[s].afterStart /\ ctl.wg = 0
        BY <2>3 DEF WaitLoop, QuietInv, StopShapes
      <3>2. ctl.loop \notin Live
        BY <3>1 DEF QuietInv, LoopInv
      <3> QED
        BY <3>1, <3>2 DEF QuietInv, StopInv
    <2>4. CASE StopScheduler(s)
      <3>1. stop'[s].afterStart = stop[s].afterStart /\ stop[s].pc = "scheduler"
        BY <2>4 DEF StopScheduler, QuietInv, StopShapes
      <3> QED
        BY <3>1 DEF QuietInv, StopInv
    <2> QED
      BY <2>1, <2>2, <2>3, <2>4 DEF StopStep
  <1>7. StopInv'
    BY <1>2, <1>5, <1>6 DEF QuietInv, StopInv
  <1> QED
    BY <1>4, <1>5, <1>7 DEF QuietInv

\* The loop ends: what was not alive stays so.
LEMMA LoopEnds ==
  ASSUME UpdateInv, QuietInv, UNCHANGED Config, LoopExit \/ LoopDone
  PROVE  QuietInv'
  <1>1. DOMAIN ctl = {"cancel", "cancelled", "running", "wg", "loop", "ticker"}
    BY DEF UpdateInv, Shapes
  <1>2. /\ UNCHANGED <<start, stop, call>> /\ ctl.loop \in {"select", "ended"} /\ ctl'.loop \in {"ended", "exited"}
    BY <1>1 DEF LoopExit, LoopDone
  <1>3. start = "returned" /\ Config.enabled /\ call[Controller].pc = "idle"
    BY <1>2 DEF QuietInv, LoopInv, ApplyInv
  <1>4. LoopInv' /\ ApplyInv'
    BY <1>2, <1>3 DEF LoopInv, ApplyInv, Live
  <1>5. StopShapes' /\ StopInv'
    BY <1>2 DEF QuietInv, StopShapes, StopInv, Live
  <1> QED
    BY <1>4, <1>5 DEF QuietInv

LEMMA TickKeepsQuiet ==
  ASSUME UpdateInv, QuietInv, UNCHANGED Config,
         Tick \/ CancelContext \/ ReadSignals \/ ReadQuotas \/ Decide \/ Applied
  PROVE  QuietInv'
  <1>1. DOMAIN ctl = {"cancel", "cancelled", "running", "wg", "loop", "ticker"} /\ Controller \in DOMAIN call
    BY DEF UpdateInv, Shapes, Writers
  <1>2. UNCHANGED <<start, stop>> /\ ctl'.running = ctl.running /\ ctl'.wg = ctl.wg
    BY <1>1 DEF Tick, CancelContext, ReadSignals, ReadQuotas, Decide, Applied
  <1>3. ctl'.loop = ctl.loop \/ (ctl.loop \in Live /\ ctl'.loop \in Live)
    BY <1>1 DEF Tick, CancelContext, ReadSignals, ReadQuotas, Decide, Applied, Live
  <1>4. ApplyInv'
    <2>1. CASE Tick \/ CancelContext
      BY <1>1, <2>1 DEF Tick, CancelContext, QuietInv, ApplyInv
    <2>2. CASE ReadSignals \/ ReadQuotas
      BY <1>1, <2>2 DEF ReadSignals, ReadQuotas, QuietInv, ApplyInv
    <2>3. CASE Decide
      <3>1. ctl.loop = "decide" /\ ((UNCHANGED call /\ ctl'.loop = "select") \/ ctl'.loop = "apply")
        BY <1>1, <2>3 DEF Decide
      <3> QED
        BY <3>1 DEF QuietInv, ApplyInv
    <2>4. CASE Applied
      <3>1. call'[Controller] = NoCall
        BY <1>1, <2>4 DEF Applied
      <3>2. NoCall.pc = "idle"
        BY DEF NoCall
      <3> QED
        BY <3>1, <3>2 DEF ApplyInv
    <2> QED
      BY <2>1, <2>2, <2>3, <2>4
  <1> QED
    BY <1>2, <1>3, <1>4, LoopTurns

LEMMA UpdateKeepsQuiet ==
  ASSUME UpdateInv, QuietInv, UNCHANGED Config,
         \/ \E c \in Clients : UpdateLaneQuota(c) \/ UpdateQuotaPolicy(c) \/ UpdateStep(c)
         \/ UpdateStep(Controller)
  PROVE  QuietInv'
  <1>1. UNCHANGED <<start, stop, ctl>>
    BY DEF UpdateLaneQuota, UpdateQuotaPolicy, UpdateStep, updateLaneQuotaIfVersionInternal, CheckUpdate, publishQuotaPolicy
  <1>2. call'[Controller] = call[Controller] \/ call[Controller].pc # "idle"
    <2>1. ASSUME NEW c \in Clients, UpdateLaneQuota(c) \/ UpdateQuotaPolicy(c) \/ UpdateStep(c)
          PROVE  call'[Controller] = call[Controller]
      BY <2>1, ControllerAssumption DEF UpdateInv, Shapes, Writers, UpdateLaneQuota, UpdateQuotaPolicy, UpdateStep,
         updateLaneQuotaIfVersionInternal, CheckUpdate, publishQuotaPolicy, Leave
    <2>2. CASE UpdateStep(Controller)
      BY <2>2 DEF UpdateStep, updateLaneQuotaIfVersionInternal, CheckUpdate, publishQuotaPolicy
    <2> QED
      BY <2>1, <2>2
  <1>3. ApplyInv'
    BY <1>1, <1>2 DEF QuietInv, ApplyInv
  <1> QED
    BY <1>1, <1>3, LoopTurns

LEMMA QuietInvNext ==
  ASSUME UpdateInv, QuietInv, [Next]_vars
  PROVE  QuietInv'
  <1>0. UNCHANGED Config
    BY ConfigFixed
  <1>1. CASE UNCHANGED quotaVars
    <2>1. UNCHANGED <<start, stop, ctl, call>>
      BY <1>1 DEF quotaVars
    <2>2. ApplyInv'
      BY <2>1 DEF QuietInv, ApplyInv
    <2> QED
      BY <1>0, <2>1, <2>2, LoopTurns
  <1>2. CASE Tick
    BY <1>0, <1>2, TickKeepsQuiet
  <1>3. CASE QuotaNext
    BY <1>0, <1>3, StartKeepsQuiet, StopKeepsQuiet, LoopEnds, TickKeepsQuiet, UpdateKeepsQuiet DEF QuotaNext, ControllerStep
  <1> QED
    BY <1>1, <1>2, <1>3 DEF Next, vars

\* Queue.Stop, called on a queue whose Start has returned, leaves behind no controller that still changes quotas:
\* from the moment it goes on to the scheduler the controller publishes nothing.
THEOREM StoppedControllerIsQuiet == Spec => QuietAfterStop
  <1>1. UpdateInv /\ QuietInv /\ [Next]_vars => QuietInv'
    BY QuietInvNext
  <1>2. Spec => []QuietInv
    BY <1>1, QuietInvInit, UpdateInvariant, PTL DEF Spec
  <1>3. ASSUME UpdateInv, QuietInv, [Next]_vars
        PROVE  [\A s \in Stoppers : stop[s].afterStart /\ stop[s].pc \in {"scheduler", "returned"}
                                    => ~Published(Controller)]_<<policy, call>>
    <2>1. ASSUME NEW s \in Stoppers, stop[s].afterStart, stop[s].pc \in {"scheduler", "returned"}, Published(Controller)
          PROVE  FALSE
      <3>1. call[Controller].pc = "publish"
        BY <2>1 DEF Published
      <3>2. ctl.loop = "apply"
        BY <1>3, <3>1 DEF QuietInv, ApplyInv
      <3> QED
        BY <1>3, <2>1, <3>2 DEF QuietInv, StopInv, Live
    <2> QED
      BY <2>1
  <1> QED
    BY <1>2, <1>3, UpdateInvariant, PTL DEF Spec, QuietAfterStop
-----------------------------------------------------------------------------
(***************************************************************************)
(* The autoscaling signal.  The number of unhealthy windows the calculator *)
(* has counted is backed by as many consecutive unhealthy samples, of      *)
(* which the last one closed the window that the calculator is in.         *)
(***************************************************************************)

\* The configuration in use is the validated one, times are known, and a poller that is under way has read one.
ScaleTypes ==
  /\ load \in DOMAIN Workloads /\ ValidateAutoscalingSignalConfig(SignalConfig)
  /\ now \in Nat \ {0}
  /\ calc.unhealthyWindows \in Nat /\ calc.lastSampleAt \in Nat
  /\ \E S : samples \in Seq(S)
  /\ \A i \in DOMAIN samples : samples[i].at \in Nat \ {0}
  /\ DOMAIN poll = Pollers
  /\ \A p \in Pollers : /\ DOMAIN poll[p] = {"pc", "left", "at", "raw"}
                        /\ poll[p].pc # "idle" => SignalConfig.enabled /\ poll[p].at \in Nat \ {0}

\* The last sample of I closed the present window: all later ones lie within it.
ClosedBy(I, last) ==
  /\ last \in I /\ \A i \in I : i <= last
  /\ samples[last].at = calc.lastSampleAt
  /\ \A k \in DOMAIN samples : k > last => samples[k].at - samples[last].at < SignalConfig.window

Chain(I, m) ==
  /\ I \subseteq DOMAIN samples /\ IsFiniteSet(I) /\ Cardinality(I) = m
  /\ Consecutive(I)
  /\ I = {} \/ \E last \in I : ClosedBy(I, last)

WindowsBacked == \A m \in 0..calc.unhealthyWindows : \E I : Chain(I, m)

ScaleInv == ScaleTypes /\ WindowsBacked /\ ScaleSustained

\* The normalised configuration has numbers where the input has.
LEMMA SignalNumbers ==
  ASSUME load \in DOMAIN Workloads
  PROVE  SignalConfig.window \in Int /\ SignalConfig.consecutive \in Int
  <1> DEFINE c == Plan.signal
  <1>1. /\ DOMAIN c = DOMAIN DefaultAutoscalingSignalConfig
        /\ \A f \in DOMAIN DefaultAutoscalingSignalConfig \ {"enabled"} : c[f] \in Int
    BY ScaleAssumption DEF Plan
  <1>2. /\ "window" \in DOMAIN DefaultAutoscalingSignalConfig \ {"enabled"}
        /\ "consecutive" \in DOMAIN DefaultAutoscalingSignalConfig \ {"enabled"}
        /\ DefaultAutoscalingSignalConfig.window \in Int /\ DefaultAutoscalingSignalConfig.consecutive \in Int
    BY DEF DefaultAutoscalingSignalConfig
  <1>3. /\ c.window \in Int /\ c.consecutive \in Int /\ "window" \in DOMAIN c /\ "consecutive" \in DOMAIN c
    BY <1>1, <1>2
  <1> HIDE DEF c
  <1>4. /\ Unset(c, DefaultAutoscalingSignalConfig).window \in Int
        /\ Unset(c, DefaultAutoscalingSignalConfig).consecutive \in Int
    BY <1>2, <1>3 DEF Unset
  <1> QED
    BY <1>3, <1>4 DEF SignalConfig, NormalizeAutoscalingSignalConfig, c

\* The first reason that holds is one of the seven.
LEMMA ReasonsToScale ==
  ASSUME NEW fired, fired \subseteq DOMAIN ScaleReasons, fired # {}
  PROVE  ScaleReasons[Min(fired)] # "localized_hot_key"
  <1>1. DOMAIN ScaleReasons = 1..7 /\ \A n \in 1..7 : ScaleReasons[n] # "localized_hot_key"
    BY DEF ScaleReasons
  <1>2. fired \subseteq Nat
    BY <1>1
  <1>3. Min(fired) \in fired
    BY <1>2, LeastOf
  <1> QED
    BY <1>1, <1>3

\* What calculate does to the calculator, and when it recommends scaling.
Sampled(r, at) ==
  /\ r.data = TRUE /\ r.unhealthy \in BOOLEAN
  /\ ~advanceWindow(at) => r.calc = calc
  /\ advanceWindow(at) => /\ r.calc.unhealthyWindows = IF r.unhealthy THEN calc.unhealthyWindows + 1 ELSE 0
                          /\ r.calc.lastSampleAt = at
  /\ r.signal.recommended => /\ r.unhealthy /\ r.signal.reason # "localized_hot_key"
                             /\ r.calc.unhealthyWindows >= SignalConfig.consecutive

LEMMA Calculated ==
  ASSUME NEW in, NEW at, NEW r, r = calculate(in, at)
  PROVE  (r.data = FALSE /\ r.calc = calc) \/ Sampled(r, at)
  <1> DEFINE rates == admissionRates(in.counters, calc.lastCounters, Word)
             fired == evaluateScaleTriggers(SignalConfig, in, rates)
             localized == AtLeast(in.localizedRatio, Percent(SignalConfig.localized)) /\ in.hotCount <= 2
             next == IF ~advanceWindow(at) THEN calc
                     ELSE [unhealthyWindows |-> IF fired # {} THEN calc.unhealthyWindows + 1 ELSE 0,
                           lastSampleAt |-> at, lastCounters |-> in.counters]
  <1>1. fired \subseteq DOMAIN ScaleReasons
    BY DEF evaluateScaleTriggers
  <1>2. fired # {} => ScaleReasons[Min(fired)] # "localized_hot_key"
    <2> HIDE DEF fired
    <2> QED
      BY <1>1, ReasonsToScale
  <1>3. CASE in.capacity <= 0 \/ in.counters.submitted = 0
    BY <1>3 DEF calculate
  <1>4. CASE ~(in.capacity <= 0 \/ in.counters.submitted = 0)
    <2>1. /\ r.data = TRUE /\ r.calc = next /\ r.unhealthy = (fired # {})
          /\ r.signal.reason = IF localized THEN "localized_hot_key"
                               ELSE IF fired # {} THEN ScaleReasons[Min(fired)] ELSE "none"
          /\ r.signal.recommended = (~localized /\ fired # {} /\ next.unhealthyWindows >= SignalConfig.consecutive)
      BY <1>4, Zenon DEF calculate
    <2> HIDE DEF rates, fired, localized
    <2>2. /\ ~advanceWindow(at) => next = calc
          /\ advanceWindow(at) => /\ next.unhealthyWindows = IF fired # {} THEN calc.unhealthyWindows + 1 ELSE 0
                                  /\ next.lastSampleAt = at
      OBVIOUS
    <2> HIDE DEF next
    <2> QED
      BY <1>2, <2>1, <2>2 DEF Sampled
  <1> QED
    BY <1>3, <1>4

\* A chain of samples stays one when another sample is appended.
LEMMA ChainKept ==
  ASSUME NEW n \in Nat, NEW I, I \subseteq 1..n, \A i \in 1..n : samples'[i] = samples[i],
         SignalConfig' = SignalConfig, Consecutive(I)
  PROVE  Consecutive(I)'
  <1>1. \A i \in I : samples'[i] = samples[i]
    OBVIOUS
  <1>2. ASSUME NEW i \in I, NEW j \in I, i < j, ~\E k \in I : i < k /\ k < j
        PROVE  /\ samples'[j].at - samples'[i].at >= SignalConfig.window
               /\ \A k \in i + 1 .. j - 1 : samples'[k].at - samples'[i].at >= SignalConfig.window => samples'[k].unhealthy
    <2>1. \A k \in i + 1 .. j - 1 : k \in 1..n
      <3>1. i \in 1..n /\ j \in 1..n
        OBVIOUS
      <3> QED
        BY <3>1
    <2> QED
      BY <1>1, <1>2, <2>1 DEF Consecutive
  <1> QED
    BY <1>1, <1>2 DEF Consecutive

\* An unhealthy sample that closes the window continues the chain of the one that closed the window before.
LEMMA ChainContinued ==
  ASSUME NEW n \in Nat, NEW I, I \subseteq 1..n, \A i \in 1..n : samples'[i] = samples[i],
         SignalConfig' = SignalConfig, SignalConfig.window \in Int, Consecutive(I),
         \A i \in 1..n : samples[i].at \in Int, samples'[n + 1].at \in Int,
         samples'[n + 1].unhealthy,
         \/ I = {}
         \/ \E last \in I : /\ \A i \in I : i <= last
                            /\ samples'[n + 1].at - samples[last].at >= SignalConfig.window
                            /\ \A k \in 1..n : k > last => samples[k].at - samples[last].at < SignalConfig.window
  PROVE  Consecutive(I \union {n + 1})'
  <1> DEFINE J == I \union {n + 1}
             w == SignalConfig.window
  <1>1. \A i \in I : i \in 1..n /\ i < n + 1 /\ samples'[i] = samples[i]
    OBVIOUS
  <1>2. \A i \in J : samples'[i].unhealthy
    BY <1>1 DEF Consecutive
  <1>3. ASSUME NEW i \in J, NEW j \in J, i < j, ~\E k \in J : i < k /\ k < j
        PROVE  /\ samples'[j].at - samples'[i].at >= w
               /\ \A k \in i + 1 .. j - 1 : samples'[k].at - samples'[i].at >= w => samples'[k].unhealthy
    <2>1. i \in I
      <3>1. j \in Int /\ j <= n + 1 /\ n + 1 \in Int
        BY <1>1
      <3>2. i # n + 1
        BY <1>3, <3>1
      <3> QED
        BY <3>2
    <2>2. \A k \in i + 1 .. j - 1 : k \in 1..n
      <3>1. i \in 1..n /\ j \in 1..(n + 1)
        BY <1>1, <2>1
      <3> QED
        BY <3>1
    <2>3. CASE j \in I
      <3>1. ~\E k \in I : i < k /\ k < j
        BY <1>3
      <3>2. /\ samples[j].at - samples[i].at >= w
            /\ \A k \in i + 1 .. j - 1 : samples[k].at - samples[i].at >= w => samples[k].unhealthy
        BY <1>3, <2>1, <2>3, <3>1 DEF Consecutive
      <3>3. samples'[i] = samples[i] /\ samples'[j] = samples[j] /\ \A k \in i + 1 .. j - 1 : samples'[k] = samples[k]
        BY <1>1, <2>1, <2>2, <2>3
      <3> QED
        BY <3>2, <3>3
    <2>4. CASE j = n + 1
      <3>1. PICK last \in I : /\ \A k \in I : k <= last
                              /\ samples'[n + 1].at - samples[last].at >= w
                              /\ \A k \in 1..n : k > last => samples[k].at - samples[last].at < w
        BY <2>1
      <3>2. i = last
        <4>1. i <= last /\ i \in Int /\ last \in Int /\ last < j
          BY <1>1, <2>1, <2>4, <3>1
        <4>2. ~(i < last)
          BY <1>3, <4>1
        <4> QED
          BY <4>1, <4>2
      <3>3. ASSUME NEW k \in i + 1 .. j - 1, samples'[k].at - samples'[i].at >= w PROVE FALSE
        <4>1. k \in 1..n /\ k > last /\ samples'[k] = samples[k] /\ samples'[i] = samples[last]
          BY <1>1, <2>1, <2>2, <3>2
        <4>2. /\ samples[k].at - samples[last].at < w /\ samples[k].at - samples[last].at >= w
          BY <3>1, <3>3, <4>1
        <4>3. samples[k].at \in Int /\ samples[last].at \in Int /\ w \in Int
          BY <1>1, <4>1
        <4> QED
          BY <4>2, <4>3
      <3> QED
        BY <1>1, <2>1, <2>4, <3>1, <3>2, <3>3
    <2> QED
      BY <2>3, <2>4
  <1>4. w = SignalConfig'.window
    OBVIOUS
  <1> HIDE DEF J, w
  <1>5. Consecutive(J)'
    BY <1>2, <1>3, <1>4 DEF Consecutive
  <1> QED
    BY <1>5 DEF J

\* Append, for sequences of whatever.
LEMMA Appended ==
  ASSUME NEW S, NEW s \in Seq(S), NEW e
  PROVE  /\ Append(s, e) \in Seq(S \union {e})
         /\ Len(s) \in Nat /\ DOMAIN s = 1..Len(s) /\ DOMAIN Append(s, e) = 1..(Len(s) + 1)
         /\ \A i \in 1..Len(s) : Append(s, e)[i] = s[i]
         /\ Append(s, e)[Len(s) + 1] = e
  <1>1. s \in Seq(S \union {e}) /\ e \in S \union {e}
    OBVIOUS
  <1> QED
    BY <1>1
-----------------------------------------------------------------------------
\* A step that leaves the calculator and its samples alone.
LEMMA ScaleUntouched ==
  ASSUME ScaleInv, UNCHANGED <<load, calc, samples>>, now' \in Nat \ {0}, DOMAIN poll' = Pollers,
         \A p \in Pollers : /\ DOMAIN poll'[p] = {"pc", "left", "at", "raw"}
                            /\ poll'[p].pc # "idle" => SignalConfig.enabled /\ poll'[p].at \in Nat \ {0}
  PROVE  ScaleInv'
  <1>1. SignalConfig' = SignalConfig
    BY DEF SignalConfig, Plan
  <1>2. ScaleTypes'
    BY <1>1 DEF ScaleInv, ScaleTypes
  <1>3. \A I : Consecutive(I)' <=> Consecutive(I)
    BY <1>1 DEF Consecutive
  <1>4. WindowsBacked'
    BY <1>1, <1>3 DEF ScaleInv, WindowsBacked, Chain, ClosedBy
  <1>5. ScaleSustained'
    BY <1>1, <1>3 DEF ScaleInv, ScaleSustained
  <1> QED
    BY <1>2, <1>4, <1>5 DEF ScaleInv

\* A poller reads the time, and then the scheduler.
LEMMA PollKeepsScale ==
  ASSUME ScaleInv, NEW p \in Pollers, ScaleSignalSnapshot(p) \/ ReadRawInput(p), UNCHANGED <<dataVars, quotaVars>>
  PROVE  ScaleInv'
  <1>1. /\ now \in Nat \ {0} /\ DOMAIN poll = Pollers
        /\ \A q \in Pollers : /\ DOMAIN poll[q] = {"pc", "left", "at", "raw"}
                              /\ poll[q].pc # "idle" => SignalConfig.enabled /\ poll[q].at \in Nat \ {0}
    BY DEF ScaleInv, ScaleTypes
  <1>2. UNCHANGED <<load, now, calc, samples>>
    BY DEF ScaleSignalSnapshot, ReadRawInput, dataVars
  <1>3. DOMAIN poll' = Pollers /\ \A q \in Pollers : DOMAIN poll'[q] = {"pc", "left", "at", "raw"}
    BY <1>1 DEF ScaleSignalSnapshot, ReadRawInput
  <1>4. ASSUME NEW q \in Pollers, poll'[q].pc # "idle" PROVE SignalConfig.enabled /\ poll'[q].at \in Nat \ {0}
    <2>1. CASE q # p
      <3>1. poll'[q] = poll[q]
        BY <1>1, <2>1 DEF ScaleSignalSnapshot, ReadRawInput
      <3> QED
        BY <1>1, <1>4, <3>1
    <2>2. CASE q = p /\ ScaleSignalSnapshot(p)
      <3>1. poll'[p].at = now /\ poll'[p].pc = IF SignalConfig.enabled THEN "read" ELSE "idle"
        BY <1>1, <2>2 DEF ScaleSignalSnapshot
      <3> QED
        BY <1>1, <1>4, <2>2, <3>1
    <2>3. CASE q = p /\ ReadRawInput(p)
      <3>1. poll'[p].at = poll[p].at /\ poll[p].pc = "read"
        BY <1>1, <2>3 DEF ReadRawInput
      <3> QED
        BY <1>1, <2>3, <3>1
    <2> QED
      BY <2>1, <2>2, <2>3
  <1> QED
    BY <1>1, <1>2, <1>3, <1>4, ScaleUntouched

\* The step under calc.mu: a sample that closes a window and is unhealthy continues every chain, one that is healthy
\* ends them all, and one that falls within the window leaves them as they are.
LEMMA CalculateKeepsScale ==
  ASSUME ScaleInv, NEW p \in Pollers, Calculate(p), UNCHANGED <<dataVars, quotaVars>>
  PROVE  ScaleInv'
  <1>1. PICK at : at = poll[p].at
    OBVIOUS
  <1>2. PICK r : r = calculate(poll[p].raw.in, at)
    OBVIOUS
  <1>3. PICK e : e = [at |-> at, unhealthy |-> r.unhealthy, signal |-> r.signal]
    OBVIOUS
  <1>4. /\ poll[p].pc = "calculate" /\ calc' = r.calc
        /\ samples' = IF r.data THEN Append(samples, e) ELSE samples
        /\ poll' = [poll EXCEPT ![p].pc = "idle", ![p].raw = NoRaw, ![p].at = 0]
        /\ UNCHANGED <<load, now>>
    BY <1>1, <1>2, <1>3, Zenon DEF Calculate, dataVars
  <1>5. SignalConfig' = SignalConfig
    BY <1>4 DEF SignalConfig, Plan
  <1>6. /\ load \in DOMAIN Workloads /\ ValidateAutoscalingSignalConfig(SignalConfig) /\ now \in Nat \ {0}
        /\ calc.unhealthyWindows \in Nat /\ calc.lastSampleAt \in Nat
        /\ \A i \in DOMAIN samples : samples[i].at \in Nat \ {0}
        /\ SignalConfig.enabled /\ at \in Nat \ {0}
    BY <1>1, <1>4 DEF ScaleInv, ScaleTypes
  <1>7. SignalConfig.window \in Int /\ SignalConfig.consecutive \in Int /\ SignalConfig.consecutive >= 1
    BY <1>6, SignalNumbers DEF ValidateAutoscalingSignalConfig
  <1>8. /\ DOMAIN poll' = Pollers
        /\ \A q \in Pollers : /\ DOMAIN poll'[q] = {"pc", "left", "at", "raw"}
                              /\ poll'[q].pc # "idle" => SignalConfig.enabled /\ poll'[q].at \in Nat \ {0}
    BY <1>4 DEF ScaleInv, ScaleTypes
  <1>9. (r.data = FALSE /\ r.calc = calc) \/ Sampled(r, at)
    <2>1. PICK in : in = poll[p].raw.in
      OBVIOUS
    <2>2. r = calculate(in, at)
      BY <1>2, <2>1
    <2> QED
      BY <2>2, Calculated
  <1>10. CASE r.data = FALSE /\ r.calc = calc
    BY <1>4, <1>6, <1>8, <1>10, ScaleUntouched
  <1>11. ASSUME Sampled(r, at) PROVE ScaleInv'
    <2>s. /\ r.data = TRUE /\ r.unhealthy \in BOOLEAN
          /\ ~advanceWindow(at) => r.calc = calc
          /\ advanceWindow(at) => /\ r.calc.unhealthyWindows = IF r.unhealthy THEN calc.unhealthyWindows + 1 ELSE 0
                                  /\ r.calc.lastSampleAt = at
          /\ r.signal.recommended => /\ r.unhealthy /\ r.signal.reason # "localized_hot_key"
                                     /\ r.calc.unhealthyWindows >= SignalConfig.consecutive
      BY <1>11 DEF Sampled
    <2>0. PICK w : w = SignalConfig.window
      OBVIOUS
    <2>n. PICK n : n = Len(samples)
      OBVIOUS
    <2>1. /\ samples' = Append(samples, e)
          /\ e.at = at /\ e.unhealthy = r.unhealthy /\ e.signal = r.signal
      BY <1>3, <1>4, <2>s
    <2>2. /\ \E S : samples' \in Seq(S)
          /\ n \in Nat /\ DOMAIN samples = 1..n /\ DOMAIN samples' = 1..(n + 1)
          /\ \A i \in 1..n : samples'[i] = samples[i]
          /\ samples'[n + 1] = e
      <3>1. PICK S : samples \in Seq(S)
        BY DEF ScaleInv, ScaleTypes
      <3>2. /\ Append(samples, e) \in Seq(S \union {e})
            /\ Len(samples) \in Nat /\ DOMAIN samples = 1..Len(samples)
            /\ DOMAIN Append(samples, e) = 1..(Len(samples) + 1)
            /\ \A i \in 1..Len(samples) : Append(samples, e)[i] = samples[i]
            /\ Append(samples, e)[Len(samples) + 1] = e
        BY <3>1, Appended
      <3>3. samples' \in Seq(S \union {e})
        BY <2>1, <3>2, Zenon
      <3> QED
        BY <2>1, <2>n, <3>2, <3>3, Zenon
    <2>3. /\ \A i \in 1..n : samples[i].at \in Nat \ {0}
          /\ \A i \in 1..(n + 1) : i \in 1..n \/ i = n + 1
          /\ n + 1 \in 1..(n + 1) /\ \A i \in 1..n : i \in 1..(n + 1) /\ i # n + 1
      BY <1>6, <2>2
    <2>4. advanceWindow(at) <=> calc.lastSampleAt = 0 \/ at - calc.lastSampleAt >= w
      BY <2>0 DEF advanceWindow
    <2>5. calc'.unhealthyWindows \in Nat /\ calc'.lastSampleAt \in Nat
      BY <1>4, <1>6, <2>s
    <2>6. \A i \in DOMAIN samples' : samples'[i].at \in Nat \ {0}
      BY <1>6, <2>1, <2>2, <2>3
    <2>7. ScaleTypes'
      BY <1>4, <1>5, <1>6, <1>8, <2>2, <2>5, <2>6 DEF ScaleTypes
    <2>8. ASSUME NEW I, I \subseteq 1..n, Consecutive(I) PROVE Consecutive(I)'
      BY <1>5, <2>2, <2>8, ChainKept
    <2>9. WindowsBacked'
      <3>1. ASSUME NEW m \in 0..calc'.unhealthyWindows PROVE \E I : Chain(I, m)'
        <4>1. CASE m = 0
          <5>1. Chain({}, 0)'
            BY FS_EmptySet DEF Chain, Consecutive
          <5> QED
            BY <4>1, <5>1
        <4>2. ASSUME m # 0, ~advanceWindow(at) PROVE \E I : Chain(I, m)'
          <5>1. m \in 0..calc.unhealthyWindows /\ calc' = calc
            BY <1>4, <2>s, <4>2
          <5>2. PICK I : Chain(I, m)
            BY <5>1 DEF ScaleInv, WindowsBacked
          <5>3. /\ I \subseteq 1..n /\ IsFiniteSet(I) /\ Cardinality(I) = m /\ Consecutive(I)
                /\ I = {} \/ \E last \in I : ClosedBy(I, last)
            BY <2>2, <5>2 DEF Chain
          <5>4. I # {}
            BY <4>2, <5>3, FS_EmptySet
          <5>5. PICK last \in I : ClosedBy(I, last)
            BY <5>3, <5>4
          <5>6. last \in 1..n /\ samples'[last] = samples[last] /\ samples[last].at = calc.lastSampleAt
            BY <2>2, <5>3, <5>5 DEF ClosedBy
          <5>7. at - samples[last].at < w
            BY <1>6, <1>7, <2>0, <2>4, <4>2, <5>6
          <5>8. ASSUME NEW k \in 1..(n + 1), k > last PROVE samples'[k].at - samples'[last].at < w
            <6>1. CASE k \in 1..n
              BY <2>0, <2>2, <5>5, <5>6, <5>8, <6>1 DEF ClosedBy
            <6>2. CASE k = n + 1
              BY <2>1, <2>2, <5>6, <5>7, <6>2
            <6> QED
              BY <2>3, <6>1, <6>2
          <5>9. ClosedBy(I, last)'
            BY <1>5, <2>0, <2>2, <5>1, <5>5, <5>6, <5>8 DEF ClosedBy
          <5>10. Consecutive(I)' /\ I \subseteq DOMAIN samples'
            BY <2>2, <2>3, <2>8, <5>3
          <5> QED
            BY <5>3, <5>9, <5>10 DEF Chain
        <4>3. ASSUME m # 0, advanceWindow(at) PROVE \E I : Chain(I, m)'
          <5>1. /\ r.unhealthy /\ calc'.lastSampleAt = at
                /\ m \in Nat /\ m - 1 \in 0..calc.unhealthyWindows
            <6>1. /\ calc'.unhealthyWindows = IF r.unhealthy THEN calc.unhealthyWindows + 1 ELSE 0
                  /\ calc'.lastSampleAt = at
              BY <1>4, <2>s, <4>3, Zenon
            <6>2. ASSUME ~r.unhealthy PROVE FALSE
              <7>1. calc'.unhealthyWindows = 0
                BY <6>1, <6>2, Zenon
              <7> QED
                BY <4>3, <7>1
            <6>3. r.unhealthy
              BY <6>2, Zenon
            <6>4. calc'.unhealthyWindows = calc.unhealthyWindows + 1
              BY <6>1, <6>3, Zenon
            <6>5. m \in Nat /\ m - 1 \in 0..calc.unhealthyWindows
              BY <1>6, <4>3, <6>4
            <6> QED
              BY <6>1, <6>3, <6>5, Zenon
          <5>2. PICK I : Chain(I, m - 1)
            BY <5>1 DEF ScaleInv, WindowsBacked
          <5>3. /\ I \subseteq 1..n /\ IsFiniteSet(I) /\ Cardinality(I) = m - 1 /\ Consecutive(I)
                /\ I = {} \/ \E last \in I : ClosedBy(I, last)
            BY <2>2, <5>2 DEF Chain
          <5>4. \/ I = {}
                \/ \E last \in I : /\ \A i \in I : i <= last
                                   /\ samples'[n + 1].at - samples[last].at >= w
                                   /\ \A k \in 1..n : k > last => samples[k].at - samples[last].at < w
            <6>1. ASSUME NEW last \in I, ClosedBy(I, last) PROVE samples'[n + 1].at - samples[last].at >= w
              <7>1. samples[last].at = calc.lastSampleAt /\ calc.lastSampleAt # 0
                BY <2>3, <5>3, <6>1 DEF ClosedBy
              <7> QED
                BY <2>1, <2>2, <2>4, <4>3, <7>1
            <6> QED
              BY <2>0, <2>2, <5>3, <6>1 DEF ClosedBy
          <5>5. Consecutive(I \union {n + 1})'
            <6>1. \A i \in 1..n : samples[i].at \in Int
              BY <2>3
            <6>2. samples'[n + 1].at = at /\ samples'[n + 1].unhealthy
              BY <2>1, <2>2, <5>1, Zenon
            <6>3. samples'[n + 1].at \in Int
              BY <1>6, <6>2
            <6>4. \/ I = {}
                  \/ \E last \in I : /\ \A i \in I : i <= last
                                     /\ samples'[n + 1].at - samples[last].at >= SignalConfig.window
                                     /\ \A k \in 1..n : k > last => samples[k].at - samples[last].at < SignalConfig.window
              BY <2>0, <5>4, Zenon
            <6>5. n \in Nat /\ \A i \in 1..n : samples'[i] = samples[i]
              BY <2>2, Zenon
            <6> QED
              BY <1>5, <1>7, <5>3, <6>1, <6>2, <6>3, <6>4, <6>5, ChainContinued
          <5>j. PICK J : J = I \union {n + 1}
            OBVIOUS
          <5>6. IsFiniteSet(J) /\ Cardinality(J) = m
            <6>1. n + 1 \notin I
              BY <2>3, <5>3
            <6>2. IsFiniteSet(J) /\ Cardinality(J) = Cardinality(I) + 1
              BY <5>j, <5>3, <6>1, FS_AddElement
            <6> QED
              BY <5>1, <5>3, <6>2
          <5>7. ClosedBy(J, n + 1)'
            <6>1. n + 1 \in J /\ \A i \in J : i <= n + 1
              BY <2>2, <5>j, <5>3
            <6>2. samples'[n + 1].at = calc'.lastSampleAt
              BY <2>1, <2>2, <5>1
            <6>3. \A k \in DOMAIN samples' : ~(k > n + 1)
              BY <2>2
            <6> QED
              BY <6>1, <6>2, <6>3 DEF ClosedBy
          <5>8. J \subseteq DOMAIN samples' /\ n + 1 \in J
            BY <2>2, <2>3, <5>j, <5>3
          <5>9. Consecutive(J)'
            BY <5>5, <5>j
          <5> QED
            BY <5>6, <5>7, <5>8, <5>9 DEF Chain
        <4> QED
          BY <4>1, <4>2, <4>3
      <3> QED
        BY <3>1 DEF WindowsBacked
    <2>10. ScaleSustained'
      <3>1. ASSUME NEW k \in 1..(n + 1), samples'[k].signal.recommended
            PROVE  /\ samples'[k].unhealthy /\ samples'[k].signal.reason # "localized_hot_key"
                   /\ \E I \in SUBSET (1..k) : Cardinality(I) = SignalConfig.consecutive /\ Consecutive(I)'
        <4>1. CASE k \in 1..n
          <5>1. /\ samples[k].unhealthy /\ samples[k].signal.reason # "localized_hot_key"
                /\ \E I \in SUBSET (1..k) : Cardinality(I) = SignalConfig.consecutive /\ Consecutive(I)
            BY <2>2, <3>1, <4>1 DEF ScaleInv, ScaleSustained
          <5>2. PICK I \in SUBSET (1..k) : Cardinality(I) = SignalConfig.consecutive /\ Consecutive(I)
            BY <5>1
          <5>3. I \subseteq 1..n
            BY <2>2, <4>1
          <5>4. Consecutive(I)'
            BY <2>8, <5>2, <5>3
          <5> QED
            BY <2>2, <4>1, <5>1, <5>2, <5>4
        <4>2. CASE k = n + 1
          <5>1. r.signal.recommended
            BY <2>1, <2>2, <3>1, <4>2
          <5>2. /\ samples'[k].unhealthy /\ samples'[k].signal.reason # "localized_hot_key"
                /\ calc'.unhealthyWindows >= SignalConfig.consecutive
            BY <1>4, <2>s, <2>1, <2>2, <4>2, <5>1
          <5>3. SignalConfig.consecutive \in 0..calc'.unhealthyWindows
            BY <1>7, <2>5, <5>2
          <5>4. PICK I : Chain(I, SignalConfig.consecutive)'
            BY <1>5, <2>9, <5>3 DEF WindowsBacked
          <5>5. I \in SUBSET (1..k) /\ Cardinality(I) = SignalConfig.consecutive /\ Consecutive(I)'
            BY <1>5, <2>2, <4>2, <5>4 DEF Chain
          <5> QED
            BY <5>2, <5>5
        <4> QED
          BY <2>3, <4>1, <4>2
      <3> QED
        BY <1>5, <2>2, <3>1 DEF ScaleSustained
    <2> QED
      BY <2>7, <2>9, <2>10 DEF ScaleInv
  <1> QED
    BY <1>9, <1>10, <1>11

\* Every step keeps the chains.
LEMMA ScaleInvNext ==
  ASSUME ScaleInv, [Next]_vars
  PROVE  ScaleInv'
  <1>1. /\ now \in Nat \ {0} /\ DOMAIN poll = Pollers
        /\ \A q \in Pollers : /\ DOMAIN poll[q] = {"pc", "left", "at", "raw"}
                              /\ poll[q].pc # "idle" => SignalConfig.enabled /\ poll[q].at \in Nat \ {0}
    BY DEF ScaleInv, ScaleTypes
  <1>2. ASSUME UNCHANGED <<load, scaleVars>>, now' = now \/ now' = now + 1 PROVE ScaleInv'
    <2>1. now' \in Nat \ {0} /\ UNCHANGED <<load, calc, samples, poll>>
      BY <1>1, <1>2 DEF scaleVars
    <2> QED
      BY <1>1, <2>1, ScaleUntouched
  <1>3. CASE UNCHANGED vars
    BY <1>2, <1>3 DEF vars, dataVars
  <1>4. CASE Work /\ UNCHANGED <<quotaVars, scaleVars>>
    BY <1>2, <1>4 DEF Work
  <1>5. CASE Tick /\ UNCHANGED scaleVars
    BY <1>2, <1>5 DEF Tick
  <1>6. CASE QuotaNext /\ UNCHANGED <<dataVars, scaleVars>>
    BY <1>2, <1>6 DEF dataVars
  <1>7. CASE PressureSummarySnapshot /\ UNCHANGED <<dataVars, quotaVars>>
    <2>1. UNCHANGED <<load, now, calc, poll, samples>>
      BY <1>7 DEF PressureSummarySnapshot, dataVars
    <2> QED
      BY <1>1, <2>1, ScaleUntouched
  <1>8. CASE ScaleNext /\ UNCHANGED <<dataVars, quotaVars>>
    BY <1>7, <1>8, PollKeepsScale, CalculateKeepsScale DEF ScaleNext
  <1> QED
    BY <1>3, <1>4, <1>5, <1>6, <1>8 DEF Next

LEMMA ScaleInvInit == Init => ScaleInv
  <1> SUFFICES ASSUME Init PROVE ScaleInv
    OBVIOUS
  <1>1. /\ calc.unhealthyWindows = 0 /\ calc.lastSampleAt = 0 /\ samples = <<>>
        /\ load \in DOMAIN Workloads /\ now = 1 /\ ValidateAutoscalingSignalConfig(SignalConfig)
    BY DEF Init, DataInit, ScaleInit
  <1>2. DOMAIN poll = Pollers
        /\ \A p \in Pollers : DOMAIN poll[p] = {"pc", "left", "at", "raw"} /\ poll[p].pc = "idle"
    BY DEF Init, ScaleInit
  <1>3. <<>> \in Seq({}) /\ DOMAIN <<>> = {}
    OBVIOUS
  <1>4. ScaleTypes
    BY <1>1, <1>2, <1>3 DEF ScaleTypes
  <1>5. Chain({}, 0)
    BY FS_EmptySet DEF Chain, Consecutive
  <1>6. WindowsBacked
    BY <1>1, <1>5 DEF WindowsBacked
  <1>7. ScaleSustained
    BY <1>1, <1>3 DEF ScaleSustained
  <1> QED
    BY <1>4, <1>6, <1>7 DEF ScaleInv

\* ScaleSignal recommends scaling only with an unhealthy sample, behind as many consecutive unhealthy windows as are
\* configured, however many pollers there are and in whatever order they reach the calculator, and never for a
\* localized hot key.
THEOREM ScalingIsSustained == Spec => []ScaleSustained
  <1>1. ScaleInv /\ [Next]_vars => ScaleInv'
    BY ScaleInvNext
  <1>2. ScaleInv => ScaleSustained
    BY DEF ScaleInv
  <1> QED
    BY <1>1, <1>2, ScaleInvInit, PTL DEF Spec
-----------------------------------------------------------------------------
(***************************************************************************)
(* The quotas the controller publishes.                                    *)
(***************************************************************************)

\* The new quota of a candidate is within a step of the old one and within the bound it moves to.
LEMMA CandidateMoves ==
  ASSUME NEW cfg, NEW pol, NEW q \in 1..MaxLaneQuota, cfg.incStep \in Nat \ {0}, cfg.decStep \in Nat \ {0},
         pol.min \in Nat \ {0}, pol.max \in Int, pol.max <= MaxLaneQuota
  PROVE  /\ q < pol.max => /\ applyCandidate(cfg, pol, q, "increase") \in q + 1 .. q + cfg.incStep
                           /\ applyCandidate(cfg, pol, q, "increase") <= pol.max
         /\ q > pol.min => /\ applyCandidate(cfg, pol, q, "decrease") \in q - cfg.decStep .. q - 1
                           /\ applyCandidate(cfg, pol, q, "decrease") >= pol.min
  <1>1. MaxLaneQuota \in Nat \ {0} /\ q \in Int
    BY QuotaAssumption
  <1>2. ASSUME q < pol.max
        PROVE  /\ applyCandidate(cfg, pol, q, "increase") \in q + 1 .. q + cfg.incStep
               /\ applyCandidate(cfg, pol, q, "increase") <= pol.max
    <2>1. PICK m : m = Min({q + cfg.incStep, pol.max})
      OBVIOUS
    <2>2. m = IF q + cfg.incStep <= pol.max THEN q + cfg.incStep ELSE pol.max
      BY <1>1, <2>1, PairMin
    <2>3. m \in Int /\ m >= q + 1 /\ m <= q + cfg.incStep /\ m <= pol.max
      BY <1>1, <1>2, <2>2
    <2>4. Max({m, 1}) = m
      BY <1>1, <2>3, PairMax
    <2>5. Min({m, MaxLaneQuota}) = m
      BY <1>1, <2>3, PairMin
    <2>6. applyCandidate(cfg, pol, q, "increase") = m
      BY <2>1, <2>4, <2>5, Zenon DEF applyCandidate
    <2> QED
      BY <1>1, <2>3, <2>6
  <1>3. ASSUME q > pol.min
        PROVE  /\ applyCandidate(cfg, pol, q, "decrease") \in q - cfg.decStep .. q - 1
               /\ applyCandidate(cfg, pol, q, "decrease") >= pol.min
    <2>1. PICK m : m = Max({q - cfg.decStep, pol.min})
      OBVIOUS
    <2>2. m = IF q - cfg.decStep <= pol.min THEN pol.min ELSE q - cfg.decStep
      BY <1>1, <2>1, PairMax
    <2>3. m \in Int /\ m >= q - cfg.decStep /\ m <= q - 1 /\ m >= pol.min
      BY <1>1, <1>3, <2>2
    <2>4. Max({m, 1}) = m
      BY <1>1, <2>3, PairMax
    <2>5. Min({m, MaxLaneQuota}) = m
      BY <1>1, <2>3, PairMin
    <2>6. "decrease" # "increase"
      OBVIOUS
    <2>7. applyCandidate(cfg, pol, q, "decrease") = m
      BY <2>1, <2>4, <2>5, <2>6, Zenon DEF applyCandidate
    <2> QED
      BY <1>1, <2>3, <2>7
  <1> QED
    BY <1>2, <1>3

\* What a candidate has behind it: its cooldown is over, and it is not yet at the bound it moves to.
LEMMA CandidateReasons ==
  ASSUME NEW cfg, NEW pol, NEW sig, NEW pressure, NEW startedAt, NEW last, NEW t, NEW o,
         o = LaneOutcome(cfg, pol, sig, pressure, startedAt, last, t)
  PROVE  /\ o.action \in {"hold", "increase", "decrease"}
         /\ o.action # "hold" => last = 0 \/ ~(t - last < cfg.cooldown)
         /\ o.action = "increase" => ~(sig.quota >= pol.max)
         /\ o.action = "decrease" => ~(sig.quota <= pol.min)
  <1>0. NoOutcome.action = "none" /\ \A x : Hold(x).action = "hold"
    BY DEF NoOutcome, Hold
  <1>1. PICK b : b = BlockedOutcome(cfg, pol, sig, pressure, startedAt, last, t)
    OBVIOUS
  <1>2. PICK d : d = DecreaseOutcome(cfg, pol, sig, pressure)
    OBVIOUS
  <1>3. PICK i : i = IncreaseOutcome(cfg, pol, sig, pressure)
    OBVIOUS
  <1>4. PICK r : r = RestOutcome(cfg, pol, pressure)
    OBVIOUS
  <1>5. b.action = "hold" \/ (b = NoOutcome /\ (last = 0 \/ ~(t - last < cfg.cooldown)))
    BY <1>0, <1>1, Zenon DEF BlockedOutcome
  <1>6. d.action = "hold" \/ d = NoOutcome \/ (d.action = "decrease" /\ ~(sig.quota <= pol.min))
    <2>1. \A x : [action |-> "decrease", reason |-> x].action = "decrease"
      OBVIOUS
    <2> QED
      BY <1>0, <1>2, <2>1, Zenon DEF DecreaseOutcome
  <1>7. i.action = "hold" \/ i = NoOutcome \/ (i.action = "increase" /\ ~(sig.quota >= pol.max))
    <2>1. \A x : [action |-> "increase", reason |-> x].action = "increase"
      OBVIOUS
    <2> QED
      BY <1>0, <1>3, <2>1, Zenon DEF IncreaseOutcome
  <1>8. r.action = "hold"
    BY <1>0, <1>4, Zenon DEF RestOutcome
  <1>9. PICK rules : rules = <<b, d, i, r>>
    OBVIOUS
  <1>10. DOMAIN rules = 1..4 /\ rules[1] = b /\ rules[2] = d /\ rules[3] = i /\ rules[4] = r
    BY <1>9
  <1>11. PICK S : S = {n \in DOMAIN rules : rules[n] # NoOutcome}
    OBVIOUS
  <1>12. S \subseteq 1..4 /\ 4 \in S /\ S \subseteq Nat /\ (b # NoOutcome => 1 \in S)
    BY <1>0, <1>8, <1>10, <1>11
  <1>13. Min(S) \in S /\ \A y \in S : Min(S) <= y
    BY <1>12, LeastOf
  <1>14. PICK n \in 1..4 : n = Min(S) /\ n \in S /\ rules[n] # NoOutcome
    BY <1>11, <1>12, <1>13
  <1>15. b # NoOutcome => n = 1
    BY <1>12, <1>13, <1>14
  <1>16. o = rules[n]
    BY <1>1, <1>2, <1>3, <1>4, <1>9, <1>11, <1>14, Zenon DEF LaneOutcome
  <1>17. \/ o = b /\ b # NoOutcome
         \/ b = NoOutcome /\ (o = d \/ o = i \/ o = r) /\ o # NoOutcome
    <2>1. n = 1 \/ n = 2 \/ n = 3 \/ n = 4
      OBVIOUS
    <2> QED
      BY <1>10, <1>14, <1>15, <1>16, <2>1
  <1> QED
    BY <1>5, <1>6, <1>7, <1>8, <1>17, <1>0

\* What the decisions of an evaluation say about the quotas and the times they were made from.
Considered(d, cfg, pols, quotas, lastAdjusted, t) ==
  /\ d.lane \in Lanes /\ d.old = quotas[d.lane] /\ d.action \in {"hold", "increase", "decrease"}
  /\ d.action = "increase" => d.new \in d.old + 1 .. d.old + cfg.incStep /\ d.new <= pols[d.lane].max
  /\ d.action = "decrease" => d.new \in d.old - cfg.decStep .. d.old - 1 /\ d.new >= pols[d.lane].min
  /\ d.action # "hold" /\ lastAdjusted[d.lane] # 0 => t - lastAdjusted[d.lane] >= cfg.cooldown

LEMMA Evaluated ==
  ASSUME NEW cfg, NEW pols, NEW snap, NEW st, NEW t \in Nat, NEW quotas \in [Lanes -> 1..MaxLaneQuota],
         cfg.incStep \in Nat \ {0}, cfg.decStep \in Nat \ {0}, cfg.cooldown \in Int,
         \A l \in Lanes : pols[l].min \in Nat \ {0} /\ pols[l].max \in Int /\ pols[l].max <= MaxLaneQuota,
         \A l \in Lanes : snap.lanes[l].quota = quotas[l] /\ st.lastAdjusted[l] \in Nat,
         NEW ds, ds = EvaluateAdaptiveQuota(cfg, pols, snap, st, t)
  PROVE  /\ DOMAIN ds = DOMAIN LaneOrder
         /\ \A i \in DOMAIN ds : Considered(ds[i], cfg, pols, quotas, st.lastAdjusted, t)
  <1> DEFINE outcome == [l \in Lanes |-> LaneOutcome(cfg, pols[l], snap.lanes[l], snap.pressure, st.startedAt,
                                                     st.lastAdjusted[l], t)]
             chosen == ChosenCandidates(cfg, pols, outcome)
  <1>3. ds = [i \in DOMAIN LaneOrder |->
                LET l == LaneOrder[i]
                    old == snap.lanes[l].quota
                    o == IF outcome[l].action = "hold" \/ i \in chosen THEN outcome[l] ELSE Hold("none") IN
                [lane |-> l, action |-> o.action, reason |-> o.reason, old |-> old,
                 new |-> IF o.action = "hold" THEN old ELSE applyCandidate(cfg, pols[l], old, o.action)]]
    BY Zenon DEF EvaluateAdaptiveQuota
  <1>1. \A l \in Lanes : outcome[l] = LaneOutcome(cfg, pols[l], snap.lanes[l], snap.pressure, st.startedAt, st.lastAdjusted[l], t)
    OBVIOUS
  <1> HIDE DEF outcome, chosen
  <1>4. DOMAIN ds = DOMAIN LaneOrder
    BY <1>3
  <1>5. ASSUME NEW i \in DOMAIN ds PROVE Considered(ds[i], cfg, pols, quotas, st.lastAdjusted, t)
    <2>1. PICK l \in Lanes : l = LaneOrder[i]
      BY <1>4, QuotaAssumption DEF Lanes
    <2>2. PICK o : o = IF outcome[l].action = "hold" \/ i \in chosen THEN outcome[l] ELSE Hold("none")
      OBVIOUS
    <2>3. PICK q \in 1..MaxLaneQuota : q = quotas[l] /\ q = snap.lanes[l].quota
      OBVIOUS
    <2>4. ds[i] = [lane |-> l, action |-> o.action, reason |-> o.reason, old |-> q,
                   new |-> IF o.action = "hold" THEN q ELSE applyCandidate(cfg, pols[l], q, o.action)]
      BY <1>3, <1>4, <2>1, <2>2, <2>3
    <2>5. /\ ds[i].lane = l /\ ds[i].action = o.action /\ ds[i].old = q
          /\ o.action # "hold" => ds[i].new = applyCandidate(cfg, pols[l], q, o.action)
      BY <2>4
    <2>6. outcome[l] = LaneOutcome(cfg, pols[l], snap.lanes[l], snap.pressure, st.startedAt, st.lastAdjusted[l], t)
      BY <1>1
    <2>7. PICK p : p = outcome[l]
      OBVIOUS
    <2>8. /\ p.action \in {"hold", "increase", "decrease"}
          /\ p.action # "hold" => st.lastAdjusted[l] = 0 \/ ~(t - st.lastAdjusted[l] < cfg.cooldown)
          /\ p.action = "increase" => ~(snap.lanes[l].quota >= pols[l].max)
          /\ p.action = "decrease" => ~(snap.lanes[l].quota <= pols[l].min)
      BY <2>6, <2>7, CandidateReasons
    <2>9. o = p \/ o.action = "hold"
      BY <2>2, <2>7 DEF Hold
    <2>10. /\ o.action \in {"hold", "increase", "decrease"}
           /\ o.action # "hold" => st.lastAdjusted[l] = 0 \/ ~(t - st.lastAdjusted[l] < cfg.cooldown)
           /\ o.action = "increase" => ~(q >= pols[l].max)
           /\ o.action = "decrease" => ~(q <= pols[l].min)
      BY <2>3, <2>8, <2>9
    <2>11. pols[l].min \in Nat \ {0} /\ pols[l].max \in Int /\ pols[l].max <= MaxLaneQuota /\ st.lastAdjusted[l] \in Nat
      OBVIOUS
    <2>12. /\ q < pols[l].max => /\ applyCandidate(cfg, pols[l], q, "increase") \in q + 1 .. q + cfg.incStep
                                 /\ applyCandidate(cfg, pols[l], q, "increase") <= pols[l].max
           /\ q > pols[l].min => /\ applyCandidate(cfg, pols[l], q, "decrease") \in q - cfg.decStep .. q - 1
                                 /\ applyCandidate(cfg, pols[l], q, "decrease") >= pols[l].min
      BY <2>11, CandidateMoves
    <2>13. o.action # "hold" /\ st.lastAdjusted[l] # 0 => t - st.lastAdjusted[l] >= cfg.cooldown
      <3>1. t - st.lastAdjusted[l] \in Int
        BY <2>11
      <3> QED
        BY <2>10, <3>1
    <2>14. ASSUME o.action = "increase"
           PROVE  ds[i].new \in q + 1 .. q + cfg.incStep /\ ds[i].new <= pols[l].max
      <3>1. q < pols[l].max
        BY <2>10, <2>11, <2>14
      <3>2. ds[i].new = applyCandidate(cfg, pols[l], q, "increase")
        BY <2>5, <2>14
      <3> QED
        BY <2>12, <3>1, <3>2
    <2>15. ASSUME o.action = "decrease"
           PROVE  ds[i].new \in q - cfg.decStep .. q - 1 /\ ds[i].new >= pols[l].min
      <3>1. q > pols[l].min
        BY <2>10, <2>11, <2>15
      <3>2. ds[i].new = applyCandidate(cfg, pols[l], q, "decrease")
        BY <2>5, <2>15
      <3> QED
        BY <2>12, <3>1, <3>2
    <2> QED
      BY <2>3, <2>5, <2>10, <2>13, <2>14, <2>15 DEF Considered
  <1> QED
    BY <1>4, <1>5

\* The normalised configuration has numbers where the input has, and steps that are positive.
LEMMA AdaptiveNumbers ==
  ASSUME load \in DOMAIN Workloads
  PROVE  /\ Config.incStep \in Nat \ {0} /\ Config.decStep \in Nat \ {0} /\ Config.cooldown \in Int
         /\ Config.enabled => Plan.adaptive.enabled
  <1> DEFINE c == Plan.adaptive
             flags == {"enabled", "inc", "dec"}
  <1>1. /\ DOMAIN c = DOMAIN DefaultAdaptiveQuotaConfig
        /\ \A f \in DOMAIN c : IF f \in flags THEN c[f] \in BOOLEAN ELSE c[f] \in Int
    BY AdaptiveAssumption DEF Plan
  <1>2. /\ {"enabled", "incStep", "decStep", "cooldown"} \subseteq DOMAIN DefaultAdaptiveQuotaConfig
        /\ DefaultAdaptiveQuotaConfig.incStep = 1 /\ DefaultAdaptiveQuotaConfig.decStep = 1
        /\ DefaultAdaptiveQuotaConfig.cooldown = 5
    BY DEF DefaultAdaptiveQuotaConfig
  <1>3. c.incStep \in Int /\ c.decStep \in Int /\ c.cooldown \in Int /\ c.enabled \in BOOLEAN
    BY <1>1, <1>2
  <1> HIDE DEF c
  <1>4. /\ Config.incStep = IF c.incStep <= 0 THEN DefaultAdaptiveQuotaConfig.incStep ELSE c.incStep
        /\ Config.decStep = IF c.decStep <= 0 THEN DefaultAdaptiveQuotaConfig.decStep ELSE c.decStep
        /\ Config.cooldown = IF c.cooldown <= 0 THEN DefaultAdaptiveQuotaConfig.cooldown ELSE c.cooldown
        /\ Config.enabled => c.enabled
    BY <1>1, <1>2 DEF Config, NormalizeAdaptiveQuotaConfig, c
  <1> QED
    BY <1>2, <1>3, <1>4 DEF c

\* The bounds of a lane, its own or those of its class.
LEMMA LaneBounds ==
  ASSUME load \in DOMAIN Workloads, Plan.adaptive.enabled,
         ValidateAdaptiveQuotaPolicy(Plan.adaptive, Plan.lanePolicies), NEW l \in Lanes
  PROVE  Policies[l].min \in Nat \ {0} /\ Policies[l].max \in Int /\ Policies[l].max <= MaxLaneQuota
  <1> DEFINE entries == Plan.lanePolicies
             S == {i \in DOMAIN entries : entries[i].lane = l}
             p == entries[Max(S)].policy
             class == IF p.class = "" THEN Plan.laneClass[l] ELSE p.class
             r == defaultResolvedPolicy(class, LaneQuotas[l])
             min == IF p.min >= 1 THEN p.min ELSE r.min
             max == IF p.max >= min THEN p.max ELSE r.max
  <1>1. MaxLaneQuota \in Nat \ {0} /\ LaneQuotas[l] \in 1..MaxLaneQuota
    BY QuotaAssumption DEF Lanes
  <1>2. Policies[l] = IF S = {} THEN defaultResolvedPolicy(Plan.laneClass[l], LaneQuotas[l])
                      ELSE [r EXCEPT !.enabled = p.enabled, !.min = min, !.max = Min({Max({max, min}), MaxLaneQuota}),
                                     !.targetWait = IF p.targetWait > 0 THEN p.targetWait ELSE @,
                                     !.inc = p.inc, !.dec = p.dec]
    BY Zenon DEF Policies, resolveAdaptiveLanePolicies
  <1>3. /\ DOMAIN entries = 1..Len(entries)
        /\ \A i \in DOMAIN entries : entries[i].policy.min \in Int /\ entries[i].policy.max \in Int
    BY AdaptiveAssumption DEF Plan
  <1>4. \A i, j \in DOMAIN entries : entries[i].lane = entries[j].lane => i = j
    BY Zenon DEF ValidateAdaptiveQuotaPolicy
  <1>5. ASSUME NEW cl
        PROVE  /\ defaultResolvedPolicy(cl, LaneQuotas[l]).min = 1
               /\ defaultResolvedPolicy(cl, LaneQuotas[l]).max \in 1..MaxLaneQuota
               /\ {"min", "max", "enabled", "targetWait", "inc", "dec"} \subseteq DOMAIN defaultResolvedPolicy(cl, LaneQuotas[l])
    <2>1. Max({LaneQuotas[l], 1}) = LaneQuotas[l]
      BY <1>1, PairMax
    <2>2. Min({LaneQuotas[l], MaxLaneQuota}) = LaneQuotas[l]
      BY <1>1, PairMin
    <2>3. defaultResolvedPolicy(cl, LaneQuotas[l]).max = LaneQuotas[l]
      BY <2>1, <2>2 DEF defaultResolvedPolicy
    <2> QED
      BY <1>1, <2>3 DEF defaultResolvedPolicy
  <1> HIDE DEF entries, p, class, r, min, max
  <1>6. CASE S = {}
    BY <1>1, <1>2, <1>5, <1>6
  <1>7. CASE S # {}
    <2>1. p.min \in Int /\ p.max \in Int
      <3>1. PICK i \in DOMAIN entries : i \in S
        BY <1>7
      <3>2. S = {i} /\ i \in Int
        BY <1>3, <1>4, <3>1
      <3>3. Max({i}) = i
        BY <3>2 DEF Max
      <3>4. p = entries[i].policy
        BY <3>2, <3>3 DEF p
      <3> QED
        BY <1>3, <3>4
    <2>2. r.min = 1 /\ r.max \in 1..MaxLaneQuota /\ {"min", "max", "enabled", "targetWait", "inc", "dec"} \subseteq DOMAIN r
      BY <1>5 DEF r
    <2>3. Policies[l].min = min /\ Policies[l].max = Min({Max({max, min}), MaxLaneQuota})
      BY <1>2, <1>7, <2>2
    <2>4. min \in Nat \ {0} /\ max \in Int
      BY <1>1, <2>1, <2>2 DEF min, max
    <2>5. PICK m \in Int : m = Max({max, min})
      BY <2>4, PairMax
    <2>6. Min({m, MaxLaneQuota}) = IF m <= MaxLaneQuota THEN m ELSE MaxLaneQuota
      BY <1>1, PairMin
    <2> QED
      BY <1>1, <2>3, <2>4, <2>5, <2>6
  <1> QED
    BY <1>6, <1>7

\* Quotas are what a policy allows, times are numbers, and an update that is about to be published was found valid.
QuotasTyped ==
  /\ load \in DOMAIN Workloads /\ ValidateAdaptiveQuotaPolicy(Plan.adaptive, Plan.lanePolicies)
  /\ now \in Nat /\ policy.lanes \in [Lanes -> 1..MaxLaneQuota]
  /\ \A p \in Writers : call[p].pc = "publish" => ValidQuotaPolicy(call[p].input)
  /\ DOMAIN state = {"startedAt", "lastAdjusted", "lastDecisions", "reasons"}
  /\ state.lastAdjusted \in [Lanes -> Nat] /\ adjusted \in [Lanes -> Nat]
  /\ ctl.loop \in InTick => tick.now \in Nat
  /\ ctl.loop = "quotas" => DOMAIN tick.snap.lanes = Lanes /\ \A l \in Lanes : "quota" \in DOMAIN tick.snap.lanes[l]

\* As long as nobody has published since the snapshot, the decisions of the tick stand.
DecisionsStand ==
  ctl.loop \in {"decide", "apply"} =>
    /\ DOMAIN tick.decisions = DOMAIN LaneOrder
    /\ tick.snap.version = policy.version =>
         \A i \in DOMAIN tick.decisions : Considered(tick.decisions[i], Config, Policies, policy.lanes, adjusted, tick.now)

\* The update the controller waits for is the decision it has come to.
Sent(r, d, version) ==
  /\ r.cas /\ r.lane = d.lane /\ r.quota = d.new /\ r.expected = version /\ d.action # "hold"
  /\ r.pc \in {"check", "publish"} => d.lane \in DOMAIN r.input.lanes /\ r.input.lanes[d.lane] = d.new

DecisionSent ==
  ctl.loop = "apply" =>
    tick.next \in DOMAIN tick.decisions /\ Sent(call[Controller], tick.decisions[tick.next], tick.snap.version)

\* The controller's own record of the last change of a lane is right, except while it has not heard of its success.
RecordRight ==
  adjusted = IF ctl.loop = "apply" /\ call[Controller].pc = "ok"
             THEN [state.lastAdjusted EXCEPT ![tick.decisions[tick.next].lane] = tick.now]
             ELSE state.lastAdjusted

AdaptInv == QuotasTyped /\ DecisionsStand /\ DecisionSent /\ RecordRight

\* A step that does not concern the controller's tick.
LEMMA AdaptUntouched ==
  ASSUME AdaptInv, UNCHANGED <<load, policy, tick, adjusted>>, now' \in Nat, call'[Controller] = call[Controller],
         ctl'.loop = ctl.loop \/ (ctl.loop \notin InTick /\ ctl'.loop \notin InTick),
         DOMAIN state' = DOMAIN state, state'.lastAdjusted = state.lastAdjusted,
         \A p \in Writers : call'[p].pc = "publish" => ValidQuotaPolicy(call'[p].input)
  PROVE  AdaptInv'
  <1>1. Config' = Config /\ Policies' = Policies /\ Plan' = Plan
    BY DEF Config, Policies, Plan
  <1>2. ctl'.loop \in InTick => ctl'.loop = ctl.loop
    OBVIOUS
  <1>3. QuotasTyped'
    BY <1>1, <1>2 DEF AdaptInv, QuotasTyped, InTick
  <1>4. DecisionsStand' /\ DecisionSent'
    BY <1>1, <1>2 DEF AdaptInv, DecisionsStand, DecisionSent, InTick
  <1>5. RecordRight'
    BY DEF AdaptInv, RecordRight, InTick
  <1> QED
    BY <1>3, <1>4, <1>5 DEF AdaptInv

\* Start, Stop, time and the end of the loop.
LEMMA ControlKeepsAdapt ==
  ASSUME AdaptInv, UpdateInv, QuietInv,
         \/ StartScheduler \/ StartController \/ LaunchLoop \/ CancelContext \/ LoopExit \/ LoopDone
         \/ \E s \in Stoppers : TakeCancel(s) \/ CancelLoop(s) \/ WaitLoop(s) \/ StopScheduler(s)
         \/ Tick,
         UNCHANGED load, now' = now \/ now' = now + 1
  PROVE  AdaptInv'
  <1>1. DOMAIN ctl = {"cancel", "cancelled", "running", "wg", "loop", "ticker"}
    BY DEF UpdateInv, Shapes
  <1>2. UNCHANGED <<policy, call, tick, adjusted>>
    BY DEF StartScheduler, StartController, LaunchLoop, CancelContext, LoopExit, LoopDone, Tick, TakeCancel, CancelLoop,
           WaitLoop, StopScheduler
  <1>3. ctl'.loop = ctl.loop \/ (ctl.loop \notin InTick /\ ctl'.loop \notin InTick)
    <2>1. CASE StartScheduler \/ StartController \/ CancelContext
      BY <1>1, <2>1 DEF StartScheduler, StartController, CancelContext
    <2>2. CASE LaunchLoop
      BY <1>1, <2>2 DEF LaunchLoop, InTick, QuietInv, LoopInv
    <2>3. CASE LoopExit \/ LoopDone
      <3>1. ctl.loop \in {"select", "ended"} /\ ctl'.loop \in {"ended", "exited"}
        BY <1>1, <2>3 DEF LoopExit, LoopDone
      <3> QED
        BY <3>1 DEF InTick
    <2>4. CASE Tick
      BY <1>1, <2>4 DEF Tick
    <2>5. ASSUME NEW s \in Stoppers, TakeCancel(s) \/ CancelLoop(s) \/ WaitLoop(s) \/ StopScheduler(s)
          PROVE  ctl'.loop = ctl.loop
      BY <1>1, <2>5 DEF TakeCancel, CancelLoop, WaitLoop, StopScheduler
    <2> QED
      BY <2>1, <2>2, <2>3, <2>4, <2>5
  <1>4. DOMAIN state = {"startedAt", "lastAdjusted", "lastDecisions", "reasons"} /\ now \in Nat
        /\ \A p \in Writers : call[p].pc = "publish" => ValidQuotaPolicy(call[p].input)
    BY DEF AdaptInv, QuotasTyped
  <1>5. DOMAIN state' = DOMAIN state /\ state'.lastAdjusted = state.lastAdjusted
    BY <1>4 DEF StartScheduler, StartController, LaunchLoop, CancelContext, LoopExit, LoopDone, Tick, TakeCancel, CancelLoop,
           WaitLoop, StopScheduler
  <1>6. now' \in Nat
    BY <1>4
  <1> QED
    BY <1>2, <1>3, <1>4, <1>5, <1>6, AdaptUntouched

\* What CheckUpdate lets through is valid.
LEMMA CheckedIsValid ==
  ASSUME UpdateInv, NEW p \in Writers, CheckUpdate(p)
  PROVE  /\ call'[p].pc = "publish" => ValidQuotaPolicy(call'[p].input)
         /\ call'[p].pc \in {"invalid", "stopped", "publish"} /\ call[p].pc = "check"
         /\ \A f \in CallFields \ {"pc"} : call'[p][f] = call[p][f]
  <1>1. DOMAIN call = Writers /\ DOMAIN call[p] = CallFields /\ {"pc", "input"} \subseteq CallFields
    BY DEF UpdateInv, Shapes, CallFields
  <1>2. PICK pc : pc = IF ~ValidQuotaPolicy(call[p].input) THEN "invalid" ELSE IF sched = "stopping" THEN "stopped" ELSE "publish"
    OBVIOUS
  <1>3. call' = [call EXCEPT ![p].pc = pc] /\ call[p].pc = "check"
    BY <1>2, Zenon DEF CheckUpdate, Leave
  <1>4. call'[p].pc = pc /\ \A f \in CallFields \ {"pc"} : call'[p][f] = call[p][f]
    BY <1>1, <1>3
  <1>5. pc = "publish" => ValidQuotaPolicy(call[p].input)
    BY <1>2
  <1>6. call'[p].input = call[p].input
    BY <1>1, <1>4
  <1> QED
    BY <1>2, <1>3, <1>4, <1>5, <1>6

\* Callers of the update functions, until they publish.
LEMMA ClientKeepsAdapt ==
  ASSUME AdaptInv, UpdateInv, NEW c \in Clients,
         UpdateLaneQuota(c) \/ UpdateQuotaPolicy(c) \/ updateLaneQuotaIfVersionInternal(c) \/ CheckUpdate(c), UNCHANGED dataVars
  PROVE  AdaptInv'
  <1>1. /\ DOMAIN call = Writers /\ \A p \in Writers : DOMAIN call[p] = CallFields
        /\ c \in Writers /\ Controller \in Writers /\ c # Controller
        /\ \A p \in Writers : call[p].pc = "publish" => ValidQuotaPolicy(call[p].input)
    BY ControllerAssumption DEF UpdateInv, Shapes, Writers, AdaptInv, QuotasTyped
  <1>2. UNCHANGED <<load, now, policy, tick, adjusted, ctl, state>> /\ now \in Nat
    BY DEF UpdateLaneQuota, UpdateQuotaPolicy, updateLaneQuotaIfVersionInternal, CheckUpdate, dataVars, AdaptInv, QuotasTyped
  <1>3. \A p \in Writers : p # c => call'[p] = call[p]
    BY <1>1 DEF UpdateLaneQuota, UpdateQuotaPolicy, updateLaneQuotaIfVersionInternal, CheckUpdate, Leave
  <1>4. call'[c].pc = "publish" => ValidQuotaPolicy(call'[c].input)
    <2>1. CASE UpdateLaneQuota(c)
      <3>1. call'[c] = ConditionalCall(Plan.ops[c].lane, Plan.ops[c].quota, policy.version)
        BY <1>1, <2>1 DEF UpdateLaneQuota
      <3>2. call'[c].pc = "read"
        BY <3>1 DEF ConditionalCall
      <3> QED
        BY <3>2
    <2>2. CASE UpdateQuotaPolicy(c)
      <3>1. call'[c].pc = "check"
        BY <1>1, <2>2 DEF UpdateQuotaPolicy, NoCall
      <3> QED
        BY <3>1
    <2>3. CASE updateLaneQuotaIfVersionInternal(c)
      <3>1. call'[c].pc = "check"
        BY <1>1, <2>3 DEF updateLaneQuotaIfVersionInternal, CallFields
      <3> QED
        BY <3>1
    <2>4. CASE CheckUpdate(c)
      BY <1>1, <2>4, CheckedIsValid
    <2> QED
      BY <2>1, <2>2, <2>3, <2>4
  <1>5. \A p \in Writers : call'[p].pc = "publish" => ValidQuotaPolicy(call'[p].input)
    BY <1>1, <1>3, <1>4
  <1> QED
    BY <1>1, <1>2, <1>3, <1>5, AdaptUntouched

\* A publication: whatever was decided before it no longer stands, and the policy has valid quotas again.
LEMMA PublishKeepsAdapt ==
  ASSUME AdaptInv, UpdateInv, QuietInv, NEW p \in Writers, publishQuotaPolicy(p), UNCHANGED dataVars
  PROVE  AdaptInv'
  <1>1. /\ DOMAIN call = Writers /\ DOMAIN call[p] = CallFields /\ "pc" \in CallFields /\ Controller \in Writers
        /\ UNCHANGED <<load, now, ctl, tick, state>> /\ call[p].pc = "publish"
    BY DEF UpdateInv, Shapes, CallFields, Writers, publishQuotaPolicy, dataVars
  <1>2. Config' = Config /\ Policies' = Policies /\ Plan' = Plan
    BY <1>1 DEF Config, Policies, Plan
  <1>3. \A q \in Writers : q # p => call'[q] = call[q]
    BY <1>1 DEF publishQuotaPolicy, Leave
  <1>4. \A f \in CallFields \ {"pc"} : call'[p][f] = call[p][f]
    BY <1>1 DEF publishQuotaPolicy, Leave
  <1>5. call'[p].pc \in {"conflict", "ok"}
    BY <1>1 DEF publishQuotaPolicy, Leave
  <1>6. \A q \in Writers : call'[q].pc = "publish" => ValidQuotaPolicy(call'[q].input)
    BY <1>3, <1>5 DEF AdaptInv, QuotasTyped
  <1>7. ASSUME p = Controller PROVE ctl.loop = "apply"
    BY <1>1, <1>7 DEF QuietInv, ApplyInv
  <1>8. DecisionSent'
    <2>1. ASSUME ctl.loop = "apply" PROVE Sent(call'[Controller], tick.decisions[tick.next], tick.snap.version)
      <3>1. Sent(call[Controller], tick.decisions[tick.next], tick.snap.version)
        BY <2>1 DEF AdaptInv, DecisionSent
      <3>2. CASE p # Controller
        BY <1>1, <1>3, <3>1, <3>2
      <3>3. CASE p = Controller
        <4>1. /\ call'[p].cas = call[p].cas /\ call'[p].lane = call[p].lane /\ call'[p].quota = call[p].quota
              /\ call'[p].expected = call[p].expected
          BY <1>4 DEF CallFields
        <4> QED
          BY <1>5, <3>1, <3>3, <4>1 DEF Sent
      <3> QED
        BY <3>2, <3>3
    <2> QED
      BY <1>1, <2>1 DEF AdaptInv, DecisionSent
  <1>9. CASE call'[p].pc = "conflict"
    <2>1. UNCHANGED <<policy, adjusted>>
      BY <1>1, <1>9 DEF publishQuotaPolicy, Leave
    <2>2. QuotasTyped'
      BY <1>1, <1>2, <1>6, <2>1 DEF AdaptInv, QuotasTyped
    <2>3. DecisionsStand'
      BY <1>1, <1>2, <2>1 DEF AdaptInv, DecisionsStand
    <2>4. call[Controller].pc = "ok" <=> call'[Controller].pc = "ok"
      BY <1>1, <1>3, <1>9
    <2>5. RecordRight'
      BY <1>1, <2>1, <2>4 DEF AdaptInv, RecordRight
    <2> QED
      BY <1>8, <2>2, <2>3, <2>5 DEF AdaptInv
  <1>10. CASE call'[p].pc = "ok"
    <2>1. /\ policy' = buildQuotaPolicySnapshot(policy.version + 1, call[p].input)
          /\ adjusted' = IF p = Controller THEN [adjusted EXCEPT ![call[p].lane] = tick.now] ELSE adjusted
      BY <1>1, <1>10 DEF publishQuotaPolicy, Leave
    <2>2. ValidQuotaPolicy(call[p].input)
      BY <1>1 DEF AdaptInv, QuotasTyped
    <2>3. policy'.lanes \in [Lanes -> 1..MaxLaneQuota] /\ policy'.version = policy.version + 1
      BY <2>1, <2>2 DEF buildQuotaPolicySnapshot, ValidQuotaPolicy
    <2>4. adjusted' \in [Lanes -> Nat]
      <3>1. adjusted \in [Lanes -> Nat] /\ (ctl.loop \in InTick => tick.now \in Nat)
        BY DEF AdaptInv, QuotasTyped
      <3>2. CASE p # Controller
        BY <2>1, <3>1, <3>2
      <3>3. CASE p = Controller
        <4>1. tick.now \in Nat
          BY <1>7, <3>1, <3>3 DEF InTick
        <4> QED
          BY <2>1, <3>1, <3>3, <4>1
      <3> QED
        BY <3>2, <3>3
    <2>5. QuotasTyped'
      BY <1>1, <1>2, <1>6, <2>3, <2>4 DEF AdaptInv, QuotasTyped
    <2>6. DecisionsStand'
      <3>1. ASSUME ctl.loop \in {"decide", "apply"} PROVE tick.snap.version # policy'.version
        <4>1. tick.snap.version \in Nat /\ tick.snap.version <= policy.version /\ policy.version \in Nat
          BY <3>1 DEF UpdateInv, SnapshotPast, InTick, Shapes
        <4> QED
          BY <2>3, <4>1
      <3> QED
        BY <1>1, <3>1 DEF AdaptInv, DecisionsStand
    <2>7. RecordRight'
      <3>1. CASE p # Controller
        <4>1. adjusted' = adjusted /\ call'[Controller] = call[Controller]
          BY <1>1, <1>3, <2>1, <3>1
        <4> QED
          BY <1>1, <4>1 DEF AdaptInv, RecordRight
      <3>2. CASE p = Controller
        <4>1. ctl.loop = "apply" /\ call[Controller].pc # "ok" /\ call'[Controller].pc = "ok"
          BY <1>1, <1>7, <1>10, <3>2
        <4>2. adjusted = state.lastAdjusted
          BY <4>1 DEF AdaptInv, RecordRight
        <4>3. call[p].lane = tick.decisions[tick.next].lane
          BY <3>2, <4>1 DEF AdaptInv, DecisionSent, Sent
        <4>4. adjusted' = [state.lastAdjusted EXCEPT ![tick.decisions[tick.next].lane] = tick.now]
          BY <2>1, <3>2, <4>2, <4>3
        <4> QED
          BY <1>1, <4>1, <4>4 DEF RecordRight
      <3> QED
        BY <3>1, <3>2
    <2> QED
      BY <1>8, <2>5, <2>6, <2>7 DEF AdaptInv
  <1> QED
    BY <1>5, <1>9, <1>10

\* The controller's own update on its way to be published.
LEMMA ApplyKeepsAdapt ==
  ASSUME AdaptInv, UpdateInv, QuietInv, updateLaneQuotaIfVersionInternal(Controller) \/ CheckUpdate(Controller),
         UNCHANGED dataVars
  PROVE  AdaptInv'
  <1> DEFINE c == Controller
             d == tick.decisions[tick.next]
  <1>1. /\ DOMAIN call = Writers /\ DOMAIN call[c] = CallFields /\ c \in Writers
        /\ UNCHANGED <<load, now, ctl, tick, state, policy, adjusted>> /\ call[c].pc \in {"read", "check"}
    BY DEF UpdateInv, Shapes, Writers, updateLaneQuotaIfVersionInternal, CheckUpdate, dataVars
  <1>2. Config' = Config /\ Policies' = Policies /\ Plan' = Plan
    BY <1>1 DEF Config, Policies, Plan
  <1>3. \A q \in Writers : q # c => call'[q] = call[q]
    BY <1>1 DEF updateLaneQuotaIfVersionInternal, CheckUpdate, Leave
  <1>4. ctl.loop = "apply"
    BY <1>1 DEF QuietInv, ApplyInv
  <1>5. Sent(call[c], d, tick.snap.version)
    BY <1>4 DEF AdaptInv, DecisionSent
  <1>6. /\ call'[c].pc = "publish" => ValidQuotaPolicy(call'[c].input)
        /\ call'[c].pc # "ok"
        /\ Sent(call'[c], d, tick.snap.version)
    <2>1. CASE updateLaneQuotaIfVersionInternal(c)
      <3>1. PICK lanes : lanes = [l \in Lanes \union {call[c].lane} |-> IF l = call[c].lane THEN call[c].quota ELSE policy.lanes[l]]
        OBVIOUS
      <3>2. call' = [call EXCEPT ![c].pc = "check", ![c].input = [default |-> policy.default, lanes |-> lanes]]
        BY <2>1, <3>1, Zenon DEF updateLaneQuotaIfVersionInternal
      <3>3. /\ call'[c].pc = "check" /\ call'[c].input.lanes = lanes /\ call'[c].cas = call[c].cas
            /\ call'[c].lane = call[c].lane /\ call'[c].quota = call[c].quota /\ call'[c].expected = call[c].expected
        BY <1>1, <3>2 DEF CallFields
      <3>4. call[c].lane \in DOMAIN lanes /\ lanes[call[c].lane] = call[c].quota
        BY <3>1
      <3>5. call'[c].pc # "publish" /\ call'[c].pc # "ok"
        BY <3>3
      <3>6. Sent(call'[c], d, tick.snap.version)
        BY <1>5, <3>3, <3>4, Zenon DEF Sent
      <3> QED
        BY <3>5, <3>6
    <2>2. CASE CheckUpdate(c)
      <3>1. /\ call'[c].pc = "publish" => ValidQuotaPolicy(call'[c].input)
            /\ call'[c].pc \in {"invalid", "stopped", "publish"} /\ call[c].pc = "check"
            /\ \A f \in CallFields \ {"pc"} : call'[c][f] = call[c][f]
        BY <1>1, <2>2, CheckedIsValid
      <3>2. /\ call'[c].cas = call[c].cas /\ call'[c].input = call[c].input
            /\ call'[c].lane = call[c].lane /\ call'[c].quota = call[c].quota /\ call'[c].expected = call[c].expected
        BY <3>1 DEF CallFields
      <3>3. Sent(call'[c], d, tick.snap.version)
        BY <1>5, <3>1, <3>2 DEF Sent
      <3> QED
        BY <3>1, <3>3
    <2> QED
      BY <2>1, <2>2
  <1>7. QuotasTyped'
    BY <1>1, <1>2, <1>3, <1>6 DEF AdaptInv, QuotasTyped
  <1>8. DecisionsStand'
    BY <1>1, <1>2 DEF AdaptInv, DecisionsStand
  <1>9. DecisionSent'
    BY <1>1, <1>4, <1>6 DEF AdaptInv, DecisionSent
  <1>10. RecordRight'
    <2>1. call[c].pc # "ok" /\ call'[c].pc # "ok"
      BY <1>1, <1>6
    <2> QED
      BY <1>1, <2>1 DEF AdaptInv, RecordRight
  <1> QED
    BY <1>7, <1>8, <1>9, <1>10 DEF AdaptInv

\* A tick begins.
LEMMA ReadSignalsKeepsAdapt ==
  ASSUME AdaptInv, UpdateInv, ReadSignals, UNCHANGED dataVars
  PROVE  AdaptInv'
  <1>1. /\ DOMAIN ctl = {"cancel", "cancelled", "running", "wg", "loop", "ticker"}
        /\ UNCHANGED <<load, now, state, policy, adjusted, call>> /\ ctl.loop = "select"
    BY DEF UpdateInv, Shapes, ReadSignals, dataVars
  <1>2. Plan' = Plan
    BY <1>1 DEF Plan
  <1>3. ctl'.loop = "quotas"
    BY <1>1 DEF ReadSignals
  <1>4. PICK lanes : lanes = [l \in Lanes |-> LaneSignal(l, policy.lanes[l])]
    OBVIOUS
  <1>5. tick' = [NoTick EXCEPT !.now = now, !.snap = [pressure |-> TotalDepthRatio(Data), version |-> policy.version, lanes |-> lanes]]
    BY <1>4, Zenon DEF ReadSignals
  <1>6. tick'.now = now /\ tick'.snap.lanes = lanes
    BY <1>5 DEF NoTick
  <1>7. DOMAIN lanes = Lanes /\ \A l \in Lanes : "quota" \in DOMAIN lanes[l]
    BY <1>4 DEF LaneSignal
  <1>8. QuotasTyped'
    BY <1>1, <1>2, <1>3, <1>6, <1>7 DEF AdaptInv, QuotasTyped
  <1>9. DecisionsStand' /\ DecisionSent' /\ RecordRight'
    BY <1>1, <1>3 DEF AdaptInv, DecisionsStand, DecisionSent, RecordRight
  <1> QED
    BY <1>8, <1>9 DEF AdaptInv

\* The decisions are made from the quotas and the record of this moment.
LEMMA ReadQuotasKeepsAdapt ==
  ASSUME AdaptInv, UpdateInv, QuietInv, ReadQuotas, UNCHANGED dataVars
  PROVE  AdaptInv'
  <1>1. /\ DOMAIN ctl = {"cancel", "cancelled", "running", "wg", "loop", "ticker"}
        /\ DOMAIN tick = {"now", "snap", "decisions", "next"}
        /\ UNCHANGED <<load, now, state, policy, adjusted, call>> /\ ctl.loop = "quotas"
    BY DEF UpdateInv, Shapes, ReadQuotas, dataVars
  <1>2. Config' = Config /\ Policies' = Policies /\ Plan' = Plan
    BY <1>1 DEF Config, Policies, Plan
  <1>3. ctl'.loop = "decide"
    BY <1>1 DEF ReadQuotas
  <1>4. PICK snap : snap = [tick.snap EXCEPT !.lanes = [l \in Lanes |-> [@[l] EXCEPT !.quota = policy.lanes[l]]]]
    OBVIOUS
  <1>5. PICK ds : ds = EvaluateAdaptiveQuota(Config, Policies, snap, state, tick.now)
    OBVIOUS
  <1>6. tick' = [tick EXCEPT !.snap = snap, !.next = 1, !.decisions = ds]
    BY <1>4, <1>5, Zenon DEF ReadQuotas
  <1>7. tick'.now = tick.now /\ tick'.snap = snap /\ tick'.decisions = ds
    BY <1>1, <1>6
  <1>8. /\ load \in DOMAIN Workloads /\ ValidateAdaptiveQuotaPolicy(Plan.adaptive, Plan.lanePolicies)
        /\ policy.lanes \in [Lanes -> 1..MaxLaneQuota] /\ state.lastAdjusted \in [Lanes -> Nat]
        /\ tick.now \in Nat /\ DOMAIN tick.snap.lanes = Lanes /\ \A l \in Lanes : "quota" \in DOMAIN tick.snap.lanes[l]
    BY <1>1 DEF AdaptInv, QuotasTyped, InTick
  <1>9. \A l \in Lanes : snap.lanes[l].quota = policy.lanes[l]
    <2>1. DOMAIN tick.snap = {"pressure", "version", "lanes"}
      BY <1>1 DEF UpdateInv, SnapshotPast, InTick
    <2>2. snap.lanes = [l \in Lanes |-> [tick.snap.lanes[l] EXCEPT !.quota = policy.lanes[l]]]
      BY <1>4, <2>1
    <2> QED
      BY <1>8, <2>2
  <1>10. /\ Config.incStep \in Nat \ {0} /\ Config.decStep \in Nat \ {0} /\ Config.cooldown \in Int
         /\ Plan.adaptive.enabled
    BY <1>1, <1>8, AdaptiveNumbers DEF QuietInv, LoopInv
  <1>11. \A l \in Lanes : Policies[l].min \in Nat \ {0} /\ Policies[l].max \in Int /\ Policies[l].max <= MaxLaneQuota
    BY <1>8, <1>10, LaneBounds
  <1>12. \A l \in Lanes : state.lastAdjusted[l] \in Nat
    BY <1>8
  <1>13. /\ DOMAIN ds = DOMAIN LaneOrder
         /\ \A i \in DOMAIN ds : Considered(ds[i], Config, Policies, policy.lanes, state.lastAdjusted, tick.now)
    <2>1. PICK cfg, pols, st, quotas, t : /\ cfg = Config /\ pols = Policies /\ st = state /\ quotas = policy.lanes
                                          /\ t = tick.now
      OBVIOUS
    <2>2. /\ DOMAIN ds = DOMAIN LaneOrder
          /\ \A i \in DOMAIN ds : Considered(ds[i], cfg, pols, quotas, st.lastAdjusted, t)
      BY <1>5, <1>8, <1>9, <1>10, <1>11, <1>12, <2>1, Evaluated
    <2> QED
      BY <2>1, <2>2
  <1>14. adjusted = state.lastAdjusted
    BY <1>1 DEF AdaptInv, RecordRight
  <1>15. QuotasTyped'
    BY <1>1, <1>2, <1>3, <1>7, <1>8 DEF AdaptInv, QuotasTyped
  <1>16. DecisionsStand'
    BY <1>1, <1>2, <1>3, <1>7, <1>13, <1>14 DEF DecisionsStand
  <1>17. DecisionSent' /\ RecordRight'
    BY <1>1, <1>3, <1>14 DEF DecisionSent, RecordRight
  <1> QED
    BY <1>15, <1>16, <1>17 DEF AdaptInv

\* The next change is sent on its way, or the tick is over.
LEMMA DecideKeepsAdapt ==
  ASSUME AdaptInv, UpdateInv, QuietInv, Decide, UNCHANGED dataVars
  PROVE  AdaptInv'
  <1>1. /\ DOMAIN ctl = {"cancel", "cancelled", "running", "wg", "loop", "ticker"}
        /\ DOMAIN tick = {"now", "snap", "decisions", "next"} /\ DOMAIN call = Writers /\ Controller \in Writers
        /\ UNCHANGED <<load, now, policy, adjusted>> /\ ctl.loop = "decide"
    BY DEF UpdateInv, Shapes, Decide, dataVars, Writers
  <1>2. Config' = Config /\ Policies' = Policies /\ Plan' = Plan
    BY <1>1 DEF Config, Policies, Plan
  <1>3. PICK later : later = {i \in DOMAIN tick.decisions : i >= tick.next /\ Changes(tick.decisions[i])}
    OBVIOUS
  <1>4. PICK to : to = IF later = {} THEN Len(tick.decisions) + 1 ELSE Min(later)
    OBVIOUS
  <1>5. /\ \/ /\ later # {} /\ ctl' = [ctl EXCEPT !.loop = "apply"] /\ tick' = [tick EXCEPT !.next = to]
              /\ call' = [call EXCEPT ![Controller] =
                            ConditionalCall(tick.decisions[to].lane, tick.decisions[to].new, tick.snap.version)]
           \/ ctl' = [ctl EXCEPT !.loop = "select"] /\ call' = call
    <2>1. PICK apply \in BOOLEAN : apply = (later # {} /\ ~ctl.cancelled)
      OBVIOUS
    <2>2. /\ call' = IF apply
                     THEN [call EXCEPT ![Controller] =
                             ConditionalCall(tick.decisions[to].lane, tick.decisions[to].new, tick.snap.version)]
                     ELSE call
          /\ ctl' = [ctl EXCEPT !.loop = IF apply THEN "apply" ELSE "select"]
          /\ tick' = IF apply THEN [tick EXCEPT !.next = to] ELSE NoTick
      BY <1>3, <1>4, <2>1, Zenon DEF Decide
    <2>3. apply \/ ~apply
      OBVIOUS
    <2> QED
      BY <2>1, <2>2, <2>3, Zenon
  <1>6. DOMAIN state' = DOMAIN state /\ state'.lastAdjusted = state.lastAdjusted
    <2>1. PICK held : held = SubSeq(tick.decisions, tick.next, to - 1)
      OBVIOUS
    <2>2. state' = recordHolds(held)
      BY <1>3, <1>4, <2>1, Zenon DEF Decide
    <2> DEFINE about(l) == {i \in DOMAIN held : held[i].lane = l}
               x == [l \in Lanes |-> IF about(l) = {} THEN state.reasons[l] ELSE held[Max(about(l))].reason]
               last == [state EXCEPT !.reasons = x].lastDecisions
               y == IF Plan.emitHold THEN FoldLeft(appendDecision, last, held) ELSE last
    <2>3. recordHolds(held) = [state EXCEPT !.reasons = x, !.lastDecisions = y]
      BY Zenon DEF recordHolds
    <2> HIDE DEF x, y
    <2> QED
      BY <2>2, <2>3 DEF AdaptInv, QuotasTyped
  <1>7. \A p \in Writers : call[p].pc = "publish" => ValidQuotaPolicy(call[p].input)
    BY DEF AdaptInv, QuotasTyped
  <1>8. adjusted = state.lastAdjusted
    BY <1>1 DEF AdaptInv, RecordRight
  <1>9. CASE ctl' = [ctl EXCEPT !.loop = "select"] /\ call' = call
    <2>1. ctl'.loop = "select"
      BY <1>1, <1>9
    <2>2. QuotasTyped'
      BY <1>1, <1>2, <1>6, <1>7, <1>9, <2>1 DEF AdaptInv, QuotasTyped, InTick
    <2>3. DecisionsStand' /\ DecisionSent' /\ RecordRight'
      BY <1>1, <1>6, <1>8, <2>1 DEF DecisionsStand, DecisionSent, RecordRight
    <2> QED
      BY <2>2, <2>3 DEF AdaptInv
  <1>10. ASSUME later # {}, ctl' = [ctl EXCEPT !.loop = "apply"], tick' = [tick EXCEPT !.next = to],
                call' = [call EXCEPT ![Controller] =
                           ConditionalCall(tick.decisions[to].lane, tick.decisions[to].new, tick.snap.version)]
         PROVE  AdaptInv'
    <2>1. to \in DOMAIN tick.decisions /\ tick.decisions[to].action # "hold"
      <3>1. DOMAIN tick.decisions = DOMAIN LaneOrder
        BY <1>1 DEF AdaptInv, DecisionsStand
      <3>2. DOMAIN LaneOrder \subseteq Nat
        BY QuotaAssumption
      <3>3. later \subseteq Nat
        BY <1>3, <3>1, <3>2
      <3>4. Min(later) \in later
        BY <1>10, <3>3, LeastOf
      <3>5. to \in later
        BY <1>4, <1>10, <3>4, Zenon
      <3>6. to \in DOMAIN tick.decisions /\ Changes(tick.decisions[to])
        BY <1>3, <3>5, Zenon
      <3> QED
        BY <3>6 DEF Changes
    <2>2. /\ ctl'.loop = "apply" /\ tick'.next = to /\ tick'.decisions = tick.decisions /\ tick'.snap = tick.snap
          /\ tick'.now = tick.now
      BY <1>1, <1>10
    <2>3. PICK r : r = ConditionalCall(tick.decisions[to].lane, tick.decisions[to].new, tick.snap.version)
      OBVIOUS
    <2>4. /\ r.pc = "read" /\ r.cas = TRUE /\ r.lane = tick.decisions[to].lane /\ r.quota = tick.decisions[to].new
          /\ r.expected = tick.snap.version
      BY <2>3 DEF ConditionalCall
    <2>5. call'[Controller] = r /\ \A p \in Writers : p # Controller => call'[p] = call[p]
      BY <1>1, <1>10, <2>3
    <2>6. \A p \in Writers : call'[p].pc = "publish" => ValidQuotaPolicy(call'[p].input)
      BY <1>7, <2>4, <2>5
    <2>7. tick.now \in Nat
      BY <1>1 DEF AdaptInv, QuotasTyped, InTick
    <2>8. QuotasTyped'
      BY <1>1, <1>2, <1>6, <2>2, <2>6, <2>7 DEF AdaptInv, QuotasTyped
    <2>9. DecisionsStand'
      BY <1>1, <1>2, <2>2 DEF AdaptInv, DecisionsStand
    <2>10. Sent(call'[Controller], tick.decisions[to], tick.snap.version)
      BY <2>1, <2>4, <2>5 DEF Sent
    <2>11. DecisionSent'
      BY <2>1, <2>2, <2>10 DEF DecisionSent
    <2>12. call'[Controller].pc # "ok"
      BY <2>4, <2>5
    <2>13. RecordRight'
      BY <1>1, <1>6, <1>8, <2>12 DEF RecordRight
    <2> QED
      BY <2>8, <2>9, <2>11, <2>13 DEF AdaptInv
  <1> QED
    BY <1>5, <1>9, <1>10

\* The controller hears what became of its update.
LEMMA AppliedKeepsAdapt ==
  ASSUME AdaptInv, UpdateInv, Applied, UNCHANGED dataVars
  PROVE  AdaptInv'
  <1> DEFINE ok == call[Controller].pc = "ok"
  <1>1. PICK lane : lane = tick.decisions[tick.next].lane
    OBVIOUS
  <1>2. /\ DOMAIN ctl = {"cancel", "cancelled", "running", "wg", "loop", "ticker"}
        /\ DOMAIN tick = {"now", "snap", "decisions", "next"} /\ DOMAIN call = Writers /\ Controller \in Writers
        /\ UNCHANGED <<load, now, policy, adjusted>> /\ ctl.loop = "apply"
    BY DEF UpdateInv, Shapes, Applied, dataVars, Writers
  <1>3. Config' = Config /\ Policies' = Policies /\ Plan' = Plan
    BY <1>2 DEF Config, Policies, Plan
  <1>4. /\ ctl'.loop = "decide" /\ tick'.decisions = tick.decisions /\ tick'.snap = tick.snap /\ tick'.now = tick.now
        /\ call'[Controller] = NoCall /\ \A p \in Writers : p # Controller => call'[p] = call[p]
    BY <1>2 DEF Applied
  <1>5. NoCall.pc = "idle"
    BY DEF NoCall
  <1>6. /\ DOMAIN state = {"startedAt", "lastAdjusted", "lastDecisions", "reasons"}
        /\ state.lastAdjusted \in [Lanes -> Nat] /\ adjusted \in [Lanes -> Nat] /\ tick.now \in Nat
        /\ \A p \in Writers : call[p].pc = "publish" => ValidQuotaPolicy(call[p].input)
    BY <1>2 DEF AdaptInv, QuotasTyped, InTick
  <1> DEFINE d == tick.decisions[tick.next]
             entry == IF ok THEN d ELSE [d EXCEPT !.action = "hold", !.reason = "quota_update_failed", !.new = d.old]
             x == entry.reason
             y == appendDecision(state.lastDecisions, entry)
  <1>7. state' = [state EXCEPT !.lastAdjusted[d.lane] = IF ok THEN tick.now ELSE @, !.reasons[d.lane] = x, !.lastDecisions = y]
    BY Zenon DEF Applied
  <1> HIDE DEF x, y
  <1>8. state' = [state EXCEPT !.lastAdjusted[lane] = IF ok THEN tick.now ELSE @, !.reasons[lane] = x, !.lastDecisions = y]
    BY <1>1, <1>7
  <1>9. /\ DOMAIN state' = DOMAIN state
        /\ state'.lastAdjusted = [state.lastAdjusted EXCEPT ![lane] = IF ok THEN tick.now ELSE @]
    BY <1>6, <1>8
  <1>10. adjusted = IF ok THEN [state.lastAdjusted EXCEPT ![lane] = tick.now] ELSE state.lastAdjusted
    BY <1>1, <1>2, Zenon DEF AdaptInv, RecordRight
  <1>11. adjusted = state'.lastAdjusted
    <2>1. CASE ok
      BY <1>9, <1>10, <2>1
    <2>2. CASE ~ok
      <3>1. state'.lastAdjusted = [state.lastAdjusted EXCEPT ![lane] = @]
        BY <1>9, <2>2
      <3>2. [state.lastAdjusted EXCEPT ![lane] = @] = state.lastAdjusted
        BY <1>6
      <3> QED
        BY <1>10, <2>2, <3>1, <3>2
    <2> QED
      BY <2>1, <2>2
  <1>12. \A p \in Writers : call'[p].pc = "publish" => ValidQuotaPolicy(call'[p].input)
    BY <1>4, <1>5, <1>6
  <1>13. QuotasTyped'
    BY <1>2, <1>3, <1>4, <1>6, <1>9, <1>11, <1>12 DEF AdaptInv, QuotasTyped
  <1>14. DecisionsStand'
    BY <1>2, <1>3, <1>4 DEF AdaptInv, DecisionsStand
  <1>15. DecisionSent' /\ RecordRight'
    BY <1>2, <1>4, <1>11 DEF DecisionSent, RecordRight
  <1> QED
    BY <1>13, <1>14, <1>15 DEF AdaptInv
LEMMA AdaptInvInit == Init => AdaptInv
  <1> SUFFICES ASSUME Init PROVE AdaptInv
    OBVIOUS
  <1>1. load \in DOMAIN Workloads /\ now = 1 /\ ValidateAdaptiveQuotaPolicy(Plan.adaptive, Plan.lanePolicies)
    BY DEF Init, DataInit, AdaptiveInit
  <1>2. policy.lanes \in [Lanes -> 1..MaxLaneQuota]
    BY QuotaAssumption DEF Init, AdaptiveInit, snapshotFromRegistry, Lanes
  <1>3. NoCall.pc = "idle"
    BY DEF NoCall
  <1>4. \A p \in Writers : call[p].pc = "idle"
    BY <1>3 DEF Init, AdaptiveInit
  <1>5. /\ DOMAIN state = {"startedAt", "lastAdjusted", "lastDecisions", "reasons"}
        /\ state.lastAdjusted = [l \in Lanes |-> 0] /\ adjusted = [l \in Lanes |-> 0]
    BY DEF Init, AdaptiveInit
  <1>6. ctl.loop = "none"
    BY DEF Init, AdaptiveInit
  <1>7. [l \in Lanes |-> 0] \in [Lanes -> Nat]
    OBVIOUS
  <1>8. QuotasTyped
    BY <1>1, <1>2, <1>4, <1>5, <1>6, <1>7 DEF QuotasTyped, InTick
  <1>9. DecisionsStand /\ DecisionSent /\ RecordRight
    BY <1>5, <1>6 DEF DecisionsStand, DecisionSent, RecordRight
  <1> QED
    BY <1>8, <1>9 DEF AdaptInv

LEMMA AdaptInvNext ==
  ASSUME AdaptInv, UpdateInv, QuietInv, [Next]_vars
  PROVE  AdaptInv'
  <1>1. CASE UNCHANGED quotaVars /\ (UNCHANGED dataVars \/ Work)
    <2>1. UNCHANGED <<load, now, policy, tick, adjusted, call, ctl, state>>
      BY <1>1 DEF quotaVars, dataVars, Work
    <2>2. now \in Nat /\ \A p \in Writers : call[p].pc = "publish" => ValidQuotaPolicy(call[p].input)
      BY DEF AdaptInv, QuotasTyped
    <2> QED
      BY <2>1, <2>2, AdaptUntouched
  <1>2. CASE Tick
    <2>1. UNCHANGED load /\ now' = now + 1
      BY <1>2 DEF Tick
    <2> QED
      BY <1>2, <2>1, ControlKeepsAdapt
  <1>3. CASE QuotaNext /\ UNCHANGED dataVars
    <2>1. UNCHANGED <<load, now>> /\ Controller \in Writers /\ Clients \subseteq Writers
      BY <1>3 DEF dataVars, Writers
    <2>2. CASE \E c \in Clients : UpdateLaneQuota(c) \/ UpdateQuotaPolicy(c) \/ UpdateStep(c)
      BY <1>3, <2>1, <2>2, ClientKeepsAdapt, PublishKeepsAdapt DEF UpdateStep
    <2>3. CASE StartStep \/ CancelContext \/ LoopExit \/ LoopDone
      BY <2>1, <2>3, ControlKeepsAdapt DEF StartStep
    <2>4. CASE \E s \in Stoppers : TakeCancel(s) \/ StopStep(s)
      BY <2>1, <2>4, ControlKeepsAdapt DEF StopStep
    <2>5. CASE ReadSignals \/ ReadQuotas
      BY <1>3, <2>5, ReadSignalsKeepsAdapt, ReadQuotasKeepsAdapt
    <2>6. CASE Decide \/ Applied
      BY <1>3, <2>6, DecideKeepsAdapt, AppliedKeepsAdapt
    <2>7. CASE UpdateStep(Controller)
      BY <1>3, <2>1, <2>7, ApplyKeepsAdapt, PublishKeepsAdapt DEF UpdateStep
    <2> QED
      BY <1>3, <2>2, <2>3, <2>4, <2>5, <2>6, <2>7 DEF QuotaNext, ControllerStep
  <1> QED
    BY <1>1, <1>2, <1>3 DEF Next, vars

\* A quota that the adaptive controller's tick publishes is the one it decided on, from the quota it replaces:
\* one step at most, within the lane's bounds, and a cooldown after the last adaptive change of that lane,
\* however many callers update the policy between its snapshot and its apply.
THEOREM AdaptiveChangesAreCurrent == Spec => AdaptiveFromCurrent
  <1>1. UpdateInv /\ QuietInv /\ [Next]_vars => QuietInv'
    BY QuietInvNext
  <1>2. Spec => []QuietInv
    BY <1>1, QuietInvInit, UpdateInvariant, PTL DEF Spec
  <1>3. AdaptInv /\ UpdateInv /\ QuietInv /\ [Next]_vars => AdaptInv'
    BY AdaptInvNext
  <1>4. Spec => []AdaptInv
    BY <1>2, <1>3, AdaptInvInit, UpdateInvariant, PTL DEF Spec
  <1>5. ASSUME AdaptInv, UpdateInv, QuietInv, [Next]_vars
        PROVE  [Published(Controller) =>
                  LET d == tick.decisions[tick.next]
                      pol == Policies[d.lane] IN
                  /\ policy.lanes[d.lane] = d.old /\ policy'.lanes[d.lane] = d.new
                  /\ \/ d.action = "increase" /\ d.new \in d.old + 1 .. d.old + Config.incStep /\ d.new <= pol.max
                     \/ d.action = "decrease" /\ d.new \in d.old - Config.decStep .. d.old - 1 /\ d.new >= pol.min
                  /\ adjusted[d.lane] # 0 => tick.now - adjusted[d.lane] >= Config.cooldown]_<<policy, call>>
    <2> SUFFICES ASSUME Published(Controller)
                 PROVE  LET d == tick.decisions[tick.next]
                            pol == Policies[d.lane] IN
                        /\ policy.lanes[d.lane] = d.old /\ policy'.lanes[d.lane] = d.new
                        /\ \/ d.action = "increase" /\ d.new \in d.old + 1 .. d.old + Config.incStep /\ d.new <= pol.max
                           \/ d.action = "decrease" /\ d.new \in d.old - Config.decStep .. d.old - 1 /\ d.new >= pol.min
                        /\ adjusted[d.lane] # 0 => tick.now - adjusted[d.lane] >= Config.cooldown
      BY Zenon
    <2>1. Controller \in Writers
      BY DEF Writers
    <2>2. publishQuotaPolicy(Controller) /\ call[Controller].pc = "publish" /\ call'[Controller].pc = "ok"
      BY <1>5, <2>1, WhoPublishes DEF Published
    <2>3. ctl.loop = "apply"
      BY <1>5, <2>2 DEF QuietInv, ApplyInv
    <2>4. PICK d : d = tick.decisions[tick.next]
      OBVIOUS
    <2>5. tick.next \in DOMAIN tick.decisions /\ Sent(call[Controller], d, tick.snap.version)
      BY <1>5, <2>3, <2>4 DEF AdaptInv, DecisionSent
    <2>6. policy.version = call[Controller].expected /\ policy' = buildQuotaPolicySnapshot(policy.version + 1, call[Controller].input)
      BY <1>5, <2>1, <2>2, <2>5 DEF publishQuotaPolicy, Leave, UpdateInv, Shapes, CallFields, Sent
    <2>7. Considered(d, Config, Policies, policy.lanes, adjusted, tick.now)
      BY <1>5, <2>3, <2>4, <2>5, <2>6 DEF AdaptInv, DecisionsStand, Sent
    <2>8. policy'.lanes[d.lane] = d.new
      BY <2>2, <2>5, <2>6, <2>7 DEF buildQuotaPolicySnapshot, Sent, Considered
    <2> QED
      BY <2>4, <2>5, <2>7, <2>8, Zenon DEF Sent, Considered
  <1> QED
    BY <1>2, <1>4, <1>5, UpdateInvariant, PTL DEF Spec, AdaptiveFromCurrent

-----------------------------------------------------------------------------
(* The two readings of the shards. *)

\* What the pressure of the shards is measured by, once it is enabled and normalised.
Thresholds(cfg) ==
  /\ cfg.enabled = TRUE /\ cfg.window \in Int /\ cfg.hot \in Int /\ cfg.maxKeys \in Int /\ cfg.distributed \in Nat \ {0}

LEMMA ViewLanes ==
  ASSUME NEW view, IsView(view)
  PROVE  /\ view.workers \in Nat /\ IsFiniteSet(DOMAIN view.lanes)
         /\ \A l \in DOMAIN view.lanes :
               /\ view.lanes[l].submitted \in Nat /\ view.lanes[l].admissionRejected \in Nat
               /\ view.lanes[l].overloadRejected \in Nat /\ view.lanes[l].overloadShed \in Nat
         /\ Len(view.shards) \in Nat /\ DOMAIN view.shards = 1..Len(view.shards) /\ IsFiniteSet(DOMAIN view.shards)
  <1>1. Len(view.shards) \in Nat /\ DOMAIN view.shards = 1..Len(view.shards)
    BY DEF IsView
  <1>2. IsFiniteSet(DOMAIN view.shards)
    <2>1. PICK n : n = Len(view.shards)
      OBVIOUS
    <2>2. n \in Int /\ 1 \in Int
      BY <1>1, <2>1
    <2>3. IsFiniteSet(1..n)
      BY <2>2, FS_Interval
    <2> QED
      BY <1>1, <2>1, <2>3, Zenon
  <1>3. view.workers \in Nat /\ IsFiniteSet(DOMAIN view.lanes)
    BY DEF IsView
  <1>4. \A l \in DOMAIN view.lanes :
            {view.lanes[l].submitted, view.lanes[l].admissionRejected, view.lanes[l].overloadRejected,
             view.lanes[l].overloadShed} \subseteq Nat
    BY Zenon DEF IsView
  <1> QED
    BY <1>1, <1>2, <1>3, <1>4, Zenon

LEMMA ViewShards ==
  ASSUME NEW view, IsView(view), NEW i \in DOMAIN view.shards
  PROVE  /\ DOMAIN view.shards[i].deps = DOMAIN view.lanes /\ IsFiniteSet(DOMAIN view.shards[i].deps)
         /\ \A l \in DOMAIN view.lanes : view.shards[i].deps[l] \in Nat
         /\ view.shards[i].capacity \in Nat /\ view.shards[i].inFlight \in Nat /\ view.shards[i].wait \in Nat
         /\ Len(view.shards[i].cands) \in Nat /\ DOMAIN view.shards[i].cands = 1..Len(view.shards[i].cands)
         /\ \A n \in DOMAIN view.shards[i].cands : view.shards[i].cands[n].rejected \in Nat
         /\ depth(view.shards[i]) \in Nat
  <1>1. PICK sh : sh = view.shards[i]
    OBVIOUS
  <1>2. /\ DOMAIN sh.deps = DOMAIN view.lanes /\ \A l \in DOMAIN sh.deps : sh.deps[l] \in Nat
        /\ {sh.capacity, sh.inFlight, sh.wait, Len(sh.cands)} \subseteq Nat /\ DOMAIN sh.cands = 1..Len(sh.cands)
        /\ \A n \in DOMAIN sh.cands : sh.cands[n].rejected \in Nat
    BY <1>1, Zenon DEF IsView
  <1>3. sh.capacity \in Nat /\ sh.inFlight \in Nat /\ sh.wait \in Nat /\ Len(sh.cands) \in Nat
    BY <1>2, Zenon
  <1>4. IsFiniteSet(DOMAIN sh.deps)
    BY <1>2, ViewLanes, Zenon
  <1>5. SumFunction(sh.deps) \in Nat
    BY <1>2, <1>4, SumNat
  <1> QED
    BY <1>1, <1>2, <1>3, <1>4, <1>5, Zenon DEF depth

LEMMA PeerTyped ==
  ASSUME NEW view, IsView(view), NEW cfg, cfg.window \in Int, NEW i \in DOMAIN view.shards
  PROVE  PeerRatio(view, cfg, i) \in Ratio
  <1>1. PICK sh, d, c, w, a, n, window : /\ sh = view.shards[i] /\ d = depth(sh) /\ c = sh.capacity /\ w = sh.wait
                                         /\ a = sh.inFlight /\ n = view.workers /\ window = cfg.window
    OBVIOUS
  <1>2. d \in Nat /\ c \in Nat /\ w \in Nat /\ a \in Nat /\ n \in Nat /\ window \in Int
    BY <1>1, ViewLanes, ViewShards
  <1>3. safeRatio(d, c) \in Ratio
    BY <1>2, SafeRatio
  <1>4. Zero \in Ratio
    BY DEF Zero, Ratio
  <1>5. computeQueueWaitRatio(w, window, n) \in Ratio
    <2>1. CASE window <= 0 \/ n <= 0
      BY <1>4, <2>1 DEF computeQueueWaitRatio
    <2>2. ASSUME ~(window <= 0 \/ n <= 0) PROVE computeQueueWaitRatio(w, window, n) \in Ratio
      <3>1. window * n \in Nat /\ window * n # 0
        BY <1>2, <2>2
      <3>2. Capped(<<w, window * n>>) \in Ratio
        BY <1>2, <3>1, SafeRatio
      <3> QED
        BY <2>2, <3>2 DEF computeQueueWaitRatio
    <2> QED
      BY <2>1, <2>2
  <1>6. computeWorkerContributionRatio(a, n) \in Ratio
    BY <1>2, <1>4, SafeRatio DEF computeWorkerContributionRatio
  <1>7. computeShardPressureRatio(safeRatio(d, c), computeQueueWaitRatio(w, window, n), Zero,
                                  computeWorkerContributionRatio(a, n)) \in Ratio
    BY <1>3, <1>4, <1>5, <1>6, LargerRatio DEF computeShardPressureRatio
  <1> QED
    BY <1>1, <1>7 DEF PeerRatio

LEMMA AdmissionTyped ==
  ASSUME NEW view, IsView(view), NEW i \in DOMAIN view.shards, NEW keys, IsFiniteSet(DOMAIN keys),
         \A n \in DOMAIN keys : keys[n].throttled \in Nat
  PROVE  AdmissionRatio(shardLaneAdmissionTotals(view, view.shards[i]), keys) \in Ratio
  <1>1. PICK sh : sh = view.shards[i]
    OBVIOUS
  <1> DEFINE part(l, n) == Portion(n, laneDepthShare(sh.deps[l], laneDepth(view, l)))
             held == {m \in DOMAIN sh.deps : sh.deps[m] > 0}
             submitted == [l \in held |-> part(l, view.lanes[l].submitted)]
             shed == [l \in held |-> part(l, view.lanes[l].overloadShed)]
             rejected == [l \in held |-> part(l, view.lanes[l].admissionRejected + view.lanes[l].overloadRejected)]
             throttled == [n \in DOMAIN keys |-> keys[n].throttled]
  <1>2. shardLaneAdmissionTotals(view, sh)
          = [submitted |-> SumFunction(submitted), shed |-> SumFunction(shed), rejected |-> SumFunction(rejected)]
    BY Zenon DEF shardLaneAdmissionTotals
  <1>3. SumOf(keys, LAMBDA k : k.throttled) = SumFunction(throttled)
    BY Zenon DEF SumOf
  <1>4. held \subseteq DOMAIN view.lanes /\ IsFiniteSet(held) /\ \A l \in held : sh.deps[l] \in Nat
    BY <1>1, ViewShards, FS_Subset
  <1>5. \A l \in held, n \in Nat : part(l, n) \in Nat
    <2> TAKE l \in held, n \in Nat
    <2> DEFINE perShard == [j \in DOMAIN view.shards |-> view.shards[j].deps[l]]
    <2>1. \A j \in DOMAIN view.shards : perShard[j] \in Nat
      BY <1>4, ViewShards
    <2>2. IsFiniteSet(DOMAIN perShard)
      BY ViewLanes
    <2>3. SumFunction(perShard) \in Nat
      <3> HIDE DEF perShard
      <3>1. DOMAIN perShard = DOMAIN view.shards
        BY DEF perShard
      <3> QED
        BY <2>1, <2>2, <3>1, SumNat
    <2>4. laneDepth(view, l) \in Nat
      BY <2>3, Zenon DEF laneDepth, SumOf
    <2>5. laneDepthShare(sh.deps[l], laneDepth(view, l)) \in Ratio
      BY <1>4, <2>4, SafeRatio DEF laneDepthShare
    <2> QED
      BY <2>5, PortionNat
  <1> HIDE DEF part, held
  <1>6. \A l \in held : submitted[l] \in Nat /\ shed[l] \in Nat /\ rejected[l] \in Nat
    <2> TAKE l \in held
    <2>1. /\ view.lanes[l].submitted \in Nat /\ view.lanes[l].overloadShed \in Nat
          /\ view.lanes[l].admissionRejected + view.lanes[l].overloadRejected \in Nat
      <3>1. /\ view.lanes[l].submitted \in Nat /\ view.lanes[l].overloadShed \in Nat
            /\ view.lanes[l].admissionRejected \in Nat /\ view.lanes[l].overloadRejected \in Nat
        BY <1>4, ViewLanes
      <3> QED
        BY <3>1
    <2> QED
      BY <1>5, <2>1
  <1>7. DOMAIN submitted = held /\ DOMAIN shed = held /\ DOMAIN rejected = held
    OBVIOUS
  <1>8. DOMAIN throttled = DOMAIN keys /\ \A n \in DOMAIN throttled : throttled[n] \in Nat
    OBVIOUS
  <1> HIDE DEF submitted, shed, rejected, throttled
  <1>9. SumFunction(submitted) \in Nat /\ SumFunction(shed) \in Nat /\ SumFunction(rejected) \in Nat
    BY <1>4, <1>6, <1>7, SumNat
  <1>10. SumFunction(throttled) \in Nat
    BY <1>8, SumNat
  <1>11. PICK n, d : n = SumFunction(rejected) + SumFunction(throttled) + SumFunction(shed) /\ d = SumFunction(submitted)
    OBVIOUS
  <1>12. n \in Nat /\ d \in Nat
    BY <1>9, <1>10, <1>11
  <1>13. Capped(safeRatio(n, d)) \in Ratio
    BY <1>12, SafeRatio
  <1>14. AdmissionRatio(shardLaneAdmissionTotals(view, sh), keys) = Capped(safeRatio(n, d))
    <2>1. PICK totals : totals = shardLaneAdmissionTotals(view, sh)
      OBVIOUS
    <2>2. /\ totals.rejected = SumFunction(rejected) /\ totals.shed = SumFunction(shed)
          /\ totals.submitted = SumFunction(submitted)
      BY <1>2, <2>1
    <2>3. AdmissionRatio(totals, keys)
            = Capped(safeRatio(totals.rejected + SumOf(keys, LAMBDA k : k.throttled) + totals.shed, totals.submitted))
      BY Zenon DEF AdmissionRatio, computeAdmissionPressureRatio
    <2> QED
      BY <1>3, <1>11, <2>1, <2>2, <2>3, Zenon
  <1> QED
    BY <1>1, <1>13, <1>14, Zenon

\* The summary sees everything of a shard that the signal sees, and its refusals besides.
LEMMA SnapshotReaches ==
  ASSUME NEW view, IsView(view), NEW cfg, Thresholds(cfg), NEW i \in DOMAIN view.shards,
         AtLeast(PeerRatio(view, cfg, i), Percent(cfg.hot))
  PROVE  AtLeast(buildShardPressureSnapshot(view, cfg, i).ratio, Percent(cfg.hot))
  <1>1. PICK sh, m : sh = view.shards[i] /\ m = Min({Len(sh.cands), cfg.maxKeys})
    OBVIOUS
  <1> DEFINE keys == [n \in 1..m |-> hotKeyToPressureSnapshot(sh.cands[n], sh)]
  <1>2. m \in Int /\ m <= Len(sh.cands) /\ Len(sh.cands) \in Nat
    <2>1. PICK a, b : a = Len(sh.cands) /\ b = cfg.maxKeys
      OBVIOUS
    <2>2. a \in Nat /\ b \in Int
      BY <1>1, <2>1, ViewShards DEF Thresholds
    <2> QED
      BY <1>1, <2>1, <2>2, PairMin
  <1>3. \A n \in 1..m : keys[n].throttled \in Nat
    <2> TAKE n \in 1..m
    <2>1. n \in DOMAIN sh.cands
      BY <1>1, <1>2, ViewShards
    <2>2. sh.cands[n].rejected \in Nat
      BY <1>1, <2>1, ViewShards
    <2>3. hotKeyToPressureSnapshot(sh.cands[n], sh).throttled
            = IF sh.cands[n].action = "throttle" THEN sh.cands[n].rejected ELSE 0
      BY DEF hotKeyToPressureSnapshot
    <2>4. keys[n] = hotKeyToPressureSnapshot(sh.cands[n], sh)
      OBVIOUS
    <2> HIDE DEF keys
    <2> QED
      BY <2>2, <2>3, <2>4
  <1>4. DOMAIN keys = 1..m /\ IsFiniteSet(1..m)
    BY <1>2, FS_Interval
  <1>5. buildShardPressureSnapshot(view, cfg, i).ratio
          = Larger(PeerRatio(view, cfg, i), AdmissionRatio(shardLaneAdmissionTotals(view, sh), keys))
    <2>1. buildShardPressureSnapshot(view, cfg, i)
            = ShardSnapshot(view, cfg, i, keys,
                            Larger(PeerRatio(view, cfg, i), AdmissionRatio(shardLaneAdmissionTotals(view, sh), keys)),
                            buildLaneBreakdown(sh, cfg))
      BY <1>1, Zenon DEF buildShardPressureSnapshot
    <2>2. \A ratio, lanes : ShardSnapshot(view, cfg, i, keys, ratio, lanes).ratio = ratio
      <3> HIDE DEF keys
      <3> QED
        BY DEF ShardSnapshot
    <2> HIDE DEF keys
    <2> QED
      BY <2>1, <2>2, Zenon
  <1> HIDE DEF keys
  <1>6. PICK f, g : /\ f = PeerRatio(view, cfg, i) /\ g = AdmissionRatio(shardLaneAdmissionTotals(view, sh), keys)
    OBVIOUS
  <1>7. f \in Ratio
    BY <1>6, PeerTyped DEF Thresholds
  <1>8. g \in Ratio
    BY <1>1, <1>3, <1>4, <1>6, AdmissionTyped
  <1>9. PICK h : h = Percent(cfg.hot)
    OBVIOUS
  <1>10. h[1] \in Int /\ h[2] \in Nat \ {0}
    BY <1>9, PercentParts DEF Thresholds
  <1>11. AtLeast(Larger(f, g), h)
    BY <1>6, <1>7, <1>8, <1>9, <1>10, LargerReaches
  <1> QED
    BY <1>5, <1>6, <1>9, <1>11, Zenon

\* The shards either reading takes for hot.
HotBySignal(view, cfg) == {i \in DOMAIN view.shards : AtLeast(PeerRatio(view, cfg, i), Percent(cfg.hot))}
HotBySummary(view, cfg) ==
  {i \in DOMAIN view.shards : AtLeast(buildShardPressureSnapshot(view, cfg, i).ratio, Percent(cfg.hot))}

LEMMA HotSetsNested ==
  ASSUME NEW view, IsView(view), NEW cfg, Thresholds(cfg)
  PROVE  /\ Cardinality(HotBySignal(view, cfg)) \in Nat /\ Cardinality(HotBySummary(view, cfg)) \in Nat
         /\ Cardinality(HotBySignal(view, cfg)) <= Cardinality(HotBySummary(view, cfg))
  <1>1. IsFiniteSet(DOMAIN view.shards)
    BY ViewLanes
  <1>2. HotBySignal(view, cfg) \subseteq HotBySummary(view, cfg)
    BY SnapshotReaches DEF HotBySignal, HotBySummary
  <1>3. HotBySummary(view, cfg) \subseteq DOMAIN view.shards
    BY DEF HotBySummary
  <1>4. IsFiniteSet(HotBySummary(view, cfg)) /\ IsFiniteSet(HotBySignal(view, cfg))
    BY <1>1, <1>2, <1>3, FS_Subset
  <1> QED
    BY <1>2, <1>4, FS_Subset, FS_CardinalityType

LEMMA SignalCounts ==
  ASSUME NEW view, IsView(view), NEW cfg, Thresholds(cfg)
  PROVE  LET in == buildScaleSignalRawInput(view, cfg)
             n == Cardinality(HotBySignal(view, cfg)) IN
         /\ DOMAIN view.shards # {} => in.hotCount = n /\ in.hotRatio = safeRatio(n, Len(view.shards))
         /\ DOMAIN view.shards = {} => in.hotCount = 0 /\ in.hotRatio = Zero
  <1> DEFINE agg == buildScaleSignalShardAggregates(view, cfg)
             raw == buildScaleSignalRawInput(view, cfg)
             n == Cardinality(HotBySignal(view, cfg))
  <1>1. raw.hotCount = agg.hotCount /\ raw.hotRatio = agg.hotRatio
    BY DEF buildScaleSignalRawInput
  <1>2. ASSUME DOMAIN view.shards = {} PROVE agg.hotCount = 0 /\ agg.hotRatio = Zero
    <2>1. agg = [hotCount |-> 0, hotRatio |-> Zero, localizedRatio |-> Zero, class |-> "unknown"]
      BY <1>2, Zenon DEF buildScaleSignalShardAggregates
    <2> HIDE DEF agg
    <2> QED
      BY <2>1
  <1>3. ASSUME DOMAIN view.shards # {} PROVE agg.hotCount = n /\ agg.hotRatio = safeRatio(n, Len(view.shards))
    <2> DEFINE ids == DOMAIN view.shards
               busy(i) == depth(view.shards[i]) > 0 \/ view.shards[i].inFlight > 0
               limit == IF cfg.maxHotShards <= 0 THEN 16 ELSE cfg.maxHotShards
               hot == {i \in ids : IF cfg.enabled THEN AtLeast(PeerRatio(view, cfg, i), Percent(cfg.hot)) ELSE busy(i)}
               looked == {i \in hot : Cardinality({j \in hot : j < i}) < limit}
               topKey(i) == Largest([k \in DOMAIN view.shards[i].cands |-> view.shards[i].cands[k].depthRatio])
               threshold == IF cfg.localized <= 0 THEN 40 ELSE cfg.localized
               in == [shards |-> Len(view.shards),
                      hotCount |-> IF cfg.enabled THEN Cardinality(hot) ELSE rankHotShards(view, limit),
                      depthRatio |-> TotalDepthRatio(view), waitRatio |-> TotalWaitRatio(view, cfg),
                      workerBusy |-> WorkerBusy(view),
                      skewBelowTwo |-> \A i \in ids : SkewBelowTwo(PeerRatio(view, cfg, i), PeerSum(view, cfg, i), Len(view.shards) - 1),
                      localized |-> Cardinality({i \in looked : AtLeast(topKey(i), Percent(threshold))})]
               biggest == FoldFunctionOnSet(Larger, Zero, [i \in ids |-> topKey(i)], looked)
               class == IF cfg.enabled THEN classifyGlobalPressure(cfg, in) ELSE "healthy"
    <2>1. agg = IF ids = {} THEN [hotCount |-> 0, hotRatio |-> Zero, localizedRatio |-> Zero, class |-> "unknown"]
                ELSE [hotCount |-> in.hotCount, hotRatio |-> HotShardRatio(in), localizedRatio |-> biggest, class |-> class]
      BY Zenon DEF buildScaleSignalShardAggregates
    <2>2. hot = HotBySignal(view, cfg)
      BY DEF HotBySignal, Thresholds
    <2> HIDE DEF agg, hot, looked, topKey, threshold, biggest, class, limit
    <2>3. in.hotCount = Cardinality(hot) /\ in.shards = Len(view.shards)
      BY DEF Thresholds
    <2> HIDE DEF in
    <2>4. agg.hotCount = in.hotCount /\ agg.hotRatio = HotShardRatio(in)
      BY <1>3, <2>1
    <2> QED
      BY <2>2, <2>3, <2>4, Zenon DEF HotShardRatio
  <1> HIDE DEF agg
  <1> QED
    BY <1>1, <1>2, <1>3, Zenon

\* The summary taken apart: its classification, from the shards it takes for hot, and its flags.
LEMMA SummaryParts ==
  ASSUME NEW view, IsView(view), NEW cfg, Thresholds(cfg)
  PROVE  \E in : /\ in.shards = Len(view.shards) /\ in.hotCount = Cardinality(HotBySummary(view, cfg))
                 /\ in.localized \in Nat /\ (in.shards = 0 => in.localized = 0)
                 /\ buildPressureSummary(view, cfg).hotCount = in.hotCount
                 /\ buildPressureSummary(view, cfg).class = classifyGlobalPressure(cfg, in)
                 /\ buildPressureSummary(view, cfg).flags = computeScaleMitigationFlags(cfg, classifyGlobalPressure(cfg, in), in)
  <1>1. PICK snaps : snaps = [i \in DOMAIN view.shards |-> buildShardPressureSnapshot(view, cfg, i)]
    OBVIOUS
  <1>2. PICK hot : hot = HotCount(snaps, cfg, DOMAIN snaps)
    OBVIOUS
  <1>3. PICK in : in = GlobalInput(view, cfg, snaps, hot)
    OBVIOUS
  <1>4. DOMAIN snaps = DOMAIN view.shards /\ IsFiniteSet(DOMAIN snaps) /\ DOMAIN snaps = 1..Len(view.shards)
        /\ Len(view.shards) \in Nat
    BY <1>1, ViewLanes
  <1>5. Len(snaps) = Len(view.shards)
    <2>1. PICK n : n = Len(view.shards)
      OBVIOUS
    <2>2. n \in Nat /\ snaps = [i \in 1..n |-> snaps[i]]
      BY <1>1, <1>4, <2>1
    <2> QED
      BY <2>1, <2>2, LenOf
  <1>6. hot = Cardinality(HotBySummary(view, cfg))
    <2>1. {i \in DOMAIN snaps : AtLeast(snaps[i].ratio, Percent(cfg.hot))} = HotBySummary(view, cfg)
      BY <1>1, <1>4 DEF HotBySummary
    <2> QED
      BY <1>2, <2>1, Zenon DEF HotCount
  <1>7. PICK loc : loc = {i \in DOMAIN snaps : snaps[i].class = "localized_key"}
    OBVIOUS
  <1>8. in.shards = Len(snaps) /\ in.hotCount = hot /\ in.localized = Cardinality(loc)
    BY <1>3, <1>7 DEF GlobalInput
  <1>9. IsFiniteSet(loc) /\ Cardinality(loc) \in Nat
    BY <1>4, <1>7, FS_Subset, FS_CardinalityType
  <1>10. ASSUME Len(snaps) = 0 PROVE Cardinality(loc) = 0
    <2>1. loc = {}
      BY <1>4, <1>5, <1>7, <1>10
    <2> QED
      BY <2>1, FS_EmptySet
  <1>11. PICK listed : listed = rankHotShardPressures(snaps, cfg.maxHotShards)
    OBVIOUS
  <1>12. buildPressureSummary(view, cfg) = SummaryOf(cfg, in, classifyGlobalPressure(cfg, in), listed)
    BY <1>1, <1>2, <1>3, <1>11, Zenon DEF buildPressureSummary, Summarise, Classified
  <1>13. PICK class : class = classifyGlobalPressure(cfg, in)
    OBVIOUS
  <1>14. PICK flags : flags = computeScaleMitigationFlags(cfg, class, in)
    OBVIOUS
  <1>15. SummaryOf(cfg, in, class, listed) = [class |-> class, hotCount |-> in.hotCount, flags |-> flags, hotShards |-> listed]
    BY <1>14, Zenon DEF SummaryOf
  <1>16. PICK s : s = buildPressureSummary(view, cfg)
    OBVIOUS
  <1>17. s.hotCount = in.hotCount /\ s.class = class /\ s.flags = flags
    BY <1>12, <1>13, <1>15, <1>16
  <1>18. /\ in.shards = Len(view.shards) /\ in.hotCount = Cardinality(HotBySummary(view, cfg))
         /\ in.localized \in Nat /\ (in.shards = 0 => in.localized = 0)
    BY <1>5, <1>6, <1>8, <1>9, <1>10
  <1> QED
    BY <1>13, <1>14, <1>16, <1>17, <1>18, Zenon

\* Whatever the classification, scaling and mitigation are not asked for together.
LEMMA FlagsExclusive ==
  ASSUME NEW cfg, cfg.enabled = TRUE, NEW in, in.localized \in Nat, in.shards = 0 => in.localized = 0
  PROVE  LET f == computeScaleMitigationFlags(cfg, classifyGlobalPressure(cfg, in), in) IN ~(f.scale /\ f.mitigation)
  <1>1. PICK class : class = classifyGlobalPressure(cfg, in)
    OBVIOUS
  <1>2. PICK f : f = computeScaleMitigationFlags(cfg, class, in)
    OBVIOUS
  <1>3. PICK half, deep : /\ half = AtLeast(HotShardRatio(in), <<cfg.distributed, 200>>)
                          /\ deep = AtLeast(in.depthRatio, Percent(cfg.hot))
    OBVIOUS
  <1>4. f = [scale |-> \/ class \in {"distributed", "worker_bound"}
                       \/ class = "shard_hot" /\ in.localized = 0 /\ half
                       \/ class = "unknown" /\ deep,
             mitigation |-> class = "localized_key" \/ (class \in {"shard_hot", "unknown"} /\ in.localized > 0)]
    BY <1>2, <1>3, Zenon DEF computeScaleMitigationFlags
  <1>5. f.scale => \/ class \in {"distributed", "worker_bound"}
                   \/ class = "shard_hot" /\ in.localized = 0
                   \/ class = "unknown"
    BY <1>4
  <1>6. f.mitigation => class = "localized_key" \/ (class \in {"shard_hot", "unknown"} /\ in.localized > 0)
    BY <1>4
  <1>7. class = "unknown" => in.shards = 0
    BY <1>1 DEF classifyGlobalPressure
  <1>8. ASSUME f.scale, f.mitigation PROVE FALSE
    <2>1. in.localized = 0 => ~(in.localized > 0)
      OBVIOUS
    <2> QED
      BY <1>5, <1>6, <1>7, <1>8, <2>1
  <1> QED
    BY <1>1, <1>2, <1>8, Zenon

\* The shards the signal takes for hot are among those the summary does; when they are enough, it says so.
LEMMA ReadingsAgree ==
  ASSUME NEW view, IsView(view), NEW cfg, Thresholds(cfg)
  PROVE  LET in == buildScaleSignalRawInput(view, cfg)
             s == buildPressureSummary(view, cfg) IN
         /\ in.hotCount <= s.hotCount
         /\ AtLeast(in.hotRatio, Percent(cfg.distributed)) => s.class = "distributed" /\ s.flags.scale
         /\ ~(s.flags.scale /\ s.flags.mitigation)
  <1>1. PICK in, s : in = buildScaleSignalRawInput(view, cfg) /\ s = buildPressureSummary(view, cfg)
    OBVIOUS
  <1>2. PICK g : /\ g.shards = Len(view.shards) /\ g.hotCount = Cardinality(HotBySummary(view, cfg))
                 /\ g.localized \in Nat /\ (g.shards = 0 => g.localized = 0)
                 /\ s.hotCount = g.hotCount /\ s.class = classifyGlobalPressure(cfg, g)
                 /\ s.flags = computeScaleMitigationFlags(cfg, classifyGlobalPressure(cfg, g), g)
    BY <1>1, SummaryParts, Zenon
  <1>3. PICK a, b, n : a = Cardinality(HotBySignal(view, cfg)) /\ b = Cardinality(HotBySummary(view, cfg)) /\ n = Len(view.shards)
    OBVIOUS
  <1>4. a \in Nat /\ b \in Nat /\ a <= b /\ n \in Nat /\ DOMAIN view.shards = 1..n
    BY <1>3, HotSetsNested, ViewLanes
  <1>5. cfg.enabled = TRUE /\ cfg.distributed \in Nat \ {0}
    BY DEF Thresholds
  <1>6. IF DOMAIN view.shards = {} THEN in.hotCount = 0 /\ in.hotRatio = Zero
        ELSE in.hotCount = a /\ in.hotRatio = safeRatio(a, n)
    BY <1>1, <1>3, SignalCounts, Zenon
  <1>7. in.hotCount <= s.hotCount
    BY <1>2, <1>3, <1>4, <1>6
  <1>8. ASSUME AtLeast(in.hotRatio, Percent(cfg.distributed)) PROVE s.class = "distributed" /\ s.flags.scale
    <2>1. PICK d : d = cfg.distributed
      OBVIOUS
    <2>2. ~AtLeast(Zero, Percent(d))
      <3>1. ~(0 * 100 >= d * 1)
        BY <1>5, <2>1
      <3> QED
        BY <3>1 DEF AtLeast, Zero, Percent
    <2>3. in.hotRatio = safeRatio(a, n) /\ DOMAIN view.shards # {}
      BY <1>6, <1>8, <2>1, <2>2, Zenon
    <2>4. n # 0
      BY <1>4, <2>3
    <2>5. a * 100 >= d * n
      BY <1>8, <2>1, <2>3, <2>4 DEF safeRatio, AtLeast, Percent
    <2>6. b * 100 >= d * n
      <3>1. b * 100 >= a * 100
        BY <1>4
      <3>2. b * 100 \in Int /\ a * 100 \in Int /\ d * n \in Int
        BY <1>4, <1>5, <2>1
      <3> QED
        BY <2>5, <3>1, <3>2
    <2>7. AtLeast(safeRatio(b, n), Percent(d))
      BY <2>4, <2>6 DEF safeRatio, AtLeast, Percent
    <2>8. isDistributedPressure(cfg, g)
      BY <1>2, <1>3, <1>5, <2>1, <2>7, Zenon DEF isDistributedPressure, HotShardRatio
    <2>9. g.shards # 0
      BY <1>2, <1>3, <2>4, Zenon
    <2>10. classifyGlobalPressure(cfg, g) = "distributed"
      BY <1>5, <2>8, <2>9, Zenon DEF classifyGlobalPressure
    <2>11. computeScaleMitigationFlags(cfg, "distributed", g).scale
      BY DEF computeScaleMitigationFlags
    <2> QED
      BY <1>2, <2>10, <2>11, Zenon
  <1>9. ~(s.flags.scale /\ s.flags.mitigation)
    BY <1>2, <1>5, FlagsExclusive, Zenon
  <1> QED
    BY <1>1, <1>7, <1>8, <1>9, Zenon

\* The normalised configuration of the pressure diagnostics has the thresholds they need.
LEMMA PressureNumbers ==
  ASSUME load \in DOMAIN Workloads, PressureConfig.enabled
  PROVE  Thresholds(PressureConfig)
  <1>1. PICK c, def : c = Plan.pressure /\ def = DefaultShardPressureConfig
    OBVIOUS
  <1>2. /\ DOMAIN c = DOMAIN def /\ c.enabled \in BOOLEAN
        /\ \A f \in DOMAIN c \ {"enabled"} : c[f] \in Int
    BY <1>1, PressureAssumption DEF Plan
  <1>3. /\ DOMAIN def = {"enabled", "window", "hot", "dominantLane", "localized", "distributed", "workerBusy",
                         "maxHotShards", "maxLanes", "maxKeys"}
        /\ def.hot \in Int /\ def.maxKeys \in Int /\ def.distributed \in Int /\ def.distributed > 0
    BY <1>1 DEF DefaultShardPressureConfig
  <1>4. c.window \in Int /\ c.hot \in Int /\ c.maxKeys \in Int /\ c.distributed \in Int
    BY <1>2, <1>3
  <1>5. PICK u : u = Unset(c, def)
    OBVIOUS
  <1>6. u = [f \in DOMAIN c |-> IF f # "enabled" /\ c[f] <= 0 THEN def[f] ELSE c[f]]
    BY <1>5 DEF Unset
  <1>7. /\ DOMAIN u = DOMAIN c /\ u.enabled = c.enabled
        /\ u.hot = IF c.hot <= 0 THEN def.hot ELSE c.hot
        /\ u.maxKeys = IF c.maxKeys <= 0 THEN def.maxKeys ELSE c.maxKeys
        /\ u.distributed = IF c.distributed <= 0 THEN def.distributed ELSE c.distributed
    BY <1>2, <1>3, <1>6
  <1>8. u.hot \in Int /\ u.maxKeys \in Int /\ u.distributed \in Nat \ {0}
    BY <1>3, <1>4, <1>7
  <1>9. PICK n : n = NormalizeShardPressureConfig(c)
    OBVIOUS
  <1>10. n = IF c.enabled THEN u ELSE c
    BY <1>1, <1>5, <1>9 DEF NormalizeShardPressureConfig
  <1>11. PressureConfig = [n EXCEPT !.window = c.window]
    BY <1>1, <1>9 DEF PressureConfig, normalizeShardPressureConfig
  <1>12. DOMAIN n = DOMAIN c
    BY <1>7, <1>10
  <1>13. PICK p : p = PressureConfig
    OBVIOUS
  <1>14. /\ p.enabled = n.enabled /\ p.window = c.window /\ p.hot = n.hot /\ p.maxKeys = n.maxKeys
         /\ p.distributed = n.distributed
    BY <1>3, <1>2, <1>11, <1>12, <1>13
  <1>15. c.enabled = TRUE
    <2>1. n.enabled = c.enabled
      BY <1>7, <1>10
    <2>2. p.enabled
      BY <1>13
    <2> QED
      BY <1>2, <1>14, <2>1, <2>2, Zenon
  <1>16. n = u
    BY <1>10, <1>15
  <1>17. p.enabled = TRUE
    BY <1>7, <1>14, <1>15, <1>16
  <1> QED
    BY <1>4, <1>8, <1>13, <1>14, <1>16, <1>17, Zenon DEF Thresholds

\* What a poller and a reader of the diagnostics hold is what they made of the situation they saw.
ReadFrom(k, raw) == k \in DOMAIN Plan.script /\ raw = [seen |-> k, in |-> buildScaleSignalRawInput(Plan.script[k], PressureConfig)]
SummaryFrom(k) ==
  /\ k \in DOMAIN Plan.script /\ PressureConfig.enabled
  /\ summary = [seen |-> k, of |-> buildPressureSummary(Plan.script[k], PressureConfig)]
ReadingInv ==
  /\ load \in DOMAIN Workloads /\ pos \in DOMAIN Plan.script
  /\ DOMAIN poll = Pollers /\ \A p \in Pollers : DOMAIN poll[p] = {"pc", "left", "at", "raw"}
  /\ \A p \in Pollers : poll[p].pc = "calculate" => \E k : ReadFrom(k, poll[p].raw)
  /\ summary = NoSummary \/ \E k : SummaryFrom(k)

LEMMA ScriptIs ==
  ASSUME load \in DOMAIN Workloads
  PROVE  /\ Len(Plan.script) \in Nat \ {0} /\ DOMAIN Plan.script = 1..Len(Plan.script)
         /\ \A i \in DOMAIN Plan.script : IsView(Plan.script[i])
  BY PressureAssumption, Zenon DEF Plan

LEMMA ReadingInit == Init => ReadingInv
  <1> SUFFICES ASSUME Init PROVE ReadingInv
    OBVIOUS
  <1>1. load \in DOMAIN Workloads /\ pos = 1 /\ summary = NoSummary
    BY DEF Init, DataInit, ScaleInit
  <1>2. DOMAIN poll = Pollers
        /\ \A p \in Pollers : DOMAIN poll[p] = {"pc", "left", "at", "raw"} /\ poll[p].pc = "idle"
    BY DEF Init, ScaleInit
  <1>3. pos \in DOMAIN Plan.script
    <2>1. PICK n : n = Len(Plan.script)
      OBVIOUS
    <2>2. n \in Nat \ {0} /\ DOMAIN Plan.script = 1..n
      BY <1>1, <2>1, ScriptIs, Zenon
    <2>3. 1 \in 1..n
      BY <2>2
    <2> QED
      BY <1>1, <2>2, <2>3, Zenon
  <1>4. \A p \in Pollers : ~(poll[p].pc = "calculate")
    BY <1>2
  <1> QED
    BY <1>1, <1>2, <1>3, <1>4, Zenon DEF ReadingInv

\* A step keeps what was read, whatever happens to the queues meanwhile.
LEMMA ReadingKept ==
  ASSUME ReadingInv, UNCHANGED load, pos' \in DOMAIN Plan.script, DOMAIN poll' = Pollers,
         \A p \in Pollers : DOMAIN poll'[p] = {"pc", "left", "at", "raw"},
         \A p \in Pollers : poll'[p].pc = "calculate" =>
             \/ poll[p].pc = "calculate" /\ poll'[p].raw = poll[p].raw
             \/ \E k : ReadFrom(k, poll'[p].raw),
         \/ UNCHANGED summary
         \/ PressureConfig.enabled /\ summary' = [seen |-> pos, of |-> buildPressureSummary(Data, PressureConfig)]
  PROVE  ReadingInv'
  <1>1. Plan' = Plan /\ PressureConfig' = PressureConfig
    BY Zenon DEF Plan, PressureConfig
  <1>3. ASSUME NEW p \in Pollers, poll'[p].pc = "calculate" PROVE \E k : ReadFrom(k, poll[p].raw)'
    <2>1. \E k : ReadFrom(k, poll'[p].raw)
      BY <1>3, Zenon DEF ReadingInv
    <2>2. PICK k : ReadFrom(k, poll'[p].raw)
      BY <2>1
    <2>3. ReadFrom(k, poll[p].raw)'
      BY <1>1, <2>2, Zenon DEF ReadFrom
    <2> QED
      BY <2>3, Zenon
  <1>4. summary' = NoSummary' \/ \E k : SummaryFrom(k)'
    <2>1. CASE UNCHANGED summary
      <3>1. summary = NoSummary \/ \E k : SummaryFrom(k)
        BY Zenon DEF ReadingInv
      <3>2. NoSummary' = NoSummary
        BY DEF NoSummary
      <3> QED
        BY <1>1, <2>1, <3>1, <3>2, Zenon DEF SummaryFrom
    <2>2. CASE PressureConfig.enabled /\ summary' = [seen |-> pos, of |-> buildPressureSummary(Data, PressureConfig)]
      <3>2. pos \in DOMAIN Plan.script
        BY DEF ReadingInv
      <3>3. PICK k : k = pos
        OBVIOUS
      <3>4. summary' = [seen |-> k, of |-> buildPressureSummary(Plan.script[k], PressureConfig)]
        BY <2>2, <3>3, Zenon DEF Data
      <3>5. SummaryFrom(k)'
        BY <1>1, <2>2, <3>2, <3>3, <3>4, Zenon DEF SummaryFrom
      <3> QED
        BY <3>5, Zenon
    <2> QED
      BY <2>1, <2>2
  <1>5. load' \in DOMAIN Workloads /\ (pos \in DOMAIN Plan.script)'
    BY <1>1 DEF ReadingInv
  <1>6. (\A p \in Pollers : poll[p].pc = "calculate" => \E k : ReadFrom(k, poll[p].raw))'
    BY <1>3, Zenon
  <1>7. (summary = NoSummary \/ \E k : SummaryFrom(k))'
    BY <1>4, Zenon
  <1> QED
    BY <1>5, <1>6, <1>7, Zenon DEF ReadingInv

LEMMA ReadingNext ==
  ASSUME ReadingInv, [Next]_vars
  PROVE  ReadingInv'
  <1>1. /\ load \in DOMAIN Workloads /\ pos \in DOMAIN Plan.script
        /\ DOMAIN poll = Pollers /\ \A p \in Pollers : DOMAIN poll[p] = {"pc", "left", "at", "raw"}
    BY DEF ReadingInv
  <1>2. ASSUME UNCHANGED <<load, poll, summary>>, pos' \in DOMAIN Plan.script PROVE ReadingInv'
    BY <1>1, <1>2, ReadingKept, Zenon
  <1>3. CASE UNCHANGED vars
    BY <1>1, <1>2, <1>3 DEF vars, dataVars, scaleVars
  <1>4. CASE Work /\ UNCHANGED <<quotaVars, scaleVars>>
    <2>1. PICK n : n = Len(Plan.script)
      OBVIOUS
    <2>2. n \in Nat \ {0} /\ DOMAIN Plan.script = 1..n
      BY <1>1, <2>1, ScriptIs, Zenon
    <2>3. pos < n /\ pos' = pos + 1 /\ UNCHANGED load
      BY <1>4, <2>1 DEF Work
    <2>4. pos \in 1..n
      BY <1>1, <2>2, Zenon
    <2>5. pos' \in 1..n
      BY <2>2, <2>3, <2>4
    <2>6. pos' \in DOMAIN Plan.script
      BY <2>2, <2>5, Zenon
    <2> QED
      BY <1>2, <1>4, <2>3, <2>6, Zenon DEF scaleVars
  <1>5. CASE Tick /\ UNCHANGED scaleVars
    <2>1. UNCHANGED <<load, pos>>
      BY <1>5 DEF Tick
    <2> QED
      BY <1>1, <1>2, <1>5, <2>1, Zenon DEF scaleVars
  <1>6. CASE QuotaNext /\ UNCHANGED <<dataVars, scaleVars>>
    <2>1. UNCHANGED <<load, pos>> /\ UNCHANGED <<poll, summary>>
      BY <1>6, Zenon DEF dataVars, scaleVars
    <2> QED
      BY <1>1, <1>2, <2>1, Zenon
  <1>7. ASSUME NEW p \in Pollers, ScaleSignalSnapshot(p) \/ ReadRawInput(p) \/ Calculate(p), UNCHANGED dataVars
        PROVE  ReadingInv'
    <2>1. UNCHANGED <<load, pos, summary>>
      BY <1>7, Zenon DEF dataVars, ScaleSignalSnapshot, ReadRawInput, Calculate
    <2>2. DOMAIN poll' = Pollers /\ \A q \in Pollers : DOMAIN poll'[q] = {"pc", "left", "at", "raw"}
      BY <1>1, <1>7 DEF ScaleSignalSnapshot, ReadRawInput, Calculate
    <2>3. \A q \in Pollers : q # p => poll'[q] = poll[q]
      BY <1>1, <1>7 DEF ScaleSignalSnapshot, ReadRawInput, Calculate
    <2>4. poll'[p].pc = "calculate" => ReadFrom(pos, poll'[p].raw)
      <3>1. CASE ScaleSignalSnapshot(p)
        <4>1. poll'[p].pc = IF SignalConfig.enabled THEN "read" ELSE "idle"
          BY <1>1, <3>1 DEF ScaleSignalSnapshot
        <4> QED
          BY <4>1
      <3>2. CASE ReadRawInput(p)
        <4>1. poll'[p].raw = [seen |-> pos, in |-> buildScaleSignalRawInput(Data, PressureConfig)]
          <5>1. PICK r : r = [seen |-> pos, in |-> buildScaleSignalRawInput(Data, PressureConfig)]
            OBVIOUS
          <5>2. poll' = [poll EXCEPT ![p].pc = "calculate", ![p].raw = r]
            BY <3>2, <5>1, Zenon DEF ReadRawInput
          <5>3. poll'[p].raw = r
            BY <1>1, <5>2
          <5> QED
            BY <5>1, <5>3, Zenon
        <4> QED
          BY <1>1, <4>1, Zenon DEF ReadFrom, Data
      <3>3. CASE Calculate(p)
        <4>1. poll'[p].pc = "idle"
          BY <1>1, <3>3 DEF Calculate
        <4> QED
          BY <4>1
      <3> QED
        BY <1>7, <3>1, <3>2, <3>3
    <2>5. \A q \in Pollers : poll'[q].pc = "calculate" =>
             \/ poll[q].pc = "calculate" /\ poll'[q].raw = poll[q].raw
             \/ \E k : ReadFrom(k, poll'[q].raw)
      BY <2>3, <2>4, Zenon
    <2> QED
      BY <1>1, <2>1, <2>2, <2>5, ReadingKept, Zenon
  <1>8. CASE PressureSummarySnapshot /\ UNCHANGED dataVars
    <2>1. /\ PressureConfig.enabled /\ summary' = [seen |-> pos, of |-> buildPressureSummary(Data, PressureConfig)]
          /\ UNCHANGED <<load, pos, poll>>
      BY <1>8, Zenon DEF PressureSummarySnapshot, dataVars
    <2>2. pos' \in DOMAIN Plan.script /\ DOMAIN poll' = Pollers
      BY <1>1, <2>1, Zenon
    <2>3. \A p \in Pollers : DOMAIN poll'[p] = {"pc", "left", "at", "raw"}
      BY <1>1, <2>1, Zenon
    <2>4. \A p \in Pollers : poll'[p].pc = "calculate" =>
             \/ poll[p].pc = "calculate" /\ poll'[p].raw = poll[p].raw
             \/ \E k : ReadFrom(k, poll'[p].raw)
      BY <2>1, Zenon
    <2> QED
      BY <2>1, <2>2, <2>3, <2>4, ReadingKept, Zenon
  <1>9. CASE ScaleNext /\ UNCHANGED <<dataVars, quotaVars>>
    <2>1. UNCHANGED dataVars
      BY <1>9, Zenon
    <2> QED
      BY <1>7, <1>8, <1>9, <2>1, Zenon DEF ScaleNext
  <1> QED
    BY <1>3, <1>4, <1>5, <1>6, <1>9, Zenon DEF Next

LEMMA ReadingCovers == ReadingInv => SummaryCoversSignal
  <1> SUFFICES ASSUME ReadingInv, NEW p \in Pollers, poll[p].pc = "calculate", poll[p].raw.seen = summary.seen
               PROVE  /\ poll[p].raw.in.hotCount <= summary.of.hotCount
                      /\ AtLeast(poll[p].raw.in.hotRatio, Percent(PressureConfig.distributed)) =>
                            summary.of.class = "distributed" /\ summary.of.flags.scale
                      /\ ~(summary.of.flags.scale /\ summary.of.flags.mitigation)
    BY Zenon DEF SummaryCoversSignal
  <1>1. PICK k : ReadFrom(k, poll[p].raw)
    BY Zenon DEF ReadingInv
  <1>2. PICK in : in = buildScaleSignalRawInput(Plan.script[k], PressureConfig)
    OBVIOUS
  <1>3. k \in DOMAIN Plan.script /\ poll[p].raw = [seen |-> k, in |-> in]
    BY <1>1, <1>2, Zenon DEF ReadFrom
  <1>4. poll[p].raw.seen = k /\ poll[p].raw.in = in
    BY <1>3
  <1>5. k # 0
    <2>1. PICK n : n = Len(Plan.script)
      OBVIOUS
    <2>2. n \in Nat \ {0} /\ DOMAIN Plan.script = 1..n
      BY <2>1, ScriptIs, Zenon DEF ReadingInv
    <2>3. k \in 1..n
      BY <1>3, <2>2, Zenon
    <2> QED
      BY <2>3
  <1>6. summary # NoSummary
    <2>1. NoSummary.seen = 0
      BY DEF NoSummary
    <2> QED
      BY <1>4, <1>5, <2>1, Zenon
  <1>7. PICK m : SummaryFrom(m)
    BY <1>6, Zenon DEF ReadingInv
  <1>8. PICK s : s = buildPressureSummary(Plan.script[m], PressureConfig)
    OBVIOUS
  <1>9. summary = [seen |-> m, of |-> s] /\ PressureConfig.enabled
    BY <1>7, <1>8, Zenon DEF SummaryFrom
  <1>10. summary.seen = m /\ summary.of = s
    BY <1>9
  <1>11. m = k
    BY <1>4, <1>10, Zenon
  <1>12. load \in DOMAIN Workloads
    BY DEF ReadingInv
  <1>13. Thresholds(PressureConfig)
    BY <1>9, <1>12, PressureNumbers
  <1>14. IsView(Plan.script[k])
    BY <1>3, <1>12, ScriptIs, Zenon
  <1>15. /\ in.hotCount <= s.hotCount
         /\ AtLeast(in.hotRatio, Percent(PressureConfig.distributed)) => s.class = "distributed" /\ s.flags.scale
         /\ ~(s.flags.scale /\ s.flags.mitigation)
    BY <1>2, <1>8, <1>11, <1>13, <1>14, ReadingsAgree, Zenon
  <1> QED
    BY <1>4, <1>10, <1>15, Zenon

\* The autoscaling signal and the pressure summary, which are computed by different code from different signals, never
\* contradict each other about one situation: what the signal takes for hot the summary does too, what the signal takes
\* for pressure on enough shards the summary calls distributed and relevant for scaling, and it never asks for scaling
\* and mitigation at once, for every number of shards, lanes and hot keys and all configurations.
THEOREM SummaryAgreesWithSignal == Spec => []SummaryCoversSignal
  <1>1. ReadingInv /\ [Next]_vars => ReadingInv'
    BY ReadingNext
  <1> QED
    BY <1>1, ReadingInit, ReadingCovers, PTL DEF Spec
=============================================================================
