-------------------------- MODULE RetryLoopProofs --------------------------
(***************************************************************************)
(* Proofs about RetryLoop, for every finite set of jobs, every retry,      *)
(* idempotency and suppression configuration and every backend: the types, *)
(* the ledger of backend leases, the safety of duplicates, the finality of *)
(* suppression and the ledger of the retry counters.                       *)
(***************************************************************************)
EXTENDS RetryLoop, FiniteSetTheorems, TLAPS

-----------------------------------------------------------------------------
(* What the decisions return. *)

\* What a handler or the coordinator may return, and no error.
Errors == {NoError} \cup {Err(c) : c \in ErrorClasses}

LEMMA ErrorShape ==
  ASSUME NEW e \in Errors
  PROVE  /\ e.class \in ErrorClasses \cup {"nil"} /\ e.stage = FALSE
         /\ e # NoError => e.class \in ErrorClasses
  BY DEF Errors, NoError, Err

LEMMA NilIsNoClass == "nil" \notin ErrorClasses /\ "ok" \notin ErrorClasses
  BY DEF ErrorClasses, TypedKind, OverloadClasses, PerKeyClasses, AdmissionClasses, QueueClasses

LEMMA DefaultKind ==
  ASSUME NEW e \in Errors
  PROVE  /\ classifyDefault(e).kind \in FailureKinds
         /\ e # NoError => classifyDefault(e).kind # "none"
  <1>1. e.class \in ErrorClasses \cup {"nil"} /\ (e # NoError => e.class # "nil")
    BY ErrorShape, NilIsNoClass
  <1>2. \A c : c \in DOMAIN TypedKind => TypedKind[c] \in FailureKinds \ {"none"}
    BY DEF TypedKind, FailureKinds
  <1> QED
    BY <1>1, <1>2 DEF classifyDefault, NewFailure, NoFailure, FailureKinds

LEMMA PolicyKind ==
  ASSUME NEW e \in Errors
  PROVE  classifyFailureWithPolicy(e).kind \in FailureKinds
  <1>1. e.class \in ErrorClasses \cup {"nil"}
    BY ErrorShape
  <1>2. e.class # "nil" => Classifier[e.class] \in FailureKinds \cup {""}
    BY <1>1, RetryPolicyAssumption
  <1> QED
    BY <1>2, DefaultKind DEF classifyFailureWithPolicy, NewFailure

LEMMA ContextKind ==
  ASSUME NEW e \in Errors, NEW exhausted, NEW before
  PROVE  ClassifyContextErrorAt(e, exhausted, before).kind \in FailureKinds
  BY DefaultKind DEF ClassifyContextErrorAt, NoFailure, NewFailure, FailureKinds

\* The failure a future is completed with: a real one whenever the policy's own classification says so.
LEMMA CompletionKind ==
  ASSUME NEW e \in Errors, NEW exhausted, NEW before
  PROVE  /\ classifyCompletionFailure(e, exhausted, before).kind \in FailureKinds
         /\ e # NoError /\ classifyFailureWithPolicy(e).kind # "none" =>
              classifyCompletionFailure(e, exhausted, before).kind # "none"
  <1>1. e.stage = FALSE /\ (e # NoError => e.class # "nil")
    BY ErrorShape, NilIsNoClass
  <1>2. (IsCanceled(e) \/ IsDeadlineExceeded(e)) /\ e # NoError =>
          ClassifyContextErrorAt(e, exhausted, before).kind # "none"
    BY <1>1 DEF ClassifyContextErrorAt, NewFailure, NoFailure
  <1> QED
    BY <1>1, <1>2, PolicyKind, ContextKind DEF classifyCompletionFailure, NoFailure, NewFailure, FailureKinds

LEMMA DelaysAreNatural == \A p, n : RetryDelay(p, n) \subseteq Nat
  BY DEF RetryDelay

\* A retry is allowed below MaxAttempts only, and MaxAttempts is the reason of a stop there only.
LEMMA RetryBelowMax ==
  ASSUME NEW p, p.enabled, NEW c, NEW n \in Nat, p.maxAttempts \in Nat, NEW f, NEW b, NEW t, NEW d
  PROVE  LET r == DecideRetry(p, c, n, f, b, t, d) IN
         /\ r.retry => n < p.maxAttempts /\ r.reason = "retryable_failure"
         /\ r.reason = "max_attempts" => n >= p.maxAttempts /\ ~r.retry
  BY DEF DecideRetry

Forbidden(idem) ==
  /\ \/ idem.safety \notin {"safe", "requires_check"}
     \/ idem.safety = "requires_check" /\ ~IdempotencyPolicy.hook
     \/ IdempotencyPolicy.requireKey /\ ~idem.hasKey
  /\ ~(idem.safety = "unsafe" /\ idem.allowUnsafe)

LEMMA ForbiddenRefused ==
  ASSUME NEW p, p.enabled, NEW idem, Forbidden(idem), NEW answer
  PROVE  ~DecideRetrySafety(p, idem, IdempotencyPolicy, answer).allow
  BY DEF DecideRetrySafety, Forbidden

SafetyReasons == {"", "safe", "unsafe", "panic", "explicit_override", "missing_idempotency_key", "no_hook", "hook_failed",
                  "hook_allowed", "hook_rejected"}

LEMMA SafetyReason ==
  ASSUME NEW p, NEW idem, NEW answer \in SafetyHookAnswers(idem, IdempotencyPolicy)
  PROVE  DecideRetrySafety(p, idem, IdempotencyPolicy, answer).reason \in SafetyReasons
  <1>1. answer = HookPanic \/ answer \in [allow : BOOLEAN, reason : {"", "safe", "unsafe"}]
    BY DEF SafetyHookAnswers
  <1>2. CASE answer = HookPanic
    BY <1>2 DEF DecideRetrySafety, SafetyReasons
  <1>3. CASE answer \in [allow : BOOLEAN, reason : {"", "safe", "unsafe"}]
    <2>1. normalizeRetrySafetyHookDecision(answer).reason \in SafetyReasons
      BY <1>3 DEF normalizeRetrySafetyHookDecision, SafetyReasons
    <2> QED
      BY <2>1 DEF DecideRetrySafety, SafetyReasons
  <1> QED
    BY <1>1, <1>2, <1>3
-----------------------------------------------------------------------------
(* The inductive invariant. *)

TraceRecords == [attempt : Nat, at : Nat, delay : Nat, safety : SafetyReasons, refused : BOOLEAN]

Types ==
  /\ \A j \in Jobs : req[j] \in Requests[j]
  /\ now \in Nat
  /\ ctx \in [Jobs -> {"nil", "canceled", "deadline"}]
  /\ pc \in [Jobs -> {"queued", "loop", "acquire", "run", "returned", "sleep", "done"}]
  /\ attempt \in [Jobs -> Nat]
  /\ startedAt \in [Jobs -> Nat] /\ wakeAt \in [Jobs -> Nat]
  /\ lease \in [Jobs -> {"none", "noop", "held", "released"}]
  /\ inflight \in [DOMAIN MaxInFlight -> Nat]
  /\ err \in [Jobs -> Errors]
  /\ trace \in [Jobs -> Seq(TraceRecords)]
  /\ DOMAIN future = Jobs
  /\ counters \in [CounterNames -> Nat]

\* A future is completed by the step that ends its job, and by that step only.
FutureInv(j) ==
  IF pc[j] = "done" THEN future[j].done = TRUE /\ future[j].failure.kind \in FailureKinds ELSE future[j] = Pending

\* The attempt number stays within the policy, and sleeping jobs have an attempt left.
AttemptInv(j) ==
  /\ pc[j] \in {"loop", "sleep"} => Policy(j).enabled
  /\ attempt[j] >= 1
  /\ IF Policy(j).enabled THEN attempt[j] <= Policy(j).maxAttempts ELSE attempt[j] = 1
  /\ pc[j] = "sleep" => attempt[j] < Policy(j).maxAttempts
  /\ Forbidden(Cfg(j).idem) => attempt[j] = 1 /\ pc[j] # "sleep"

\* The trace has one record for every retry that was considered; one that was refused is the last.
TraceInv(j) ==
  /\ pc[j] \in {"queued", "loop", "acquire", "run", "returned"} => Len(trace[j]) = attempt[j] - 1
  /\ pc[j] = "sleep" => Len(trace[j]) = attempt[j]
  /\ \A i \in 1..Len(trace[j]) : trace[j][i].refused =>
       i = Len(trace[j]) /\ attempt[j] = i /\ pc[j] = "done" /\ future[j].failure.kind # "none"
  /\ pc[j] = "done" /\ Policy(j).enabled /\ future[j].final.stopped = "max_attempts" =>
       Len(trace[j]) = Policy(j).maxAttempts - 1

LeaseInv(j) == lease[j] = "held" => pc[j] = "run"

JobInv(j) == FutureInv(j) /\ AttemptInv(j) /\ TraceInv(j) /\ LeaseInv(j)

RetryInv == Types /\ \A j \in Jobs : JobInv(j)

\* The policy a job runs under is one the normalisation produced: it allows an attempt.
LEMMA PolicyShape ==
  ASSUME Types, NEW j \in Jobs
  PROVE  /\ Policy(j).enabled \in BOOLEAN
         /\ Policy(j).enabled => Policy(j).maxAttempts \in Nat /\ Policy(j).maxAttempts >= 1
         /\ Cfg(j).outcomes \subseteq ErrorClasses \cup {"ok"}
  <1>1. Cfg(j).retry \in RetryPolicies /\ Cfg(j).outcomes \subseteq ErrorClasses \cup {"ok"}
    BY RetryLoopAssumption DEF Types, Cfg
  <1>2. ASSUME NEW p \in RetryPolicies, p.enabled
        PROVE  LET n == NormalizeRetryPolicy(p) IN n.enabled = TRUE /\ n.maxAttempts \in Nat /\ n.maxAttempts >= 1
    BY <1>2 DEF NormalizeRetryPolicy, OrDefault, RetryPolicies
  <1>3. QueueRetry \in RetryPolicies
    BY RetryLoopAssumption
  <1>4. NoPolicy.enabled = FALSE
    BY DEF NoPolicy
  <1> QED
    BY <1>1, <1>2, <1>3, <1>4 DEF Policy, resolveRetryPolicy

LEMMA RetryInvInit == Init => RetryInv
  <1> SUFFICES ASSUME Init PROVE RetryInv
    OBVIOUS
  <1>1. Types
    BY DEF Init, Types, Errors, CounterNames
  <1>2. ASSUME NEW j \in Jobs PROVE JobInv(j)
    <2>1. /\ pc[j] = "queued" /\ attempt[j] = 1 /\ trace[j] = <<>> /\ future[j] = Pending /\ lease[j] = "none"
      BY DEF Init
    <2>2. FutureInv(j) /\ LeaseInv(j)
      BY <2>1 DEF FutureInv, LeaseInv
    <2>3. AttemptInv(j)
      BY <1>1, <2>1, PolicyShape DEF AttemptInv
    <2>4. TraceInv(j)
      BY <2>1 DEF TraceInv
    <2> QED
      BY <2>2, <2>3, <2>4 DEF JobInv
  <1> QED
    BY <1>1, <1>2 DEF RetryInv

-----------------------------------------------------------------------------
(* One step of one job. *)

\* What a step of another job leaves of this one.
Same(j) ==
  /\ pc'[j] = pc[j] /\ attempt'[j] = attempt[j] /\ lease'[j] = lease[j]
  /\ trace'[j] = trace[j] /\ future'[j] = future[j]

Step(j) == JobStep(j) \/ HandlerRelease(j) \/ ContextEnds(j)

LEMMA ConfigFixed ==
  ASSUME UNCHANGED req, NEW j
  PROVE  Cfg(j)' = Cfg(j) /\ Policy(j)' = Policy(j)
  BY DEF Cfg, Policy

\* The three ways a failed attempt goes on, as far as the invariants are concerned.
Stops(j) ==
  /\ trace' = trace /\ UNCHANGED wakeAt
  /\ \E final, names :
       /\ Complete(j, err[j], FALSE, final) /\ Count(names)
       /\ names \cap {"scheduled", "suppressed", "safety_suppressed", "attempts"} = {}
       /\ "exhausted" \in names <=> final.stopped = "max_attempts"
       /\ final.stopped = "max_attempts" => attempt[j] >= Policy(j).maxAttempts

Refused(j) ==
  /\ UNCHANGED wakeAt
  /\ \E final, names : \E record \in TraceRecords, name \in {"suppressed", "safety_suppressed"} :
       /\ trace' = [trace EXCEPT ![j] = Append(@, record)]
       /\ Complete(j, err[j], FALSE, final) /\ Count(names)
       /\ names \ {"failures"} = {name}
       /\ final.stopped = "retryable_failure"
       /\ classifyFailureWithPolicy(err[j]).kind # "none"

Sleeps(j) ==
  /\ attempt[j] < Policy(j).maxAttempts /\ ~Forbidden(Cfg(j).idem)
  /\ UNCHANGED future
  /\ \E names : \E record \in TraceRecords :
       /\ ~record.refused
       /\ trace' = [trace EXCEPT ![j] = Append(@, record)]
       /\ pc' = [pc EXCEPT ![j] = "sleep"]
       /\ wakeAt' = [wakeAt EXCEPT ![j] = now + record.delay]
       /\ Count(names) /\ names \ {"failures"} = {"scheduled"}

LEMMA DecideCases ==
  ASSUME Types, NEW j \in Jobs, DecideAfterFailure(j)
  PROVE  /\ pc[j] = "returned" /\ Policy(j).enabled /\ err[j] # NoError
         /\ UNCHANGED <<req, now, ctx, attempt, startedAt, lease, inflight, err>>
         /\ Stops(j) \/ Refused(j) \/ Sleeps(j)
  <1>0. /\ pc[j] = "returned" /\ Policy(j).enabled /\ err[j] # NoError
        /\ UNCHANGED <<req, now, ctx, attempt, startedAt, lease, inflight, err>>
    BY DEF DecideAfterFailure
  <1> SUFFICES Stops(j) \/ Refused(j) \/ Sleeps(j)
    BY <1>0
  <1> DEFINE failure == classifyFailureWithPolicy(err[j])
  <1>1. PICK decision, safety, suppress :
        \E delay \in RetryDelay(Policy(j), attempt[j]), answer \in SafetyHookAnswers(Cfg(j).idem, IdempotencyPolicy) :
          /\ decision = DecideRetry(Policy(j), ctx[j], attempt[j], failure, Cfg(j).budget, DecisionTime(j), delay)
          /\ safety = DecideRetrySafety(Policy(j), Cfg(j).idem, IdempotencyPolicy, answer)
          /\ ActOnVerdict(j, delay, failure, decision, safety, suppress)
    BY DEF DecideAfterFailure
  <1>1a. PICK delay \in RetryDelay(Policy(j), attempt[j]), answer \in SafetyHookAnswers(Cfg(j).idem, IdempotencyPolicy) :
          /\ decision = DecideRetry(Policy(j), ctx[j], attempt[j], failure, Cfg(j).budget, DecisionTime(j), delay)
          /\ safety = DecideRetrySafety(Policy(j), Cfg(j).idem, IdempotencyPolicy, answer)
          /\ ActOnVerdict(j, delay, failure, decision, safety, suppress)
    BY <1>1
  <1>2. Policy(j).maxAttempts \in Nat /\ attempt[j] \in Nat /\ now \in Nat /\ delay \in Nat
    BY <1>0, PolicyShape, DelaysAreNatural DEF Types
  <1>3. /\ decision.retry => attempt[j] < Policy(j).maxAttempts /\ decision.reason = "retryable_failure"
        /\ decision.reason = "max_attempts" => attempt[j] >= Policy(j).maxAttempts /\ ~decision.retry
    BY <1>0, <1>1a, <1>2, RetryBelowMax
  <1>4. safety.allow => ~Forbidden(Cfg(j).idem)
    BY <1>0, <1>1a, ForbiddenRefused
  <1>5. safety.reason \in SafetyReasons
    BY <1>1a, SafetyReason
  <1> DEFINE refused == ~safety.allow \/ suppress.suppress
             record  == [attempt |-> attempt[j], at |-> now, delay |-> delay, safety |-> safety.reason,
                         refused |-> refused]
             verdict == Verdict(failure, decision, safety, suppress)
             kindNames == FailureCounters(failure.kind)
  <1>6. record \in TraceRecords /\ record.delay = delay
    BY <1>2, <1>5 DEF TraceRecords
  <1>7. kindNames \subseteq {"failures"}
    BY DEF FailureCounters
  <1>8. CASE verdict \in {"not_a_failure", "stop"}
    <2>1. trace' = trace /\ UNCHANGED wakeAt
      BY <1>1a, <1>8 DEF ActOnVerdict
    <2>2. CASE verdict = "not_a_failure"
      <3>1. Complete(j, err[j], FALSE, NoFinal) /\ Count({} \cup kindNames)
        BY <1>1a, <2>2 DEF ActOnVerdict
      <3>2. NoFinal.stopped = "untracked"
        BY DEF NoFinal
      <3> DEFINE names == {} \cup kindNames
      <3>3. /\ names \cap {"scheduled", "suppressed", "safety_suppressed", "attempts"} = {}
            /\ "exhausted" \in names <=> NoFinal.stopped = "max_attempts"
            /\ NoFinal.stopped = "max_attempts" => attempt[j] >= Policy(j).maxAttempts
        BY <1>7, <3>2
      <3> HIDE DEF names
      <3> QED
        BY <2>1, <3>1, <3>3, Zenon DEF Stops, names
    <2>3. CASE verdict = "stop"
      <3> DEFINE final == finalStateFromFailure(decision.reason, "", "")
      <3>1. Complete(j, err[j], FALSE, final) /\ Count(TerminalCounters(decision.reason) \cup kindNames)
        BY <1>1a, <2>3 DEF ActOnVerdict
      <3>2. final.stopped = decision.reason
        BY DEF finalStateFromFailure
      <3>3. TerminalCounters(decision.reason) = IF decision.reason = "max_attempts" THEN {"exhausted"} ELSE {}
        BY DEF TerminalCounters
      <3> DEFINE names == TerminalCounters(decision.reason) \cup kindNames
      <3>4. /\ names \cap {"scheduled", "suppressed", "safety_suppressed", "attempts"} = {}
            /\ "exhausted" \in names <=> final.stopped = "max_attempts"
            /\ final.stopped = "max_attempts" => attempt[j] >= Policy(j).maxAttempts
        BY <1>3, <1>7, <3>2, <3>3
      <3> HIDE DEF final, names
      <3> QED
        BY <2>1, <3>1, <3>4, Zenon DEF Stops, names
    <2> QED
      BY <1>8, <2>2, <2>3
  <1>9. CASE verdict \in {"unsafe", "suppressed"}
    <2>1. trace' = [trace EXCEPT ![j] = Append(@, record)] /\ UNCHANGED wakeAt
      BY <1>1a, <1>9 DEF ActOnVerdict
    <2>2. decision.retry /\ failure.kind # "none"
      BY <1>9 DEF Verdict
    <2>3. PICK name \in {"suppressed", "safety_suppressed"} : \E final :
            /\ final.stopped = decision.reason
            /\ Complete(j, err[j], FALSE, final) /\ Count({name} \cup kindNames)
      <3>1. \A r, s, t : finalStateFromFailure(r, s, t).stopped = r
        BY DEF finalStateFromFailure
      <3>2. CASE verdict = "unsafe"
        <4>1. /\ Complete(j, err[j], FALSE, finalStateFromFailure(decision.reason, safety.reason, ""))
              /\ Count({"safety_suppressed"} \cup kindNames)
          BY <1>1a, <3>2 DEF ActOnVerdict
        <4> QED
          BY <3>1, <4>1, Zenon
      <3>3. CASE verdict = "suppressed"
        <4>1. /\ Complete(j, err[j], FALSE, finalStateFromFailure(decision.reason, safety.reason, suppress.reason))
              /\ Count({"suppressed"} \cup kindNames)
          BY <1>1a, <3>3 DEF ActOnVerdict
        <4> QED
          BY <3>1, <4>1, Zenon
      <3> QED
        BY <1>9, <3>2, <3>3
    <2>3a. PICK final : final.stopped = decision.reason /\ Complete(j, err[j], FALSE, final) /\ Count({name} \cup kindNames)
      BY <2>3
    <2>4. ({name} \cup kindNames) \ {"failures"} = {name}
      BY <1>7, <2>3
    <2>5. final.stopped = "retryable_failure"
      BY <1>3, <2>2, <2>3a
    <2> HIDE DEF record, kindNames
    <2> QED
      BY <1>6, <2>1, <2>2, <2>3a, <2>4, <2>5, Zenon DEF Refused
  <1>10. CASE verdict = "sleep"
    <2>1. decision.retry /\ safety.allow /\ ~refused
      BY <1>10 DEF Verdict
    <2>2. /\ trace' = [trace EXCEPT ![j] = Append(@, record)] /\ UNCHANGED future
          /\ pc' = [pc EXCEPT ![j] = "sleep"] /\ wakeAt' = [wakeAt EXCEPT ![j] = now + delay]
          /\ Count({"scheduled"} \cup kindNames)
      BY <1>1a, <1>10 DEF ActOnVerdict
    <2>3. ({"scheduled"} \cup kindNames) \ {"failures"} = {"scheduled"}
      BY <1>7
    <2>4. ~record.refused
      BY <2>1
    <2> HIDE DEF record, kindNames
    <2>5. wakeAt' = [wakeAt EXCEPT ![j] = now + record.delay]
      BY <1>6, <2>2
    <2> QED
      BY <1>3, <1>4, <1>6, <2>1, <2>2, <2>3, <2>4, <2>5, Zenon DEF Sleeps
  <1>11. verdict \in {"not_a_failure", "stop", "unsafe", "suppressed", "sleep"}
    BY DEF Verdict
  <1> QED
    BY <1>8, <1>9, <1>10, <1>11

LEMMA OthersSame ==
  ASSUME Types, NEW j \in Jobs, Step(j)
  PROVE  UNCHANGED req /\ \A k \in Jobs \ {j} : Same(k)
  <1>1. CASE RunBody(j)
    BY <1>1 DEF Types, Same, RunBody, Complete
  <1>2. CASE StartAttempt(j)
    BY <1>2 DEF Types, Same, StartAttempt, Complete
  <1>3. CASE AcquireBackend(j)
    BY <1>3 DEF Types, Same, AcquireBackend
  <1>4. CASE HandlerReturn(j) \/ HandlerRelease(j) \/ ContextEnds(j)
    BY <1>4 DEF Types, Same, HandlerReturn, HandlerRelease, ContextEnds, Release
  <1>5. CASE CompleteWithoutRetry(j) \/ CompleteSuccess(j) \/ SleepEnds(j) \/ SleepCancelled(j)
    BY <1>5 DEF Types, Same, CompleteWithoutRetry, CompleteSuccess, SleepEnds, SleepCancelled, Complete
  <1>6. CASE DecideAfterFailure(j)
    <2>1. UNCHANGED <<req, attempt, lease>> /\ (Stops(j) \/ Refused(j) \/ Sleeps(j))
      BY <1>6, DecideCases
    <2> QED
      BY <2>1 DEF Types, Same, Stops, Refused, Sleeps, Complete
  <1> QED
    BY <1>1, <1>2, <1>3, <1>4, <1>5, <1>6 DEF Step, JobStep

LEMMA SameKeeps ==
  ASSUME UNCHANGED req, NEW j, JobInv(j), Same(j)
  PROVE  JobInv(j)'
  <1>1. Cfg(j)' = Cfg(j) /\ Policy(j)' = Policy(j)
    BY ConfigFixed
  <1> QED
    BY <1>1 DEF Same, JobInv, FutureInv, AttemptInv, TraceInv, LeaseInv, Forbidden
LEMMA CountKeepsType ==
  ASSUME Types, NEW names, Count(names)
  PROVE  counters' \in [CounterNames -> Nat]
  BY DEF Types, Count

LEMMA ReleaseKeepsType ==
  ASSUME Types, NEW j \in Jobs, Release(j)
  PROVE  lease' \in [Jobs -> {"none", "noop", "held", "released"}] /\ inflight' \in [DOMAIN MaxInFlight -> Nat]
  <1> DEFINE l == Cfg(j).lane
  <1>1. lease' \in [Jobs -> {"none", "noop", "held", "released"}]
    BY DEF Release, Types
  <1>2. CASE l \in DOMAIN MaxInFlight /\ inflight[l] > 0
    <2>1. inflight[l] - 1 \in Nat
      BY <1>2 DEF Types
    <2>2. inflight' = inflight \/ inflight' = [inflight EXCEPT ![l] = inflight[l] - 1]
      BY DEF Release
    <2> QED
      BY <1>1, <2>1, <2>2 DEF Types
  <1>3. CASE ~(l \in DOMAIN MaxInFlight /\ inflight[l] > 0)
    <2>1. inflight' = inflight
      BY <1>3 DEF Release, Types
    <2> QED
      BY <1>1, <2>1 DEF Types
  <1> QED
    BY <1>2, <1>3

LEMMA StepTypes ==
  ASSUME Types, NEW j \in Jobs, Step(j)
  PROVE  Types'
  <1>0. \A k \in Jobs : req'[k] \in Requests[k]
    BY OthersSame DEF Types
  <1>1. ASSUME NEW c \in ErrorClasses PROVE Err(c) \in Errors
    BY DEF Errors
  <1>2. NoError \in Errors
    BY DEF Errors
  <1>3. CASE RunBody(j)
    BY <1>0, <1>3 DEF Types, RunBody, Complete
  <1>4. CASE StartAttempt(j)
    <2>1. \E names : Count(names)
      BY <1>4 DEF StartAttempt
    <2>2. counters' \in [CounterNames -> Nat]
      BY <2>1, CountKeepsType
    <2> QED
      BY <1>0, <1>4, <2>2 DEF Types, StartAttempt, Complete
  <1>5. CASE AcquireBackend(j)
    <2>1. AcquireError(j) \in ErrorClasses \cup {"nil"}
      BY DEF AcquireError, Types, ErrorClasses, TypedKind
    <2>2. err' \in [Jobs -> Errors]
      BY <1>1, <1>5, <2>1 DEF AcquireBackend, Types
    <2>3. inflight' \in [DOMAIN MaxInFlight -> Nat]
      BY <1>5 DEF AcquireBackend, Types
    <2> QED
      BY <1>0, <1>5, <2>2, <2>3 DEF Types, AcquireBackend
  <1>6. CASE HandlerReturn(j)
    <2>1. ASSUME NEW c \in Cfg(j).outcomes \cup ({ctx[j]} \ {"nil"})
          PROVE  c = "ok" \/ c \in ErrorClasses
      BY <2>1, PolicyShape DEF Types, ErrorClasses
    <2>2. err' \in [Jobs -> Errors]
      BY <1>1, <1>2, <1>6, <2>1 DEF HandlerReturn, Types
    <2>3. inflight' \in [DOMAIN MaxInFlight -> Nat] /\ lease' \in [Jobs -> {"none", "noop", "held", "released"}]
      BY <1>6, ReleaseKeepsType DEF HandlerReturn
    <2> QED
      BY <1>0, <1>6, <2>2, <2>3 DEF Types, HandlerReturn
  <1>7. CASE HandlerRelease(j)
    <2>1. inflight' \in [DOMAIN MaxInFlight -> Nat] /\ lease' \in [Jobs -> {"none", "noop", "held", "released"}]
      BY <1>7, ReleaseKeepsType DEF HandlerRelease
    <2> QED
      BY <1>0, <1>7, <2>1 DEF Types, HandlerRelease
  <1>8. CASE ContextEnds(j)
    BY <1>0, <1>8 DEF Types, ContextEnds
  <1>9. CASE CompleteWithoutRetry(j) \/ SleepCancelled(j)
    <2>1. \E names : Count(names)
      BY <1>9 DEF CompleteWithoutRetry, SleepCancelled
    <2>2. counters' \in [CounterNames -> Nat]
      BY <2>1, CountKeepsType
    <2> QED
      BY <1>0, <1>9, <2>2 DEF Types, CompleteWithoutRetry, SleepCancelled, Complete
  <1>10. CASE CompleteSuccess(j) \/ SleepEnds(j)
    <2>1. CASE CompleteSuccess(j)
      BY <1>0, <2>1 DEF Types, CompleteSuccess, Complete
    <2>2. CASE SleepEnds(j)
      BY <1>0, <2>2 DEF Types, SleepEnds
    <2> QED
      BY <1>10, <2>1, <2>2
  <1>11. CASE DecideAfterFailure(j)
    <2>1. /\ UNCHANGED <<req, now, ctx, attempt, startedAt, lease, inflight, err>>
          /\ Stops(j) \/ Refused(j) \/ Sleeps(j)
      BY <1>11, DecideCases
    <2>2. \E names : Count(names)
      BY <2>1 DEF Stops, Refused, Sleeps
    <2>3. counters' \in [CounterNames -> Nat]
      BY <2>2, CountKeepsType
    <2>4. trace' \in [Jobs -> Seq(TraceRecords)]
      <3>1. trace' = trace \/ \E r \in TraceRecords : trace' = [trace EXCEPT ![j] = Append(@, r)]
        BY <2>1 DEF Stops, Refused, Sleeps
      <3>2. ASSUME NEW r \in TraceRecords
            PROVE  [trace EXCEPT ![j] = Append(@, r)] \in [Jobs -> Seq(TraceRecords)]
        <4>1. Append(trace[j], r) \in Seq(TraceRecords)
          BY DEF Types
        <4> QED
          BY <4>1 DEF Types
      <3>3. trace \in [Jobs -> Seq(TraceRecords)]
        BY DEF Types
      <3> QED
        BY <3>1, <3>2, <3>3, Zenon
    <2>5. wakeAt' \in [Jobs -> Nat]
      <3>1. UNCHANGED wakeAt \/ \E r \in TraceRecords : wakeAt' = [wakeAt EXCEPT ![j] = now + r.delay]
        BY <2>1 DEF Stops, Refused, Sleeps
      <3>2. ASSUME NEW r \in TraceRecords
            PROVE  [wakeAt EXCEPT ![j] = now + r.delay] \in [Jobs -> Nat]
        <4>1. now + r.delay \in Nat
          BY DEF Types, TraceRecords
        <4> QED
          BY <4>1 DEF Types
      <3> QED
        BY <3>1, <3>2 DEF Types
    <2>6. DOMAIN future' = Jobs /\ pc' \in [Jobs -> {"queued", "loop", "acquire", "run", "returned", "sleep", "done"}]
      BY <2>1 DEF Stops, Refused, Sleeps, Complete, Types
    <2> QED
      BY <1>0, <2>1, <2>3, <2>4, <2>5, <2>6 DEF Types
  <1> QED
    BY <1>3, <1>4, <1>5, <1>6, <1>7, <1>8, <1>9, <1>10, <1>11 DEF Step, JobStep

\* Completing the future of a job, with any error a job can have.
LEMMA CompleteKeepsFuture ==
  ASSUME Types, NEW j \in Jobs, NEW e \in Errors, NEW before, NEW final, Complete(j, e, before, final)
  PROVE  /\ pc'[j] = "done" /\ FutureInv(j)'
         /\ future'[j].final = final
         /\ future'[j].failure = classifyCompletionFailure(e, IsExhaustedAt(Cfg(j).budget, now), before)
  <1>1. pc'[j] = "done" /\ \E f : future'[j] = Completed(f, final)
                               /\ f = classifyCompletionFailure(e, IsExhaustedAt(Cfg(j).budget, now), before)
    BY DEF Types, Complete
  <1>2. classifyCompletionFailure(e, IsExhaustedAt(Cfg(j).budget, now), before).kind \in FailureKinds
    BY CompletionKind
  <1> QED
    BY <1>1, <1>2 DEF FutureInv, Completed

LEMMA StepFuture ==
  ASSUME RetryInv, NEW j \in Jobs, Step(j)
  PROVE  FutureInv(j)'
  <1>0. /\ Types /\ err[j] \in Errors /\ NoError \in Errors /\ FutureInv(j)
        /\ ctx[j] # "nil" => Err(ctx[j]) \in Errors
    BY DEF RetryInv, JobInv, Types, Errors, ErrorClasses
  <1>1. ASSUME NEW e \in Errors, NEW before, NEW final, Complete(j, e, before, final)
        PROVE  FutureInv(j)'
    BY <1>0, <1>1, CompleteKeepsFuture
  <1>2. CASE pc'[j] # "done" /\ pc[j] # "done" /\ future'[j] = future[j]
    BY <1>0, <1>2 DEF FutureInv
  <1>3. CASE RunBody(j)
    BY <1>0, <1>1, <1>2, <1>3 DEF RunBody, Types
  <1>4. CASE StartAttempt(j)
    BY <1>0, <1>1, <1>2, <1>4 DEF StartAttempt, Types
  <1>5. CASE AcquireBackend(j) \/ HandlerReturn(j) \/ HandlerRelease(j) \/ ContextEnds(j) \/ SleepEnds(j)
    BY <1>0, <1>2, <1>5 DEF AcquireBackend, HandlerReturn, HandlerRelease, ContextEnds, SleepEnds, Types
  <1>6. CASE CompleteWithoutRetry(j) \/ CompleteSuccess(j) \/ SleepCancelled(j)
    BY <1>0, <1>1, <1>6 DEF CompleteWithoutRetry, CompleteSuccess, SleepCancelled
  <1>7. CASE DecideAfterFailure(j)
    <2>1. pc[j] = "returned" /\ (Stops(j) \/ Refused(j) \/ Sleeps(j))
      BY <1>0, <1>7, DecideCases
    <2>2. CASE Sleeps(j)
      BY <1>0, <1>2, <2>1, <2>2 DEF Sleeps, Types
    <2>3. CASE Stops(j) \/ Refused(j)
      BY <1>0, <1>1, <2>3 DEF Stops, Refused
    <2> QED
      BY <2>1, <2>2, <2>3
  <1> QED
    BY <1>3, <1>4, <1>5, <1>6, <1>7 DEF Step, JobStep
LEMMA StepAttempt ==
  ASSUME RetryInv, NEW j \in Jobs, Step(j)
  PROVE  AttemptInv(j)'
  <1>0. Types /\ AttemptInv(j)
    BY DEF RetryInv, JobInv
  <1>1. Cfg(j)' = Cfg(j) /\ Policy(j)' = Policy(j)
    BY <1>0, OthersSame, ConfigFixed
  <1>2. Policy(j).enabled => Policy(j).maxAttempts \in Nat /\ Policy(j).maxAttempts >= 1
    BY <1>0, PolicyShape
  <1>3. CASE attempt'[j] = attempt[j] /\ pc'[j] # "sleep" /\ (pc'[j] = "loop" => Policy(j).enabled)
    BY <1>0, <1>1, <1>3 DEF AttemptInv, Forbidden
  <1>4. CASE attempt'[j] = attempt[j] /\ pc'[j] = pc[j]
    BY <1>0, <1>1, <1>4 DEF AttemptInv, Forbidden
  <1>5. CASE RunBody(j)
    BY <1>0, <1>3, <1>5 DEF RunBody, Complete, Types
  <1>6. CASE StartAttempt(j)
    BY <1>0, <1>3, <1>6 DEF StartAttempt, Complete, Types
  <1>7. CASE AcquireBackend(j) \/ HandlerReturn(j)
    BY <1>0, <1>3, <1>7 DEF AcquireBackend, HandlerReturn, Types
  <1>8. CASE HandlerRelease(j) \/ ContextEnds(j)
    BY <1>0, <1>4, <1>8 DEF HandlerRelease, ContextEnds
  <1>9. CASE CompleteWithoutRetry(j) \/ CompleteSuccess(j) \/ SleepCancelled(j)
    BY <1>0, <1>3, <1>9 DEF CompleteWithoutRetry, CompleteSuccess, SleepCancelled, Complete, Types
  <1>10. CASE SleepEnds(j)
    <2>1. /\ pc[j] = "sleep" /\ pc'[j] = "loop" /\ attempt'[j] = attempt[j] + 1 /\ attempt[j] \in Nat
      BY <1>0, <1>10 DEF SleepEnds, Types
    <2>2. Policy(j).enabled /\ attempt[j] < Policy(j).maxAttempts /\ ~Forbidden(Cfg(j).idem) /\ attempt[j] >= 1
      BY <1>0, <2>1 DEF AttemptInv
    <2> QED
      BY <1>1, <1>2, <2>1, <2>2 DEF AttemptInv, Forbidden
  <1>11. CASE DecideAfterFailure(j)
    <2>1. UNCHANGED attempt /\ Policy(j).enabled /\ (Stops(j) \/ Refused(j) \/ Sleeps(j))
      BY <1>0, <1>11, DecideCases
    <2>2. CASE Stops(j) \/ Refused(j)
      <3>1. pc'[j] = "done"
        BY <1>0, <2>2 DEF Stops, Refused, Complete, Types
      <3> QED
        BY <1>3, <2>1, <3>1
    <2>3. CASE Sleeps(j)
      <3>1. pc'[j] = "sleep" /\ attempt[j] < Policy(j).maxAttempts /\ ~Forbidden(Cfg(j).idem)
        BY <1>0, <2>3 DEF Sleeps, Types
      <3> QED
        BY <1>0, <1>1, <2>1, <3>1 DEF AttemptInv, Forbidden
    <2> QED
      BY <2>1, <2>2, <2>3
  <1> QED
    BY <1>5, <1>6, <1>7, <1>8, <1>9, <1>10, <1>11 DEF Step, JobStep

LEMMA StepLease ==
  ASSUME RetryInv, NEW j \in Jobs, Step(j)
  PROVE  LeaseInv(j)'
  <1>0. Types /\ LeaseInv(j)
    BY DEF RetryInv, JobInv
  <1>1. CASE RunBody(j) \/ StartAttempt(j) \/ ContextEnds(j)
    BY <1>0, <1>1 DEF RunBody, StartAttempt, ContextEnds, LeaseInv
  <1>2. CASE AcquireBackend(j)
    BY <1>0, <1>2 DEF AcquireBackend, LeaseInv, Types
  <1>3. CASE HandlerReturn(j) \/ HandlerRelease(j)
    BY <1>0, <1>3 DEF HandlerReturn, HandlerRelease, Release, LeaseInv, Types
  <1>4. CASE CompleteWithoutRetry(j) \/ CompleteSuccess(j) \/ SleepCancelled(j) \/ SleepEnds(j)
    BY <1>0, <1>4 DEF CompleteWithoutRetry, CompleteSuccess, SleepCancelled, SleepEnds, LeaseInv, Types
  <1>5. CASE DecideAfterFailure(j)
    BY <1>0, <1>5, DecideCases DEF LeaseInv
  <1> QED
    BY <1>1, <1>2, <1>3, <1>4, <1>5 DEF Step, JobStep

\* Appending a record to a trace, as far as TraceInv looks at it.
LEMMA AppendRecord ==
  ASSUME Types, NEW j \in Jobs, NEW r \in TraceRecords, trace' = [trace EXCEPT ![j] = Append(@, r)]
  PROVE  /\ Len(trace[j]) \in Nat /\ Len(trace'[j]) = Len(trace[j]) + 1
         /\ \A i \in 1..Len(trace[j]) : trace'[j][i] = trace[j][i]
         /\ trace'[j][Len(trace[j]) + 1] = r
  <1>1. trace[j] \in Seq(TraceRecords) /\ trace'[j] = Append(trace[j], r)
    BY DEF Types
  <1> QED
    BY <1>1

LEMMA StepTrace ==
  ASSUME RetryInv, NEW j \in Jobs, Step(j)
  PROVE  TraceInv(j)'
  <1>0. Types /\ TraceInv(j) /\ AttemptInv(j) /\ attempt[j] \in Nat /\ Len(trace[j]) \in Nat
    BY DEF RetryInv, JobInv, Types
  <1>1. Cfg(j)' = Cfg(j) /\ Policy(j)' = Policy(j)
    BY <1>0, OthersSame, ConfigFixed
  <1>2. Policy(j).enabled => Policy(j).maxAttempts \in Nat
    BY <1>0, PolicyShape
  <1> DEFINE Going == {"queued", "loop", "acquire", "run", "returned"}
  <1>3. ASSUME pc[j] # "done" PROVE \A i \in 1..Len(trace[j]) : ~trace[j][i].refused
    BY <1>0, <1>3 DEF TraceInv
  \* Nothing is refused yet and the trace does not move.
  <1>4. ASSUME pc[j] # "done", trace'[j] = trace[j], pc'[j] \in Going => Len(trace[j]) = attempt'[j] - 1,
               pc'[j] # "sleep",
               pc'[j] = "done" /\ Policy(j).enabled => future'[j].final.stopped # "max_attempts"
        PROVE  TraceInv(j)'
    BY <1>1, <1>3, <1>4 DEF TraceInv
  <1>5. ASSUME pc[j] # "done", UNCHANGED <<trace, attempt>>, pc[j] \in Going, pc'[j] \in Going
        PROVE  TraceInv(j)'
    BY <1>0, <1>4, <1>5 DEF TraceInv
  <1>6. ASSUME UNCHANGED <<trace, attempt, pc, future>>
        PROVE  TraceInv(j)'
    BY <1>0, <1>1, <1>6 DEF TraceInv
  <1>7. ASSUME NEW e, NEW before, NEW final, Complete(j, e, before, final), pc[j] # "done",
               Policy(j).enabled => final.stopped # "max_attempts", UNCHANGED <<trace, attempt>>
        PROVE  TraceInv(j)'
    <2>1. pc'[j] = "done" /\ future'[j].final = final
      BY <1>0, <1>7 DEF Complete, Completed, Types
    <2> QED
      BY <1>4, <1>7, <2>1
  <1>8. /\ NoFinal.stopped = "untracked" /\ Succeeded.stopped = "none"
        /\ \A s : finalStateFromFailure("context_cancelled", s, "").stopped = "context_cancelled"
    BY DEF NoFinal, Succeeded, finalStateFromFailure
  <1>9. CASE RunBody(j)
    <2>1. CASE ctx[j] # "nil"
      BY <1>7, <1>8, <1>9, <2>1 DEF RunBody
    <2>2. CASE ctx[j] = "nil"
      BY <1>0, <1>5, <1>9, <2>2 DEF RunBody, Types
    <2> QED
      BY <2>1, <2>2
  <1>10. CASE StartAttempt(j)
    <2>1. CASE ctx[j] # "nil"
      BY <1>7, <1>8, <1>10, <2>1 DEF StartAttempt
    <2>2. CASE ctx[j] = "nil"
      BY <1>0, <1>5, <1>10, <2>2 DEF StartAttempt, Types
    <2> QED
      BY <2>1, <2>2
  <1>11. CASE AcquireBackend(j) \/ HandlerReturn(j)
    BY <1>0, <1>5, <1>11 DEF AcquireBackend, HandlerReturn, Types
  <1>12. CASE HandlerRelease(j) \/ ContextEnds(j)
    BY <1>6, <1>12 DEF HandlerRelease, ContextEnds
  <1>13. CASE CompleteWithoutRetry(j)
    BY <1>7, <1>8, <1>13 DEF CompleteWithoutRetry
  <1>14. CASE CompleteSuccess(j)
    BY <1>7, <1>8, <1>14 DEF CompleteSuccess
  <1>15. CASE SleepCancelled(j)
    BY <1>7, <1>8, <1>15 DEF SleepCancelled
  <1>16. CASE SleepEnds(j)
    <2>1. pc[j] = "sleep" /\ pc'[j] = "loop" /\ attempt'[j] = attempt[j] + 1 /\ trace'[j] = trace[j]
      BY <1>0, <1>16 DEF SleepEnds, Types
    <2> QED
      BY <1>0, <1>4, <2>1 DEF TraceInv
  <1>17. CASE DecideAfterFailure(j)
    <2>1. /\ UNCHANGED attempt /\ pc[j] = "returned" /\ Policy(j).enabled /\ err[j] # NoError /\ err[j] \in Errors
          /\ Stops(j) \/ Refused(j) \/ Sleeps(j)
      BY <1>0, <1>17, DecideCases DEF Types
    <2>2. Len(trace[j]) = attempt[j] - 1 /\ attempt[j] <= Policy(j).maxAttempts
      BY <1>0, <2>1 DEF TraceInv, AttemptInv
    <2>3. CASE Stops(j)
      <3>1. pc'[j] = "done" /\ trace'[j] = trace[j]
            /\ (future'[j].final.stopped = "max_attempts" => attempt[j] >= Policy(j).maxAttempts)
        BY <1>0, <2>3 DEF Stops, Complete, Completed, Types
      <3> QED
        BY <1>0, <1>1, <1>2, <1>3, <2>1, <2>2, <3>1 DEF TraceInv
    <2>4. CASE Refused(j)
      <3>1. PICK r \in TraceRecords : trace' = [trace EXCEPT ![j] = Append(@, r)]
        BY <2>4 DEF Refused
      <3>2. PICK final : Complete(j, err[j], FALSE, final) /\ final.stopped = "retryable_failure"
                         /\ classifyFailureWithPolicy(err[j]).kind # "none"
        BY <2>4 DEF Refused
      <3>3. /\ pc'[j] = "done" /\ future'[j].final = final
            /\ future'[j].failure = classifyCompletionFailure(err[j], IsExhaustedAt(Cfg(j).budget, now), FALSE)
        BY <1>0, <3>2 DEF Complete, Completed, Types
      <3>4. future'[j].failure.kind # "none"
        BY <2>1, <3>2, <3>3, CompletionKind
      <3>5. /\ Len(trace'[j]) = Len(trace[j]) + 1
            /\ \A i \in 1..Len(trace[j]) : trace'[j][i] = trace[j][i]
        BY <1>0, <3>1, AppendRecord
      <3>6. ASSUME NEW i \in 1..Len(trace'[j]), trace'[j][i].refused
            PROVE  i = Len(trace'[j]) /\ attempt'[j] = i
        <4>1. i \in Int /\ i \notin 1..Len(trace[j]) /\ 1 <= i /\ i <= Len(trace[j]) + 1
          BY <1>0, <1>3, <2>1, <3>5, <3>6
        <4> QED
          BY <1>0, <2>1, <2>2, <3>5, <4>1
      <3> QED
        BY <3>2, <3>3, <3>4, <3>6 DEF TraceInv
    <2>5. CASE Sleeps(j)
      <3>1. PICK r \in TraceRecords : ~r.refused /\ trace' = [trace EXCEPT ![j] = Append(@, r)]
        BY <2>5 DEF Sleeps
      <3>2. pc'[j] = "sleep"
        BY <1>0, <2>5 DEF Sleeps, Types
      <3>3. /\ Len(trace'[j]) = Len(trace[j]) + 1
            /\ \A i \in 1..Len(trace[j]) : trace'[j][i] = trace[j][i]
            /\ trace'[j][Len(trace[j]) + 1] = r
        BY <1>0, <3>1, AppendRecord
      <3>4. ASSUME NEW i \in 1..Len(trace'[j]) PROVE ~trace'[j][i].refused
        <4>1. i \in 1..Len(trace[j]) \/ i = Len(trace[j]) + 1
          BY <1>0, <3>3
        <4> QED
          BY <1>3, <2>1, <3>1, <3>3, <4>1
      <3>5. Len(trace'[j]) = attempt'[j]
        BY <1>0, <2>1, <2>2, <3>3
      <3> QED
        BY <3>2, <3>4, <3>5 DEF TraceInv
    <2> QED
      BY <2>1, <2>3, <2>4, <2>5
  <1> QED
    BY <1>9, <1>10, <1>11, <1>12, <1>13, <1>14, <1>15, <1>16, <1>17 DEF Step, JobStep

LEMMA RetryInvNext ==
  ASSUME RetryInv, [Next]_vars
  PROVE  RetryInv'
  <1>1. ASSUME NEW j \in Jobs, Step(j)
        PROVE  RetryInv'
    <2>1. Types'
      BY <1>1, StepTypes DEF RetryInv
    <2>2. JobInv(j)'
      BY <1>1, StepFuture, StepAttempt, StepLease, StepTrace DEF JobInv
    <2>3. ASSUME NEW k \in Jobs \ {j} PROVE JobInv(k)'
      BY <1>1, OthersSame, SameKeeps DEF RetryInv
    <2> QED
      BY <2>1, <2>2, <2>3 DEF RetryInv
  <1>2. ASSUME UNCHANGED <<req, ctx, pc, attempt, startedAt, wakeAt, lease, inflight, err, trace, future, counters>>,
               now' \in Nat
        PROVE  RetryInv'
    <2>1. Types'
      BY <1>2 DEF RetryInv, Types
    <2>2. ASSUME NEW k \in Jobs PROVE JobInv(k)'
      BY <1>2, SameKeeps DEF RetryInv, Same
    <2> QED
      BY <2>1, <2>2 DEF RetryInv
  <1>3. CASE Tick
    BY <1>2, <1>3 DEF Tick, RetryInv, Types
  <1>4. CASE UNCHANGED vars
    BY <1>2, <1>4 DEF vars, RetryInv, Types
  <1> QED
    BY <1>1, <1>3, <1>4 DEF Next, Step

LEMMA RetryInvariant == Spec => []RetryInv
  <1>1. RetryInv /\ [Next]_vars => RetryInv'
    BY RetryInvNext
  <1> QED
    BY <1>1, RetryInvInit, PTL DEF Spec

\* The types of every variable, and attempts within MaxAttempts: the loop of runWithRetry never starts
\* an attempt DecideRetry should have refused.
THEOREM Typed == Spec => []TypeOK
  <1>1. ASSUME RetryInv PROVE TypeOK
    <2>1. Types
      BY <1>1 DEF RetryInv
    <2>2. ASSUME NEW j \in Jobs
          PROVE  attempt[j] \in 1..(IF Policy(j).enabled THEN Policy(j).maxAttempts ELSE 1)
      <3>1. AttemptInv(j) /\ attempt[j] \in Nat
        BY <1>1, <2>1 DEF RetryInv, JobInv, Types
      <3>2. Policy(j).enabled => Policy(j).maxAttempts \in Nat
        BY <2>1, PolicyShape
      <3> QED
        BY <3>1, <3>2 DEF AttemptInv
    <2>3. ASSUME NEW j \in Jobs PROVE err[j] = NoError \/ err[j].class \in ErrorClasses
      <3>1. err[j] \in Errors
        BY <2>1 DEF Types
      <3> QED
        BY <3>1, ErrorShape
    <2>4. ASSUME NEW j \in Jobs PROVE future[j] = Pending \/ future[j].failure.kind \in FailureKinds
      BY <1>1 DEF RetryInv, JobInv, FutureInv
    <2> QED
      BY <2>1, <2>2, <2>3, <2>4 DEF TypeOK, Types
  <1> QED
    BY <1>1, RetryInvariant, PTL

\* A backend lease is held only while its handler runs: WithBackend's deferred Release leaves none to
\* a sleeping, finished or cancelled job.
THEOREM LeaseOnlyWhileRunning == Spec => []NoLeaseWhileIdle
  <1>1. RetryInv => NoLeaseWhileIdle
    BY DEF RetryInv, JobInv, LeaseInv, NoLeaseWhileIdle
  <1> QED
    BY <1>1, RetryInvariant, PTL

\* A handler that must not be duplicated is run once, whatever fails: DecideRetrySafety guards every
\* way from a failure to a second attempt.
THEOREM UnsafeRunsOnce == Spec => []NoUnsafeDuplicate
  <1>1. RetryInv => NoUnsafeDuplicate
    BY DEF RetryInv, JobInv, AttemptInv, Forbidden, NoUnsafeDuplicate
  <1> QED
    BY <1>1, RetryInvariant, PTL

\* A retry that was suppressed or refused as unsafe is the last record of its trace, its attempt never
\* starts, and the future keeps a failure.
THEOREM SuppressionIsFinal == Spec => []SuppressedIsFinal
  <1>1. ASSUME RetryInv PROVE SuppressedIsFinal
    <2>1. ASSUME NEW j \in Jobs, NEW i \in DOMAIN trace[j], trace[j][i].refused
          PROVE  /\ i = Len(trace[j]) /\ attempt[j] = i
                 /\ future[j].done /\ future[j].failure.kind # "none"
      <3>1. DOMAIN trace[j] = 1..Len(trace[j])
        BY <1>1 DEF RetryInv, Types
      <3>2. i = Len(trace[j]) /\ attempt[j] = i /\ pc[j] = "done" /\ future[j].failure.kind # "none"
        BY <1>1, <2>1, <3>1 DEF RetryInv, JobInv, TraceInv
      <3> QED
        BY <1>1, <3>2 DEF RetryInv, JobInv, FutureInv
    <2> QED
      BY <2>1 DEF SuppressedIsFinal
  <1> QED
    BY <1>1, RetryInvariant, PTL

-----------------------------------------------------------------------------
(* The ledger of leases. *)

\* Two finite sets that differ in one element at most.
LEMMA CardChange ==
  ASSUME NEW A, NEW B, NEW j, IsFiniteSet(A), A \ {j} = B \ {j}
  PROVE  /\ IsFiniteSet(B) /\ Cardinality(A) \in Nat /\ Cardinality(B) \in Nat
         /\ (j \in A <=> j \in B) => B = A /\ Cardinality(B) = Cardinality(A)
         /\ j \notin A /\ j \in B => Cardinality(B) = Cardinality(A) + 1
         /\ j \in A /\ j \notin B => Cardinality(B) = Cardinality(A) - 1
  <1>1. Cardinality(A) \in Nat
    BY FS_CardinalityType
  <1>2. CASE j \in A <=> j \in B
    <2>1. A = B
      BY <1>2
    <2> QED
      BY <1>1, <1>2, <2>1
  <1>3. CASE j \notin A /\ j \in B
    <2>1. B = A \cup {j}
      BY <1>3
    <2>2. IsFiniteSet(B) /\ Cardinality(B) = Cardinality(A) + 1
      BY <1>3, <2>1, FS_AddElement
    <2> QED
      BY <1>1, <1>3, <2>2
  <1>4. CASE j \in A /\ j \notin B
    <2>1. B = A \ {j}
      BY <1>4
    <2>2. IsFiniteSet(B) /\ Cardinality(B) = Cardinality(A) - 1
      BY <1>4, <2>1, FS_RemoveElement
    <2> QED
      BY <1>1, <1>4, <2>2, FS_CardinalityType
  <1> QED
    BY <1>2, <1>3, <1>4

Holders(l) == {j \in Jobs : lease[j] = "held" /\ Cfg(j).lane = l}

LEMMA HoldersFinite == \A l : IsFiniteSet(Holders(l))
  <1>1. ASSUME NEW l PROVE IsFiniteSet(Holders(l))
    <2>1. Holders(l) \subseteq Jobs
      BY DEF Holders
    <2> QED
      BY <2>1, FS_Subset, RetryLoopAssumption
  <1> QED
    BY <1>1

\* A lease is taken by AcquireBackend and given back by Release, and only there.
LEMMA LeaseMoves ==
  ASSUME RetryInv, NEW j \in Jobs, Step(j)
  PROVE  LET lane == Cfg(j).lane IN
         \/ inflight' = inflight /\ (lease'[j] = "held" <=> lease[j] = "held")
         \/ /\ lease[j] # "held" /\ lease'[j] = "held" /\ lane \in DOMAIN MaxInFlight
            /\ inflight[lane] < MaxInFlight[lane]
            /\ inflight' = [inflight EXCEPT ![lane] = @ + 1]
         \/ /\ lease[j] = "held" /\ lease'[j] = "released"
            /\ inflight' = IF inflight[lane] > 0 THEN [inflight EXCEPT ![lane] = @ - 1] ELSE inflight
  <1>0. Types /\ LeaseInv(j) /\ pc[j] \in {"queued", "loop", "acquire", "run", "returned", "sleep", "done"}
    BY DEF RetryInv, JobInv, Types
  <1>1. CASE RunBody(j) \/ StartAttempt(j) \/ ContextEnds(j) \/ CompleteWithoutRetry(j) \/ CompleteSuccess(j)
             \/ SleepCancelled(j)
    BY <1>1 DEF RunBody, StartAttempt, ContextEnds, CompleteWithoutRetry, CompleteSuccess, SleepCancelled
  <1>2. CASE AcquireBackend(j)
    <2>1. CASE AcquireError(j) # "nil"
      BY <1>2, <2>1 DEF AcquireBackend
    <2>2. CASE AcquireError(j) = "nil"
      <3>1. lease[j] # "held" /\ lease'[j] = IF BackendEnabled THEN "held" ELSE "noop"
        BY <1>0, <1>2, <2>2 DEF AcquireBackend, LeaseInv, Types
      <3>2. CASE ~BackendEnabled
        BY <1>2, <2>2, <3>1, <3>2 DEF AcquireBackend
      <3>3. CASE BackendEnabled
        <4>1. /\ Cfg(j).lane \in DOMAIN MaxInFlight /\ ~(inflight[Cfg(j).lane] >= MaxInFlight[Cfg(j).lane])
          BY <1>0, <2>2, <3>3 DEF AcquireError, Types
        <4>2. inflight[Cfg(j).lane] \in Nat /\ MaxInFlight[Cfg(j).lane] \in Nat
          BY <1>0, <4>1, RetryLoopAssumption DEF Types
        <4> QED
          BY <1>2, <2>2, <3>1, <3>3, <4>1, <4>2 DEF AcquireBackend
      <3> QED
        BY <3>2, <3>3
    <2> QED
      BY <2>1, <2>2
  <1>3. CASE HandlerReturn(j) \/ HandlerRelease(j)
    <2>1. Release(j)
      BY <1>3 DEF HandlerReturn, HandlerRelease
    <2> QED
      BY <1>0, <2>1 DEF Release, Types
  <1>4. CASE SleepEnds(j)
    BY <1>0, <1>4 DEF SleepEnds, LeaseInv, Types
  <1>5. CASE DecideAfterFailure(j)
    BY <1>0, <1>5, DecideCases
  <1> QED
    BY <1>1, <1>2, <1>3, <1>4, <1>5 DEF Step, JobStep

Ledger(l) == inflight[l] = Cardinality(Holders(l)) /\ inflight[l] <= MaxInFlight[l]

LEMMA LedgerStep ==
  ASSUME RetryInv, NEW j \in Jobs, Step(j), NEW l \in DOMAIN MaxInFlight, Ledger(l)
  PROVE  Ledger(l)'
  <1>0. Types /\ inflight[l] \in Nat /\ MaxInFlight[l] \in Nat /\ DOMAIN inflight = DOMAIN MaxInFlight
    BY RetryLoopAssumption DEF RetryInv, Types
  <1>1. UNCHANGED req /\ \A k \in Jobs \ {j} : Same(k)
    BY <1>0, OthersSame
  <1>2. \A k \in Jobs : Cfg(k)' = Cfg(k)
    BY <1>1, ConfigFixed
  <1>3. Holders(l) \ {j} = Holders(l)' \ {j}
    BY <1>1, <1>2 DEF Holders, Same
  <1>4. IsFiniteSet(Holders(l))
    BY HoldersFinite
  <1> DEFINE A == Holders(l)
             B == Holders(l)'
  <1>5. /\ IsFiniteSet(B) /\ Cardinality(A) \in Nat /\ Cardinality(B) \in Nat
        /\ (j \in A <=> j \in B) => Cardinality(B) = Cardinality(A)
        /\ j \notin A /\ j \in B => Cardinality(B) = Cardinality(A) + 1
        /\ j \in A /\ j \notin B => Cardinality(B) = Cardinality(A) - 1
    <2> HIDE DEF A, B
    <2> QED
      BY <1>3, <1>4, CardChange DEF A, B
  <1>6. /\ j \in A <=> (lease[j] = "held" /\ Cfg(j).lane = l)
        /\ j \in B <=> (lease'[j] = "held" /\ Cfg(j).lane = l)
    BY <1>2 DEF Holders
  <1>7. inflight[l] = Cardinality(A) /\ inflight[l] <= MaxInFlight[l]
    BY DEF Ledger
  <1> HIDE DEF A, B
  <1>8. inflight'[l] = Cardinality(B) /\ inflight'[l] <= MaxInFlight[l]
    <2>1. CASE inflight' = inflight /\ (lease'[j] = "held" <=> lease[j] = "held")
      BY <1>0, <1>5, <1>6, <1>7, <2>1
    <2>2. CASE /\ lease[j] # "held" /\ lease'[j] = "held"
               /\ inflight[Cfg(j).lane] < MaxInFlight[Cfg(j).lane]
               /\ inflight' = [inflight EXCEPT ![Cfg(j).lane] = @ + 1]
      BY <1>0, <1>5, <1>6, <1>7, <2>2
    <2>3. CASE /\ lease[j] = "held" /\ lease'[j] = "released"
               /\ inflight' = IF inflight[Cfg(j).lane] > 0 THEN [inflight EXCEPT ![Cfg(j).lane] = @ - 1] ELSE inflight
      <3>1. CASE Cfg(j).lane = l
        <4>1. j \in A /\ j \notin B
          BY <1>6, <2>3, <3>1
        <4>2. Cardinality(A) > 0
          BY <1>5, <4>1
        <4> QED
          BY <1>0, <1>5, <1>7, <2>3, <3>1, <4>1, <4>2
      <3>2. CASE Cfg(j).lane # l
        BY <1>0, <1>5, <1>6, <1>7, <2>3, <3>2
      <3> QED
        BY <3>1, <3>2
    <2> QED
      BY <2>1, <2>2, <2>3, LeaseMoves
  <1> QED
    BY <1>8 DEF Ledger, B

\* A backend lane's in-flight count is the number of leases not given back and never passes
\* MaxInFlight: across retries, early and repeated Release calls and failed attempts.
THEOREM LeaseAccounting == Spec => []LeaseLedger
  <1>1. Init => LeaseLedger
    <2>1. ASSUME Init, NEW l \in DOMAIN MaxInFlight
          PROVE  /\ inflight[l] = Cardinality({j \in Jobs : lease[j] = "held" /\ Cfg(j).lane = l})
                 /\ inflight[l] <= MaxInFlight[l]
      <3>1. {j \in Jobs : lease[j] = "held" /\ Cfg(j).lane = l} = {} /\ inflight[l] = 0 /\ MaxInFlight[l] \in Nat
        BY <2>1, RetryLoopAssumption DEF Init
      <3> QED
        BY <3>1, FS_EmptySet
    <2> QED
      BY <2>1 DEF LeaseLedger
  <1>2. LeaseLedger <=> \A l \in DOMAIN MaxInFlight : Ledger(l)
    BY DEF LeaseLedger, Ledger, Holders
  <1>3. ASSUME RetryInv, LeaseLedger, [Next]_vars PROVE LeaseLedger'
    <2>1. ASSUME NEW j \in Jobs, Step(j) PROVE \A l \in DOMAIN MaxInFlight : Ledger(l)'
      BY <1>2, <1>3, <2>1, LedgerStep
    <2>2. CASE \E j \in Jobs : Step(j)
      BY <2>1, <2>2 DEF LeaseLedger, Ledger, Holders
    <2>3. CASE Tick \/ UNCHANGED vars
      BY <1>3, <2>3 DEF Tick, vars, LeaseLedger, Cfg
    <2> QED
      BY <1>3, <2>2, <2>3 DEF Next, Step
  <1> QED
    BY <1>1, <1>3, RetryInvariant, PTL DEF Spec

-----------------------------------------------------------------------------
(* The ledger of the counters. *)

\* The jobs that may still start an attempt, the ones inside an attempt and the ones without retry
\* that have not ended: who accounts for the next count of an attempt or a failure.
Waiting == {j \in Retrying : pc[j] \in {"queued", "loop", "sleep"}}
Attempting == {j \in Retrying : pc[j] \in {"acquire", "run", "returned"}}
Single == {j \in Jobs \ Retrying : pc[j] # "done"}
Cancelled == Stopped("context_cancelled")
Exhausted == Stopped("max_attempts")

\* The four ways a step of a job moves the ledger.
Quiet(j) ==
  /\ UNCHANGED <<counters, trace>>
  /\ j \in Waiting' => j \in Waiting
  /\ j \in Attempting' => j \in Attempting
  /\ j \in Single' => j \in Single
  /\ j \in Cancelled' <=> j \in Cancelled
  /\ j \in Exhausted' <=> j \in Exhausted

Starts(j) ==
  /\ UNCHANGED trace /\ Count({"attempts"})
  /\ j \in Waiting /\ j \notin Waiting' /\ j \notin Attempting /\ j \in Attempting'
  /\ j \notin Single /\ j \notin Single'
  /\ j \in Cancelled' <=> j \in Cancelled
  /\ j \in Exhausted' <=> j \in Exhausted

Ends(j) == \E names :
  /\ Count(names)
  /\ "attempts" \notin names /\ "scheduled" \notin names
  /\ j \notin Waiting' /\ j \notin Attempting' /\ j \notin Single'
  /\ j \notin Cancelled /\ j \notin Exhausted
  /\ "failures" \in names => (j \in Attempting /\ j \notin Single) \/ (j \in Single /\ j \notin Attempting) \/ j \in Cancelled'
  /\ "exhausted" \in names <=> j \in Exhausted'
  /\ \/ UNCHANGED trace /\ "suppressed" \notin names /\ "safety_suppressed" \notin names
     \/ /\ \E r \in TraceRecords : trace' = [trace EXCEPT ![j] = Append(@, r)]
        /\ "suppressed" \in names <=> "safety_suppressed" \notin names

Backs(j) == \E names :
  /\ Count(names)
  /\ "attempts" \notin names /\ "scheduled" \in names /\ "exhausted" \notin names
  /\ "suppressed" \notin names /\ "safety_suppressed" \notin names
  /\ j \in Attempting /\ j \notin Attempting' /\ j \notin Waiting /\ j \in Waiting'
  /\ j \notin Single /\ j \notin Single'
  /\ j \in Cancelled' <=> j \in Cancelled
  /\ j \in Exhausted' <=> j \in Exhausted
  /\ \E r \in TraceRecords : trace' = [trace EXCEPT ![j] = Append(@, r)]

\* Membership in the groups, in terms of the job's own state.
LEMMA Groups ==
  ASSUME RetryInv, NEW j \in Jobs
  PROVE  /\ j \in Retrying <=> Policy(j).enabled
         /\ j \in Waiting <=> Policy(j).enabled /\ pc[j] \in {"queued", "loop", "sleep"}
         /\ j \in Attempting <=> Policy(j).enabled /\ pc[j] \in {"acquire", "run", "returned"}
         /\ j \in Single <=> ~Policy(j).enabled /\ pc[j] # "done"
         /\ j \in Cancelled <=> Policy(j).enabled /\ pc[j] = "done" /\ future[j].final.stopped = "context_cancelled"
         /\ j \in Exhausted <=> Policy(j).enabled /\ pc[j] = "done" /\ future[j].final.stopped = "max_attempts"
  <1>1. pc[j] = "done" <=> future[j].done
    BY DEF RetryInv, JobInv, FutureInv, Pending
  <1> QED
    BY <1>1 DEF Retrying, Waiting, Attempting, Single, Cancelled, Exhausted, Stopped

LEMMA FailuresOnly == \A k : FailureCounters(k) \subseteq {"failures"}
  BY DEF FailureCounters

LEMMA CountNone == ASSUME Types, UNCHANGED counters PROVE Count({})
  BY DEF Types, Count

LEMMA LedgerMoves ==
  ASSUME RetryInv, NEW j \in Jobs, Step(j)
  PROVE  Quiet(j) \/ Starts(j) \/ Ends(j) \/ Backs(j)
  <1>0. Types /\ RetryInv' /\ (pc[j] \in {"loop", "sleep"} => Policy(j).enabled) /\ Policy(j).enabled \in BOOLEAN
    <2>1. [Next]_vars
      BY DEF Step, Next
    <2>2. Types /\ AttemptInv(j)
      BY DEF RetryInv, JobInv
    <2> QED
      BY <2>1, <2>2, RetryInvNext, PolicyShape DEF AttemptInv
  <1>1. Policy(j)' = Policy(j)
    BY <1>0, OthersSame, ConfigFixed
  <1>2. /\ j \in Waiting <=> Policy(j).enabled /\ pc[j] \in {"queued", "loop", "sleep"}
        /\ j \in Attempting <=> Policy(j).enabled /\ pc[j] \in {"acquire", "run", "returned"}
        /\ j \in Single <=> ~Policy(j).enabled /\ pc[j] # "done"
        /\ j \in Cancelled <=> Policy(j).enabled /\ pc[j] = "done" /\ future[j].final.stopped = "context_cancelled"
        /\ j \in Exhausted <=> Policy(j).enabled /\ pc[j] = "done" /\ future[j].final.stopped = "max_attempts"
    BY Groups
  <1>3. /\ j \in Waiting' <=> Policy(j).enabled /\ pc'[j] \in {"queued", "loop", "sleep"}
        /\ j \in Attempting' <=> Policy(j).enabled /\ pc'[j] \in {"acquire", "run", "returned"}
        /\ j \in Single' <=> ~Policy(j).enabled /\ pc'[j] # "done"
        /\ j \in Cancelled' <=> Policy(j).enabled /\ pc'[j] = "done" /\ future'[j].final.stopped = "context_cancelled"
        /\ j \in Exhausted' <=> Policy(j).enabled /\ pc'[j] = "done" /\ future'[j].final.stopped = "max_attempts"
    <2>1. pc'[j] = "done" <=> future'[j].done
      BY <1>0 DEF RetryInv, JobInv, FutureInv, Pending
    <2> QED
      BY <1>1, <2>1 DEF Retrying, Waiting, Attempting, Single, Cancelled, Exhausted, Stopped
  <1>4. \A e, before, final : Complete(j, e, before, final) => pc'[j] = "done" /\ future'[j].final = final
    BY <1>0 DEF Complete, Completed, Types
  <1>5. /\ NoFinal.stopped = "untracked" /\ Succeeded.stopped = "none"
        /\ \A s : finalStateFromFailure("context_cancelled", s, "").stopped = "context_cancelled"
    BY DEF NoFinal, Succeeded, finalStateFromFailure
  \* A body that completes its future outside DecideAfterFailure.
  <1>6. ASSUME NEW e, NEW before, NEW final, Complete(j, e, before, final), UNCHANGED trace, pc[j] # "done",
               final.stopped # "max_attempts", NEW names, Count(names), names \subseteq {"failures"},
               names = {} \/ (pc[j] = "returned" /\ ~Policy(j).enabled)
                 \/ (final.stopped = "context_cancelled" /\ Policy(j).enabled)
        PROVE  Ends(j)
    <2>1. pc'[j] = "done" /\ future'[j].final = final
      BY <1>4, <1>6
    <2>2. /\ "attempts" \notin names /\ "scheduled" \notin names
          /\ "suppressed" \notin names /\ "safety_suppressed" \notin names /\ "exhausted" \notin names
      BY <1>6
    <2>3. /\ j \notin Waiting' /\ j \notin Attempting' /\ j \notin Single'
          /\ j \notin Cancelled /\ j \notin Exhausted /\ j \notin Exhausted'
      BY <1>2, <1>3, <1>6, <2>1
    <2>4. "failures" \in names => (j \in Single /\ j \notin Attempting) \/ j \in Cancelled'
      BY <1>0, <1>2, <1>3, <1>6, <2>1
    <2> QED
      BY <1>6, <2>2, <2>3, <2>4, Zenon DEF Ends
  <1>7. CASE RunBody(j)
    <2>1. CASE ctx[j] # "nil"
      BY <1>0, <1>5, <1>6, <1>7, <2>1, CountNone DEF RunBody
    <2>2. CASE ctx[j] = "nil"
      <3>1. pc[j] = "queued" /\ pc'[j] = IF Policy(j).enabled THEN "loop" ELSE "acquire"
        BY <1>0, <1>7, <2>2 DEF RunBody, Types
      <3> QED
        BY <1>0, <1>2, <1>3, <1>7, <2>2, <3>1 DEF RunBody, Quiet
    <2> QED
      BY <2>1, <2>2
  <1>8. CASE StartAttempt(j)
    <2>1. CASE ctx[j] # "nil"
      BY <1>0, <1>5, <1>6, <1>8, <2>1, FailuresOnly DEF StartAttempt
    <2>2. CASE ctx[j] = "nil"
      <3>1. pc[j] = "loop" /\ pc'[j] = "acquire" /\ Count({"attempts"}) /\ UNCHANGED <<future, trace>>
        BY <1>0, <1>8, <2>2 DEF StartAttempt, Types
      <3> QED
        BY <1>0, <1>2, <1>3, <3>1 DEF Starts
    <2> QED
      BY <2>1, <2>2
  <1>9. CASE AcquireBackend(j) \/ HandlerReturn(j) \/ HandlerRelease(j) \/ ContextEnds(j)
    <2>1. /\ UNCHANGED <<counters, trace, future>>
          /\ pc'[j] = pc[j] \/ (pc[j] \in {"acquire", "run"} /\ pc'[j] \in {"run", "returned"})
      BY <1>0, <1>9 DEF AcquireBackend, HandlerReturn, HandlerRelease, ContextEnds, Types
    <2> QED
      BY <1>0, <1>2, <1>3, <2>1 DEF Quiet
  <1>10. CASE SleepEnds(j)
    <2>1. /\ UNCHANGED <<counters, trace, future>> /\ pc[j] = "sleep" /\ pc'[j] = "loop"
      BY <1>0, <1>10 DEF SleepEnds, Types
    <2> QED
      BY <1>0, <1>2, <1>3, <2>1 DEF Quiet
  <1>11. CASE CompleteWithoutRetry(j)
    BY <1>5, <1>6, <1>11, FailuresOnly DEF CompleteWithoutRetry
  <1>12. CASE CompleteSuccess(j)
    BY <1>0, <1>5, <1>6, <1>12, CountNone DEF CompleteSuccess
  <1>13. CASE SleepCancelled(j)
    BY <1>0, <1>5, <1>6, <1>13, FailuresOnly DEF SleepCancelled
  <1>14. CASE DecideAfterFailure(j)
    <2>1. pc[j] = "returned" /\ Policy(j).enabled /\ (Stops(j) \/ Refused(j) \/ Sleeps(j))
      BY <1>0, <1>14, DecideCases
    <2>2. /\ j \in Attempting /\ j \notin Waiting /\ j \notin Single /\ j \notin Cancelled /\ j \notin Exhausted
      BY <1>2, <2>1
    <2>3. CASE Stops(j)
      <3>1. PICK final, names :
              /\ Complete(j, err[j], FALSE, final) /\ Count(names)
              /\ names \cap {"scheduled", "suppressed", "safety_suppressed", "attempts"} = {}
              /\ "exhausted" \in names <=> final.stopped = "max_attempts"
        BY <2>3 DEF Stops
      <3>2. pc'[j] = "done" /\ future'[j].final = final
        BY <1>4, <3>1
      <3>3. /\ j \notin Waiting' /\ j \notin Attempting' /\ j \notin Single'
            /\ "exhausted" \in names <=> j \in Exhausted'
        BY <1>3, <2>1, <3>1, <3>2
      <3>4. /\ "attempts" \notin names /\ "scheduled" \notin names
            /\ "suppressed" \notin names /\ "safety_suppressed" \notin names
        BY <3>1
      <3>5. UNCHANGED trace
        BY <2>3 DEF Stops
      <3> QED
        BY <2>2, <3>1, <3>3, <3>4, <3>5, Zenon DEF Ends
    <2>4. CASE Refused(j)
      <3>1. PICK final, names : \E record \in TraceRecords, name \in {"suppressed", "safety_suppressed"} :
              /\ trace' = [trace EXCEPT ![j] = Append(@, record)]
              /\ Complete(j, err[j], FALSE, final) /\ Count(names)
              /\ names \ {"failures"} = {name}
              /\ final.stopped = "retryable_failure"
        BY <2>4 DEF Refused
      <3>2. pc'[j] = "done" /\ future'[j].final = final /\ final.stopped = "retryable_failure" /\ Count(names)
        BY <1>4, <3>1
      <3>3. \E r \in TraceRecords : trace' = [trace EXCEPT ![j] = Append(@, r)]
        BY <3>1
      <3>4. /\ "attempts" \notin names /\ "scheduled" \notin names /\ "exhausted" \notin names
            /\ "suppressed" \in names <=> "safety_suppressed" \notin names
        BY <3>1
      <3>5. /\ j \notin Waiting' /\ j \notin Attempting' /\ j \notin Single' /\ j \notin Exhausted'
        BY <1>3, <2>1, <3>2
      <3> QED
        BY <2>2, <3>2, <3>3, <3>4, <3>5, Zenon DEF Ends
    <2>5. CASE Sleeps(j)
      <3>1. PICK names : \E record \in TraceRecords :
              /\ trace' = [trace EXCEPT ![j] = Append(@, record)]
              /\ pc' = [pc EXCEPT ![j] = "sleep"]
              /\ Count(names) /\ names \ {"failures"} = {"scheduled"}
        BY <2>5 DEF Sleeps
      <3>2. pc'[j] = "sleep" /\ Count(names)
        BY <1>0, <3>1 DEF Types
      <3>3. \E r \in TraceRecords : trace' = [trace EXCEPT ![j] = Append(@, r)]
        BY <3>1
      <3>4. /\ "attempts" \notin names /\ "scheduled" \in names /\ "exhausted" \notin names
            /\ "suppressed" \notin names /\ "safety_suppressed" \notin names
        BY <3>1
      <3>5. /\ j \in Waiting' /\ j \notin Attempting' /\ j \notin Single' /\ j \notin Exhausted' /\ j \notin Cancelled'
        BY <1>3, <2>1, <3>2
      <3> QED
        BY <2>2, <3>2, <3>3, <3>4, <3>5, Zenon DEF Backs
    <2> QED
      BY <2>1, <2>3, <2>4, <2>5
  <1> QED
    BY <1>7, <1>8, <1>9, <1>10, <1>11, <1>12, <1>13, <1>14 DEF Step, JobStep

LedgerInv ==
  /\ IsFiniteSet(Traced)
  /\ counters["scheduled"] + counters["suppressed"] + counters["safety_suppressed"] = Cardinality(Traced)
  /\ counters["exhausted"] = Cardinality(Exhausted)
  /\ counters["attempts"] + Cardinality(Waiting) <= Cardinality(Retrying) + counters["scheduled"]
  /\ counters["failures"] + Cardinality(Attempting) + Cardinality(Single) <=
       counters["attempts"] + Cardinality(Cancelled) + Cardinality(Jobs \ Retrying)

LEMMA GroupsFinite ==
  /\ IsFiniteSet(Retrying) /\ IsFiniteSet(Jobs \ Retrying) /\ IsFiniteSet(Waiting) /\ IsFiniteSet(Attempting)
  /\ IsFiniteSet(Single) /\ IsFiniteSet(Cancelled) /\ IsFiniteSet(Exhausted)
  <1>1. /\ Retrying \subseteq Jobs /\ Jobs \ Retrying \subseteq Jobs /\ Waiting \subseteq Jobs
        /\ Attempting \subseteq Jobs /\ Single \subseteq Jobs
        /\ Cancelled \subseteq Jobs /\ Exhausted \subseteq Jobs
    BY DEF Retrying, Waiting, Attempting, Single, Cancelled, Exhausted, Stopped
  <1>2. \A S : S \subseteq Jobs => IsFiniteSet(S)
    BY FS_Subset, RetryLoopAssumption
  <1> QED
    BY <1>1, <1>2

LEMMA LedgerInit == Init => LedgerInv
  <1> SUFFICES ASSUME Init PROVE LedgerInv
    OBVIOUS
  <1>0. Types /\ \A j \in Jobs : pc[j] = "queued" /\ trace[j] = <<>> /\ future[j] = Pending
    BY RetryInvInit DEF Init, RetryInv
  <1>1. Traced = {} /\ Exhausted = {} /\ Cancelled = {} /\ Attempting = {}
    <2>1. \A j \in Jobs : DOMAIN trace[j] = {}
      BY <1>0
    <2>2. Traced = {}
      BY <2>1 DEF Traced
    <2>3. \A j \in Jobs : future[j].done = FALSE
      BY <1>0 DEF Pending
    <2>4. Retrying \subseteq Jobs
      BY DEF Retrying
    <2> QED
      BY <1>0, <2>2, <2>3, <2>4 DEF Exhausted, Cancelled, Stopped, Attempting
  <1>2. Waiting = Retrying /\ Single = Jobs \ Retrying
    BY <1>0 DEF Waiting, Single, Retrying
  <1>3. \A n \in CounterNames : counters[n] = 0
    BY DEF Init
  <1>4. Cardinality(Retrying) \in Nat /\ Cardinality(Jobs \ Retrying) \in Nat
    BY GroupsFinite, FS_CardinalityType
  <1> QED
    BY <1>1, <1>2, <1>3, <1>4, FS_EmptySet DEF LedgerInv, CounterNames

LEMMA TraceGrows ==
  ASSUME Types, NEW j \in Jobs, NEW r \in TraceRecords, trace' = [trace EXCEPT ![j] = Append(@, r)],
         IsFiniteSet(Traced)
  PROVE  IsFiniteSet(Traced') /\ Cardinality(Traced') = Cardinality(Traced) + 1
  <1>1. /\ DOMAIN trace[j] = 1..Len(trace[j]) /\ Len(trace[j]) \in Nat
        /\ DOMAIN trace'[j] = DOMAIN trace[j] \cup {Len(trace[j]) + 1}
        /\ \A k \in Jobs \ {j} : trace'[k] = trace[k]
    BY DEF Types
  <1> DEFINE new == <<j, Len(trace[j]) + 1>>
  <1>2. \A k, i : <<k, i>> \in Traced <=> k \in Jobs /\ i \in DOMAIN trace[k]
    BY DEF Traced
  <1>3. \A k, i : <<k, i>> \in Traced' <=> k \in Jobs /\ i \in DOMAIN trace'[k]
    BY DEF Traced
  <1>4. /\ \A p \in Traced : \E k, i : p = <<k, i>>
        /\ \A p \in Traced' : \E k, i : p = <<k, i>>
    BY DEF Traced
  <1>5. new \notin Traced
    BY <1>1, <1>2
  <1>6. \A k, i : <<k, i>> \in Traced' <=> <<k, i>> \in Traced \/ <<k, i>> = new
    BY <1>1, <1>2, <1>3
  <1>7. Traced' = Traced \cup {new}
    BY <1>4, <1>6
  <1> QED
    BY <1>5, <1>7, FS_AddElement

LEMMA LedgerStepInv ==
  ASSUME RetryInv, LedgerInv, NEW j \in Jobs, Step(j)
  PROVE  LedgerInv'
  <1>0. Types
    BY DEF RetryInv
  <1>1. UNCHANGED req /\ \A k \in Jobs \ {j} : Same(k)
    BY <1>0, OthersSame
  <1>2. \A k \in Jobs : Policy(k)' = Policy(k)
    BY <1>1, ConfigFixed
  <1>3. Retrying' = Retrying
    BY <1>2 DEF Retrying
  <1>4. /\ Waiting \ {j} = Waiting' \ {j} /\ Attempting \ {j} = Attempting' \ {j} /\ Single \ {j} = Single' \ {j}
        /\ Cancelled \ {j} = Cancelled' \ {j} /\ Exhausted \ {j} = Exhausted' \ {j}
    <2>1. Retrying \subseteq Jobs
      BY DEF Retrying
    <2>2. \A k \in Jobs \ {j} : pc'[k] = pc[k] /\ future'[k] = future[k]
      BY <1>1 DEF Same
    <2>3. Waiting \ {j} = Waiting' \ {j} /\ Attempting \ {j} = Attempting' \ {j} /\ Single \ {j} = Single' \ {j}
      BY <1>3, <2>1, <2>2 DEF Waiting, Attempting, Single
    <2>4. ASSUME NEW reason PROVE Stopped(reason) \ {j} = Stopped(reason)' \ {j}
      BY <1>3, <2>1, <2>2 DEF Stopped
    <2> QED
      BY <2>3, <2>4 DEF Cancelled, Exhausted
  <1> DEFINE w == Cardinality(Waiting)      w1 == Cardinality(Waiting')
             a == Cardinality(Attempting)   a1 == Cardinality(Attempting')
             s == Cardinality(Single)       s1 == Cardinality(Single')
             c == Cardinality(Cancelled)    c1 == Cardinality(Cancelled')
             x == Cardinality(Exhausted)    x1 == Cardinality(Exhausted')
             t == Cardinality(Traced)       t1 == Cardinality(Traced')
             n == Cardinality(Retrying)     m  == Cardinality(Jobs \ Retrying)
             Moves(A, B, k, k1) ==
               /\ k \in Nat /\ k1 \in Nat
               /\ (j \in A <=> j \in B) => k1 = k
               /\ j \notin A /\ j \in B => k1 = k + 1
               /\ j \in A /\ j \notin B => k1 = k - 1
  <1>5. /\ Moves(Waiting, Waiting', w, w1) /\ Moves(Attempting, Attempting', a, a1) /\ Moves(Single, Single', s, s1)
        /\ Moves(Cancelled, Cancelled', c, c1) /\ Moves(Exhausted, Exhausted', x, x1)
    <2>1. ASSUME NEW A, NEW B, IsFiniteSet(A), A \ {j} = B \ {j}
          PROVE  Moves(A, B, Cardinality(A), Cardinality(B))
      BY <2>1, CardChange
    <2> HIDE DEF Moves
    <2> QED
      BY <1>4, <2>1, GroupsFinite
  <1>6. /\ n \in Nat /\ m \in Nat /\ t \in Nat
    BY GroupsFinite, FS_CardinalityType DEF LedgerInv
  <1>7. \A k \in CounterNames : counters[k] \in Nat
    BY <1>0 DEF Types
  <1>8. /\ IsFiniteSet(Traced)
        /\ counters["scheduled"] + counters["suppressed"] + counters["safety_suppressed"] = t
        /\ counters["exhausted"] = x
        /\ counters["attempts"] + w <= n + counters["scheduled"]
        /\ counters["failures"] + a + s <= counters["attempts"] + c + m
    BY DEF LedgerInv
  <1>9. SUFFICES
        /\ IsFiniteSet(Traced')
        /\ counters'["scheduled"] + counters'["suppressed"] + counters'["safety_suppressed"] = t1
        /\ counters'["exhausted"] = x1
        /\ counters'["attempts"] + w1 <= n + counters'["scheduled"]
        /\ counters'["failures"] + a1 + s1 <= counters'["attempts"] + c1 + m
    BY <1>3 DEF LedgerInv
  <1>10. UNCHANGED trace => Traced' = Traced
    BY DEF Traced
  <1>11. ASSUME NEW names, Count(names)
         PROVE  \A k \in CounterNames : counters'[k] = counters[k] + (IF k \in names THEN 1 ELSE 0)
    BY <1>11 DEF Count
  <1>12. (\E r \in TraceRecords : trace' = [trace EXCEPT ![j] = Append(@, r)]) => IsFiniteSet(Traced') /\ t1 = t + 1
    BY <1>0, <1>8, TraceGrows
  <1>13. (UNCHANGED trace) => IsFiniteSet(Traced') /\ t1 = t
    BY <1>8, <1>10
  <1> HIDE DEF w, w1, a, a1, s, s1, c, c1, x, x1, t, t1, n, m
  <1>14. CASE Quiet(j)
    BY <1>5, <1>6, <1>7, <1>8, <1>13, <1>14 DEF Quiet, CounterNames
  <1>15. CASE Starts(j)
    BY <1>5, <1>6, <1>7, <1>8, <1>11, <1>13, <1>15 DEF Starts, CounterNames
  <1>16. CASE Ends(j)
    <2>1. PICK names :
            /\ Count(names)
            /\ "attempts" \notin names /\ "scheduled" \notin names
            /\ j \notin Waiting' /\ j \notin Attempting' /\ j \notin Single'
            /\ j \notin Cancelled /\ j \notin Exhausted
            /\ "failures" \in names => (j \in Attempting /\ j \notin Single) \/ (j \in Single /\ j \notin Attempting) \/ j \in Cancelled'
            /\ "exhausted" \in names <=> j \in Exhausted'
            /\ \/ UNCHANGED trace /\ "suppressed" \notin names /\ "safety_suppressed" \notin names
               \/ /\ \E r \in TraceRecords : trace' = [trace EXCEPT ![j] = Append(@, r)]
                  /\ "suppressed" \in names <=> "safety_suppressed" \notin names
      BY <1>16 DEF Ends
    <2>2. \A k \in CounterNames : counters'[k] = counters[k] + (IF k \in names THEN 1 ELSE 0)
      BY <1>11, <2>1
    <2>3. /\ IsFiniteSet(Traced')
          /\ counters'["scheduled"] + counters'["suppressed"] + counters'["safety_suppressed"] = t1
      <3>1. /\ counters'["scheduled"] = counters["scheduled"]
            /\ counters'["suppressed"] = counters["suppressed"] + (IF "suppressed" \in names THEN 1 ELSE 0)
            /\ counters'["safety_suppressed"] = counters["safety_suppressed"]
                                                 + (IF "safety_suppressed" \in names THEN 1 ELSE 0)
            /\ counters["scheduled"] \in Nat /\ counters["suppressed"] \in Nat /\ counters["safety_suppressed"] \in Nat
        BY <1>7, <2>1, <2>2 DEF CounterNames
      <3>2. CASE UNCHANGED trace /\ "suppressed" \notin names /\ "safety_suppressed" \notin names
        BY <1>8, <1>13, <3>1, <3>2
      <3>3. CASE /\ \E r \in TraceRecords : trace' = [trace EXCEPT ![j] = Append(@, r)]
                 /\ "suppressed" \in names <=> "safety_suppressed" \notin names
        <4>1. IsFiniteSet(Traced') /\ t1 = t + 1
          BY <1>12, <3>3
        <4> QED
          BY <1>8, <3>1, <3>3, <4>1
      <3> QED
        BY <2>1, <3>2, <3>3
    <2>4. counters'["exhausted"] = x1
      BY <1>5, <1>7, <1>8, <2>1, <2>2 DEF CounterNames
    <2>5. counters'["attempts"] + w1 <= n + counters'["scheduled"]
      <3>1. w1 <= w /\ w1 \in Nat /\ w \in Nat
        BY <1>5, <2>1
      <3> QED
        BY <1>6, <1>7, <1>8, <2>1, <2>2, <3>1 DEF CounterNames
    <2>6. counters'["failures"] + a1 + s1 <= counters'["attempts"] + c1 + m
      <3>1. a \in Nat /\ a1 \in Nat /\ s \in Nat /\ s1 \in Nat /\ c \in Nat /\ c1 \in Nat
        BY <1>5
      <3>2. a1 <= a /\ s1 <= s /\ c1 >= c
        BY <1>5, <2>1
      <3>3. "failures" \in names => a1 + s1 + 1 <= a + s + (c1 - c)
        BY <1>5, <2>1, <3>1, <3>2
      <3>4. counters'["attempts"] = counters["attempts"]
        BY <1>7, <2>1, <2>2 DEF CounterNames
      <3>5. counters'["failures"] = counters["failures"] + (IF "failures" \in names THEN 1 ELSE 0)
        BY <2>2 DEF CounterNames
      <3>6. counters["failures"] \in Nat /\ counters["attempts"] \in Nat
        BY <1>7 DEF CounterNames
      <3> QED
        BY <1>6, <1>8, <3>1, <3>2, <3>3, <3>4, <3>5, <3>6
    <2> QED
      BY <2>3, <2>4, <2>5, <2>6
  <1>17. CASE Backs(j)
    <2>1. PICK names :
            /\ Count(names)
            /\ "attempts" \notin names /\ "scheduled" \in names /\ "exhausted" \notin names
            /\ "suppressed" \notin names /\ "safety_suppressed" \notin names
      BY <1>17 DEF Backs
    <2>2. \A k \in CounterNames : counters'[k] = counters[k] + (IF k \in names THEN 1 ELSE 0)
      BY <1>11, <2>1
    <2>3. /\ w \in Nat /\ a \in Nat /\ a1 \in Nat /\ w1 = w + 1 /\ a1 = a - 1 /\ s1 = s /\ c1 = c /\ x1 = x
          /\ s \in Nat /\ c \in Nat
      BY <1>5, <1>17 DEF Backs
    <2>4. IsFiniteSet(Traced') /\ t1 = t + 1
      BY <1>12, <1>17 DEF Backs
    <2>5. /\ counters'["scheduled"] = counters["scheduled"] + 1
          /\ counters'["suppressed"] = counters["suppressed"]
          /\ counters'["safety_suppressed"] = counters["safety_suppressed"]
          /\ counters'["exhausted"] = counters["exhausted"]
          /\ counters'["attempts"] = counters["attempts"]
          /\ counters'["failures"] <= counters["failures"] + 1
          /\ counters'["failures"] \in Nat
      BY <1>7, <2>1, <2>2 DEF CounterNames
    <2>6. /\ counters["scheduled"] \in Nat /\ counters["suppressed"] \in Nat /\ counters["safety_suppressed"] \in Nat
          /\ counters["attempts"] \in Nat /\ counters["failures"] \in Nat
      BY <1>7 DEF CounterNames
    <2> QED
      BY <1>6, <1>8, <2>3, <2>4, <2>5, <2>6
  <1> QED
    BY <1>14, <1>15, <1>16, <1>17, LedgerMoves

\* The counters account for every retry that was considered: scheduled, suppressed or unsafe, exactly
\* one of them; the attempts and the failures never outrun what started them; a job is exhausted
\* exactly when it stops at MaxAttempts, with one record for each retry it made.
THEOREM CountersTellTheStory == Spec => []RetryLedger
  <1>1. ASSUME RetryInv, LedgerInv, [Next]_vars PROVE LedgerInv'
    <2>1. CASE \E j \in Jobs : Step(j)
      BY <1>1, <2>1, LedgerStepInv
    <2>2. CASE Tick \/ UNCHANGED vars
      BY <1>1, <2>2 DEF Tick, vars, LedgerInv, Traced, Exhausted, Cancelled, Stopped, Waiting, Attempting, Single,
         Retrying, Policy, Cfg
    <2> QED
      BY <1>1, <2>1, <2>2 DEF Next, Step
  <1>2. ASSUME RetryInv, LedgerInv PROVE RetryLedger
    <2>1. /\ Cardinality(Waiting) \in Nat /\ Cardinality(Attempting) \in Nat /\ Cardinality(Single) \in Nat
          /\ Cardinality(Cancelled) \in Nat /\ Cardinality(Retrying) \in Nat /\ Cardinality(Jobs \ Retrying) \in Nat
      BY GroupsFinite, FS_CardinalityType
    <2>2. \A k \in CounterNames : counters[k] \in Nat
      BY <1>2 DEF RetryInv, Types
    <2>3. ASSUME NEW j \in Exhausted PROVE Len(trace[j]) = Policy(j).maxAttempts - 1
      <3>1. j \in Jobs
        BY DEF Exhausted, Stopped, Retrying
      <3> QED
        BY <1>2, <3>1, Groups DEF RetryInv, JobInv, TraceInv
    <2>4. /\ counters["attempts"] <= Cardinality(Retrying) + counters["scheduled"]
          /\ counters["failures"] <= counters["attempts"] + Cardinality(Cancelled) + Cardinality(Jobs \ Retrying)
      BY <1>2, <2>1, <2>2 DEF LedgerInv, CounterNames
    <2> QED
      BY <1>2, <2>3, <2>4 DEF LedgerInv, RetryLedger, Exhausted, Cancelled
  <1> QED
    BY <1>1, <1>2, LedgerInit, RetryInvariant, PTL DEF Spec
=============================================================================
