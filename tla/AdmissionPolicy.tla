-------------------------- MODULE AdmissionPolicy --------------------------
(***************************************************************************)
(* The lane admission policy and the overload policy: how an input is      *)
(* normalised, validated and resolved to one entry for each lane, and what *)
(* they decide for a submission (internal/core/admission_policy.go,        *)
(* overload_policy.go, pressure.go; overload_policy.go, admission.go,      *)
(* backoff_hint.go at the top level).                                      *)
(*                                                                         *)
(* A policy input is [default, lanes], lanes a sequence of entries with    *)
(* their lane's name.  Ratios are whole percents, the pressure a fraction  *)
(* <<depth, capacity>>.  Jitter and the texts of errors are left out.      *)
(***************************************************************************)
EXTENDS Integers, Sequences, SequencesExt

CONSTANTS Lanes   \* the names registered in LaneRegistry

LaneClasses == {"critical", "normal", "background", "best_effort"}
\* ratio >= p%, for the ratio depth / capacity (0 when there is no capacity).
RatioAtLeast(depth, capacity, p) == IF capacity = 0 THEN p <= 0 ELSE depth * 100 >= p * capacity

\* A lane listed twice, or one that is not registered, spoils the whole update.
LanesListedOnce(lanes) ==
    /\ \A i \in 1..Len(lanes) : lanes[i].lane \in Lanes
    /\ \A i, j \in 1..Len(lanes) : lanes[i].lane = lanes[j].lane => i = j

\* The entry of every lane: the one listed for it, else the default.
Resolve(default, lanes) ==
    [l \in Lanes |-> IF \E i \in 1..Len(lanes) : lanes[i].lane = l
                     THEN lanes[CHOOSE i \in 1..Len(lanes) : lanes[i].lane = l].entry
                     ELSE default]

-----------------------------------------------------------------------------
(* Lane admission: entries are [class, reject, maxDepth]. *)

ValidAdmissionEntry(e) == e.class \in LaneClasses /\ e.reject \in 0..100 /\ e.maxDepth >= 1

defaultAdmissionPolicy(shardCount, queueSize) ==
    [default |-> [class |-> "normal", reject |-> 90, maxDepth |-> Max({shardCount * queueSize, 1})], lanes |-> <<>>]

ValidAdmissionPolicy(p) ==
    /\ ValidAdmissionEntry(p.default) /\ LanesListedOnce(p.lanes)
    /\ \A i \in 1..Len(p.lanes) : ValidAdmissionEntry(p.lanes[i].entry)

buildAdmissionPolicySnapshot(p, version) == [version |-> version, lanes |-> Resolve(p.default, p.lanes)]

evaluateAdmission(snap, lane, sig) ==
    LET e == snap.lanes[lane] IN
    IF sig.laneDepth >= e.maxDepth THEN "lane_queue_depth_exceeded"
    ELSE IF RatioAtLeast(sig.depth, sig.capacity, e.reject) THEN "pressure_above_lane_threshold"
    ELSE "admit"

-----------------------------------------------------------------------------
(* Overload: entries are [class, reject, shed, degrade, maxDepth, retryAfter, minBackoff, maxBackoff]. *)

\* UpdateOverloadPolicy fills in what the caller left unset before it validates.
normalizeLaneOverloadPolicy(e) ==
    [e EXCEPT !.class = IF @ = "" THEN "normal" ELSE @, !.reject = IF @ = 0 THEN 90 ELSE @,
              !.shed = IF @ = 0 THEN 100 ELSE @, !.degrade = IF @ = 0 THEN 100 ELSE @,
              !.maxDepth = IF @ = 0 THEN 1024 ELSE @]

BackoffLimit == 24 * 60 * 60 * 1000   \* maxBackoffDuration, in milliseconds
validateLaneOverloadBackoff(e) ==
    /\ {e.retryAfter, e.minBackoff, e.maxBackoff} \subseteq 0..BackoffLimit
    /\ e.maxBackoff > 0 => e.minBackoff <= e.maxBackoff /\ e.retryAfter <= e.maxBackoff

\* Shedding and degrading are enabled below 1.0, and then must not start above rejection.
validateLaneOverloadPolicyInput(e) ==
    /\ e.class \in LaneClasses
    /\ {e.reject, e.shed, e.degrade} \subseteq 0..100
    /\ e.shed < 100 => e.shed <= e.reject
    /\ e.degrade < 100 => e.degrade <= e.reject
    /\ e.maxDepth >= 1 /\ validateLaneOverloadBackoff(e)

defaultOverloadPolicy(shardCount, queueSize) ==
    [default |-> [class |-> "normal", reject |-> 90, shed |-> 100, degrade |-> 100,
                  maxDepth |-> Max({shardCount * queueSize, 1}),
                  retryAfter |-> 250, minBackoff |-> 100, maxBackoff |-> 2000],
     lanes |-> <<>>]

\* What Queue.UpdateOverloadPolicy passes on of its argument.
NormalizedOverloadPolicy(p) ==
    [default |-> normalizeLaneOverloadPolicy(p.default),
     lanes |-> [i \in 1..Len(p.lanes) |-> [p.lanes[i] EXCEPT !.entry = normalizeLaneOverloadPolicy(@)]]]

ValidOverloadPolicy(p) ==
    /\ validateLaneOverloadPolicyInput(p.default) /\ LanesListedOnce(p.lanes)
    /\ \A i \in 1..Len(p.lanes) : validateLaneOverloadPolicyInput(p.lanes[i].entry)

buildOverloadPolicySnapshot(p, version) == [version |-> version, lanes |-> Resolve(p.default, p.lanes)]

\* sig: [depth, capacity, laneDepth, full, closed], what OverloadSignalsForLane gathered.
evaluateOverload(snap, lane, sig) ==
    LET e == snap.lanes[lane]
        above(p) == RatioAtLeast(sig.depth, sig.capacity, p)
        decision(action, reason) == [action |-> action, reason |-> reason] IN
    IF sig.closed THEN decision("reject", "queue_closed")
    ELSE IF sig.full THEN decision("reject", "queue_full")
    ELSE IF sig.laneDepth >= e.maxDepth THEN decision("reject", "lane_depth_exceeded")
    ELSE IF e.shed < 100 /\ above(e.shed) /\ e.class \in {"best_effort", "background"}
         THEN decision("shed", IF e.class = "best_effort" THEN "best_effort_shedding" ELSE "background_shedding")
    ELSE IF e.degrade < 100 /\ above(e.degrade) THEN decision("degrade", "degrade_preferred")
    ELSE IF above(e.reject) THEN decision("reject", IF above(90) THEN "global_pressure_high" ELSE "lane_pressure_high")
    ELSE decision("keep", "none")
=============================================================================
