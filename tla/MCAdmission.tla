---------------------------- MODULE MCAdmission ----------------------------
(***************************************************************************)
(* Admission for TLC: two callers, up to three keys on one shard whose     *)
(* tracker has two slots.                                                  *)
(***************************************************************************)
EXTENDS Admission

CONSTANTS a, b, c, c1, c2

MCReqs == 1..5
MCKeyOf == <<a, a, a, b, c>>
MCLaneOf == <<"api", "batch", "batch", "api", "batch">>
MCShardOf == [k \in {a, b, c} |-> 0]
MCHotKeyConfig == [enabled |-> TRUE, maxTracked |-> 2, window |-> 1, depthRatio |-> 40, waitRatio |-> 40, maxCandidates |-> 2]
MCPerKey == [enabled |-> TRUE, minStatus |-> "dominant", defaultAction |-> "throttle", maxQueued |-> 2, maxInflight |-> 2,
             pressureRatio |-> 80, rejectRatio |-> 60, cooldown |-> 2, recovery |-> 2]

Load(s1, s2, ticks, stop, update, snapshot) ==
    [scripts |-> (c1 :> s1 @@ c2 :> s2), ticks |-> ticks, stop |-> stop, update |-> update, snapshot |-> snapshot]

\* One key hammered, over time; a key next to others; three keys for two slots; policies replaced and the
\* queue stopped; statistics read meanwhile.
MCWorkloads ==
    {Load(<<1>>, <<2>>, 2, FALSE, FALSE, FALSE), Load(<<1, 2, 3>>, <<>>, 3, FALSE, FALSE, FALSE),
     Load(<<4, 1>>, <<>>, 3, FALSE, FALSE, FALSE), Load(<<1, 2>>, <<3>>, 1, FALSE, FALSE, FALSE),
     Load(<<4, 1, 2>>, <<3>>, 0, FALSE, FALSE, FALSE), Load(<<4, 1, 2>>, <<5>>, 0, FALSE, FALSE, FALSE),
     Load(<<1, 4>>, <<2>>, 0, TRUE, TRUE, FALSE), Load(<<1, 2>>, <<3>>, 0, FALSE, FALSE, TRUE)}

LaneEntry(class, reject, shed, degrade, depth) ==
    [class |-> class, reject |-> reject, shed |-> shed, degrade |-> degrade, maxDepth |-> depth,
     retryAfter |-> 0, minBackoff |-> 0, maxBackoff |-> 0]
MCOverloadPolicies ==
    {[default |-> LaneEntry("", 0, 0, 25, 0), lanes |-> <<[lane |-> "batch", entry |-> LaneEntry("best_effort", 50, 25, 0, 1)]>>],
     [default |-> LaneEntry("normal", 20, 40, 0, 1), lanes |-> <<>>]}
MCAdmissionPolicies ==
    {[default |-> [class |-> "normal", reject |-> 50, maxDepth |-> 2], lanes |-> <<>>],
     [default |-> [class |-> "normal", reject |-> 50, maxDepth |-> 0], lanes |-> <<>>]}
=============================================================================
