------------------------------ MODULE HotKeys ------------------------------
(***************************************************************************)
(* The bounded hot key tracker of one shard and the per-key admission      *)
(* policy decided from it (internal/core/hotkey_tracker.go,                *)
(* hotkey_detection.go, per_key_policy.go; per_key_admission.go and        *)
(* hotkey.go for their configuration).  Every operator is one critical     *)
(* section of hotKeyTracker.mu: a function from the tracker before to the  *)
(* tracker after.                                                          *)
(*                                                                         *)
(* Ratios are exact fractions <<n, d>> and thresholds whole percents; time *)
(* counts from 1, so that 0 is "never" as in the code.  Raw key strings,   *)
(* lane ids, reason texts and the unused epoch of an entry are left out.   *)
(***************************************************************************)
EXTENDS Integers, FiniteSets, FiniteSetsExt, Functions, Fractions

CONSTANTS
    Keys,           \* the key hashes, none of them 0
    NoKey,          \* keyHash 0: the slot is empty
    HotKeyConfig    \* [enabled, maxTracked, window, depthRatio, waitRatio, maxCandidates]

ASSUME HotKeysAssumption == NoKey \notin Keys

-----------------------------------------------------------------------------
(* Configuration. *)

ValidateHotKeyConfig(c) ==
    c.enabled => /\ c.maxTracked >= 0 /\ c.maxCandidates >= 0
                 /\ c.maxTracked > 0 => c.window > 0 /\ c.depthRatio \in 0..100 /\ c.waitRatio \in 0..100

NormalizeHotKeyConfig(c) ==
    LET unset(v, def) == IF v <= 0 THEN def ELSE v IN
    IF ~c.enabled THEN c
    ELSE [c EXCEPT !.window = unset(@, 30), !.depthRatio = unset(@, 40), !.waitRatio = unset(@, 40),
                   !.maxCandidates = unset(@, 5)]

NormalizePerKeyAdmissionConfig(c) ==
    LET unset(v, def) == IF v <= 0 THEN def ELSE v IN
    IF ~c.enabled THEN c
    ELSE [c EXCEPT !.minStatus = IF @ = "" THEN "candidate" ELSE @,
                   !.defaultAction = IF @ = "" THEN "throttle" ELSE @,
                   !.pressureRatio = unset(@, 40), !.rejectRatio = unset(@, 20),
                   !.cooldown = unset(@, 10), !.recovery = unset(@, 30)]

ValidatePerKeyAdmissionConfig(c, hotKey) ==
    c.enabled => /\ hotKey.enabled /\ hotKey.maxTracked > 0
                 /\ c.minStatus \in {"candidate", "dominant"}
                 /\ c.defaultAction \in {"allow", "throttle", "reject", "shed", ""}
                 /\ c.pressureRatio \in 0..100 /\ c.rejectRatio \in 0..100
                 /\ c.maxQueued >= 0 /\ c.maxInflight >= 0

-----------------------------------------------------------------------------
(* The tracker. *)

Slots == 1..HotKeyConfig.maxTracked
enabled == HotKeyConfig.enabled /\ HotKeyConfig.maxTracked > 0

EmptyEntry == [key |-> NoKey, submitted |-> 0, queued |-> 0, rejected |-> 0, wait |-> 0, seen |-> 0,
               inflight |-> 0, action |-> "", cooldown |-> 0, recovery |-> 0]
newHotKeyTracker == [entries |-> [i \in Slots |-> EmptyEntry], index |-> <<>>]

\* A key is tracked when the index leads to a slot that holds it.
Indexed(t, k) == k \in DOMAIN t.index
Tracked(t, k) == Indexed(t, k) /\ t.entries[t.index[k]].key = k
EntryOf(t, k) == t.entries[t.index[k]]
Unindex(t, K) == Restrict(t.index, DOMAIN t.index \ K)

hotKeyEntryStale(e, now) ==
    e.key # NoKey /\ HotKeyConfig.window > 0 /\ e.seen # 0 /\ now - e.seen > HotKeyConfig.window

clearEntry(t, i) == [entries |-> [t.entries EXCEPT ![i] = EmptyEntry], index |-> Unindex(t, {t.entries[i].key})]

\* Mutant: an entry under mitigation is never forgotten.
expireStaleEntriesLocked_KeepMitigated(t, now) ==
    LET stale == {i \in Slots : hotKeyEntryStale(t.entries[i], now) /\ t.entries[i].action \in {"allow", ""}} IN
    [entries |-> [i \in Slots |-> IF i \in stale THEN EmptyEntry ELSE t.entries[i]],
     index |-> Unindex(t, {t.entries[i].key : i \in stale})]

expireStaleEntriesLocked(t, now) ==
    LET stale == {i \in Slots : hotKeyEntryStale(t.entries[i], now)} IN
    [entries |-> [i \in Slots |-> IF i \in stale THEN EmptyEntry ELSE t.entries[i]],
     index |-> Unindex(t, {t.entries[i].key : i \in stale})]

maybeResetEntry(t, i, now) == IF hotKeyEntryStale(t.entries[i], now) THEN clearEntry(t, i) ELSE t

\* Mutant: the counts of the key that held the slot are left in it.
initSlot_Inherits(t, i, k, now) ==
    [entries |-> [t.entries EXCEPT ![i].key = k, ![i].seen = now],
     index |-> [x \in DOMAIN t.index \cup {k} |-> IF x = k THEN i ELSE t.index[x]]]

initSlot(t, i, k, now) ==
    [entries |-> [t.entries EXCEPT ![i] = [EmptyEntry EXCEPT !.key = k, !.seen = now]],
     index |-> [x \in DOMAIN t.index \cup {k} |-> IF x = k THEN i ELSE t.index[x]]]

\* Mutant: the evicted key stays in the index.
removeSlotFromIndex_Kept(t, i) == t

\* Before a slot is reused: the key it holds leaves the index; if it holds none, whatever still leads to it.
removeSlotFromIndex(t, i) ==
    LET old == t.entries[i].key IN
    [t EXCEPT !.index = Unindex(t, IF old # NoKey THEN {old} ELSE {x \in DOMAIN t.index : t.index[x] = i})]

\* The first empty slot; at capacity the slot seen least recently, the first of them.
allocateSlot(t, k, now) ==
    LET empty == {i \in Slots : t.entries[i].key = NoKey}
        oldest == {i \in Slots : \A j \in Slots : t.entries[i].seen <= t.entries[j].seen}
        slot == Min(IF empty # {} THEN empty ELSE oldest) IN
    initSlot(removeSlotFromIndex(t, slot), slot, k, now)

touch(t, k, now) ==
    IF ~Tracked(t, k) THEN allocateSlot([t EXCEPT !.index = Unindex(t, {k})], k, now)
    ELSE LET i == t.index[k] u == maybeResetEntry(t, i, now) IN
         IF u.entries[i].key = NoKey THEN initSlot(u, i, k, now)
         ELSE [u EXCEPT !.entries[i].seen = now]

\* Mutant: a submission counts as queued whether or not the lane takes it.
observeSubmit_Queued(t, k, now) ==
    LET u == touch(expireStaleEntriesLocked(t, now), k, now) IN
    [u EXCEPT !.entries[u.index[k]].submitted = @ + 1, !.entries[u.index[k]].queued = @ + 1]

observeSubmit(t, k, now) ==
    LET u == touch(expireStaleEntriesLocked(t, now), k, now) IN
    IF enabled THEN [u EXCEPT !.entries[u.index[k]].submitted = @ + 1] ELSE t

observeEnqueue(t, k, now) ==
    LET u == touch(expireStaleEntriesLocked(t, now), k, now) IN
    IF enabled THEN [u EXCEPT !.entries[u.index[k]].queued = @ + 1] ELSE t

\* entryIfFresh and the update of what it returns: nothing for a key that is not tracked; the slot is
\* emptied first when its entry is stale, and the update then goes to an empty slot.
ObserveExisting(t, k, now, Update(_)) ==
    IF ~enabled \/ ~Tracked(t, k) THEN t
    ELSE LET i == t.index[k] u == maybeResetEntry(t, i, now) IN
         [u EXCEPT !.entries[i] = [Update(u.entries[i]) EXCEPT !.seen = now]]

\* Mutant: the counts may go below zero.
Decremented_Plain(n) == n - 1

Decremented(n) == IF n > 0 THEN n - 1 ELSE n

observeDequeue(t, k, now) ==
    LET Update(e) == [e EXCEPT !.queued = Decremented(@)] IN ObserveExisting(t, k, now, Update)
observeReject(t, k, now) ==
    LET Update(e) == [e EXCEPT !.rejected = @ + 1] IN ObserveExisting(t, k, now, Update)
observeQueueWait(t, k, wait, now) ==
    LET Update(e) == [e EXCEPT !.wait = @ + wait] IN IF wait = 0 THEN t ELSE ObserveExisting(t, k, now, Update)
observeInflightStart(t, k, now) ==
    LET Update(e) == [e EXCEPT !.inflight = @ + 1] IN ObserveExisting(t, k, now, Update)
\* Mutant: the end of a job is seen but not counted.
observeInflightEnd_SeenOnly(t, k, now) == LET Update(e) == e IN ObserveExisting(t, k, now, Update)

observeInflightEnd(t, k, now) ==
    LET Update(e) == [e EXCEPT !.inflight = Decremented(@)] IN ObserveExisting(t, k, now, Update)

-----------------------------------------------------------------------------
(* Detection. *)

\* A ratio counts only where something was counted.
Share(n, d) == IF n > 0 /\ d > 0 THEN <<n, d>> ELSE Zero

\* shard: what the caller read of the shard before it took the tracker's lock, [depth, wait].
Ratios(e, shard, totals) ==
    [depth  |-> Share(e.queued, IF shard.depth > 0 THEN shard.depth ELSE totals.queued),
     wait   |-> Share(e.wait, shard.wait),
     submit |-> Share(e.submitted, IF totals.submitted > 0 THEN totals.submitted ELSE 1)]

Hit(r) == \/ AtLeast(r.depth, Percent(HotKeyConfig.depthRatio))
          \/ AtLeast(r.submit, Percent(HotKeyConfig.depthRatio))
          \/ AtLeast(r.wait, Percent(HotKeyConfig.waitRatio))
UseRatio(r) == Larger(Larger(r.depth, r.submit), r.wait)

\* Totals over the entries in use, which expiry has left, or over those an observer takes for fresh.
TotalsOver(t, S) == [submitted |-> SumFunction([i \in S |-> t.entries[i].submitted]),
                     queued |-> SumFunction([i \in S |-> t.entries[i].queued])]
InUse(t) == {i \in Slots : t.entries[i].key # NoKey}
\* Mutant: an observer also adds up what is stale.
trackerTotalsForObservationLocked_All(t, now) == TotalsOver(t, InUse(t))

trackerTotalsForObservationLocked(t, now) ==
    TotalsOver(t, {i \in InUse(t) : ~hotKeyEntryStale(t.entries[i], now)})

entryHotKeyStatus(e, shard, totals) ==
    LET r == Ratios(e, shard, totals) IN
    IF ~Hit(r) THEN [status |-> "none", ratio |-> Zero]
    ELSE [status |-> IF AtLeast(UseRatio(r), Percent(70)) THEN "dominant" ELSE "candidate", ratio |-> UseRatio(r)]

hotKeyCandidateLimit == Min({HotKeyConfig.maxCandidates, HotKeyConfig.maxTracked})

\* The debug snapshot: how many of the slots that hit a threshold are listed, and the first of them, which
\* has the highest score (of equal ones the lowest slot).  It is dominant when its score is 0.7 or twice
\* that of every other one.  The order of the others, which nothing here tells apart, is left out.  The
\* caller passes a tracker without stale entries (expireStaleEntriesLocked).
detectHotKeyCandidates(t, shard) ==
    LET totals == TotalsOver(t, InUse(t))
        score(i) == UseRatio(Ratios(t.entries[i], shard, totals))
        idle == totals.submitted = 0 /\ totals.queued = 0 /\ shard.depth = 0
        hits == IF idle THEN {} ELSE {i \in InUse(t) : Hit(Ratios(t.entries[i], shard, totals))}
        before(i, j) == ~AtLeast(score(j), score(i)) \/ (AtLeast(score(i), score(j)) /\ i < j)
        first == CHOOSE i \in hits : \A j \in hits : ~before(j, i)
        twice(f) == <<2 * f[1], f[2]>>
        dominant == \/ AtLeast(score(first), Percent(70))
                    \/ hits # {first} /\ \A j \in hits \ {first} : AtLeast(score(first), twice(score(j))) IN
    IF ~enabled \/ hits = {} THEN [listed |-> 0]
    ELSE [listed |-> Min({Cardinality(hits), hotKeyCandidateLimit}),
          top |-> [key |-> t.entries[first].key, status |-> IF dominant THEN "dominant" ELSE "candidate"]]

-----------------------------------------------------------------------------
(* Per-key admission. *)

hotKeyStatusRank(s) == IF s = "dominant" THEN 2 ELSE IF s = "candidate" THEN 1 ELSE 0
statusMeetsMin(s, min) == hotKeyStatusRank(s) >= hotKeyStatusRank(min)

\* What the policy decides for an entry: "recover" (allow and forget the mitigation), "pass" (allow and
\* leave the entry alone) or [action, reason] to be recorded.  pressure: Pressure().TotalDepthRatio.
Verdict(e, hot, pressure, c, now) ==
    LET recovered == e.recovery > 0 /\ now >= e.recovery /\ hot.status = "none"
        rejecting == e.submitted > 0 /\ c.rejectRatio > 0 /\ AtLeast(<<e.rejected, e.submitted>>, Percent(c.rejectRatio))
        cooling == e.cooldown > now /\ e.action \notin {"allow", ""}
        meets == statusMeetsMin(hot.status, c.minStatus)
        hotReason == IF hot.status = "dominant" THEN "dominant_hot_key" ELSE "hot_key_candidate"
        decide(action, reason) == [kind |-> "decide", action |-> action, reason |-> reason]
        allow(kind) == [kind |-> kind, action |-> "allow", reason |-> "none"] IN
    IF recovered THEN allow("recover")
    ELSE IF c.maxQueued > 0 /\ e.queued >= c.maxQueued THEN decide("throttle", "max_queued_per_key")
    ELSE IF c.maxInflight > 0 /\ e.inflight >= c.maxInflight THEN decide("throttle", "max_inflight_per_key")
    ELSE IF rejecting
         THEN decide(IF c.defaultAction \in {"allow", "throttle"} THEN "reject" ELSE c.defaultAction, hotReason)
    ELSE IF cooling THEN decide(e.action, "cooldown_active")
    ELSE IF meets /\ AtLeast(pressure, Percent(95)) THEN decide(c.defaultAction, "shard_overloaded")
    ELSE IF ~meets \/ (c.pressureRatio > 0 /\ ~AtLeast(hot.ratio, Percent(c.pressureRatio))) THEN allow("pass")
    ELSE decide(IF c.defaultAction = "allow" THEN "throttle" ELSE c.defaultAction, hotReason)

\* Every decision but a pass marks the entry; anything but "allow" also arms cooldown and recovery.
finishPerKeyDecision(e, v, c, now) ==
    LET armed(old, d) == IF v.action # "allow" /\ d > 0 THEN now + d ELSE old IN
    CASE v.kind = "recover" -> [e EXCEPT !.action = "allow", !.cooldown = 0, !.recovery = 0]
      [] v.kind = "pass" -> e
      [] v.kind = "decide" -> [e EXCEPT !.action = v.action, !.seen = now,
                                        !.cooldown = armed(@, c.cooldown), !.recovery = armed(@, c.recovery)]

NoEntryVerdict == [kind |-> "pass", action |-> "allow", reason |-> "none"]

\* The decision for a key and the tracker after it.
evaluatePerKeyAdmission(t, k, shard, pressure, c, now) ==
    LET u == expireStaleEntriesLocked(t, now)
        v == Verdict(EntryOf(u, k), entryHotKeyStatus(EntryOf(u, k), shard, TotalsOver(u, InUse(u))), pressure, c, now) IN
    IF ~enabled \/ ~c.enabled THEN [verdict |-> NoEntryVerdict, tracker |-> t]
    ELSE IF ~Tracked(u, k) THEN [verdict |-> NoEntryVerdict, tracker |-> u]
    ELSE [verdict |-> v, tracker |-> [u EXCEPT !.entries[u.index[k]] = finishPerKeyDecision(@, v, c, now)]]

\* The same decision for an observer (retry suppression), which changes nothing.
planPerKeyAdmission(t, k, shard, pressure, c, now) ==
    LET fresh == Tracked(t, k) /\ ~hotKeyEntryStale(EntryOf(t, k), now) IN
    IF ~enabled \/ ~c.enabled \/ ~fresh THEN NoEntryVerdict
    ELSE Verdict(EntryOf(t, k), entryHotKeyStatus(EntryOf(t, k), shard, trackerTotalsForObservationLocked(t, now)),
                 pressure, c, now)

hotKeyStatusForKey(t, k, shard, now) ==
    IF ~enabled \/ ~Tracked(t, k) \/ hotKeyEntryStale(EntryOf(t, k), now) THEN "none"
    ELSE entryHotKeyStatus(EntryOf(t, k), shard, trackerTotalsForObservationLocked(t, now)).status

\* The keys listed as mitigated: the first slots whose last decision was not to allow.
perKeyAdmissionSnapshots(t, limit) ==
    LET active == {i \in InUse(t) : t.entries[i].action \notin {"allow", ""}} IN
    {t.entries[i].key : i \in {j \in active : Cardinality({x \in active : x < j}) < limit}}
=============================================================================
