-------------------------- MODULE AdmissionProofs ---------------------------
(***************************************************************************)
(* Proofs about the way of a job through admission (Admission, HotKeys),   *)
(* for every number of callers, keys, shards, slots and jobs.              *)
(***************************************************************************)
EXTENDS Admission, OperatorLemmas

-----------------------------------------------------------------------------
(* The tracker of one shard. *)

Actions == {"", "allow", "throttle", "reject", "shed"}
Entries == [key : Keys \cup {NoKey}, submitted : Nat, queued : Nat, rejected : Nat, wait : Nat, seen : Nat,
            inflight : Nat, action : Actions, cooldown : Nat, recovery : Nat]
Indexes == UNION {[K -> Slots] : K \in SUBSET Keys}
Trackers == [entries : [Slots -> Entries], index : Indexes]

\* The index leads to the slots in use, and to nothing else.
Exact(t) ==
    /\ \A k \in DOMAIN t.index : t.entries[t.index[k]].key = k
    /\ \A i \in InUse(t) : Indexed(t, t.entries[i].key) /\ t.index[t.entries[i].key] = i
Good(t) == t \in Trackers /\ Exact(t)

\* What a step on behalf of k leaves of the other keys: their entries as they were, or nothing.
Isolated(t, u, k) ==
    \A x \in Keys \ {k} : Tracked(u, x) => Tracked(t, x) /\ EntryOf(u, x) = EntryOf(t, x)

FreshEntry(k, n) == [EmptyEntry EXCEPT !.key = k, !.seen = n]

LEMMA EmptyTyped == EmptyEntry \in Entries /\ EmptyEntry.key = NoKey
BY DEF EmptyEntry, Entries, Actions

LEMMA FreshTyped ==
  ASSUME NEW k \in Keys, NEW n \in Nat
  PROVE  /\ FreshEntry(k, n) \in Entries
         /\ FreshEntry(k, n).key = k /\ FreshEntry(k, n).seen = n /\ FreshEntry(k, n).queued = 0
         /\ FreshEntry(k, n).inflight = 0 /\ FreshEntry(k, n).action = ""
BY DEF FreshEntry, EmptyEntry, Entries, Actions

\* A tracker taken apart, and put together again.
LEMMA TrackerParts ==
  ASSUME NEW t \in Trackers
  PROVE  /\ t = [entries |-> t.entries, index |-> t.index]
         /\ t.entries \in [Slots -> Entries] /\ DOMAIN t.index \subseteq Keys
         /\ t.index \in [DOMAIN t.index -> Slots]
         /\ \A k \in DOMAIN t.index : k # NoKey
BY HotKeysAssumption DEF Trackers, Indexes

LEMMA TrackerMade ==
  ASSUME NEW E \in [Slots -> Entries], NEW K, K \subseteq Keys, NEW f \in [K -> Slots]
  PROVE  /\ [entries |-> E, index |-> f] \in Trackers
         /\ [entries |-> E, index |-> f].entries = E /\ [entries |-> E, index |-> f].index = f
         /\ DOMAIN f = K
BY DEF Trackers, Indexes

LEMMA NewTrackerGood == Good(newHotKeyTracker)
<1>1. newHotKeyTracker.entries = [i \in Slots |-> EmptyEntry] /\ newHotKeyTracker.index = <<>>
  BY DEF newHotKeyTracker
<1>2. <<>> \in [{} -> Slots] /\ DOMAIN <<>> = {}
  OBVIOUS
<1>3. newHotKeyTracker \in Trackers
  <2>1. [i \in Slots |-> EmptyEntry] \in [Slots -> Entries]
    BY EmptyTyped
  <2> QED
    BY <2>1, <1>2, TrackerMade DEF newHotKeyTracker
<1> QED
  BY <1>1, <1>2, <1>3, EmptyTyped DEF Good, Exact, InUse

\* Slots emptied and their keys taken out of the index (clearEntry, expireStaleEntriesLocked).
Emptied(t, S) ==
    [entries |-> [i \in Slots |-> IF i \in S THEN EmptyEntry ELSE t.entries[i]],
     index |-> Unindex(t, {t.entries[i].key : i \in S})]

LEMMA Cleared ==
  ASSUME NEW t, Good(t), NEW S, S \subseteq InUse(t), NEW u, u = Emptied(t, S)
  PROVE  /\ Good(u)
         /\ \A x \in Keys : Tracked(u, x) <=> Tracked(t, x) /\ t.index[x] \notin S
         /\ \A x \in Keys : Tracked(u, x) => u.index[x] = t.index[x] /\ EntryOf(u, x) = EntryOf(t, x)
<1> DEFINE D == DOMAIN t.index \ {t.entries[i].key : i \in S}
           E == [i \in Slots |-> IF i \in S THEN EmptyEntry ELSE t.entries[i]]
           f == [x \in D |-> t.index[x]]
<1>1. /\ t.entries \in [Slots -> Entries] /\ DOMAIN t.index \subseteq Keys
      /\ t.index \in [DOMAIN t.index -> Slots] /\ Exact(t) /\ S \subseteq Slots
  BY TrackerParts DEF Good, InUse
<1>2. u = [entries |-> E, index |-> f]
  BY DEF Emptied, Unindex, Restrict
<1>3. E \in [Slots -> Entries] /\ f \in [D -> Slots] /\ D \subseteq Keys
  BY <1>1, EmptyTyped
<1>4. u \in Trackers /\ u.entries = E /\ u.index = f /\ DOMAIN u.index = D
  <2> HIDE DEF E, f, D
  <2> QED
    BY <1>2, <1>3, TrackerMade
<1>5. \A x \in DOMAIN t.index : x \in D <=> t.index[x] \notin S
  <2> SUFFICES ASSUME NEW x \in DOMAIN t.index
               PROVE  x \in D <=> t.index[x] \notin S
    OBVIOUS
  <2>1. t.entries[t.index[x]].key = x
    BY <1>1 DEF Exact
  <2>2. \A i \in S : t.entries[i].key = x => t.index[x] = i
    BY <1>1 DEF Exact
  <2> QED
    BY <2>1, <2>2
<1>6. \A x \in D : u.index[x] = t.index[x] /\ u.entries[u.index[x]] = t.entries[t.index[x]]
  BY <1>1, <1>4, <1>5
<1>7. \A i \in InUse(u) : i \in InUse(t) /\ i \notin S /\ u.entries[i] = t.entries[i]
  BY <1>4, EmptyTyped DEF InUse
<1>8. Exact(u)
  <2>1. \A k \in DOMAIN u.index : u.entries[u.index[k]].key = k
    BY <1>1, <1>4, <1>6 DEF Exact
  <2>2. ASSUME NEW i \in InUse(u)
        PROVE  Indexed(u, u.entries[i].key) /\ u.index[u.entries[i].key] = i
    <3>1. i \in InUse(t) /\ i \notin S /\ u.entries[i] = t.entries[i]
      BY <1>7
    <3>2. t.entries[i].key \in DOMAIN t.index /\ t.index[t.entries[i].key] = i
      BY <3>1, <1>1 DEF Exact, Indexed
    <3>3. t.entries[i].key \in D
      BY <3>1, <3>2, <1>5
    <3> QED
      BY <3>1, <3>2, <3>3, <1>4, <1>6 DEF Indexed
  <2> QED
    BY <2>1, <2>2 DEF Exact
<1>9. \A x : Tracked(t, x) <=> x \in DOMAIN t.index
  BY <1>1 DEF Exact, Tracked, Indexed
<1>10. \A x : Tracked(u, x) <=> x \in D
  BY <1>4, <1>8 DEF Exact, Tracked, Indexed
<1> QED
  BY <1>4, <1>5, <1>6, <1>8, <1>9, <1>10 DEF Good, EntryOf

\* A key put into a slot nothing leads to (initSlot).
LEMMA Placed ==
  ASSUME NEW t \in Trackers, NEW i \in Slots, NEW k \in Keys, NEW n \in Nat, k \notin DOMAIN t.index,
         \A x \in DOMAIN t.index : t.entries[t.index[x]].key = x /\ t.index[x] # i,
         \A j \in InUse(t) \ {i} : Indexed(t, t.entries[j].key) /\ t.index[t.entries[j].key] = j
  PROVE  LET u == initSlot(t, i, k, n) IN
         /\ Good(u) /\ Tracked(u, k) /\ EntryOf(u, k) = FreshEntry(k, n)
         /\ \A x \in Keys \ {k} : Tracked(u, x) => Tracked(t, x) /\ EntryOf(u, x) = EntryOf(t, x)
<1> DEFINE u == initSlot(t, i, k, n)
           E == [t.entries EXCEPT ![i] = FreshEntry(k, n)]
           K == DOMAIN t.index \cup {k}
           f == [x \in K |-> IF x = k THEN i ELSE t.index[x]]
<1>1. /\ t.entries \in [Slots -> Entries] /\ DOMAIN t.index \subseteq Keys
      /\ t.index \in [DOMAIN t.index -> Slots]
  BY TrackerParts
<1>2. u = [entries |-> E, index |-> f]
  BY DEF initSlot, FreshEntry
<1>3. E \in [Slots -> Entries] /\ f \in [K -> Slots] /\ K \subseteq Keys
  <2>1. FreshEntry(k, n) \in Entries
    BY FreshTyped
  <2>2. E \in [Slots -> Entries]
    BY <1>1, <2>1
  <2>3. \A x \in K : (IF x = k THEN i ELSE t.index[x]) \in Slots
    BY <1>1
  <2> QED
    BY <1>1, <2>2, <2>3
<1>4. u \in Trackers /\ u.entries = E /\ u.index = f /\ DOMAIN u.index = K
  <2> HIDE DEF E, f, K, u
  <2> QED
    BY <1>2, <1>3, TrackerMade
<1> HIDE DEF u
<1>5. \A x \in DOMAIN t.index : x \in K /\ u.index[x] = t.index[x] /\ u.entries[u.index[x]] = t.entries[t.index[x]]
  <2> SUFFICES ASSUME NEW x \in DOMAIN t.index
               PROVE  x \in K /\ u.index[x] = t.index[x] /\ u.entries[u.index[x]] = t.entries[t.index[x]]
    OBVIOUS
  <2>1. x \in K /\ x # k
    OBVIOUS
  <2>2. u.index[x] = t.index[x]
    BY <2>1, <1>4
  <2>3. t.index[x] \in Slots /\ t.index[x] # i
    BY <1>1
  <2> QED
    BY <1>1, <1>4, <2>1, <2>2, <2>3
<1>6. k \in K /\ u.index[k] = i /\ u.entries[i] = FreshEntry(k, n) /\ u.entries[i].key = k
  <2>1. k \in K
    OBVIOUS
  <2>2. u.index[k] = i
    BY <2>1, <1>4
  <2>3. u.entries[i] = FreshEntry(k, n)
    BY <1>1, <1>4
  <2>4. FreshEntry(k, n).key = k
    BY FreshTyped
  <2> HIDE DEF K
  <2> QED
    BY <2>1, <2>2, <2>3, <2>4
<1>7. \A j \in InUse(u) \ {i} : j \in InUse(t) /\ u.entries[j] = t.entries[j]
  BY <1>1, <1>4 DEF InUse
<1>8. \A x \in DOMAIN u.index : u.entries[u.index[x]].key = x
  BY <1>4, <1>5, <1>6
<1>9. ASSUME NEW j \in InUse(u)
      PROVE  Indexed(u, u.entries[j].key) /\ u.index[u.entries[j].key] = j
  <2>1. CASE j = i
    BY <2>1, <1>4, <1>6 DEF Indexed
  <2>2. CASE j # i
    <3>1. j \in InUse(t) /\ u.entries[j] = t.entries[j]
      BY <2>2, <1>7
    <3>2. t.entries[j].key \in DOMAIN t.index /\ t.index[t.entries[j].key] = j
      BY <3>1, <2>2 DEF Indexed
    <3> QED
      BY <3>1, <3>2, <1>4, <1>5 DEF Indexed
  <2> QED
    BY <2>1, <2>2
<1>10. Good(u)
  BY <1>4, <1>8, <1>9 DEF Good, Exact
<1>11. Tracked(u, k) /\ EntryOf(u, k) = FreshEntry(k, n)
  BY <1>4, <1>6 DEF Tracked, Indexed, EntryOf
<1>12. ASSUME NEW x \in Keys \ {k}, Tracked(u, x)
       PROVE  Tracked(t, x) /\ EntryOf(u, x) = EntryOf(t, x)
  <2>1. x \in DOMAIN t.index
    BY <1>4, <1>12 DEF Tracked, Indexed
  <2> QED
    BY <2>1, <1>5 DEF Tracked, Indexed, EntryOf
<1> QED
  BY <1>10, <1>11, <1>12 DEF u

\* An entry overwritten by one of the same key.
LEMMA Overwritten ==
  ASSUME NEW t, Good(t), NEW i \in Slots, NEW e \in Entries, e.key = t.entries[i].key, NEW u,
         u = [t EXCEPT !.entries[i] = e]
  PROVE  /\ Good(u) /\ u.index = t.index
         /\ \A x \in Keys : Tracked(u, x) <=> Tracked(t, x)
         /\ \A x \in Keys : Tracked(u, x) => EntryOf(u, x) = IF t.index[x] = i THEN e ELSE EntryOf(t, x)
<1> DEFINE E == [t.entries EXCEPT ![i] = e]
<1>1. /\ t = [entries |-> t.entries, index |-> t.index] /\ t.entries \in [Slots -> Entries]
      /\ DOMAIN t.index \subseteq Keys /\ t.index \in [DOMAIN t.index -> Slots] /\ Exact(t)
  BY TrackerParts DEF Good
<1>2. u = [entries |-> E, index |-> t.index]
  BY <1>1
<1>3. E \in [Slots -> Entries]
  BY <1>1
<1>4. u \in Trackers /\ u.entries = E /\ u.index = t.index
  <2> HIDE DEF E
  <2> QED
    BY <1>1, <1>2, <1>3, TrackerMade
<1>5. \A j \in Slots : u.entries[j].key = t.entries[j].key /\ u.entries[j] = IF j = i THEN e ELSE t.entries[j]
  BY <1>1, <1>4
<1>6. InUse(u) = InUse(t)
  BY <1>5 DEF InUse
<1>7. InUse(t) \subseteq Slots /\ \A x \in DOMAIN t.index : t.index[x] \in Slots
  BY <1>1 DEF InUse
<1>8. Good(u)
  BY <1>1, <1>4, <1>5, <1>6, <1>7 DEF Good, Exact, Indexed
<1>9. \A x \in Keys : Tracked(u, x) <=> Tracked(t, x)
  BY <1>4, <1>5, <1>7 DEF Tracked, Indexed
<1>10. \A x \in Keys : Tracked(u, x) => EntryOf(u, x) = IF t.index[x] = i THEN e ELSE EntryOf(t, x)
  BY <1>4, <1>5, <1>7 DEF Tracked, Indexed, EntryOf
<1> QED
  BY <1>4, <1>8, <1>9, <1>10

LEMMA SlotsPositive ==
  ASSUME enabled
  PROVE  Slots \subseteq Nat /\ 1 \in Slots /\ HotKeyConfig.window > 0 /\ HotKeyConfig.window \in Int
<1>1. HotKeyConfig.maxTracked \in Int /\ HotKeyConfig.maxTracked > 0 /\ HotKeyConfig.enabled
  BY AdmissionAssumption DEF enabled
<1>2. HotKeyConfig.window \in Int /\ HotKeyConfig.window > 0
  BY <1>1, AdmissionAssumption DEF ValidateHotKeyConfig
<1> QED
  BY <1>1, <1>2 DEF Slots

LEMMA TrackedIndexed ==
  ASSUME NEW t, Good(t)
  PROVE  /\ \A x : Tracked(t, x) <=> x \in DOMAIN t.index
         /\ \A x : Tracked(t, x) => x \in Keys /\ t.index[x] \in Slots /\ EntryOf(t, x) \in Entries
                                   /\ EntryOf(t, x).key = x /\ t.entries[t.index[x]] = EntryOf(t, x)
BY TrackerParts DEF Good, Exact, Tracked, Indexed, EntryOf

\* A key that is not tracked gets a slot, whichever it is (allocateSlot).
LEMMA Allocated ==
  ASSUME NEW t, Good(t), NEW k \in Keys, k \notin DOMAIN t.index, NEW n \in Nat, enabled
  PROVE  LET u == allocateSlot(t, k, n) IN
         Good(u) /\ Isolated(t, u, k) /\ Tracked(u, k) /\ EntryOf(u, k) = FreshEntry(k, n)
<1> DEFINE empty == {i \in Slots : t.entries[i].key = NoKey}
           oldest == {i \in Slots : \A j \in Slots : t.entries[i].seen <= t.entries[j].seen}
           slot == Min(IF empty # {} THEN empty ELSE oldest)
           old == t.entries[slot].key
           X == IF old # NoKey THEN {old} ELSE {x \in DOMAIN t.index : t.index[x] = slot}
           D == DOMAIN t.index \ X
           f == [x \in D |-> t.index[x]]
           r == removeSlotFromIndex(t, slot)
<1>1. /\ t = [entries |-> t.entries, index |-> t.index] /\ t.entries \in [Slots -> Entries]
      /\ DOMAIN t.index \subseteq Keys /\ t.index \in [DOMAIN t.index -> Slots] /\ Exact(t)
  BY TrackerParts DEF Good
<1>2. slot \in Slots
  <2>1. empty \subseteq Nat /\ oldest \subseteq Nat /\ 1 \in Slots
    BY SlotsPositive
  <2>2. oldest # {}
    <3> DEFINE T == {t.entries[i].seen : i \in Slots}
    <3>1. \A i \in Slots : t.entries[i].seen \in Nat
      BY <1>1 DEF Entries
    <3>2. T \subseteq Nat /\ T # {}
      BY <2>1, <3>1
    <3>3. PICK x \in T : \A y \in T : x <= y
      BY <3>2, LeastOf
    <3>4. PICK i \in Slots : x = t.entries[i].seen
      OBVIOUS
    <3> QED
      BY <3>3, <3>4
  <2>3. empty # {} => Min(empty) \in empty
    BY <2>1, LeastOf
  <2>4. Min(oldest) \in oldest
    BY <2>1, <2>2, LeastOf
  <2> QED
    BY <2>3, <2>4
<1> HIDE DEF slot
<1>3. r = [entries |-> t.entries, index |-> f]
  BY <1>1 DEF removeSlotFromIndex, Unindex, Restrict
<1>4. r \in Trackers /\ r.entries = t.entries /\ r.index = f /\ DOMAIN r.index = D
  <2>1. f \in [D -> Slots] /\ D \subseteq Keys
    BY <1>1
  <2> HIDE DEF f, r, D
  <2> QED
    BY <1>1, <1>3, <2>1, TrackerMade
<1>5. old # NoKey => old \in DOMAIN t.index /\ t.index[old] = slot
  BY <1>1, <1>2 DEF Exact, InUse, Indexed
<1>6. ASSUME NEW x \in D
      PROVE  r.entries[r.index[x]].key = x /\ r.index[x] # slot
  <2>1. r.index[x] = t.index[x] /\ x \in DOMAIN t.index
    BY <1>4
  <2>2. t.entries[t.index[x]].key = x
    BY <2>1, <1>1 DEF Exact
  <2>3. CASE t.index[x] = slot
    <3>1. old = x
      BY <2>2, <2>3
    <3> QED
      BY <3>1, <2>1, <2>3
  <2> QED
    BY <2>1, <2>2, <2>3, <1>4
<1>7. ASSUME NEW j \in InUse(r) \ {slot}
      PROVE  Indexed(r, r.entries[j].key) /\ r.index[r.entries[j].key] = j
  <2> DEFINE y == t.entries[j].key
  <2>1. j \in InUse(t) /\ r.entries[j].key = y
    BY <1>4 DEF InUse
  <2>2. y \in DOMAIN t.index /\ t.index[y] = j
    BY <2>1, <1>1 DEF Exact, Indexed
  <2>3. y \notin X
    BY <2>2, <1>5
  <2> HIDE DEF y, X
  <2> QED
    BY <2>1, <2>2, <2>3, <1>4 DEF Indexed
<1>8. k \notin DOMAIN r.index
  BY <1>4
<1>9. allocateSlot(t, k, n) = initSlot(r, slot, k, n)
  BY DEF allocateSlot, slot
<1> HIDE DEF r
<1>10. LET u == initSlot(r, slot, k, n) IN
       /\ Good(u) /\ Tracked(u, k) /\ EntryOf(u, k) = FreshEntry(k, n)
       /\ \A x \in Keys \ {k} : Tracked(u, x) => Tracked(r, x) /\ EntryOf(u, x) = EntryOf(r, x)
  <2> HIDE DEF D
  <2> QED
    BY <1>2, <1>4, <1>6, <1>7, <1>8, Placed
<1>11. \A x : Tracked(r, x) => Tracked(t, x) /\ EntryOf(r, x) = EntryOf(t, x)
  BY <1>4 DEF Tracked, Indexed, EntryOf
<1> QED
  BY <1>9, <1>10, <1>11 DEF Isolated

\* What is stale is forgotten, and nothing else (expireStaleEntriesLocked).
LEMMA Expired ==
  ASSUME NEW t, Good(t), NEW n
  PROVE  LET u == expireStaleEntriesLocked(t, n) IN
         /\ Good(u)
         /\ \A x \in Keys : Tracked(u, x) =>
               /\ Tracked(t, x) /\ u.index[x] = t.index[x] /\ EntryOf(u, x) = EntryOf(t, x)
               /\ ~hotKeyEntryStale(EntryOf(u, x), n)
<1> DEFINE S == {i \in Slots : hotKeyEntryStale(t.entries[i], n)}
           u == expireStaleEntriesLocked(t, n)
<1>1. S \subseteq InUse(t)
  BY DEF InUse, hotKeyEntryStale
<1>2. u = Emptied(t, S)
  BY DEF Emptied, expireStaleEntriesLocked
<1>3. \A x : Tracked(t, x) /\ t.index[x] \notin S => ~hotKeyEntryStale(EntryOf(t, x), n)
  BY TrackedIndexed
<1> HIDE DEF S, u
<1>4. /\ Good(u)
      /\ \A x \in Keys : Tracked(u, x) <=> Tracked(t, x) /\ t.index[x] \notin S
      /\ \A x \in Keys : Tracked(u, x) => u.index[x] = t.index[x] /\ EntryOf(u, x) = EntryOf(t, x)
  BY <1>1, <1>2, Cleared
<1> QED
  BY <1>3, <1>4 DEF u

\* One slot emptied (clearEntry).
LEMMA ClearedOne ==
  ASSUME NEW t, Good(t), NEW k, Tracked(t, k)
  PROVE  LET u == clearEntry(t, t.index[k]) IN
         /\ Good(u) /\ ~Tracked(u, k) /\ Isolated(t, u, k) /\ u.entries[t.index[k]] = EmptyEntry
<1> DEFINE i == t.index[k]
           S == {i}
           u == clearEntry(t, i)
<1>1. /\ t.entries \in [Slots -> Entries] /\ k \in Keys /\ i \in Slots /\ t.entries[i].key = k /\ k # NoKey
  BY TrackerParts, TrackedIndexed DEF Good
<1>2. S \subseteq InUse(t)
  BY <1>1 DEF InUse
<1>3. [t.entries EXCEPT ![i] = EmptyEntry] = [j \in Slots |-> IF j \in S THEN EmptyEntry ELSE t.entries[j]]
  BY <1>1
<1>4. {t.entries[i].key} = {t.entries[j].key : j \in S}
  OBVIOUS
<1>5. u = Emptied(t, S)
  BY <1>3, <1>4 DEF Emptied, clearEntry
<1>6. u.entries[i] = EmptyEntry
  BY <1>1 DEF clearEntry
<1>7. i \in S
  OBVIOUS
<1> HIDE DEF S, u
<1>8. /\ Good(u)
      /\ \A x \in Keys : Tracked(u, x) <=> Tracked(t, x) /\ t.index[x] \notin S
      /\ \A x \in Keys : Tracked(u, x) => u.index[x] = t.index[x] /\ EntryOf(u, x) = EntryOf(t, x)
  BY <1>2, <1>5, Cleared
<1>9. ~Tracked(u, k)
  BY <1>1, <1>7, <1>8
<1> QED
  BY <1>6, <1>8, <1>9 DEF u, Isolated

\* The key has an entry afterwards: the one it had, or one that begins from nothing (touch).
LEMMA Touched ==
  ASSUME NEW t, Good(t), NEW k \in Keys, NEW n \in Nat, enabled
  PROVE  LET u == touch(t, k, n) IN
         /\ Good(u) /\ Isolated(t, u, k) /\ Tracked(u, k)
         /\ \/ EntryOf(u, k) = FreshEntry(k, n)
            \/ Tracked(t, k) /\ EntryOf(u, k) = [EntryOf(t, k) EXCEPT !.seen = n]
<1>1. CASE ~Tracked(t, k)
  <2>1. k \notin DOMAIN t.index
    BY <1>1, TrackedIndexed
  <2>2. [t EXCEPT !.index = Unindex(t, {k})] = t
    <3>1. t = [entries |-> t.entries, index |-> t.index] /\ t.index \in [DOMAIN t.index -> Slots]
      BY TrackerParts DEF Good
    <3>2. DOMAIN t.index \ {k} = DOMAIN t.index
      BY <2>1
    <3>3. Unindex(t, {k}) = t.index
      BY <3>1, <3>2 DEF Unindex, Restrict
    <3> QED
      BY <3>1, <3>3
  <2>3. touch(t, k, n) = allocateSlot(t, k, n)
    BY <1>1, <2>2 DEF touch
  <2> QED
    BY <2>1, <2>3, Allocated
<1>2. CASE Tracked(t, k)
  <2> DEFINE i == t.index[k]
             u == maybeResetEntry(t, i, n)
  <2>1. i \in Slots /\ k \in DOMAIN t.index /\ t.entries[i] = EntryOf(t, k) /\ t.entries[i].key = k
        /\ EntryOf(t, k) \in Entries /\ k # NoKey
    BY <1>2, TrackedIndexed, HotKeysAssumption
  <2>2. touch(t, k, n) = IF u.entries[i].key = NoKey THEN initSlot(u, i, k, n) ELSE [u EXCEPT !.entries[i].seen = n]
    BY <1>2 DEF touch
  <2>3. CASE hotKeyEntryStale(t.entries[i], n)
    <3>1. u = clearEntry(t, i)
      BY <2>3 DEF maybeResetEntry
    <3>2. Good(u) /\ ~Tracked(u, k) /\ Isolated(t, u, k) /\ u.entries[i] = EmptyEntry
      BY <1>2, <3>1, ClearedOne
    <3>3. touch(t, k, n) = initSlot(u, i, k, n)
      BY <2>2, <3>2, EmptyTyped
    <3> HIDE DEF u, i
    <3>4. \A x \in DOMAIN u.index : u.entries[u.index[x]].key = x /\ u.index[x] # i
      BY <3>2, TrackedIndexed, EmptyTyped, HotKeysAssumption
    <3>5. \A j \in InUse(u) \ {i} : Indexed(u, u.entries[j].key) /\ u.index[u.entries[j].key] = j
      BY <3>2 DEF Good, Exact
    <3>6. k \notin DOMAIN u.index /\ u \in Trackers
      BY <3>2, TrackedIndexed DEF Good
    <3>7. LET v == initSlot(u, i, k, n) IN
          /\ Good(v) /\ Tracked(v, k) /\ EntryOf(v, k) = FreshEntry(k, n)
          /\ \A x \in Keys \ {k} : Tracked(v, x) => Tracked(u, x) /\ EntryOf(v, x) = EntryOf(u, x)
      BY <2>1, <3>4, <3>5, <3>6, Placed
    <3> QED
      BY <3>2, <3>3, <3>7 DEF Isolated
  <2>4. CASE ~hotKeyEntryStale(t.entries[i], n)
    <3> DEFINE e == [EntryOf(t, k) EXCEPT !.seen = n]
    <3>1. u = t
      BY <2>4 DEF maybeResetEntry
    <3>2. touch(t, k, n) = [t EXCEPT !.entries[i].seen = n]
      BY <2>1, <2>2, <3>1
    <3>3. [t EXCEPT !.entries[i].seen = n] = [t EXCEPT !.entries[i] = e]
      <4>1. t = [entries |-> t.entries, index |-> t.index] /\ t.entries \in [Slots -> Entries]
        BY TrackerParts DEF Good
      <4> QED
        BY <4>1, <2>1
    <3>4. e \in Entries /\ e.key = k
      BY <2>1 DEF Entries
    <3> DEFINE v == [t EXCEPT !.entries[i] = e]
    <3> HIDE DEF e, i
    <3>5. /\ Good(v) /\ v.index = t.index
          /\ \A x \in Keys : Tracked(v, x) <=> Tracked(t, x)
          /\ \A x \in Keys : Tracked(v, x) => EntryOf(v, x) = IF t.index[x] = i THEN e ELSE EntryOf(t, x)
      <4> HIDE DEF v
      <4>1. v = [t EXCEPT !.entries[i] = e]
        BY DEF v
      <4> QED
        BY <4>1, <2>1, <3>4, Overwritten
    <3> HIDE DEF v
    <3>6. \A x \in Keys \ {k} : Tracked(t, x) => t.index[x] # i
      BY <2>1, TrackedIndexed DEF i
    <3>7. Tracked(v, k) /\ EntryOf(v, k) = e
      BY <1>2, <3>5 DEF i
    <3>8. Isolated(t, v, k)
      BY <3>5, <3>6 DEF Isolated
    <3>9. touch(t, k, n) = v
      BY <3>2, <3>3 DEF v
    <3> QED
      BY <1>2, <3>5, <3>7, <3>8, <3>9 DEF e
  <2> QED
    BY <2>3, <2>4
<1> QED
  BY <1>1, <1>2

-----------------------------------------------------------------------------
(* What the tracker hears. *)

\* A tracker that is switched off tracks nothing.
Live(t) == enabled \/ \A x \in Keys : ~Tracked(t, x)
Sound(t, u, k) == Good(u) /\ Live(u) /\ Isolated(t, u, k)

\* An entry heard of at n, with these counts and this decision.
Heard(e, n, queued, inflight, action) ==
    e.seen = n /\ e.queued = queued /\ e.inflight = inflight /\ e.action = action

LEMMA SubmitCounted ==
  ASSUME NEW e \in Entries, NEW f, f = [e EXCEPT !.submitted = @ + 1]
  PROVE  f \in Entries /\ f.key = e.key /\ Heard(f, e.seen, e.queued, e.inflight, e.action)
BY DEF Entries, Heard

LEMMA EnqueueCounted ==
  ASSUME NEW e \in Entries, NEW f, f = [e EXCEPT !.queued = @ + 1]
  PROVE  f \in Entries /\ f.key = e.key /\ Heard(f, e.seen, e.queued + 1, e.inflight, e.action)
BY DEF Entries, Heard

\* An entry of k overwritten after its key was touched.
LEMMA TouchedMore ==
  ASSUME NEW t, Good(t), NEW k \in Keys, NEW n \in Nat, enabled, NEW w, w = touch(expireStaleEntriesLocked(t, n), k, n),
         NEW e \in Entries, e.key = k, NEW u, u = [w EXCEPT !.entries[w.index[k]] = e]
  PROVE  /\ Sound(t, u, k) /\ Tracked(u, k) /\ EntryOf(u, k) = e
<1> DEFINE v == expireStaleEntriesLocked(t, n)
<1>1. /\ Good(v) /\ \A x \in Keys : Tracked(v, x) => Tracked(t, x) /\ EntryOf(v, x) = EntryOf(t, x)
  BY Expired
<1>2. Good(w) /\ Isolated(v, w, k) /\ Tracked(w, k)
  <2> HIDE DEF v
  <2>1. w = touch(v, k, n)
    BY DEF v
  <2> QED
    BY <1>1, <2>1, Touched
<1>3. w.index[k] \in Slots /\ w.entries[w.index[k]].key = k
  BY <1>2, TrackedIndexed
<1>4. /\ Good(u) /\ u.index = w.index
      /\ \A x \in Keys : Tracked(u, x) <=> Tracked(w, x)
      /\ \A x \in Keys : Tracked(u, x) => EntryOf(u, x) = IF w.index[x] = w.index[k] THEN e ELSE EntryOf(w, x)
  BY <1>2, <1>3, Overwritten
<1>5. \A x \in Keys \ {k} : Tracked(w, x) => w.index[x] # w.index[k]
  BY <1>2, <1>3, TrackedIndexed
<1>6. Isolated(t, u, k)
  BY <1>1, <1>2, <1>4, <1>5 DEF Isolated
<1> QED
  BY <1>2, <1>4, <1>6 DEF Sound, Live

\* The entry a touched key has: what it had, or nothing.
TouchedFrom(t, w, k, n) ==
    /\ Tracked(w, k) /\ w \in Trackers /\ w.index[k] \in Slots /\ w.entries[w.index[k]] = EntryOf(w, k)
    /\ EntryOf(w, k) \in Entries /\ EntryOf(w, k).key = k
    /\ \/ Heard(EntryOf(w, k), n, 0, 0, "")
       \/ LET o == EntryOf(t, k) IN Tracked(t, k) /\ Heard(EntryOf(w, k), n, o.queued, o.inflight, o.action)

LEMMA TouchedEntry ==
  ASSUME NEW t, Good(t), NEW k \in Keys, NEW n \in Nat, enabled
  PROVE  TouchedFrom(t, touch(expireStaleEntriesLocked(t, n), k, n), k, n)
<1> DEFINE v == expireStaleEntriesLocked(t, n)
           w == touch(v, k, n)
<1>1. /\ Good(v) /\ \A x \in Keys : Tracked(v, x) => Tracked(t, x) /\ EntryOf(v, x) = EntryOf(t, x)
  BY Expired
<1>2. /\ Good(w) /\ Tracked(w, k)
      /\ \/ EntryOf(w, k) = FreshEntry(k, n)
         \/ Tracked(v, k) /\ EntryOf(w, k) = [EntryOf(v, k) EXCEPT !.seen = n]
  <2> HIDE DEF v
  <2> QED
    BY <1>1, Touched
<1> HIDE DEF v, w
<1>3. /\ w \in Trackers /\ w.index[k] \in Slots /\ w.entries[w.index[k]] = EntryOf(w, k)
      /\ EntryOf(w, k) \in Entries /\ EntryOf(w, k).key = k
  BY <1>2, TrackedIndexed DEF Good
<1>4. ASSUME EntryOf(w, k) = FreshEntry(k, n)
      PROVE  TouchedFrom(t, w, k, n)
  <2>1. Heard(EntryOf(w, k), n, 0, 0, "")
    <3>1. LET f == FreshEntry(k, n) IN f.seen = n /\ f.queued = 0 /\ f.inflight = 0 /\ f.action = ""
      BY FreshTyped
    <3> QED
      BY <1>4, <3>1 DEF Heard
  <2> QED
    BY <1>2, <1>3, <2>1 DEF TouchedFrom
<1>5. ASSUME Tracked(v, k), EntryOf(w, k) = [EntryOf(v, k) EXCEPT !.seen = n]
      PROVE  TouchedFrom(t, w, k, n)
  <2>1. Tracked(t, k) /\ EntryOf(w, k) = [EntryOf(t, k) EXCEPT !.seen = n] /\ EntryOf(t, k) \in Entries
    BY <1>1, <1>5, TrackedIndexed
  <2>2. LET o == EntryOf(t, k) IN Heard(EntryOf(w, k), n, o.queued, o.inflight, o.action)
    BY <2>1 DEF Heard, Entries
  <2> QED
    BY <1>2, <1>3, <2>1, <2>2 DEF TouchedFrom
<1>6. TouchedFrom(t, w, k, n)
  BY <1>2, <1>4, <1>5
<1> QED
  BY <1>6 DEF v, w

\* observeSubmit counts a submission, which no bound of a key is about.
LEMMA SubmitObserved ==
  ASSUME NEW t, Good(t), Live(t), NEW k \in Keys, NEW n \in Nat
  PROVE  LET u == observeSubmit(t, k, n)
             o == EntryOf(t, k) IN
         /\ Sound(t, u, k)
         /\ Tracked(u, k) => \/ Heard(EntryOf(u, k), n, 0, 0, "")
                             \/ Tracked(t, k) /\ Heard(EntryOf(u, k), n, o.queued, o.inflight, o.action)
<1>1. CASE ~enabled
  BY <1>1 DEF observeSubmit, Sound, Isolated, Live
<1>2. CASE enabled
  <2> DEFINE w == touch(expireStaleEntriesLocked(t, n), k, n)
             e == [EntryOf(w, k) EXCEPT !.submitted = @ + 1]
             u == [w EXCEPT !.entries[w.index[k]] = e]
             o == EntryOf(t, k)
  <2>1. /\ w \in Trackers /\ w.index[k] \in Slots /\ w.entries[w.index[k]] = EntryOf(w, k)
        /\ EntryOf(w, k) \in Entries /\ EntryOf(w, k).key = k
        /\ \/ Heard(EntryOf(w, k), n, 0, 0, "")
           \/ Tracked(t, k) /\ Heard(EntryOf(w, k), n, o.queued, o.inflight, o.action)
    <3>1. TouchedFrom(t, w, k, n)
      BY <1>2, TouchedEntry
    <3> HIDE DEF w
    <3> QED
      BY <3>1 DEF TouchedFrom
  <2>2. observeSubmit(t, k, n) = [w EXCEPT !.entries[w.index[k]].submitted = @ + 1]
    BY <1>2 DEF observeSubmit
  <2> HIDE DEF w
  <2>3. [w EXCEPT !.entries[w.index[k]].submitted = @ + 1] = u
    BY <2>1, TrackerParts
  <2>4. /\ e \in Entries /\ e.key = k
        /\ LET p == EntryOf(w, k) IN Heard(e, p.seen, p.queued, p.inflight, p.action)
    BY <2>1, SubmitCounted
  <2>5. Sound(t, u, k) /\ Tracked(u, k) /\ EntryOf(u, k) = e
    <3>1. w = touch(expireStaleEntriesLocked(t, n), k, n) /\ u = [w EXCEPT !.entries[w.index[k]] = e]
      BY DEF w
    <3> HIDE DEF e, u
    <3> QED
      BY <1>2, <2>4, <3>1, TouchedMore
  <2> HIDE DEF e, u
  <2> QED
    BY <2>1, <2>2, <2>3, <2>4, <2>5 DEF Heard
<1> QED
  BY <1>1, <1>2

\* observeEnqueue counts one more job as queued.
LEMMA EnqueueObserved ==
  ASSUME NEW t, Good(t), Live(t), NEW k \in Keys, NEW n \in Nat
  PROVE  LET u == observeEnqueue(t, k, n)
             o == EntryOf(t, k) IN
         /\ Sound(t, u, k)
         /\ Tracked(u, k) => \/ Heard(EntryOf(u, k), n, 1, 0, "")
                             \/ Tracked(t, k) /\ Heard(EntryOf(u, k), n, o.queued + 1, o.inflight, o.action)
<1>1. CASE ~enabled
  BY <1>1 DEF observeEnqueue, Sound, Isolated, Live
<1>2. CASE enabled
  <2> DEFINE w == touch(expireStaleEntriesLocked(t, n), k, n)
             e == [EntryOf(w, k) EXCEPT !.queued = @ + 1]
             u == [w EXCEPT !.entries[w.index[k]] = e]
             o == EntryOf(t, k)
  <2>1. /\ w \in Trackers /\ w.index[k] \in Slots /\ w.entries[w.index[k]] = EntryOf(w, k)
        /\ EntryOf(w, k) \in Entries /\ EntryOf(w, k).key = k
        /\ \/ Heard(EntryOf(w, k), n, 0, 0, "")
           \/ Tracked(t, k) /\ Heard(EntryOf(w, k), n, o.queued, o.inflight, o.action)
    <3>1. TouchedFrom(t, w, k, n)
      BY <1>2, TouchedEntry
    <3> HIDE DEF w
    <3> QED
      BY <3>1 DEF TouchedFrom
  <2>2. observeEnqueue(t, k, n) = [w EXCEPT !.entries[w.index[k]].queued = @ + 1]
    BY <1>2 DEF observeEnqueue
  <2> HIDE DEF w
  <2>3. [w EXCEPT !.entries[w.index[k]].queued = @ + 1] = u
    BY <2>1, TrackerParts
  <2>4. /\ e \in Entries /\ e.key = k
        /\ LET p == EntryOf(w, k) IN Heard(e, p.seen, p.queued + 1, p.inflight, p.action)
    BY <2>1, EnqueueCounted
  <2>5. Sound(t, u, k) /\ Tracked(u, k) /\ EntryOf(u, k) = e
    <3>1. w = touch(expireStaleEntriesLocked(t, n), k, n) /\ u = [w EXCEPT !.entries[w.index[k]] = e]
      BY DEF w
    <3> HIDE DEF e, u
    <3> QED
      BY <1>2, <2>4, <3>1, TouchedMore
  <2> HIDE DEF e, u
  <2>6. \/ e.seen = n /\ e.queued = 1 /\ e.inflight = 0 /\ e.action = ""
        \/ Tracked(t, k) /\ e.seen = n /\ e.queued = o.queued + 1 /\ e.inflight = o.inflight /\ e.action = o.action
    <3>1. CASE Heard(EntryOf(w, k), n, 0, 0, "")
      <4>1. LET p == EntryOf(w, k) IN p.seen = n /\ p.queued = 0 /\ p.inflight = 0 /\ p.action = ""
        BY <3>1 DEF Heard
      <4>2. LET p == EntryOf(w, k) IN e.seen = p.seen /\ e.queued = p.queued + 1 /\ e.inflight = p.inflight /\ e.action = p.action
        BY <2>4 DEF Heard
      <4>3. e.queued = 1
        <5>1. EntryOf(w, k).queued = 0 /\ e.queued = EntryOf(w, k).queued + 1
          BY <4>1, <4>2
        <5>2. e.queued = 0 + 1
          BY <5>1
        <5> QED
          BY <5>2
      <4> QED
        BY <4>1, <4>2, <4>3
    <3>2. CASE Tracked(t, k) /\ Heard(EntryOf(w, k), n, o.queued, o.inflight, o.action)
      BY <3>2, <2>4 DEF Heard
    <3> QED
      BY <2>1, <3>1, <3>2
  <2> QED
    BY <2>2, <2>3, <2>5, <2>6 DEF Heard
<1> QED
  BY <1>1, <1>2

\* What ObserveExisting does with the entry it finds, whatever is put in its place.
Found(t, k, n) == maybeResetEntry(t, t.index[k], n).entries[t.index[k]]
Put(t, k, n, e) == [maybeResetEntry(t, t.index[k], n) EXCEPT !.entries[t.index[k]] = e]

LEMMA Existing ==
  ASSUME NEW t, Good(t), NEW k, Tracked(t, k), NEW n \in Nat, enabled, NEW e \in Entries, e.key = Found(t, k, n).key
  PROVE  LET u == Put(t, k, n, e) IN
         /\ Sound(t, u, k)
         /\ Tracked(u, k) => EntryOf(u, k) = e /\ Found(t, k, n) = EntryOf(t, k)
<1> DEFINE i == t.index[k]
           w == maybeResetEntry(t, i, n)
           u == [w EXCEPT !.entries[i] = e]
<1>1. i \in Slots /\ k \in Keys /\ t.entries[i] = EntryOf(t, k) /\ t.entries[i].key = k
  BY TrackedIndexed
<1>2. Good(w) /\ Isolated(t, w, k) /\ (Tracked(w, k) => w = t)
  <2>1. CASE hotKeyEntryStale(t.entries[i], n)
    <3>1. w = clearEntry(t, i)
      BY <2>1 DEF maybeResetEntry
    <3> QED
      BY <3>1, ClearedOne
  <2>2. CASE ~hotKeyEntryStale(t.entries[i], n)
    BY <2>2 DEF maybeResetEntry, Isolated
  <2> QED
    BY <2>1, <2>2
<1>3. Found(t, k, n) = w.entries[i] /\ Put(t, k, n, e) = u
  BY DEF Found, Put
<1> HIDE DEF w
<1>4. /\ Good(u) /\ u.index = w.index
      /\ \A x \in Keys : Tracked(u, x) <=> Tracked(w, x)
      /\ \A x \in Keys : Tracked(u, x) => EntryOf(u, x) = IF w.index[x] = i THEN e ELSE EntryOf(w, x)
  <2> HIDE DEF u, i
  <2>1. u = [w EXCEPT !.entries[i] = e]
    BY DEF u
  <2> QED
    BY <1>1, <1>2, <1>3, <2>1, Overwritten
<1> HIDE DEF u
<1>5. ASSUME NEW x \in Keys \ {k}, Tracked(u, x)
      PROVE  Tracked(t, x) /\ EntryOf(u, x) = EntryOf(t, x)
  <2>1. Tracked(w, x) /\ Tracked(t, x) /\ EntryOf(w, x) = EntryOf(t, x)
    BY <1>2, <1>4, <1>5 DEF Isolated
  <2>2. CASE w.index[x] = i
    <3>1. EntryOf(w, x) = w.entries[i] /\ EntryOf(w, x).key = x
      BY <1>2, <2>1, <2>2, TrackedIndexed
    <3>2. EntryOf(u, x) = e
      BY <1>4, <1>5, <2>2
    <3>3. EntryOf(u, x).key = x
      BY <1>4, <1>5, TrackedIndexed
    <3>4. CASE hotKeyEntryStale(t.entries[i], n)
      <4>1. w.entries[i] = EmptyEntry
        BY <3>4, ClearedOne DEF w, maybeResetEntry
      <4> QED
        BY <4>1, <3>1, EmptyTyped, HotKeysAssumption
    <3>5. CASE ~hotKeyEntryStale(t.entries[i], n)
      <4>1. w = t
        BY <3>5 DEF w, maybeResetEntry
      <4> QED
        BY <4>1, <3>1, <1>1
    <3> QED
      BY <3>4, <3>5
  <2> QED
    BY <2>1, <2>2, <1>4, <1>5
<1>6. Tracked(u, k) => EntryOf(u, k) = e /\ w.entries[i] = EntryOf(t, k)
  BY <1>1, <1>2, <1>4
<1> QED
  BY <1>3, <1>4, <1>5, <1>6 DEF Sound, Live, Isolated

LEMMA FoundTyped ==
  ASSUME NEW t, Good(t), NEW k, Tracked(t, k), NEW n
  PROVE  Found(t, k, n) \in Entries
<1> DEFINE i == t.index[k]
<1>1. i \in Slots /\ t.entries[i] \in Entries
  BY TrackedIndexed
<1>2. CASE hotKeyEntryStale(t.entries[i], n)
  BY <1>2, ClearedOne, EmptyTyped DEF Found, maybeResetEntry
<1>3. CASE ~hotKeyEntryStale(t.entries[i], n)
  BY <1>1, <1>3 DEF Found, maybeResetEntry
<1> QED
  BY <1>2, <1>3

\* An entry of k afterwards, if there is one, is the one it had, changed by what was heard.
KeptAs(t, u, k, n, queued, inflight) ==
    Tracked(u, k) => Tracked(t, k) /\ Heard(EntryOf(u, k), n, queued, inflight, EntryOf(t, k).action)

LEMMA DequeueCounted ==
  ASSUME NEW f \in Entries, NEW n \in Nat, NEW e, e = [[f EXCEPT !.queued = Decremented(@)] EXCEPT !.seen = n]
  PROVE  e \in Entries /\ e.key = f.key /\ Heard(e, n, Decremented(f.queued), f.inflight, f.action)
<1>1. Decremented(f.queued) \in Nat
  BY DEF Decremented, Entries
<1> QED
  BY <1>1 DEF Entries, Heard

LEMMA DequeueObserved ==
  ASSUME NEW t, Good(t), Live(t), NEW k \in Keys, NEW n \in Nat
  PROVE  LET u == observeDequeue(t, k, n) IN
         Sound(t, u, k) /\ KeptAs(t, u, k, n, Decremented(EntryOf(t, k).queued), EntryOf(t, k).inflight)
<1>1. CASE ~Tracked(t, k) \/ ~enabled
  <2>1. observeDequeue(t, k, n) = t /\ ~Tracked(t, k)
    BY <1>1 DEF observeDequeue, ObserveExisting, Live
  <2> QED
    BY <2>1 DEF KeptAs, Sound, Isolated
<1>2. CASE Tracked(t, k) /\ enabled
  <2> DEFINE f == Found(t, k, n)
             e == [[f EXCEPT !.queued = Decremented(@)] EXCEPT !.seen = n]
             u == Put(t, k, n, e)
             o == EntryOf(t, k)
  <2>1. observeDequeue(t, k, n) = u
    BY <1>2 DEF observeDequeue, ObserveExisting, Found, Put
  <2>2. f \in Entries
    BY <1>2, FoundTyped
  <2> HIDE DEF f
  <2>3. e \in Entries /\ e.key = f.key /\ Heard(e, n, Decremented(f.queued), f.inflight, f.action)
    BY <2>2, DequeueCounted
  <2> HIDE DEF e
  <2>4. Sound(t, u, k) /\ (Tracked(u, k) => EntryOf(u, k) = e /\ f = o)
    BY <1>2, <2>3, Existing DEF f
  <2> HIDE DEF u
  <2>5. KeptAs(t, u, k, n, Decremented(o.queued), o.inflight)
    BY <1>2, <2>3, <2>4 DEF KeptAs
  <2> QED
    BY <2>1, <2>4, <2>5
<1> QED
  BY <1>1, <1>2
LEMMA RejectCounted ==
  ASSUME NEW f \in Entries, NEW n \in Nat, NEW e, e = [[f EXCEPT !.rejected = @ + 1] EXCEPT !.seen = n]
  PROVE  e \in Entries /\ e.key = f.key /\ Heard(e, n, f.queued, f.inflight, f.action)
<1>1. f.rejected + 1 \in Nat
  BY DEF Entries
<1> QED
  BY <1>1 DEF Entries, Heard

LEMMA RejectObserved ==
  ASSUME NEW t, Good(t), Live(t), NEW k \in Keys, NEW n \in Nat
  PROVE  LET u == observeReject(t, k, n) IN
         Sound(t, u, k) /\ KeptAs(t, u, k, n, EntryOf(t, k).queued, EntryOf(t, k).inflight)
<1>1. CASE ~Tracked(t, k) \/ ~enabled
  <2>1. observeReject(t, k, n) = t /\ ~Tracked(t, k)
    BY <1>1 DEF observeReject, ObserveExisting, Live
  <2> QED
    BY <2>1 DEF KeptAs, Sound, Isolated
<1>2. CASE Tracked(t, k) /\ enabled
  <2> DEFINE f == Found(t, k, n)
             e == [[f EXCEPT !.rejected = @ + 1] EXCEPT !.seen = n]
             u == Put(t, k, n, e)
             o == EntryOf(t, k)
  <2>1. observeReject(t, k, n) = u
    BY <1>2 DEF observeReject, ObserveExisting, Found, Put
  <2>2. f \in Entries
    BY <1>2, FoundTyped
  <2> HIDE DEF f
  <2>3. e \in Entries /\ e.key = f.key /\ Heard(e, n, f.queued, f.inflight, f.action)
    BY <2>2, RejectCounted
  <2> HIDE DEF e
  <2>4. Sound(t, u, k) /\ (Tracked(u, k) => EntryOf(u, k) = e /\ f = o)
    BY <1>2, <2>3, Existing DEF f
  <2> HIDE DEF u
  <2>5. KeptAs(t, u, k, n, o.queued, o.inflight)
    BY <1>2, <2>3, <2>4 DEF KeptAs
  <2> QED
    BY <2>1, <2>4, <2>5
<1> QED
  BY <1>1, <1>2
LEMMA InflightStartCounted ==
  ASSUME NEW f \in Entries, NEW n \in Nat, NEW e, e = [[f EXCEPT !.inflight = @ + 1] EXCEPT !.seen = n]
  PROVE  e \in Entries /\ e.key = f.key /\ Heard(e, n, f.queued, f.inflight + 1, f.action)
<1>1. f.inflight + 1 \in Nat
  BY DEF Entries
<1> QED
  BY <1>1 DEF Entries, Heard

LEMMA InflightStartObserved ==
  ASSUME NEW t, Good(t), Live(t), NEW k \in Keys, NEW n \in Nat
  PROVE  LET u == observeInflightStart(t, k, n) IN
         Sound(t, u, k) /\ KeptAs(t, u, k, n, EntryOf(t, k).queued, EntryOf(t, k).inflight + 1)
<1>1. CASE ~Tracked(t, k) \/ ~enabled
  <2>1. observeInflightStart(t, k, n) = t /\ ~Tracked(t, k)
    BY <1>1 DEF observeInflightStart, ObserveExisting, Live
  <2> QED
    BY <2>1 DEF KeptAs, Sound, Isolated
<1>2. CASE Tracked(t, k) /\ enabled
  <2> DEFINE f == Found(t, k, n)
             e == [[f EXCEPT !.inflight = @ + 1] EXCEPT !.seen = n]
             u == Put(t, k, n, e)
             o == EntryOf(t, k)
  <2>1. observeInflightStart(t, k, n) = u
    BY <1>2 DEF observeInflightStart, ObserveExisting, Found, Put
  <2>2. f \in Entries
    BY <1>2, FoundTyped
  <2> HIDE DEF f
  <2>3. e \in Entries /\ e.key = f.key /\ Heard(e, n, f.queued, f.inflight + 1, f.action)
    BY <2>2, InflightStartCounted
  <2> HIDE DEF e
  <2>4. Sound(t, u, k) /\ (Tracked(u, k) => EntryOf(u, k) = e /\ f = o)
    BY <1>2, <2>3, Existing DEF f
  <2> HIDE DEF u
  <2>5. KeptAs(t, u, k, n, o.queued, o.inflight + 1)
    BY <1>2, <2>3, <2>4 DEF KeptAs
  <2> QED
    BY <2>1, <2>4, <2>5
<1> QED
  BY <1>1, <1>2
LEMMA InflightEndCounted ==
  ASSUME NEW f \in Entries, NEW n \in Nat, NEW e, e = [[f EXCEPT !.inflight = Decremented(@)] EXCEPT !.seen = n]
  PROVE  e \in Entries /\ e.key = f.key /\ Heard(e, n, f.queued, Decremented(f.inflight), f.action)
<1>1. Decremented(f.inflight) \in Nat
  BY DEF Decremented, Entries
<1> QED
  BY <1>1 DEF Entries, Heard

LEMMA InflightEndObserved ==
  ASSUME NEW t, Good(t), Live(t), NEW k \in Keys, NEW n \in Nat
  PROVE  LET u == observeInflightEnd(t, k, n) IN
         Sound(t, u, k) /\ KeptAs(t, u, k, n, EntryOf(t, k).queued, Decremented(EntryOf(t, k).inflight))
<1>1. CASE ~Tracked(t, k) \/ ~enabled
  <2>1. observeInflightEnd(t, k, n) = t /\ ~Tracked(t, k)
    BY <1>1 DEF observeInflightEnd, ObserveExisting, Live
  <2> QED
    BY <2>1 DEF KeptAs, Sound, Isolated
<1>2. CASE Tracked(t, k) /\ enabled
  <2> DEFINE f == Found(t, k, n)
             e == [[f EXCEPT !.inflight = Decremented(@)] EXCEPT !.seen = n]
             u == Put(t, k, n, e)
             o == EntryOf(t, k)
  <2>1. observeInflightEnd(t, k, n) = u
    BY <1>2 DEF observeInflightEnd, ObserveExisting, Found, Put
  <2>2. f \in Entries
    BY <1>2, FoundTyped
  <2> HIDE DEF f
  <2>3. e \in Entries /\ e.key = f.key /\ Heard(e, n, f.queued, Decremented(f.inflight), f.action)
    BY <2>2, InflightEndCounted
  <2> HIDE DEF e
  <2>4. Sound(t, u, k) /\ (Tracked(u, k) => EntryOf(u, k) = e /\ f = o)
    BY <1>2, <2>3, Existing DEF f
  <2> HIDE DEF u
  <2>5. KeptAs(t, u, k, n, o.queued, Decremented(o.inflight))
    BY <1>2, <2>3, <2>4 DEF KeptAs
  <2> QED
    BY <2>1, <2>4, <2>5
<1> QED
  BY <1>1, <1>2

LEMMA WaitCounted ==
  ASSUME NEW f \in Entries, NEW n \in Nat, NEW d \in Nat, NEW e, e = [[f EXCEPT !.wait = @ + d] EXCEPT !.seen = n]
  PROVE  e \in Entries /\ e.key = f.key /\ Heard(e, n, f.queued, f.inflight, f.action)
<1>1. f.wait + d \in Nat
  BY DEF Entries
<1> QED
  BY <1>1 DEF Entries, Heard

\* A job that did not wait is not heard of.
LEMMA WaitObserved ==
  ASSUME NEW t, Good(t), Live(t), NEW k \in Keys, NEW n \in Nat, NEW d \in Nat
  PROVE  LET u == observeQueueWait(t, k, d, n) IN
         /\ Sound(t, u, k)
         /\ u = t \/ KeptAs(t, u, k, n, EntryOf(t, k).queued, EntryOf(t, k).inflight)
<1>1. CASE ~Tracked(t, k) \/ ~enabled \/ d = 0
  <2>1. observeQueueWait(t, k, d, n) = t
    BY <1>1 DEF observeQueueWait, ObserveExisting, Live
  <2> QED
    BY <2>1 DEF Sound, Isolated
<1>2. CASE Tracked(t, k) /\ enabled /\ d # 0
  <2> DEFINE f == Found(t, k, n)
             e == [[f EXCEPT !.wait = @ + d] EXCEPT !.seen = n]
             u == Put(t, k, n, e)
             o == EntryOf(t, k)
  <2>1. observeQueueWait(t, k, d, n) = u
    BY <1>2 DEF observeQueueWait, ObserveExisting, Found, Put
  <2>2. f \in Entries
    BY <1>2, FoundTyped
  <2> HIDE DEF f
  <2>3. e \in Entries /\ e.key = f.key /\ Heard(e, n, f.queued, f.inflight, f.action)
    BY <2>2, WaitCounted
  <2> HIDE DEF e
  <2>4. Sound(t, u, k) /\ (Tracked(u, k) => EntryOf(u, k) = e /\ f = o)
    BY <1>2, <2>3, Existing DEF f
  <2> HIDE DEF u
  <2>5. KeptAs(t, u, k, n, o.queued, o.inflight)
    BY <1>2, <2>3, <2>4 DEF KeptAs
  <2> QED
    BY <2>1, <2>4, <2>5
<1> QED
  BY <1>1, <1>2

\* The two calls with which a worker starts a job.
LEMMA StartObserved ==
  ASSUME NEW t, Good(t), Live(t), NEW k \in Keys, NEW n \in Nat
  PROVE  LET u == observeInflightStart(observeDequeue(t, k, n), k, n) IN
         Sound(t, u, k) /\ KeptAs(t, u, k, n, Decremented(EntryOf(t, k).queued), EntryOf(t, k).inflight + 1)
<1> DEFINE w == observeDequeue(t, k, n)
           u == observeInflightStart(w, k, n)
           o == EntryOf(t, k)
<1>1. Sound(t, w, k) /\ KeptAs(t, w, k, n, Decremented(o.queued), o.inflight)
  BY DequeueObserved
<1> HIDE DEF w
<1>2. Sound(w, u, k) /\ KeptAs(w, u, k, n, EntryOf(w, k).queued, EntryOf(w, k).inflight + 1)
  BY <1>1, InflightStartObserved DEF Sound
<1> HIDE DEF u
<1>3. Sound(t, u, k)
  BY <1>1, <1>2 DEF Sound, Isolated
<1>4. KeptAs(t, u, k, n, Decremented(o.queued), o.inflight + 1)
  <2> SUFFICES ASSUME Tracked(u, k)
               PROVE  Tracked(t, k) /\ Heard(EntryOf(u, k), n, Decremented(o.queued), o.inflight + 1, o.action)
    BY DEF KeptAs
  <2>1. Tracked(w, k) /\ Heard(EntryOf(u, k), n, EntryOf(w, k).queued, EntryOf(w, k).inflight + 1, EntryOf(w, k).action)
    BY <1>2 DEF KeptAs
  <2>2. Tracked(t, k) /\ Heard(EntryOf(w, k), n, Decremented(o.queued), o.inflight, o.action)
    BY <1>1, <2>1 DEF KeptAs
  <2> QED
    BY <2>1, <2>2 DEF Heard
<1> QED
  BY <1>3, <1>4 DEF u, w

-----------------------------------------------------------------------------
(* What per-key admission decides. *)

Mitigations == {"allow", "throttle", "reject", "shed"}

LEMMA PerKeyTyped ==
  /\ {PerKeyConfig.maxQueued, PerKeyConfig.maxInflight, PerKeyConfig.cooldown, PerKeyConfig.recovery} \subseteq Int
  /\ PerKeyConfig.enabled \in BOOLEAN
  /\ PerKeyConfig.enabled => PerKeyConfig.defaultAction \in Mitigations
<1>1. PerKeyAdmission \in [enabled : BOOLEAN, minStatus : STRING, defaultAction : STRING, maxQueued : Int,
                          maxInflight : Int, pressureRatio : Int, rejectRatio : Int, cooldown : Int, recovery : Int]
  BY AdmissionAssumption
<1>2. CASE ~PerKeyAdmission.enabled
  BY <1>1, <1>2 DEF PerKeyConfig, NormalizePerKeyAdmissionConfig
<1>3. CASE PerKeyAdmission.enabled
  <2>1. PerKeyConfig.enabled
    BY <1>1, <1>3 DEF PerKeyConfig, NormalizePerKeyAdmissionConfig
  <2>2. PerKeyConfig.defaultAction = IF PerKeyAdmission.defaultAction = "" THEN "throttle" ELSE PerKeyAdmission.defaultAction
    BY <1>1, <1>3 DEF PerKeyConfig, NormalizePerKeyAdmissionConfig
  <2>3. ValidatePerKeyAdmissionConfig(PerKeyConfig, HotKeyConfig)
    BY AdmissionAssumption DEF PerKeyConfig
  <2>4. PerKeyConfig.defaultAction \in {"allow", "throttle", "reject", "shed", ""}
    BY <2>1, <2>3 DEF ValidatePerKeyAdmissionConfig
  <2>5. PerKeyConfig.defaultAction \in Mitigations
    BY <2>2, <2>4 DEF Mitigations
  <2>6. /\ PerKeyConfig.maxQueued = PerKeyAdmission.maxQueued /\ PerKeyConfig.maxInflight = PerKeyAdmission.maxInflight
        /\ PerKeyConfig.cooldown = IF PerKeyAdmission.cooldown <= 0 THEN 10 ELSE PerKeyAdmission.cooldown
        /\ PerKeyConfig.recovery = IF PerKeyAdmission.recovery <= 0 THEN 30 ELSE PerKeyAdmission.recovery
    BY <1>1, <1>3 DEF PerKeyConfig, NormalizePerKeyAdmissionConfig
  <2> QED
    BY <1>1, <2>1, <2>5, <2>6
<1> QED
  BY <1>1, <1>2, <1>3

\* A refusal has a reason, and the reason is in the entry.
Justified(v, e, c) ==
    /\ v.kind \in {"recover", "pass", "decide"} /\ v.action \in Mitigations
    /\ v.kind # "decide" => v.action = "allow"
    /\ v.action # "allow" => v.reason \in Reasons
    /\ v.reason = "max_queued_per_key" => e.queued >= c.maxQueued
    /\ v.reason = "max_inflight_per_key" => e.inflight >= c.maxInflight
    /\ v.reason = "cooldown_active" => e.action \notin {"allow", ""}

LEMMA VerdictJustified ==
  ASSUME NEW e \in Entries, NEW hot, NEW p, NEW c, NEW n, c.defaultAction \in Mitigations
  PROVE  Justified(Verdict(e, hot, p, c, n), e, c)
<1> DEFINE v == Verdict(e, hot, p, c, n)
           recovered == e.recovery > 0 /\ n >= e.recovery /\ hot.status = "none"
           rejecting == e.submitted > 0 /\ c.rejectRatio > 0 /\ AtLeast(<<e.rejected, e.submitted>>, Percent(c.rejectRatio))
           cooling == e.cooldown > n /\ e.action \notin {"allow", ""}
           meets == statusMeetsMin(hot.status, c.minStatus)
           hotReason == IF hot.status = "dominant" THEN "dominant_hot_key" ELSE "hot_key_candidate"
           decide(action, reason) == [kind |-> "decide", action |-> action, reason |-> reason]
           allow(kind) == [kind |-> kind, action |-> "allow", reason |-> "none"]
<1>1. \/ v = allow("recover") \/ v = allow("pass")
      \/ v = decide("throttle", "max_queued_per_key") /\ e.queued >= c.maxQueued
      \/ v = decide("throttle", "max_inflight_per_key") /\ e.inflight >= c.maxInflight
      \/ v = decide(IF c.defaultAction \in {"allow", "throttle"} THEN "reject" ELSE c.defaultAction, hotReason)
      \/ v = decide(e.action, "cooldown_active") /\ e.action \notin {"allow", ""}
      \/ v = decide(c.defaultAction, "shard_overloaded")
      \/ v = decide(IF c.defaultAction = "allow" THEN "throttle" ELSE c.defaultAction, hotReason)
  BY DEF Verdict
<1>2. \A a \in Mitigations : \A r \in {"shard_overloaded", "hot_key_candidate", "dominant_hot_key"} :
         Justified(decide(a, r), e, c)
  BY DEF Justified, Mitigations, Reasons
<1>3. e.action \in Actions
  BY DEF Entries
<1>4. hotReason \in {"hot_key_candidate", "dominant_hot_key"}
  OBVIOUS
<1>5. Justified(allow("recover"), e, c) /\ Justified(allow("pass"), e, c)
  BY DEF Justified, Mitigations
<1>6. e.queued >= c.maxQueued => Justified(decide("throttle", "max_queued_per_key"), e, c)
  BY DEF Justified, Mitigations, Reasons
<1>7. e.inflight >= c.maxInflight => Justified(decide("throttle", "max_inflight_per_key"), e, c)
  BY DEF Justified, Mitigations, Reasons
<1>8. e.action \notin {"allow", ""} => Justified(decide(e.action, "cooldown_active"), e, c)
  BY <1>3 DEF Justified, Mitigations, Reasons, Actions
<1>9. /\ (IF c.defaultAction \in {"allow", "throttle"} THEN "reject" ELSE c.defaultAction) \in Mitigations
      /\ (IF c.defaultAction = "allow" THEN "throttle" ELSE c.defaultAction) \in Mitigations
  BY DEF Mitigations
<1> HIDE DEF v, hotReason, decide, allow
<1> QED
  BY <1>1, <1>2, <1>4, <1>5, <1>6, <1>7, <1>8, <1>9 DEF v

\* The decision leaves the counts alone.
LEMMA DecisionFinished ==
  ASSUME NEW e \in Entries, NEW v, v.kind \in {"recover", "pass", "decide"}, v.action \in Mitigations, NEW n \in Nat
  PROVE  LET f == finishPerKeyDecision(e, v, PerKeyConfig, n) IN
         /\ f \in Entries /\ f.key = e.key
         /\ Heard(f, IF v.kind = "decide" THEN n ELSE e.seen, e.queued, e.inflight,
                  IF v.kind = "decide" THEN v.action ELSE IF v.kind = "recover" THEN "allow" ELSE e.action)
<1> DEFINE armed(old, d) == IF v.action # "allow" /\ d > 0 THEN n + d ELSE old
           f == finishPerKeyDecision(e, v, PerKeyConfig, n)
<1>1. CASE v.kind = "recover"
  <2>1. f = [e EXCEPT !.action = "allow", !.cooldown = 0, !.recovery = 0]
    BY <1>1 DEF finishPerKeyDecision
  <2> HIDE DEF f
  <2>2. f \in Entries /\ f.key = e.key
    BY <2>1 DEF Entries, Actions
  <2>3. f.seen = e.seen /\ f.queued = e.queued /\ f.inflight = e.inflight /\ f.action = "allow"
    BY <2>1 DEF Entries
  <2> QED
    BY <1>1, <2>2, <2>3 DEF Heard, f
<1>2. CASE v.kind = "pass"
  <2>1. f = e
    BY <1>2 DEF finishPerKeyDecision
  <2> QED
    BY <1>2, <2>1 DEF Heard
<1>3. CASE v.kind = "decide"
  <2> DEFINE cool == armed(e.cooldown, PerKeyConfig.cooldown)
             rec == armed(e.recovery, PerKeyConfig.recovery)
  <2>1. cool \in Nat /\ rec \in Nat
    BY PerKeyTyped DEF Entries
  <2>2. f = [e EXCEPT !.action = v.action, !.seen = n, !.cooldown = cool, !.recovery = rec]
    BY <1>3 DEF finishPerKeyDecision
  <2>3. v.action \in Actions
    BY DEF Actions, Mitigations
  <2> HIDE DEF cool, rec, f
  <2>4. f \in Entries /\ f.key = e.key
    BY <2>1, <2>2, <2>3 DEF Entries
  <2>5. f.seen = n /\ f.queued = e.queued /\ f.inflight = e.inflight /\ f.action = v.action
    BY <2>2 DEF Entries
  <2> QED
    BY <1>3, <2>4, <2>5 DEF Heard, f
<1> QED
  BY <1>1, <1>2, <1>3

\* The decision for a key, and the entry it leaves.
Marked(v, n, o, e) ==
    Heard(e, IF v.kind = "decide" THEN n ELSE o.seen, o.queued, o.inflight,
          IF v.kind = "decide" THEN v.action ELSE IF v.kind = "recover" THEN "allow" ELSE o.action)

LEMMA Evaluated ==
  ASSUME NEW t, Good(t), Live(t), NEW k \in Keys, NEW shard, NEW p, NEW n \in Nat
  PROVE  LET r == evaluatePerKeyAdmission(t, k, shard, p, PerKeyConfig, n)
             v == r.verdict IN
         /\ Sound(t, r.tracker, k)
         /\ v.action \in Mitigations /\ (v.action # "allow" => v.kind = "decide")
         /\ v.kind = "decide" => /\ Tracked(t, k) /\ ~hotKeyEntryStale(EntryOf(t, k), n) /\ enabled
                                 /\ Justified(v, EntryOf(t, k), PerKeyConfig)
         /\ Tracked(r.tracker, k) => Tracked(t, k) /\ Marked(v, n, EntryOf(t, k), EntryOf(r.tracker, k))
<1> DEFINE r == evaluatePerKeyAdmission(t, k, shard, p, PerKeyConfig, n)
           u == expireStaleEntriesLocked(t, n)
           v == Verdict(EntryOf(u, k), entryHotKeyStatus(EntryOf(u, k), shard, TotalsOver(u, InUse(u))), p, PerKeyConfig, n)
           f == finishPerKeyDecision(EntryOf(u, k), v, PerKeyConfig, n)
           w == [u EXCEPT !.entries[u.index[k]] = f]
<1>1. /\ Good(u)
      /\ \A x \in Keys : Tracked(u, x) => Tracked(t, x) /\ EntryOf(u, x) = EntryOf(t, x) /\ ~hotKeyEntryStale(EntryOf(u, x), n)
  BY Expired
<1>2. r = IF ~enabled \/ ~PerKeyConfig.enabled THEN [verdict |-> NoEntryVerdict, tracker |-> t]
          ELSE IF ~Tracked(u, k) THEN [verdict |-> NoEntryVerdict, tracker |-> u]
          ELSE [verdict |-> v, tracker |-> [u EXCEPT !.entries[u.index[k]] = finishPerKeyDecision(@, v, PerKeyConfig, n)]]
  BY DEF evaluatePerKeyAdmission
<1>3. /\ NoEntryVerdict.kind = "pass" /\ NoEntryVerdict.action = "allow" /\ "allow" \in Mitigations
  BY DEF NoEntryVerdict, Mitigations
<1>4. CASE ~enabled \/ ~PerKeyConfig.enabled
  <2>1. r.verdict = NoEntryVerdict /\ r.tracker = t
    BY <1>2, <1>4
  <2> HIDE DEF r
  <2>2. Sound(t, r.tracker, k)
    BY <2>1 DEF Sound, Isolated
  <2>3. Marked(NoEntryVerdict, n, EntryOf(t, k), EntryOf(t, k))
    BY <1>3 DEF Marked, Heard
  <2> QED
    BY <1>3, <2>1, <2>2, <2>3 DEF r
<1>5. CASE enabled /\ PerKeyConfig.enabled /\ ~Tracked(u, k)
  <2>1. r.verdict = NoEntryVerdict /\ r.tracker = u
    BY <1>2, <1>5
  <2> HIDE DEF r
  <2>2. Sound(t, r.tracker, k)
    BY <1>1, <1>5, <2>1 DEF Sound, Isolated, Live
  <2> QED
    BY <1>3, <1>5, <2>1, <2>2 DEF r
<1>6. CASE enabled /\ PerKeyConfig.enabled /\ Tracked(u, k)
  <2> HIDE DEF u
  <2>1. u.index[k] \in Slots /\ u.entries[u.index[k]] = EntryOf(u, k) /\ EntryOf(u, k) \in Entries /\ EntryOf(u, k).key = k
    BY <1>1, <1>6, TrackedIndexed
  <2>2. Justified(v, EntryOf(u, k), PerKeyConfig)
    BY <1>6, <2>1, PerKeyTyped, VerdictJustified
  <2> HIDE DEF v
  <2>3. v.kind \in {"recover", "pass", "decide"} /\ v.action \in Mitigations /\ (v.action # "allow" => v.kind = "decide")
    BY <2>2 DEF Justified
  <2>4. f \in Entries /\ f.key = k /\ Marked(v, n, EntryOf(u, k), f)
    BY <2>1, <2>3, DecisionFinished DEF Marked
  <2>5. u \in Trackers
    BY <1>1 DEF Good
  <2>6. [u EXCEPT !.entries[u.index[k]] = finishPerKeyDecision(@, v, PerKeyConfig, n)] = w
    BY <2>1, <2>5, TrackerParts
  <2>7. r.verdict = v /\ r.tracker = w
    BY <1>2, <1>6, <2>6
  <2> HIDE DEF f
  <2>8. /\ Good(w) /\ w.index = u.index
        /\ \A x \in Keys : Tracked(w, x) <=> Tracked(u, x)
        /\ \A x \in Keys : Tracked(w, x) => EntryOf(w, x) = IF u.index[x] = u.index[k] THEN f ELSE EntryOf(u, x)
    <3> HIDE DEF w
    <3>1. w = [u EXCEPT !.entries[u.index[k]] = f]
      BY DEF w
    <3> QED
      BY <1>1, <2>1, <2>4, <3>1, Overwritten
  <2> HIDE DEF w
  <2>9. \A x \in Keys \ {k} : Tracked(u, x) => u.index[x] # u.index[k]
    BY <1>1, <2>1, TrackedIndexed
  <2>10. Sound(t, w, k)
    BY <1>1, <1>6, <2>8, <2>9 DEF Sound, Isolated, Live
  <2>11. Tracked(t, k) /\ EntryOf(u, k) = EntryOf(t, k) /\ ~hotKeyEntryStale(EntryOf(t, k), n)
    BY <1>1, <1>6
  <2>12. EntryOf(w, k) = f
    BY <1>6, <2>8
  <2>13. Marked(v, n, EntryOf(t, k), EntryOf(w, k))
    BY <2>4, <2>11, <2>12
  <2> HIDE DEF r
  <2> QED
    BY <1>6, <2>2, <2>3, <2>7, <2>10, <2>11, <2>13 DEF r
<1> QED
  BY <1>4, <1>5, <1>6, PerKeyTyped

-----------------------------------------------------------------------------
(* Types. *)

Labels == {"overload", "admission", "perkey", "reject", "enqueue", "push", "observe"}
JobStates == {"none", "queued", "batch", "started", "running", "done", "dropped"}
Jobs == [st : JobStates, early : BOOLEAN, acceptedAt : Nat]

EnvTypes ==
    /\ load \in Workloads /\ now \in 1..(load.ticks + 1)
    /\ state \in {"running", "stopping"} /\ cancelled \in BOOLEAN
    /\ upd.pc \in {"idle", "overload", "admission", "done"}
LaneTypes ==
    /\ lanes \in [Shards -> [Lanes -> Seq(Reqs)]]
    /\ \A s \in Shards : \A l \in Lanes : Len(lanes[s][l]) <= QueueSize
TrackerTypes ==
    /\ tracker \in [Shards -> Trackers]
    /\ \A s \in Shards : Good(tracker[s]) /\ Live(tracker[s])
CallTypes == pc \in [Callers -> Labels] /\ pos \in [Callers -> Nat \ {0}] /\ outcome \in [Reqs -> Outcomes]
JobTypes == job \in [Reqs -> Jobs] /\ \A r \in Reqs : job[r].acceptedAt <= now
StatTypes ==
    /\ shardWait \in [Shards -> Nat] /\ counters \in [Lanes -> [CounterNames -> Nat]]
    /\ lastObserved \in [Keys -> Nat]
Types == EnvTypes /\ LaneTypes /\ TrackerTypes /\ CallTypes /\ JobTypes /\ StatTypes

\* Only these variables matter to the types of callers, jobs and lanes.
LEMMA Sorts ==
  /\ KeyOf \in [Reqs -> Keys] /\ LaneOf \in [Reqs -> Lanes] /\ ShardOf \in [Keys -> Shards]
  /\ \A r \in Reqs : Shard(r) \in Shards /\ KeyOf[r] \in Keys /\ LaneOf[r] \in Lanes /\ Shard(r) = ShardOf[KeyOf[r]]
BY AdmissionAssumption DEF Shard

LEMMA ScriptTyped ==
  ASSUME load \in Workloads, pos \in [Callers -> Nat \ {0}], NEW c \in Callers, Busy(c)
  PROVE  Script(c) \in Seq(Reqs) /\ pos[c] \in DOMAIN Script(c) /\ Req(c) \in Reqs
<1>1. Script(c) \in Seq(Reqs)
  BY AdmissionAssumption DEF Script
<1>2. pos[c] \in 1..Len(Script(c))
  BY <1>1 DEF Busy
<1> QED
  BY <1>1, <1>2 DEF Req

LEMMA CountTyped ==
  ASSUME counters \in [Lanes -> [CounterNames -> Nat]], NEW l \in Lanes, NEW N, Count(l, N)
  PROVE  /\ counters' \in [Lanes -> [CounterNames -> Nat]]
         /\ \A x \in Lanes \ {l} : counters'[x] = counters[x]
         /\ \A n \in CounterNames : counters'[l][n] = IF n \in N THEN counters[l][n] + 1 ELSE counters[l][n]
<1> DEFINE g == [n \in CounterNames |-> IF n \in N THEN counters[l][n] + 1 ELSE counters[l][n]]
<1>1. g \in [CounterNames -> Nat]
  OBVIOUS
<1>2. counters' = [counters EXCEPT ![l] = g]
  BY DEF Count
<1>3. \A n \in CounterNames : g[n] = IF n \in N THEN counters[l][n] + 1 ELSE counters[l][n]
  OBVIOUS
<1> HIDE DEF g
<1> QED
  BY <1>1, <1>2, <1>3

LEMMA InitTypes == Init => Types
<1> SUFFICES ASSUME Init PROVE Types
  OBVIOUS
<1>1. EnvTypes
  <2>1. load \in Workloads /\ load.ticks \in Nat
    BY AdmissionAssumption DEF Init
  <2>2. now \in 1..(load.ticks + 1)
    BY <2>1 DEF Init
  <2>3. state = "running" /\ cancelled = FALSE /\ upd = [pc |-> "idle"]
    BY DEF Init
  <2>4. upd.pc = "idle"
    BY <2>3
  <2> QED
    BY <2>1, <2>2, <2>3, <2>4 DEF EnvTypes
<1>2. LaneTypes
  <2>1. QueueSize \in Nat
    BY AdmissionAssumption
  <2>2. lanes = [s \in Shards |-> [l \in Lanes |-> <<>>]]
    BY DEF Init
  <2>3. <<>> \in Seq(Reqs) /\ Len(<<>>) = 0
    OBVIOUS
  <2>4. \A s \in Shards : \A l \in Lanes : lanes[s][l] = <<>>
    BY <2>2
  <2>5. lanes \in [Shards -> [Lanes -> Seq(Reqs)]]
    BY <2>2, <2>3
  <2> QED
    BY <2>1, <2>3, <2>4, <2>5 DEF LaneTypes
<1>3. TrackerTypes
  <2>1. Good(newHotKeyTracker) /\ newHotKeyTracker \in Trackers
    BY NewTrackerGood DEF Good
  <2>2. \A x : ~Tracked(newHotKeyTracker, x)
    BY DEF newHotKeyTracker, Tracked, Indexed
  <2> QED
    BY <2>1, <2>2 DEF Init, TrackerTypes, Live
<1>4. CallTypes
  BY DEF Init, CallTypes, Labels, Outcomes
<1>5. JobTypes
  BY DEF Init, JobTypes, Jobs, JobStates
<1>6. StatTypes
  BY DEF Init, StatTypes, NoCounters
<1> QED
  BY <1>1, <1>2, <1>3, <1>4, <1>5, <1>6 DEF Types

\* One tracker replaced by a sound one.
LEMMA TrackerStep ==
  ASSUME TrackerTypes, NEW s \in Shards, NEW u, Good(u), Live(u), tracker' = [tracker EXCEPT ![s] = u]
  PROVE  /\ TrackerTypes' /\ tracker'[s] = u /\ \A x \in Shards \ {s} : tracker'[x] = tracker[x]
<1>1. u \in Trackers
  BY DEF Good
<1>2. tracker' \in [Shards -> Trackers] /\ tracker'[s] = u /\ \A x \in Shards \ {s} : tracker'[x] = tracker[x]
  BY <1>1 DEF TrackerTypes
<1>3. \A x \in Shards : Good(tracker'[x]) /\ Live(tracker'[x])
  BY <1>2 DEF TrackerTypes
<1> QED
  BY <1>2, <1>3 DEF TrackerTypes

LEMMA GotoTyped ==
  ASSUME CallTypes, NEW c \in Callers, NEW label \in Labels, Goto(c, label)
  PROVE  /\ pc' \in [Callers -> Labels] /\ pos' \in [Callers -> Nat \ {0}] /\ pos' = pos
         /\ pc'[c] = label /\ \A d \in Callers \ {c} : pc'[d] = pc[d]
BY DEF CallTypes, Goto

LEMMA ReturnTyped ==
  ASSUME CallTypes, NEW c \in Callers, Return(c)
  PROVE  /\ pc' \in [Callers -> Labels] /\ pos' \in [Callers -> Nat \ {0}]
         /\ pc'[c] = "overload" /\ pos'[c] = pos[c] + 1
         /\ \A d \in Callers \ {c} : pc'[d] = pc[d] /\ pos'[d] = pos[d]
BY DEF CallTypes, Return, Labels

LEMMA TellTyped ==
  ASSUME CallTypes, NEW r \in Reqs, NEW w \in Outcomes, Tell(r, w)
  PROVE  /\ outcome' \in [Reqs -> Outcomes] /\ outcome'[r] = w /\ \A q \in Reqs \ {r} : outcome'[q] = outcome[q]
BY DEF CallTypes, Tell

\* A step of a caller that changes neither the queues nor the tracker.
LEMMA CallerTypes ==
  ASSUME Types, CallerFrame, UNCHANGED <<lanes, job>>, TrackerTypes', CallTypes',
         counters' \in [Lanes -> [CounterNames -> Nat]], lastObserved' \in [Keys -> Nat]
  PROVE  Types'
BY DEF Types, CallerFrame, EnvTypes, LaneTypes, CallTypes, JobTypes, StatTypes

LEMMA OverloadCounted ==
  ASSUME NEW l, NEW a, RecordOverloadDecision(l, a)
  PROVE  \E n \in {"overloadShed", "overloadDegrade", "overloadReject"} : Count(l, {"rejected", "pressureRejected", n})
<1>1. CASE a = "shed"
  BY <1>1, Zenon DEF RecordOverloadDecision
<1>2. CASE a = "degrade"
  BY <1>2, Zenon DEF RecordOverloadDecision
<1>3. CASE a # "shed" /\ a # "degrade"
  BY <1>3, Zenon DEF RecordOverloadDecision
<1> QED
  BY <1>1, <1>2, <1>3

\* The steps of CheckOverload and CheckAdmission: refused, with what is counted, or on to the next check.
Refused(c, w, N) ==
    /\ Busy(c) /\ pc[c] \in {"overload", "admission"} /\ Goto(c, "reject") /\ Tell(Req(c), w) /\ Count(LaneOf[Req(c)], N)
    /\ CallerFrame /\ UNCHANGED <<lanes, tracker, job, lastObserved>>
Passed(c, from, to) ==
    /\ Busy(c) /\ pc[c] = from /\ Goto(c, to) /\ UNCHANGED <<outcome, counters>>
    /\ CallerFrame /\ UNCHANGED <<lanes, tracker, job, lastObserved>>

LEMMA CheckOverloadCases ==
  ASSUME NEW c, CheckOverload(c)
  PROVE  /\ Busy(c) /\ pc[c] = "overload"
         /\ \/ \E n \in {"overloadShed", "overloadDegrade", "overloadReject"} : Refused(c, "overload", {"rejected", "pressureRejected", n})
            \/ Passed(c, "overload", "admission")
<1> DEFINE a == evaluateOverload(overload, LaneOf[Req(c)], OverloadSignalsForLane(Req(c))).action
<1>1. /\ Busy(c) /\ pc[c] = "overload" /\ CallerFrame /\ UNCHANGED <<lanes, tracker, job, lastObserved>>
      /\ \/ Goto(c, "reject") /\ Tell(Req(c), "overload") /\ RecordOverloadDecision(LaneOf[Req(c)], a)
         \/ Goto(c, "admission") /\ UNCHANGED <<outcome, counters>>
  BY Zenon DEF CheckOverload
<1> HIDE DEF a
<1>2. CASE Goto(c, "reject") /\ Tell(Req(c), "overload") /\ RecordOverloadDecision(LaneOf[Req(c)], a)
  <2>1. PICK n \in {"overloadShed", "overloadDegrade", "overloadReject"} : Count(LaneOf[Req(c)], {"rejected", "pressureRejected", n})
    BY <1>2, OverloadCounted, Zenon
  <2>2. Refused(c, "overload", {"rejected", "pressureRejected", n})
    <3>1. pc[c] \in {"overload", "admission"}
      BY <1>1, Zenon
    <3> QED
      BY <1>1, <1>2, <2>1, <3>1, Zenon DEF Refused
  <2> QED
    BY <1>1, <2>2, Zenon
<1>3. CASE Goto(c, "admission") /\ UNCHANGED <<outcome, counters>>
  BY <1>1, <1>3, Zenon DEF Passed
<1> QED
  BY <1>1, <1>2, <1>3, Zenon

LEMMA CheckAdmissionCases ==
  ASSUME NEW c, CheckAdmission(c)
  PROVE  /\ Busy(c) /\ pc[c] = "admission"
         /\ \/ Refused(c, "admission", {"rejected", "pressureRejected"})
            \/ Passed(c, "admission", "perkey")
<1>1. /\ Busy(c) /\ pc[c] = "admission" /\ CallerFrame /\ UNCHANGED <<lanes, tracker, job, lastObserved>>
      /\ \/ Goto(c, "reject") /\ Tell(Req(c), "admission") /\ Count(LaneOf[Req(c)], {"rejected", "pressureRejected"})
         \/ Goto(c, "perkey") /\ UNCHANGED <<outcome, counters>>
  BY Zenon DEF CheckAdmission, recordPressureAdmissionRejected
<1>2. pc[c] \in {"overload", "admission"}
  BY <1>1, Zenon
<1> QED
  BY <1>1, <1>2, Zenon DEF Refused, Passed

LEMMA RefusedTypes ==
  ASSUME Types, NEW c \in Callers, NEW w \in Outcomes, NEW N, Refused(c, w, N)
  PROVE  Types'
<1>1. Req(c) \in Reqs /\ LaneOf[Req(c)] \in Lanes
  BY ScriptTyped, Sorts DEF Types, EnvTypes, CallTypes, Refused
<1>2. CallTypes'
  BY <1>1, GotoTyped, TellTyped DEF Types, CallTypes, Refused, Labels
<1>3. counters' \in [Lanes -> [CounterNames -> Nat]]
  BY <1>1, CountTyped DEF Types, StatTypes, Refused
<1> QED
  BY <1>2, <1>3, CallerTypes DEF Types, TrackerTypes, StatTypes, Refused

LEMMA PassedTypes ==
  ASSUME Types, NEW c \in Callers, NEW from, NEW to \in Labels, Passed(c, from, to)
  PROVE  Types'
<1>1. CallTypes'
  BY GotoTyped DEF Types, CallTypes, Passed
<1> QED
  BY <1>1, CallerTypes DEF Types, TrackerTypes, StatTypes, Passed

\* What a tracker may have become when one of its operations is called for key k.
LEMMA ObserveTypes ==
  ASSUME Types, NEW r \in Reqs, NEW u, Observe(r, u), Sound(tracker[Shard(r)], u, KeyOf[r])
  PROVE  /\ TrackerTypes' /\ lastObserved' \in [Keys -> Nat]
         /\ tracker'[Shard(r)] = u /\ \A x \in Shards \ {Shard(r)} : tracker'[x] = tracker[x]
         /\ lastObserved'[KeyOf[r]] = now /\ \A x \in Keys \ {KeyOf[r]} : lastObserved'[x] = lastObserved[x]
<1>1. Shard(r) \in Shards /\ KeyOf[r] \in Keys
  BY Sorts
<1>2. now \in Nat
  BY AdmissionAssumption DEF Types, EnvTypes
<1>3. tracker' = [tracker EXCEPT ![Shard(r)] = u] /\ lastObserved' = [lastObserved EXCEPT ![KeyOf[r]] = now]
  BY DEF Observe
<1>4. Good(u) /\ Live(u) /\ TrackerTypes /\ lastObserved \in [Keys -> Nat]
  BY DEF Sound, Types, StatTypes
<1>5. /\ TrackerTypes' /\ tracker'[Shard(r)] = u /\ \A x \in Shards \ {Shard(r)} : tracker'[x] = tracker[x]
  BY <1>1, <1>3, <1>4, TrackerStep
<1> QED
  BY <1>1, <1>2, <1>3, <1>4, <1>5

LEMMA At ==
  ASSUME Types, NEW r \in Reqs
  PROVE  /\ Good(tracker[Shard(r)]) /\ Live(tracker[Shard(r)]) /\ KeyOf[r] \in Keys /\ Shard(r) \in Shards
         /\ LaneOf[r] \in Lanes /\ now \in Nat /\ now >= 1
<1>1. Shard(r) \in Shards /\ KeyOf[r] \in Keys /\ LaneOf[r] \in Lanes
  BY Sorts
<1>2. now \in Nat /\ now >= 1
  BY AdmissionAssumption DEF Types, EnvTypes
<1> QED
  BY <1>1, <1>2 DEF Types, TrackerTypes

LEMMA BusyReq ==
  ASSUME Types, NEW c \in Callers, Busy(c)
  PROVE  Req(c) \in Reqs
BY ScriptTyped DEF Types, EnvTypes, CallTypes

LEMMA PerKeyTypes ==
  ASSUME Types, NEW c \in Callers, CheckPerKeyAdmission(c)
  PROVE  Types'
<1> DEFINE r == Req(c)
           shard == shardDepthAndWaitForHotKey(Shard(r))
           p == <<TotalDepth, TotalCapacity>>
           e == evaluatePerKeyAdmission(tracker[Shard(r)], KeyOf[r], shard, p, PerKeyConfig, now)
<1>1. r \in Reqs
  BY BusyReq DEF CheckPerKeyAdmission
<1>2. /\ Busy(c) /\ tracker' = [tracker EXCEPT ![Shard(r)] = e.tracker]
      /\ \/ Goto(c, "enqueue") /\ UNCHANGED outcome
         \/ e.verdict.action # "allow" /\ Goto(c, "reject") /\ Tell(r, e.verdict.reason)
      /\ lastObserved' = [lastObserved EXCEPT ![KeyOf[r]] = now] \/ lastObserved' = lastObserved
      /\ CallerFrame /\ UNCHANGED <<lanes, job, counters>>
  BY Zenon DEF CheckPerKeyAdmission
<1> HIDE DEF r, shard, p
<1>3. /\ Good(tracker[Shard(r)]) /\ Live(tracker[Shard(r)]) /\ KeyOf[r] \in Keys /\ Shard(r) \in Shards /\ now \in Nat
  BY <1>1, At
<1>4. /\ Sound(tracker[Shard(r)], e.tracker, KeyOf[r])
      /\ e.verdict.action # "allow" => e.verdict.kind = "decide" /\ Justified(e.verdict, EntryOf(tracker[Shard(r)], KeyOf[r]), PerKeyConfig)
  BY <1>3, Evaluated
<1> HIDE DEF e
<1>5. TrackerTypes'
  BY <1>2, <1>3, <1>4, TrackerStep DEF Types, Sound
<1>6. lastObserved' \in [Keys -> Nat]
  BY <1>2, <1>3 DEF Types, StatTypes
<1>7. CallTypes'
  <2>1. CASE Goto(c, "enqueue") /\ UNCHANGED outcome
    BY <2>1, GotoTyped DEF Types, CallTypes, Labels
  <2>2. CASE e.verdict.action # "allow" /\ Goto(c, "reject") /\ Tell(r, e.verdict.reason)
    <3>1. e.verdict.reason \in Outcomes
      BY <1>4, <2>2 DEF Justified, Outcomes
    <3> QED
      BY <1>1, <2>2, <3>1, GotoTyped, TellTyped DEF Types, CallTypes, Labels
  <2> QED
    BY <1>2, <2>1, <2>2
<1> QED
  BY <1>2, <1>5, <1>6, <1>7, CallerTypes DEF Types, StatTypes

LEMMA RejectTypes ==
  ASSUME Types, NEW c \in Callers, RecordHotKeyReject(c)
  PROVE  Types'
<1>1. Req(c) \in Reqs
  BY BusyReq DEF RecordHotKeyReject
<1> DEFINE r == Req(c)
           u == observeReject(tracker[Shard(r)], KeyOf[r], now)
<1>2. Observe(r, u) /\ Return(c) /\ CallerFrame /\ UNCHANGED <<lanes, job, outcome, counters>>
  BY DEF RecordHotKeyReject
<1> HIDE DEF r
<1>3. Sound(tracker[Shard(r)], u, KeyOf[r])
  BY <1>1, At, RejectObserved DEF r
<1> HIDE DEF u
<1>4. TrackerTypes' /\ lastObserved' \in [Keys -> Nat]
  BY <1>1, <1>2, <1>3, ObserveTypes DEF r
<1>5. CallTypes'
  BY <1>2, ReturnTyped DEF Types, CallTypes
<1> QED
  BY <1>2, <1>4, <1>5, CallerTypes DEF Types, StatTypes

\* The two ways through EnqueueBegin.
EnqueueStopped(c) ==
    /\ Busy(c) /\ pc[c] = "enqueue" /\ state = "stopping"
    /\ Count(LaneOf[Req(c)], {"submitted", "rejected"}) /\ Tell(Req(c), "stopped") /\ Return(c)
    /\ CallerFrame /\ UNCHANGED <<lanes, job, tracker, lastObserved>>
EnqueueStarted(c) ==
    /\ Busy(c) /\ pc[c] = "enqueue" /\ state = "running"
    /\ Count(LaneOf[Req(c)], {"submitted"}) /\ Goto(c, "push")
    /\ Observe(Req(c), observeSubmit(tracker[Shard(Req(c))], KeyOf[Req(c)], now))
    /\ CallerFrame /\ UNCHANGED <<lanes, job, outcome>>

LEMMA EnqueueBeginCases ==
  ASSUME NEW c, EnqueueBegin(c)
  PROVE  EnqueueStopped(c) \/ EnqueueStarted(c)
BY Zenon DEF EnqueueBegin, EnqueueStopped, EnqueueStarted, recordLaneAdmissionAttempt

LEMMA EnqueueBeginTypes ==
  ASSUME Types, NEW c \in Callers, EnqueueBegin(c)
  PROVE  Types'
<1> DEFINE r == Req(c)
<1>1. r \in Reqs /\ LaneOf[r] \in Lanes
  BY BusyReq, Sorts DEF EnqueueBegin
<1>2. CASE EnqueueStopped(c)
  <2>1. CallTypes'
    BY <1>1, <1>2, ReturnTyped, TellTyped DEF EnqueueStopped, Types, CallTypes, Outcomes
  <2>2. counters' \in [Lanes -> [CounterNames -> Nat]]
    BY <1>1, <1>2, CountTyped DEF EnqueueStopped, Types, StatTypes
  <2> QED
    BY <1>2, <2>1, <2>2, CallerTypes DEF EnqueueStopped, Types, TrackerTypes, StatTypes
<1>3. CASE EnqueueStarted(c)
  <2> DEFINE u == observeSubmit(tracker[Shard(r)], KeyOf[r], now)
  <2>1. Sound(tracker[Shard(r)], u, KeyOf[r])
    BY <1>1, At, SubmitObserved
  <2>2. Observe(r, u) /\ Goto(c, "push") /\ CallerFrame /\ UNCHANGED <<lanes, job, outcome>> /\ Count(LaneOf[r], {"submitted"})
    BY <1>3 DEF EnqueueStarted
  <2> HIDE DEF u, r
  <2>3. TrackerTypes' /\ lastObserved' \in [Keys -> Nat]
    BY <1>1, <2>1, <2>2, ObserveTypes
  <2>4. CallTypes'
    BY <2>2, GotoTyped DEF Types, CallTypes, Labels
  <2>5. counters' \in [Lanes -> [CounterNames -> Nat]]
    BY <1>1, <2>2, CountTyped DEF Types, StatTypes
  <2> QED
    BY <2>2, <2>3, <2>4, <2>5, CallerTypes
<1> QED
  BY <1>2, <1>3, EnqueueBeginCases

\* The two ways through enqueueIntoShard.
EnqueueFull(c) ==
    /\ Busy(c) /\ pc[c] = "push"
    /\ Count(LaneOf[Req(c)], {"rejected", "queueFull"}) /\ Tell(Req(c), "full") /\ Return(c)
    /\ CallerFrame /\ UNCHANGED <<lanes, job, tracker, lastObserved>>
EnqueuePushed(c) ==
    /\ Busy(c) /\ pc[c] = "push" /\ ~wouldQueueFull(Req(c))
    /\ lanes' = [lanes EXCEPT ![Shard(Req(c))][LaneOf[Req(c)]] = Append(@, Req(c))]
    /\ job' = [job EXCEPT ![Req(c)].st = "queued", ![Req(c)].acceptedAt = now]
    /\ Goto(c, "observe")
    /\ CallerFrame /\ UNCHANGED <<outcome, counters, tracker, lastObserved>>

LEMMA EnqueueIntoShardCases ==
  ASSUME NEW c, enqueueIntoShard(c)
  PROVE  EnqueueFull(c) \/ EnqueuePushed(c)
<1>1. Count(LaneOf[Req(c)], IF FALSE THEN {"accepted"} ELSE {"rejected", "queueFull"})
        => Count(LaneOf[Req(c)], {"rejected", "queueFull"})
  BY Zenon
<1> QED
  BY <1>1, Zenon DEF enqueueIntoShard, EnqueueFull, EnqueuePushed, recordLaneAdmissionResult

\* A job taken in, or moved on, keeps its shape.
LEMMA JobQueued ==
  ASSUME job \in [Reqs -> Jobs], NEW r \in Reqs, NEW n \in Nat,
         job' = [job EXCEPT ![r].st = "queued", ![r].acceptedAt = n]
  PROVE  /\ job' \in [Reqs -> Jobs] /\ job'[r].st = "queued" /\ job'[r].acceptedAt = n
         /\ \A q \in Reqs \ {r} : job'[q] = job[q]
<1> DEFINE j == [job[r] EXCEPT !.st = "queued", !.acceptedAt = n]
<1>1. job[r] \in Jobs
  OBVIOUS
<1>2. j \in Jobs /\ j.st = "queued" /\ j.acceptedAt = n
  BY <1>1 DEF Jobs, JobStates
<1>3. job' = [job EXCEPT ![r] = j]
  OBVIOUS
<1> HIDE DEF j
<1> QED
  BY <1>2, <1>3

LEMMA JobStep ==
  ASSUME job \in [Reqs -> Jobs], NEW r \in Reqs, NEW x \in JobStates, job' = [job EXCEPT ![r].st = x]
  PROVE  /\ job' \in [Reqs -> Jobs] /\ job'[r].st = x /\ job'[r].early = job[r].early
         /\ job'[r].acceptedAt = job[r].acceptedAt
         /\ \A q \in Reqs \ {r} : job'[q] = job[q]
<1> DEFINE j == [job[r] EXCEPT !.st = x]
<1>1. job[r] \in Jobs
  OBVIOUS
<1>2. j \in Jobs /\ j.st = x /\ j.early = job[r].early /\ j.acceptedAt = job[r].acceptedAt
  BY <1>1 DEF Jobs
<1>3. job' = [job EXCEPT ![r] = j]
  OBVIOUS
<1> HIDE DEF j
<1> QED
  BY <1>2, <1>3

LEMMA JobStarted ==
  ASSUME job \in [Reqs -> Jobs], NEW r \in Reqs, NEW b \in BOOLEAN,
         job' = [job EXCEPT ![r].st = "started", ![r].early = b]
  PROVE  /\ job' \in [Reqs -> Jobs] /\ job'[r].st = "started" /\ job'[r].early = b
         /\ job'[r].acceptedAt = job[r].acceptedAt
         /\ \A q \in Reqs \ {r} : job'[q] = job[q]
<1> DEFINE j == [job[r] EXCEPT !.st = "started", !.early = b]
<1>1. job[r] \in Jobs
  OBVIOUS
<1>2. j \in Jobs /\ j.st = "started" /\ j.early = b /\ j.acceptedAt = job[r].acceptedAt
  BY <1>1 DEF Jobs, JobStates
<1>3. job' = [job EXCEPT ![r] = j]
  OBVIOUS
<1> HIDE DEF j
<1> QED
  BY <1>2, <1>3

LEMMA LaneStep ==
  ASSUME lanes \in [Shards -> [Lanes -> Seq(Reqs)]], NEW s \in Shards, NEW l \in Lanes, NEW q \in Seq(Reqs),
         lanes' = [lanes EXCEPT ![s][l] = q]
  PROVE  /\ lanes' \in [Shards -> [Lanes -> Seq(Reqs)]] /\ lanes'[s][l] = q
         /\ \A x \in Shards : \A y \in Lanes : x # s \/ y # l => lanes'[x][y] = lanes[x][y]
<1> DEFINE g == [lanes[s] EXCEPT ![l] = q]
<1>1. g \in [Lanes -> Seq(Reqs)] /\ g[l] = q /\ \A y \in Lanes \ {l} : g[y] = lanes[s][y]
  OBVIOUS
<1>2. lanes' = [lanes EXCEPT ![s] = g]
  OBVIOUS
<1> HIDE DEF g
<1> QED
  BY <1>1, <1>2

LEMMA EnqueueIntoShardTypes ==
  ASSUME Types, NEW c \in Callers, enqueueIntoShard(c)
  PROVE  Types'
<1> DEFINE r == Req(c)
<1>1. r \in Reqs /\ LaneOf[r] \in Lanes /\ Shard(r) \in Shards
  BY BusyReq, Sorts DEF enqueueIntoShard
<1>2. CASE EnqueueFull(c)
  <2>1. CallTypes'
    BY <1>1, <1>2, ReturnTyped, TellTyped DEF EnqueueFull, Types, CallTypes, Outcomes
  <2>2. counters' \in [Lanes -> [CounterNames -> Nat]]
    BY <1>1, <1>2, CountTyped DEF EnqueueFull, Types, StatTypes
  <2> QED
    BY <1>2, <2>1, <2>2, CallerTypes DEF EnqueueFull, Types, TrackerTypes, StatTypes
<1>3. CASE EnqueuePushed(c)
  <2> DEFINE q == lanes[Shard(r)][LaneOf[r]]
  <2>1. q \in Seq(Reqs) /\ Len(q) <= QueueSize /\ QueueSize \in Nat /\ ~(Len(q) >= QueueSize)
    BY <1>1, <1>3, AdmissionAssumption DEF EnqueuePushed, wouldQueueFull, LaneDepth, Types, LaneTypes
  <2>2. Append(q, r) \in Seq(Reqs) /\ Len(Append(q, r)) = Len(q) + 1 /\ Len(q) \in Nat
    BY <1>1, <2>1
  <2>3. lanes' = [lanes EXCEPT ![Shard(r)][LaneOf[r]] = Append(q, r)]
    BY <1>3 DEF EnqueuePushed
  <2>4. LaneTypes'
    <3> HIDE DEF q, r
    <3>1. /\ lanes' \in [Shards -> [Lanes -> Seq(Reqs)]] /\ lanes'[Shard(r)][LaneOf[r]] = Append(q, r)
          /\ \A x \in Shards : \A y \in Lanes : x # Shard(r) \/ y # LaneOf[r] => lanes'[x][y] = lanes[x][y]
      BY <1>1, <2>2, <2>3, LaneStep DEF Types, LaneTypes
    <3>2. Len(Append(q, r)) <= QueueSize
      BY <2>1, <2>2
    <3>3. \A x \in Shards : \A y \in Lanes : Len(lanes'[x][y]) <= QueueSize
      BY <3>1, <3>2 DEF Types, LaneTypes
    <3> QED
      BY <3>1, <3>3 DEF LaneTypes
  <2>5. JobTypes'
    <3>1. now \in Nat /\ now' = now /\ job' = [job EXCEPT ![r].st = "queued", ![r].acceptedAt = now]
      BY <1>1, <1>3, At DEF EnqueuePushed, CallerFrame
    <3> HIDE DEF r
    <3>2. /\ job' \in [Reqs -> Jobs] /\ job'[r].acceptedAt = now /\ \A x \in Reqs \ {r} : job'[x] = job[x]
      BY <1>1, <3>1, JobQueued DEF Types, JobTypes
    <3> QED
      BY <1>1, <3>1, <3>2 DEF Types, JobTypes
  <2>6. CallTypes'
    BY <1>3, GotoTyped DEF EnqueuePushed, Types, CallTypes, Labels
  <2> QED
    BY <1>3, <2>4, <2>5, <2>6 DEF EnqueuePushed, CallerFrame, Types, EnvTypes, TrackerTypes, StatTypes
<1> QED
  BY <1>2, <1>3, EnqueueIntoShardCases

LEMMA EnqueueEndCases ==
  ASSUME NEW c, EnqueueEnd(c)
  PROVE  /\ Busy(c) /\ pc[c] = "observe" /\ Observe(Req(c), observeEnqueue(tracker[Shard(Req(c))], KeyOf[Req(c)], now))
         /\ Count(LaneOf[Req(c)], {"accepted"}) /\ Tell(Req(c), "accepted") /\ Return(c)
         /\ CallerFrame /\ UNCHANGED <<lanes, job>>
<1>1. Count(LaneOf[Req(c)], IF TRUE THEN {"accepted"} ELSE {"rejected", "queueFull"}) => Count(LaneOf[Req(c)], {"accepted"})
  BY Zenon
<1> QED
  BY <1>1, Zenon DEF EnqueueEnd, recordLaneAdmissionResult

LEMMA EnqueueEndTypes ==
  ASSUME Types, NEW c \in Callers, EnqueueEnd(c)
  PROVE  Types'
<1> DEFINE r == Req(c)
           u == observeEnqueue(tracker[Shard(r)], KeyOf[r], now)
<1>1. Observe(r, u) /\ Return(c) /\ CallerFrame /\ UNCHANGED <<lanes, job>> /\ Count(LaneOf[r], {"accepted"}) /\ Tell(r, "accepted")
  BY EnqueueEndCases
<1>2. r \in Reqs /\ LaneOf[r] \in Lanes
  BY BusyReq, Sorts DEF EnqueueEnd
<1>3. Sound(tracker[Shard(r)], u, KeyOf[r])
  BY <1>2, At, EnqueueObserved
<1> HIDE DEF u, r
<1>4. TrackerTypes' /\ lastObserved' \in [Keys -> Nat]
  BY <1>1, <1>2, <1>3, ObserveTypes
<1>5. CallTypes'
  BY <1>1, <1>2, ReturnTyped, TellTyped DEF Types, CallTypes, Outcomes
<1>6. counters' \in [Lanes -> [CounterNames -> Nat]]
  BY <1>1, <1>2, CountTyped DEF Types, StatTypes
<1> QED
  BY <1>1, <1>4, <1>5, <1>6, CallerTypes

LEMMA WorkerTypes ==
  ASSUME Types, WorkerFrame, LaneTypes', TrackerTypes', JobTypes', StatTypes'
  PROVE  Types'
BY DEF Types, WorkerFrame, EnvTypes, CallTypes

LEMMA PopTypes ==
  ASSUME Types, NEW s \in Shards, NEW l \in Lanes, PopN(s, l)
  PROVE  Types'
<1> DEFINE q == lanes[s][l]
           r == Head(q)
<1>1. q \in Seq(Reqs) /\ q # <<>> /\ Len(q) <= QueueSize /\ QueueSize \in Nat
  BY AdmissionAssumption DEF PopN, Types, LaneTypes
<1>2. r \in Reqs /\ Tail(q) \in Seq(Reqs) /\ Len(Tail(q)) = Len(q) - 1 /\ Len(q) \in Nat
  BY <1>1
<1>3. lanes' = [lanes EXCEPT ![s][l] = Tail(q)] /\ job' = [job EXCEPT ![r].st = "batch"] /\ now' = now
  BY DEF PopN, WorkerFrame
<1> HIDE DEF q, r
<1>4. LaneTypes'
  <2>1. /\ lanes' \in [Shards -> [Lanes -> Seq(Reqs)]] /\ lanes'[s][l] = Tail(q)
        /\ \A x \in Shards : \A y \in Lanes : x # s \/ y # l => lanes'[x][y] = lanes[x][y]
    BY <1>2, <1>3, LaneStep DEF Types, LaneTypes
  <2>2. Len(Tail(q)) <= QueueSize
    BY <1>1, <1>2
  <2> QED
    BY <2>1, <2>2 DEF Types, LaneTypes
<1>5. JobTypes'
  <2>1. /\ job' \in [Reqs -> Jobs] /\ job'[r].acceptedAt = job[r].acceptedAt /\ \A x \in Reqs \ {r} : job'[x] = job[x]
    BY <1>2, <1>3, JobStep DEF Types, JobTypes, JobStates
  <2> QED
    BY <1>2, <1>3, <2>1 DEF Types, JobTypes
<1> QED
  BY <1>4, <1>5, WorkerTypes DEF PopN, Types, TrackerTypes, StatTypes

LEMMA StartTypes ==
  ASSUME Types, NEW r \in Reqs, ObserveStart(r)
  PROVE  Types'
<1> DEFINE u == observeInflightStart(observeDequeue(tracker[Shard(r)], KeyOf[r], now), KeyOf[r], now)
           b == EnqueueUnobserved(r)
<1>1. Observe(r, u) /\ now' = now /\ job' = [job EXCEPT ![r].st = "started", ![r].early = b]
  BY DEF ObserveStart, WorkerFrame
<1>2. b \in BOOLEAN
  BY DEF EnqueueUnobserved
<1>3. Sound(tracker[Shard(r)], u, KeyOf[r])
  BY At, StartObserved
<1> HIDE DEF u, b
<1>4. TrackerTypes' /\ lastObserved' \in [Keys -> Nat]
  BY <1>1, <1>3, ObserveTypes
<1>5. JobTypes'
  <2>1. /\ job' \in [Reqs -> Jobs] /\ job'[r].acceptedAt = job[r].acceptedAt /\ \A x \in Reqs \ {r} : job'[x] = job[x]
    BY <1>1, <1>2, JobStarted DEF Types, JobTypes
  <2> QED
    BY <1>1, <2>1 DEF Types, JobTypes
<1> QED
  BY <1>4, <1>5, WorkerTypes DEF ObserveStart, Types, LaneTypes, StatTypes

LEMMA RunTypes ==
  ASSUME Types, NEW r \in Reqs, RunJob(r)
  PROVE  Types'
<1> DEFINE d == now - job[r].acceptedAt
           u == observeQueueWait(tracker[Shard(r)], KeyOf[r], d, now)
<1>1. Observe(r, u) /\ now' = now /\ job' = [job EXCEPT ![r].st = "running"] /\ shardWait' = [shardWait EXCEPT ![Shard(r)] = @ + d]
  BY DEF RunJob, WorkerFrame
<1>2. job[r].acceptedAt \in Nat /\ job[r].acceptedAt <= now /\ now \in Nat /\ Shard(r) \in Shards
  BY At DEF Types, JobTypes, Jobs
<1>3. d \in Nat
  BY <1>2
<1> HIDE DEF d
<1>4. Sound(tracker[Shard(r)], u, KeyOf[r])
  BY <1>3, At, WaitObserved
<1> HIDE DEF u
<1>5. TrackerTypes' /\ lastObserved' \in [Keys -> Nat]
  BY <1>1, <1>4, ObserveTypes
<1>6. JobTypes'
  <2>1. /\ job' \in [Reqs -> Jobs] /\ job'[r].acceptedAt = job[r].acceptedAt /\ \A x \in Reqs \ {r} : job'[x] = job[x]
    BY <1>1, JobStep DEF Types, JobTypes, JobStates
  <2> QED
    BY <1>1, <2>1 DEF Types, JobTypes
<1>7. shardWait' \in [Shards -> Nat]
  BY <1>1, <1>2, <1>3 DEF Types, StatTypes
<1> QED
  BY <1>5, <1>6, <1>7, WorkerTypes DEF RunJob, Types, LaneTypes, StatTypes

LEMMA DoneTypes ==
  ASSUME Types, NEW r \in Reqs, JobDone(r)
  PROVE  Types'
<1> DEFINE u == observeInflightEnd(tracker[Shard(r)], KeyOf[r], now)
<1>1. Observe(r, u) /\ now' = now /\ job' = [job EXCEPT ![r].st = "done"] /\ Count(LaneOf[r], {"completed"})
  BY DEF JobDone, WorkerFrame
<1>2. Sound(tracker[Shard(r)], u, KeyOf[r])
  BY At, InflightEndObserved
<1> HIDE DEF u
<1>3. TrackerTypes' /\ lastObserved' \in [Keys -> Nat]
  BY <1>1, <1>2, ObserveTypes
<1>4. JobTypes'
  <2>1. /\ job' \in [Reqs -> Jobs] /\ job'[r].acceptedAt = job[r].acceptedAt /\ \A x \in Reqs \ {r} : job'[x] = job[x]
    BY <1>1, JobStep DEF Types, JobTypes, JobStates
  <2> QED
    BY <1>1, <2>1 DEF Types, JobTypes
<1>5. counters' \in [Lanes -> [CounterNames -> Nat]]
  BY <1>1, At, CountTyped DEF Types, StatTypes
<1> QED
  BY <1>3, <1>4, <1>5, WorkerTypes DEF JobDone, Types, LaneTypes, StatTypes

LEMMA AbandonTypes ==
  ASSUME Types, NEW r \in Reqs, AbandonJob(r)
  PROVE  Types'
<1>1. now' = now /\ job' = [job EXCEPT ![r].st = "dropped"] /\ Count(LaneOf[r], {"canceled"})
  BY DEF AbandonJob, WorkerFrame
<1>2. JobTypes'
  <2>1. /\ job' \in [Reqs -> Jobs] /\ job'[r].acceptedAt = job[r].acceptedAt /\ \A x \in Reqs \ {r} : job'[x] = job[x]
    BY <1>1, JobStep DEF Types, JobTypes, JobStates
  <2> QED
    BY <1>1, <2>1 DEF Types, JobTypes
<1>3. counters' \in [Lanes -> [CounterNames -> Nat]]
  BY <1>1, At, CountTyped DEF Types, StatTypes
<1> QED
  BY <1>2, <1>3, WorkerTypes DEF AbandonJob, Types, LaneTypes, TrackerTypes, StatTypes

\* The steps of the environment: nothing a caller or a worker owns changes.
Environment ==
    \/ \E p \in OverloadPolicies : UpdateOverloadPolicy(p)
    \/ \E p \in AdmissionPolicies : UpdateAdmissionPolicy(p)
    \/ publishOverloadPolicy \/ publishAdmissionPolicy
    \/ Stop \/ CancelWorkers \/ Tick

LEMMA EnvironmentFrame ==
  ASSUME Types, Environment
  PROVE  /\ UNCHANGED <<load, lanes, shardWait, pc, pos, job, outcome, counters, snap, tracker, lastObserved>>
         /\ EnvTypes' /\ now <= now' /\ now' \in Nat
<1>1. load.ticks \in Nat /\ now \in Nat /\ now >= 1
  BY AdmissionAssumption DEF Types, EnvTypes
<1>2. ASSUME NEW p, UpdateOverloadPolicy(p)
      PROVE  UNCHANGED <<load, lanes, shardWait, pc, pos, job, outcome, counters, snap, tracker, lastObserved>> /\ EnvTypes' /\ now' = now
  BY <1>2 DEF UpdateOverloadPolicy, EnvFrame, Types, EnvTypes
<1>3. ASSUME NEW p, UpdateAdmissionPolicy(p)
      PROVE  UNCHANGED <<load, lanes, shardWait, pc, pos, job, outcome, counters, snap, tracker, lastObserved>> /\ EnvTypes' /\ now' = now
  BY <1>3 DEF UpdateAdmissionPolicy, EnvFrame, Types, EnvTypes
<1>4. CASE publishOverloadPolicy \/ publishAdmissionPolicy
  <2>1. /\ UNCHANGED <<load, lanes, shardWait, pc, pos, job, outcome, counters, snap, tracker, lastObserved, now, state, cancelled>>
        /\ upd' = [pc |-> "done"]
    BY <1>4 DEF publishOverloadPolicy, publishAdmissionPolicy, EnvFrame
  <2>2. upd'.pc = "done"
    BY <2>1
  <2> QED
    BY <1>1, <2>1, <2>2 DEF Types, EnvTypes
<1>5. CASE Stop \/ CancelWorkers
  <2>1. /\ UNCHANGED <<load, lanes, shardWait, pc, pos, job, outcome, counters, snap, tracker, lastObserved, now, upd>>
        /\ state' \in {"running", "stopping"} /\ cancelled' \in BOOLEAN
    <3>1. CASE Stop
      BY <3>1 DEF Stop, EnvFrame, Types, EnvTypes
    <3>2. CASE CancelWorkers
      BY <3>2 DEF CancelWorkers, EnvFrame, Types, EnvTypes
    <3> QED
      BY <1>5, <3>1, <3>2
  <2> QED
    BY <1>1, <2>1 DEF Types, EnvTypes
<1>6. CASE Tick
  BY <1>1, <1>6 DEF Tick, EnvFrame, Types, EnvTypes
<1> QED
  BY <1>1, <1>2, <1>3, <1>4, <1>5, <1>6 DEF Environment

LEMMA EnvironmentTypes ==
  ASSUME Types, Environment
  PROVE  Types'
<1>1. /\ UNCHANGED <<load, lanes, shardWait, pc, pos, job, outcome, counters, snap, tracker, lastObserved>>
      /\ EnvTypes' /\ now <= now' /\ now' \in Nat
  BY EnvironmentFrame
<1>2. now \in Nat /\ \A r \in Reqs : job[r].acceptedAt \in Nat
  BY AdmissionAssumption DEF Types, EnvTypes, JobTypes, Jobs
<1>3. JobTypes'
  BY <1>1, <1>2 DEF Types, JobTypes
<1> QED
  BY <1>1, <1>3 DEF Types, LaneTypes, TrackerTypes, CallTypes, StatTypes

LEMMA DetectTypes ==
  ASSUME Types, NEW s \in Shards, DetectHotKeys(s)
  PROVE  Types'
<1> DEFINE u == expireStaleEntriesLocked(tracker[s], now)
<1>1. enabled /\ tracker' = [tracker EXCEPT ![s] = u]
  BY DEF DetectHotKeys
<1>2. Good(tracker[s])
  BY DEF Types, TrackerTypes
<1>3. Good(u) /\ Live(u)
  BY <1>1, <1>2, Expired DEF Live
<1> HIDE DEF u
<1>4. TrackerTypes'
  BY <1>1, <1>3, TrackerStep DEF Types
<1> QED
  BY <1>4 DEF DetectHotKeys, EnvFrame, Types, EnvTypes, LaneTypes, CallTypes, JobTypes, StatTypes

Watching == (\E l \in Lanes : SnapshotBegin(l)) \/ SnapshotRead

LEMMA WatchingTypes ==
  ASSUME Types, Watching
  PROVE  Types'
<1>1. UNCHANGED <<load, now, state, cancelled, overload, admission, upd, lanes, tracker, shardWait, pc, pos, job,
                  outcome, counters, lastObserved>>
  BY DEF Watching, SnapshotBegin, SnapshotRead
<1> QED
  BY <1>1 DEF Types, EnvTypes, LaneTypes, TrackerTypes, CallTypes, JobTypes, StatTypes

CallerSteps(c) ==
    \/ CheckOverload(c) \/ CheckAdmission(c) \/ CheckPerKeyAdmission(c)
    \/ RecordHotKeyReject(c) \/ EnqueueBegin(c) \/ enqueueIntoShard(c) \/ EnqueueEnd(c)
WorkerSteps(r) == ObserveStart(r) \/ RunJob(r) \/ JobDone(r) \/ AbandonJob(r)

LEMMA NextCases ==
  ASSUME Next
  PROVE  \/ \E c \in Callers : CallerSteps(c)
         \/ \E r \in Reqs : WorkerSteps(r)
         \/ \E s \in Shards : DetectHotKeys(s)
         \/ \E s \in Shards : \E l \in Lanes : PopN(s, l)
         \/ Environment \/ Watching
BY Zenon DEF Next, CallerSteps, WorkerSteps, Environment, Watching

LEMMA NextTypes ==
  ASSUME Types, [Next]_vars
  PROVE  Types'
<1>1. ASSUME NEW c \in Callers, CallerSteps(c)
      PROVE  Types'
  <2>1. CASE CheckOverload(c)
    <3>1. CASE Passed(c, "overload", "admission")
      BY <3>1, PassedTypes DEF Labels
    <3>2. ASSUME NEW n, Refused(c, "overload", {"rejected", "pressureRejected", n})
          PROVE  Types'
      BY <3>2, RefusedTypes DEF Outcomes
    <3> QED
      BY <2>1, <3>1, <3>2, CheckOverloadCases
  <2>2. CASE CheckAdmission(c)
    <3>1. CASE Passed(c, "admission", "perkey")
      BY <3>1, PassedTypes DEF Labels
    <3>2. CASE Refused(c, "admission", {"rejected", "pressureRejected"})
      BY <3>2, RefusedTypes DEF Outcomes
    <3> QED
      BY <2>2, <3>1, <3>2, CheckAdmissionCases
  <2> QED
    BY <1>1, <2>1, <2>2, PerKeyTypes, RejectTypes, EnqueueBeginTypes, EnqueueIntoShardTypes, EnqueueEndTypes DEF CallerSteps
<1>2. ASSUME NEW r \in Reqs, WorkerSteps(r)
      PROVE  Types'
  BY <1>2, StartTypes, RunTypes, DoneTypes, AbandonTypes DEF WorkerSteps
<1>3. CASE UNCHANGED vars
  BY <1>3 DEF vars, Types, EnvTypes, LaneTypes, TrackerTypes, CallTypes, JobTypes, StatTypes
<1> QED
  BY <1>1, <1>2, <1>3, NextCases, DetectTypes, PopTypes, EnvironmentTypes, WatchingTypes

LEMMA TypesHold == Spec => []Types
<1>1. Init => Types
  BY InitTypes
<1>2. Types /\ [Next]_vars => Types'
  BY NextTypes
<1> QED
  BY <1>1, <1>2, PTL DEF Spec

LEMMA TypesImplyTypeOK ==
  ASSUME Types
  PROVE  TypeOK
<1>1. \A s \in Shards : \A l \in Lanes : lanes[s][l] \in Seq(Reqs) /\ Len(lanes[s][l]) <= QueueSize
  BY DEF Types, LaneTypes
<1>2. \A e \in Entries : /\ e.key \in Keys \cup {NoKey} /\ e.action \in {"", "allow", "throttle", "reject", "shed"}
                         /\ {e.submitted, e.queued, e.rejected, e.wait, e.seen, e.inflight, e.cooldown, e.recovery} \subseteq Nat
  BY DEF Entries, Actions
<1>3. \A s \in Shards : \A i \in Slots : tracker[s].entries[i] \in Entries
  BY DEF Types, TrackerTypes, Trackers
<1>4. \A s \in Shards : \A i \in Slots :
          LET e == tracker[s].entries[i] IN
          /\ e.key \in Keys \cup {NoKey} /\ e.action \in {"", "allow", "throttle", "reject", "shed"}
          /\ {e.submitted, e.queued, e.rejected, e.wait, e.seen, e.inflight, e.cooldown, e.recovery} \subseteq Nat
  BY <1>2, <1>3
<1>5. \A r \in Reqs : job[r].st \in {"none", "queued", "batch", "started", "running", "done", "dropped"}
  BY DEF Types, JobTypes, Jobs, JobStates
<1>6. \A l \in Lanes : counters[l] \in [CounterNames -> Nat]
  BY DEF Types, StatTypes
<1> QED
  BY <1>1, <1>4, <1>5, <1>6 DEF Types, EnvTypes, CallTypes, StatTypes, Labels, TypeOK

\* Every configuration, workload and interleaving keeps the values the code keeps: no count of a tracker goes
\* below zero, no lane beyond its capacity, and the clocks and counters are natural numbers (TypeOK).
THEOREM Typed == Spec => []TypeOK
BY TypesHold, TypesImplyTypeOK, PTL

\* However evictions, expiry and reuse of slots interleave, the index of every tracker leads to exactly the
\* slots in use, each under the key it holds (allocateSlot, clearEntry, expireStaleEntriesLocked).
THEOREM IndexStaysExact == Spec => []IndexExact
<1>1. Types => IndexExact
  BY DEF Types, TrackerTypes, Good, Exact, IndexExact
<1> QED
  BY <1>1, TypesHold, PTL

-----------------------------------------------------------------------------
(* Where the submissions are. *)

Begun == {"started", "running", "done", "dropped"}
Untouched(r) == outcome[r] = "pending" /\ job[r].st = "none"
\* The submission a caller is at, by what the caller does with it next.
Here(c, r) ==
    /\ pc[c] \in {"overload", "admission", "perkey", "enqueue", "push"} => Untouched(r)
    /\ pc[c] = "reject" => job[r].st = "none"
    /\ pc[c] = "observe" => outcome[r] = "pending" /\ job[r].st # "none" /\ (job[r].st \in Begun => job[r].early)
CallInv(c) ==
    \A i \in DOMAIN Script(c) :
        /\ i > pos[c] => Untouched(Script(c)[i])
        /\ i = pos[c] => Here(c, Script(c)[i])

\* What is queued is queued once, where it belongs, and nowhere else.
QueueInv ==
    \A s \in Shards : \A l \in Lanes :
        /\ \A i \in DOMAIN lanes[s][l] : LET r == lanes[s][l][i] IN job[r].st = "queued" /\ Shard(r) = s /\ LaneOf[r] = l
        /\ \A i, j \in DOMAIN lanes[s][l] : lanes[s][l][i] = lanes[s][l][j] => i = j

Calls == (\A c \in Callers : CallInv(c)) /\ QueueInv

LEMMA SubmittedOnce ==
  ASSUME load \in Workloads, NEW c \in Callers, NEW d \in Callers,
         NEW i \in DOMAIN Script(c), NEW j \in DOMAIN Script(d), Script(c)[i] = Script(d)[j]
  PROVE  c = d /\ i = j
BY AdmissionAssumption DEF Script

\* The submissions of the others are left alone, and so are the later ones of the caller.
LEMMA CallStep ==
  ASSUME Types, \A d \in Callers : CallInv(d), NEW c \in Callers, Busy(c), load' = load,
         \A d \in Callers \ {c} : pc'[d] = pc[d] /\ pos'[d] = pos[d],
         \A q \in Reqs \ {Req(c)} : outcome'[q] = outcome[q] /\ job'[q] = job[q],
         \/ pos'[c] = pos[c] /\ Here(c, Req(c))'
         \/ pos'[c] = pos[c] + 1 /\ pc'[c] = "overload"
  PROVE  \A d \in Callers : CallInv(d)'
<1>1. load \in Workloads /\ pos \in [Callers -> Nat \ {0}]
  BY DEF Types, EnvTypes, CallTypes
<1>2. \A d \in Callers : Script(d) \in Seq(Reqs) /\ Script(d)' = Script(d)
  BY <1>1, AdmissionAssumption DEF Script
<1>3. pos[c] \in DOMAIN Script(c) /\ Req(c) = Script(c)[pos[c]]
  BY <1>1, ScriptTyped DEF Req
<1>4. ASSUME NEW d \in Callers, NEW i \in DOMAIN Script(d), d # c \/ i # pos[c]
      PROVE  Script(d)[i] \in Reqs \ {Req(c)}
  BY <1>1, <1>2, <1>3, <1>4, SubmittedOnce
<1>5. ASSUME NEW d \in Callers \ {c}
      PROVE  CallInv(d)'
  <2> SUFFICES ASSUME NEW i \in DOMAIN Script(d)
               PROVE  /\ i > pos'[d] => Untouched(Script(d)[i])'
                      /\ i = pos'[d] => Here(d, Script(d)[i])'
    BY <1>2 DEF CallInv, Untouched, Here, Script
  <2> DEFINE q == Script(d)[i]
  <2>1. outcome'[q] = outcome[q] /\ job'[q] = job[q] /\ pc'[d] = pc[d] /\ pos'[d] = pos[d]
    BY <1>4
  <2>2. /\ i > pos[d] => Untouched(q)
        /\ i = pos[d] => Here(d, q)
    BY DEF CallInv
  <2>3. q' = q
    BY <1>2
  <2> HIDE DEF q
  <2>4. /\ i > pos'[d] => Untouched(q)'
        /\ i = pos'[d] => Here(d, q)'
    BY <2>1, <2>2, <2>3 DEF Untouched, Here
  <2> QED
    BY <2>4, <1>2 DEF q
<1>6. CallInv(c)'
  <2> SUFFICES ASSUME NEW i \in DOMAIN Script(c)
               PROVE  /\ i > pos'[c] => Untouched(Script(c)[i])'
                      /\ i = pos'[c] => Here(c, Script(c)[i])'
    BY <1>2 DEF CallInv, Untouched, Here, Script
  <2> DEFINE q == Script(c)[i]
  <2>0. i \in Nat /\ pos[c] \in Nat
    BY <1>1, <1>2
  <2>1. i # pos[c] => outcome'[q] = outcome[q] /\ job'[q] = job[q]
    BY <1>4
  <2>2. i > pos[c] => Untouched(q)
    BY DEF CallInv
  <2>3. q' = q /\ (i = pos[c] => q = Req(c))
    BY <1>2, <1>3
  <2>4. i > pos[c] => Untouched(q)'
    BY <2>0, <2>1, <2>2, <2>3 DEF Untouched
  <2>5. CASE pos'[c] = pos[c] /\ Here(c, Req(c))'
    <3>1. Req(c)' = Req(c)
      BY <1>2, <2>5 DEF Req
    <3>2. i = pos[c] => Here(c, q)'
      BY <2>3, <2>5, <3>1 DEF Here, Untouched
    <3> QED
      BY <2>4, <2>5, <3>2
  <2>6. CASE pos'[c] = pos[c] + 1 /\ pc'[c] = "overload"
    <3>1. i >= pos'[c] => i > pos[c]
      BY <2>0, <2>6
    <3>2. Untouched(q)' => Here(c, q)'
      BY <2>3, <2>6 DEF Here
    <3>3. i = pos'[c] => i >= pos'[c]
      BY <2>0
    <3>4. i > pos'[c] => i >= pos'[c]
      BY <2>0, <2>6
    <3> QED
      BY <2>4, <3>1, <3>2, <3>3, <3>4
  <2> QED
    BY <2>5, <2>6
<1> QED
  BY <1>5, <1>6

\* A worker moves only jobs that were submitted.
LEMMA WorkStep ==
  ASSUME Types, \A d \in Callers : CallInv(d), NEW r \in Reqs, UNCHANGED <<load, pc, pos, outcome>>,
         \A q \in Reqs \ {r} : job'[q] = job[q], job[r].st # "none", job'[r].st # "none",
         EnqueueUnobserved(r) /\ job'[r].st \in Begun => job'[r].early
  PROVE  \A d \in Callers : CallInv(d)'
<1>1. load \in Workloads /\ pos \in [Callers -> Nat \ {0}] /\ pc \in [Callers -> Labels]
  BY DEF Types, EnvTypes, CallTypes
<1>2. \A d \in Callers : Script(d) \in Seq(Reqs) /\ Script(d)' = Script(d)
  BY <1>1, AdmissionAssumption DEF Script
<1> SUFFICES ASSUME NEW d \in Callers, NEW i \in DOMAIN Script(d)
             PROVE  /\ i > pos[d] => Untouched(Script(d)[i])'
                    /\ i = pos[d] => Here(d, Script(d)[i])'
  BY <1>2 DEF CallInv, Untouched, Here, Script
<1> DEFINE q == Script(d)[i]
<1>3. q \in Reqs /\ q' = q /\ i \in 1..Len(Script(d))
  BY <1>2
<1>4. /\ i > pos[d] => Untouched(q)
      /\ i = pos[d] => Here(d, q)
  BY DEF CallInv
<1>5. i = pos[d] => Busy(d) /\ Req(d) = q
  BY <1>1, <1>2, <1>3 DEF Busy, Req
<1> HIDE DEF q
<1>6. CASE q # r
  <2>1. job'[q] = job[q] /\ outcome' = outcome /\ pc' = pc
    BY <1>3, <1>6
  <2>2. /\ i > pos[d] => Untouched(q)'
        /\ i = pos[d] => Here(d, q)'
    BY <1>3, <1>4, <2>1 DEF Untouched, Here
  <2> QED
    BY <2>2 DEF q
<1>7. CASE q = r
  <2>1. ~(i > pos[d])
    BY <1>4, <1>7 DEF Untouched
  <2>2. ASSUME i = pos[d]
        PROVE  Here(d, q)'
    <3>1. pc[d] = "observe" /\ outcome[q] = "pending"
      BY <1>1, <1>4, <1>7, <2>2 DEF Here, Untouched, Labels
    <3>2. EnqueueUnobserved(r)
      BY <1>5, <1>7, <2>2, <3>1 DEF EnqueueUnobserved
    <3> QED
      BY <1>3, <1>7, <3>1, <3>2 DEF Here
  <2> QED
    BY <2>1, <2>2 DEF q
<1> QED
  BY <1>6, <1>7

LEMMA InitCalls == Init => Calls
<1> SUFFICES ASSUME Init PROVE Calls
  OBVIOUS
<1>1. \A r \in Reqs : Untouched(r)
  BY DEF Init, Untouched
<1>2. load \in Workloads /\ pc = [c \in Callers |-> "overload"] /\ lanes = [s \in Shards |-> [l \in Lanes |-> <<>>]]
  BY DEF Init
<1>3. \A c \in Callers : \A i \in DOMAIN Script(c) : Script(c)[i] \in Reqs
  BY <1>2, AdmissionAssumption DEF Script
<1>4. \A c \in Callers : CallInv(c)
  BY <1>1, <1>2, <1>3 DEF CallInv, Here
<1>5. \A s \in Shards : \A l \in Lanes : lanes[s][l] = <<>>
  BY <1>2
<1>6. DOMAIN <<>> = {}
  OBVIOUS
<1>7. QueueInv
  BY <1>5, <1>6 DEF QueueInv
<1> QED
  BY <1>4, <1>7 DEF Calls

LEMMA QueueKept ==
  ASSUME Types, QueueInv, lanes' = lanes, \A r \in Reqs : job[r].st = "queued" => job'[r].st = "queued"
  PROVE  QueueInv'
<1>1. \A s \in Shards : \A l \in Lanes : \A i \in DOMAIN lanes[s][l] : lanes[s][l][i] \in Reqs
  BY DEF Types, LaneTypes
<1> SUFFICES ASSUME NEW s \in Shards, NEW l \in Lanes
             PROVE  /\ \A i \in DOMAIN lanes[s][l] : LET r == lanes[s][l][i] IN job'[r].st = "queued" /\ Shard(r) = s /\ LaneOf[r] = l
                    /\ \A i, j \in DOMAIN lanes[s][l] : lanes[s][l][i] = lanes[s][l][j] => i = j
  BY DEF QueueInv, Shard
<1> QED
  BY <1>1 DEF QueueInv

\* The submission a caller is at.
LEMMA AtHand ==
  ASSUME Types, Calls, NEW c \in Callers, Busy(c)
  PROVE  Req(c) \in Reqs /\ Here(c, Req(c))
<1>1. pos[c] \in DOMAIN Script(c) /\ Req(c) \in Reqs /\ Req(c) = Script(c)[pos[c]]
  BY ScriptTyped DEF Types, EnvTypes, CallTypes, Req
<1> QED
  BY <1>1 DEF Calls, CallInv

\* A caller that goes on with its submission, without queueing it.
LEMMA OnwardCalls ==
  ASSUME Types, Calls, NEW c \in Callers, Busy(c), pc[c] \in {"overload", "admission", "perkey", "enqueue"},
         NEW label \in {"admission", "perkey", "enqueue", "push", "reject"}, Goto(c, label), UNCHANGED <<load, lanes, job>>,
         \/ outcome' = outcome
         \/ label = "reject" /\ \E w \in Outcomes : Tell(Req(c), w)
  PROVE  Calls'
<1>1. Req(c) \in Reqs /\ Untouched(Req(c))
  BY AtHand DEF Here
<1>2. pos' = pos /\ pc'[c] = label /\ \A d \in Callers \ {c} : pc'[d] = pc[d]
  BY GotoTyped DEF Types, Labels
<1>3. \A q \in Reqs \ {Req(c)} : outcome'[q] = outcome[q]
  BY <1>1, TellTyped DEF Types
<1>4. Req(c)' = Req(c)
  BY <1>2 DEF Req, Script
<1>5. Here(c, Req(c))'
  <2>1. CASE label = "reject"
    BY <1>1, <1>2, <1>4, <2>1 DEF Here, Untouched
  <2>2. CASE label # "reject"
    <3>1. outcome' = outcome /\ job' = job /\ pc'[c] # "observe" /\ pc'[c] # "reject"
      BY <1>2, <2>2
    <3> QED
      BY <1>1, <1>4, <3>1 DEF Here, Untouched
  <2> QED
    BY <2>1, <2>2
<1>6. \A d \in Callers : CallInv(d)'
  BY <1>2, <1>3, <1>5, CallStep DEF Calls
<1>7. QueueInv'
  BY QueueKept DEF Calls
<1> QED
  BY <1>6, <1>7 DEF Calls

\* A caller that is done with its submission.
LEMMA ReturnCalls ==
  ASSUME Types, Calls, NEW c \in Callers, Busy(c), Return(c), UNCHANGED <<load, lanes, job>>,
         \/ outcome' = outcome
         \/ \E w \in Outcomes : Tell(Req(c), w)
  PROVE  Calls'
<1>1. Req(c) \in Reqs
  BY AtHand
<1>2. pc'[c] = "overload" /\ pos'[c] = pos[c] + 1 /\ \A d \in Callers \ {c} : pc'[d] = pc[d] /\ pos'[d] = pos[d]
  BY ReturnTyped DEF Types
<1>3. \A q \in Reqs \ {Req(c)} : outcome'[q] = outcome[q]
  BY <1>1, TellTyped DEF Types
<1>4. \A d \in Callers : CallInv(d)'
  BY <1>2, <1>3, CallStep DEF Calls
<1>5. QueueInv'
  BY QueueKept DEF Calls
<1> QED
  BY <1>4, <1>5 DEF Calls

\* A caller that puts its submission into a lane.
LEMMA PushCalls ==
  ASSUME Types, Calls, NEW c \in Callers, EnqueuePushed(c)
  PROVE  Calls'
<1> DEFINE r == Req(c)
<1>1. r \in Reqs /\ Untouched(r) /\ Shard(r) \in Shards /\ LaneOf[r] \in Lanes
  BY AtHand, Sorts DEF EnqueuePushed, Here
<1>2. pos' = pos /\ pc'[c] = "observe" /\ \A d \in Callers \ {c} : pc'[d] = pc[d]
  BY GotoTyped DEF EnqueuePushed, Types, Labels
<1>3. load' = load /\ outcome' = outcome
  BY DEF EnqueuePushed, CallerFrame
<1>4. Req(c)' = Req(c)
  BY <1>2, <1>3 DEF Req, Script
<1>5. now \in Nat
  BY <1>1, At
<1>6. /\ job' \in [Reqs -> Jobs] /\ job'[r].st = "queued" /\ \A q \in Reqs \ {r} : job'[q] = job[q]
  BY <1>1, <1>5, JobQueued DEF EnqueuePushed, Types, JobTypes
<1>7. Here(c, Req(c))'
  BY <1>1, <1>2, <1>3, <1>4, <1>6 DEF Here, Untouched, Begun
<1>8. \A d \in Callers : CallInv(d)'
  <2>1. Busy(c)
    BY DEF EnqueuePushed
  <2> QED
    BY <1>2, <1>3, <1>6, <1>7, <2>1, CallStep DEF Calls
<1>9. QueueInv'
  <2> DEFINE s == Shard(r)
             l == LaneOf[r]
             q == lanes[s][l]
  <2>1. q \in Seq(Reqs)
    BY <1>1 DEF Types, LaneTypes
  <2>2. /\ Append(q, r) \in Seq(Reqs) /\ DOMAIN Append(q, r) = 1..(Len(q) + 1) /\ DOMAIN q = 1..Len(q) /\ Len(q) \in Nat
        /\ \A i \in 1..Len(q) : Append(q, r)[i] = q[i]
        /\ Append(q, r)[Len(q) + 1] = r
    BY <1>1, <2>1
  <2>3. /\ lanes'[s][l] = Append(q, r)
        /\ \A x \in Shards : \A y \in Lanes : x # s \/ y # l => lanes'[x][y] = lanes[x][y]
    BY <1>1, <2>2, LaneStep DEF EnqueuePushed, Types, LaneTypes
  <2>4. \A x \in Shards : \A y \in Lanes : \A i \in DOMAIN lanes[x][y] :
          /\ lanes[x][y][i] # r /\ lanes[x][y][i] \in Reqs /\ job'[lanes[x][y][i]].st = "queued"
          /\ Shard(lanes[x][y][i]) = x /\ LaneOf[lanes[x][y][i]] = y
    <3>1. \A x \in Shards : \A y \in Lanes : \A i \in DOMAIN lanes[x][y] : lanes[x][y][i] \in Reqs
      BY DEF Types, LaneTypes
    <3> HIDE DEF r, s, l, q
    <3> QED
      BY <1>1, <1>6, <3>1 DEF Calls, QueueInv, Untouched
  <2>5. \A x \in Shards : \A y \in Lanes : \A i, j \in DOMAIN lanes[x][y] : lanes[x][y][i] = lanes[x][y][j] => i = j
    BY DEF Calls, QueueInv
  <2>6. ASSUME NEW x \in Shards, NEW y \in Lanes
        PROVE  /\ \A i \in DOMAIN lanes'[x][y] :
                     job'[lanes'[x][y][i]].st = "queued" /\ Shard(lanes'[x][y][i]) = x /\ LaneOf[lanes'[x][y][i]] = y
               /\ \A i, j \in DOMAIN lanes'[x][y] : lanes'[x][y][i] = lanes'[x][y][j] => i = j
    <3>1. CASE x # s \/ y # l
      <4>1. lanes'[x][y] = lanes[x][y]
        BY <2>3, <3>1
      <4> QED
        BY <4>1, <2>4, <2>5
    <3>2. CASE x = s /\ y = l
      <4>1. lanes'[x][y] = Append(q, r)
        BY <2>3, <3>2
      <4>2. \A i \in 1..Len(q) : q[i] # r /\ job'[q[i]].st = "queued" /\ Shard(q[i]) = s /\ LaneOf[q[i]] = l
        BY <1>1, <2>2, <2>4
      <4>3. \A i, j \in 1..Len(q) : q[i] = q[j] => i = j
        BY <1>1, <2>2, <2>5
      <4> DEFINE p == Append(q, r)
      <4>4. Shard(r) = s /\ LaneOf[r] = l /\ job'[r].st = "queued"
        BY <1>6
      <4>5. DOMAIN p = 1..(Len(q) + 1) /\ p[Len(q) + 1] = r /\ \A i \in 1..Len(q) : p[i] = q[i]
        BY <2>2
      <4>6. Len(q) \in Nat
        BY <2>2
      <4> HIDE DEF p, q, r, s, l
      <4>7. \A i \in DOMAIN p : job'[p[i]].st = "queued" /\ Shard(p[i]) = s /\ LaneOf[p[i]] = l
        BY <4>2, <4>4, <4>5, <4>6
      <4>8. \A i, j \in DOMAIN p : p[i] = p[j] => i = j
        BY <4>2, <4>3, <4>5, <4>6
      <4> QED
        BY <3>2, <4>1, <4>7, <4>8 DEF p
    <3> QED
      BY <3>1, <3>2
  <2> HIDE DEF r, s, l, q
  <2> QED
    BY <2>6 DEF QueueInv, Shard
<1> QED
  BY <1>8, <1>9 DEF Calls

\* A worker that takes the first job of a lane.
LEMMA PopCalls ==
  ASSUME Types, Calls, NEW s \in Shards, NEW l \in Lanes, PopN(s, l)
  PROVE  /\ Calls'
         /\ LET r == Head(lanes[s][l]) IN
            /\ r \in Reqs /\ job[r].st = "queued" /\ job'[r].st = "batch" /\ job'[r].early = job[r].early
            /\ \A q \in Reqs \ {r} : job'[q] = job[q]
<1> DEFINE q == lanes[s][l]
           r == Head(q)
<1>1. q \in Seq(Reqs) /\ q # <<>>
  BY DEF PopN, Types, LaneTypes
<1>2. /\ r \in Reqs /\ r = q[1] /\ Tail(q) \in Seq(Reqs) /\ Len(q) \in Nat /\ DOMAIN q = 1..Len(q) /\ 1 \in DOMAIN q
      /\ DOMAIN Tail(q) = 1..(Len(q) - 1) /\ \A i \in 1..(Len(q) - 1) : Tail(q)[i] = q[i + 1]
  BY <1>1
<1>3. job[r].st = "queued" /\ Shard(r) = s /\ LaneOf[r] = l
  BY <1>2 DEF Calls, QueueInv
<1>4. lanes' = [lanes EXCEPT ![s][l] = Tail(q)] /\ job' = [job EXCEPT ![r].st = "batch"] /\ UNCHANGED <<load, pc, pos, outcome>>
  BY DEF PopN, WorkerFrame
<1> HIDE DEF r
<1>5. /\ job'[r].st = "batch" /\ job'[r].early = job[r].early /\ \A x \in Reqs \ {r} : job'[x] = job[x]
  BY <1>2, <1>4, JobStep DEF Types, JobTypes, JobStates
<1>6. \A d \in Callers : CallInv(d)'
  BY <1>2, <1>3, <1>4, <1>5, WorkStep DEF Calls, Begun
<1>7. /\ lanes'[s][l] = Tail(q)
      /\ \A x \in Shards : \A y \in Lanes : x # s \/ y # l => lanes'[x][y] = lanes[x][y]
  BY <1>2, <1>4, LaneStep DEF Types, LaneTypes
<1>8. ASSUME NEW x \in Shards, NEW y \in Lanes
      PROVE  /\ \A i \in DOMAIN lanes'[x][y] :
                   job'[lanes'[x][y][i]].st = "queued" /\ Shard(lanes'[x][y][i]) = x /\ LaneOf[lanes'[x][y][i]] = y
             /\ \A i, j \in DOMAIN lanes'[x][y] : lanes'[x][y][i] = lanes'[x][y][j] => i = j
  <2>1. /\ \A i \in DOMAIN lanes[x][y] : /\ lanes[x][y][i] \in Reqs /\ job[lanes[x][y][i]].st = "queued"
                                         /\ Shard(lanes[x][y][i]) = x /\ LaneOf[lanes[x][y][i]] = y
        /\ \A i, j \in DOMAIN lanes[x][y] : lanes[x][y][i] = lanes[x][y][j] => i = j
    BY DEF Calls, QueueInv, Types, LaneTypes
  <2>2. CASE x # s \/ y # l
    <3>1. lanes'[x][y] = lanes[x][y]
      BY <1>7, <2>2
    <3>2. \A i \in DOMAIN lanes[x][y] : lanes[x][y][i] # r
      BY <1>3, <2>1, <2>2
    <3> QED
      BY <1>5, <2>1, <3>1, <3>2
  <2>3. CASE x = s /\ y = l
    <3>1. lanes'[x][y] = Tail(q) /\ lanes[x][y] = q
      BY <1>7, <2>3
    <3> HIDE DEF q
    <3>2. \A i \in 1..(Len(q) - 1) : i + 1 \in DOMAIN q /\ i + 1 # 1 /\ Tail(q)[i] = q[i + 1] /\ q[i + 1] # r
      BY <1>2, <2>1, <3>1
    <3>3. \A i \in DOMAIN Tail(q) : job'[Tail(q)[i]].st = "queued" /\ Shard(Tail(q)[i]) = x /\ LaneOf[Tail(q)[i]] = y
      BY <1>2, <1>5, <2>1, <3>1, <3>2
    <3>4. ASSUME NEW i \in DOMAIN Tail(q), NEW j \in DOMAIN Tail(q), Tail(q)[i] = Tail(q)[j]
          PROVE  i = j
      <4>1. q[i + 1] = q[j + 1] /\ i + 1 \in DOMAIN q /\ j + 1 \in DOMAIN q
        BY <1>2, <3>2, <3>4
      <4>2. i + 1 = j + 1
        BY <2>1, <3>1, <4>1
      <4> QED
        BY <1>2, <4>2
    <3> QED
      BY <3>1, <3>3, <3>4
  <2> QED
    BY <2>2, <2>3
<1>9. QueueInv'
  BY <1>8 DEF QueueInv, Shard
<1> QED
  BY <1>2, <1>3, <1>5, <1>6, <1>9 DEF Calls, r

\* A job that a worker moves on, and one that a worker starts.
LEMMA WorkerCalls ==
  ASSUME Types, Calls, NEW r \in Reqs, WorkerSteps(r)
  PROVE  /\ Calls' /\ UNCHANGED <<load, pc, pos, outcome, lanes>> /\ \A q \in Reqs \ {r} : job'[q] = job[q]
         /\ \/ job[r].st = "batch" /\ job'[r].st = "started" /\ (job'[r].early <=> EnqueueUnobserved(r))
            \/ /\ job[r].st = "started" /\ job'[r].st \in {"running", "dropped"} /\ job'[r].early = job[r].early
            \/ /\ job[r].st = "running" /\ job'[r].st = "done" /\ job'[r].early = job[r].early
<1>1. UNCHANGED <<load, pc, pos, outcome, lanes>>
  BY DEF WorkerSteps, ObserveStart, RunJob, JobDone, AbandonJob, WorkerFrame
<1>2. /\ \A q \in Reqs \ {r} : job'[q] = job[q]
      /\ \/ job[r].st = "batch" /\ job'[r].st = "started" /\ (job'[r].early <=> EnqueueUnobserved(r))
         \/ /\ job[r].st = "started" /\ job'[r].st \in {"running", "dropped"} /\ job'[r].early = job[r].early
         \/ /\ job[r].st = "running" /\ job'[r].st = "done" /\ job'[r].early = job[r].early
  <2>1. job \in [Reqs -> Jobs]
    BY DEF Types, JobTypes
  <2>2. CASE ObserveStart(r)
    <3> DEFINE b == EnqueueUnobserved(r)
    <3>1. b \in BOOLEAN
      BY DEF EnqueueUnobserved
    <3>2. job[r].st = "batch" /\ job' = [job EXCEPT ![r].st = "started", ![r].early = b]
      BY <2>2 DEF ObserveStart
    <3> HIDE DEF b
    <3>3. job'[r].st = "started" /\ job'[r].early = b /\ \A q \in Reqs \ {r} : job'[q] = job[q]
      BY <2>1, <3>1, <3>2, JobStarted, Zenon
    <3> QED
      BY <3>2, <3>3 DEF b
  <2>3. CASE RunJob(r)
    BY <2>1, <2>3, JobStep DEF RunJob, JobStates
  <2>4. CASE JobDone(r)
    BY <2>1, <2>4, JobStep DEF JobDone, JobStates
  <2>5. CASE AbandonJob(r)
    BY <2>1, <2>5, JobStep DEF AbandonJob, JobStates
  <2> QED
    BY <2>2, <2>3, <2>4, <2>5 DEF WorkerSteps
<1>3. EnqueueUnobserved(r) /\ job'[r].st \in Begun => job'[r].early
  <2>1. ASSUME EnqueueUnobserved(r), job[r].st \in Begun
        PROVE  job[r].early
    <3>1. PICK c \in Callers : Busy(c) /\ Req(c) = r /\ pc[c] = "observe"
      BY <2>1 DEF EnqueueUnobserved
    <3> QED
      BY <2>1, <3>1, AtHand DEF Here
  <2> QED
    BY <1>2, <2>1 DEF Begun
<1>4. \A d \in Callers : CallInv(d)'
  <2>1. job[r].st # "none" /\ job'[r].st # "none"
    BY <1>2
  <2> QED
    BY <1>1, <1>2, <1>3, <2>1, WorkStep DEF Calls
<1>5. QueueInv'
  <2>1. \A q \in Reqs : job[q].st = "queued" => job'[q].st = "queued"
    BY <1>2
  <2> QED
    BY <1>1, <2>1, QueueKept DEF Calls
<1> QED
  BY <1>1, <1>2, <1>4, <1>5 DEF Calls

\* Nothing a call or a job is about changed.
LEMMA StillCalls ==
  ASSUME Calls, UNCHANGED <<load, pc, pos, job, outcome, lanes>>
  PROVE  Calls'
BY DEF Calls, CallInv, QueueInv, Here, Untouched, Script, Shard

\* The verdict of CheckPerKeyAdmission.
PerKeyStep(c, v, u) ==
    /\ Busy(c) /\ pc[c] = "perkey" /\ tracker' = [tracker EXCEPT ![Shard(Req(c))] = u]
    /\ \/ v.action = "allow" /\ Goto(c, "enqueue") /\ UNCHANGED outcome
       \/ v.action # "allow" /\ Goto(c, "reject") /\ Tell(Req(c), v.reason)
    /\ lastObserved' = IF v.kind = "decide" THEN [lastObserved EXCEPT ![KeyOf[Req(c)]] = now] ELSE lastObserved
    /\ CallerFrame /\ UNCHANGED <<lanes, job, counters>>

Decided(t, k, v, u) ==
    /\ Sound(t, u, k) /\ v.action \in Mitigations /\ (v.action # "allow" => v.kind = "decide")
    /\ v.kind = "decide" => /\ Tracked(t, k) /\ ~hotKeyEntryStale(EntryOf(t, k), now)
                            /\ Justified(v, EntryOf(t, k), PerKeyConfig)
    /\ Tracked(u, k) => Tracked(t, k) /\ Marked(v, now, EntryOf(t, k), EntryOf(u, k))

LEMMA PerKeyCases ==
  ASSUME Types, NEW c \in Callers, CheckPerKeyAdmission(c)
  PROVE  \E v, u : PerKeyStep(c, v, u) /\ Decided(tracker[Shard(Req(c))], KeyOf[Req(c)], v, u)
<1> DEFINE r == Req(c)
           shard == shardDepthAndWaitForHotKey(Shard(r))
           p == <<TotalDepth, TotalCapacity>>
           e == evaluatePerKeyAdmission(tracker[Shard(r)], KeyOf[r], shard, p, PerKeyConfig, now)
<1>1. r \in Reqs
  BY BusyReq DEF CheckPerKeyAdmission
<1>2. PerKeyStep(c, e.verdict, e.tracker)
  BY Zenon DEF CheckPerKeyAdmission, PerKeyStep
<1> HIDE DEF r, shard, p
<1>3. /\ Good(tracker[Shard(r)]) /\ Live(tracker[Shard(r)]) /\ KeyOf[r] \in Keys /\ now \in Nat
  BY <1>1, At
<1> DEFINE t == tracker[Shard(r)]
           k == KeyOf[r]
<1>4. Decided(t, k, e.verdict, e.tracker)
  BY <1>3, Evaluated DEF Decided
<1> HIDE DEF e
<1> QED
  BY <1>2, <1>4, Zenon DEF r

\* The steps of a caller, by what becomes of its submission.
CallerKinds(c) ==
    \/ \E n \in {"overloadShed", "overloadDegrade", "overloadReject"} : Refused(c, "overload", {"rejected", "pressureRejected", n})
    \/ Refused(c, "admission", {"rejected", "pressureRejected"})
    \/ \E from, to : from \in {"overload", "admission"} /\ to \in {"admission", "perkey"} /\ Passed(c, from, to)
    \/ CheckPerKeyAdmission(c) \/ RecordHotKeyReject(c) \/ EnqueueStopped(c) \/ EnqueueStarted(c)
    \/ EnqueueFull(c) \/ EnqueuePushed(c) \/ EnqueueEnd(c)

LEMMA CallerCases ==
  ASSUME NEW c, CallerSteps(c)
  PROVE  CallerKinds(c)
<1>1. CASE CheckOverload(c)
  <2>1. Passed(c, "overload", "admission") => CallerKinds(c)
    BY DEF CallerKinds
  <2>2. (\E n \in {"overloadShed", "overloadDegrade", "overloadReject"} : Refused(c, "overload", {"rejected", "pressureRejected", n}))
          => CallerKinds(c)
    BY Zenon DEF CallerKinds
  <2> QED
    BY <1>1, <2>1, <2>2, CheckOverloadCases
<1>2. CASE CheckAdmission(c)
  <2>1. Passed(c, "admission", "perkey") => CallerKinds(c)
    BY DEF CallerKinds
  <2>2. Refused(c, "admission", {"rejected", "pressureRejected"}) => CallerKinds(c)
    BY Zenon DEF CallerKinds
  <2> QED
    BY <1>2, <2>1, <2>2, CheckAdmissionCases
<1>3. CASE EnqueueBegin(c)
  BY <1>3, EnqueueBeginCases, Zenon DEF CallerKinds
<1>4. CASE enqueueIntoShard(c)
  BY <1>4, EnqueueIntoShardCases, Zenon DEF CallerKinds
<1> QED
  BY <1>1, <1>2, <1>3, <1>4, Zenon DEF CallerKinds, CallerSteps

LEMMA NextCalls ==
  ASSUME Types, Calls, [Next]_vars
  PROVE  Calls'
<1>1. ASSUME NEW c \in Callers, CallerSteps(c)
      PROVE  Calls'
  <2>0. Outcomes = {"pending", "overload", "admission", "stopped", "full", "accepted"} \cup Reasons
    BY DEF Outcomes
  <2>1. ASSUME NEW w \in {"overload", "admission"}, NEW N, Refused(c, w, N)
        PROVE  Calls'
    BY <2>0, <2>1, OnwardCalls DEF Refused, CallerFrame
  <2>2. ASSUME NEW from \in {"overload", "admission"}, NEW to \in {"admission", "perkey"}, Passed(c, from, to)
        PROVE  Calls'
    BY <2>2, OnwardCalls DEF Passed, CallerFrame
  <2>3. CASE CheckPerKeyAdmission(c)
    <3>1. PICK v, u : PerKeyStep(c, v, u) /\ Decided(tracker[Shard(Req(c))], KeyOf[Req(c)], v, u)
      BY <2>3, PerKeyCases
    <3>2. v.action # "allow" => v.reason \in Reasons
      BY <3>1 , Zenon DEF Decided, Justified
    <3> QED
      BY <2>0, <3>1, <3>2, OnwardCalls DEF PerKeyStep, CallerFrame
  <2>4. CASE RecordHotKeyReject(c)
    BY <2>4, ReturnCalls DEF RecordHotKeyReject, CallerFrame
  <2>5. CASE EnqueueStopped(c)
    BY <2>0, <2>5, ReturnCalls DEF EnqueueStopped, CallerFrame
  <2>6. CASE EnqueueStarted(c)
    BY <2>6, OnwardCalls DEF EnqueueStarted, CallerFrame
  <2>7. CASE EnqueueFull(c)
    BY <2>0, <2>7, ReturnCalls DEF EnqueueFull, CallerFrame
  <2>8. CASE EnqueuePushed(c)
    BY <2>8, PushCalls
  <2>9. CASE EnqueueEnd(c)
    BY <2>0, <2>9, EnqueueEndCases, ReturnCalls DEF CallerFrame
  <2>10. CallerKinds(c)
    BY <1>1, CallerCases
  <2>11. /\ (\E n \in {"overloadShed", "overloadDegrade", "overloadReject"} : Refused(c, "overload", {"rejected", "pressureRejected", n}))
              => Calls'
         /\ Refused(c, "admission", {"rejected", "pressureRejected"}) => Calls'
    BY <2>1
  <2> QED
    BY <2>2, <2>3, <2>4, <2>5, <2>6, <2>7, <2>8, <2>9, <2>10, <2>11, Zenon DEF CallerKinds
<1>2. CASE Environment
  BY <1>2, EnvironmentFrame, StillCalls
<1>3. CASE Watching
  BY <1>3, StillCalls DEF Watching, SnapshotBegin, SnapshotRead
<1>4. ASSUME NEW s \in Shards, DetectHotKeys(s)
      PROVE  Calls'
  BY <1>4, StillCalls DEF DetectHotKeys, EnvFrame
<1>5. CASE UNCHANGED vars
  BY <1>5, StillCalls DEF vars
<1> QED
  BY <1>1, <1>2, <1>3, <1>4, <1>5, NextCases, WorkerCalls, PopCalls

LEMMA CallsHold == Spec => [](Types /\ Calls)
<1>1. Init => Types /\ Calls
  BY InitTypes, InitCalls
<1>2. (Types /\ Calls) /\ [Next]_vars => (Types /\ Calls)'
  BY NextTypes, NextCalls
<1> QED
  BY <1>1, <1>2, PTL DEF Spec

-----------------------------------------------------------------------------
(* The ledger of a lane. *)

\* Two finite sets that differ in one element at most.
LEMMA CardChange ==
  ASSUME NEW A, NEW B, NEW j, IsFiniteSet(A), A \ {j} = B \ {j}
  PROVE  /\ IsFiniteSet(B) /\ Cardinality(A) \in Nat /\ Cardinality(B) \in Nat
         /\ (j \in A <=> j \in B) => B = A /\ Cardinality(B) = Cardinality(A)
         /\ j \notin A /\ j \in B => Cardinality(B) = Cardinality(A) + 1
         /\ j \in A /\ j \notin B => Cardinality(B) = Cardinality(A) - 1
<1>1. Cardinality(A) \in Nat
  BY FS_CardinalityType
<1>2. CASE j \in A <=> j \in B
  <2>1. A = B
    BY <1>2
  <2> QED
    BY <1>1, <1>2, <2>1
<1>3. CASE j \notin A /\ j \in B
  <2>1. B = A \cup {j}
    BY <1>3
  <2>2. IsFiniteSet(B) /\ Cardinality(B) = Cardinality(A) + 1
    BY <1>3, <2>1, FS_AddElement
  <2> QED
    BY <1>1, <1>3, <2>2
<1>4. CASE j \in A /\ j \notin B
  <2>1. B = A \ {j}
    BY <1>4
  <2>2. IsFiniteSet(B) /\ Cardinality(B) = Cardinality(A) - 1
    BY <1>4, <2>1, FS_RemoveElement
  <2> QED
    BY <1>1, <1>4, <2>2, FS_CardinalityType
<1> QED
  BY <1>2, <1>3, <1>4

Turned(l) == {r \in Reqs : LaneOf[r] = l /\ outcome[r] = "admission"}

\* The counters of a lane with so many submissions under way and so many turned away by lane admission.  A
\* full lane is a rejection, but no pressure rejection.
Account(s, a, r, p, reject, shed, degrade, full, under, turned) ==
    s = a + (r - p) + under /\ p = reject + shed + degrade + turned /\ full + p <= r
Balance(n, under, turned) ==
    Account(n["submitted"], n["accepted"], n["rejected"], n["pressureRejected"], n["overloadReject"],
            n["overloadShed"], n["overloadDegrade"], n["queueFull"], under, turned)
LedgerInv == \A l \in Lanes : Balance(counters[l], Cardinality(Enqueuing(l)), Cardinality(Turned(l)))

LEMMA Sums ==
  ASSUME NEW s \in Nat, NEW a \in Nat, NEW r \in Nat, NEW p \in Nat, NEW x \in Nat, NEW y \in Nat, NEW z \in Nat, NEW q \in Nat,
         NEW e \in Nat, NEW t \in Nat, Account(s, a, r, p, x, y, z, q, e, t)
  PROVE  /\ Account(s, a, r + 1, p + 1, x, y + 1, z, q, e, t)
         /\ Account(s, a, r + 1, p + 1, x, y, z + 1, q, e, t)
         /\ Account(s, a, r + 1, p + 1, x + 1, y, z, q, e, t)
         /\ Account(s, a, r + 1, p + 1, x, y, z, q, e, t + 1)
         /\ Account(s + 1, a, r + 1, p, x, y, z, q, e, t)
         /\ Account(s + 1, a, r, p, x, y, z, q, e + 1, t)
         /\ Account(s, a, r + 1, p, x, y, z, q + 1, e - 1, t)
         /\ Account(s, a + 1, r, p, x, y, z, q, e - 1, t)
BY DEF Account

LEMMA Posted ==
  ASSUME NEW n \in [CounterNames -> Nat], NEW m \in [CounterNames -> Nat], NEW e \in Nat, NEW t \in Nat, NEW N,
         Balance(n, e, t), \A x \in CounterNames : m[x] = IF x \in N THEN n[x] + 1 ELSE n[x]
  PROVE  /\ N = {"rejected", "pressureRejected", "overloadShed"} => Balance(m, e, t)
         /\ N = {"rejected", "pressureRejected", "overloadDegrade"} => Balance(m, e, t)
         /\ N = {"rejected", "pressureRejected", "overloadReject"} => Balance(m, e, t)
         /\ N = {"rejected", "pressureRejected"} => Balance(m, e, t + 1)
         /\ N = {"submitted", "rejected"} => Balance(m, e, t)
         /\ N = {"submitted"} => Balance(m, e + 1, t)
         /\ N = {"rejected", "queueFull"} => Balance(m, e - 1, t)
         /\ N = {"accepted"} => Balance(m, e - 1, t)
         /\ N = {"completed"} => Balance(m, e, t)
         /\ N = {"canceled"} => Balance(m, e, t)
<1>1. /\ n["submitted"] \in Nat /\ n["accepted"] \in Nat /\ n["rejected"] \in Nat /\ n["pressureRejected"] \in Nat
      /\ n["overloadReject"] \in Nat /\ n["overloadShed"] \in Nat /\ n["overloadDegrade"] \in Nat /\ n["queueFull"] \in Nat
  BY DEF CounterNames
<1>2. /\ m["submitted"] = IF "submitted" \in N THEN n["submitted"] + 1 ELSE n["submitted"]
      /\ m["accepted"] = IF "accepted" \in N THEN n["accepted"] + 1 ELSE n["accepted"]
      /\ m["rejected"] = IF "rejected" \in N THEN n["rejected"] + 1 ELSE n["rejected"]
      /\ m["pressureRejected"] = IF "pressureRejected" \in N THEN n["pressureRejected"] + 1 ELSE n["pressureRejected"]
      /\ m["overloadReject"] = IF "overloadReject" \in N THEN n["overloadReject"] + 1 ELSE n["overloadReject"]
      /\ m["overloadShed"] = IF "overloadShed" \in N THEN n["overloadShed"] + 1 ELSE n["overloadShed"]
      /\ m["overloadDegrade"] = IF "overloadDegrade" \in N THEN n["overloadDegrade"] + 1 ELSE n["overloadDegrade"]
      /\ m["queueFull"] = IF "queueFull" \in N THEN n["queueFull"] + 1 ELSE n["queueFull"]
  BY DEF CounterNames
<1>3. Account(n["submitted"], n["accepted"], n["rejected"], n["pressureRejected"], n["overloadReject"], n["overloadShed"], n["overloadDegrade"], n["queueFull"], e, t)
  BY DEF Balance
<1>4. N = {"rejected", "pressureRejected", "overloadShed"} => Balance(m, e, t)
  <2>1. Account(n["submitted"], n["accepted"], n["rejected"] + 1, n["pressureRejected"] + 1, n["overloadReject"], n["overloadShed"] + 1, n["overloadDegrade"], n["queueFull"], e, t)
    BY <1>1, <1>3, Sums, Zenon
  <2>2. N = {"rejected", "pressureRejected", "overloadShed"} =>
              /\ m["submitted"] = n["submitted"] /\ m["accepted"] = n["accepted"] /\ m["rejected"] = n["rejected"] + 1 /\ m["pressureRejected"] = n["pressureRejected"] + 1
              /\ m["overloadReject"] = n["overloadReject"] /\ m["overloadShed"] = n["overloadShed"] + 1 /\ m["overloadDegrade"] = n["overloadDegrade"] /\ m["queueFull"] = n["queueFull"]
    BY <1>2
  <2> QED
    BY <2>1, <2>2, Zenon DEF Balance
<1>5. N = {"rejected", "pressureRejected", "overloadDegrade"} => Balance(m, e, t)
  <2>1. Account(n["submitted"], n["accepted"], n["rejected"] + 1, n["pressureRejected"] + 1, n["overloadReject"], n["overloadShed"], n["overloadDegrade"] + 1, n["queueFull"], e, t)
    BY <1>1, <1>3, Sums, Zenon
  <2>2. N = {"rejected", "pressureRejected", "overloadDegrade"} =>
              /\ m["submitted"] = n["submitted"] /\ m["accepted"] = n["accepted"] /\ m["rejected"] = n["rejected"] + 1 /\ m["pressureRejected"] = n["pressureRejected"] + 1
              /\ m["overloadReject"] = n["overloadReject"] /\ m["overloadShed"] = n["overloadShed"] /\ m["overloadDegrade"] = n["overloadDegrade"] + 1 /\ m["queueFull"] = n["queueFull"]
    BY <1>2
  <2> QED
    BY <2>1, <2>2, Zenon DEF Balance
<1>6. N = {"rejected", "pressureRejected", "overloadReject"} => Balance(m, e, t)
  <2>1. Account(n["submitted"], n["accepted"], n["rejected"] + 1, n["pressureRejected"] + 1, n["overloadReject"] + 1, n["overloadShed"], n["overloadDegrade"], n["queueFull"], e, t)
    BY <1>1, <1>3, Sums, Zenon
  <2>2. N = {"rejected", "pressureRejected", "overloadReject"} =>
              /\ m["submitted"] = n["submitted"] /\ m["accepted"] = n["accepted"] /\ m["rejected"] = n["rejected"] + 1 /\ m["pressureRejected"] = n["pressureRejected"] + 1
              /\ m["overloadReject"] = n["overloadReject"] + 1 /\ m["overloadShed"] = n["overloadShed"] /\ m["overloadDegrade"] = n["overloadDegrade"] /\ m["queueFull"] = n["queueFull"]
    BY <1>2
  <2> QED
    BY <2>1, <2>2, Zenon DEF Balance
<1>7. N = {"rejected", "pressureRejected"} => Balance(m, e, t + 1)
  <2>1. Account(n["submitted"], n["accepted"], n["rejected"] + 1, n["pressureRejected"] + 1, n["overloadReject"], n["overloadShed"], n["overloadDegrade"], n["queueFull"], e, t + 1)
    BY <1>1, <1>3, Sums, Zenon
  <2>2. N = {"rejected", "pressureRejected"} =>
              /\ m["submitted"] = n["submitted"] /\ m["accepted"] = n["accepted"] /\ m["rejected"] = n["rejected"] + 1 /\ m["pressureRejected"] = n["pressureRejected"] + 1
              /\ m["overloadReject"] = n["overloadReject"] /\ m["overloadShed"] = n["overloadShed"] /\ m["overloadDegrade"] = n["overloadDegrade"] /\ m["queueFull"] = n["queueFull"]
    BY <1>2
  <2> QED
    BY <2>1, <2>2, Zenon DEF Balance
<1>8. N = {"submitted", "rejected"} => Balance(m, e, t)
  <2>1. Account(n["submitted"] + 1, n["accepted"], n["rejected"] + 1, n["pressureRejected"], n["overloadReject"], n["overloadShed"], n["overloadDegrade"], n["queueFull"], e, t)
    BY <1>1, <1>3, Sums, Zenon
  <2>2. N = {"submitted", "rejected"} =>
              /\ m["submitted"] = n["submitted"] + 1 /\ m["accepted"] = n["accepted"] /\ m["rejected"] = n["rejected"] + 1 /\ m["pressureRejected"] = n["pressureRejected"]
              /\ m["overloadReject"] = n["overloadReject"] /\ m["overloadShed"] = n["overloadShed"] /\ m["overloadDegrade"] = n["overloadDegrade"] /\ m["queueFull"] = n["queueFull"]
    BY <1>2
  <2> QED
    BY <2>1, <2>2, Zenon DEF Balance
<1>9. N = {"submitted"} => Balance(m, e + 1, t)
  <2>1. Account(n["submitted"] + 1, n["accepted"], n["rejected"], n["pressureRejected"], n["overloadReject"], n["overloadShed"], n["overloadDegrade"], n["queueFull"], e + 1, t)
    BY <1>1, <1>3, Sums, Zenon
  <2>2. N = {"submitted"} =>
              /\ m["submitted"] = n["submitted"] + 1 /\ m["accepted"] = n["accepted"] /\ m["rejected"] = n["rejected"] /\ m["pressureRejected"] = n["pressureRejected"]
              /\ m["overloadReject"] = n["overloadReject"] /\ m["overloadShed"] = n["overloadShed"] /\ m["overloadDegrade"] = n["overloadDegrade"] /\ m["queueFull"] = n["queueFull"]
    BY <1>2
  <2> QED
    BY <2>1, <2>2, Zenon DEF Balance
<1>10. N = {"rejected", "queueFull"} => Balance(m, e - 1, t)
  <2>1. Account(n["submitted"], n["accepted"], n["rejected"] + 1, n["pressureRejected"], n["overloadReject"], n["overloadShed"], n["overloadDegrade"], n["queueFull"] + 1, e - 1, t)
    BY <1>1, <1>3, Sums, Zenon
  <2>2. N = {"rejected", "queueFull"} =>
              /\ m["submitted"] = n["submitted"] /\ m["accepted"] = n["accepted"] /\ m["rejected"] = n["rejected"] + 1 /\ m["pressureRejected"] = n["pressureRejected"]
              /\ m["overloadReject"] = n["overloadReject"] /\ m["overloadShed"] = n["overloadShed"] /\ m["overloadDegrade"] = n["overloadDegrade"] /\ m["queueFull"] = n["queueFull"] + 1
    BY <1>2
  <2> QED
    BY <2>1, <2>2, Zenon DEF Balance
<1>11. N = {"accepted"} => Balance(m, e - 1, t)
  <2>1. Account(n["submitted"], n["accepted"] + 1, n["rejected"], n["pressureRejected"], n["overloadReject"], n["overloadShed"], n["overloadDegrade"], n["queueFull"], e - 1, t)
    BY <1>1, <1>3, Sums, Zenon
  <2>2. N = {"accepted"} =>
              /\ m["submitted"] = n["submitted"] /\ m["accepted"] = n["accepted"] + 1 /\ m["rejected"] = n["rejected"] /\ m["pressureRejected"] = n["pressureRejected"]
              /\ m["overloadReject"] = n["overloadReject"] /\ m["overloadShed"] = n["overloadShed"] /\ m["overloadDegrade"] = n["overloadDegrade"] /\ m["queueFull"] = n["queueFull"]
    BY <1>2
  <2> QED
    BY <2>1, <2>2, Zenon DEF Balance
<1>12. N = {"completed"} => Balance(m, e, t)
  <2>1. Account(n["submitted"], n["accepted"], n["rejected"], n["pressureRejected"], n["overloadReject"], n["overloadShed"], n["overloadDegrade"], n["queueFull"], e, t)
    BY <1>1, <1>3
  <2>2. N = {"completed"} =>
              /\ m["submitted"] = n["submitted"] /\ m["accepted"] = n["accepted"] /\ m["rejected"] = n["rejected"] /\ m["pressureRejected"] = n["pressureRejected"]
              /\ m["overloadReject"] = n["overloadReject"] /\ m["overloadShed"] = n["overloadShed"] /\ m["overloadDegrade"] = n["overloadDegrade"] /\ m["queueFull"] = n["queueFull"]
    BY <1>2
  <2> QED
    BY <2>1, <2>2, Zenon DEF Balance
<1>13. N = {"canceled"} => Balance(m, e, t)
  <2>1. Account(n["submitted"], n["accepted"], n["rejected"], n["pressureRejected"], n["overloadReject"], n["overloadShed"], n["overloadDegrade"], n["queueFull"], e, t)
    BY <1>1, <1>3
  <2>2. N = {"canceled"} =>
              /\ m["submitted"] = n["submitted"] /\ m["accepted"] = n["accepted"] /\ m["rejected"] = n["rejected"] /\ m["pressureRejected"] = n["pressureRejected"]
              /\ m["overloadReject"] = n["overloadReject"] /\ m["overloadShed"] = n["overloadShed"] /\ m["overloadDegrade"] = n["overloadDegrade"] /\ m["queueFull"] = n["queueFull"]
    BY <1>2
  <2> QED
    BY <2>1, <2>2, Zenon DEF Balance
<1> QED
  BY <1>4, <1>5, <1>6, <1>7, <1>8, <1>9, <1>10, <1>11, <1>12, <1>13

\* Where a caller goes with its submission: on, to a label, or out.
Moves(c, label) == Busy(c) /\ load' = load /\ (Goto(c, label) \/ (label = "overload" /\ Return(c)))

LEMMA MovesCaller ==
  ASSUME Types, NEW c \in Callers, NEW label \in Labels, Moves(c, label)
  PROVE  /\ pc'[c] = label
         /\ label # "overload" => Busy(c)' /\ Req(c)' = Req(c)
         /\ \A d \in Callers \ {c} : pc'[d] = pc[d] /\ (Busy(d)' <=> Busy(d)) /\ Req(d)' = Req(d)
<1>1. /\ pc'[c] = label /\ (label # "overload" => pos' = pos)
      /\ \A d \in Callers \ {c} : pc'[d] = pc[d] /\ pos'[d] = pos[d]
  BY GotoTyped, ReturnTyped DEF Moves, Types
<1> QED
  BY <1>1 DEF Moves, Busy, Req, Script

LEMMA EnqueuingMoves ==
  ASSUME Types, NEW c \in Callers, NEW label \in Labels, Moves(c, label), NEW l
  PROVE  LET before == pc[c] \in {"push", "observe"} /\ LaneOf[Req(c)] = l
             after == label \in {"push", "observe"} /\ LaneOf[Req(c)] = l
             n == Cardinality(Enqueuing(l)) IN
         /\ n \in Nat
         /\ (before <=> after) => Cardinality(Enqueuing(l)') = n
         /\ ~before /\ after => Cardinality(Enqueuing(l)') = n + 1
         /\ before /\ ~after => Cardinality(Enqueuing(l)') = n - 1
<1>1. /\ pc'[c] = label /\ Busy(c)
      /\ label # "overload" => Busy(c)' /\ Req(c)' = Req(c)
      /\ \A d \in Callers \ {c} : pc'[d] = pc[d] /\ (Busy(d)' <=> Busy(d)) /\ Req(d)' = Req(d)
  BY MovesCaller DEF Moves
<1>2. Enqueuing(l) \ {c} = Enqueuing(l)' \ {c}
  BY <1>1 DEF Enqueuing
<1>3. c \in Enqueuing(l) <=> pc[c] \in {"push", "observe"} /\ LaneOf[Req(c)] = l
  BY <1>1 DEF Enqueuing
<1>4. c \in Enqueuing(l)' <=> label \in {"push", "observe"} /\ LaneOf[Req(c)] = l
  BY <1>1 DEF Enqueuing
<1>5. IsFiniteSet(Enqueuing(l))
  <2>1. Enqueuing(l) \subseteq Callers /\ IsFiniteSet(Callers)
    BY AdmissionAssumption DEF Enqueuing
  <2> QED
    BY <2>1, FS_Subset
<1> HIDE DEF Enqueuing
<1> QED
  BY <1>2, <1>3, <1>4, <1>5, CardChange

\* What a caller is told of a submission it heard nothing of yet.
LEMMA TurnedMoves ==
  ASSUME Types, NEW r \in Reqs, NEW w \in Outcomes, outcome[r] = "pending", NEW l, Tell(r, w)
  PROVE  LET n == Cardinality(Turned(l)) IN
         /\ n \in Nat
         /\ w = "admission" /\ LaneOf[r] = l => Cardinality(Turned(l)') = n + 1
         /\ w # "admission" \/ LaneOf[r] # l => Cardinality(Turned(l)') = n
<1>1. outcome'[r] = w /\ \A q \in Reqs \ {r} : outcome'[q] = outcome[q]
  BY TellTyped DEF Types, CallTypes
<1>2. Turned(l) \ {r} = Turned(l)' \ {r}
  BY <1>1 DEF Turned
<1>3. r \notin Turned(l) /\ (r \in Turned(l)' <=> w = "admission" /\ LaneOf[r] = l)
  BY <1>1 DEF Turned
<1>4. IsFiniteSet(Turned(l))
  <2>1. Turned(l) \subseteq Reqs /\ IsFiniteSet(Reqs)
    BY AdmissionAssumption DEF Turned
  <2> QED
    BY <2>1, FS_Subset
<1> HIDE DEF Turned
<1> QED
  BY <1>2, <1>3, <1>4, CardChange

\* A lane's ledger when its counters, what is under way and what was turned away change like this.
LEMMA Balanced ==
  ASSUME Types, LedgerInv, NEW l \in Lanes, NEW N,
         \/ counters' = counters /\ N = {"completed"}
         \/ Count(l, N)
  PROVE  LET n == counters'[l]
             e == Cardinality(Enqueuing(l))
             t == Cardinality(Turned(l)) IN
         e \in Nat /\ t \in Nat =>
         /\ N \in {{"rejected", "pressureRejected", "overloadShed"}, {"rejected", "pressureRejected", "overloadDegrade"},
                   {"rejected", "pressureRejected", "overloadReject"}, {"submitted", "rejected"}, {"completed"}, {"canceled"}}
              => Balance(n, e, t)
         /\ N = {"rejected", "pressureRejected"} => Balance(n, e, t + 1)
         /\ N = {"submitted"} => Balance(n, e + 1, t)
         /\ N = {"rejected", "queueFull"} => Balance(n, e - 1, t)
         /\ N = {"accepted"} => Balance(n, e - 1, t)
<1>1. counters \in [Lanes -> [CounterNames -> Nat]] /\ Balance(counters[l], Cardinality(Enqueuing(l)), Cardinality(Turned(l)))
  BY DEF Types, StatTypes, LedgerInv
<1>2. CASE counters' = counters /\ N = {"completed"}
  BY <1>1, <1>2
<1>3. CASE Count(l, N)
  <2>1. /\ counters'[l] \in [CounterNames -> Nat] /\ counters[l] \in [CounterNames -> Nat]
        /\ \A n \in CounterNames : counters'[l][n] = IF n \in N THEN counters[l][n] + 1 ELSE counters[l][n]
    BY <1>1, <1>3, CountTyped
  <2> HIDE DEF Enqueuing, Turned
  <2> QED
    BY <1>1, <2>1, Posted
<1> QED
  BY <1>2, <1>3

\* The lanes a caller is not concerned with.
LEMMA OtherLanes ==
  ASSUME Types, LedgerInv, NEW c \in Callers, NEW label \in Labels, Moves(c, label),
         \/ outcome' = outcome
         \/ \E w \in Outcomes : Tell(Req(c), w) /\ outcome[Req(c)] = "pending",
         \/ counters' = counters
         \/ \E N : Count(LaneOf[Req(c)], N)
  PROVE  \A l \in Lanes \ {LaneOf[Req(c)]} : Balance(counters[l], Cardinality(Enqueuing(l)), Cardinality(Turned(l)))'
<1> SUFFICES ASSUME NEW l \in Lanes \ {LaneOf[Req(c)]}
             PROVE  Balance(counters'[l], Cardinality(Enqueuing(l)'), Cardinality(Turned(l)'))
  BY Zenon DEF Balance, Account
<1>1. Req(c) \in Reqs /\ LaneOf[Req(c)] \in Lanes
  BY BusyReq, Sorts DEF Moves
<1>2. Cardinality(Enqueuing(l)') = Cardinality(Enqueuing(l))
  BY EnqueuingMoves
<1>3. Cardinality(Turned(l)') = Cardinality(Turned(l))
  <2>1. CASE outcome' = outcome
    BY <2>1 DEF Turned
  <2>2. ASSUME NEW w \in Outcomes, Tell(Req(c), w), outcome[Req(c)] = "pending"
        PROVE  Cardinality(Turned(l)') = Cardinality(Turned(l))
    BY <1>1, <2>2, TurnedMoves
  <2> QED
    BY <2>1, <2>2
<1>4. counters'[l] = counters[l]
  BY <1>1, CountTyped DEF Types, StatTypes
<1>5. Balance(counters[l], Cardinality(Enqueuing(l)), Cardinality(Turned(l)))
  BY DEF LedgerInv
<1> QED
  BY <1>2, <1>3, <1>4, <1>5

\* The lane a caller submits to.
Delta(c, label) ==
    IF label \in {"push", "observe"} THEN IF pc[c] \in {"push", "observe"} THEN 0 ELSE 1
    ELSE IF pc[c] \in {"push", "observe"} THEN -1 ELSE 0
LEMMA OwnLane ==
  ASSUME Types, LedgerInv, NEW c \in Callers, NEW label \in Labels, Moves(c, label), NEW N,
         NEW l \in Lanes, l = LaneOf[Req(c)],
         \/ counters' = counters /\ N = {"completed"}
         \/ Count(l, N)
  PROVE  LET n == counters'[l]
             e == Cardinality(Enqueuing(l)')
             t == Cardinality(Turned(l))
             d == Delta(c, label) IN
         t \in Nat =>
         /\ d = 0 /\ N \in {{"rejected", "pressureRejected", "overloadShed"}, {"rejected", "pressureRejected", "overloadDegrade"},
                   {"rejected", "pressureRejected", "overloadReject"}, {"submitted", "rejected"}, {"completed"}, {"canceled"}}
              => Balance(n, e, t)
         /\ d = 0 /\ N = {"rejected", "pressureRejected"} => Balance(n, e, t + 1)
         /\ d = 1 /\ N = {"submitted"} => Balance(n, e, t)
         /\ d = -1 /\ N = {"rejected", "queueFull"} => Balance(n, e, t)
         /\ d = -1 /\ N = {"accepted"} => Balance(n, e, t)
<1> DEFINE a == Cardinality(Enqueuing(l))
           e == Cardinality(Enqueuing(l)')
           t == Cardinality(Turned(l))
           n == counters'[l]
<1>2. /\ a \in Nat
      /\ Delta(c, label) = 0 => e = a
      /\ Delta(c, label) = 1 => e = a + 1
      /\ Delta(c, label) = -1 => e = a - 1
  BY EnqueuingMoves DEF Delta
<1>3. t \in Nat =>
         /\ N \in {{"rejected", "pressureRejected", "overloadShed"}, {"rejected", "pressureRejected", "overloadDegrade"},
                   {"rejected", "pressureRejected", "overloadReject"}, {"submitted", "rejected"}, {"completed"}, {"canceled"}}
              => Balance(n, a, t)
         /\ N = {"rejected", "pressureRejected"} => Balance(n, a, t + 1)
         /\ N = {"submitted"} => Balance(n, a + 1, t)
         /\ N = {"rejected", "queueFull"} => Balance(n, a - 1, t)
         /\ N = {"accepted"} => Balance(n, a - 1, t)
  BY <1>2, Balanced
<1> HIDE DEF a, e, t, n
<1>4. t \in Nat =>
         /\ Delta(c, label) = 0 /\ N \in {{"rejected", "pressureRejected", "overloadShed"}, {"rejected", "pressureRejected", "overloadDegrade"},
                   {"rejected", "pressureRejected", "overloadReject"}, {"submitted", "rejected"}, {"completed"}, {"canceled"}}
              => Balance(n, e, t)
         /\ Delta(c, label) = 0 /\ N = {"rejected", "pressureRejected"} => Balance(n, e, t + 1)
         /\ Delta(c, label) = 1 /\ N = {"submitted"} => Balance(n, e, t)
         /\ Delta(c, label) = -1 /\ N = {"rejected", "queueFull"} => Balance(n, e, t)
         /\ Delta(c, label) = -1 /\ N = {"accepted"} => Balance(n, e, t)
  BY <1>2, <1>3
<1> QED
  BY <1>4, Zenon DEF e, t, n

LEMMA TurnedKept ==
  ASSUME NEW l, outcome' = outcome
  PROVE  Cardinality(Turned(l)) \in Nat /\ Cardinality(Turned(l)') = Cardinality(Turned(l))
<1>1. Turned(l) \subseteq Reqs /\ IsFiniteSet(Reqs)
  BY AdmissionAssumption DEF Turned
<1>2. Cardinality(Turned(l)) \in Nat
  BY <1>1, FS_Subset, FS_CardinalityType
<1> QED
  BY <1>2 DEF Turned

\* Whatever a caller is told besides a refusal by lane admission.
LEMMA TurnedSame ==
  ASSUME Types, NEW r \in Reqs, NEW l,
         \/ outcome' = outcome
         \/ \E w \in Outcomes \ {"admission"} : Tell(r, w) /\ outcome[r] = "pending"
  PROVE  Cardinality(Turned(l)) \in Nat /\ Cardinality(Turned(l)') = Cardinality(Turned(l))
<1>1. ASSUME NEW w \in Outcomes \ {"admission"}, Tell(r, w), outcome[r] = "pending"
      PROVE  Cardinality(Turned(l)) \in Nat /\ Cardinality(Turned(l)') = Cardinality(Turned(l))
  BY <1>1, TurnedMoves
<1> QED
  BY <1>1, TurnedKept

\* Every step of a caller, as an entry in the ledger of the lane it submits to.
Entry(c, label, N) ==
    /\ Moves(c, label)
    /\ (counters' = counters /\ N = {"completed"}) \/ Count(LaneOf[Req(c)], N)
    /\ \/ /\ \/ outcome' = outcome
             \/ \E w \in Outcomes \ {"admission"} : Tell(Req(c), w) /\ outcome[Req(c)] = "pending"
          /\ \/ /\ Delta(c, label) = 0
                /\ N \in {{"rejected", "pressureRejected", "overloadShed"}, {"rejected", "pressureRejected", "overloadDegrade"},
                          {"rejected", "pressureRejected", "overloadReject"}, {"submitted", "rejected"}, {"completed"}}
             \/ Delta(c, label) = 1 /\ N = {"submitted"}
             \/ Delta(c, label) = -1 /\ N \in {{"rejected", "queueFull"}, {"accepted"}}
       \/ /\ Tell(Req(c), "admission") /\ outcome[Req(c)] = "pending"
          /\ Delta(c, label) = 0 /\ N = {"rejected", "pressureRejected"}

LEMMA EntryBalanced ==
  ASSUME Types, LedgerInv, NEW c \in Callers, NEW label \in Labels, NEW N, Entry(c, label, N)
  PROVE  LedgerInv'
<1>1. Req(c) \in Reqs /\ LaneOf[Req(c)] \in Lanes /\ Moves(c, label)
  BY BusyReq, Sorts DEF Entry, Moves
<1>2. (counters' = counters /\ N = {"completed"}) \/ Count(LaneOf[Req(c)], N)
  BY DEF Entry
<1>3. \/ outcome' = outcome
      \/ \E w \in Outcomes : Tell(Req(c), w) /\ outcome[Req(c)] = "pending"
  BY DEF Entry, Outcomes
<1>4. \A l \in Lanes \ {LaneOf[Req(c)]} : Balance(counters[l], Cardinality(Enqueuing(l)), Cardinality(Turned(l)))'
  BY <1>1, <1>2, <1>3, OtherLanes
<1>5. ASSUME NEW l \in Lanes, l = LaneOf[Req(c)]
      PROVE  Balance(counters'[l], Cardinality(Enqueuing(l)'), Cardinality(Turned(l)'))
  <2> DEFINE n == counters'[l]
             e == Cardinality(Enqueuing(l)')
             t == Cardinality(Turned(l))
             u == Cardinality(Turned(l)')
             d == Delta(c, label)
  <2>1. t \in Nat =>
         /\ d = 0 /\ N \in {{"rejected", "pressureRejected", "overloadShed"}, {"rejected", "pressureRejected", "overloadDegrade"},
                   {"rejected", "pressureRejected", "overloadReject"}, {"submitted", "rejected"}, {"completed"}, {"canceled"}}
              => Balance(n, e, t)
         /\ d = 0 /\ N = {"rejected", "pressureRejected"} => Balance(n, e, t + 1)
         /\ d = 1 /\ N = {"submitted"} => Balance(n, e, t)
         /\ d = -1 /\ N = {"rejected", "queueFull"} => Balance(n, e, t)
         /\ d = -1 /\ N = {"accepted"} => Balance(n, e, t)
    <3>1. \/ counters' = counters /\ N = {"completed"}
          \/ Count(l, N)
      BY <1>2, <1>5
    <3> QED
      BY <1>1, <1>5, <3>1, OwnLane
  <2>2. ASSUME outcome' = outcome \/ \E w \in Outcomes \ {"admission"} : Tell(Req(c), w) /\ outcome[Req(c)] = "pending"
        PROVE  t \in Nat /\ u = t
    BY <1>1, <2>2, TurnedSame
  <2>3. ASSUME Tell(Req(c), "admission"), outcome[Req(c)] = "pending"
        PROVE  t \in Nat /\ u = t + 1
    BY <1>1, <1>5, <2>3, TurnedMoves DEF Outcomes
  <2>4. \/ /\ \/ outcome' = outcome
              \/ \E w \in Outcomes \ {"admission"} : Tell(Req(c), w) /\ outcome[Req(c)] = "pending"
           /\ \/ /\ d = 0
                 /\ N \in {{"rejected", "pressureRejected", "overloadShed"}, {"rejected", "pressureRejected", "overloadDegrade"},
                           {"rejected", "pressureRejected", "overloadReject"}, {"submitted", "rejected"}, {"completed"}}
              \/ d = 1 /\ N = {"submitted"}
              \/ d = -1 /\ N \in {{"rejected", "queueFull"}, {"accepted"}}
        \/ /\ Tell(Req(c), "admission") /\ outcome[Req(c)] = "pending"
           /\ d = 0 /\ N = {"rejected", "pressureRejected"}
    BY DEF Entry
  <2> HIDE DEF n, e, t, u, d
  <2>5. Balance(n, e, u)
    BY <2>1, <2>2, <2>3, <2>4
  <2> QED
    BY <2>5 DEF n, e, u
<1> QED
  BY <1>4, <1>5, Zenon DEF LedgerInv

LEMMA CallerLedger ==
  ASSUME Types, Calls, LedgerInv, NEW c \in Callers, CallerSteps(c)
  PROVE  LedgerInv'
<1>0. Outcomes = {"pending", "overload", "admission", "stopped", "full", "accepted"} \cup Reasons /\ "admission" \notin Reasons
  BY DEF Outcomes, Reasons
<1>1. ASSUME Busy(c), pc[c] \in {"overload", "admission", "perkey", "enqueue", "push", "observe"}
      PROVE  outcome[Req(c)] = "pending"
  BY <1>1, AtHand DEF Here, Untouched
<1>2. ASSUME NEW n \in {"overloadShed", "overloadDegrade", "overloadReject"}, Refused(c, "overload", {"rejected", "pressureRejected", n})
      PROVE  LedgerInv'
  <2>1. Entry(c, "reject", {"rejected", "pressureRejected", n})
    <3>1. Moves(c, "reject") /\ Delta(c, "reject") = 0
      BY <1>2 DEF Refused, Moves, CallerFrame, Delta
    <3>2. Tell(Req(c), "overload") /\ outcome[Req(c)] = "pending" /\ Count(LaneOf[Req(c)], {"rejected", "pressureRejected", n})
      BY <1>1, <1>2 DEF Refused
    <3>3. "overload" \in Outcomes \ {"admission"}
      BY <1>0
    <3>4. {"rejected", "pressureRejected", n} \in {{"rejected", "pressureRejected", "overloadShed"},
             {"rejected", "pressureRejected", "overloadDegrade"}, {"rejected", "pressureRejected", "overloadReject"}}
      OBVIOUS
    <3> QED
      BY <3>1, <3>2, <3>3, <3>4 DEF Entry
  <2> QED
    BY <2>1, EntryBalanced DEF Labels
<1>3. CASE Refused(c, "admission", {"rejected", "pressureRejected"})
  <2>1. Entry(c, "reject", {"rejected", "pressureRejected"})
    <3>1. Moves(c, "reject") /\ Delta(c, "reject") = 0
      BY <1>3 DEF Refused, Moves, CallerFrame, Delta
    <3>2. Tell(Req(c), "admission") /\ outcome[Req(c)] = "pending" /\ Count(LaneOf[Req(c)], {"rejected", "pressureRejected"})
      BY <1>1, <1>3 DEF Refused
    <3> QED
      BY <3>1, <3>2, Zenon DEF Entry
  <2> QED
    BY <2>1, EntryBalanced DEF Labels
<1>4. ASSUME NEW label \in Labels, Moves(c, label), Delta(c, label) = 0, counters' = counters,
             \/ outcome' = outcome
             \/ \E w \in Reasons : Tell(Req(c), w) /\ outcome[Req(c)] = "pending"
      PROVE  LedgerInv'
  <2>1. \/ outcome' = outcome
        \/ \E w \in Outcomes \ {"admission"} : Tell(Req(c), w) /\ outcome[Req(c)] = "pending"
    BY <1>0, <1>4
  <2>2. {"completed"} \in {{"rejected", "pressureRejected", "overloadShed"}, {"rejected", "pressureRejected", "overloadDegrade"},
                          {"rejected", "pressureRejected", "overloadReject"}, {"submitted", "rejected"}, {"completed"}}
    OBVIOUS
  <2>3. Entry(c, label, {"completed"})
    BY <1>4, <2>1, <2>2, Zenon DEF Entry
  <2> QED
    BY <1>4, <2>3, EntryBalanced
<1>5. ASSUME NEW from \in {"overload", "admission"}, NEW to \in {"admission", "perkey"}, Passed(c, from, to)
      PROVE  LedgerInv'
  <2>1. Moves(c, to) /\ Delta(c, to) = 0 /\ counters' = counters /\ outcome' = outcome
    BY <1>5 DEF Passed, Moves, CallerFrame, Delta
  <2> QED
    BY <1>4, <2>1 DEF Labels
<1>6. CASE CheckPerKeyAdmission(c)
  <2>1. PICK v, u : PerKeyStep(c, v, u) /\ Decided(tracker[Shard(Req(c))], KeyOf[Req(c)], v, u)
    BY <1>6, PerKeyCases
  <2>2. v.action # "allow" => v.reason \in Reasons
    BY <2>1, Zenon DEF Decided, Justified
  <2>3. outcome[Req(c)] = "pending" /\ counters' = counters /\ Busy(c) /\ pc[c] = "perkey" /\ load' = load
    BY <1>1, <2>1 DEF PerKeyStep, CallerFrame
  <2>4. CASE Goto(c, "enqueue") /\ UNCHANGED outcome
    <3>1. Moves(c, "enqueue") /\ Delta(c, "enqueue") = 0
      BY <2>3, <2>4 DEF Moves, Delta
    <3> QED
      BY <1>4, <2>3, <2>4, <3>1 DEF Labels
  <2>5. CASE v.action # "allow" /\ Goto(c, "reject") /\ Tell(Req(c), v.reason)
    <3>1. Moves(c, "reject") /\ Delta(c, "reject") = 0
      BY <2>3, <2>5 DEF Moves, Delta
    <3> QED
      BY <1>4, <2>2, <2>3, <2>5, <3>1 DEF Labels
  <2> QED
    BY <2>1, <2>4, <2>5, Zenon DEF PerKeyStep
<1>7. CASE RecordHotKeyReject(c)
  <2>1. Moves(c, "overload") /\ Delta(c, "overload") = 0 /\ counters' = counters /\ outcome' = outcome
    BY <1>7 DEF RecordHotKeyReject, Moves, CallerFrame, Delta
  <2> QED
    BY <1>4, <2>1 DEF Labels
<1>8. CASE EnqueueStopped(c)
  <2>1. Moves(c, "overload") /\ Delta(c, "overload") = 0
    BY <1>8 DEF EnqueueStopped, Moves, CallerFrame, Delta
  <2>2. Tell(Req(c), "stopped") /\ outcome[Req(c)] = "pending" /\ Count(LaneOf[Req(c)], {"submitted", "rejected"})
    BY <1>1, <1>8 DEF EnqueueStopped
  <2>3. "stopped" \in Outcomes \ {"admission"}
    BY <1>0
  <2>4. Entry(c, "overload", {"submitted", "rejected"})
    BY <2>1, <2>2, <2>3 DEF Entry
  <2> QED
    BY <2>4, EntryBalanced DEF Labels
<1>9. CASE EnqueueStarted(c)
  <2>1. Moves(c, "push") /\ Delta(c, "push") = 1
    BY <1>9 DEF EnqueueStarted, Moves, CallerFrame, Delta
  <2>2. outcome' = outcome /\ Count(LaneOf[Req(c)], {"submitted"})
    BY <1>9 DEF EnqueueStarted
  <2>3. Entry(c, "push", {"submitted"})
    BY <2>1, <2>2, Zenon DEF Entry
  <2> QED
    BY <2>3, EntryBalanced DEF Labels
<1>10. CASE EnqueueFull(c)
  <2>1. Moves(c, "overload") /\ Delta(c, "overload") = -1
    BY <1>10 DEF EnqueueFull, Moves, CallerFrame, Delta
  <2>2. Tell(Req(c), "full") /\ outcome[Req(c)] = "pending" /\ Count(LaneOf[Req(c)], {"rejected", "queueFull"})
    BY <1>1, <1>10 DEF EnqueueFull
  <2>3. "full" \in Outcomes \ {"admission"}
    BY <1>0
  <2>4. Entry(c, "overload", {"rejected", "queueFull"})
    BY <2>1, <2>2, <2>3 DEF Entry
  <2> QED
    BY <2>4, EntryBalanced DEF Labels
<1>11. CASE EnqueuePushed(c)
  <2>1. Moves(c, "observe") /\ Delta(c, "observe") = 0 /\ counters' = counters /\ outcome' = outcome
    BY <1>11 DEF EnqueuePushed, Moves, CallerFrame, Delta
  <2> QED
    BY <1>4, <2>1 DEF Labels
<1>12. CASE EnqueueEnd(c)
  <2>1. /\ Busy(c) /\ pc[c] = "observe" /\ Return(c) /\ load' = load /\ Tell(Req(c), "accepted")
        /\ Count(LaneOf[Req(c)], {"accepted"})
    BY <1>12, EnqueueEndCases DEF CallerFrame
  <2>2. Moves(c, "overload") /\ Delta(c, "overload") = -1
    BY <2>1 DEF Moves, Delta
  <2>3. outcome[Req(c)] = "pending" /\ "accepted" \in Outcomes \ {"admission"}
    BY <1>0, <1>1, <2>1
  <2>4. Entry(c, "overload", {"accepted"})
    BY <2>1, <2>2, <2>3 DEF Entry
  <2> QED
    BY <2>4, EntryBalanced DEF Labels
<1>13. CallerKinds(c)
  BY CallerCases
<1> QED
  BY <1>2, <1>3, <1>5, <1>6, <1>7, <1>8, <1>9, <1>10, <1>11, <1>12, <1>13, Zenon DEF CallerKinds

\* Workers count what no entry of the ledger is about.
LEMMA WorkerLedger ==
  ASSUME Types, LedgerInv, UNCHANGED <<load, pc, pos, outcome>>,
         \/ counters' = counters
         \/ \E l \in Lanes : Count(l, {"completed"}) \/ Count(l, {"canceled"})
  PROVE  LedgerInv'
<1>1. \A l \in Lanes : Enqueuing(l)' = Enqueuing(l) /\ Turned(l)' = Turned(l)
  BY DEF Enqueuing, Turned, Busy, Req, Script
<1>2. \A l \in Lanes : Cardinality(Enqueuing(l)) \in Nat /\ Cardinality(Turned(l)) \in Nat
  <2>1. \A l \in Lanes : Enqueuing(l) \subseteq Callers /\ Turned(l) \subseteq Reqs
    BY DEF Enqueuing, Turned
  <2> QED
    BY <2>1, AdmissionAssumption, FS_Subset, FS_CardinalityType
<1>3. ASSUME NEW l \in Lanes
      PROVE  Balance(counters'[l], Cardinality(Enqueuing(l)), Cardinality(Turned(l)))
  <2>1. Balance(counters[l], Cardinality(Enqueuing(l)), Cardinality(Turned(l)))
    BY DEF LedgerInv
  <2>2. ASSUME NEW x \in Lanes, NEW N \in {{"completed"}, {"canceled"}}, Count(x, N)
        PROVE  Balance(counters'[l], Cardinality(Enqueuing(l)), Cardinality(Turned(l)))
    <3>1. CASE x = l
      BY <1>2, <2>2, <3>1, Balanced
    <3>2. CASE x # l
      BY <2>1, <2>2, <3>2, CountTyped DEF Types, StatTypes
    <3> QED
      BY <3>1, <3>2
  <2> QED
    BY <2>1, <2>2
<1> QED
  BY <1>1, <1>3 DEF LedgerInv

LEMMA NextLedger ==
  ASSUME Types, Calls, LedgerInv, [Next]_vars
  PROVE  LedgerInv'
<1>1. ASSUME NEW r \in Reqs, WorkerSteps(r)
      PROVE  LedgerInv'
  <2>1. LaneOf[r] \in Lanes /\ UNCHANGED <<load, pc, pos, outcome>>
    BY <1>1, Sorts, WorkerCalls
  <2>2. counters' = counters \/ Count(LaneOf[r], {"completed"}) \/ Count(LaneOf[r], {"canceled"})
    BY <1>1, Zenon DEF WorkerSteps, ObserveStart, RunJob, JobDone, AbandonJob
  <2> QED
    BY <2>1, <2>2, WorkerLedger
<1>2. CASE Environment
  BY <1>2, EnvironmentFrame, WorkerLedger
<1>3. CASE Watching
  BY <1>3, WorkerLedger DEF Watching, SnapshotBegin, SnapshotRead
<1>4. ASSUME NEW s \in Shards, DetectHotKeys(s)
      PROVE  LedgerInv'
  BY <1>4, WorkerLedger DEF DetectHotKeys, EnvFrame
<1>5. ASSUME NEW s \in Shards, NEW l \in Lanes, PopN(s, l)
      PROVE  LedgerInv'
  BY <1>5, WorkerLedger DEF PopN, WorkerFrame
<1>6. CASE UNCHANGED vars
  BY <1>6, WorkerLedger DEF vars
<1> QED
  BY <1>1, <1>2, <1>3, <1>4, <1>5, <1>6, NextCases, CallerLedger

LEMMA InitLedger == Init => LedgerInv
<1> SUFFICES ASSUME Init PROVE LedgerInv
  OBVIOUS
<1>1. \A l : Enqueuing(l) = {} /\ Turned(l) = {}
  BY DEF Init, Enqueuing, Turned
<1>2. Cardinality({}) = 0
  BY FS_EmptySet
<1>3. \A l \in Lanes : \A n \in CounterNames : counters[l][n] = 0
  BY DEF Init, NoCounters
<1>4. \A l \in Lanes : Balance(counters[l], 0, 0)
  BY <1>3 DEF Balance, Account, CounterNames
<1> QED
  BY <1>1, <1>2, <1>4 DEF LedgerInv

\* Between the calls that record them, every attempt to enqueue is counted once as accepted, rejected or
\* still under way, and every pressure rejection once under what refused it (lane_counters.go,
\* RecordOverloadDecision), however callers, workers and policy updates interleave.
THEOREM CountersAddUp == Spec => []LaneLedger
<1>1. Init => LedgerInv
  BY InitLedger
<1>2. (Types /\ Calls) /\ LedgerInv /\ [Next]_vars => LedgerInv'
  BY NextLedger
<1>3. LedgerInv => LaneLedger
  BY DEF LedgerInv, LaneLedger, Balance, Account, Turned
<1>4. Spec => []LedgerInv
  BY <1>1, <1>2, CallsHold, PTL DEF Spec
<1> QED
  BY <1>3, <1>4, PTL

-----------------------------------------------------------------------------
(* Reading the counters one by one. *)

LEMMA ReadOrderIs ==
  /\ Len(ReadOrder) = 4 /\ ReadOrder[1] = "queueFull" /\ ReadOrder[2] = "accepted" /\ ReadOrder[3] = "rejected"
  /\ ReadOrder[4] = "submitted"
BY DEF ReadOrder

\* What was read is no more than what is counted by now; the attempts are read when all the rest has been.
Snaps == [pc : 1..5, lane : Lanes, read : [CounterNames -> Nat]]
ReadSoFar(s, n) ==
    /\ s.pc \in 2..5 => s.read["queueFull"] <= n["queueFull"]
    /\ s.pc \in 3..5 => s.read["accepted"] <= n["accepted"]
    /\ s.pc = 5 => s.read["submitted"] >= s.read["accepted"] + s.read["queueFull"]
SnapInv == snap.pc = 0 \/ (snap \in Snaps /\ ReadSoFar(snap, counters[snap.lane]))

LEMMA CountersGrow ==
  ASSUME Types, Calls, Next, ~Watching
  PROVE  snap' = snap /\ \A l \in Lanes : \A n \in CounterNames : counters[l][n] <= counters'[l][n]
<1>1. counters \in [Lanes -> [CounterNames -> Nat]]
  BY DEF Types, StatTypes
<1>2. ASSUME NEW x \in Lanes, NEW N, Count(x, N)
      PROVE  \A l \in Lanes : \A n \in CounterNames : counters[l][n] <= counters'[l][n]
  <2>1. /\ \A l \in Lanes \ {x} : counters'[l] = counters[l]
        /\ \A n \in CounterNames : counters'[x][n] = IF n \in N THEN counters[x][n] + 1 ELSE counters[x][n]
    BY <1>1, <1>2, CountTyped
  <2>2. \A l \in Lanes : \A n \in CounterNames : counters[l][n] \in Nat
    BY <1>1
  <2> QED
    BY <2>1, <2>2
<1>3. counters' = counters => \A l \in Lanes : \A n \in CounterNames : counters[l][n] <= counters'[l][n]
  BY <1>1
<1>4. ASSUME NEW c \in Callers, CallerSteps(c)
      PROVE  snap' = snap /\ (counters' = counters \/ \E l \in Lanes : \E N : Count(l, N))
  <2>1. Busy(c) => LaneOf[Req(c)] \in Lanes
    BY BusyReq, Sorts
  <2>2. ASSUME NEW w, NEW N, Refused(c, w, N)
        PROVE  snap' = snap /\ (counters' = counters \/ \E l \in Lanes : \E M : Count(l, M))
    BY <2>1, <2>2 DEF Refused, CallerFrame
  <2>3. ASSUME NEW from, NEW to, Passed(c, from, to)
        PROVE  snap' = snap /\ counters' = counters
    BY <2>3 DEF Passed, CallerFrame
  <2>4. CheckPerKeyAdmission(c) \/ RecordHotKeyReject(c) \/ EnqueuePushed(c) => snap' = snap /\ counters' = counters
    BY DEF CheckPerKeyAdmission, RecordHotKeyReject, EnqueuePushed, CallerFrame
  <2>5. EnqueueStopped(c) \/ EnqueueStarted(c) \/ EnqueueFull(c) \/ EnqueueEnd(c)
          => snap' = snap /\ (counters' = counters \/ \E l \in Lanes : \E M : Count(l, M))
    BY <2>1, EnqueueEndCases DEF EnqueueStopped, EnqueueStarted, EnqueueFull, CallerFrame
  <2> QED
    BY <1>4, <2>2, <2>3, <2>4, <2>5, CallerCases, Zenon DEF CallerKinds
<1>5. ASSUME NEW r \in Reqs, WorkerSteps(r)
      PROVE  snap' = snap /\ (counters' = counters \/ \E l \in Lanes : \E N : Count(l, N))
  <2>1. LaneOf[r] \in Lanes
    BY Sorts
  <2> QED
    BY <1>5, <2>1, Zenon DEF WorkerSteps, ObserveStart, RunJob, JobDone, AbandonJob, WorkerFrame
<1>6. Environment => snap' = snap /\ counters' = counters
  BY EnvironmentFrame
<1>7. ASSUME NEW s \in Shards, DetectHotKeys(s) \/ \E l \in Lanes : PopN(s, l)
      PROVE  snap' = snap /\ counters' = counters
  BY <1>7 DEF DetectHotKeys, EnvFrame, PopN, WorkerFrame
<1>8. snap' = snap /\ (counters' = counters \/ \E l \in Lanes : \E N : Count(l, N))
  BY <1>4, <1>5, <1>6, <1>7, NextCases
<1> QED
  BY <1>2, <1>3, <1>8

LEMMA SnapFields ==
  ASSUME NEW s \in Snaps, s.pc \in 1..4, NEW g \in [CounterNames -> Nat]
  PROVE  LET u == [s EXCEPT !.pc = s.pc + 1, !.read = g] IN
         u.pc = s.pc + 1 /\ u.lane = s.lane /\ u.read = g /\ u \in Snaps
<1> DEFINE n == s.pc + 1
<1>1. n \in 1..5
  OBVIOUS
<1> HIDE DEF n
<1>2. LET u == [s EXCEPT !.pc = n, !.read = g] IN u.pc = n /\ u.lane = s.lane /\ u.read = g /\ u \in Snaps
  BY <1>1 DEF Snaps
<1> QED
  BY <1>2 DEF n

LEMMA SnapRead ==
  ASSUME Types, LedgerInv, SnapInv, SnapshotRead
  PROVE  SnapInv'
<1> DEFINE n == counters[snap.lane]
           x == ReadOrder[snap.pc]
           g == [snap.read EXCEPT ![x] = n[x]]
<1>1. snap.pc \in 1..4 /\ counters' = counters
  BY ReadOrderIs DEF SnapshotRead
<1>2. snap \in Snaps /\ ReadSoFar(snap, n)
  BY <1>1 DEF SnapInv
<1>3. snap.lane \in Lanes /\ snap.read \in [CounterNames -> Nat] /\ n \in [CounterNames -> Nat]
  BY <1>2 DEF Snaps, Types, StatTypes
<1>4. x \in CounterNames /\ x = IF snap.pc = 1 THEN "queueFull" ELSE IF snap.pc = 2 THEN "accepted" ELSE IF snap.pc = 3 THEN "rejected" ELSE "submitted"
  BY <1>1, ReadOrderIs DEF CounterNames
<1>5. snap' = [snap EXCEPT !.pc = @ + 1, !.read[x] = n[x]]
  BY DEF SnapshotRead
<1>6. snap' = [snap EXCEPT !.pc = snap.pc + 1, !.read = g]
  BY <1>2, <1>5 DEF Snaps
<1>7. g \in [CounterNames -> Nat] /\ g[x] = n[x] /\ \A y \in CounterNames \ {x} : g[y] = snap.read[y]
  BY <1>3, <1>4
<1>8. n["submitted"] >= n["accepted"] + n["queueFull"]
  <2>1. PICK e \in Nat, t \in Nat : Balance(n, e, t)
    <3>1. Enqueuing(snap.lane) \subseteq Callers /\ Turned(snap.lane) \subseteq Reqs
      BY DEF Enqueuing, Turned
    <3>2. Cardinality(Enqueuing(snap.lane)) \in Nat /\ Cardinality(Turned(snap.lane)) \in Nat
      BY <3>1, AdmissionAssumption, FS_Subset, FS_CardinalityType
    <3> QED
      BY <1>3, <3>2 DEF LedgerInv
  <2>2. /\ n["submitted"] \in Nat /\ n["accepted"] \in Nat /\ n["queueFull"] \in Nat /\ n["rejected"] \in Nat
        /\ n["pressureRejected"] \in Nat
    BY <1>3 DEF CounterNames
  <2> QED
    BY <2>1, <2>2 DEF Balance, Account
<1> HIDE DEF g, x, n
<1>9. snap'.pc = snap.pc + 1 /\ snap'.lane = snap.lane /\ snap'.read = g /\ snap' \in Snaps
  BY <1>1, <1>2, <1>6, <1>7, SnapFields, Zenon
<1>10. ReadSoFar(snap', n)
  <2>1. /\ n["submitted"] \in Nat /\ n["accepted"] \in Nat /\ n["queueFull"] \in Nat
        /\ snap.read["accepted"] \in Nat /\ snap.read["queueFull"] \in Nat /\ {"submitted", "accepted", "queueFull", "rejected"} \subseteq CounterNames
    BY <1>3 DEF CounterNames
  <2>2. CASE snap.pc = 1
    BY <1>4, <1>7, <1>9, <2>1, <2>2 DEF ReadSoFar
  <2>3. CASE snap.pc = 2
    BY <1>2, <1>4, <1>7, <1>9, <2>1, <2>3 DEF ReadSoFar
  <2>4. CASE snap.pc = 3
    BY <1>2, <1>4, <1>7, <1>9, <2>1, <2>4 DEF ReadSoFar
  <2>5. CASE snap.pc = 4
    BY <1>2, <1>4, <1>7, <1>8, <1>9, <2>1, <2>5 DEF ReadSoFar
  <2> QED
    BY <1>1, <2>2, <2>3, <2>4, <2>5
<1> QED
  BY <1>1, <1>9, <1>10 DEF SnapInv, n

LEMMA NextSnap ==
  ASSUME Types, Calls, LedgerInv, SnapInv, [Next]_vars
  PROVE  SnapInv'
<1>1. ASSUME snap' = snap, \A l \in Lanes : \A n \in CounterNames : counters[l][n] <= counters'[l][n],
             counters' \in [Lanes -> [CounterNames -> Nat]]
      PROVE  SnapInv'
  <2>1. CASE snap.pc = 0
    BY <1>1, <2>1 DEF SnapInv
  <2>2. CASE snap \in Snaps /\ ReadSoFar(snap, counters[snap.lane])
    <3> DEFINE n == counters[snap.lane]
               m == counters'[snap.lane]
    <3>1. snap.lane \in Lanes /\ snap.read \in [CounterNames -> Nat]
      BY <2>2 DEF Snaps
    <3>2. /\ n["accepted"] <= m["accepted"] /\ n["queueFull"] <= m["queueFull"]
          /\ n["accepted"] \in Nat /\ n["queueFull"] \in Nat /\ m["accepted"] \in Nat /\ m["queueFull"] \in Nat
          /\ snap.read["accepted"] \in Nat /\ snap.read["queueFull"] \in Nat
      BY <1>1, <3>1 DEF CounterNames, Types, StatTypes
    <3>3. ReadSoFar(snap, n)
      BY <2>2
    <3> HIDE DEF n, m
    <3>4. ReadSoFar(snap, m)
      BY <3>2, <3>3 DEF ReadSoFar
    <3> QED
      BY <1>1, <2>2, <3>4 DEF SnapInv, m
  <2> QED
    BY <2>1, <2>2 DEF SnapInv
<1>2. counters' \in [Lanes -> [CounterNames -> Nat]] /\ counters \in [Lanes -> [CounterNames -> Nat]]
  BY NextTypes DEF Types, StatTypes
<1>3. CASE Next /\ ~Watching
  BY <1>1, <1>2, <1>3, CountersGrow
<1>4. CASE UNCHANGED vars
  BY <1>1, <1>2, <1>4 DEF vars
<1>5. ASSUME NEW l \in Lanes, SnapshotBegin(l)
      PROVE  SnapInv'
  <2>1. snap' = [pc |-> 1, lane |-> l, read |-> NoCounters]
    BY <1>5 DEF SnapshotBegin
  <2>2. snap' \in Snaps /\ snap'.pc = 1
    BY <2>1 DEF Snaps, NoCounters
  <2> QED
    BY <2>2 DEF SnapInv, ReadSoFar
<1> QED
  BY <1>3, <1>4, <1>5, SnapRead DEF Watching

\* A statistics snapshot taken while jobs are submitted never shows more jobs accepted or turned away by a
\* full lane than attempts to enqueue: the order of the loads in snapshotGCPressure is enough for that.
THEOREM SnapshotsAreOrdered == Spec => []SnapshotOrdered
<1>1. Init => LedgerInv /\ SnapInv
  BY InitLedger DEF Init, SnapInv
<1>2. (Types /\ Calls) /\ (LedgerInv /\ SnapInv) /\ [Next]_vars => (LedgerInv /\ SnapInv)'
  BY NextLedger, NextSnap
<1>3. SnapInv => SnapshotOrdered
  BY ReadOrderIs DEF SnapInv, SnapshotOrdered, ReadSoFar
<1>4. Spec => [](LedgerInv /\ SnapInv)
  BY <1>1, <1>2, CallsHold, PTL DEF Spec
<1> QED
  BY <1>3, <1>4, PTL

-----------------------------------------------------------------------------
(* What the tracker says of a key is backed by submissions of that key. *)

Flight == {"started", "running", "dropped"}
\* A job the tracker may still count as queued: not started, or started before its enqueue was heard of.
Counted(r) ==
    ~EnqueueUnobserved(r) /\ (job[r].st \in {"queued", "batch"} \/ (job[r].st \in Begun /\ job[r].early))
InFlight(k) == {r \in Reqs : KeyOf[r] = k /\ job[r].st \in Flight}
Queued(k) == {r \in Reqs : KeyOf[r] = k /\ Counted(r)}
Present(r) == job[r].st # "none" \/ outcome[r] = "full" \/ Pushing(r)

Backed(e, k) ==
    /\ 0 < e.seen /\ e.seen <= lastObserved[k]
    /\ e.inflight <= Cardinality(InFlight(k)) /\ e.queued <= Cardinality(Queued(k))
    /\ e.action \notin {"allow", ""} => \E r \in Reqs : KeyOf[r] = k /\ outcome[r] \in Reasons
    /\ \E r \in Reqs : KeyOf[r] = k /\ Present(r)
\* A key is tracked in its shard only.
KeyInv ==
    /\ \A k \in Keys : lastObserved[k] <= now
    /\ \A s \in Shards : \A k \in Keys :
          Tracked(tracker[s], k) => ShardOf[k] = s /\ Backed(EntryOf(tracker[s], k), k)

\* A step about submission r leaves the others alone.
Acts(r) ==
    \A q \in Reqs \ {r} :
        /\ job'[q] = job[q] /\ outcome'[q] = outcome[q]
        /\ (EnqueueUnobserved(q)' <=> EnqueueUnobserved(q)) /\ (Pushing(q)' <=> Pushing(q))

LEMMA MovesActs ==
  ASSUME Types, NEW c \in Callers, NEW label \in Labels, Moves(c, label), NEW r \in Reqs, r = Req(c),
         \A q \in Reqs \ {r} : job'[q] = job[q] /\ outcome'[q] = outcome[q]
  PROVE  /\ Acts(r)
         /\ EnqueueUnobserved(r) <=> pc[c] = "observe"
         /\ Pushing(r) <=> pc[c] = "push"
         /\ EnqueueUnobserved(r)' <=> label = "observe"
         /\ Pushing(r)' <=> label = "push"
<1>1. /\ pc'[c] = label /\ Busy(c)
      /\ label # "overload" => Busy(c)' /\ Req(c)' = Req(c)
      /\ \A d \in Callers \ {c} : pc'[d] = pc[d] /\ (Busy(d)' <=> Busy(d)) /\ Req(d)' = Req(d)
  BY MovesCaller DEF Moves
<1>2. ASSUME NEW d \in Callers \ {c}, Busy(d)
      PROVE  Req(d) # r
  <2>1. /\ pos[c] \in DOMAIN Script(c) /\ pos[d] \in DOMAIN Script(d) /\ Req(c) = Script(c)[pos[c]] /\ Req(d) = Script(d)[pos[d]]
        /\ load \in Workloads
    BY <1>1, <1>2, ScriptTyped DEF Types, EnvTypes, CallTypes, Req
  <2> QED
    BY <2>1, SubmittedOnce
<1>3. ASSUME NEW q \in Reqs \ {r}
      PROVE  (EnqueueUnobserved(q)' <=> EnqueueUnobserved(q)) /\ (Pushing(q)' <=> Pushing(q))
  <2>1. \A d \in Callers : \A x \in {"push", "observe"} :
          (Busy(d)' /\ Req(d)' = q /\ pc'[d] = x) <=> (Busy(d) /\ Req(d) = q /\ pc[d] = x)
    BY <1>1, <1>3
  <2> QED
    BY <2>1 DEF EnqueueUnobserved, Pushing
<1>4. \A x \in {"push", "observe"} : (\E d \in Callers : Busy(d) /\ Req(d) = r /\ pc[d] = x) <=> pc[c] = x
  BY <1>1, <1>2
<1>5. \A x \in {"push", "observe"} : (\E d \in Callers : Busy(d)' /\ Req(d)' = r /\ pc'[d] = x) <=> label = x
  BY <1>1, <1>2
<1> QED
  BY <1>3, <1>4, <1>5 DEF Acts, EnqueueUnobserved, Pushing

LEMMA WorkActs ==
  ASSUME UNCHANGED <<load, pc, pos, outcome>>, NEW r \in Reqs, \A q \in Reqs \ {r} : job'[q] = job[q]
  PROVE  /\ Acts(r)
         /\ EnqueueUnobserved(r)' <=> EnqueueUnobserved(r)
         /\ Pushing(r)' <=> Pushing(r)
BY DEF Acts, EnqueueUnobserved, Pushing, Busy, Req, Script

\* The counts of the keys: only those of the key of r change, and by r at most.
LEMMA Finite == \A k : IsFiniteSet(InFlight(k)) /\ IsFiniteSet(Queued(k)) /\ Cardinality(InFlight(k)) \in Nat /\ Cardinality(Queued(k)) \in Nat
<1>1. ASSUME NEW k
      PROVE  IsFiniteSet(InFlight(k)) /\ IsFiniteSet(Queued(k)) /\ Cardinality(InFlight(k)) \in Nat /\ Cardinality(Queued(k)) \in Nat
  <2>1. InFlight(k) \subseteq Reqs /\ Queued(k) \subseteq Reqs
    BY DEF InFlight, Queued
  <2> QED
    BY <2>1, AdmissionAssumption, FS_Subset, FS_CardinalityType
<1> QED
  BY <1>1

LEMMA OtherKeys ==
  ASSUME NEW r \in Reqs, Acts(r), NEW k \in Keys, k # KeyOf[r], lastObserved'[k] = lastObserved[k], NEW e, Backed(e, k)
  PROVE  Backed(e, k)'
<1>1. \A q \in Reqs : KeyOf[q] = k => /\ job'[q] = job[q] /\ outcome'[q] = outcome[q]
                                     /\ (EnqueueUnobserved(q)' <=> EnqueueUnobserved(q)) /\ (Pushing(q)' <=> Pushing(q))
  BY DEF Acts
<1>2. InFlight(k)' = InFlight(k)
  BY <1>1 DEF InFlight
<1>3. \A q \in Reqs : KeyOf[q] = k => (Counted(q)' <=> Counted(q)) /\ (Present(q)' <=> Present(q))
  BY <1>1 DEF Counted, Present
<1>4. Queued(k)' = Queued(k)
  BY <1>3 DEF Queued
<1>5. (\E q \in Reqs : KeyOf[q] = k /\ Present(q)) => (\E q \in Reqs : KeyOf[q] = k /\ Present(q)')
  BY <1>3
<1>6. (\E q \in Reqs : KeyOf[q] = k /\ outcome[q] \in Reasons) => (\E q \in Reqs : KeyOf[q] = k /\ outcome'[q] \in Reasons)
  BY <1>1
<1>7. /\ 0 < e.seen /\ e.seen <= lastObserved'[k]
      /\ e.inflight <= Cardinality(InFlight(k)') /\ e.queued <= Cardinality(Queued(k)')
  <2>1. /\ 0 < e.seen /\ e.seen <= lastObserved[k]
        /\ e.inflight <= Cardinality(InFlight(k)) /\ e.queued <= Cardinality(Queued(k))
    BY Zenon DEF Backed
  <2> QED
    BY <1>2, <1>4, <2>1
<1>8. e.action \notin {"allow", ""} => \E q \in Reqs : KeyOf[q] = k /\ outcome'[q] \in Reasons
  BY <1>6, Zenon DEF Backed
<1>9. \E q \in Reqs : KeyOf[q] = k /\ Present(q)'
  BY <1>5, Zenon DEF Backed
<1> QED
  BY <1>7, <1>8, <1>9, Zenon DEF Backed

LEMMA OwnCounts ==
  ASSUME NEW r \in Reqs, Acts(r), NEW k, k = KeyOf[r]
  PROVE  LET f == job[r].st \in Flight
             g == job'[r].st \in Flight
             n == Cardinality(InFlight(k))
             m == Cardinality(Queued(k)) IN
         /\ n \in Nat /\ m \in Nat
         /\ (f <=> g) => Cardinality(InFlight(k)') = n
         /\ ~f /\ g => Cardinality(InFlight(k)') = n + 1
         /\ f /\ ~g => Cardinality(InFlight(k)') = n - 1
         /\ (Counted(r) <=> Counted(r)') => Cardinality(Queued(k)') = m
         /\ ~Counted(r) /\ Counted(r)' => Cardinality(Queued(k)') = m + 1
         /\ Counted(r) /\ ~Counted(r)' => Cardinality(Queued(k)') = m - 1
<1>1. \A q \in Reqs \ {r} : job'[q] = job[q] /\ (Counted(q)' <=> Counted(q))
  BY DEF Acts, Counted
<1>2. InFlight(k) \ {r} = InFlight(k)' \ {r} /\ (r \in InFlight(k) <=> job[r].st \in Flight) /\ (r \in InFlight(k)' <=> job'[r].st \in Flight)
  BY <1>1 DEF InFlight
<1>3. Queued(k) \ {r} = Queued(k)' \ {r} /\ (r \in Queued(k) <=> Counted(r)) /\ (r \in Queued(k)' <=> Counted(r)')
  BY <1>1 DEF Queued
<1>4. IsFiniteSet(InFlight(k)) /\ IsFiniteSet(Queued(k))
  BY Finite
<1> HIDE DEF InFlight, Queued, Counted
<1>5. /\ Cardinality(InFlight(k)) \in Nat
      /\ (job[r].st \in Flight <=> job'[r].st \in Flight) => Cardinality(InFlight(k)') = Cardinality(InFlight(k))
      /\ ~(job[r].st \in Flight) /\ job'[r].st \in Flight => Cardinality(InFlight(k)') = Cardinality(InFlight(k)) + 1
      /\ job[r].st \in Flight /\ ~(job'[r].st \in Flight) => Cardinality(InFlight(k)') = Cardinality(InFlight(k)) - 1
  BY <1>2, <1>4, CardChange
<1>6. /\ Cardinality(Queued(k)) \in Nat
      /\ (Counted(r) <=> Counted(r)') => Cardinality(Queued(k)') = Cardinality(Queued(k))
      /\ ~Counted(r) /\ Counted(r)' => Cardinality(Queued(k)') = Cardinality(Queued(k)) + 1
      /\ Counted(r) /\ ~Counted(r)' => Cardinality(Queued(k)') = Cardinality(Queued(k)) - 1
  BY <1>3, <1>4, CardChange
<1> QED
  BY <1>5, <1>6

LEMMA OwnBacked ==
  ASSUME NEW r \in Reqs, Acts(r), NEW k, k = KeyOf[r],
         outcome[r] \in Reasons => outcome'[r] \in Reasons, Present(r) => Present(r)',
         NEW e, 0 < e.seen, e.seen <= lastObserved'[k],
         e.inflight <= Cardinality(InFlight(k)'), e.queued <= Cardinality(Queued(k)'),
         \/ Present(r)' /\ e.action = ""
         \/ \E o : Backed(o, k) /\ (e.action = o.action \/ e.action = "allow" \/ outcome'[r] \in Reasons)
  PROVE  Backed(e, k)'
<1>1. \A q \in Reqs : (outcome[q] \in Reasons => outcome'[q] \in Reasons) /\ (Present(q) => Present(q)')
  <2>1. ASSUME NEW q \in Reqs, q # r
        PROVE  (outcome[q] \in Reasons => outcome'[q] \in Reasons) /\ (Present(q) => Present(q)')
    <3>1. job'[q] = job[q] /\ outcome'[q] = outcome[q] /\ (Pushing(q)' <=> Pushing(q))
      BY <2>1, Zenon DEF Acts
    <3> QED
      BY <3>1, Zenon DEF Present
  <2> QED
    BY <2>1, Zenon
<1>2. CASE Present(r)' /\ e.action = ""
  <2>1. \E q \in Reqs : KeyOf[q] = k /\ Present(q)'
    BY <1>2, Zenon
  <2> QED
    BY <1>2, <2>1, Zenon DEF Backed
<1>3. ASSUME NEW o, Backed(o, k), e.action = o.action \/ e.action = "allow" \/ outcome'[r] \in Reasons
      PROVE  Backed(e, k)'
  <2>1. \E q \in Reqs : KeyOf[q] = k /\ Present(q)'
    BY <1>1, <1>3, Zenon DEF Backed
  <2>2. o.action \notin {"allow", ""} => \E q \in Reqs : KeyOf[q] = k /\ outcome'[q] \in Reasons
    BY <1>1, <1>3, Zenon DEF Backed
  <2>3. e.action \notin {"allow", ""} => \E q \in Reqs : KeyOf[q] = k /\ outcome'[q] \in Reasons
    BY <1>3, <2>2, Zenon
  <2> QED
    BY <2>1, <2>3, Zenon DEF Backed
<1> QED
  BY <1>2, <1>3, Zenon

\* A step of the tracker of r's shard on behalf of r's key.
LEMMA KeyStep ==
  ASSUME Types, KeyInv, NEW r \in Reqs, Acts(r), now' = now, NEW u,
         tracker'[Shard(r)] = u, \A x \in Shards \ {Shard(r)} : tracker'[x] = tracker[x],
         Isolated(tracker[Shard(r)], u, KeyOf[r]),
         lastObserved'[KeyOf[r]] <= now, \A x \in Keys \ {KeyOf[r]} : lastObserved'[x] = lastObserved[x],
         Tracked(u, KeyOf[r]) => \E e : e = EntryOf(u, KeyOf[r]) /\ Backed(e, KeyOf[r])'
  PROVE  KeyInv'
<1>1. KeyOf[r] \in Keys /\ Shard(r) \in Shards /\ Shard(r) = ShardOf[KeyOf[r]]
  BY Sorts
<1>2. \A x \in Keys : lastObserved'[x] <= now'
  BY DEF KeyInv
<1>3. ASSUME NEW s \in Shards, NEW k \in Keys, Tracked(tracker'[s], k)
      PROVE  ShardOf[k] = s /\ \E e : e = EntryOf(tracker'[s], k) /\ Backed(e, k)'
  <2>1. CASE k # KeyOf[r]
    <3>1. Tracked(tracker[s], k) /\ EntryOf(tracker'[s], k) = EntryOf(tracker[s], k)
      <4>1. CASE s = Shard(r)
        BY <1>3, <2>1, <4>1 DEF Isolated
      <4>2. CASE s # Shard(r)
        BY <1>3, <4>2
      <4> QED
        BY <4>1, <4>2
    <3>2. PICK e : e = EntryOf(tracker[s], k)
      OBVIOUS
    <3>3. ShardOf[k] = s /\ Backed(e, k)
      BY <3>1, <3>2 DEF KeyInv
    <3>4. Backed(e, k)'
      BY <2>1, <3>3, OtherKeys
    <3> QED
      BY <3>1, <3>2, <3>3, <3>4
  <2>2. CASE k = KeyOf[r]
    <3>1. CASE s = Shard(r)
      BY <1>1, <1>3, <2>2, <3>1
    <3>2. CASE s # Shard(r)
      <4>1. Tracked(tracker[s], k)
        BY <1>3, <3>2
      <4> QED
        BY <1>1, <2>2, <3>2, <4>1 DEF KeyInv
    <3> QED
      BY <3>1, <3>2
  <2> QED
    BY <2>1, <2>2
<1>4. ASSUME NEW s \in Shards, NEW k \in Keys, NEW e, e = EntryOf(tracker'[s], k), Backed(e, k)'
      PROVE  Backed(EntryOf(tracker[s], k), k)'
  BY <1>4, Zenon DEF Backed
<1>5. \A s \in Shards : \A k \in Keys :
        Tracked(tracker'[s], k) => ShardOf[k] = s /\ Backed(EntryOf(tracker[s], k), k)'
  BY <1>3, <1>4, Zenon
<1> QED
  BY <1>2, <1>5, Zenon DEF KeyInv, Tracked, Indexed

\* The shards when no tracker hears of anything, whatever they forget.
LEMMA KeyQuiet ==
  ASSUME Types, KeyInv, NEW r \in Reqs, Acts(r), tracker' = tracker, lastObserved' = lastObserved, now' = now,
         outcome[r] \in Reasons => outcome'[r] \in Reasons, Present(r) => Present(r)',
         job[r].st \in Flight <=> job'[r].st \in Flight, Counted(r) <=> Counted(r)'
  PROVE  KeyInv'
<1> DEFINE k == KeyOf[r]
<1>1. k \in Keys /\ Shard(r) \in Shards /\ Shard(r) = ShardOf[k]
  BY Sorts
<1>2. PICK u : u = tracker[Shard(r)]
  OBVIOUS
<1>3. ASSUME Tracked(u, k)
      PROVE  \E e : e = EntryOf(u, k) /\ Backed(e, k)'
  <2>1. PICK e : e = EntryOf(u, k)
    OBVIOUS
  <2>2. Backed(e, k)
    BY <1>1, <1>2, <1>3, <2>1 DEF KeyInv
  <2>3. /\ 0 < e.seen /\ e.seen <= lastObserved[k]
        /\ e.inflight <= Cardinality(InFlight(k)) /\ e.queued <= Cardinality(Queued(k))
    BY <2>2, Zenon DEF Backed
  <2>4. Cardinality(InFlight(k)') = Cardinality(InFlight(k)) /\ Cardinality(Queued(k)') = Cardinality(Queued(k))
    BY OwnCounts
  <2>5. 0 < e.seen /\ e.seen <= lastObserved'[k] /\ e.inflight <= Cardinality(InFlight(k)') /\ e.queued <= Cardinality(Queued(k)')
    BY <2>3, <2>4
  <2> HIDE DEF k
  <2>6. Backed(e, k)'
    BY <2>2, <2>5, OwnBacked, Zenon DEF k
  <2> QED
    BY <2>1, <2>6
<1>4. lastObserved'[k] <= now
  BY <1>1 DEF KeyInv
<1>5. Isolated(tracker[Shard(r)], u, k)
  BY <1>2 DEF Isolated
<1> QED
  BY <1>1, <1>2, <1>3, <1>4, <1>5, KeyStep

\* What is backed now bounds what the tracker counts.
LEMMA OldCounts ==
  ASSUME Types, KeyInv, NEW r \in Reqs, NEW t, t = tracker[Shard(r)], NEW k, k = KeyOf[r], Tracked(t, k), NEW o, o = EntryOf(t, k)
  PROVE  /\ Backed(o, k) /\ o \in Entries /\ o.key = k
         /\ o.queued \in Nat /\ o.inflight \in Nat /\ o.queued <= Cardinality(Queued(k)) /\ o.inflight <= Cardinality(InFlight(k))
         /\ o.seen \in Nat /\ 0 < o.seen /\ o.seen <= lastObserved[k]
<1>1. k \in Keys /\ Shard(r) \in Shards /\ Good(t)
  BY Sorts, At
<1>2. Backed(o, k)
  BY <1>1 DEF KeyInv
<1>3. o \in Entries /\ o.key = k
  <2>1. t.index[k] \in Slots /\ t.entries \in [Slots -> Entries]
    BY <1>1, TrackerParts DEF Good, Tracked, Indexed
  <2> QED
    BY <2>1 DEF EntryOf, Tracked
<1>4. o.queued \in Nat /\ o.inflight \in Nat /\ o.seen \in Nat
  BY <1>3 DEF Entries
<1>5. o.queued <= Cardinality(Queued(k)) /\ o.inflight <= Cardinality(InFlight(k)) /\ 0 < o.seen /\ o.seen <= lastObserved[k]
  BY <1>2, Zenon DEF Backed
<1> QED
  BY <1>2, <1>3, <1>4, <1>5

\* The tracker hears of r: what it then says of the key is still backed.
Tells(t, u, k, r) ==
    Tracked(u, k) =>
        \E q, i, a :
            /\ Heard(EntryOf(u, k), now, q, i, a) /\ q <= Cardinality(Queued(k)') /\ i <= Cardinality(InFlight(k)')
            /\ \/ Present(r)' /\ a = ""
               \/ Tracked(t, k) /\ a = EntryOf(t, k).action

LEMMA KeyHeard ==
  ASSUME Types, KeyInv, NEW r \in Reqs, Acts(r), now' = now,
         outcome[r] \in Reasons => outcome'[r] \in Reasons, Present(r) => Present(r)',
         NEW u, Observe(r, u), Sound(tracker[Shard(r)], u, KeyOf[r]), Tells(tracker[Shard(r)], u, KeyOf[r], r)
  PROVE  KeyInv'
<1> DEFINE k == KeyOf[r]
<1>1. k \in Keys /\ Shard(r) \in Shards /\ now \in Nat /\ now >= 1
  BY At
<1>2. /\ tracker'[Shard(r)] = u /\ \A x \in Shards \ {Shard(r)} : tracker'[x] = tracker[x]
      /\ lastObserved'[k] = now /\ \A x \in Keys \ {k} : lastObserved'[x] = lastObserved[x]
  BY ObserveTypes
<1>3. ASSUME Tracked(u, k)
      PROVE  \E e : e = EntryOf(u, k) /\ Backed(e, k)'
  <2>1. PICK e : e = EntryOf(u, k)
    OBVIOUS
  <2>2. PICK q, i, a : /\ Heard(e, now, q, i, a) /\ q <= Cardinality(Queued(k)') /\ i <= Cardinality(InFlight(k)')
                       /\ (Present(r)' /\ a = "") \/ (Tracked(tracker[Shard(r)], k) /\ a = EntryOf(tracker[Shard(r)], k).action)
    BY <1>3, <2>1, Zenon DEF Tells
  <2>3. e.seen = now /\ e.queued = q /\ e.inflight = i /\ e.action = a
    BY <2>2, Zenon DEF Heard
  <2>4. 0 < e.seen /\ e.seen <= lastObserved'[k]
    BY <1>1, <1>2, <2>3
  <2>5. e.inflight <= Cardinality(InFlight(k)') /\ e.queued <= Cardinality(Queued(k)')
    BY <2>2, <2>3, Zenon
  <2>6. \/ Present(r)' /\ e.action = ""
        \/ \E o : Backed(o, k) /\ (e.action = o.action \/ e.action = "allow" \/ outcome'[r] \in Reasons)
    <3>1. ASSUME Tracked(tracker[Shard(r)], k)
          PROVE  Backed(EntryOf(tracker[Shard(r)], k), k)
      BY <3>1, OldCounts
    <3> QED
      BY <2>2, <2>3, <3>1, Zenon
  <2> HIDE DEF k
  <2>7. Backed(e, k)'
    BY <2>4, <2>5, <2>6, OwnBacked, Zenon DEF k
  <2> QED
    BY <2>1, <2>7
<1>4. lastObserved'[k] <= now
  BY <1>1, <1>2
<1>5. Isolated(tracker[Shard(r)], u, k)
  BY DEF Sound
<1> QED
  BY <1>2, <1>3, <1>4, <1>5, KeyStep

LEMMA KeptTells ==
  ASSUME NEW r \in Reqs, NEW t, NEW u, NEW k, NEW q, NEW i, KeptAs(t, u, k, now, q, i),
         Tracked(t, k) => q <= Cardinality(Queued(k)') /\ i <= Cardinality(InFlight(k)')
  PROVE  Tells(t, u, k, r)
BY Zenon DEF KeptAs, Tells

\* A caller that only asks.
LEMMA AskingKeys ==
  ASSUME Types, Calls, KeyInv, NEW c \in Callers, NEW label \in Labels, Moves(c, label), now' = now, job' = job,
         tracker' = tracker, lastObserved' = lastObserved,
         \/ outcome' = outcome /\ pc[c] \in {"overload", "admission"} /\ label # "observe"
         \/ pc[c] \in {"overload", "admission", "enqueue"} /\ label # "observe" /\ \E w \in Outcomes : Tell(Req(c), w)
         \/ pc[c] = "push" /\ label # "observe" /\ Tell(Req(c), "full")
  PROVE  KeyInv'
<1>1. PICK r \in Reqs : r = Req(c)
  BY BusyReq DEF Moves
<1>2. Here(c, r) /\ Untouched(r)
  BY <1>1, AtHand DEF Moves, Here
<1>3. \A q \in Reqs \ {r} : outcome'[q] = outcome[q]
  BY <1>1, TellTyped DEF Types, Outcomes
<1>4. /\ Acts(r) /\ (EnqueueUnobserved(r) <=> pc[c] = "observe") /\ (Pushing(r) <=> pc[c] = "push")
      /\ (EnqueueUnobserved(r)' <=> label = "observe")
  BY <1>1, <1>3, MovesActs
<1>5. Counted(r)' <=> Counted(r)
  BY <1>4 DEF Counted
<1>6. outcome[r] \notin Reasons /\ outcome[r] = "pending" /\ job[r].st = "none"
  BY <1>2 DEF Untouched, Reasons
<1>7. Present(r) => Present(r)'
  <2>1. CASE pc[c] = "push" /\ Tell(Req(c), "full")
    <3>1. outcome'[r] = "full"
      BY <1>1, <2>1, TellTyped DEF Types, Outcomes
    <3> QED
      BY <3>1 DEF Present
  <2>2. CASE pc[c] # "push"
    BY <1>4, <1>6, <2>2 DEF Present
  <2> QED
    BY <2>1, <2>2
<1> QED
  BY <1>4, <1>5, <1>6, <1>7, KeyQuiet

LEMMA RejectKeys ==
  ASSUME Types, Calls, KeyInv, NEW c \in Callers, RecordHotKeyReject(c)
  PROVE  KeyInv'
<1>1. PICK r \in Reqs : r = Req(c)
  BY BusyReq DEF RecordHotKeyReject
<1> DEFINE t == tracker[Shard(r)]
           k == KeyOf[r]
<1>2. PICK u : u = observeReject(t, k, now)
  OBVIOUS
<1>3. /\ Observe(r, u) /\ Moves(c, "overload") /\ pc[c] = "reject" /\ now' = now /\ job' = job /\ outcome' = outcome
  BY <1>1, <1>2 DEF RecordHotKeyReject, Moves, CallerFrame
<1>4. Sound(t, u, k) /\ KeptAs(t, u, k, now, EntryOf(t, k).queued, EntryOf(t, k).inflight)
  BY <1>2, At, RejectObserved
<1>5. /\ Acts(r) /\ ~EnqueueUnobserved(r) /\ ~Pushing(r) /\ ~EnqueueUnobserved(r)'
  BY <1>1, <1>3, MovesActs DEF Labels
<1>6. (Counted(r)' <=> Counted(r)) /\ (Present(r) => Present(r)')
  BY <1>3, <1>5 DEF Counted, Present
<1>7. Cardinality(Queued(k)') = Cardinality(Queued(k)) /\ Cardinality(InFlight(k)') = Cardinality(InFlight(k))
  BY <1>3, <1>5, <1>6, OwnCounts
<1>8. Tracked(t, k) => EntryOf(t, k).queued <= Cardinality(Queued(k)') /\ EntryOf(t, k).inflight <= Cardinality(InFlight(k)')
  BY <1>7, OldCounts
<1> HIDE DEF t, k
<1>9. Tells(t, u, k, r)
  BY <1>4, <1>8, KeptTells
<1> QED
  BY <1>3, <1>4, <1>5, <1>6, <1>9, KeyHeard DEF t, k

LEMMA StartedKeys ==
  ASSUME Types, Calls, KeyInv, NEW c \in Callers, EnqueueStarted(c)
  PROVE  KeyInv'
<1>1. PICK r \in Reqs : r = Req(c)
  BY BusyReq DEF EnqueueStarted
<1> DEFINE t == tracker[Shard(r)]
           k == KeyOf[r]
<1>2. PICK u : u = observeSubmit(t, k, now)
  OBVIOUS
<1>3. /\ Observe(r, u) /\ Moves(c, "push") /\ pc[c] = "enqueue" /\ now' = now /\ job' = job /\ outcome' = outcome
  BY <1>1, <1>2 DEF EnqueueStarted, Moves, CallerFrame
<1>4. /\ Sound(t, u, k)
      /\ Tracked(u, k) => \/ Heard(EntryOf(u, k), now, 0, 0, "")
                          \/ Tracked(t, k) /\ Heard(EntryOf(u, k), now, EntryOf(t, k).queued, EntryOf(t, k).inflight, EntryOf(t, k).action)
  <2>1. Good(t) /\ Live(t) /\ k \in Keys /\ now \in Nat
    BY At
  <2> HIDE DEF t, k
  <2> QED
    BY <1>2, <2>1, SubmitObserved, Zenon
<1>5. /\ Acts(r) /\ ~EnqueueUnobserved(r) /\ Pushing(r)' /\ ~EnqueueUnobserved(r)'
  BY <1>1, <1>3, MovesActs DEF Labels
<1>6. (Counted(r)' <=> Counted(r)) /\ Present(r)'
  BY <1>3, <1>5 DEF Counted, Present
<1>7. /\ Cardinality(Queued(k)') = Cardinality(Queued(k)) /\ Cardinality(InFlight(k)') = Cardinality(InFlight(k))
      /\ Cardinality(Queued(k)) \in Nat /\ Cardinality(InFlight(k)) \in Nat
  BY <1>3, <1>5, <1>6, OwnCounts
<1>8. Tracked(t, k) => EntryOf(t, k).queued <= Cardinality(Queued(k)') /\ EntryOf(t, k).inflight <= Cardinality(InFlight(k)')
  BY <1>7, OldCounts
<1>9. 0 <= Cardinality(Queued(k)') /\ 0 <= Cardinality(InFlight(k)')
  BY <1>7
<1> HIDE DEF t, k
<1>10. Tells(t, u, k, r)
  BY <1>4, <1>6, <1>8, <1>9, Zenon DEF Tells
<1> QED
  BY <1>3, <1>4, <1>5, <1>6, <1>10, KeyHeard, Zenon DEF t, k

LEMMA PushedKeys ==
  ASSUME Types, Calls, KeyInv, NEW c \in Callers, EnqueuePushed(c)
  PROVE  KeyInv'
<1>1. PICK r \in Reqs : r = Req(c)
  BY BusyReq DEF EnqueuePushed
<1>2. Untouched(r)
  BY <1>1, AtHand DEF EnqueuePushed, Here
<1>3. /\ Moves(c, "observe") /\ pc[c] = "push" /\ now' = now /\ tracker' = tracker /\ lastObserved' = lastObserved /\ outcome' = outcome
      /\ job' = [job EXCEPT ![r].st = "queued", ![r].acceptedAt = now]
  BY <1>1 DEF EnqueuePushed, Moves, CallerFrame
<1>4. now \in Nat
  BY At
<1>5. job'[r].st = "queued" /\ \A q \in Reqs \ {r} : job'[q] = job[q]
  BY <1>3, <1>4, JobQueued, Zenon DEF Types, JobTypes
<1>6. /\ Acts(r) /\ ~EnqueueUnobserved(r) /\ EnqueueUnobserved(r)'
  BY <1>1, <1>3, <1>5, MovesActs DEF Labels
<1>7. ~Counted(r) /\ ~Counted(r)'
  BY <1>2, <1>6 DEF Counted, Untouched, Begun
<1>8. job[r].st \notin Flight /\ job'[r].st \notin Flight /\ Present(r)'
  BY <1>2, <1>5 DEF Untouched, Flight, Present
<1> QED
  BY <1>3, <1>6, <1>7, <1>8, KeyQuiet

LEMMA AcceptedKeys ==
  ASSUME Types, Calls, KeyInv, NEW c \in Callers, EnqueueEnd(c)
  PROVE  KeyInv'
<1>1. PICK r \in Reqs : r = Req(c)
  BY BusyReq DEF EnqueueEnd
<1> DEFINE t == tracker[Shard(r)]
           k == KeyOf[r]
<1>2. PICK u : u = observeEnqueue(t, k, now)
  OBVIOUS
<1>3. /\ Observe(r, u) /\ Moves(c, "overload") /\ Busy(c) /\ pc[c] = "observe" /\ now' = now /\ job' = job /\ Tell(r, "accepted")
  BY <1>1, <1>2, EnqueueEndCases DEF Moves, CallerFrame
<1>4. /\ Sound(t, u, k)
      /\ Tracked(u, k) => \/ Heard(EntryOf(u, k), now, 1, 0, "")
                          \/ Tracked(t, k) /\ Heard(EntryOf(u, k), now, EntryOf(t, k).queued + 1, EntryOf(t, k).inflight, EntryOf(t, k).action)
  <2>1. Good(t) /\ Live(t) /\ k \in Keys /\ now \in Nat
    BY At
  <2> HIDE DEF t, k
  <2> QED
    BY <1>2, <2>1, EnqueueObserved, Zenon
<1>5. outcome[r] = "pending" /\ job[r].st # "none" /\ (job[r].st \in Begun => job[r].early) /\ job[r].st \in JobStates
  BY <1>1, <1>3, AtHand DEF Here, Types, JobTypes, Jobs
<1>6. \A q \in Reqs \ {r} : outcome'[q] = outcome[q] /\ job'[q] = job[q]
  BY <1>3, TellTyped DEF Types, Outcomes
<1>7. /\ Acts(r) /\ EnqueueUnobserved(r) /\ ~EnqueueUnobserved(r)'
  BY <1>1, <1>3, <1>6, MovesActs DEF Labels
<1>8. ~Counted(r) /\ Counted(r)' /\ Present(r)'
  BY <1>3, <1>5, <1>7 DEF Counted, Present, JobStates, Begun
<1>9. /\ Cardinality(Queued(k)') = Cardinality(Queued(k)) + 1 /\ Cardinality(InFlight(k)') = Cardinality(InFlight(k))
      /\ Cardinality(Queued(k)) \in Nat /\ Cardinality(InFlight(k)) \in Nat
  BY <1>3, <1>7, <1>8, OwnCounts
<1>10. Tracked(t, k) => EntryOf(t, k).queued + 1 <= Cardinality(Queued(k)') /\ EntryOf(t, k).inflight <= Cardinality(InFlight(k)')
  BY <1>9, OldCounts
<1>11. 1 <= Cardinality(Queued(k)') /\ 0 <= Cardinality(InFlight(k)')
  BY <1>9
<1>12. outcome[r] \notin Reasons
  BY <1>5 DEF Reasons
<1> HIDE DEF t, k
<1>13. Tells(t, u, k, r)
  BY <1>4, <1>8, <1>10, <1>11, Zenon DEF Tells
<1> QED
  BY <1>3, <1>4, <1>7, <1>8, <1>12, <1>13, KeyHeard, Zenon DEF t, k

\* What a decision leaves of an entry.
LEMMA MarkedParts ==
  ASSUME NEW v, NEW n, NEW o, NEW e, Marked(v, n, o, e)
  PROVE  /\ e.queued = o.queued /\ e.inflight = o.inflight
         /\ v.kind = "decide" => e.seen = n /\ e.action = v.action
         /\ v.kind # "decide" => e.seen = o.seen /\ (e.action = "allow" \/ e.action = o.action)
<1>1. CASE v.kind = "decide"
  BY <1>1, Zenon DEF Marked, Heard
<1>2. CASE v.kind # "decide"
  <2>1. /\ e.queued = o.queued /\ e.inflight = o.inflight /\ e.seen = o.seen
        /\ e.action = IF v.kind = "recover" THEN "allow" ELSE o.action
    BY <1>2, Zenon DEF Marked, Heard
  <2> QED
    BY <1>2, <2>1, Zenon
<1> QED
  BY <1>1, <1>2

LEMMA PerKeyKeys ==
  ASSUME Types, Calls, KeyInv, NEW c \in Callers, CheckPerKeyAdmission(c)
  PROVE  KeyInv'
<1>1. PICK r \in Reqs : r = Req(c)
  BY BusyReq DEF CheckPerKeyAdmission
<1> DEFINE t == tracker[Shard(r)]
           k == KeyOf[r]
<1>2. PICK v, u : PerKeyStep(c, v, u) /\ Decided(t, k, v, u)
  BY <1>1, PerKeyCases, Zenon
<1>3. /\ Busy(c) /\ pc[c] = "perkey" /\ load' = load /\ now' = now /\ job' = job /\ tracker' = [tracker EXCEPT ![Shard(r)] = u]
      /\ \/ v.action = "allow" /\ Goto(c, "enqueue") /\ outcome' = outcome
         \/ v.action # "allow" /\ Goto(c, "reject") /\ Tell(r, v.reason)
      /\ v.kind = "decide" => lastObserved' = [lastObserved EXCEPT ![k] = now]
      /\ v.kind # "decide" => lastObserved' = lastObserved
  BY <1>1, <1>2, Zenon DEF PerKeyStep, CallerFrame
<1>4. Good(t) /\ Live(t) /\ k \in Keys /\ Shard(r) \in Shards /\ now \in Nat /\ now >= 1
  BY At
<1>5. /\ Sound(t, u, k) /\ (Tracked(u, k) => Tracked(t, k) /\ Marked(v, now, EntryOf(t, k), EntryOf(u, k)))
      /\ v.action # "allow" => v.kind = "decide" /\ v.reason \in Reasons
  <2> HIDE DEF t, k
  <2> QED
    BY <1>2, Zenon DEF Decided, Justified
<1>6. tracker'[Shard(r)] = u /\ \A x \in Shards \ {Shard(r)} : tracker'[x] = tracker[x]
  BY <1>3, <1>4, <1>5, TrackerStep DEF Types, Sound
<1>7. /\ \A x \in Keys \ {k} : lastObserved'[x] = lastObserved[x]
      /\ v.kind = "decide" => lastObserved'[k] = now
      /\ v.kind # "decide" => lastObserved'[k] = lastObserved[k]
  BY <1>3, <1>4 DEF Types, StatTypes
<1>8. PICK label \in {"enqueue", "reject"} : Moves(c, label)
  BY <1>3, Zenon DEF Moves
<1>9. outcome[r] = "pending" /\ job[r].st = "none"
  BY <1>1, <1>3, AtHand DEF Here, Untouched
<1>10. /\ v.action # "allow" => outcome'[r] \in Reasons
       /\ \A q \in Reqs \ {r} : outcome'[q] = outcome[q] /\ job'[q] = job[q]
  BY <1>3, <1>5, TellTyped DEF Types, Outcomes
<1>11. /\ Acts(r) /\ ~EnqueueUnobserved(r) /\ ~Pushing(r) /\ ~EnqueueUnobserved(r)'
  BY <1>1, <1>3, <1>8, <1>10, MovesActs DEF Labels
<1>12. (Counted(r)' <=> Counted(r)) /\ ~Present(r) /\ outcome[r] \notin Reasons
  BY <1>3, <1>9, <1>11 DEF Counted, Present, Reasons
<1>13. /\ Cardinality(Queued(k)') = Cardinality(Queued(k)) /\ Cardinality(InFlight(k)') = Cardinality(InFlight(k))
  BY <1>3, <1>11, <1>12, OwnCounts
<1>14. ASSUME Tracked(u, k)
       PROVE  \E e : e = EntryOf(u, k) /\ Backed(e, k)'
  <2>1. PICK e : e = EntryOf(u, k)
    OBVIOUS
  <2>2. PICK o : o = EntryOf(t, k)
    OBVIOUS
  <2>3. Tracked(t, k) /\ Marked(v, now, o, e)
    BY <1>5, <1>14, <2>1, <2>2
  <2>4. /\ Backed(o, k) /\ o.queued <= Cardinality(Queued(k)) /\ o.inflight <= Cardinality(InFlight(k))
        /\ 0 < o.seen /\ o.seen <= lastObserved[k]
    BY <2>2, <2>3, OldCounts
  <2>5. /\ e.queued = o.queued /\ e.inflight = o.inflight
        /\ v.kind = "decide" => e.seen = now /\ e.action = v.action
        /\ v.kind # "decide" => e.seen = o.seen /\ (e.action = "allow" \/ e.action = o.action)
    BY <2>3, MarkedParts
  <2> HIDE DEF t
  <2>6. e.inflight <= Cardinality(InFlight(k)') /\ e.queued <= Cardinality(Queued(k)')
    BY <1>13, <2>4, <2>5
  <2>7. 0 < e.seen /\ e.seen <= lastObserved'[k]
    <3>1. CASE v.kind = "decide"
      <4>1. e.seen = now /\ lastObserved'[k] = now
        BY <1>7, <2>5, <3>1
      <4> QED
        BY <1>4, <4>1
    <3>2. CASE v.kind # "decide"
      <4>1. e.seen = o.seen /\ lastObserved'[k] = lastObserved[k]
        BY <1>7, <2>5, <3>2
      <4> QED
        BY <2>4, <4>1
    <3> QED
      BY <3>1, <3>2
  <2>8. e.action = o.action \/ e.action = "allow" \/ outcome'[r] \in Reasons
    BY <1>10, <2>5
  <2> HIDE DEF k
  <2>9. Backed(e, k)'
    BY <1>11, <1>12, <2>4, <2>6, <2>7, <2>8, OwnBacked, Zenon DEF k
  <2> QED
    BY <2>1, <2>9
<1>15. lastObserved'[k] <= now
  BY <1>4, <1>7 DEF KeyInv
<1>16. Isolated(t, u, k)
  BY <1>5 DEF Sound
<1> QED
  BY <1>3, <1>6, <1>7, <1>11, <1>14, <1>15, <1>16, KeyStep

LEMMA CallerKeys ==
  ASSUME Types, Calls, KeyInv, NEW c \in Callers, CallerSteps(c)
  PROVE  KeyInv'
<1>1. ASSUME NEW w \in {"overload", "admission"}, NEW N, Refused(c, w, N)
      PROVE  KeyInv'
  <2>1. Moves(c, "reject") /\ now' = now /\ job' = job /\ tracker' = tracker /\ lastObserved' = lastObserved
    BY <1>1 DEF Refused, Moves, CallerFrame
  <2>2. pc[c] \in {"overload", "admission", "enqueue"} /\ \E x \in Outcomes : Tell(Req(c), x)
    BY <1>1 DEF Refused, Outcomes
  <2> QED
    BY <2>1, <2>2, AskingKeys DEF Labels
<1>2. ASSUME NEW from \in {"overload", "admission"}, NEW to \in {"admission", "perkey"}, Passed(c, from, to)
      PROVE  KeyInv'
  <2>1. Moves(c, to) /\ now' = now /\ job' = job /\ tracker' = tracker /\ lastObserved' = lastObserved /\ outcome' = outcome
    BY <1>2 DEF Passed, Moves, CallerFrame
  <2>2. pc[c] \in {"overload", "admission"}
    BY <1>2 DEF Passed
  <2> QED
    BY <2>1, <2>2, AskingKeys DEF Labels
<1>3. CASE EnqueueStopped(c)
  <2>1. Moves(c, "overload") /\ now' = now /\ job' = job /\ tracker' = tracker /\ lastObserved' = lastObserved
    BY <1>3 DEF EnqueueStopped, Moves, CallerFrame
  <2>2. pc[c] \in {"overload", "admission", "enqueue"} /\ \E x \in Outcomes : Tell(Req(c), x)
    BY <1>3 DEF EnqueueStopped, Outcomes
  <2> QED
    BY <2>1, <2>2, AskingKeys DEF Labels
<1>4. CASE EnqueueFull(c)
  <2>1. Moves(c, "overload") /\ now' = now /\ job' = job /\ tracker' = tracker /\ lastObserved' = lastObserved
    BY <1>4 DEF EnqueueFull, Moves, CallerFrame
  <2>2. pc[c] = "push" /\ Tell(Req(c), "full")
    BY <1>4 DEF EnqueueFull
  <2> QED
    BY <2>1, <2>2, AskingKeys DEF Labels
<1>5. /\ (\E n \in {"overloadShed", "overloadDegrade", "overloadReject"} : Refused(c, "overload", {"rejected", "pressureRejected", n}))
            => KeyInv'
      /\ Refused(c, "admission", {"rejected", "pressureRejected"}) => KeyInv'
  BY <1>1
<1>6. CallerKinds(c)
  BY CallerCases
<1> QED
  BY <1>2, <1>3, <1>4, <1>5, <1>6, PerKeyKeys, RejectKeys, StartedKeys, PushedKeys, AcceptedKeys, Zenon DEF CallerKinds

LEMMA FiniteNext == \A k : Cardinality(InFlight(k)') \in Nat /\ Cardinality(Queued(k)') \in Nat
<1>1. ASSUME NEW k
      PROVE  Cardinality(InFlight(k)') \in Nat /\ Cardinality(Queued(k)') \in Nat
  <2>1. InFlight(k)' \subseteq Reqs /\ Queued(k)' \subseteq Reqs
    BY DEF InFlight, Queued
  <2> QED
    BY <2>1, AdmissionAssumption, FS_Subset, FS_CardinalityType
<1> QED
  BY <1>1

\* A job starts: it is in flight now, and no longer queued, if it was counted as that.
LEMMA StartKeys ==
  ASSUME Types, Calls, KeyInv, NEW r \in Reqs, ObserveStart(r)
  PROVE  KeyInv'
<1> DEFINE t == tracker[Shard(r)]
           k == KeyOf[r]
<1>1. PICK u : u = observeInflightStart(observeDequeue(t, k, now), k, now)
  OBVIOUS
<1>2. Observe(r, u) /\ now' = now /\ job[r].st = "batch"
  BY <1>1 DEF ObserveStart, WorkerFrame
<1>3. /\ UNCHANGED <<load, pc, pos, outcome>> /\ (\A q \in Reqs \ {r} : job'[q] = job[q])
      /\ job'[r].st = "started" /\ (job'[r].early <=> EnqueueUnobserved(r))
  <2>1. WorkerSteps(r)
    BY DEF WorkerSteps
  <2> QED
    BY <1>2, <2>1, WorkerCalls
<1>4. Sound(t, u, k) /\ KeptAs(t, u, k, now, Decremented(EntryOf(t, k).queued), EntryOf(t, k).inflight + 1)
  BY <1>1, At, StartObserved
<1>5. Acts(r) /\ (EnqueueUnobserved(r)' <=> EnqueueUnobserved(r)) /\ (Pushing(r)' <=> Pushing(r))
  BY <1>3, WorkActs
<1>6. Present(r)' /\ ~Counted(r)' /\ (Counted(r) <=> ~EnqueueUnobserved(r)) /\ job[r].st \notin Flight /\ job'[r].st \in Flight
  BY <1>2, <1>3, <1>5 DEF Present, Counted, Begun, Flight
<1>7. /\ Cardinality(InFlight(k)') = Cardinality(InFlight(k)) + 1 /\ Cardinality(Queued(k)) \in Nat /\ Cardinality(InFlight(k)) \in Nat
      /\ Cardinality(Queued(k)') = Cardinality(Queued(k)) \/ Cardinality(Queued(k)') = Cardinality(Queued(k)) - 1
  BY <1>5, <1>6, OwnCounts
<1>8. Cardinality(Queued(k)') \in Nat
  BY FiniteNext
<1>9. ASSUME Tracked(t, k)
      PROVE  /\ Decremented(EntryOf(t, k).queued) <= Cardinality(Queued(k)')
             /\ EntryOf(t, k).inflight + 1 <= Cardinality(InFlight(k)')
  <2>1. PICK o : o = EntryOf(t, k)
    OBVIOUS
  <2>2. o.queued \in Nat /\ o.inflight \in Nat /\ o.queued <= Cardinality(Queued(k)) /\ o.inflight <= Cardinality(InFlight(k))
    BY <1>9, <2>1, OldCounts
  <2>3. Decremented(o.queued) <= Cardinality(Queued(k)') /\ o.inflight + 1 <= Cardinality(InFlight(k)')
    BY <1>7, <1>8, <2>2 DEF Decremented
  <2> QED
    BY <2>1, <2>3
<1>10. outcome' = outcome
  BY <1>3
<1> HIDE DEF t, k
<1>11. Tells(t, u, k, r)
  BY <1>4, <1>9, KeptTells
<1> QED
  BY <1>2, <1>4, <1>5, <1>6, <1>10, <1>11, KeyHeard, Zenon DEF t, k

LEMMA RunKeys ==
  ASSUME Types, Calls, KeyInv, NEW r \in Reqs, RunJob(r)
  PROVE  KeyInv'
<1> DEFINE t == tracker[Shard(r)]
           k == KeyOf[r]
<1>1. PICK d : d = now - job[r].acceptedAt
  OBVIOUS
<1>2. PICK u : u = observeQueueWait(t, k, d, now)
  OBVIOUS
<1>3. Observe(r, u) /\ now' = now /\ job[r].st = "started"
  BY <1>1, <1>2 DEF RunJob, WorkerFrame
<1>4. /\ UNCHANGED <<load, pc, pos, outcome>> /\ (\A q \in Reqs \ {r} : job'[q] = job[q])
      /\ job'[r].st \in {"running", "dropped"} /\ job'[r].early = job[r].early
  <2>1. WorkerSteps(r)
    BY DEF WorkerSteps
  <2> QED
    BY <1>3, <2>1, WorkerCalls
<1>5. d \in Nat
  BY <1>1, At DEF Types, JobTypes, Jobs
<1>6. Sound(t, u, k) /\ (u = t \/ KeptAs(t, u, k, now, EntryOf(t, k).queued, EntryOf(t, k).inflight))
  BY <1>2, <1>5, At, WaitObserved
<1>7. Acts(r) /\ (EnqueueUnobserved(r)' <=> EnqueueUnobserved(r)) /\ (Pushing(r)' <=> Pushing(r))
  BY <1>4, WorkActs
<1>8. Present(r)' /\ (Counted(r)' <=> Counted(r)) /\ job[r].st \in Flight /\ job'[r].st \in Flight
  BY <1>3, <1>4, <1>7 DEF Present, Counted, Begun, Flight
<1>9. Cardinality(Queued(k)') = Cardinality(Queued(k)) /\ Cardinality(InFlight(k)') = Cardinality(InFlight(k))
  BY <1>7, <1>8, OwnCounts
<1>10. Tracked(t, k) => EntryOf(t, k).queued <= Cardinality(Queued(k)') /\ EntryOf(t, k).inflight <= Cardinality(InFlight(k)')
  BY <1>9, OldCounts
<1>11. outcome' = outcome
  BY <1>4
<1>12. CASE KeptAs(t, u, k, now, EntryOf(t, k).queued, EntryOf(t, k).inflight)
  <2> HIDE DEF t, k
  <2>1. Tells(t, u, k, r)
    BY <1>10, <1>12, KeptTells
  <2> QED
    BY <1>3, <1>6, <1>7, <1>8, <1>11, <2>1, KeyHeard, Zenon DEF t, k
<1>13. CASE u = t
  <2>1. /\ tracker'[Shard(r)] = u /\ \A x \in Shards \ {Shard(r)} : tracker'[x] = tracker[x]
        /\ lastObserved'[k] = now /\ \A x \in Keys \ {k} : lastObserved'[x] = lastObserved[x]
    BY <1>3, <1>6, ObserveTypes
  <2>2. k \in Keys /\ now \in Nat
    BY At
  <2>3. ASSUME Tracked(u, k)
        PROVE  \E e : e = EntryOf(u, k) /\ Backed(e, k)'
    <3>1. PICK e : e = EntryOf(u, k)
      OBVIOUS
    <3>2. Backed(e, k) /\ 0 < e.seen /\ e.seen \in Nat /\ e.seen <= lastObserved[k]
      BY <1>13, <2>3, <3>1, OldCounts
    <3>3. lastObserved[k] <= now /\ lastObserved[k] \in Nat
      BY <2>2 DEF KeyInv, Types, StatTypes
    <3>4. 0 < e.seen /\ e.seen <= lastObserved'[k]
      BY <2>1, <2>2, <3>2, <3>3
    <3>5. e.inflight <= Cardinality(InFlight(k)') /\ e.queued <= Cardinality(Queued(k)')
      BY <1>10, <1>13, <2>3, <3>1
    <3> HIDE DEF k, t
    <3>6. Backed(e, k)'
      BY <1>7, <1>8, <1>11, <3>2, <3>4, <3>5, OwnBacked, Zenon DEF k
    <3> QED
      BY <3>1, <3>6
  <2>4. lastObserved'[k] <= now
    BY <2>1, <2>2
  <2>5. Isolated(t, u, k)
    BY <1>6 DEF Sound
  <2> QED
    BY <1>3, <1>7, <2>1, <2>3, <2>4, <2>5, KeyStep
<1> QED
  BY <1>6, <1>12, <1>13

LEMMA DoneKeys ==
  ASSUME Types, Calls, KeyInv, NEW r \in Reqs, JobDone(r)
  PROVE  KeyInv'
<1> DEFINE t == tracker[Shard(r)]
           k == KeyOf[r]
<1>1. PICK u : u = observeInflightEnd(t, k, now)
  OBVIOUS
<1>2. Observe(r, u) /\ now' = now /\ job[r].st = "running"
  BY <1>1 DEF JobDone, WorkerFrame
<1>3. /\ UNCHANGED <<load, pc, pos, outcome>> /\ (\A q \in Reqs \ {r} : job'[q] = job[q])
      /\ job'[r].st = "done" /\ job'[r].early = job[r].early
  <2>1. WorkerSteps(r)
    BY DEF WorkerSteps
  <2> QED
    BY <1>2, <2>1, WorkerCalls
<1>4. Sound(t, u, k) /\ KeptAs(t, u, k, now, EntryOf(t, k).queued, Decremented(EntryOf(t, k).inflight))
  BY <1>1, At, InflightEndObserved
<1>5. Acts(r) /\ (EnqueueUnobserved(r)' <=> EnqueueUnobserved(r)) /\ (Pushing(r)' <=> Pushing(r))
  BY <1>3, WorkActs
<1>6. Present(r)' /\ (Counted(r)' <=> Counted(r)) /\ job[r].st \in Flight /\ job'[r].st \notin Flight
  BY <1>2, <1>3, <1>5 DEF Present, Counted, Begun, Flight
<1>7. /\ Cardinality(InFlight(k)') = Cardinality(InFlight(k)) - 1 /\ Cardinality(InFlight(k)) \in Nat
      /\ Cardinality(Queued(k)') = Cardinality(Queued(k))
  BY <1>5, <1>6, OwnCounts
<1>8. Cardinality(InFlight(k)') \in Nat
  BY FiniteNext
<1>9. ASSUME Tracked(t, k)
      PROVE  /\ EntryOf(t, k).queued <= Cardinality(Queued(k)')
             /\ Decremented(EntryOf(t, k).inflight) <= Cardinality(InFlight(k)')
  <2>1. PICK o : o = EntryOf(t, k)
    OBVIOUS
  <2>2. o.queued \in Nat /\ o.inflight \in Nat /\ o.queued <= Cardinality(Queued(k)) /\ o.inflight <= Cardinality(InFlight(k))
    BY <1>9, <2>1, OldCounts
  <2>3. o.queued <= Cardinality(Queued(k)') /\ Decremented(o.inflight) <= Cardinality(InFlight(k)')
    BY <1>7, <1>8, <2>2 DEF Decremented
  <2> QED
    BY <2>1, <2>3
<1>10. outcome' = outcome
  BY <1>3
<1> HIDE DEF t, k
<1>11. Tells(t, u, k, r)
  BY <1>4, <1>9, KeptTells
<1> QED
  BY <1>2, <1>4, <1>5, <1>6, <1>10, <1>11, KeyHeard, Zenon DEF t, k

\* A job moved on without the tracker hearing of it: taken from its lane, or dropped.
LEMMA MovedKeys ==
  ASSUME Types, KeyInv, NEW r \in Reqs, UNCHANGED <<load, pc, pos, outcome, now, tracker, lastObserved>>,
         \A q \in Reqs \ {r} : job'[q] = job[q], job'[r].early = job[r].early,
         \/ job[r].st = "queued" /\ job'[r].st = "batch"
         \/ job[r].st = "started" /\ job'[r].st = "dropped"
  PROVE  KeyInv'
<1>1. Acts(r) /\ (EnqueueUnobserved(r)' <=> EnqueueUnobserved(r))
  BY WorkActs
<1>2. Present(r)' /\ (Counted(r)' <=> Counted(r)) /\ (job[r].st \in Flight <=> job'[r].st \in Flight)
  BY <1>1 DEF Present, Counted, Begun, Flight
<1> QED
  BY <1>1, <1>2, KeyQuiet

\* Nothing is heard of any key, though time may pass and trackers may forget.
LEMMA SilentKeys ==
  ASSUME Types, KeyInv, UNCHANGED <<load, pc, pos, job, outcome, lastObserved>>, now <= now', now' \in Nat,
         \A s \in Shards : \A k \in Keys :
            Tracked(tracker'[s], k) => Tracked(tracker[s], k) /\ EntryOf(tracker'[s], k) = EntryOf(tracker[s], k)
  PROVE  KeyInv'
<1>1. \A k \in Keys : lastObserved'[k] <= now'
  <2>1. now \in Nat
    BY AdmissionAssumption DEF Types, EnvTypes
  <2> QED
    BY <2>1 DEF KeyInv, Types, StatTypes
<1>2. \A q \in Reqs : (EnqueueUnobserved(q)' <=> EnqueueUnobserved(q)) /\ (Pushing(q)' <=> Pushing(q))
  BY DEF EnqueueUnobserved, Pushing, Busy, Req, Script
<1>3. ASSUME NEW k \in Keys, NEW e, Backed(e, k)
      PROVE  Backed(e, k)'
  <2>1. InFlight(k)' = InFlight(k)
    BY DEF InFlight
  <2>2. Queued(k)' = Queued(k)
    BY <1>2 DEF Queued, Counted
  <2>3. \A q \in Reqs : Present(q)' <=> Present(q)
    BY <1>2 DEF Present
  <2> QED
    BY <1>3, <2>1, <2>2, <2>3, Zenon DEF Backed
<1>4. ASSUME NEW s \in Shards, NEW k \in Keys, Tracked(tracker'[s], k)
      PROVE  ShardOf[k] = s /\ Backed(EntryOf(tracker[s], k), k)'
  <2>1. PICK e : e = EntryOf(tracker[s], k)
    OBVIOUS
  <2>2. Tracked(tracker[s], k) /\ EntryOf(tracker'[s], k) = e
    BY <1>4, <2>1
  <2>3. ShardOf[k] = s /\ Backed(e, k)
    BY <2>1, <2>2 DEF KeyInv
  <2>4. Backed(e, k)'
    BY <1>3, <2>3
  <2> QED
    BY <2>2, <2>3, <2>4, Zenon DEF Backed
<1> QED
  BY <1>1, <1>4, Zenon DEF KeyInv, Tracked, Indexed

LEMMA DetectKeys ==
  ASSUME Types, KeyInv, NEW s \in Shards, DetectHotKeys(s)
  PROVE  KeyInv'
<1>1. PICK u : u = expireStaleEntriesLocked(tracker[s], now)
  OBVIOUS
<1>2. /\ tracker' = [tracker EXCEPT ![s] = u] /\ enabled
      /\ UNCHANGED <<load, pc, pos, job, outcome, lastObserved, now>>
  BY <1>1 DEF DetectHotKeys, EnvFrame
<1>3. /\ Good(u)
      /\ \A x \in Keys : Tracked(u, x) => Tracked(tracker[s], x) /\ EntryOf(u, x) = EntryOf(tracker[s], x)
  BY <1>1, Expired DEF Types, TrackerTypes
<1>4. tracker'[s] = u /\ \A x \in Shards \ {s} : tracker'[x] = tracker[x]
  BY <1>2 DEF Types, TrackerTypes
<1>5. now \in Nat /\ now <= now' /\ now' \in Nat
  BY <1>2, AdmissionAssumption DEF Types, EnvTypes
<1>6. ASSUME NEW x \in Shards, NEW k \in Keys, Tracked(tracker'[x], k)
      PROVE  Tracked(tracker[x], k) /\ EntryOf(tracker'[x], k) = EntryOf(tracker[x], k)
  BY <1>3, <1>4, <1>6
<1> QED
  BY <1>2, <1>5, <1>6, SilentKeys

LEMMA NextKeys ==
  ASSUME Types, Calls, KeyInv, [Next]_vars
  PROVE  KeyInv'
<1>0. now \in Nat /\ now <= now
  BY AdmissionAssumption DEF Types, EnvTypes
<1>1. CASE Environment
  BY <1>1, EnvironmentFrame, SilentKeys
<1>2. CASE Watching
  <2>1. UNCHANGED <<load, pc, pos, job, outcome, lastObserved, now, tracker>>
    BY <1>2 DEF Watching, SnapshotBegin, SnapshotRead
  <2> QED
    BY <1>0, <2>1, SilentKeys
<1>3. CASE UNCHANGED vars
  <2>1. UNCHANGED <<load, pc, pos, job, outcome, lastObserved, now, tracker>>
    BY <1>3 DEF vars
  <2> QED
    BY <1>0, <2>1, SilentKeys
<1>4. ASSUME NEW s \in Shards, NEW l \in Lanes, PopN(s, l)
      PROVE  KeyInv'
  <2>1. PICK r : r = Head(lanes[s][l])
    OBVIOUS
  <2>2. /\ r \in Reqs /\ job[r].st = "queued" /\ job'[r].st = "batch" /\ job'[r].early = job[r].early
        /\ \A q \in Reqs \ {r} : job'[q] = job[q]
    BY <1>4, <2>1, PopCalls
  <2>3. UNCHANGED <<load, pc, pos, outcome, now, tracker, lastObserved>>
    BY <1>4 DEF PopN, WorkerFrame
  <2> QED
    BY <2>2, <2>3, MovedKeys
<1>5. ASSUME NEW r \in Reqs, AbandonJob(r)
      PROVE  KeyInv'
  <2>1. WorkerSteps(r) /\ job[r].st = "started" /\ UNCHANGED <<load, pc, pos, outcome, now, tracker, lastObserved>>
    BY <1>5 DEF WorkerSteps, AbandonJob, WorkerFrame
  <2>2. /\ \A q \in Reqs \ {r} : job'[q] = job[q]
        /\ job'[r].early = job[r].early /\ job'[r].st = "dropped"
    BY <1>5, JobStep DEF AbandonJob, Types, JobTypes, JobStates
  <2> QED
    BY <2>1, <2>2, MovedKeys
<1>6. ASSUME NEW r \in Reqs, WorkerSteps(r)
      PROVE  KeyInv'
  BY <1>5, <1>6, StartKeys, RunKeys, DoneKeys DEF WorkerSteps
<1> QED
  BY <1>1, <1>2, <1>3, <1>4, <1>6, NextCases, CallerKeys, DetectKeys

LEMMA InitKeys == Init => KeyInv
<1> SUFFICES ASSUME Init PROVE KeyInv
  OBVIOUS
<1>1. \A k \in Keys : lastObserved[k] = 0 /\ now = 1
  BY DEF Init
<1>2. ASSUME NEW s \in Shards, NEW k \in Keys
      PROVE  ~Tracked(tracker[s], k)
  <2>1. tracker[s] = newHotKeyTracker
    BY DEF Init
  <2>2. newHotKeyTracker.index = <<>> /\ DOMAIN <<>> = {}
    BY DEF newHotKeyTracker
  <2> QED
    BY <2>1, <2>2 DEF Tracked, Indexed
<1>3. \A k \in Keys : lastObserved[k] <= now
  BY <1>1
<1> QED
  BY <1>2, <1>3, Zenon DEF KeyInv

LEMMA KeysHold == Spec => [](Types /\ Calls /\ KeyInv)
<1>1. Init => KeyInv
  BY InitKeys
<1>2. (Types /\ Calls) /\ KeyInv /\ [Next]_vars => KeyInv'
  BY NextKeys
<1> QED
  BY <1>1, <1>2, CallsHold, PTL DEF Spec

\* What the tracker counts in flight for a key are jobs of that key that started and have not ended, or that
\* a cancelled worker dropped, whatever was evicted, expired or recorded late in between.
THEOREM InflightIsJustified == Spec => []InflightJustified
<1>1. ASSUME KeyInv
      PROVE  InflightJustified
  <2>1. ASSUME NEW k \in Keys, Tracked(tracker[ShardOf[k]], k)
        PROVE  EntryOf(tracker[ShardOf[k]], k).inflight <= Cardinality(JobsOf(k, {"started", "running", "dropped"}))
    <3>1. Backed(EntryOf(tracker[ShardOf[k]], k), k)
      BY <1>1, <2>1, Sorts DEF KeyInv
    <3>2. InFlight(k) = JobsOf(k, {"started", "running", "dropped"})
      BY DEF InFlight, JobsOf, Flight
    <3> QED
      BY <3>1, <3>2, Zenon DEF Backed
  <2> QED
    BY <2>1, Zenon DEF InflightJustified
<1>2. KeyInv => InflightJustified
  BY <1>1
<1> QED
  BY <1>2, KeysHold, PTL

\* A job that is dequeued before the tracker hears of its enqueue (Scheduler.Enqueue) leaves the count of
\* queued jobs of its key too high by one, and nothing else ever does.
THEOREM QueuedDriftIsBounded == Spec => []QueuedDriftBounded
<1>1. ASSUME KeyInv
      PROVE  QueuedDriftBounded
  <2>1. ASSUME NEW k \in Keys, Tracked(tracker[ShardOf[k]], k), NEW waiting, NEW early,
               waiting = {r \in JobsOf(k, {"queued", "batch"}) : ~EnqueueUnobserved(r)},
               early = {r \in JobsOf(k, {"started", "running", "done", "dropped"}) : job[r].early /\ ~EnqueueUnobserved(r)}
        PROVE  EntryOf(tracker[ShardOf[k]], k).queued <= Cardinality(waiting) + Cardinality(early)
    <3>1. Backed(EntryOf(tracker[ShardOf[k]], k), k)
      BY <1>1, <2>1, Sorts DEF KeyInv
    <3>2. EntryOf(tracker[ShardOf[k]], k).queued <= Cardinality(Queued(k))
      BY <3>1, Zenon DEF Backed
    <3>3. Queued(k) = waiting \cup early /\ waiting \cap early = {} /\ waiting \subseteq Reqs /\ early \subseteq Reqs
      BY <2>1 DEF Queued, Counted, Begun, JobsOf
    <3>4. IsFiniteSet(waiting) /\ IsFiniteSet(early)
      BY <3>3, AdmissionAssumption, FS_Subset
    <3>5. Cardinality(Queued(k)) = Cardinality(waiting) + Cardinality(early) - Cardinality(waiting \cap early)
      BY <3>3, <3>4, FS_Union
    <3>6. Cardinality(waiting \cap early) = 0
      BY <3>3, FS_EmptySet
    <3>7. Cardinality(waiting) \in Nat /\ Cardinality(early) \in Nat
      BY <3>4, FS_CardinalityType
    <3>8. Cardinality(Queued(k)) = Cardinality(waiting) + Cardinality(early)
      BY <3>5, <3>6, <3>7
    <3> QED
      BY <3>2, <3>8
  <2> QED
    BY <2>1 DEF QueuedDriftBounded
<1>2. KeyInv => QueuedDriftBounded
  BY <1>1
<1> QED
  BY <1>2, KeysHold, PTL

\* Only per-key admission gives one of its reasons, for the submission it was asked about.
LEMMA Sentenced ==
  ASSUME Types, [Next]_vars, NEW r \in Reqs, outcome'[r] # outcome[r], outcome'[r] \in Reasons
  PROVE  \E c \in Callers : \E v, u :
            /\ CheckPerKeyAdmission(c) /\ r = Req(c) /\ pc[c] = "perkey" /\ Busy(c)
            /\ Decided(tracker[Shard(r)], KeyOf[r], v, u) /\ v.action # "allow" /\ v.reason = outcome'[r]
<1>0. outcome \in [Reqs -> Outcomes]
  BY DEF Types, CallTypes
<1>1. ASSUME NEW q, NEW x \in {"overload", "admission", "stopped", "full", "accepted"}, Tell(q, x)
      PROVE  FALSE
  <2>1. outcome'[r] = x \/ outcome'[r] = outcome[r]
    BY <1>0, <1>1 DEF Tell
  <2> QED
    BY <2>1 DEF Reasons
<1>2. PICK c \in Callers : CallerSteps(c)
  <2>1. ASSUME NEW q \in Reqs, WorkerSteps(q)
        PROVE  outcome' = outcome
    BY <2>1 DEF WorkerSteps, ObserveStart, RunJob, JobDone, AbandonJob, WorkerFrame
  <2>2. ASSUME NEW s \in Shards, DetectHotKeys(s)
        PROVE  outcome' = outcome
    BY <2>2 DEF DetectHotKeys, EnvFrame
  <2>3. ASSUME NEW s \in Shards, NEW l \in Lanes, PopN(s, l)
        PROVE  outcome' = outcome
    BY <2>3 DEF PopN, WorkerFrame
  <2>4. Environment => outcome' = outcome
    BY EnvironmentFrame
  <2>5. Watching => outcome' = outcome
    BY DEF Watching, SnapshotBegin, SnapshotRead
  <2>6. UNCHANGED vars => outcome' = outcome
    BY DEF vars
  <2> QED
    BY <2>1, <2>2, <2>3, <2>4, <2>5, <2>6, NextCases
<1>3. CheckPerKeyAdmission(c)
  <2>1. CallerKinds(c)
    BY <1>2, CallerCases
  <2>2. ASSUME NEW w \in {"overload", "admission"}, NEW N, Refused(c, w, N)
        PROVE  FALSE
    BY <1>1, <2>2 DEF Refused
  <2>3. ASSUME NEW from, NEW to, Passed(c, from, to)
        PROVE  FALSE
    BY <2>3 DEF Passed
  <2>4. ~RecordHotKeyReject(c)
    BY DEF RecordHotKeyReject
  <2>5. ~EnqueueStopped(c)
    BY <1>1 DEF EnqueueStopped
  <2>6. ~EnqueueStarted(c)
    BY DEF EnqueueStarted
  <2>7. ~EnqueueFull(c)
    BY <1>1 DEF EnqueueFull
  <2>8. ~EnqueuePushed(c)
    BY DEF EnqueuePushed
  <2>9. ~EnqueueEnd(c)
    BY <1>1 DEF EnqueueEnd
  <2>10. /\ ~\E n \in {"overloadShed", "overloadDegrade", "overloadReject"} : Refused(c, "overload", {"rejected", "pressureRejected", n})
         /\ ~Refused(c, "admission", {"rejected", "pressureRejected"})
    BY <2>2
  <2> QED
    BY <2>1, <2>3, <2>4, <2>5, <2>6, <2>7, <2>8, <2>9, <2>10, Zenon DEF CallerKinds
<1>4. PICK v, u : PerKeyStep(c, v, u) /\ Decided(tracker[Shard(Req(c))], KeyOf[Req(c)], v, u)
  BY <1>3, PerKeyCases
<1>5. Busy(c) /\ pc[c] = "perkey" /\ v.action # "allow" /\ Tell(Req(c), v.reason)
  BY <1>4 DEF PerKeyStep
<1>6. r = Req(c) /\ outcome'[r] = v.reason
  BY <1>0, <1>5 DEF Tell
<1> QED
  BY <1>3, <1>4, <1>5, <1>6, Zenon

\* Per-key admission refuses a submission only if its key was heard of within the detection window
\* (expireStaleEntriesLocked), whatever cooldown and recovery window an earlier refusal had armed.
THEOREM QuietKeysAreAdmitted == Spec => QuietKeyAdmitted
<1>1. ASSUME Types, Calls, KeyInv, [Next]_vars, NEW r \in Reqs, outcome[r] \notin Reasons, outcome'[r] \in Reasons
      PROVE  now - lastObserved[KeyOf[r]] <= HotKeyConfig.window
  <2> DEFINE k == KeyOf[r]
             t == tracker[Shard(r)]
  <2>1. PICK v, u : Decided(t, k, v, u) /\ v.action # "allow"
    BY <1>1, Sentenced
  <2>2. Tracked(t, k) /\ ~hotKeyEntryStale(EntryOf(t, k), now)
    BY <2>1, Zenon DEF Decided
  <2>3. PICK o : o = EntryOf(t, k)
    OBVIOUS
  <2>4. o.key = k /\ o.seen \in Nat /\ 0 < o.seen /\ o.seen <= lastObserved[k]
    BY <1>1, <2>2, <2>3, OldCounts
  <2>5. k \in Keys /\ now \in Nat /\ lastObserved[k] \in Nat /\ k # NoKey
    BY <1>1, At, HotKeysAssumption DEF Types, StatTypes
  <2>6. HotKeyConfig.window \in Int /\ HotKeyConfig.window > 0
    <3>1. enabled
      BY <1>1, <2>2, At DEF Live
    <3> QED
      BY <3>1, AdmissionAssumption DEF enabled, ValidateHotKeyConfig
  <2>7. now - o.seen <= HotKeyConfig.window
    BY <2>2, <2>3, <2>4, <2>5, <2>6 DEF hotKeyEntryStale
  <2> QED
    BY <2>4, <2>5, <2>6, <2>7
<1>2. (Types /\ Calls /\ KeyInv) /\ [Next]_vars =>
        [\A r \in Reqs : outcome[r] \notin Reasons /\ outcome'[r] \in Reasons =>
            now - lastObserved[KeyOf[r]] <= HotKeyConfig.window]_vars
  BY <1>1
<1> QED
  BY <1>2, KeysHold, PTL DEF Spec, QuietKeyAdmitted

\* What a caller does about its submission is never undone.
LEMMA CallerActs ==
  ASSUME Types, Calls, NEW c \in Callers, CallerSteps(c)
  PROVE  \E r \in Reqs :
            /\ Acts(r)
            /\ outcome[r] # "pending" => outcome'[r] = outcome[r]
            /\ job[r].st # "none" => job'[r].st = job[r].st
            /\ Present(r) => Present(r)'
<1>0. CallerKinds(c)
  BY CallerCases
<1>1. Busy(c)
  <2>1. \A w, N : Refused(c, w, N) => Busy(c)
    BY Zenon DEF Refused
  <2>2. \A from, to : Passed(c, from, to) => Busy(c)
    BY Zenon DEF Passed
  <2> QED
    BY <1>0, <2>1, <2>2, Zenon DEF CallerKinds, CheckPerKeyAdmission, RecordHotKeyReject, EnqueueStopped, EnqueueStarted, EnqueueFull,
       EnqueuePushed, EnqueueEnd
<1>2. PICK r \in Reqs : r = Req(c)
  BY <1>1, BusyReq
<1>3. Here(c, r)
  BY <1>1, <1>2, AtHand
<1>4. outcome \in [Reqs -> Outcomes] /\ job \in [Reqs -> Jobs] /\ r \in Reqs
  BY DEF Types, CallTypes, JobTypes
<1> DEFINE Kept == /\ Acts(r)
                   /\ outcome[r] # "pending" => outcome'[r] = outcome[r]
                   /\ job[r].st # "none" => job'[r].st = job[r].st
                   /\ Present(r) => Present(r)'
<1>5. ASSUME pc[c] \in {"overload", "admission", "perkey", "enqueue"}, NEW label \in Labels, Moves(c, label), job' = job,
             outcome' = outcome \/ \E w : Tell(r, w)
      PROVE  Kept
  <2>1. Untouched(r)
    BY <1>3, <1>5 DEF Here
  <2>2. \A q \in Reqs \ {r} : job'[q] = job[q] /\ outcome'[q] = outcome[q]
    BY <1>4, <1>5 DEF Tell
  <2>3. Acts(r) /\ ~Pushing(r)
    BY <1>2, <1>5, <2>2, MovesActs
  <2> QED
    BY <1>5, <2>1, <2>3 DEF Untouched, Present
<1>6. ASSUME NEW w \in {"overload", "admission"}, NEW N, Refused(c, w, N)
      PROVE  Kept
  <2>1. Moves(c, "reject") /\ pc[c] \in {"overload", "admission"} /\ Tell(r, w) /\ job' = job
    BY <1>2, <1>6 DEF Refused, Moves, CallerFrame
  <2> QED
    BY <1>5, <2>1 DEF Labels
<1>7. ASSUME NEW from \in {"overload", "admission"}, NEW to \in {"admission", "perkey"}, Passed(c, from, to)
      PROVE  Kept
  <2>1. Moves(c, to) /\ pc[c] \in {"overload", "admission"} /\ outcome' = outcome /\ job' = job
    BY <1>7 DEF Passed, Moves, CallerFrame
  <2> QED
    BY <1>5, <2>1 DEF Labels
<1>8. ASSUME CheckPerKeyAdmission(c) PROVE Kept
  <2>1. PICK v, u : PerKeyStep(c, v, u)
    BY <1>8, PerKeyCases
  <2>2. /\ pc[c] = "perkey" /\ job' = job /\ (outcome' = outcome \/ Tell(r, v.reason))
        /\ Moves(c, "enqueue") \/ Moves(c, "reject")
    BY <1>2, <2>1, Zenon DEF PerKeyStep, Moves, CallerFrame
  <2> QED
    BY <1>5, <2>2 DEF Labels
<1>9. ASSUME RecordHotKeyReject(c) PROVE Kept
  <2>1. Moves(c, "overload") /\ pc[c] = "reject" /\ outcome' = outcome /\ job' = job
    BY <1>9 DEF RecordHotKeyReject, Moves, CallerFrame
  <2>2. Acts(r) /\ ~Pushing(r)
    BY <1>2, <2>1, MovesActs DEF Labels
  <2> QED
    BY <2>1, <2>2 DEF Present
<1>10. ASSUME EnqueueStopped(c) PROVE Kept
  <2>1. Moves(c, "overload") /\ pc[c] = "enqueue" /\ Tell(r, "stopped") /\ job' = job
    BY <1>2, <1>10 DEF EnqueueStopped, Moves, CallerFrame
  <2> QED
    BY <1>5, <2>1 DEF Labels
<1>11. ASSUME EnqueueStarted(c) PROVE Kept
  <2>1. Moves(c, "push") /\ pc[c] = "enqueue" /\ outcome' = outcome /\ job' = job
    BY <1>11 DEF EnqueueStarted, Moves, CallerFrame
  <2> QED
    BY <1>5, <2>1 DEF Labels
<1>12. ASSUME EnqueueFull(c) PROVE Kept
  <2>1. Moves(c, "overload") /\ pc[c] = "push" /\ Tell(r, "full") /\ job' = job
    BY <1>2, <1>12 DEF EnqueueFull, Moves, CallerFrame
  <2>2. outcome'[r] = "full" /\ \A q \in Reqs \ {r} : job'[q] = job[q] /\ outcome'[q] = outcome[q]
    BY <1>4, <2>1 DEF Tell
  <2>3. Acts(r) /\ Untouched(r)
    BY <1>2, <1>3, <2>1, <2>2, MovesActs DEF Labels, Here
  <2> QED
    BY <2>1, <2>2, <2>3 DEF Present, Untouched
<1>13. ASSUME EnqueuePushed(c) PROVE Kept
  <2>1. Moves(c, "observe") /\ pc[c] = "push" /\ outcome' = outcome /\ job' = [job EXCEPT ![r].st = "queued", ![r].acceptedAt = now]
    BY <1>2, <1>13 DEF EnqueuePushed, Moves, CallerFrame
  <2>2. now \in Nat
    BY At
  <2>3. job'[r].st = "queued" /\ \A q \in Reqs \ {r} : job'[q] = job[q]
    BY <1>4, <2>1, <2>2, JobQueued, Zenon
  <2>4. Acts(r) /\ Untouched(r)
    BY <1>2, <1>3, <2>1, <2>3, MovesActs DEF Labels, Here
  <2> QED
    BY <2>1, <2>3, <2>4 DEF Present, Untouched
<1>14. ASSUME EnqueueEnd(c) PROVE Kept
  <2>1. Moves(c, "overload") /\ pc[c] = "observe" /\ Tell(r, "accepted") /\ job' = job
    BY <1>2, <1>14, EnqueueEndCases DEF Moves, CallerFrame
  <2>2. \A q \in Reqs \ {r} : job'[q] = job[q] /\ outcome'[q] = outcome[q]
    BY <1>4, <2>1 DEF Tell
  <2>3. Acts(r) /\ outcome[r] = "pending" /\ job[r].st # "none"
    BY <1>2, <1>3, <2>1, <2>2, MovesActs DEF Labels, Here
  <2> QED
    BY <2>1, <2>3 DEF Present
<1>15. /\ (\E n \in {"overloadShed", "overloadDegrade", "overloadReject"} : Refused(c, "overload", {"rejected", "pressureRejected", n}))
            => Kept
       /\ Refused(c, "admission", {"rejected", "pressureRejected"}) => Kept
  BY <1>6
<1>16. Kept
  <2> HIDE DEF Kept
  <2> QED
    BY <1>0, <1>7, <1>8, <1>9, <1>10, <1>11, <1>12, <1>13, <1>14, <1>15, Zenon DEF CallerKinds
<1> QED
  BY <1>16

\* What was told, was enqueued or has begun stays so.
LEMMA Lasting ==
  ASSUME Types, Calls, [Next]_vars, NEW q \in Reqs
  PROVE  /\ outcome[q] # "pending" => outcome'[q] = outcome[q]
         /\ job[q].st # "none" => job'[q].st # "none"
         /\ job[q].st \in Begun => job'[q].st \in Begun
         /\ Present(q) => Present(q)'
<1> DEFINE Kept == /\ outcome[q] # "pending" => outcome'[q] = outcome[q]
                   /\ job[q].st # "none" => job'[q].st # "none"
                   /\ job[q].st \in Begun => job'[q].st \in Begun
                   /\ Present(q) => Present(q)'
<1>1. ASSUME NEW c \in Callers, CallerSteps(c)
      PROVE  Kept
  <2>1. PICK r \in Reqs : /\ Acts(r)
                          /\ outcome[r] # "pending" => outcome'[r] = outcome[r]
                          /\ job[r].st # "none" => job'[r].st = job[r].st
                          /\ Present(r) => Present(r)'
    BY <1>1, CallerActs
  <2>2. CASE q = r
    BY <2>1, <2>2 DEF Begun
  <2>3. CASE q # r
    BY <2>1, <2>3 DEF Acts, Present
  <2> QED
    BY <2>2, <2>3
<1>2. ASSUME UNCHANGED <<load, pc, pos, outcome>>, NEW r \in Reqs, \A x \in Reqs \ {r} : job'[x] = job[x],
             job'[r].st # "none", job[r].st \in Begun => job'[r].st \in Begun
      PROVE  Kept
  <2>1. Acts(r) /\ (Pushing(r)' <=> Pushing(r))
    BY <1>2, WorkActs
  <2>2. CASE q = r
    BY <1>2, <2>1, <2>2 DEF Present
  <2>3. CASE q # r
    BY <1>2, <2>1, <2>3 DEF Acts, Present
  <2> QED
    BY <2>2, <2>3
<1>3. ASSUME NEW r \in Reqs, WorkerSteps(r)
      PROVE  Kept
  <2>1. /\ UNCHANGED <<load, pc, pos, outcome>> /\ \A x \in Reqs \ {r} : job'[x] = job[x]
        /\ job'[r].st \in {"started", "running", "dropped", "done"}
    BY <1>3, WorkerCalls
  <2> QED
    BY <1>2, <2>1 DEF Begun
<1>4. ASSUME NEW s \in Shards, NEW l \in Lanes, PopN(s, l)
      PROVE  Kept
  <2>1. PICK r : r = Head(lanes[s][l])
    OBVIOUS
  <2>2. /\ r \in Reqs /\ job[r].st = "queued" /\ job'[r].st = "batch"
        /\ \A x \in Reqs \ {r} : job'[x] = job[x]
    BY <1>4, <2>1, PopCalls
  <2>3. UNCHANGED <<load, pc, pos, outcome>>
    BY <1>4 DEF PopN, WorkerFrame
  <2> QED
    BY <1>2, <2>2, <2>3 DEF Begun
<1>5. ASSUME UNCHANGED <<load, pc, pos, outcome, job>>
      PROVE  Kept
  BY <1>5 DEF Present, Pushing, Busy, Req, Script
<1>6. ASSUME NEW s \in Shards, DetectHotKeys(s)
      PROVE  Kept
  BY <1>5, <1>6 DEF DetectHotKeys, EnvFrame
<1>7. ASSUME Environment PROVE Kept
  BY <1>5, <1>7, EnvironmentFrame
<1>8. ASSUME Watching PROVE Kept
  BY <1>5, <1>8 DEF Watching, SnapshotBegin, SnapshotRead
<1>9. ASSUME UNCHANGED vars PROVE Kept
  BY <1>5, <1>9 DEF vars
<1> HIDE DEF Kept
<1>10. Kept
  BY <1>1, <1>3, <1>4, <1>6, <1>7, <1>8, <1>9, NextCases
<1> QED
  BY <1>10 DEF Kept

\* What a reason given to r rests on: the submissions of the same key it names.
Enqueued(r) == {q \in Others(r) : job[q].st # "none"}
Started(r) == {q \in Others(r) : job[q].st \in Begun}
ReasonInv(r) ==
    /\ outcome[r] = "max_queued_per_key" => Cardinality(Enqueued(r)) >= PerKeyConfig.maxQueued
    /\ outcome[r] = "max_inflight_per_key" => Cardinality(Started(r)) >= PerKeyConfig.maxInflight
    /\ outcome[r] = "cooldown_active" => \E q \in Others(r) : outcome[q] \in Reasons
    /\ outcome[r] \in Reasons => \E q \in Others(r) : Present(q)
Sentences == \A r \in Reqs : ReasonInv(r)

\* The sets only grow.
LEMMA Grow ==
  ASSUME Types, Calls, [Next]_vars, NEW r \in Reqs
  PROVE  /\ Enqueued(r) \subseteq Enqueued(r)' /\ Started(r) \subseteq Started(r)'
         /\ Cardinality(Enqueued(r)) <= Cardinality(Enqueued(r)') /\ Cardinality(Started(r)) <= Cardinality(Started(r)')
         /\ {Cardinality(Enqueued(r)), Cardinality(Enqueued(r)'), Cardinality(Started(r)), Cardinality(Started(r)')} \subseteq Nat
         /\ (\E q \in Others(r) : outcome[q] \in Reasons) => \E q \in Others(r) : outcome'[q] \in Reasons
         /\ (\E q \in Others(r) : Present(q)) => \E q \in Others(r) : Present(q)'
<1>1. Others(r) \subseteq Reqs /\ IsFiniteSet(Others(r))
  BY AdmissionAssumption, FS_Subset DEF Others
<1>2. Enqueued(r) \subseteq Enqueued(r)' /\ Started(r) \subseteq Started(r)'
  BY <1>1, Lasting DEF Enqueued, Started, Others
<1>3. Enqueued(r)' \subseteq Others(r) /\ Started(r)' \subseteq Others(r)
  BY DEF Enqueued, Started, Others
<1>4. IsFiniteSet(Enqueued(r)') /\ IsFiniteSet(Started(r)')
  BY <1>1, <1>3, FS_Subset
<1>5. /\ IsFiniteSet(Enqueued(r)) /\ IsFiniteSet(Started(r))
      /\ Cardinality(Enqueued(r)) <= Cardinality(Enqueued(r)') /\ Cardinality(Started(r)) <= Cardinality(Started(r)')
  BY <1>2, <1>4, FS_Subset
<1>6. /\ Cardinality(Enqueued(r)) \in Nat /\ Cardinality(Enqueued(r)') \in Nat
      /\ Cardinality(Started(r)) \in Nat /\ Cardinality(Started(r)') \in Nat
  BY <1>4, <1>5, FS_CardinalityType
<1>7. ASSUME NEW q \in Others(r), outcome[q] \in Reasons
      PROVE  outcome'[q] \in Reasons
  <2>1. q \in Reqs /\ outcome[q] # "pending"
    BY <1>1, <1>7 DEF Reasons
  <2> QED
    BY <1>7, <2>1, Lasting
<1>8. \A q \in Others(r) : Present(q) => Present(q)'
  BY <1>1, Lasting
<1> QED
  BY <1>2, <1>5, <1>6, <1>7, <1>8

\* At the moment of the refusal the tracker's word is backed.
LEMMA Refusal ==
  ASSUME Types, Calls, KeyInv, [Next]_vars, NEW r \in Reqs, outcome'[r] # outcome[r], outcome'[r] \in Reasons
  PROVE  /\ outcome'[r] = "max_queued_per_key" => Cardinality(Enqueued(r)) >= PerKeyConfig.maxQueued
         /\ outcome'[r] = "max_inflight_per_key" => Cardinality(Started(r)) >= PerKeyConfig.maxInflight
         /\ outcome'[r] = "cooldown_active" => \E q \in Others(r) : outcome[q] \in Reasons
         /\ \E q \in Others(r) : Present(q)
<1> DEFINE k == KeyOf[r]
           t == tracker[Shard(r)]
<1>0. PICK c \in Callers : \E v, u :
         /\ CheckPerKeyAdmission(c) /\ r = Req(c) /\ pc[c] = "perkey" /\ Busy(c)
         /\ Decided(t, k, v, u) /\ v.action # "allow" /\ v.reason = outcome'[r]
  BY Sentenced
<1>1. PICK v, u :
         /\ CheckPerKeyAdmission(c) /\ r = Req(c) /\ pc[c] = "perkey" /\ Busy(c)
         /\ Decided(t, k, v, u) /\ v.action # "allow" /\ v.reason = outcome'[r]
  BY <1>0
<1>2. PICK o : o = EntryOf(t, k)
  OBVIOUS
<1>3. Tracked(t, k) /\ Justified(v, o, PerKeyConfig)
  BY <1>1, <1>2, Zenon DEF Decided
<1>4. /\ Backed(o, k) /\ o.queued \in Nat /\ o.inflight \in Nat
      /\ o.queued <= Cardinality(Queued(k)) /\ o.inflight <= Cardinality(InFlight(k))
  BY <1>2, <1>3, OldCounts
<1>5. Untouched(r)
  BY <1>1, AtHand DEF Here
<1>6. ~Pushing(r)
  <2>1. PICK w, x : PerKeyStep(c, w, x)
    BY <1>1, PerKeyCases
  <2>2. Moves(c, "enqueue") \/ Moves(c, "reject")
    BY <2>1, Zenon DEF PerKeyStep, Moves, CallerFrame
  <2>3. job' = job /\ (outcome' = outcome \/ Tell(r, w.reason))
    BY <1>1, <2>1, Zenon DEF PerKeyStep
  <2>4. \A q \in Reqs \ {r} : job'[q] = job[q] /\ outcome'[q] = outcome[q]
    BY <2>3 DEF Tell, Types, CallTypes
  <2> QED
    BY <1>1, <2>2, <2>4, MovesActs DEF Labels
<1>7. Queued(k) \subseteq Enqueued(r) /\ InFlight(k) \subseteq Started(r)
  BY <1>5 DEF Queued, Counted, InFlight, Enqueued, Started, Others, Untouched, Begun, Flight
<1>8. /\ Cardinality(Queued(k)) <= Cardinality(Enqueued(r)) /\ Cardinality(InFlight(k)) <= Cardinality(Started(r))
      /\ Cardinality(Enqueued(r)) \in Nat /\ Cardinality(Started(r)) \in Nat
      /\ Cardinality(Queued(k)) \in Nat /\ Cardinality(InFlight(k)) \in Nat
  <2>1. Enqueued(r) \subseteq Reqs /\ Started(r) \subseteq Reqs
    BY DEF Enqueued, Started, Others
  <2>2. IsFiniteSet(Enqueued(r)) /\ IsFiniteSet(Started(r))
    BY <2>1, AdmissionAssumption, FS_Subset
  <2> QED
    BY <1>7, <2>2, FS_Subset, FS_CardinalityType
<1>9. /\ v.reason = "max_queued_per_key" => o.queued >= PerKeyConfig.maxQueued
      /\ v.reason = "max_inflight_per_key" => o.inflight >= PerKeyConfig.maxInflight
      /\ v.reason = "cooldown_active" => o.action \notin {"allow", ""}
  BY <1>3, Zenon DEF Justified
<1>10. PerKeyConfig.maxQueued \in Int /\ PerKeyConfig.maxInflight \in Int
  BY PerKeyTyped
<1>11. ASSUME o.action \notin {"allow", ""}
       PROVE  \E q \in Others(r) : outcome[q] \in Reasons
  <2>1. PICK q \in Reqs : KeyOf[q] = k /\ outcome[q] \in Reasons
    BY <1>4, <1>11, Zenon DEF Backed
  <2>2. outcome[r] \notin Reasons
    BY <1>5 DEF Untouched, Reasons
  <2>3. q \in Others(r)
    BY <2>1, <2>2 DEF Others
  <2> QED
    BY <2>1, <2>3
<1>12. \E q \in Others(r) : Present(q)
  <2>1. PICK q \in Reqs : KeyOf[q] = k /\ Present(q)
    BY <1>4, Zenon DEF Backed
  <2>2. ~Present(r)
    BY <1>5, <1>6 DEF Untouched, Present
  <2>3. q \in Others(r)
    BY <2>1, <2>2 DEF Others
  <2> QED
    BY <2>1, <2>3
<1>13. v.reason = "max_queued_per_key" => Cardinality(Enqueued(r)) >= PerKeyConfig.maxQueued
  <2> HIDE DEF k, t
  <2>1. o.queued >= PerKeyConfig.maxQueued => Cardinality(Enqueued(r)) >= PerKeyConfig.maxQueued
    BY <1>4, <1>8, <1>10
  <2> QED
    BY <1>9, <2>1, Zenon
<1>14. v.reason = "max_inflight_per_key" => Cardinality(Started(r)) >= PerKeyConfig.maxInflight
  <2> HIDE DEF k, t
  <2>1. o.inflight >= PerKeyConfig.maxInflight => Cardinality(Started(r)) >= PerKeyConfig.maxInflight
    BY <1>4, <1>8, <1>10
  <2> QED
    BY <1>9, <2>1, Zenon
<1> QED
  BY <1>1, <1>9, <1>11, <1>12, <1>13, <1>14, Zenon

LEMMA NextSentences ==
  ASSUME Types, Calls, KeyInv, Sentences, [Next]_vars
  PROVE  Sentences'
<1>1. ASSUME NEW r \in Reqs
      PROVE  ReasonInv(r)'
  <2>1. ReasonInv(r)
    BY DEF Sentences
  <2>2. /\ PerKeyConfig.maxQueued \in Int /\ PerKeyConfig.maxInflight \in Int
    BY PerKeyTyped
  <2>3. /\ Cardinality(Enqueued(r)) >= PerKeyConfig.maxQueued => Cardinality(Enqueued(r)') >= PerKeyConfig.maxQueued
        /\ Cardinality(Started(r)) >= PerKeyConfig.maxInflight => Cardinality(Started(r)') >= PerKeyConfig.maxInflight
        /\ (\E q \in Others(r) : outcome[q] \in Reasons) => \E q \in Others(r) : outcome'[q] \in Reasons
        /\ (\E q \in Others(r) : Present(q)) => \E q \in Others(r) : Present(q)'
    BY <2>2, Grow
  <2>4. \/ outcome'[r] = outcome[r]
        \/ /\ outcome'[r] = "max_queued_per_key" => Cardinality(Enqueued(r)) >= PerKeyConfig.maxQueued
           /\ outcome'[r] = "max_inflight_per_key" => Cardinality(Started(r)) >= PerKeyConfig.maxInflight
           /\ outcome'[r] = "cooldown_active" => \E q \in Others(r) : outcome[q] \in Reasons
           /\ outcome'[r] \in Reasons => \E q \in Others(r) : Present(q)
    <3>1. {"max_queued_per_key", "max_inflight_per_key", "cooldown_active"} \subseteq Reasons
      BY DEF Reasons
    <3>2. CASE outcome'[r] \in Reasons
      BY <3>2, Refusal, Zenon
    <3>3. CASE outcome'[r] \notin Reasons
      BY <3>1, <3>3, Zenon
    <3> QED
      BY <3>2, <3>3
  <2> QED
    BY <2>1, <2>3, <2>4, Zenon DEF ReasonInv, Others
<1> QED
  BY <1>1 DEF Sentences

\* A key listed as mitigated is tracked, in an entry whose last decision was not to allow.
LEMMA Listed ==
  ASSUME NEW t, Good(t), NEW n, NEW k \in perKeyAdmissionSnapshots(t, n)
  PROVE  k \in Keys /\ Tracked(t, k) /\ EntryOf(t, k).action \notin {"allow", ""}
<1> DEFINE active == {i \in InUse(t) : t.entries[i].action \notin {"allow", ""}}
<1>1. perKeyAdmissionSnapshots(t, n) = {t.entries[i].key : i \in {j \in active : Cardinality({x \in active : x < j}) < n}}
  BY Zenon DEF perKeyAdmissionSnapshots
<1>2. PICK i \in active : k = t.entries[i].key
  <2> HIDE DEF active
  <2> QED
    BY <1>1, Zenon
<1>3. i \in InUse(t) /\ t.entries[i].action \notin {"allow", ""}
  BY Zenon
<1> HIDE DEF active
<1>4. Indexed(t, k) /\ t.index[k] = i
  BY <1>2, <1>3, Zenon DEF Good, Exact
<1>5. Tracked(t, k) /\ EntryOf(t, k) = t.entries[i]
  BY <1>2, <1>4, Zenon DEF Tracked, EntryOf
<1>6. k \in Keys
  BY <1>4, TrackerParts, Zenon DEF Good, Indexed
<1> QED
  BY <1>3, <1>5, <1>6, Zenon

\* Per-key admission punishes a key for its own history only, also when the slot it is tracked in belonged
\* to another key before: every refusal is backed by submissions of its key, and so is every key that
\* perKeyAdmissionSnapshots lists as mitigated.
THEOREM MitigationStaysIsolated == Spec => []MitigationIsolated
<1>1. Init => Sentences
  BY DEF Init, Sentences, ReasonInv, Reasons
<1>2. (Types /\ Calls /\ KeyInv) /\ Sentences /\ [Next]_vars => Sentences'
  BY NextSentences
<1>3. Spec => []Sentences
  BY <1>1, <1>2, KeysHold, PTL DEF Spec
<1>4. ASSUME Types, KeyInv, NEW s \in Shards, NEW k \in perKeyAdmissionSnapshots(tracker[s], HotKeyConfig.maxTracked)
      PROVE  \E r \in Reqs : KeyOf[r] = k /\ outcome[r] \in Reasons
  <2>1. Good(tracker[s])
    BY <1>4 DEF Types, TrackerTypes
  <2>2. /\ k \in Keys /\ Tracked(tracker[s], k)
        /\ EntryOf(tracker[s], k).action \notin {"allow", ""}
    BY <1>4, <2>1, Listed, Zenon
  <2>3. Backed(EntryOf(tracker[s], k), k)
    BY <1>4, <2>2, Zenon DEF KeyInv
  <2> QED
    BY <2>2, <2>3, Zenon DEF Backed
<1>5. ASSUME Types, KeyInv, Sentences
      PROVE  MitigationIsolated
  <2>1. ASSUME NEW r \in Reqs
        PROVE  /\ outcome[r] = "max_queued_per_key" => Cardinality(Enqueued(r)) >= PerKeyConfig.maxQueued
               /\ outcome[r] = "max_inflight_per_key" => Cardinality(Started(r)) >= PerKeyConfig.maxInflight
               /\ outcome[r] = "cooldown_active" => \E q \in Others(r) : outcome[q] \in Reasons
               /\ outcome[r] \in Reasons => \E q \in Others(r) : Present(q)
    BY <1>5, Zenon DEF Sentences, ReasonInv
  <2>2. ASSUME NEW r \in Reqs
        PROVE  /\ Enqueued(r) = {q \in Others(r) : job[q].st # "none"}
               /\ Started(r) = {q \in Others(r) : job[q].st \in {"started", "running", "done", "dropped"}}
               /\ \A q \in Others(r) : Present(q) <=> (job[q].st # "none" \/ outcome[q] = "full" \/ Pushing(q))
    BY DEF Enqueued, Started, Begun, Present
  <2> QED
    BY <1>4, <1>5, <2>1, <2>2, Zenon DEF MitigationIsolated
<1>6. Types /\ Calls /\ KeyInv /\ Sentences => MitigationIsolated
  BY <1>5
<1> QED
  BY <1>3, <1>6, KeysHold, PTL

-----------------------------------------------------------------------------
(* The observers of a tracker. *)

\* An observer that skips the stale entries sees what is left once they are removed.
LEMMA SkippedIsExpired ==
  ASSUME NEW t, Good(t), NEW n
  PROVE  LET u == expireStaleEntriesLocked(t, n) IN
         /\ Good(u)
         /\ TotalsOver(u, InUse(u)) = trackerTotalsForObservationLocked(t, n)
         /\ \A x \in Keys : Tracked(u, x) <=> Tracked(t, x) /\ ~hotKeyEntryStale(EntryOf(t, x), n)
         /\ \A x \in Keys : Tracked(u, x) => u.index[x] = t.index[x] /\ EntryOf(u, x) = EntryOf(t, x)
  <1>1. PICK u : u = expireStaleEntriesLocked(t, n)
    OBVIOUS
  <1>2. PICK stale : stale = {i \in Slots : hotKeyEntryStale(t.entries[i], n)}
    OBVIOUS
  <1>3. u.entries = [i \in Slots |-> IF i \in stale THEN EmptyEntry ELSE t.entries[i]]
    BY <1>1, <1>2 DEF expireStaleEntriesLocked
  <1>4. /\ Good(u)
        /\ \A x \in Keys : Tracked(u, x) =>
              /\ Tracked(t, x) /\ u.index[x] = t.index[x] /\ EntryOf(u, x) = EntryOf(t, x)
              /\ ~hotKeyEntryStale(EntryOf(u, x), n)
    BY <1>1, Expired, Zenon
  <1>5. InUse(u) = {i \in InUse(t) : ~hotKeyEntryStale(t.entries[i], n)}
    BY <1>2, <1>3, EmptyTyped DEF InUse
  <1>6. \A i \in InUse(u) : i \in Slots /\ u.entries[i] = t.entries[i]
    BY <1>2, <1>3, EmptyTyped DEF InUse
  <1>7. TotalsOver(u, InUse(u)) = TotalsOver(t, InUse(u))
    <2>1. [i \in InUse(u) |-> u.entries[i].submitted] = [i \in InUse(u) |-> t.entries[i].submitted]
      BY <1>6
    <2>2. [i \in InUse(u) |-> u.entries[i].queued] = [i \in InUse(u) |-> t.entries[i].queued]
      BY <1>6
    <2> QED
      BY <2>1, <2>2, Zenon DEF TotalsOver
  <1>8. TotalsOver(u, InUse(u)) = trackerTotalsForObservationLocked(t, n)
    BY <1>5, <1>7, Zenon DEF trackerTotalsForObservationLocked
  <1>9. ASSUME NEW x \in Keys, Tracked(t, x), ~hotKeyEntryStale(EntryOf(t, x), n) PROVE Tracked(u, x)
    <2>1. PICK i : i = t.index[x]
      OBVIOUS
    <2>2. i \in Slots /\ t.entries[i].key = x /\ x # NoKey
      BY <1>9, <2>1, TrackedIndexed, HotKeysAssumption DEF Tracked
    <2>3. i \in InUse(u)
      BY <1>5, <1>9, <2>1, <2>2 DEF InUse, EntryOf
    <2>4. u.entries[i].key = x
      BY <1>6, <2>2, <2>3
    <2>5. Indexed(u, x) /\ u.index[x] = i
      BY <1>4, <2>3, <2>4 DEF Good, Exact
    <2> QED
      BY <2>4, <2>5 DEF Tracked
  <1>10. \A x \in Keys : Tracked(u, x) <=> Tracked(t, x) /\ ~hotKeyEntryStale(EntryOf(t, x), n)
    BY <1>4, <1>9, Zenon
  <1> QED
    BY <1>1, <1>4, <1>8, <1>10, Zenon

\* Retry suppression is told what admission would decide.
LEMMA PlannedIsEvaluated ==
  ASSUME NEW t, Good(t), NEW k \in Keys, NEW shard, NEW pressure, NEW c, NEW n
  PROVE  planPerKeyAdmission(t, k, shard, pressure, c, n) = evaluatePerKeyAdmission(t, k, shard, pressure, c, n).verdict
  <1>1. PICK u : u = expireStaleEntriesLocked(t, n)
    OBVIOUS
  <1>2. PICK a, b : a = TotalsOver(u, InUse(u)) /\ b = trackerTotalsForObservationLocked(t, n)
    OBVIOUS
  <1>3. /\ a = b /\ (Tracked(u, k) <=> Tracked(t, k) /\ ~hotKeyEntryStale(EntryOf(t, k), n))
        /\ Tracked(u, k) => EntryOf(u, k) = EntryOf(t, k)
    BY <1>1, <1>2, SkippedIsExpired, Zenon
  <1>4. PICK v, w : /\ v = Verdict(EntryOf(u, k), entryHotKeyStatus(EntryOf(u, k), shard, a), pressure, c, n)
                    /\ w = Verdict(EntryOf(t, k), entryHotKeyStatus(EntryOf(t, k), shard, b), pressure, c, n)
    OBVIOUS
  <1>5. Tracked(u, k) => v = w
    BY <1>3, <1>4, Zenon
  <1>6. PICK marked : marked = [u EXCEPT !.entries[u.index[k]] = finishPerKeyDecision(@, v, c, n)]
    OBVIOUS
  <1>7. evaluatePerKeyAdmission(t, k, shard, pressure, c, n)
          = IF ~enabled \/ ~c.enabled THEN [verdict |-> NoEntryVerdict, tracker |-> t]
            ELSE IF ~Tracked(u, k) THEN [verdict |-> NoEntryVerdict, tracker |-> u]
            ELSE [verdict |-> v, tracker |-> marked]
    BY <1>1, <1>2, <1>4, <1>6, Zenon DEF evaluatePerKeyAdmission
  <1>8. planPerKeyAdmission(t, k, shard, pressure, c, n)
          = IF ~enabled \/ ~c.enabled \/ ~(Tracked(t, k) /\ ~hotKeyEntryStale(EntryOf(t, k), n)) THEN NoEntryVerdict ELSE w
    BY <1>2, <1>4, Zenon DEF planPerKeyAdmission
  <1>9. PICK e, on : /\ e = evaluatePerKeyAdmission(t, k, shard, pressure, c, n)
                     /\ on = (enabled /\ c.enabled)
    OBVIOUS
  <1>10. CASE ~enabled \/ ~c.enabled
    <2>1. e = [verdict |-> NoEntryVerdict, tracker |-> t]
      BY <1>7, <1>9, <1>10, Zenon
    <2>2. e.verdict = NoEntryVerdict
      BY <2>1
    <2> QED
      BY <1>8, <1>9, <1>10, <2>2, Zenon
  <1>11. CASE ~(~enabled \/ ~c.enabled) /\ ~Tracked(u, k)
    <2>1. e = [verdict |-> NoEntryVerdict, tracker |-> u]
      BY <1>7, <1>9, <1>11, Zenon
    <2>2. e.verdict = NoEntryVerdict
      BY <2>1
    <2> QED
      BY <1>3, <1>8, <1>9, <1>11, <2>2, Zenon
  <1>12. CASE ~(~enabled \/ ~c.enabled) /\ Tracked(u, k)
    <2>1. e = [verdict |-> v, tracker |-> marked]
      BY <1>7, <1>9, <1>12, Zenon
    <2>2. e.verdict = v
      BY <2>1
    <2> QED
      BY <1>3, <1>5, <1>8, <1>9, <1>12, <2>2, Zenon
  <1> QED
    BY <1>10, <1>11, <1>12, Zenon

LEMMA TotalsNat ==
  ASSUME NEW t, Good(t)
  PROVE  /\ IsFiniteSet(InUse(t)) /\ InUse(t) \subseteq Slots
         /\ TotalsOver(t, InUse(t)).submitted \in Nat /\ TotalsOver(t, InUse(t)).queued \in Nat
         /\ \A i \in InUse(t) : t.entries[i].submitted <= TotalsOver(t, InUse(t)).submitted
  <1>1. t.entries \in [Slots -> Entries]
    BY TrackerParts DEF Good
  <1>2. InUse(t) \subseteq Slots
    BY DEF InUse
  <1>3. IsFiniteSet(Slots)
    <2>1. HotKeyConfig.maxTracked \in Int
      BY AdmissionAssumption
    <2> QED
      BY <2>1, FS_Interval DEF Slots
  <1>4. IsFiniteSet(InUse(t))
    BY <1>2, <1>3, FS_Subset
  <1>5. PICK f, g : /\ f = [i \in InUse(t) |-> t.entries[i].submitted] /\ g = [i \in InUse(t) |-> t.entries[i].queued]
    OBVIOUS
  <1>6. /\ DOMAIN f = InUse(t) /\ \A i \in InUse(t) : f[i] = t.entries[i].submitted /\ f[i] \in Nat
        /\ DOMAIN g = InUse(t) /\ \A i \in InUse(t) : g[i] \in Nat
    BY <1>1, <1>2, <1>5 DEF Entries
  <1>7. SumFunction(f) \in Nat /\ \A i \in InUse(t) : f[i] <= SumFunction(f)
    BY <1>4, <1>6, SumNat
  <1>8. SumFunction(g) \in Nat
    BY <1>4, <1>6, SumNat
  <1>9. TotalsOver(t, InUse(t)) = [submitted |-> SumFunction(f), queued |-> SumFunction(g)]
    BY <1>5, Zenon DEF TotalsOver
  <1>10. TotalsOver(t, InUse(t)).submitted = SumFunction(f) /\ TotalsOver(t, InUse(t)).queued = SumFunction(g)
    BY <1>9
  <1> QED
    BY <1>2, <1>4, <1>6, <1>7, <1>8, <1>10, Zenon

\* The score of an entry is a ratio.
LEMMA ScoreTyped ==
  ASSUME NEW e \in Entries, NEW shard, shard.depth \in Nat, shard.wait \in Nat,
         NEW totals, totals.submitted \in Nat, totals.queued \in Nat
  PROVE  UseRatio(Ratios(e, shard, totals)) \in Ratio
  <1>1. \A n, d \in Nat : Share(n, d) \in Ratio
    BY DEF Share, Zero, Ratio
  <1>2. e.queued \in Nat /\ e.wait \in Nat /\ e.submitted \in Nat
    BY DEF Entries
  <1>3. PICK a, b : /\ a = IF shard.depth > 0 THEN shard.depth ELSE totals.queued
                    /\ b = IF totals.submitted > 0 THEN totals.submitted ELSE 1
    OBVIOUS
  <1>4. a \in Nat /\ b \in Nat
    BY <1>3
  <1>5. PICK r : r = Ratios(e, shard, totals)
    OBVIOUS
  <1>6. r.depth = Share(e.queued, a) /\ r.wait = Share(e.wait, shard.wait) /\ r.submit = Share(e.submitted, b)
    BY <1>3, <1>5 DEF Ratios
  <1>7. r.depth \in Ratio /\ r.wait \in Ratio /\ r.submit \in Ratio
    BY <1>1, <1>2, <1>4, <1>6
  <1>8. UseRatio(r) \in Ratio
    BY <1>7, LargerRatio DEF UseRatio
  <1> QED
    BY <1>5, <1>8

\* Higher scores first, equal ones in slot order: that is a strict order, and nothing scores higher than its first.
LEMMA FirstByScore ==
  ASSUME NEW S, IsFiniteSet(S), S # {}, S \subseteq Int, NEW score, \A i \in S : score[i] \in Ratio
  PROVE  \E i \in S : \A j \in S : ~(~AtLeast(score[i], score[j]) \/ (AtLeast(score[j], score[i]) /\ j < i))
  <1> DEFINE before(i, j) == ~AtLeast(score[j], score[i]) \/ (AtLeast(score[i], score[j]) /\ i < j)
  <1>1. PICK R : R = {p \in S \X S : before(p[1], p[2])}
    OBVIOUS
  <1>2. \A i, j \in S : <<i, j>> \in R <=> before(i, j)
    BY <1>1
  <1>3. \A i, j \in S : AtLeast(score[i], score[i]) /\ (AtLeast(score[i], score[j]) \/ AtLeast(score[j], score[i]))
    BY AtLeastTotal
  <1>4. \A i, j, k \in S : AtLeast(score[i], score[j]) /\ AtLeast(score[j], score[k]) => AtLeast(score[i], score[k])
    <2> TAKE i, j, k \in S
    <2> HAVE AtLeast(score[i], score[j]) /\ AtLeast(score[j], score[k])
    <2>1. score[k][1] \in Int /\ score[k][2] \in Nat \ {0}
      BY RatioParts
    <2> QED
      BY <2>1, AtLeastTransitive
  <1>5. \A i \in S : <<i, i>> \notin R
    BY <1>2, <1>3
  <1>6. \A i, j, k \in S : <<i, j>> \in R /\ <<j, k>> \in R => <<i, k>> \in R
    <2> SUFFICES ASSUME NEW i \in S, NEW j \in S, NEW k \in S, before(i, j), before(j, k) PROVE before(i, k)
      BY <1>2, Zenon
    <2>1. i < j /\ j < k => i < k
      OBVIOUS
    <2> QED
      BY <1>3, <1>4, <2>1, Zenon
  <1>7. PICK i \in S : \A j \in S : <<j, i>> \notin R
    BY <1>5, <1>6, FirstOfOrder
  <1> QED
    BY <1>2, <1>7, Zenon

\* What an entry scores in a tracker, and the entries the snapshot picks its candidates from.
Score(t, shard, i) == UseRatio(Ratios(t.entries[i], shard, TotalsOver(t, InUse(t))))
Hits(t, shard) ==
  IF TotalsOver(t, InUse(t)).submitted = 0 /\ TotalsOver(t, InUse(t)).queued = 0 /\ shard.depth = 0 THEN {}
  ELSE {i \in InUse(t) : Hit(Ratios(t.entries[i], shard, TotalsOver(t, InUse(t))))}
\* The first candidate is the entry i.
LeadBy(t, shard, found, i) ==
  /\ i \in Hits(t, shard) /\ found.top.key = t.entries[i].key
  /\ \A j \in Hits(t, shard) : AtLeast(Score(t, shard, i), Score(t, shard, j))
  /\ AtLeast(Score(t, shard, i), Percent(70)) => found.top.status = "dominant"

\* The candidates of a snapshot: the first of them scores highest.
LEMMA CandidatesLed ==
  ASSUME NEW t, Good(t), NEW shard, shard.depth \in Nat, shard.wait \in Nat
  PROVE  LET found == detectHotKeyCandidates(t, shard) IN
         /\ enabled /\ Hits(t, shard) # {} => found.listed > 0
         /\ found.listed > 0 => \E i : LeadBy(t, shard, found, i)
  <1> DEFINE totals == TotalsOver(t, InUse(t))
             score(i) == UseRatio(Ratios(t.entries[i], shard, totals))
             idle == totals.submitted = 0 /\ totals.queued = 0 /\ shard.depth = 0
             hits == IF idle THEN {} ELSE {i \in InUse(t) : Hit(Ratios(t.entries[i], shard, totals))}
             before(i, j) == ~AtLeast(score(j), score(i)) \/ (AtLeast(score(i), score(j)) /\ i < j)
             first == CHOOSE i \in hits : \A j \in hits : ~before(j, i)
             twice(f) == <<2 * f[1], f[2]>>
             dominant == \/ AtLeast(score(first), Percent(70))
                         \/ hits # {first} /\ \A j \in hits \ {first} : AtLeast(score(first), twice(score(j)))
             limit == Min({Cardinality(hits), hotKeyCandidateLimit})
             found == detectHotKeyCandidates(t, shard)
  <1>1. found = IF ~enabled \/ hits = {} THEN [listed |-> 0]
                ELSE [listed |-> limit,
                      top |-> [key |-> t.entries[first].key, status |-> IF dominant THEN "dominant" ELSE "candidate"]]
    BY Zenon DEF detectHotKeyCandidates
  <1>2. hits = Hits(t, shard) /\ \A i : score(i) = Score(t, shard, i)
    BY Zenon DEF Hits, Score
  <1>3. /\ hits \subseteq Slots /\ IsFiniteSet(hits) /\ \A i \in hits : score(i) \in Ratio
    <2>1. hits \subseteq InUse(t)
      OBVIOUS
    <2>2. /\ IsFiniteSet(InUse(t)) /\ InUse(t) \subseteq Slots /\ totals.submitted \in Nat /\ totals.queued \in Nat
      BY TotalsNat
    <2>3. t.entries \in [Slots -> Entries]
      BY TrackerParts DEF Good
    <2> HIDE DEF totals, hits
    <2>4. \A i \in hits : t.entries[i] \in Entries
      BY <2>1, <2>2, <2>3
    <2>5. \A i \in hits : score(i) \in Ratio
      BY <2>2, <2>4, ScoreTyped
    <2> QED
      BY <2>1, <2>2, <2>5, FS_Subset
  <1> HIDE DEF hits, score
  <1>4. Cardinality(hits) \in Nat /\ (hits # {} => Cardinality(hits) >= 1)
    BY <1>3, FS_CardinalityType, FS_EmptySet
  <1>5. ASSUME hits # {} PROVE first \in hits /\ \A j \in hits : AtLeast(score(first), score(j))
    <2>1. hits \subseteq Int
      BY <1>3 DEF Slots
    <2>2. PICK sc : sc = [i \in hits |-> score(i)]
      OBVIOUS
    <2>3. \A i \in hits : sc[i] = score(i) /\ sc[i] \in Ratio
      BY <1>3, <2>2
    <2>4. PICK i \in hits : \A j \in hits : ~(~AtLeast(sc[i], sc[j]) \/ (AtLeast(sc[j], sc[i]) /\ j < i))
      BY <1>3, <1>5, <2>1, <2>3, FirstByScore
    <2>5. \A j \in hits : ~before(j, i)
      BY <2>3, <2>4, Zenon
    <2> HIDE DEF before
    <2>6. first \in hits /\ \A j \in hits : ~before(j, first)
      BY <2>4, <2>5, Zenon
    <2> HIDE DEF first
    <2>7. \A j \in hits : AtLeast(score(first), score(j))
      BY <2>6, Zenon DEF before
    <2> QED
      BY <2>6, <2>7, Zenon
  <1> HIDE DEF first
  <1>6. hotKeyCandidateLimit \in Int /\ (enabled => hotKeyCandidateLimit >= 1)
    <2>1. PICK a, b : a = HotKeyConfig.maxCandidates /\ b = HotKeyConfig.maxTracked
      OBVIOUS
    <2>2. a \in Int /\ b \in Int
      BY <2>1, AdmissionAssumption
    <2>3. enabled => b >= 1
      BY <2>1, <2>2 DEF enabled
    <2>4. enabled => a >= 1
      <3> SUFFICES ASSUME enabled PROVE a >= 1
        OBVIOUS
      <3>1. HotKeyConfig.enabled
        BY DEF enabled
      <3>2. a = NormalizeHotKeyConfig(HotKeyConfig).maxCandidates
        BY <2>1, AdmissionAssumption
      <3>3. NormalizeHotKeyConfig(HotKeyConfig).maxCandidates = IF a <= 0 THEN 5 ELSE a
        BY <2>1, <3>1, AdmissionAssumption DEF NormalizeHotKeyConfig
      <3> QED
        BY <2>2, <3>2, <3>3
    <2> QED
      BY <2>1, <2>2, <2>3, <2>4, PairMin DEF hotKeyCandidateLimit
  <1>7. enabled /\ hits # {} => limit > 0
    <2>1. PICK a, b : a = Cardinality(hits) /\ b = hotKeyCandidateLimit
      OBVIOUS
    <2>2. a \in Int /\ b \in Int
      BY <1>4, <1>6, <2>1
    <2>3. limit = IF a <= b THEN a ELSE b
      BY <2>1, <2>2, PairMin
    <2> QED
      BY <1>4, <1>6, <2>1, <2>2, <2>3
  <1> HIDE DEF limit, found, dominant
  <1>8. ASSUME enabled, hits # {} PROVE found.listed > 0
    <2>1. found.listed = limit
      BY <1>1, <1>8
    <2> QED
      BY <1>7, <1>8, <2>1
  <1>9. ASSUME found.listed > 0 PROVE \E i : LeadBy(t, shard, found, i)
    <2>1. enabled /\ hits # {}
      <3> SUFFICES ASSUME ~enabled \/ hits = {} PROVE FALSE
        BY Zenon
      <3>1. found = [listed |-> 0]
        BY <1>1, Zenon
      <3>2. found.listed = 0
        BY <3>1
      <3> QED
        BY <1>9, <3>2
    <2>2. first \in hits /\ \A j \in hits : AtLeast(score(first), score(j))
      BY <1>5, <2>1, Zenon
    <2>3. found.top = [key |-> t.entries[first].key, status |-> IF dominant THEN "dominant" ELSE "candidate"]
      BY <1>1, <2>1
    <2>4. found.top.key = t.entries[first].key /\ (dominant => found.top.status = "dominant")
      BY <2>3
    <2>5. AtLeast(score(first), Percent(70)) => dominant
      BY Zenon DEF dominant
    <2>6. LeadBy(t, shard, found, first)
      BY <1>2, <2>2, <2>4, <2>5, Zenon DEF LeadBy
    <2> QED
      BY <2>6, Zenon
  <1> QED
    BY <1>2, <1>8, <1>9, Zenon DEF found

\* What is read of a shard before its tracker is asked.
LEMMA ShardRead ==
  ASSUME Types, NEW s \in Shards
  PROVE  shardDepthAndWaitForHotKey(s).depth \in Nat /\ shardDepthAndWaitForHotKey(s).wait \in Nat
  <1>1. PICK f : f = [l \in Lanes |-> LaneDepth(s, l)]
    OBVIOUS
  <1>2. DOMAIN f = Lanes /\ \A l \in Lanes : f[l] \in Nat
    <2>1. \A l \in Lanes : lanes[s][l] \in Seq(Reqs)
      BY DEF Types, LaneTypes
    <2>2. \A l \in Lanes : LaneDepth(s, l) \in Nat
      BY <2>1 DEF LaneDepth
    <2> QED
      BY <1>1, <2>2
  <1>3. IsFiniteSet(Lanes)
    BY AdmissionAssumption
  <1>4. SumFunction(f) \in Nat
    BY <1>2, <1>3, SumNat
  <1>5. ShardDepth(s) \in Nat
    BY <1>1, <1>4, Zenon DEF ShardDepth
  <1>6. shardWait[s] \in Nat
    BY DEF Types, StatTypes
  <1> QED
    BY <1>5, <1>6 DEF shardDepthAndWaitForHotKey

\* The status an entry is given is about its score.
LEMMA StatusIs ==
  ASSUME NEW e, NEW shard, NEW totals
  PROVE  /\ entryHotKeyStatus(e, shard, totals).status # "none" <=> Hit(Ratios(e, shard, totals))
         /\ entryHotKeyStatus(e, shard, totals).status = "dominant" =>
               AtLeast(UseRatio(Ratios(e, shard, totals)), Percent(70))
  <1>1. PICK r, st : r = Ratios(e, shard, totals) /\ st = entryHotKeyStatus(e, shard, totals)
    OBVIOUS
  <1>2. st = IF ~Hit(r) THEN [status |-> "none", ratio |-> Zero]
             ELSE [status |-> IF AtLeast(UseRatio(r), Percent(70)) THEN "dominant" ELSE "candidate", ratio |-> UseRatio(r)]
    BY <1>1, Zenon DEF entryHotKeyStatus
  <1>3. CASE ~Hit(r)
    <2>1. st = [status |-> "none", ratio |-> Zero]
      BY <1>2, <1>3, Zenon
    <2>2. st.status = "none"
      BY <2>1
    <2> QED
      BY <1>1, <1>3, <2>2
  <1>4. CASE Hit(r)
    <2>1. st = [status |-> IF AtLeast(UseRatio(r), Percent(70)) THEN "dominant" ELSE "candidate", ratio |-> UseRatio(r)]
      BY <1>2, <1>4, Zenon
    <2>2. st.status = IF AtLeast(UseRatio(r), Percent(70)) THEN "dominant" ELSE "candidate"
      BY <2>1
    <2> QED
      BY <1>1, <1>4, <2>2
  <1> QED
    BY <1>3, <1>4

\* One key, seen by an observer and by the snapshot: the snapshot's first candidate is a hot key to the observer, a hot
\* key makes the snapshot list something, and a dominant one makes it report a dominant key.
LEMMA SnapshotAgrees ==
  ASSUME NEW t, Good(t), Live(t), NEW k \in Keys, NEW shard, shard.depth \in Nat, shard.wait \in Nat, NEW n
  PROVE  LET u == expireStaleEntriesLocked(t, n)
             found == detectHotKeyCandidates(u, shard)
             status == hotKeyStatusForKey(t, k, shard, n) IN
         /\ (status # "none" /\ \E i \in InUse(u) : u.entries[i].submitted > 0) => found.listed > 0
         /\ (status = "dominant" /\ found.listed > 0) => found.top.status = "dominant"
         /\ (found.listed > 0 /\ found.top.key = k) => status # "none"
  <1>1. PICK u : u = expireStaleEntriesLocked(t, n)
    OBVIOUS
  <1>2. PICK totals : totals = TotalsOver(u, InUse(u))
    OBVIOUS
  <1>3. /\ Good(u) /\ totals = trackerTotalsForObservationLocked(t, n)
        /\ Tracked(u, k) <=> Tracked(t, k) /\ ~hotKeyEntryStale(EntryOf(t, k), n)
        /\ Tracked(u, k) => u.index[k] = t.index[k] /\ EntryOf(u, k) = EntryOf(t, k)
    BY <1>1, <1>2, SkippedIsExpired, Zenon
  <1>4. PICK st, found : st = hotKeyStatusForKey(t, k, shard, n) /\ found = detectHotKeyCandidates(u, shard)
    OBVIOUS
  <1>5. PICK x : x = u.index[k]
    OBVIOUS
  <1>6. PICK r : r = Ratios(u.entries[x], shard, totals)
    OBVIOUS
  <1>7. EntryOf(u, k) = u.entries[x]
    BY <1>5, Zenon DEF EntryOf
  <1>8. IF ~enabled \/ ~Tracked(u, k) THEN st = "none" ELSE st = entryHotKeyStatus(u.entries[x], shard, totals).status
    BY <1>3, <1>4, <1>7, Zenon DEF hotKeyStatusForKey
  <1>9. st # "none" <=> enabled /\ Tracked(u, k) /\ Hit(r)
    BY <1>6, <1>8, StatusIs, Zenon
  <1>10. st = "dominant" => enabled /\ Tracked(u, k) /\ Hit(r) /\ AtLeast(UseRatio(r), Percent(70))
    <2>1. "dominant" # "none"
      OBVIOUS
    <2> QED
      BY <1>6, <1>8, <1>9, <2>1, StatusIs, Zenon
  <1>11. Score(u, shard, x) = UseRatio(r)
    BY <1>2, <1>6, Zenon DEF Score
  <1>12. /\ enabled /\ Hits(u, shard) # {} => found.listed > 0
         /\ found.listed > 0 => \E i : LeadBy(u, shard, found, i)
    BY <1>3, <1>4, CandidatesLed, Zenon
  <1>13. Tracked(u, k) => x \in InUse(u)
    BY <1>3, <1>5, TrackedIndexed, HotKeysAssumption DEF InUse, Tracked
  <1>14. PICK idle : idle = (totals.submitted = 0 /\ totals.queued = 0 /\ shard.depth = 0)
    OBVIOUS
  <1>15. Hits(u, shard) = IF idle THEN {} ELSE {i \in InUse(u) : Hit(Ratios(u.entries[i], shard, totals))}
    BY <1>2, <1>14, Zenon DEF Hits
  <1>16. ASSUME st # "none", ~idle PROVE x \in Hits(u, shard)
    <2>1. x \in InUse(u) /\ Hit(r)
      BY <1>9, <1>13, <1>16, Zenon
    <2>2. Hits(u, shard) = {i \in InUse(u) : Hit(Ratios(u.entries[i], shard, totals))}
      BY <1>15, <1>16, Zenon
    <2> QED
      BY <1>6, <2>1, <2>2, Zenon
  <1>17. ASSUME st # "none", NEW i \in InUse(u), u.entries[i].submitted > 0 PROVE found.listed > 0
    <2>1. totals.submitted \in Nat /\ u.entries[i].submitted <= totals.submitted
      BY <1>2, <1>3, TotalsNat
    <2>2. u.entries[i].submitted \in Nat
      BY <1>3, TotalsNat, TrackerParts DEF Good, Entries
    <2>3. totals.submitted # 0
      BY <1>17, <2>1, <2>2
    <2>4. ~idle
      BY <1>14, <2>3, Zenon
    <2>5. Hits(u, shard) # {}
      BY <1>16, <1>17, <2>4
    <2>6. enabled
      BY <1>9, <1>17, Zenon
    <2> QED
      BY <1>12, <2>5, <2>6, Zenon
  <1>18. ASSUME st = "dominant", found.listed > 0 PROVE found.top.status = "dominant"
    <2>1. PICK i : LeadBy(u, shard, found, i)
      BY <1>12, <1>18, Zenon
    <2>2. i \in Hits(u, shard) /\ \A j \in Hits(u, shard) : AtLeast(Score(u, shard, i), Score(u, shard, j))
      BY <2>1, Zenon DEF LeadBy
    <2>3. ~idle
      BY <1>15, <2>2
    <2>4. st # "none"
      BY <1>18
    <2>5. x \in Hits(u, shard)
      BY <1>16, <2>3, <2>4
    <2>6. AtLeast(Score(u, shard, i), Score(u, shard, x)) /\ AtLeast(Score(u, shard, x), Percent(70))
      BY <1>10, <1>11, <1>18, <2>2, <2>5, Zenon
    <2>7. \A j \in Hits(u, shard) : Score(u, shard, j) \in Ratio
      <3> TAKE j \in Hits(u, shard)
      <3>1. j \in InUse(u)
        BY <1>15
      <3>2. u.entries[j] \in Entries
        BY <1>3, <3>1, TotalsNat, TrackerParts DEF Good
      <3>3. totals.submitted \in Nat /\ totals.queued \in Nat
        BY <1>2, <1>3, TotalsNat
      <3>4. UseRatio(Ratios(u.entries[j], shard, totals)) \in Ratio
        BY <3>2, <3>3, ScoreTyped
      <3> QED
        BY <1>2, <3>4, Zenon DEF Score
    <2>8. PICK f, g, h : f = Score(u, shard, i) /\ g = Score(u, shard, x) /\ h = Percent(70)
      OBVIOUS
    <2>9. f \in Ratio /\ g \in Ratio /\ AtLeast(f, g) /\ AtLeast(g, h)
      BY <2>2, <2>5, <2>6, <2>7, <2>8, Zenon
    <2>10. h[1] \in Int /\ h[2] \in Nat \ {0}
      BY <2>8, PercentParts
    <2>11. AtLeast(f, h)
      BY <2>9, <2>10, AtLeastTransitive
    <2> QED
      BY <2>1, <2>8, <2>11, Zenon DEF LeadBy
  <1>19. ASSUME found.listed > 0, found.top.key = k PROVE st # "none"
    <2>1. PICK i : LeadBy(u, shard, found, i)
      BY <1>12, <1>19, Zenon
    <2>2. i \in Hits(u, shard) /\ u.entries[i].key = k
      BY <1>19, <2>1, Zenon DEF LeadBy
    <2>3. i \in InUse(u) /\ Hit(Ratios(u.entries[i], shard, totals))
      BY <1>15, <2>2
    <2>4. Indexed(u, k) /\ u.index[k] = i
      BY <1>3, <2>2, <2>3 DEF Good, Exact
    <2>5. Tracked(u, k) /\ x = i
      BY <1>5, <2>2, <2>4 DEF Tracked
    <2>6. enabled
      BY <1>3, <2>5, Zenon DEF Live
    <2> QED
      BY <1>6, <1>9, <2>3, <2>5, <2>6, Zenon
  <1> QED
    BY <1>1, <1>4, <1>17, <1>18, <1>19, Zenon

LEMMA TypesObserve == Types => ObserversAgree
  <1> SUFFICES ASSUME Types, NEW k \in Keys
               PROVE  LET s == ShardOf[k]
                          t == tracker[s]
                          u == expireStaleEntriesLocked(t, now)
                          shard == shardDepthAndWaitForHotKey(s)
                          pressure == <<TotalDepth, TotalCapacity>>
                          found == detectHotKeyCandidates(u, shard)
                          status == hotKeyStatusForKey(t, k, shard, now) IN
                      /\ planPerKeyAdmission(t, k, shard, pressure, PerKeyConfig, now)
                           = evaluatePerKeyAdmission(t, k, shard, pressure, PerKeyConfig, now).verdict
                      /\ (status # "none" /\ \E i \in InUse(u) : u.entries[i].submitted > 0) => found.listed > 0
                      /\ (status = "dominant" /\ found.listed > 0) => found.top.status = "dominant"
                      /\ (found.listed > 0 /\ found.top.key = k) => status # "none"
    BY Zenon DEF ObserversAgree
  <1>1. ShardOf[k] \in Shards
    BY Sorts
  <1>2. PICK s : s = ShardOf[k]
    OBVIOUS
  <1>3. Good(tracker[s]) /\ Live(tracker[s])
    BY <1>1, <1>2 DEF Types, TrackerTypes
  <1>4. shardDepthAndWaitForHotKey(s).depth \in Nat /\ shardDepthAndWaitForHotKey(s).wait \in Nat
    BY <1>1, <1>2, ShardRead
  <1>5. PICK t, shard, pressure, c, n : /\ t = tracker[s] /\ shard = shardDepthAndWaitForHotKey(s)
                                        /\ pressure = <<TotalDepth, TotalCapacity>> /\ c = PerKeyConfig /\ n = now
    OBVIOUS
  <1>6. Good(t) /\ Live(t) /\ shard.depth \in Nat /\ shard.wait \in Nat
    BY <1>3, <1>4, <1>5, Zenon
  <1>7. planPerKeyAdmission(t, k, shard, pressure, c, n) = evaluatePerKeyAdmission(t, k, shard, pressure, c, n).verdict
    BY <1>6, PlannedIsEvaluated, Zenon
  <1>8. LET u == expireStaleEntriesLocked(t, n)
            found == detectHotKeyCandidates(u, shard)
            status == hotKeyStatusForKey(t, k, shard, n) IN
        /\ (status # "none" /\ \E i \in InUse(u) : u.entries[i].submitted > 0) => found.listed > 0
        /\ (status = "dominant" /\ found.listed > 0) => found.top.status = "dominant"
        /\ (found.listed > 0 /\ found.top.key = k) => status # "none"
    BY <1>6, SnapshotAgrees, Zenon
  <1> QED
    BY <1>2, <1>5, <1>7, <1>8, Zenon

\* Retry suppression and the debug snapshot, which look at a tracker without changing it and so without removing what is
\* stale, tell of every key what admission would decide at that moment: for all keys, shards, slots and configurations.
THEOREM ObserversTellTheTruth == Spec => []ObserversAgree
  BY TypesHold, TypesObserve, PTL
=============================================================================
