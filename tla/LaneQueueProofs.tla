--------------------------- MODULE LaneQueueProofs ---------------------------
(***************************************************************************)
(* Proofs about LaneQueue, for every capacity and every set of jobs: the   *)
(* ring's indices are always consistent, and the ring implements a bounded *)
(* FIFO queue.                                                             *)
(***************************************************************************)
EXTENDS LaneQueue, TLAPS

\* Reduction modulo the length, for an index that has run past the end of
\* the slice by less than its length.
LEMMA Wrap ==
  ASSUME NEW c \in Nat \ {0}, NEW a \in Nat, a < 2 * c
  PROVE  a % c = IF a < c THEN a ELSE a - c
  BY SMT

\* The slot at offset a from a head: an index of the slice, in closed form.
LEMMA SlotAt ==
  ASSUME NEW h \in Slots, NEW a \in 0..Capacity
  PROVE  /\ (h + a) % Capacity = IF h + a < Capacity THEN h + a ELSE h + a - Capacity
         /\ (h + a) % Capacity \in Slots
  <1>1. h + a \in Nat /\ h + a < 2 * Capacity
    BY CapacityAssumption DEF Slots
  <1> DEFINE x == h + a
  <1>2. x % Capacity = IF x < Capacity THEN x ELSE x - Capacity
    <2>1. x \in Nat /\ x < 2 * Capacity
      BY <1>1
    <2> HIDE DEF x
    <2> QED BY <2>1, CapacityAssumption, Wrap
  <1>3. QED
    BY <1>2, <1>1, CapacityAssumption DEF Slots

\* Different offsets from one head, both less than the capacity, are
\* different slots.
LEMMA DistinctSlots ==
  ASSUME NEW h \in Slots, NEW a \in Slots, NEW b \in Slots,
         (h + a) % Capacity = (h + b) % Capacity
  PROVE  a = b
  <1>1. a \in 0..Capacity /\ b \in 0..Capacity
    BY CapacityAssumption DEF Slots
  <1>2. (h + a) % Capacity = IF h + a < Capacity THEN h + a ELSE h + a - Capacity
    BY <1>1, SlotAt
  <1>3. (h + b) % Capacity = IF h + b < Capacity THEN h + b ELSE h + b - Capacity
    BY <1>1, SlotAt
  <1>4. QED
    BY <1>2, <1>3, CapacityAssumption DEF Slots

\* Moving the head by n and then by k is moving it by n + k.
LEMMA SlotMove ==
  ASSUME NEW h \in Slots, NEW n \in 0..Capacity, NEW k \in 0..Capacity,
         n + k <= Capacity
  PROVE  (((h + n) % Capacity) + k) % Capacity = (h + (n + k)) % Capacity
  <1>1. /\ (h + n) % Capacity = IF h + n < Capacity THEN h + n ELSE h + n - Capacity
        /\ (h + n) % Capacity \in Slots
    BY SlotAt
  <1>2. (h + (n + k)) % Capacity
          = IF h + (n + k) < Capacity THEN h + (n + k) ELSE h + (n + k) - Capacity
    BY SlotAt, CapacityAssumption
  <1> DEFINE g == (h + n) % Capacity
  <1>3. (g + k) % Capacity = IF g + k < Capacity THEN g + k ELSE g + k - Capacity
    BY <1>1, SlotAt
  <1>4. g = IF h + n < Capacity THEN h + n ELSE h + n - Capacity
    BY <1>1
  <1>5. (g + k) % Capacity = (h + (n + k)) % Capacity
    <2> HIDE DEF g
    <2> QED BY <1>2, <1>3, <1>4, CapacityAssumption DEF Slots
  <1>6. QED
    BY <1>5

-----------------------------------------------------------------------------
\* The inductive invariant: the types and the shape of the ring together.
Ring == TypeOK /\ RingConsistent

\* newLaneQueue: an empty window, every slot clear.
LEMMA InitRing == Init => Ring
  <1> SUFFICES ASSUME Init PROVE Ring
    OBVIOUS
  <1>1. TypeOK
    BY CapacityAssumption DEF Init, TypeOK, Slots, Item, ZeroItem
  <1>2. (head + size) % Capacity = 0
    BY CapacityAssumption, SlotAt DEF Init, Slots
  <1>3. OldestSlots(size) = {}
    BY DEF OldestSlots, Init
  <1>4. RingConsistent
    BY <1>2, <1>3 DEF RingConsistent, Init, ZeroItem
  <1>5. QED
    BY <1>1, <1>4 DEF Ring

\* push writes the slot the window ends at, and stampNewestAccepted stamps
\* that same slot.
LEMMA PushSlots ==
  ASSUME Ring, NEW j \in Jobs, Push(j)
  PROVE  /\ tail' = (head + (size + 1)) % Capacity
         /\ NewestSlot(tail') = tail
         /\ items' = [items EXCEPT ![tail] = [job |-> j, stamped |-> TRUE]]
  <1>1. size \in 0..Capacity /\ 1 \in 0..Capacity /\ size + 1 <= Capacity /\ head \in Slots
        /\ tail \in Slots
    BY CapacityAssumption DEF Ring, TypeOK, Push
  <1>2. tail' = (head + (size + 1)) % Capacity
    BY <1>1, SlotMove DEF Ring, RingConsistent, Push
  <1>3. NewestSlot(tail') = tail
    <2>1. tail' = IF tail + 1 < Capacity THEN tail + 1 ELSE tail + 1 - Capacity
      BY <1>1, SlotAt DEF Push
    <2>2. tail' \in Slots /\ Capacity - 1 \in 0..Capacity
      BY <1>1, SlotAt, CapacityAssumption DEF Push
    <2>3. (tail' + (Capacity - 1)) % Capacity
            = IF tail' + (Capacity - 1) < Capacity THEN tail' + (Capacity - 1)
              ELSE tail' + (Capacity - 1) - Capacity
      BY <2>2, SlotAt
    <2>4. tail' + Capacity - 1 = tail' + (Capacity - 1)
      BY <2>2, CapacityAssumption DEF Slots
    <2>5. QED
      BY <1>1, <2>1, <2>2, <2>3, <2>4, CapacityAssumption DEF NewestSlot, Slots
  <1>4. items' = [items EXCEPT ![tail] = [job |-> j, stamped |-> TRUE]]
    <2>1. items' = [items EXCEPT ![tail] = [job |-> j, stamped |-> FALSE],
                                 ![tail].stamped = TRUE]
      BY <1>3 DEF Push
    <2>2. items \in [Slots -> Item]
      BY DEF Ring, TypeOK
    <2>3. QED
      BY <2>1, <2>2, <1>1
  <1>5. QED
    BY <1>2, <1>3, <1>4

\* A push extends the window by one stamped slot.
LEMMA PushRing ==
  ASSUME Ring, NEW j \in Jobs, Push(j)
  PROVE  Ring'
  <1>1. size \in 0..Capacity /\ size < Capacity /\ head \in Slots /\ tail \in Slots
        /\ head' = head /\ size' = size + 1 /\ size \in Slots
        /\ items \in [Slots -> Item]
    BY CapacityAssumption DEF Ring, TypeOK, Push, Slots
  <1>2. /\ tail' = (head + (size + 1)) % Capacity
        /\ items' = [items EXCEPT ![tail] = [job |-> j, stamped |-> TRUE]]
    BY PushSlots
  <1>3. tail' \in Slots /\ size' \in 0..Capacity
    BY <1>1, <1>2, SlotAt, CapacityAssumption
  <1>4. TypeOK'
    BY <1>1, <1>2, <1>3 DEF TypeOK, Item
  <1>5. OldestSlots(size)' = OldestSlots(size) \cup {tail}
    <2>1. tail = (head + size) % Capacity
      BY DEF Ring, RingConsistent
    <2>2. 0..(size' - 1) = (0..(size - 1)) \cup {size}
      BY <1>1
    <2>3. QED
      BY <1>1, <2>1, <2>2 DEF OldestSlots
  <1>6. RingConsistent'
    <2>1. tail' = (head' + size') % Capacity
      BY <1>1, <1>2
    <2>2. ASSUME NEW i \in Slots
          PROVE IF i \in OldestSlots(size)' THEN items'[i].job \in Jobs /\ items'[i].stamped = TRUE
                ELSE items'[i] = ZeroItem
      <3>1. CASE i = tail
        BY <3>1, <1>1, <1>2, <1>5
      <3>2. CASE i # tail
        BY <3>2, <1>1, <1>2, <1>5 DEF Ring, RingConsistent
      <3>3. QED BY <3>1, <3>2
    <2>3. QED
      BY <2>1, <2>2 DEF RingConsistent, OldestSlots
  <1>7. QED
    BY <1>4, <1>6 DEF Ring

\* What a successful popN leaves: between one and size jobs are taken from
\* the front of the window.
LEMMA PopCountBounds ==
  ASSUME Ring, NEW limit \in 1..(Capacity + 1), NEW avail \in 1..(Capacity + 1),
         PopN(limit, avail)
  PROVE  /\ PopCount(limit, avail) \in 1..size
         /\ size \in 0..Capacity
         /\ head' = (head + PopCount(limit, avail)) % Capacity
         /\ size' = size - PopCount(limit, avail)
         /\ tail' = tail
         /\ items' = [i \in Slots |-> IF i \in OldestSlots(PopCount(limit, avail))
                                      THEN ZeroItem ELSE items[i]]
  <1>1. size \in 0..Capacity
    BY DEF Ring, TypeOK
  <1>2. PopCount(limit, avail) \in 1..size
    BY <1>1, CapacityAssumption DEF PopCount, PopN
  <1>3. QED
    BY <1>1, <1>2 DEF PopN

\* popN shrinks the window from the front and clears what it leaves behind.
LEMMA PopNRing ==
  ASSUME Ring, NEW limit \in 1..(Capacity + 1), NEW avail \in 1..(Capacity + 1),
         PopN(limit, avail)
  PROVE  Ring'
  <1> DEFINE n == PopCount(limit, avail)
  <1>1. /\ n \in 1..size
        /\ size \in 0..Capacity
        /\ head' = (head + n) % Capacity
        /\ size' = size - n
        /\ tail' = tail
        /\ items' = [i \in Slots |-> IF i \in OldestSlots(n) THEN ZeroItem ELSE items[i]]
    BY PopCountBounds
  <1> HIDE DEF n
  <1>2. head \in Slots /\ tail \in Slots /\ items \in [Slots -> Item]
    BY DEF Ring, TypeOK
  <1>3. n \in 0..Capacity /\ size' \in 0..Capacity /\ n + size' = size
    BY <1>1, CapacityAssumption
  <1>4. TypeOK'
    BY <1>1, <1>2, <1>3, SlotAt DEF TypeOK, Item, ZeroItem
  <1>5. tail' = (head' + size') % Capacity
    BY <1>1, <1>2, <1>3, SlotMove DEF Ring, RingConsistent
  <1>6. \A k \in 0..(size' - 1) : (head' + k) % Capacity = (head + (n + k)) % Capacity
    <2> TAKE k \in 0..(size' - 1)
    <2>1. k \in 0..Capacity /\ n + k <= Capacity
      BY <1>1, <1>3, CapacityAssumption
    <2> QED BY <2>1, <1>1, <1>2, <1>3, SlotMove
  <1>7. OldestSlots(size)' = {(head + m) % Capacity : m \in n..(size - 1)}
    <2>1. OldestSlots(size)' = {(head' + k) % Capacity : k \in 0..(size' - 1)}
      BY DEF OldestSlots
    <2>2. ASSUME NEW k \in 0..(size' - 1)
          PROVE (head' + k) % Capacity \in {(head + m) % Capacity : m \in n..(size - 1)}
      <3>1. n + k \in n..(size - 1)
        BY <1>1, <1>3
      <3> QED BY <3>1, <1>6
    <2>3. ASSUME NEW m \in n..(size - 1)
          PROVE (head + m) % Capacity \in {(head' + k) % Capacity : k \in 0..(size' - 1)}
      <3>1. m - n \in 0..(size' - 1) /\ n + (m - n) = m
        BY <1>1, <1>3
      <3> QED BY <3>1, <1>6
    <2>4. QED
      BY <2>1, <2>2, <2>3
  <1>8. \A m \in 0..(n - 1), p \in n..(size - 1) :
           (head + m) % Capacity # (head + p) % Capacity
    <2> TAKE m \in 0..(n - 1), p \in n..(size - 1)
    <2>1. m \in Slots /\ p \in Slots /\ m # p
      BY <1>1, CapacityAssumption DEF Slots
    <2> QED BY <2>1, <1>2, DistinctSlots
  <1>9. /\ OldestSlots(size) = OldestSlots(n) \cup OldestSlots(size)'
        /\ OldestSlots(n) \cap OldestSlots(size)' = {}
    <2>1. 0..(size - 1) = (0..(n - 1)) \cup (n..(size - 1))
      BY <1>1
    <2>2. QED
      BY <2>1, <1>7, <1>8 DEF OldestSlots
  <1>10. RingConsistent'
    <2>1. ASSUME NEW i \in Slots
          PROVE IF i \in OldestSlots(size)' THEN items'[i].job \in Jobs /\ items'[i].stamped = TRUE
                ELSE items'[i] = ZeroItem
      BY <1>1, <1>9 DEF Ring, RingConsistent
    <2>2. QED
      BY <2>1, <1>5 DEF RingConsistent, OldestSlots
  <1>11. QED
    BY <1>4, <1>10 DEF Ring

\* The indices of the ring are consistent in every reachable state, whatever
\* the capacity: the window [head, tail) holds exactly the queued, stamped
\* jobs and every other slot was cleared.
THEOREM RingInvariant == Spec => [](TypeOK /\ RingConsistent)
  <1>1. Ring /\ [Next]_vars => Ring'
    <2> SUFFICES ASSUME Ring, [Next]_vars PROVE Ring'
      OBVIOUS
    <2>1. ASSUME NEW j \in Jobs, Push(j) PROVE Ring'
      BY <2>1, PushRing
    <2>2. ASSUME NEW limit \in 1..(Capacity + 1), NEW avail \in 1..(Capacity + 1),
                 PopN(limit, avail)
          PROVE Ring'
      BY <2>2, PopNRing
    <2>3. CASE UNCHANGED vars
      BY <2>3 DEF vars, Ring, TypeOK, RingConsistent, OldestSlots
    <2>4. QED
      BY <2>1, <2>2, <2>3 DEF Next
  <1>2. QED
    BY <1>1, InitRing, PTL DEF Spec, Ring

\* head, tail and size of laneQueue index the slice at every capacity: no push or popN leaves it.
THEOREM RingTyped == Spec => []TypeOK
  BY RingInvariant, PTL

-----------------------------------------------------------------------------
(***************************************************************************)
(* Refinement.                                                             *)
(***************************************************************************)

\* push on the ring is Put on the FIFO.
LEMMA PushRefines ==
  ASSUME Ring, NEW j \in Jobs, Push(j)
  PROVE  FIFO!Put(j)
  <1>1. size \in 0..Capacity /\ size < Capacity /\ head \in Slots /\ tail \in Slots
        /\ head' = head /\ size' = size + 1 /\ size \in Slots
        /\ items \in [Slots -> Item]
        /\ tail = (head + size) % Capacity
    <2>1. tail = (head + size) % Capacity
      BY DEF Ring, RingConsistent
    <2>2. QED
      BY <2>1, CapacityAssumption DEF Ring, TypeOK, Push, Slots
  <1>2. items' = [items EXCEPT ![tail] = [job |-> j, stamped |-> TRUE]]
    BY PushSlots
  <1>3. ASSUME NEW k \in 1..size
        PROVE /\ (head + k - 1) % Capacity \in Slots
              /\ (head + k - 1) % Capacity # tail
    <2>1. k - 1 \in Slots /\ k - 1 \in 0..Capacity /\ k - 1 # size /\ head + k - 1 = head + (k - 1)
      BY <1>1, CapacityAssumption DEF Slots
    <2>2. (head + (k - 1)) % Capacity \in Slots
      BY <1>1, <2>1, SlotAt
    <2>3. QED
      BY <1>1, <2>1, <2>2, DistinctSlots
  <1>4. Contents' = [k \in 1..(size + 1) |->
                       IF k = size + 1 THEN [job |-> j, stamped |-> TRUE] ELSE Contents[k]]
    <2>1. Contents' = [k \in 1..(size + 1) |-> items'[(head + k - 1) % Capacity]]
      BY <1>1 DEF Contents
    <2>2. ASSUME NEW k \in 1..(size + 1)
          PROVE items'[(head + k - 1) % Capacity]
                  = IF k = size + 1 THEN [job |-> j, stamped |-> TRUE] ELSE Contents[k]
      <3>1. CASE k = size + 1
        <4>1. head + k - 1 = head + size
          BY <3>1, <1>1 DEF Slots
        <4>2. QED
          BY <4>1, <3>1, <1>1, <1>2
      <3>2. CASE k # size + 1
        <4>1. k \in 1..size
          BY <3>2, <1>1
        <4>2. QED
          BY <4>1, <3>2, <1>1, <1>2, <1>3 DEF Contents
      <3>3. QED
        BY <3>1, <3>2
    <2>3. QED
      BY <2>1, <2>2
  <1>5. Contents \in Seq(Item) /\ Len(Contents) = size
    <2>1. \A k \in 1..size : items[(head + k - 1) % Capacity] \in Item
      BY <1>1, <1>3
    <2>2. Contents \in [1..size -> Item]
      BY <2>1 DEF Contents
    <2>3. QED
      BY <2>2, <1>1
  <1>6. Contents' = Append(Contents, [job |-> j, stamped |-> TRUE])
    BY <1>1, <1>4, <1>5
  <1>7. QED
    BY <1>1, <1>5, <1>6 DEF FIFO!Put

\* popN on the ring takes a prefix of the FIFO.
LEMMA PopNRefines ==
  ASSUME Ring, NEW limit \in 1..(Capacity + 1), NEW avail \in 1..(Capacity + 1),
         PopN(limit, avail)
  PROVE  /\ PopCount(limit, avail) \in 1..Len(Contents)
         /\ FIFO!Take(PopCount(limit, avail))
  <1> DEFINE n == PopCount(limit, avail)
  <1>1. /\ n \in 1..size
        /\ size \in 0..Capacity
        /\ head' = (head + n) % Capacity
        /\ size' = size - n
        /\ items' = [i \in Slots |-> IF i \in OldestSlots(n) THEN ZeroItem ELSE items[i]]
    BY PopCountBounds
  <1> HIDE DEF n
  <1>2. head \in Slots /\ items \in [Slots -> Item]
    BY DEF Ring, TypeOK
  <1>3. n \in 0..Capacity /\ size' \in 0..Capacity /\ n + size' = size
    BY <1>1, CapacityAssumption
  <1>4. ASSUME NEW k \in 1..size'
        PROVE items'[(head' + k - 1) % Capacity] = items[(head + (n + k) - 1) % Capacity]
    <2>1. /\ k - 1 \in 0..Capacity /\ n + (k - 1) <= Capacity
          /\ n + (k - 1) \in Slots /\ n + (k - 1) \in 0..Capacity
      BY <1>1, <1>3, CapacityAssumption DEF Slots
    <2>2. (head' + (k - 1)) % Capacity = (head + (n + (k - 1))) % Capacity
      BY <2>1, <1>1, <1>2, <1>3, SlotMove
    <2>3. (head + (n + (k - 1))) % Capacity \in Slots
      BY <2>1, <1>2, SlotAt
    <2>4. (head + (n + (k - 1))) % Capacity \notin OldestSlots(n)
      <3>1. ASSUME NEW m \in 0..(n - 1)
            PROVE (head + m) % Capacity # (head + (n + (k - 1))) % Capacity
        <4>1. m \in Slots /\ m # n + (k - 1)
          BY <1>1, <1>3, CapacityAssumption DEF Slots
        <4>2. QED
          BY <4>1, <2>1, <1>2, DistinctSlots
      <3>2. QED
        BY <3>1 DEF OldestSlots
    <2>5. head' \in Slots
      BY <1>1, <1>2, <1>3, SlotAt
    <2>6. head' + k - 1 = head' + (k - 1) /\ head + (n + k) - 1 = head + (n + (k - 1))
      BY <1>1, <1>2, <1>3, <2>5 DEF Slots
    <2>7. QED
      BY <1>1, <2>2, <2>3, <2>4, <2>6
  <1>5. ASSUME NEW k \in 1..size
        PROVE (head + k - 1) % Capacity \in Slots
    <2>1. k - 1 \in 0..Capacity /\ head + k - 1 = head + (k - 1)
      BY <1>1, <1>2, CapacityAssumption DEF Slots
    <2>2. QED
      BY <2>1, <1>2, SlotAt
  <1>6. Contents \in Seq(Item) /\ Len(Contents) = size
    <2>1. \A k \in 1..size : items[(head + k - 1) % Capacity] \in Item
      BY <1>2, <1>5
    <2>2. Contents \in [1..size -> Item]
      BY <2>1 DEF Contents
    <2>3. QED
      BY <2>2, <1>1
  <1>7. Contents' = [k \in 1..size' |-> Contents[n + k]]
    <2>1. ASSUME NEW k \in 1..size'
          PROVE items'[(head' + k - 1) % Capacity] = Contents[n + k]
      <3>1. n + k \in 1..size
        BY <1>1, <1>3
      <3>2. QED
        BY <3>1, <1>4 DEF Contents
    <2>2. QED
      BY <2>1 DEF Contents
  <1>8. SubSeq(Contents, n + 1, Len(Contents)) = [k \in 1..size' |-> Contents[n + k]]
    <2>1. SubSeq(Contents, n + 1, size) = [k \in 1..(1 + size - (n + 1)) |-> Contents[k + (n + 1) - 1]]
      BY <1>1, <1>6
    <2>2. 1 + size - (n + 1) = size' /\ \A k \in 1..size' : k + (n + 1) - 1 = n + k
      BY <1>1, <1>3
    <2>3. QED
      BY <2>1, <2>2, <1>6
  <1>9. Contents' = SubSeq(Contents, n + 1, Len(Contents))
    BY <1>7, <1>8
  <1>10. QED
    BY <1>1, <1>6, <1>9 DEF FIFO!Take, n

\* The ring buffer implements the bounded FIFO queue for every capacity: push
\* appends, popN takes a prefix, and no wrap-around is ever visible.
THEOREM RingImplementsFIFO == Spec => ImplementsFIFO
  <1>1. Init => FIFO!Init
    BY DEF Init, FIFO!Init, Contents
  <1>2. Ring /\ [Next]_vars => [FIFO!Next]_Contents
    <2> SUFFICES ASSUME Ring, [Next]_vars PROVE [FIFO!Next]_Contents
      OBVIOUS
    <2>1. ASSUME NEW j \in Jobs, Push(j) PROVE FIFO!Next
      BY <2>1, PushRefines DEF FIFO!Next
    <2>2. ASSUME NEW limit \in 1..(Capacity + 1), NEW avail \in 1..(Capacity + 1),
                 PopN(limit, avail)
          PROVE FIFO!Next
      BY <2>2, PopNRefines DEF FIFO!Next
    <2>3. CASE UNCHANGED vars
      BY <2>3 DEF vars, Contents
    <2>4. QED
      BY <2>1, <2>2, <2>3 DEF Next
  <1>3. Spec => []Ring
    BY RingInvariant, PTL DEF Ring
  <1>4. QED
    BY <1>1, <1>2, <1>3, PTL DEF Spec, ImplementsFIFO, FIFO!Spec
=============================================================================
