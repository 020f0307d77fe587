------------------------------ MODULE LaneQueue ------------------------------
(***************************************************************************)
(* The ring buffer of internal/core/lane_queue.go: a fixed array of slots, *)
(* the index of the oldest job (head), the index of the next free slot     *)
(* (tail) and the number of jobs queued (size).  Every operation runs      *)
(* under the shard's mutex, so each one is a single action.                *)
(*                                                                         *)
(* The refinement LaneQueue => BoundedFIFO is what lets the Scheduler      *)
(* module use a sequence for every lane.                                   *)
(***************************************************************************)
EXTENDS Naturals, Sequences

CONSTANTS
  Capacity,   \* len(items), the configured queue size per lane
  Jobs,       \* the jobs that can be queued
  NoJob       \* the Run function of the zero InternalJob{}: none

\* config.go rejects QueueSizePerLane < 1.
ASSUME CapacityAssumption == Capacity \in Nat \ {0}
ASSUME NoJobAssumption == NoJob \notin Jobs

VARIABLES items, head, tail, size

vars == <<items, head, tail, size>>

Slots == 0..(Capacity - 1)
\* An InternalJob: what it runs, and whether its admission time is set.
Item == [job : Jobs \cup {NoJob}, stamped : BOOLEAN]
ZeroItem == [job |-> NoJob, stamped |-> FALSE]

\* newLaneQueue: a slice of zero jobs.
Init ==
  /\ items = [i \in Slots |-> ZeroItem]
  /\ head = 0
  /\ tail = 0
  /\ size = 0

\* Mutant of NewestSlot: stamps the next free slot.
NewestSlotAtTail(t) == t % Capacity

\* The slot stampNewestAccepted writes: the one just before tail.
NewestSlot(t) == (t + Capacity - 1) % Capacity

\* Mutant of Push: the full check is off by one.
PushOnePastFull(j) ==
  /\ size # Capacity + 1
  /\ tail' = (tail + 1) % Capacity
  /\ items' = [items EXCEPT ![tail] = [job |-> j, stamped |-> TRUE]]
  /\ size' = size + 1
  /\ UNCHANGED head

\* enqueueIntoShard with stamping on: push writes the unstamped job at tail,
\* then stampNewestAccepted stamps the newest slot.  A full queue returns
\* errLaneQueueFull and changes nothing.
Push(j) ==
  /\ size # Capacity
  /\ tail' = (tail + 1) % Capacity
  /\ items' = [items EXCEPT ![tail] = [job |-> j, stamped |-> FALSE],
                            ![NewestSlot(tail')].stamped = TRUE]
  /\ size' = size + 1
  /\ UNCHANGED head

\* The slots the n oldest jobs occupy.
OldestSlots(n) == {(head + k) % Capacity : k \in 0..(n - 1)}

\* The number of jobs popN takes: the lane's quota, but no more than are
\* queued and no more than the batch still has room for.
PopCount(limit, avail) ==
  LET wanted == IF limit > size THEN size ELSE limit
  IN  IF wanted > avail THEN avail ELSE wanted

\* Mutant of PopN: pop leaves the old reference in its slot.
PopNKeepsReference(limit, avail) ==
  LET n == PopCount(limit, avail)
  IN  /\ n > 0
      /\ head' = (head + n) % Capacity
      /\ size' = size - n
      /\ UNCHANGED <<items, tail>>

\* popN(limit, dst), where avail = cap(dst) - len(dst): pops PopCount jobs
\* and clears their slots.
PopN(limit, avail) ==
  LET n == PopCount(limit, avail)
  IN  /\ n > 0
      /\ items' = [i \in Slots |-> IF i \in OldestSlots(n) THEN ZeroItem ELSE items[i]]
      /\ head' = (head + n) % Capacity
      /\ size' = size - n
      /\ UNCHANGED tail

Next ==
  \/ \E j \in Jobs : Push(j)
  \/ \E limit, avail \in 1..(Capacity + 1) : PopN(limit, avail)

Spec == Init /\ [][Next]_vars

(***************************************************************************)
(* Properties.                                                             *)
(***************************************************************************)

\* The type invariant: the indices of laneQueue stay inside the slice and
\* size between 0 and its length.
TypeOK ==
  /\ items \in [Slots -> Item]
  /\ head \in Slots
  /\ tail \in Slots
  /\ size \in 0..Capacity

\* head, tail and size describe one window of the ring: tail is where the
\* window ends, every slot inside holds a stamped job and every slot outside
\* was cleared by pop ("Clear reference"), so no finished job is kept alive.
RingConsistent ==
  /\ tail = (head + size) % Capacity
  /\ \A i \in Slots : IF i \in OldestSlots(size)
                      THEN items[i].job \in Jobs /\ items[i].stamped = TRUE
                      ELSE items[i] = ZeroItem

\* The queued jobs, oldest first: the refinement mapping.
Contents == [k \in 1..size |-> items[(head + k - 1) % Capacity]]

FIFO == INSTANCE BoundedFIFO WITH queue <- Contents

\* push, stampNewestAccepted and popN over the ring implement a bounded FIFO
\* queue of stamped jobs, across every wrap-around of head and tail.
ImplementsFIFO == FIFO!Spec
=============================================================================
