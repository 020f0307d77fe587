----------------------------- MODULE BoundedFIFO -----------------------------
(***************************************************************************)
(* What a lane queue promises: a first-in first-out queue of at most       *)
(* Capacity accepted jobs.  Every accepted job carries its admission       *)
(* stamp.  A consumer takes a prefix, never anything else.                 *)
(***************************************************************************)
EXTENDS Naturals, Sequences

CONSTANTS
  Capacity,   \* the configured queue size per lane
  Jobs        \* the jobs that can be queued

VARIABLE queue   \* the queued jobs, oldest first

Accepted == [job : Jobs, stamped : {TRUE}]

Init == queue = <<>>

Put(j) ==
  /\ Len(queue) < Capacity
  /\ queue' = Append(queue, [job |-> j, stamped |-> TRUE])

Take(n) == queue' = SubSeq(queue, n + 1, Len(queue))

Next ==
  \/ \E j \in Jobs : Put(j)
  \/ \E n \in 1..Len(queue) : Take(n)

Spec == Init /\ [][Next]_queue
=============================================================================
