------------------------------ MODULE EventFifo ------------------------------
(* What the event queue of a bus device promises: a bounded first-in-first-out *)
(* queue that refuses an event when it is full.                                *)
EXTENDS Integers, Sequences

CONSTANTS Events, Capacity

VARIABLE queue

Init == queue = <<>>

Push(e) == Len(queue) < Capacity /\ queue' = Append(queue, e)

Pop == queue # <<>> /\ queue' = Tail(queue)

Next == Pop \/ \E e \in Events : Push(e)

Spec == Init /\ [][Next]_queue
=============================================================================
