---------------------------- MODULE BoundedQueue ----------------------------
(***************************************************************************)
(* What a FIFO promises: a first-in first-out queue of at most Depth       *)
(* entries that can take and give one entry on the same edge.              *)
(***************************************************************************)
EXTENDS QueueOps

CONSTANTS Data, Depth

VARIABLE queue

Init == queue = <<>>

Put == /\ Len(queue) < Depth
       /\ \E d \in Data : queue' = Append(queue, d)

Get == /\ queue # <<>>
       /\ queue' = Tail(queue)

Exchange == /\ queue # <<>>
            /\ \E d \in Data : queue' = Append(Tail(queue), d)

Clear == queue' = <<>>

Next == Put \/ Get \/ Exchange \/ Clear

Spec == Init /\ [][Next]_queue
=============================================================================
