------------------------------ MODULE QueueOps ------------------------------
(***************************************************************************)
(* What one clock edge does to the contents of a queue built from the      *)
(* simulator's FIFO module (Utils/FIFO.hpp), as a function on sequences:   *)
(* the oldest entry is the head.  The components that own such queues use  *)
(* these operators; module Fifo shows that the ring buffer behaves so.     *)
(***************************************************************************)
EXTENDS Naturals, Sequences

IsEmpty(s) == s = <<>>
IsFull(s, depth) == Len(s) >= depth

\* A pop of an empty queue is ignored.
Popped(s, pop) == IF pop /\ ~IsEmpty(s) THEN Tail(s) ELSE s

\* A push into a full queue is ignored unless the same edge pops.
Accepts(s, depth, push, pop) == push /\ (~IsFull(s, depth) \/ pop)

\* The requests of an edge that are honoured: the pop happens before the push.
Moved(s, push, pop, d) ==
  IF push THEN Append(Popped(s, pop), d) ELSE Popped(s, pop)

\* One edge: clear wins over both requests.
AfterEdge(s, depth, clear, push, pop, d) ==
  IF clear THEN <<>> ELSE Moved(s, Accepts(s, depth, push, pop), pop, d)
=============================================================================
