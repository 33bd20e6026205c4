------------------------------- MODULE Copier -------------------------------
(***************************************************************************)
(* What a copying engine promises: it works off its commands in order, one *)
(* at a time; it copies the beats of a command in order, each once; and it *)
(* reports a command only when all of it is in the destination, or when    *)
(* the command was refused.                                                *)
(***************************************************************************)
EXTENDS Naturals, Sequences

CONSTANTS Commands, MaxQueued    \* a command: its number of beats, whether it is valid
CONSTANT Tags                    \* names of the commands, 0 at the start

VARIABLES
  queue,      \* the commands taken and not reported, oldest first
  copied,     \* how many beats of the oldest are in the destination
  reported    \* the tag of the last one reported

Command == [what : Commands, tag : Tags]

Init == queue = <<>> /\ copied = 0 /\ reported = 0

\* What is left of the queue, and one more command at most.
Becomes(rest) ==
  /\ Len(queue') \in {Len(rest), Len(rest) + 1} /\ Len(queue') <= MaxQueued
  /\ SubSeq(queue', 1, Len(rest)) = rest
  /\ Len(queue') > Len(rest) => queue'[Len(queue')] \in Command

\* Some beats of the oldest command, or none.
Copy ==
  /\ Becomes(queue)
  /\ \/ copied' = copied
     \/ /\ queue # <<>> /\ Head(queue).what.valid
        /\ copied' > copied /\ copied' <= Head(queue).what.beats
  /\ UNCHANGED reported

Report ==
  /\ queue # <<>> /\ (Head(queue).what.valid => copied = Head(queue).what.beats)
  /\ reported' = Head(queue).tag
  /\ Becomes(Tail(queue)) /\ copied' = 0

Next == Copy \/ Report

Spec == Init /\ [][Next]_<<queue, copied, reported>>
=============================================================================
