---------------------------- MODULE MemoryServer ----------------------------
(***************************************************************************)
(* What a memory with several clients promises: it answers the accesses of *)
(* each client in the order in which it took them, every one once.  The    *)
(* accesses of a client c carry names that repeat after Names[c] of them.  *)
(***************************************************************************)
EXTENDS Naturals, Sequences

CONSTANTS Client, Names

VARIABLES outstanding, next_id    \* taken and not answered; the next name

Init ==
  /\ outstanding = [c \in Client |-> <<>>]
  /\ next_id = [c \in Client |-> 0]

\* What a client's outstanding accesses s and its next name n become: it sends one,
\* or its oldest is answered, or both, or neither.
Moves(s, n, names) ==
  LET sent == (n + 1) % names
  IN  {<<s, n>>, <<Append(s, n), sent>>}
      \cup IF s = <<>> THEN {} ELSE {<<Tail(s), n>>, <<Append(Tail(s), n), sent>>}

Next ==
  \A c \in Client :
    <<outstanding'[c], next_id'[c]>> \in Moves(outstanding[c], next_id[c], Names[c])

Spec == Init /\ [][Next]_<<outstanding, next_id>>
=============================================================================
