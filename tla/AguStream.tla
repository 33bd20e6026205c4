----------------------------- MODULE AguStream -----------------------------
(***************************************************************************)
(* What an address generation unit promises: the behaviour of AguOps under *)
(* any sequence of commands and any ready.  Its loop bounds are programmed *)
(* between runs only.                                                      *)
(***************************************************************************)
EXTENDS AguOps

CONSTANT MaxTotal    \* the longest run considered

VARIABLE agu

Init == agu = AtReset(1)

Step == \E start, stop, soft, ready, produce \in BOOLEAN :
          agu' = Edge(agu, start, stop, soft, ready, produce)

Program == /\ agu.state # "RUN"
           /\ \E stop, soft \in BOOLEAN, n \in 1 .. MaxTotal :
                agu' = [Edge(agu, FALSE, stop, soft, FALSE, FALSE) EXCEPT !.total = n]

Next == Step \/ Program

Spec == Init /\ [][Next]_agu
=============================================================================
