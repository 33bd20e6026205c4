-------------------------------- MODULE MCSpm --------------------------------
(***************************************************************************)
(* TLC instance of Spm: a port that reads and one that writes, two groups  *)
(* of two banks, and a DMA that writes one and reads the other bank of a   *)
(* group, which is the first or the second port's as the map says.  With   *)
(* three reads outstanding a bank's pipeline and its output are both full. *)
(***************************************************************************)
EXTENDS Spm

Writing == {1}
PortShapes == [p \in {0, 1} |-> IF p = 0 THEN {{1}, {0, 1}} ELSE {{0, 1}}]
WriteBanks == {<<0, 0>>}
ReadBanks == {<<0, 1>>}
NameBound == [c \in 0 .. 3 |-> IF c = 0 THEN 2 ELSE 1]
=============================================================================
