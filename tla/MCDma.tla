-------------------------------- MODULE MCDma --------------------------------
(***************************************************************************)
(* TLC instance of DmaEngine: a store and a padded load as the firmware    *)
(* gives them, which are longer than the buffer or the address FIFOs; two  *)
(* copies within the DRAM with bursts as long as the buffer, of the same   *)
(* and of different alignments on their two sides; and two commands that   *)
(* are refused.                                                            *)
(***************************************************************************)
EXTENDS DmaEngine

Each(n) == 2 .. n
Command(n, reads, writes) ==
  [beats |-> n, valid |-> TRUE, pad |-> FALSE, fills |-> {}, src_cuts |-> reads, dst_cuts |-> writes]

Store == Command(5, Each(5), {4})
Padded == [Command(4, {2, 4}, Each(4)) EXCEPT !.pad = TRUE, !.fills = {1, 4}]
Aligned == Command(4, {4}, {4})
Askew == Command(5, {4}, {2, 5})
BadXform == [Command(1, {}, {}) EXCEPT !.valid = FALSE, !.pad = TRUE]
ZeroLength == Command(0, {}, {})

CommandSet == {Store, Padded, Aligned, Askew, BadXform, ZeroLength}
=============================================================================
