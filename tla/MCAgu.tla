------------------------------- MODULE MCAgu -------------------------------
(***************************************************************************)
(* TLC instances of Agu.                                                   *)
(***************************************************************************)
EXTENDS Agu

\* Every CTRL value but those with ultra, which only the payload depends on.
CommandWrites == SUBSET (CtrlBits \ {"ultra"})
=============================================================================
