----------------------------- MODULE MCCmdFabric -----------------------------
(***************************************************************************)
(* TLC instance of CmdFabric: two clusters with any power, one device, and  *)
(* masks with both and with one and a bit of a cluster that is not there;  *)
(* the mask names nobody until it is first written.                        *)
(***************************************************************************)
EXTENDS CmdFabric

MaskValues == {{0, 1}, {1, 5}}
=============================================================================
