----------------------------- MODULE MCDataFabric -----------------------------
(***************************************************************************)
(* TLC instance of DataFabric: two clusters, one of which may keep its     *)
(* accesses for ever; the NLU goes to the other one only.  Both requesters *)
(* send the address and the data of a write together.                      *)
(***************************************************************************)
EXTENDS DataFabric

SilentClusters == {0}
CarefulRequesters == {"NLU"}
TogetherRequesters == Requester
OpenAccesses == [r \in Requester |-> IF r = "DMA" THEN 3 ELSE 1]
=============================================================================
