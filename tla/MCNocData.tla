------------------------------ MODULE MCNocData ------------------------------
(***************************************************************************)
(* TLC instance of NocData: two ports with two rows of PEs, in the two     *)
(* topologies NetworkOnChip knows, with all rows active or with row 1 as a *)
(* tail that shadows row 0.  A workload either sends weights and pixels    *)
(* (ps, pd) or moves partial sums (pli, plo).                              *)
(***************************************************************************)
EXTENDS NocData

\* detect_chained_conv_topology: sums enter at port 0, leave at port 1.
ChainedConv == [q \in PE |->
  [enable |-> TRUE, from_bus |-> q[1] = 0, to_bus |-> q[1] = 1,
   id |-> [c \in Channel |->
     CASE c = "ps" -> q[1]
       [] c = "pd" -> q[1] + q[2]
       [] c = "pli" -> IF q[1] = 0 THEN q[2] ELSE 63
       [] c = "plo" -> IF q[1] = 1 THEN q[2] ELSE 63]]]

\* detect_bus_attached_conv_topology: every port reads and writes its own sums.
BusAttached == [q \in PE |->
  [enable |-> TRUE, from_bus |-> TRUE, to_bus |-> TRUE,
   id |-> [c \in Channel |-> IF c = "ps" THEN 0 ELSE q[2]]]]

To(tags, ultra) ==
  [i \in DOMAIN tags |-> [tag |-> tags[i], ultra |-> ultra, mask |-> 1 .. Chunks]]

\* The last PD word is a partial one.
Trimmed(requests) == [requests EXCEPT ![Len(requests)].mask = {1}]

Nothing == [c \in Channel |-> <<>>]
Weights(ps, pd, ultra) == [Nothing EXCEPT !["ps"] = To(ps, ultra), !["pd"] = Trimmed(To(pd, FALSE))]
Sums(tags, pli_ultra, plo_ultra) ==
  [Nothing EXCEPT !["pli"] = To(tags, pli_ultra), !["plo"] = To(tags, plo_ultra)]

Of(topology, rows, scripts) ==
  {[topology |-> topology, active |-> rows, script |-> s] : s \in scripts}

ConvAndGemm ==
  Of(ChainedConv, 2, {Weights(<<1, 0, 1>>, <<1, 0>>, FALSE), Sums(<<0, 1, 0, 0, 1>>, FALSE, FALSE)})
  \cup Of(ChainedConv, 1, {Weights(<<1, 0>>, <<1, 0>>, FALSE), Sums(<<0, 0, 0>>, FALSE, FALSE)})
  \cup Of(BusAttached, 2, {Weights(<<0, 0>>, <<0, 1>>, TRUE), Sums(<<0, 1, 0>>, TRUE, TRUE)})
  \cup Of(BusAttached, 1, {Sums(<<0, 0, 0>>, FALSE, TRUE)})
=============================================================================
