------------------------- MODULE HdduFirmware_proofs -------------------------
(***************************************************************************)
(* The delivery unit under its firmware, for any number of send planes,    *)
(* any depths and any run lengths: DONE means that the wave is complete,   *)
(* and every queue holds the run's next descriptors in order.              *)
(*                                                                         *)
(* DONE is computed from values that are one edge old (the busy outputs of *)
(* the AGUs) and from registers of its own (seen_busy, run_active), so the *)
(* invariant has to say how they follow a wave: START is on its way        *)
(* (Starting), the AGUs have begun but their busy outputs do not show it   *)
(* yet (Started), each has its busy output up or has offered its last      *)
(* descriptor (Underway), or all is over (Complete).                       *)
(*                                                                         *)
(* The unit alone comes first, under any command but SOFT_RESET: every     *)
(* packet carries the data of its own descriptor.  Its inductive invariant *)
(* is Typed, InStep and Paired, with what keeps an AGU's count in its     *)
(* type (Unfinished) and the fact that nothing clears the queues.  InStep  *)
(* is what makes Paired inductive: the head of the tag queue is the head   *)
(* of what the SPM answers.                                                *)
(***************************************************************************)
EXTENDS HdduFirmware, TLAPS, SequenceTheorems

\* A condition counted.
One(b) == IF b THEN 1 ELSE 0

\* What an edge makes of a queue: its type, its length and its entries.
LEMMA MovedProps ==
  ASSUME NEW S, NEW s \in Seq(S), NEW push, NEW pop, NEW d,
         push => d \in S, pop => s # <<>>
  PROVE  /\ Moved(s, push, pop, d) \in Seq(S)
         /\ Len(Moved(s, push, pop, d)) = Len(s) + One(push) - One(pop)
         /\ Len(s) \in Nat /\ Len(Moved(s, push, pop, d)) \in Nat
         /\ \A i \in 1 .. Len(Moved(s, push, pop, d)) :
              Moved(s, push, pop, d)[i]
                = IF i + One(pop) <= Len(s) THEN s[i + One(pop)] ELSE d
         /\ pop => Head(s) = s[1] /\ s[1] \in S /\ Len(s) > 0
<1> DEFINE r == Popped(s, pop)
<1>1. /\ r \in Seq(S)
      /\ Len(r) = Len(s) - One(pop)
      /\ \A i \in 1 .. Len(r) : r[i] = s[i + One(pop)]
      /\ Len(s) \in Nat /\ Len(r) \in Nat
  <2>1. CASE pop
    BY <2>1, HeadTailProperties, LenProperties, EmptySeq DEF Popped, IsEmpty, One
  <2>2. CASE ~pop
    BY <2>2, LenProperties DEF Popped, One
  <2> QED
    BY <2>1, <2>2
<1>2. pop => Head(s) = s[1] /\ s[1] \in S /\ Len(s) > 0
  BY EmptySeq, ElementOfSeq
<1>5. One(pop) \in 0 .. 1 /\ One(TRUE) = 1 /\ One(FALSE) = 0
  BY DEF One
<1> DEFINE m == Moved(s, push, pop, d)
<1>6. /\ m \in Seq(S)
      /\ Len(m) = Len(r) + One(push)
      /\ \A i \in 1 .. Len(m) :
           m[i] = IF i + One(pop) <= Len(s) THEN s[i + One(pop)] ELSE d
  <2>1. CASE push
    <3>1. m = Append(r, d) /\ One(push) = 1
      BY <2>1 DEF Moved, One
    <3> HIDE DEF m, r
    <3>2. /\ m \in Seq(S)
          /\ Len(m) = Len(r) + 1
          /\ \A i \in 1 .. Len(r) : m[i] = r[i]
          /\ m[Len(r) + 1] = d
      BY <1>1, <2>1, <3>1, AppendProperties
    <3> QED
      BY <1>1, <1>5, <3>1, <3>2
  <2>2. CASE ~push
    <3>1. m = r /\ One(push) = 0
      BY <2>2 DEF Moved, One
    <3> HIDE DEF m, r
    <3> QED
      BY <1>1, <1>5, <3>1
  <2> QED
    BY <2>1, <2>2
<1>7. One(push) \in 0 .. 1
  BY DEF One
<1> HIDE DEF m, r
<1>8. /\ m \in Seq(S)
      /\ Len(m) = Len(s) + One(push) - One(pop)
      /\ Len(s) \in Nat /\ Len(m) \in Nat
  BY <1>1, <1>5, <1>6, <1>7
<1> QED
  BY <1>2, <1>6, <1>8 DEF m

\* With no clear and room for what is pushed, a queue makes the moves asked of it.
LEMMA EdgeMoves ==
  ASSUME NEW s, NEW push, NEW pop, NEW d, push => ~IsFull(s, Depth)
  PROVE  AfterEdge(s, Depth, FALSE, push, pop, d) = Moved(s, push, pop, d)
BY DEF AfterEdge, Accepts, Moved

\* The guards of the handshakes that an edge completes.
LEMMA HandshakeGuards ==
  ASSUME NEW h \in Handshakes
  PROVE  /\ \A l \in Send :
              /\ h.rd_req[l] \in BOOLEAN /\ (h.rd_req[l] => SpmReadValid(l))
              /\ h.rd_resp[l] \in BOOLEAN
              /\ h.rd_resp[l] => spm_rd[l] # <<>> /\ SpmReadRespReady(l)
              /\ h.noc[l] \in BOOLEAN /\ (h.noc[l] => NocValid(l))
         /\ h.plo_req \in BOOLEAN /\ (h.plo_req => NocPloReqValid)
         /\ h.plo_resp \in BOOLEAN /\ (h.plo_resp => noc_plo # <<>> /\ NocPloRespReady)
         /\ h.wr_req \in BOOLEAN /\ (h.wr_req => SpmWriteValid)
         /\ h.wr_resp \in BOOLEAN /\ (h.wr_resp => spm_wr # <<>>)
         /\ \A p \in Planes :
              h.produce[p] \in BOOLEAN /\ (h.produce[p] => agu[p].state = "RUN")
BY DEF Handshakes

Unfinished == \A p \in Planes : agu[p].state = "RUN" => agu[p].sent < agu[p].total

\* A record's fields are in their types.
LEMMA RecordFields ==
  ASSUME NEW a \in Record(MaxTotal)
  PROVE  /\ a.state \in States /\ a.busy_reg \in BOOLEAN /\ a.busy \in BOOLEAN
         /\ a.valid \in BOOLEAN /\ a.sent \in 0 .. MaxTotal /\ a.total \in 1 .. MaxTotal
         /\ MaxTotal \in Nat
BY RunsAssumption DEF Record

\* An edge keeps an AGU's record in its type.
LEMMA AguEdgeTyped ==
  ASSUME NEW a \in Record(MaxTotal), a.state = "RUN" => a.sent < a.total,
         NEW start \in BOOLEAN, NEW stop \in BOOLEAN, NEW ready \in BOOLEAN,
         NEW produce \in BOOLEAN
  PROVE  /\ Edge(a, start, stop, FALSE, ready, produce) \in Record(MaxTotal)
         /\ Edge(a, start, stop, FALSE, ready, produce).state = "RUN"
              => Edge(a, start, stop, FALSE, ready, produce).sent
                   < Edge(a, start, stop, FALSE, ready, produce).total
<1> DEFINE Good(x) == x \in Record(MaxTotal) /\ (x.state = "RUN" => x.sent < x.total)
<1> SUFFICES Good(Edge(a, start, stop, FALSE, ready, produce))
  OBVIOUS
<1>f. /\ a.state \in States /\ a.busy_reg \in BOOLEAN /\ a.busy \in BOOLEAN
      /\ a.valid \in BOOLEAN /\ a.sent \in 0 .. MaxTotal /\ a.total \in 1 .. MaxTotal
      /\ MaxTotal \in Nat
  BY RecordFields
<1>s. {"IDLE", "RUN", "DONE"} \subseteq States
  BY DEF States
<1>0. ASSUME NEW st \in States, NEW br \in BOOLEAN, NEW v \in BOOLEAN,
             NEW n \in 0 .. MaxTotal, st = "RUN" => n < a.total
      PROVE  Good(After(a, st, br, v, n))
  BY <1>0, <1>f DEF Record, After
<1> HIDE DEF Good
<1>1. Good(Begun(a))
  <2>1. "RUN" \in States /\ 0 \in 0 .. MaxTotal /\ 0 < a.total
    BY <1>f, <1>s
  <2>2. Good(After(a, "RUN", TRUE, FALSE, 0))
    BY <1>0, <2>1
  <2> QED
    BY <2>2 DEF Begun
<1>2. Good(Halted(a)) /\ Good(After(a, "IDLE", a.busy_reg, a.valid, a.sent))
  BY <1>0, <1>f, <1>s DEF Halted
<1>3. ASSUME a.state = "RUN" PROVE Good(RunEdge(a, ready, produce))
  <2>1. a.sent < a.total
    BY <1>3
  <2>2. Good(Running(a, TRUE, a.sent)) /\ Good(Running(a, produce, a.sent))
    BY <1>0, <1>f, <2>1 DEF Running
  <2>3. a.sent + 1 \in 0 .. MaxTotal
    BY <1>f, <2>1
  <2>4. Good(Finished(a))
    BY <1>0, <1>s, <2>3 DEF Finished
  <2>5. a.sent + 1 # a.total => Good(Running(a, produce, a.sent + 1))
    <3>1. a.sent + 1 # a.total => a.sent + 1 < a.total
      BY <1>f, <2>1
    <3> QED
      BY <1>0, <1>f, <2>3, <3>1 DEF Running
  <2> QED
    BY <2>2, <2>4, <2>5 DEF RunEdge
<1> QED
  BY <1>1, <1>2, <1>3 DEF Edge

\* What an edge without a clear does to the queues of a send plane and to the
\* reads the SPM has in hand.
LEMMA SendMoves ==
  ASSUME Typed, InStep, ~fifo_clear, NEW h \in Handshakes, SendPlanes(h),
         NEW l \in Send
  PROVE  /\ wait_fifo'[l]
              = Moved(wait_fifo[l], h.rd_req[l], h.rd_resp[l], Offered(l))
         /\ spm_rd'[l] = wait_fifo'[l]
         /\ noc_fifo'[l]
              = Moved(noc_fifo[l], h.rd_resp[l], h.noc[l],
                      [tag |-> Head(wait_fifo[l]), data |-> Head(wait_fifo[l])])
<1>1. fifo_clear = FALSE
  BY DEF Typed
<1>2. /\ h.rd_req[l] => ~IsFull(wait_fifo[l], Depth)
      /\ h.rd_resp[l] => ~IsFull(noc_fifo[l], Depth)
  BY HandshakeGuards DEF SpmReadValid, SpmReadRespReady
<1>3. wait_fifo[l] = spm_rd[l]
  BY DEF InStep
<1>4. /\ wait_fifo'[l]
           = AfterEdge(wait_fifo[l], Depth, FALSE, h.rd_req[l], h.rd_resp[l],
                       Offered(l))
      /\ spm_rd'[l] = Moved(wait_fifo[l], h.rd_req[l], h.rd_resp[l], Offered(l))
      /\ noc_fifo'[l]
           = AfterEdge(noc_fifo[l], Depth, FALSE, h.rd_resp[l], h.noc[l],
                       [tag |-> Head(wait_fifo[l]), data |-> Head(wait_fifo[l])])
  BY <1>1, <1>3 DEF SendPlanes
<1>5. AfterEdge(wait_fifo[l], Depth, FALSE, h.rd_req[l], h.rd_resp[l], Offered(l))
        = Moved(wait_fifo[l], h.rd_req[l], h.rd_resp[l], Offered(l))
  BY <1>2, EdgeMoves
<1>6. \A d : AfterEdge(noc_fifo[l], Depth, FALSE, h.rd_resp[l], h.noc[l], d)
              = Moved(noc_fifo[l], h.rd_resp[l], h.noc[l], d)
  BY <1>2, EdgeMoves
<1> QED
  BY <1>4, <1>5, <1>6

\* The same of the PLO plane.
LEMMA PloMoves ==
  ASSUME Typed, InStep, ~fifo_clear, NEW h \in Handshakes, PloPlane(h)
  PROVE  /\ write_addr_fifo'
              = Moved(write_addr_fifo, h.plo_req, h.plo_resp, Offered(PLO))
         /\ noc_plo' = write_addr_fifo'
         /\ spm_req_fifo'
              = Moved(spm_req_fifo, h.plo_resp, h.wr_req,
                      [tag |-> Head(write_addr_fifo), data |-> Head(write_addr_fifo)])
         /\ spm_wr' = Moved(spm_wr, h.wr_req, h.wr_resp, Head(spm_req_fifo))
<1>1. fifo_clear = FALSE
  BY DEF Typed
<1>2. /\ h.plo_req => ~IsFull(write_addr_fifo, Depth)
      /\ h.plo_resp => ~IsFull(spm_req_fifo, Depth)
  BY HandshakeGuards DEF NocPloReqValid, NocPloRespReady
<1>3. write_addr_fifo = noc_plo
  BY DEF InStep
<1>4. h.plo_req \in BOOLEAN /\ h.plo_resp \in BOOLEAN /\ h.wr_req \in BOOLEAN
  BY HandshakeGuards
<1>5. /\ write_addr_fifo'
           = AfterEdge(write_addr_fifo, Depth, FALSE, h.plo_req, h.plo_resp, Offered(PLO))
      /\ noc_plo' = Moved(write_addr_fifo, h.plo_req, h.plo_resp, Offered(PLO))
      /\ spm_req_fifo'
           = AfterEdge(spm_req_fifo, Depth, FALSE, h.plo_resp, h.wr_req,
                       [tag |-> Head(write_addr_fifo), data |-> Head(write_addr_fifo)])
      /\ spm_wr' = Moved(spm_wr, h.wr_req, h.wr_resp, Head(spm_req_fifo))
  BY <1>1, <1>3 DEF PloPlane
<1>6. \A d : AfterEdge(write_addr_fifo, Depth, FALSE, h.plo_req, h.plo_resp, d)
              = Moved(write_addr_fifo, h.plo_req, h.plo_resp, d)
  BY <1>2, <1>4, EdgeMoves
<1>7. \A d : AfterEdge(spm_req_fifo, Depth, FALSE, h.plo_resp, h.wr_req, d)
              = Moved(spm_req_fifo, h.plo_resp, h.wr_req, d)
  BY <1>2, <1>4, EdgeMoves
<1> QED
  BY <1>5, <1>6, <1>7

\* What is offered is a descriptor.
LEMMA OfferedTyped ==
  ASSUME Typed, NEW p \in Planes
  PROVE  Offered(p) \in Descriptor
<1>1. run[p] \in Nat /\ agu[p] \in Record(MaxTotal)
  BY DEF Typed
<1>2. agu[p].sent \in Nat
  BY <1>1, RecordFields
<1> QED
  BY <1>1, <1>2 DEF Offered, Descriptor

\* The queues of a send plane after an edge: typed, with lengths that account
\* for every handshake, and paired.
LEMMA SendStep ==
  ASSUME Typed, InStep, Paired, ~fifo_clear, NEW h \in Handshakes, SendPlanes(h),
         NEW l \in Send
  PROVE  /\ wait_fifo'[l] \in Seq(Descriptor) /\ noc_fifo'[l] \in Seq(Packet)
         /\ Len(wait_fifo'[l])
              = Len(wait_fifo[l]) + One(h.rd_req[l]) - One(h.rd_resp[l])
         /\ Len(noc_fifo'[l])
              = Len(noc_fifo[l]) + One(h.rd_resp[l]) - One(h.noc[l])
         /\ \A i \in 1 .. Len(noc_fifo'[l]) : PacketPaired(noc_fifo'[l][i])
<1> DEFINE d == Head(wait_fifo[l])
           e == [tag |-> d, data |-> d]
<1>t. wait_fifo[l] \in Seq(Descriptor) /\ noc_fifo[l] \in Seq(Packet) /\ l \in Planes
  BY DEF Typed, Planes
<1>g. /\ h.rd_resp[l] => wait_fifo[l] # <<>>
      /\ h.noc[l] => noc_fifo[l] # <<>>
  BY HandshakeGuards DEF SpmReadRespReady, NocValid, IsEmpty
<1>m. /\ wait_fifo'[l]
           = Moved(wait_fifo[l], h.rd_req[l], h.rd_resp[l], Offered(l))
      /\ noc_fifo'[l] = Moved(noc_fifo[l], h.rd_resp[l], h.noc[l], e)
  BY SendMoves
<1>1. Offered(l) \in Descriptor
  BY <1>t, OfferedTyped
<1>2. /\ wait_fifo'[l] \in Seq(Descriptor)
      /\ Len(wait_fifo'[l])
           = Len(wait_fifo[l]) + One(h.rd_req[l]) - One(h.rd_resp[l])
      /\ h.rd_resp[l] => d \in Descriptor
  BY <1>t, <1>g, <1>m, <1>1, MovedProps
<1> HIDE DEF d
<1>3. h.rd_resp[l] => e \in Packet
  BY <1>2 DEF Packet
<1>4. PacketPaired(e)
  BY DEF PacketPaired
<1> HIDE DEF e
<1>5. /\ noc_fifo'[l] \in Seq(Packet)
      /\ Len(noc_fifo'[l]) = Len(noc_fifo[l]) + One(h.rd_resp[l]) - One(h.noc[l])
      /\ Len(noc_fifo[l]) \in Nat
      /\ \A i \in 1 .. Len(noc_fifo'[l]) :
           noc_fifo'[l][i] = IF i + One(h.noc[l]) <= Len(noc_fifo[l])
                             THEN noc_fifo[l][i + One(h.noc[l])] ELSE e
  BY <1>t, <1>g, <1>m, <1>3, MovedProps
<1>6. ASSUME NEW i \in 1 .. Len(noc_fifo'[l]) PROVE PacketPaired(noc_fifo'[l][i])
  <2>1. One(h.noc[l]) \in 0 .. 1
    BY DEF One
  <2>2. i + One(h.noc[l]) <= Len(noc_fifo[l])
          => i + One(h.noc[l]) \in 1 .. Len(noc_fifo[l])
    BY <1>5, <2>1
  <2> QED
    BY <1>4, <1>5, <2>2 DEF Paired
<1> QED
  BY <1>2, <1>5, <1>6

\* The same of the PLO plane; the count of unanswered writes stays exact.
LEMMA PloStep ==
  ASSUME Typed, InStep, Paired, ~fifo_clear, NEW h \in Handshakes, PloPlane(h)
  PROVE  /\ write_addr_fifo' \in Seq(Descriptor)
         /\ spm_req_fifo' \in Seq(Packet) /\ spm_wr' \in Seq(Packet)
         /\ Len(write_addr_fifo')
              = Len(write_addr_fifo) + One(h.plo_req) - One(h.plo_resp)
         /\ Len(spm_req_fifo') = Len(spm_req_fifo) + One(h.plo_resp) - One(h.wr_req)
         /\ Len(spm_wr') = Len(spm_wr) + One(h.wr_req) - One(h.wr_resp)
         /\ Outstanding(h) = Len(spm_wr')
         /\ \A i \in 1 .. Len(spm_req_fifo') : PacketPaired(spm_req_fifo'[i])
         /\ \A i \in 1 .. Len(spm_wr') : PacketPaired(spm_wr'[i])
<1> DEFINE d == Head(write_addr_fifo)
           e == [tag |-> d, data |-> d]
           f == Head(spm_req_fifo)
<1>t. /\ write_addr_fifo \in Seq(Descriptor) /\ spm_req_fifo \in Seq(Packet)
      /\ spm_wr \in Seq(Packet) /\ PLO \in Planes
  BY DEF Typed, Planes
<1>g. /\ h.plo_resp => write_addr_fifo # <<>>
      /\ h.wr_req => spm_req_fifo # <<>>
      /\ h.wr_resp => spm_wr # <<>>
  BY HandshakeGuards DEF NocPloRespReady, SpmWriteValid, IsEmpty
<1>m. /\ write_addr_fifo' = Moved(write_addr_fifo, h.plo_req, h.plo_resp, Offered(PLO))
      /\ spm_req_fifo' = Moved(spm_req_fifo, h.plo_resp, h.wr_req, e)
      /\ spm_wr' = Moved(spm_wr, h.wr_req, h.wr_resp, f)
  BY PloMoves
<1>1. Offered(PLO) \in Descriptor
  BY <1>t, OfferedTyped
<1>2. /\ write_addr_fifo' \in Seq(Descriptor)
      /\ Len(write_addr_fifo') = Len(write_addr_fifo) + One(h.plo_req) - One(h.plo_resp)
      /\ h.plo_resp => d \in Descriptor
  BY <1>t, <1>g, <1>m, <1>1, MovedProps
<1> HIDE DEF d
<1>3. h.plo_resp => e \in Packet
  BY <1>2 DEF Packet
<1>4. PacketPaired(e)
  BY DEF PacketPaired
<1> HIDE DEF e
<1>5. /\ spm_req_fifo' \in Seq(Packet)
      /\ Len(spm_req_fifo') = Len(spm_req_fifo) + One(h.plo_resp) - One(h.wr_req)
      /\ Len(spm_req_fifo) \in Nat
      /\ \A i \in 1 .. Len(spm_req_fifo') :
           spm_req_fifo'[i] = IF i + One(h.wr_req) <= Len(spm_req_fifo)
                              THEN spm_req_fifo[i + One(h.wr_req)] ELSE e
      /\ h.wr_req => /\ f = spm_req_fifo[1] /\ f \in Packet
                     /\ Len(spm_req_fifo) > 0
  BY <1>t, <1>g, <1>m, <1>3, MovedProps
<1>6. h.wr_req => PacketPaired(f)
  BY <1>5 DEF Paired
<1> HIDE DEF f
<1>7. /\ spm_wr' \in Seq(Packet)
      /\ Len(spm_wr') = Len(spm_wr) + One(h.wr_req) - One(h.wr_resp)
      /\ Len(spm_wr) \in Nat /\ Len(spm_wr') \in Nat
      /\ \A i \in 1 .. Len(spm_wr') :
           spm_wr'[i] = IF i + One(h.wr_resp) <= Len(spm_wr)
                        THEN spm_wr[i + One(h.wr_resp)] ELSE f
      /\ h.wr_resp => Len(spm_wr) > 0
  BY <1>t, <1>g, <1>m, <1>5, MovedProps
<1>8. One(h.wr_req) \in 0 .. 1 /\ One(h.wr_resp) \in 0 .. 1
  BY DEF One
<1>9. ASSUME NEW i \in 1 .. Len(spm_req_fifo') PROVE PacketPaired(spm_req_fifo'[i])
  <2>1. i + One(h.wr_req) <= Len(spm_req_fifo)
          => i + One(h.wr_req) \in 1 .. Len(spm_req_fifo)
    BY <1>5, <1>8
  <2> QED
    BY <1>4, <1>5, <2>1 DEF Paired
<1>10. ASSUME NEW i \in 1 .. Len(spm_wr') PROVE PacketPaired(spm_wr'[i])
  <2>1. i + One(h.wr_resp) <= Len(spm_wr) => i + One(h.wr_resp) \in 1 .. Len(spm_wr)
    BY <1>7, <1>8
  <2>2. i + One(h.wr_resp) > Len(spm_wr) => h.wr_req
    <3>1. ~h.wr_req => One(h.wr_req) = 0
      BY DEF One
    <3> QED
      BY <1>7, <1>8, <3>1
  <2> QED
    BY <1>6, <1>7, <1>8, <2>1, <2>2 DEF Paired
<1>11. Outstanding(h) = Len(spm_wr')
  <2> DEFINE issued == plo_wr_outstanding + One(h.wr_req)
  <2>1. Outstanding(h) = IF h.wr_resp /\ issued > 0 THEN issued - 1 ELSE issued
    BY DEF Outstanding, One
  <2>2. issued = Len(spm_wr) + One(h.wr_req)
    BY DEF InStep
  <2> HIDE DEF issued
  <2>3. One(h.wr_resp) = IF h.wr_resp THEN 1 ELSE 0
    BY DEF One
  <2> QED
    BY <1>7, <1>8, <2>1, <2>2, <2>3
<1> QED
  BY <1>2, <1>5, <1>7, <1>9, <1>10, <1>11

\* The AGUs after an edge; their outputs are read before it.
LEMMA AguStep ==
  ASSUME Typed, Unfinished, NEW h \in Handshakes, AguEdges(h)
  PROVE  /\ agu' \in [Planes -> Record(MaxTotal)]
         /\ run' \in [Planes -> Nat] /\ delivered' \in [Planes -> Nat]
         /\ Unfinished'
<1>1. ASSUME NEW p \in Planes
      PROVE  /\ agu'[p] = Edge(agu[p], p \in agu_start, agu_stop, FALSE, Taken(h, p),
                               h.produce[p])
             /\ agu'[p] \in Record(MaxTotal)
             /\ agu'[p].state = "RUN" => agu'[p].sent < agu'[p].total
  <2>1. /\ Taken(h, p) \in BOOLEAN /\ h.produce[p] \in BOOLEAN
        /\ (p \in agu_start) \in BOOLEAN
    BY HandshakeGuards DEF Taken, Planes
  <2>2. /\ agu[p] \in Record(MaxTotal) /\ agu_stop \in BOOLEAN
        /\ agu[p].state = "RUN" => agu[p].sent < agu[p].total
    BY DEF Typed, Unfinished
  <2>3. agu'[p] = Edge(agu[p], p \in agu_start, agu_stop, FALSE, Taken(h, p),
                       h.produce[p])
    BY DEF AguEdges
  <2>4. ASSUME NEW st \in BOOLEAN
        PROVE  /\ Edge(agu[p], st, agu_stop, FALSE, Taken(h, p), h.produce[p])
                    \in Record(MaxTotal)
               /\ Edge(agu[p], st, agu_stop, FALSE, Taken(h, p), h.produce[p]).state = "RUN"
                    => Edge(agu[p], st, agu_stop, FALSE, Taken(h, p), h.produce[p]).sent
                         < Edge(agu[p], st, agu_stop, FALSE, Taken(h, p),
                                h.produce[p]).total
    BY <2>1, <2>2, AguEdgeTyped
  <2> QED
    BY <2>1, <2>3, <2>4
<1>2. DOMAIN agu' = Planes /\ agu' = [p \in Planes |-> agu'[p]]
  BY DEF AguEdges
<1>3. agu' \in [Planes -> Record(MaxTotal)] /\ Unfinished'
  BY <1>1, <1>2 DEF Unfinished
<1>4. run' \in [Planes -> Nat] /\ delivered' \in [Planes -> Nat]
  BY DEF AguEdges, Typed
<1> QED
  BY <1>3, <1>4

\* The datapath part of an edge, together.
LEMMA DatapathStep ==
  ASSUME Typed, InStep, Paired, Unfinished, ~fifo_clear,
         NEW h \in Handshakes, Datapath(h)
  PROVE  /\ wait_fifo' \in [Send -> Seq(Descriptor)]
         /\ noc_fifo' \in [Send -> Seq(Packet)]
         /\ write_addr_fifo' \in Seq(Descriptor)
         /\ spm_req_fifo' \in Seq(Packet) /\ spm_wr' \in Seq(Packet)
         /\ spm_rd' = wait_fifo' /\ noc_plo' = write_addr_fifo'
         /\ agu' \in [Planes -> Record(MaxTotal)]
         /\ run' \in [Planes -> Nat] /\ delivered' \in [Planes -> Nat]
         /\ Outstanding(h) = Len(spm_wr') /\ Outstanding(h) \in Nat
         /\ Paired' /\ Unfinished'
<1>1. SendPlanes(h) /\ PloPlane(h) /\ AguEdges(h)
  BY DEF Datapath
<1>2. /\ wait_fifo' = [l \in Send |-> wait_fifo'[l]]
      /\ noc_fifo' = [l \in Send |-> noc_fifo'[l]]
      /\ spm_rd' = [l \in Send |-> spm_rd'[l]]
  BY <1>1 DEF SendPlanes
<1>3. \A l \in Send : /\ wait_fifo'[l] \in Seq(Descriptor) /\ noc_fifo'[l] \in Seq(Packet)
                      /\ spm_rd'[l] = wait_fifo'[l]
                      /\ \A i \in 1 .. Len(noc_fifo'[l]) : PacketPaired(noc_fifo'[l][i])
  BY <1>1, SendStep, SendMoves
<1>4. /\ wait_fifo' \in [Send -> Seq(Descriptor)]
      /\ noc_fifo' \in [Send -> Seq(Packet)]
      /\ spm_rd' = wait_fifo'
  BY <1>2, <1>3
<1>5. /\ write_addr_fifo' \in Seq(Descriptor)
      /\ spm_req_fifo' \in Seq(Packet) /\ spm_wr' \in Seq(Packet)
      /\ Outstanding(h) = Len(spm_wr')
      /\ \A i \in 1 .. Len(spm_req_fifo') : PacketPaired(spm_req_fifo'[i])
      /\ \A i \in 1 .. Len(spm_wr') : PacketPaired(spm_wr'[i])
      /\ noc_plo' = write_addr_fifo'
  BY <1>1, PloStep, PloMoves
<1>6. Paired'
  BY <1>3, <1>5 DEF Paired, PacketPaired
<1>7. Outstanding(h) \in Nat
  BY <1>5, LenProperties
<1> QED
  BY <1>1, <1>4, <1>5, <1>6, <1>7, AguStep

\* The latches after an edge.
LEMMA LatchesTyped ==
  ASSUME NEW active \in BOOLEAN, NEW done \in BOOLEAN, NEW seen \in BOOLEAN,
         NEW pending \in BOOLEAN, NEW h \in Handshakes, Outstanding(h) \in Nat,
         Latches(active, done, seen, pending, h)
  PROVE  /\ run_active' \in BOOLEAN /\ done_latched' \in BOOLEAN
         /\ seen_busy' \in BOOLEAN /\ start_pending' \in BOOLEAN
         /\ plo_wr_outstanding' = Outstanding(h)
         /\ status' \in [busy : BOOLEAN, done : BOOLEAN, idle : BOOLEAN]
<1>1. any_busy \in BOOLEAN
  BY DEF any_busy
<1> QED
  BY <1>1 DEF Latches

\* A datapath edge and well-typed latches, wires and PLANE_EN make a step that
\* keeps Typed, InStep and Paired: what every command has in common.
LEMMA EdgeKeeps ==
  ASSUME Typed, InStep, Paired, Unfinished, ~fifo_clear,
         NEW h \in Handshakes, Datapath(h),
         NEW active \in BOOLEAN, NEW done \in BOOLEAN, NEW seen \in BOOLEAN,
         NEW pending \in BOOLEAN, Latches(active, done, seen, pending, h),
         NEW start \in SUBSET Planes, NEW stop \in BOOLEAN, NEW clear \in BOOLEAN,
         Wires(start, stop, clear), plane_en' \in SUBSET Planes
  PROVE  Typed' /\ InStep' /\ Paired' /\ Unfinished'
<1>1. /\ wait_fifo' \in [Send -> Seq(Descriptor)]
      /\ noc_fifo' \in [Send -> Seq(Packet)]
      /\ write_addr_fifo' \in Seq(Descriptor)
      /\ spm_req_fifo' \in Seq(Packet) /\ spm_wr' \in Seq(Packet)
      /\ spm_rd' = wait_fifo' /\ noc_plo' = write_addr_fifo'
      /\ agu' \in [Planes -> Record(MaxTotal)]
      /\ run' \in [Planes -> Nat] /\ delivered' \in [Planes -> Nat]
      /\ Outstanding(h) = Len(spm_wr') /\ Outstanding(h) \in Nat
      /\ Paired' /\ Unfinished'
  BY DatapathStep
<1>2. /\ run_active' \in BOOLEAN /\ done_latched' \in BOOLEAN
      /\ seen_busy' \in BOOLEAN /\ start_pending' \in BOOLEAN
      /\ plo_wr_outstanding' = Outstanding(h)
      /\ status' \in [busy : BOOLEAN, done : BOOLEAN, idle : BOOLEAN]
  BY <1>1, LatchesTyped
<1>3. InStep'
  BY <1>1, <1>2 DEF InStep
<1>4. agu_start' \subseteq Planes /\ agu_stop' \in BOOLEAN /\ fifo_clear' \in BOOLEAN
  BY DEF Wires
<1>5. Typed'
  BY <1>1, <1>2, <1>4 DEF Typed
<1> QED
  BY <1>1, <1>3, <1>5

UnitInv == Typed /\ InStep /\ Paired /\ Unfinished /\ ~fifo_clear

\* The reset state satisfies the invariant.
LEMMA UnitInit == HdduInit => UnitInv
<1> SUFFICES ASSUME HdduInit PROVE UnitInv
  OBVIOUS
<1>1. \A n \in 1 .. MaxTotal : /\ AtReset(n) \in Record(MaxTotal)
                               /\ AtReset(n).state # "RUN"
  BY RunsAssumption DEF AtReset, Record, States
<1>2. agu \in [Planes -> Record(MaxTotal)] /\ Unfinished
  <2>1. \A p \in Planes : \E n \in 1 .. MaxTotal : agu[p] = AtReset(n)
    BY DEF HdduInit
  <2>2. agu = [p \in Planes |-> agu[p]]
    BY DEF HdduInit
  <2> QED
    BY <1>1, <2>1, <2>2 DEF Unfinished
<1>3. Typed
  <2>1. /\ \A S : <<>> \in Seq(S)
        /\ wait_fifo \in [Send -> Seq(Descriptor)] /\ noc_fifo \in [Send -> Seq(Packet)]
        /\ spm_rd \in [Send -> Seq(Descriptor)]
    BY DEF HdduInit
  <2>2. /\ write_addr_fifo \in Seq(Descriptor) /\ spm_req_fifo \in Seq(Packet)
        /\ spm_wr \in Seq(Packet) /\ noc_plo \in Seq(Descriptor)
    BY <2>1 DEF HdduInit
  <2>3. run \in [Planes -> Nat] /\ delivered \in [Planes -> Nat]
    BY DEF HdduInit
  <2>4. status \in [busy : BOOLEAN, done : BOOLEAN, idle : BOOLEAN]
    BY DEF HdduInit
  <2>5. plane_en \subseteq Planes /\ agu_start \subseteq Planes
        /\ plo_wr_outstanding \in Nat
        /\ {run_active, done_latched, seen_busy, start_pending} \subseteq BOOLEAN
        /\ {agu_stop, fifo_clear} \subseteq BOOLEAN
    BY DEF HdduInit
  <2> QED
    BY <1>2, <2>1, <2>2, <2>3, <2>4, <2>5 DEF Typed
<1>4. InStep /\ Paired
  BY DEF HdduInit, InStep, Paired
<1> QED
  BY <1>2, <1>3, <1>4 DEF UnitInv, HdduInit

\* Every command but SOFT_RESET keeps the invariant.
LEMMA UnitStep == UnitInv /\ [EdgeWithoutClear]_hddu_vars => UnitInv'
<1> SUFFICES ASSUME UnitInv, [EdgeWithoutClear]_hddu_vars PROVE UnitInv'
  OBVIOUS
<1>t. /\ run_active \in BOOLEAN /\ done_latched \in BOOLEAN /\ seen_busy \in BOOLEAN
      /\ start_pending \in BOOLEAN /\ plane_en \in SUBSET Planes
      /\ (start_pending \/ plane_en # {}) \in BOOLEAN /\ (plane_en # {}) \in BOOLEAN
      /\ {} \in SUBSET Planes /\ TRUE \in BOOLEAN /\ FALSE \in BOOLEAN
  BY DEF UnitInv, Typed
<1>i. Typed /\ InStep /\ Paired /\ Unfinished /\ ~fifo_clear
  BY DEF UnitInv
<1>1. ASSUME NEW h \in Handshakes, NoCommand(h) PROVE UnitInv'
  <2>1. Datapath(h) /\ Latches(run_active, done_latched, seen_busy, start_pending, h)
        /\ Wires({}, FALSE, FALSE) /\ plane_en' \in SUBSET Planes /\ ~fifo_clear'
    BY <1>1, <1>t DEF NoCommand, Wires
  <2>2. Typed' /\ InStep' /\ Paired' /\ Unfinished'
    BY <1>i, <1>t, <2>1, EdgeKeeps
  <2> QED
    BY <2>1, <2>2 DEF UnitInv
<1>2. ASSUME NEW h \in Handshakes, StartRun(h) PROVE UnitInv'
  <2>1. Datapath(h)
        /\ Latches(plane_en # {}, FALSE, FALSE, start_pending \/ plane_en # {}, h)
        /\ Wires(plane_en, FALSE, FALSE) /\ plane_en' \in SUBSET Planes /\ ~fifo_clear'
    BY <1>2, <1>t DEF StartRun, Wires
  <2>2. Typed' /\ InStep' /\ Paired' /\ Unfinished'
    BY <1>i, <1>t, <2>1, EdgeKeeps
  <2> QED
    BY <2>1, <2>2 DEF UnitInv
<1>3. ASSUME NEW h \in Handshakes, Stop(h) PROVE UnitInv'
  <2>1. Datapath(h) /\ Latches(FALSE, FALSE, seen_busy, start_pending, h)
        /\ Wires({}, TRUE, FALSE) /\ plane_en' \in SUBSET Planes /\ ~fifo_clear'
    BY <1>3, <1>t DEF Stop, Wires
  <2>2. Typed' /\ InStep' /\ Paired' /\ Unfinished'
    BY <1>i, <1>t, <2>1, EdgeKeeps
  <2> QED
    BY <2>1, <2>2 DEF UnitInv
<1>4. ASSUME NEW h \in Handshakes, NEW en \in SUBSET Planes, WritePlaneEn(en, h)
      PROVE  UnitInv'
  <2>1. Datapath(h) /\ Latches(run_active, done_latched, seen_busy, start_pending, h)
        /\ Wires({}, FALSE, FALSE) /\ plane_en' \in SUBSET Planes /\ ~fifo_clear'
    BY <1>4 DEF WritePlaneEn, Wires
  <2>2. Typed' /\ InStep' /\ Paired' /\ Unfinished'
    BY <1>i, <1>t, <2>1, EdgeKeeps
  <2> QED
    BY <2>1, <2>2 DEF UnitInv
<1>5. CASE UNCHANGED hddu_vars
  <2>1. Typed' /\ InStep' /\ Paired' /\ Unfinished' /\ ~fifo_clear'
    BY <1>5, <1>i DEF hddu_vars, control, wires, queues, environment, history, Typed, InStep,
       Paired, PacketPaired, Unfinished
  <2> QED
    BY <2>1 DEF UnitInv
<1> QED
  BY <1>1, <1>2, <1>3, <1>4, <1>5 DEF EdgeWithoutClear

\* The invariant of the unit without SOFT_RESET.
THEOREM UnitInvariant == UnitSpecWithoutClear => []UnitInv
BY UnitInit, UnitStep, PTL DEF UnitSpecWithoutClear

\* A queue stays within its depth at any edge, whatever is asked of it.
LEMMA EdgeWithin ==
  ASSUME NEW S, NEW s \in Seq(S), Len(s) <= Depth,
         NEW clear, NEW push, NEW pop, NEW d
  PROVE  Len(AfterEdge(s, Depth, clear, push, pop, d)) <= Depth
<1> DEFINE r == Popped(s, pop)
           T == S \cup {d}
<1>1. Depth \in Nat /\ Depth > 0 /\ Len(s) \in Nat
  BY DepthAssumption, LenProperties
<1>2. /\ r \in Seq(S) /\ Len(r) \in Nat /\ Len(r) <= Len(s)
      /\ pop /\ Len(s) > 0 => Len(r) = Len(s) - 1
  <2>1. CASE pop /\ s # <<>>
    BY <2>1, HeadTailProperties, LenProperties DEF Popped, IsEmpty
  <2>2. CASE ~(pop /\ s # <<>>)
    <3>1. r = s
      BY <2>2 DEF Popped, IsEmpty
    <3>2. Len(s) > 0 => s # <<>>
      BY EmptySeq
    <3> QED
      BY <1>1, <2>2, <3>1, <3>2
  <2> QED
    BY <2>1, <2>2
<1>3. r \in Seq(T) /\ d \in T
  BY <1>2
<1> HIDE DEF r, T
<1>4. Append(r, d) \in Seq(T) /\ Len(Append(r, d)) = Len(r) + 1
  BY <1>3, AppendProperties
<1>5. Accepts(s, Depth, push, pop) => Len(r) + 1 <= Depth
  BY <1>1, <1>2 DEF Accepts, IsFull
<1>6. Len(Moved(s, Accepts(s, Depth, push, pop), pop, d)) <= Depth
  <2>1. CASE Accepts(s, Depth, push, pop)
    BY <1>4, <1>5, <2>1 DEF Moved, r
  <2>2. CASE ~Accepts(s, Depth, push, pop)
    <3>1. Moved(s, Accepts(s, Depth, push, pop), pop, d) = r
      BY <2>2 DEF Moved, r
    <3> QED
      BY <1>1, <1>2, <3>1
  <2> QED
    BY <2>1, <2>2
<1>7. Len(<<>>) = 0
  BY EmptySeq
<1> QED
  BY <1>1, <1>6, <1>7 DEF AfterEdge

\* A port that takes a request only below its limit stays within it.
LEMMA PortWithin ==
  ASSUME NEW S, NEW s \in Seq(S), NEW n \in Nat, Len(s) <= n,
         NEW push, push => Len(s) < n, NEW pop, NEW d
  PROVE  Len(Moved(s, push, pop, d)) <= n
<1> DEFINE r == Popped(s, pop)
           T == S \cup {d}
<1>1. r \in Seq(S) /\ Len(r) \in Nat /\ Len(r) <= Len(s) /\ Len(s) \in Nat
  <2>1. CASE pop /\ s # <<>>
    BY <2>1, HeadTailProperties, LenProperties DEF Popped, IsEmpty
  <2>2. CASE ~(pop /\ s # <<>>)
    BY <2>2, LenProperties DEF Popped, IsEmpty
  <2> QED
    BY <2>1, <2>2
<1>2. r \in Seq(T) /\ d \in T
  BY <1>1
<1> HIDE DEF r, T
<1>3. Len(Append(r, d)) = Len(r) + 1
  BY <1>2, AppendProperties
<1>4. CASE push
  <2>1. Len(Moved(s, push, pop, d)) = Len(r) + 1
    BY <1>3, <1>4 DEF Moved, r
  <2>2. Len(s) < n
    BY <1>4
  <2>3. Len(r) + 1 <= n
    BY <1>1, <2>2
  <2> QED
    BY <2>1, <2>3
<1>5. CASE ~push
  <2>1. Moved(s, push, pop, d) = r
    BY <1>5 DEF Moved, r
  <2> QED
    BY <1>1, <2>1
<1> QED
  BY <1>4, <1>5

\* What the ports of the SPM do not take at their limit.
LEMMA PortGuards ==
  ASSUME NEW h \in Handshakes
  PROVE  /\ \A l \in Send : h.rd_req[l] => Len(spm_rd[l]) < SpmLimit
         /\ h.wr_req => Len(spm_wr) < SpmLimit
BY DEF Handshakes

\* Any edge keeps the limits.
LEMMA LimitsStep ==
  ASSUME Typed, WithinLimits, InStep', NEW h \in Handshakes, SendPlanes(h), PloPlane(h)
  PROVE  WithinLimits'
<1>1. SpmLimit \in Nat
  BY RunsAssumption
<1>2. ASSUME NEW l \in Send
      PROVE  /\ Len(wait_fifo'[l]) <= Depth /\ Len(noc_fifo'[l]) <= Depth
             /\ Len(spm_rd'[l]) <= SpmLimit
  <2>1. /\ wait_fifo[l] \in Seq(Descriptor) /\ noc_fifo[l] \in Seq(Packet)
        /\ spm_rd[l] \in Seq(Descriptor)
        /\ Len(wait_fifo[l]) <= Depth /\ Len(noc_fifo[l]) <= Depth
        /\ Len(spm_rd[l]) <= SpmLimit
    BY <1>2 DEF Typed, WithinLimits
  <2>2. /\ wait_fifo'[l] = AfterEdge(wait_fifo[l], Depth, fifo_clear, h.rd_req[l],
                                     h.rd_resp[l], Offered(l))
        /\ noc_fifo'[l] = AfterEdge(noc_fifo[l], Depth, fifo_clear, h.rd_resp[l], h.noc[l],
                                    [tag |-> Head(wait_fifo[l]), data |-> Head(spm_rd[l])])
        /\ spm_rd'[l] = Moved(spm_rd[l], h.rd_req[l], h.rd_resp[l], Offered(l))
    BY <1>2 DEF SendPlanes
  <2>3. h.rd_req[l] => Len(spm_rd[l]) < SpmLimit
    BY PortGuards
  <2>4. Len(wait_fifo'[l]) <= Depth
    BY <2>1, <2>2, EdgeWithin
  <2>5. Len(noc_fifo'[l]) <= Depth
    BY <2>1, <2>2, EdgeWithin
  <2>6. Len(spm_rd'[l]) <= SpmLimit
    BY <1>1, <2>1, <2>2, <2>3, PortWithin
  <2> QED
    BY <2>4, <2>5, <2>6
<1>3. /\ write_addr_fifo \in Seq(Descriptor) /\ spm_req_fifo \in Seq(Packet)
      /\ spm_wr \in Seq(Packet)
      /\ Len(write_addr_fifo) <= Depth /\ Len(spm_req_fifo) <= Depth
      /\ Len(spm_wr) <= SpmLimit
  BY DEF Typed, WithinLimits
<1>4. /\ write_addr_fifo' =
            AfterEdge(write_addr_fifo, Depth, fifo_clear, h.plo_req, h.plo_resp, Offered(PLO))
      /\ spm_req_fifo' =
            AfterEdge(spm_req_fifo, Depth, fifo_clear, h.plo_resp, h.wr_req,
                      [tag |-> Head(write_addr_fifo), data |-> Head(noc_plo)])
      /\ spm_wr' = Moved(spm_wr, h.wr_req, h.wr_resp, Head(spm_req_fifo))
  BY DEF PloPlane
<1>5. h.wr_req => Len(spm_wr) < SpmLimit
  BY PortGuards
<1>6. Len(write_addr_fifo') <= Depth
  BY <1>3, <1>4, EdgeWithin
<1>7. Len(spm_req_fifo') <= Depth
  BY <1>3, <1>4, EdgeWithin
<1>8. Len(spm_wr') <= SpmLimit
  BY <1>1, <1>3, <1>4, <1>5, PortWithin
<1>9. Len(noc_plo') <= Depth /\ plo_wr_outstanding' <= SpmLimit
  BY <1>6, <1>8 DEF InStep
<1> QED
  BY <1>2, <1>6, <1>7, <1>8, <1>9 DEF WithinLimits

\* At the start all queues are empty.
LEMMA LimitsInit == HdduInit => WithinLimits
BY DepthAssumption, RunsAssumption, EmptySeq DEF HdduInit, WithinLimits

\* Registers, latches, queues and AGUs stay in their types, no queue holds more than
\* its depth, and no port of the SPM more than its limit, whatever commands arrive.
THEOREM UnitTyping == UnitSpecWithoutClear => []HdduTypeOK
<1>1. UnitInv => Typed
  BY DEF UnitInv
<1>2. UnitInv /\ UnitInv' /\ WithinLimits /\ [EdgeWithoutClear]_hddu_vars => WithinLimits'
  <2> SUFFICES ASSUME UnitInv, UnitInv', WithinLimits, [EdgeWithoutClear]_hddu_vars
               PROVE  WithinLimits'
    OBVIOUS
  <2>1. CASE EdgeWithoutClear
    <3>1. PICK h \in Handshakes : SendPlanes(h) /\ PloPlane(h)
      BY <2>1 DEF EdgeWithoutClear, NoCommand, StartRun, Stop, WritePlaneEn, Datapath
    <3> QED
      BY <3>1, LimitsStep DEF UnitInv
  <2>2. CASE UNCHANGED hddu_vars
    BY <2>2 DEF hddu_vars, control, queues, environment, WithinLimits
  <2> QED
    BY <2>1, <2>2
<1> QED
  BY <1>1, <1>2, LimitsInit, UnitInvariant, PTL DEF UnitSpecWithoutClear, HdduTypeOK

\* Data and tag of every packet belong together, whatever commands arrive.
THEOREM UnitPaired == UnitSpecWithoutClear => []Paired
<1>1. UnitInv => Paired
  BY DEF UnitInv
<1> QED
  BY <1>1, UnitInvariant, PTL

\* What waits for an answer is what the SPM and the NoC have in hand.
THEOREM UnitInStep == UnitSpecWithoutClear => []InStep
<1>1. UnitInv => InStep
  BY DEF UnitInv
<1> QED
  BY <1>1, UnitInvariant, PTL

-----------------------------------------------------------------------------
(* The unit under its firmware.                                            *)

\* An AGU that does nothing, has just begun, runs, or has ended its run.  Flags
\* are compared, which suits the provers better than using them as formulas.
Resting(a) == a.state = "IDLE" /\ a.busy_reg = FALSE /\ a.busy = FALSE /\ a.valid = FALSE
Fresh(a) == a.state = "RUN" /\ a.busy_reg = TRUE /\ a.busy = FALSE /\ a.valid = FALSE
Working(a) == a.state = "RUN" /\ a.busy_reg = TRUE /\ a.busy = TRUE
Ended(a) ==
  /\ a.busy_reg = FALSE /\ a.valid = FALSE /\ a.sent = a.total
  /\ (a.state = "DONE" /\ a.busy = TRUE) \/ (a.state = "IDLE" /\ a.busy = FALSE)

\* An AGU that rests goes on resting unless START reaches it.
LEMMA RestingEdge ==
  ASSUME NEW a \in Record(MaxTotal), Resting(a), NEW ready, NEW produce
  PROVE  /\ Resting(Edge(a, FALSE, FALSE, FALSE, ready, produce))
         /\ Edge(a, FALSE, FALSE, FALSE, ready, produce).sent = a.sent
         /\ Edge(a, FALSE, FALSE, FALSE, ready, produce).total = a.total
<1> DEFINE Good(e) == Resting(e) /\ e.sent = a.sent /\ e.total = a.total
<1>1. Good(After(a, "IDLE", a.busy_reg, a.valid, a.sent))
  BY DEF After, Resting
<1>2. Edge(a, FALSE, FALSE, FALSE, ready, produce)
        = After(a, "IDLE", a.busy_reg, a.valid, a.sent)
  BY DEF Edge, Begins, Resting
<1> QED
  BY <1>1, <1>2

\* The same when STOP reaches it.
LEMMA RestingStopped ==
  ASSUME NEW a \in Record(MaxTotal), Resting(a), NEW ready, NEW produce
  PROVE  /\ Resting(Edge(a, FALSE, TRUE, FALSE, ready, produce))
         /\ Edge(a, FALSE, TRUE, FALSE, ready, produce).sent = a.sent
         /\ Edge(a, FALSE, TRUE, FALSE, ready, produce).total = a.total
<1> DEFINE Good(e) == Resting(e) /\ e.sent = a.sent /\ e.total = a.total
<1>1. Good(Halted(a))
  BY DEF Halted, After, Resting
<1>2. Edge(a, FALSE, TRUE, FALSE, ready, produce) = Halted(a)
  BY DEF Edge, Begins
<1> QED
  BY <1>1, <1>2

\* START reaches a resting AGU.
LEMMA BeginEdge ==
  ASSUME NEW a \in Record(MaxTotal), Resting(a), NEW ready, NEW produce
  PROVE  /\ Fresh(Edge(a, TRUE, FALSE, FALSE, ready, produce))
         /\ Edge(a, TRUE, FALSE, FALSE, ready, produce).sent = 0
         /\ Edge(a, TRUE, FALSE, FALSE, ready, produce).total = a.total
<1> DEFINE Good(e) == Fresh(e) /\ e.sent = 0 /\ e.total = a.total
<1>1. Good(Begun(a))
  BY DEF Begun, After, Resting, Fresh
<1>2. Edge(a, TRUE, FALSE, FALSE, ready, produce) = Begun(a)
  BY DEF Edge, Begins, Resting
<1> QED
  BY <1>1, <1>2

\* A running AGU moves on by what was taken of it.
LEMMA RunningEdge ==
  ASSUME NEW a \in Record(MaxTotal), Fresh(a) \/ Working(a), a.sent < a.total,
         NEW ready \in BOOLEAN, ready => a.valid, NEW produce \in BOOLEAN
  PROVE  /\ \/ Working(Edge(a, FALSE, FALSE, FALSE, ready, produce))
            \/ Ended(Edge(a, FALSE, FALSE, FALSE, ready, produce))
         /\ Edge(a, FALSE, FALSE, FALSE, ready, produce).sent = a.sent + One(ready)
         /\ Edge(a, FALSE, FALSE, FALSE, ready, produce).total = a.total
<1> DEFINE Good(e, n) == (Working(e) \/ Ended(e)) /\ e.sent = n /\ e.total = a.total
<1>f. a.sent \in Nat /\ a.total \in Nat
  BY RecordFields
<1>1. a.state = "RUN" /\ a.busy_reg = TRUE
  BY DEF Fresh, Working
<1>2. ASSUME NEW v, NEW n PROVE Good(Running(a, v, n), n)
  BY <1>1 DEF Running, After, Working
<1>3. a.sent + 1 = a.total => Good(Finished(a), a.sent + 1)
  BY <1>1 DEF Finished, After, Ended
<1> HIDE DEF Good
<1>4. Good(RunEdge(a, ready, produce), a.sent + One(ready))
  <2>1. CASE ~ready
    <3>1. RunEdge(a, ready, produce) \in {Running(a, TRUE, a.sent), Running(a, produce, a.sent)}
      BY <2>1 DEF RunEdge
    <3>2. a.sent + One(ready) = a.sent
      BY <1>f, <2>1 DEF One
    <3> QED
      BY <1>2, <3>1, <3>2
  <2>2. CASE ready
    <3>1. RunEdge(a, ready, produce) = IF a.sent + 1 = a.total THEN Finished(a)
                                       ELSE Running(a, produce, a.sent + 1)
      BY <2>2 DEF RunEdge
    <3>2. a.sent + One(ready) = a.sent + 1
      BY <2>2 DEF One
    <3> QED
      BY <1>2, <1>3, <3>1, <3>2
  <2> QED
    BY <2>1, <2>2
<1>5. Edge(a, FALSE, FALSE, FALSE, ready, produce) = RunEdge(a, ready, produce)
  BY <1>1 DEF Edge, Begins
<1> QED
  BY <1>4, <1>5 DEF Good

\* An AGU that has ended its run rests once its busy output has fallen.
LEMMA EndedEdge ==
  ASSUME NEW a \in Record(MaxTotal), Ended(a), NEW ready, NEW produce
  PROVE  /\ Ended(Edge(a, FALSE, FALSE, FALSE, ready, produce))
         /\ Edge(a, FALSE, FALSE, FALSE, ready, produce).sent = a.sent
         /\ Edge(a, FALSE, FALSE, FALSE, ready, produce).total = a.total
<1> DEFINE Good(e) == Ended(e) /\ e.sent = a.sent /\ e.total = a.total
<1>1. Good(After(a, "IDLE", a.busy_reg, a.valid, a.sent))
  BY DEF After, Ended
<1>2. Edge(a, FALSE, FALSE, FALSE, ready, produce)
        = After(a, "IDLE", a.busy_reg, a.valid, a.sent)
  BY DEF Edge, Begins, Ended
<1> QED
  BY <1>1, <1>2

-----------------------------------------------------------------------------
(* The queues.                                                             *)

\* The entries of s are numbered from base on, by the pairs that key gives them.
Numbered(key, s, r, base) == \A i \in 1 .. Len(s) : key[s[i]] = <<r, base + i - 1>>

\* A numbered queue is numbered from the next one on when its head has left.
LEMMA NumberedMove ==
  ASSUME NEW S, NEW s \in Seq(S), NEW push, NEW pop, NEW d,
         push => d \in S, pop => s # <<>>,
         NEW key, NEW r, NEW base \in Nat,
         Numbered(key, s, r, base),
         push => key[d] = <<r, base + Len(s)>>
  PROVE  /\ Numbered(key, Moved(s, push, pop, d), r, base + One(pop))
         /\ Len(Moved(s, push, pop, d)) = Len(s) + One(push) - One(pop)
         /\ pop => key[Head(s)] = <<r, base>> /\ Head(s) \in S
<1> DEFINE m == Moved(s, push, pop, d)
<1>1. /\ Len(m) = Len(s) + One(push) - One(pop)
      /\ Len(s) \in Nat
      /\ \A i \in 1 .. Len(m) : m[i] = IF i + One(pop) <= Len(s) THEN s[i + One(pop)] ELSE d
      /\ pop => Head(s) = s[1] /\ s[1] \in S /\ Len(s) > 0
  BY MovedProps, SMTT(60)
<1>2. One(pop) \in 0 .. 1 /\ One(push) \in 0 .. 1 /\ (~push => One(push) = 0)
  BY DEF One
<1> HIDE DEF m
<1>3. ASSUME NEW i \in 1 .. Len(m) PROVE key[m[i]] = <<r, base + One(pop) + i - 1>>
  <2>0. i \in Int /\ 1 <= i /\ i <= Len(s) + One(push) - One(pop)
    BY <1>1, <1>2
  <2>1. CASE i + One(pop) <= Len(s)
    <3>1. i + One(pop) \in 1 .. Len(s)
      BY <1>1, <1>2, <2>0, <2>1
    <3>2. base + (i + One(pop)) - 1 = base + One(pop) + i - 1
      BY <1>2, <2>0
    <3>3. key[s[i + One(pop)]] = <<r, base + (i + One(pop)) - 1>>
      BY <3>1 DEF Numbered
    <3> QED
      BY <1>1, <2>1, <3>2, <3>3
  <2>2. CASE ~(i + One(pop) <= Len(s))
    <3>1. push /\ i + One(pop) = Len(s) + 1
      BY <1>1, <1>2, <2>0, <2>2
    <3>2. base + Len(s) = base + One(pop) + i - 1
      BY <1>1, <1>2, <2>0, <3>1
    <3> QED
      BY <1>1, <2>2, <3>1, <3>2
  <2> QED
    BY <2>1, <2>2
<1>4. pop => key[Head(s)] = <<r, base>>
  <2>1. pop => 1 \in 1 .. Len(s) /\ base + 1 - 1 = base
    BY <1>1
  <2>2. pop => key[s[1]] = <<r, base + 1 - 1>>
    BY <2>1 DEF Numbered
  <2> QED
    BY <1>1, <2>1, <2>2
<1>5. Numbered(key, m, r, base + One(pop))
  BY <1>3 DEF Numbered
<1> QED
  BY <1>1, <1>4, <1>5 DEF m

\* The keys of the entries of the queues.
TagOf == [x \in Packet |-> x.tag]
Itself == [x \in Descriptor |-> x]

\* The queues of a send plane stay in order through an edge at which its count
\* of taken descriptors and its count of delivered ones follow the handshakes.
LEMMA SendOrderStep ==
  ASSUME Typed, InStep, Paired, ~fifo_clear, NEW h \in Handshakes, SendPlanes(h),
         NEW l \in Send, SendPlaneInOrder(l), run'[l] = run[l],
         delivered'[l] = delivered[l] + One(h.noc[l]),
         agu'[l].sent = agu[l].sent + One(h.rd_req[l])
  PROVE  SendPlaneInOrder(l)'
<1> DEFINE W == wait_fifo[l]
           N == noc_fifo[l]
           W2 == wait_fifo'[l]
           N2 == noc_fifo'[l]
           D == delivered[l]
           B == D + Len(N)
           rq == One(h.rd_req[l])
           rp == One(h.rd_resp[l])
           nc == One(h.noc[l])
           d == Head(W)
           e == [tag |-> d, data |-> d]
<1>t. /\ W \in Seq(Descriptor) /\ N \in Seq(Packet) /\ l \in Planes
      /\ D \in Nat /\ agu[l] \in Record(MaxTotal)
      /\ Len(W) \in Nat /\ Len(N) \in Nat /\ B = D + Len(N)
      /\ rq \in 0 .. 1 /\ rp \in 0 .. 1 /\ nc \in 0 .. 1
  BY LenProperties DEF Typed, Planes, One
<1>g. /\ h.rd_resp[l] => W # <<>>
      /\ h.noc[l] => N # <<>>
  BY HandshakeGuards DEF SpmReadRespReady, NocValid, IsEmpty
<1>m. /\ W2 = Moved(W, h.rd_req[l], h.rd_resp[l], Offered(l))
      /\ N2 = Moved(N, h.rd_resp[l], h.noc[l], e)
  BY SendMoves
<1>y. W2 \in Seq(Descriptor) /\ N2 \in Seq(Packet)
  BY SendStep
<1>1. /\ \A i \in 1 .. Len(N) : N[i].tag = Nth(l, D + i - 1)
      /\ \A i \in 1 .. Len(W) : W[i] = Nth(l, B + i - 1)
      /\ B + Len(W) = agu[l].sent
  BY DEF SendPlaneInOrder
<1>2. Offered(l) \in Descriptor /\ Offered(l) = <<run[l], B + Len(W)>>
  BY <1>1, <1>t, OfferedTyped DEF Offered
<1>s. delivered'[l] = D + nc /\ agu'[l].sent = agu[l].sent + rq
  OBVIOUS
<1> HIDE DEF W, N, W2, N2, D, B, d
<1>3. Numbered(Itself, W, run[l], B)
  BY <1>1, <1>t, ElementOfSeq DEF Itself, Nth, Numbered
<1>4. /\ Numbered(Itself, W2, run[l], B + rp)
      /\ Len(W2) = Len(W) + rq - rp
      /\ h.rd_resp[l] => Itself[d] = <<run[l], B>> /\ d \in Descriptor
  <2>1. B \in Nat /\ Itself[Offered(l)] = <<run[l], B + Len(W)>>
    BY <1>2, <1>t DEF Itself
  <2> HIDE DEF e
  <2>2. /\ Numbered(Itself, Moved(W, h.rd_req[l], h.rd_resp[l], Offered(l)), run[l], B + rp)
        /\ Len(Moved(W, h.rd_req[l], h.rd_resp[l], Offered(l))) = Len(W) + rq - rp
        /\ h.rd_resp[l] => Itself[Head(W)] = <<run[l], B>> /\ Head(W) \in Descriptor
    <3> DEFINE o == Offered(l)
    <3>1. o \in Descriptor /\ Itself[o] = <<run[l], B + Len(W)>>
      BY <1>2, <2>1
    <3> HIDE DEF o
    <3>2. W \in Seq(Descriptor) /\ (h.rd_resp[l] => W # <<>>) /\ B \in Nat
      BY <1>t, <1>g, <2>1
    <3>3. /\ Numbered(Itself, Moved(W, h.rd_req[l], h.rd_resp[l], o), run[l], B + rp)
          /\ Len(Moved(W, h.rd_req[l], h.rd_resp[l], o)) = Len(W) + rq - rp
          /\ h.rd_resp[l] => Itself[Head(W)] = <<run[l], B>> /\ Head(W) \in Descriptor
      BY <1>3, <3>1, <3>2, NumberedMove
    <3> QED
      BY <3>3 DEF o
  <2> QED
    BY <1>m, <2>2 DEF d
<1>5. h.rd_resp[l] => e \in Packet /\ TagOf[e] = <<run[l], D + Len(N)>>
  BY <1>4, <1>t DEF Packet, TagOf, Itself
<1>6. Numbered(TagOf, N, run[l], D)
  BY <1>1, <1>t, ElementOfSeq DEF TagOf, Nth, Numbered
<1> HIDE DEF e
<1>7. /\ Numbered(TagOf, N2, run[l], D + nc)
      /\ Len(N2) = Len(N) + rp - nc
  BY <1>t, <1>g, <1>m, <1>5, <1>6, NumberedMove
<1> HIDE DEF rq, rp, nc
<1>8. delivered'[l] + Len(N2) = B + rp /\ delivered'[l] + Len(N2) + Len(W2) = agu'[l].sent
  <2>1. D + nc + Len(N2) = B + rp
    BY <1>t, <1>7
  <2>2. B + rp + Len(W2) = B + Len(W) + rq
    BY <1>t, <1>4
  <2> QED
    BY <1>1, <1>s, <2>1, <2>2
<1>9. \A i \in 1 .. Len(N2) : N2[i].tag = <<run[l], delivered'[l] + i - 1>>
  BY <1>7, <1>s, <1>y, ElementOfSeq DEF TagOf, Numbered
<1>10. \A i \in 1 .. Len(W2) : W2[i] = <<run[l], delivered'[l] + Len(N2) + i - 1>>
  BY <1>4, <1>8, <1>y, ElementOfSeq DEF Itself, Numbered
<1>11. \A n : Nth(l, n)' = <<run[l], n>>
  BY DEF Nth
<1> QED
  BY <1>8, <1>9, <1>10, <1>11 DEF SendPlaneInOrder, W2, N2

\* The same of the PLO plane.
LEMMA PloOrderStep ==
  ASSUME Typed, InStep, Paired, ~fifo_clear, NEW h \in Handshakes, PloPlane(h),
         PloInOrder, run'[PLO] = run[PLO],
         delivered'[PLO] = delivered[PLO] + One(h.wr_resp),
         agu'[PLO].sent = agu[PLO].sent + One(h.plo_req)
  PROVE  PloInOrder'
<1> DEFINE W == write_addr_fifo
           Q == spm_req_fifo
           S == spm_wr
           W2 == write_addr_fifo'
           Q2 == spm_req_fifo'
           S2 == spm_wr'
           r == run[PLO]
           D == delivered[PLO]
           B == D + Len(S)
           C == B + Len(Q)
           rq == One(h.plo_req)
           rp == One(h.plo_resp)
           wq == One(h.wr_req)
           wp == One(h.wr_resp)
           o == Offered(PLO)
           d == Head(W)
           e == [tag |-> d, data |-> d]
           f == Head(Q)
<1>t. /\ W \in Seq(Descriptor) /\ Q \in Seq(Packet) /\ S \in Seq(Packet) /\ PLO \in Planes
      /\ D \in Nat /\ agu[PLO] \in Record(MaxTotal)
      /\ Len(W) \in Nat /\ Len(Q) \in Nat /\ Len(S) \in Nat
      /\ rq \in 0 .. 1 /\ rp \in 0 .. 1 /\ wq \in 0 .. 1 /\ wp \in 0 .. 1
  BY LenProperties DEF Typed, Planes, One
<1>u. B \in Nat /\ C \in Nat /\ B = D + Len(S) /\ C = B + Len(Q)
  BY <1>t
<1>g. /\ h.plo_resp => W # <<>>
      /\ h.wr_req => Q # <<>>
      /\ h.wr_resp => S # <<>>
  BY HandshakeGuards DEF NocPloRespReady, SpmWriteValid, IsEmpty
<1>m. /\ W2 = Moved(W, h.plo_req, h.plo_resp, o)
      /\ Q2 = Moved(Q, h.plo_resp, h.wr_req, e)
      /\ S2 = Moved(S, h.wr_req, h.wr_resp, f)
  BY PloMoves
<1>y. W2 \in Seq(Descriptor) /\ Q2 \in Seq(Packet) /\ S2 \in Seq(Packet)
  BY PloStep
<1>1. /\ \A i \in 1 .. Len(S) : S[i].tag = Nth(PLO, D + i - 1)
      /\ \A i \in 1 .. Len(Q) : Q[i].tag = Nth(PLO, B + i - 1)
      /\ \A i \in 1 .. Len(W) : W[i] = Nth(PLO, C + i - 1)
      /\ C + Len(W) = agu[PLO].sent
  BY DEF PloInOrder
<1>2. o \in Descriptor /\ Itself[o] = <<r, C + Len(W)>>
  BY <1>1, <1>t, OfferedTyped DEF Offered, Itself
<1>s. delivered'[PLO] = D + wp /\ agu'[PLO].sent = agu[PLO].sent + rq
  OBVIOUS
<1>n. \A n : Nth(PLO, n) = <<r, n>>
  BY DEF Nth
<1>p. \A n : Nth(PLO, n)' = <<r, n>>
  BY DEF Nth
<1> HIDE DEF W, Q, S, W2, Q2, S2, D, B, C, o, d, r
<1>3. Numbered(Itself, W, r, C)
  BY <1>1, <1>n, <1>t, ElementOfSeq DEF Itself, Numbered
<1>4. Numbered(TagOf, Q, r, B)
  BY <1>1, <1>n, <1>t, ElementOfSeq DEF TagOf, Numbered
<1>5. Numbered(TagOf, S, r, D)
  BY <1>1, <1>n, <1>t, ElementOfSeq DEF TagOf, Numbered
<1>6. /\ Numbered(Itself, W2, r, C + rp)
      /\ Len(W2) = Len(W) + rq - rp
      /\ h.plo_resp => Itself[d] = <<r, C>> /\ d \in Descriptor
  <2> HIDE DEF e, f
  <2>1. /\ Numbered(Itself, Moved(W, h.plo_req, h.plo_resp, o), r, C + rp)
        /\ Len(Moved(W, h.plo_req, h.plo_resp, o)) = Len(W) + rq - rp
        /\ h.plo_resp => Itself[Head(W)] = <<r, C>> /\ Head(W) \in Descriptor
    BY <1>t, <1>u, <1>g, <1>2, <1>3, NumberedMove
  <2> QED
    BY <1>m, <2>1 DEF d
<1>7. h.plo_resp => e \in Packet /\ TagOf[e] = <<r, B + Len(Q)>>
  BY <1>6, <1>u DEF Packet, TagOf, Itself
<1> HIDE DEF e, f
<1>8. /\ Numbered(TagOf, Q2, r, B + wq)
      /\ Len(Q2) = Len(Q) + rp - wq
      /\ h.wr_req => TagOf[f] = <<r, B>> /\ f \in Packet
  <2>1. /\ Numbered(TagOf, Moved(Q, h.plo_resp, h.wr_req, e), r, B + wq)
        /\ Len(Moved(Q, h.plo_resp, h.wr_req, e)) = Len(Q) + rp - wq
        /\ h.wr_req => TagOf[Head(Q)] = <<r, B>> /\ Head(Q) \in Packet
    <3>1. Q \in Seq(Packet) /\ (h.wr_req => Q # <<>>) /\ B \in Nat
      BY <1>t, <1>u, <1>g
    <3> QED
      BY <1>4, <1>7, <3>1, NumberedMove
  <2> QED
    BY <1>m, <2>1 DEF f
<1>9. /\ Numbered(TagOf, S2, r, D + wp)
      /\ Len(S2) = Len(S) + wq - wp
  <2>1. h.wr_req => f \in Packet /\ TagOf[f] = <<r, D + Len(S)>>
    BY <1>8, <1>u
  <2> QED
    BY <1>t, <1>g, <1>m, <2>1, <1>5, NumberedMove
<1> HIDE DEF rq, rp, wq, wp
<1>10. /\ delivered'[PLO] + Len(S2) = B + wq
       /\ delivered'[PLO] + Len(S2) + Len(Q2) = C + rp
       /\ delivered'[PLO] + Len(S2) + Len(Q2) + Len(W2) = agu'[PLO].sent
  <2>1. D + wp + Len(S2) = B + wq
    BY <1>t, <1>u, <1>9
  <2>2. B + wq + Len(Q2) = C + rp
    BY <1>t, <1>u, <1>8
  <2>3. C + rp + Len(W2) = C + Len(W) + rq
    BY <1>t, <1>u, <1>6
  <2> QED
    BY <1>1, <1>s, <2>1, <2>2, <2>3
<1>11. \A i \in 1 .. Len(S2) : S2[i].tag = <<r, delivered'[PLO] + i - 1>>
  BY <1>9, <1>s, <1>y, ElementOfSeq DEF TagOf, Numbered
<1>12. \A i \in 1 .. Len(Q2) : Q2[i].tag = <<r, delivered'[PLO] + Len(S2) + i - 1>>
  BY <1>8, <1>10, <1>y, ElementOfSeq DEF TagOf, Numbered
<1>13. \A i \in 1 .. Len(W2) : W2[i] = <<r, delivered'[PLO] + Len(S2) + Len(Q2) + i - 1>>
  BY <1>6, <1>10, <1>y, ElementOfSeq DEF Itself, Numbered
<1> QED
  BY <1>10, <1>11, <1>12, <1>13, <1>p DEF PloInOrder, W2, Q2, S2

-----------------------------------------------------------------------------
(* The AGUs.                                                               *)

\* What an edge gives an AGU that no START reaches, or that one reaches.
LEMMA AguInputs ==
  ASSUME Typed, NEW h \in Handshakes, AguEdges(h), NEW p \in Planes
  PROVE  /\ p \notin agu_start => agu'[p] = Edge(agu[p], FALSE, agu_stop, FALSE,
                                                 Taken(h, p), h.produce[p])
         /\ p \in agu_start => agu'[p] = Edge(agu[p], TRUE, agu_stop, FALSE,
                                              Taken(h, p), h.produce[p])
         /\ Taken(h, p) \in BOOLEAN /\ h.produce[p] \in BOOLEAN
         /\ Taken(h, p) => agu[p].valid
<1>1. agu'[p] = Edge(agu[p], p \in agu_start, agu_stop, FALSE, Taken(h, p), h.produce[p])
  BY DEF AguEdges
<1>2. p \notin agu_start => (p \in agu_start) = FALSE
  OBVIOUS
<1>3. p \in agu_start => (p \in agu_start) = TRUE
  OBVIOUS
<1>4. Taken(h, p) \in BOOLEAN /\ h.produce[p] \in BOOLEAN /\ (Taken(h, p) => agu[p].valid)
  BY HandshakeGuards DEF Taken, Planes, SpmReadValid, NocPloReqValid
<1> QED
  BY <1>1, <1>2, <1>3, <1>4

\* The history of a plane whose AGU no START reaches.
LEMMA HistoryKept ==
  ASSUME Typed, NEW h \in Handshakes, AguEdges(h), NEW p \in Planes,
         p \notin agu_start
  PROVE  run'[p] = run[p] /\ delivered'[p] = delivered[p] + One(Delivers(h, p))
<1>1. ~BeginsRun(p)
  BY DEF BeginsRun, Begins
<1>2. /\ run'[p] = IF BeginsRun(p) THEN run[p] + 1 ELSE run[p]
      /\ delivered'[p] = IF BeginsRun(p) THEN 0
                         ELSE IF Delivers(h, p) THEN delivered[p] + 1 ELSE delivered[p]
  BY DEF AguEdges
<1>3. delivered[p] \in Nat
  BY DEF Typed
<1> QED
  BY <1>1, <1>2, <1>3 DEF One

\* An edge without START, STOP or a clear on the wires, whatever the AGUs do.
LEMMA ActiveAgus ==
  ASSUME Typed, Unfinished, agu_start = {}, ~agu_stop, NEW h \in Handshakes,
         AguEdges(h), NEW p \in Planes,
         \/ Fresh(agu[p]) \/ Working(agu[p]) \/ Ended(agu[p]) \/ Resting(agu[p])
  PROVE  /\ Fresh(agu[p]) \/ Working(agu[p]) => Working(agu'[p]) \/ Ended(agu'[p])
         /\ Ended(agu[p]) => Ended(agu'[p])
         /\ Resting(agu[p]) => Resting(agu'[p])
         /\ agu'[p].sent = agu[p].sent + One(Taken(h, p))
         /\ agu'[p].total = agu[p].total
<1> DEFINE a == agu[p]
           b == agu'[p]
           k == Taken(h, p)
           q == h.produce[p]
<1>1. b = Edge(a, FALSE, FALSE, FALSE, k, q)
  <2>1. agu_stop = FALSE /\ p \notin agu_start
    BY DEF Typed
  <2> QED
    BY <2>1, AguInputs
<1>2. k \in BOOLEAN /\ q \in BOOLEAN /\ (k => a.valid)
  BY AguInputs
<1>3. a \in Record(MaxTotal) /\ (a.state = "RUN" => a.sent < a.total)
  BY DEF Typed, Unfinished
<1>4. a.sent \in Nat
  BY <1>3, RecordFields
<1>5. Fresh(a) \/ Working(a) \/ Ended(a) \/ Resting(a)
  OBVIOUS
<1> HIDE DEF a, b, k, q
<1>6. CASE Fresh(a) \/ Working(a)
  <2>1. a.sent < a.total /\ ~Ended(a) /\ ~Resting(a)
    BY <1>3, <1>6 DEF Fresh, Working, Ended, Resting
  <2>2. /\ \/ Working(Edge(a, FALSE, FALSE, FALSE, k, q))
           \/ Ended(Edge(a, FALSE, FALSE, FALSE, k, q))
        /\ Edge(a, FALSE, FALSE, FALSE, k, q).sent = a.sent + One(k)
        /\ Edge(a, FALSE, FALSE, FALSE, k, q).total = a.total
    BY <1>2, <1>3, <1>6, <2>1, RunningEdge
  <2>3. (Working(b) \/ Ended(b)) /\ b.sent = a.sent + One(k) /\ b.total = a.total
    BY <1>1, <2>2
  <2> QED
    BY <2>1, <2>3 DEF a, b, k
<1>7. CASE Ended(a) \/ Resting(a)
  <2>1. ~Fresh(a) /\ ~Working(a)
    BY <1>7 DEF Fresh, Working, Ended, Resting
  <2>2. One(k) = 0
    BY <1>2, <1>7 DEF One, Ended, Resting
  <2>3. Ended(a) => Ended(b) /\ b.sent = a.sent /\ b.total = a.total
    <3>1. Ended(a) => /\ Ended(Edge(a, FALSE, FALSE, FALSE, k, q))
                      /\ Edge(a, FALSE, FALSE, FALSE, k, q).sent = a.sent
                      /\ Edge(a, FALSE, FALSE, FALSE, k, q).total = a.total
      BY <1>3, EndedEdge
    <3> QED
      BY <1>1, <3>1
  <2>4. Resting(a) => Resting(b) /\ b.sent = a.sent /\ b.total = a.total
    <3>1. Resting(a) => /\ Resting(Edge(a, FALSE, FALSE, FALSE, k, q))
                        /\ Edge(a, FALSE, FALSE, FALSE, k, q).sent = a.sent
                        /\ Edge(a, FALSE, FALSE, FALSE, k, q).total = a.total
      BY <1>3, RestingEdge
    <3> QED
      BY <1>1, <3>1
  <2>5. a.sent + One(k) = a.sent
    BY <1>4, <2>2
  <2> QED
    BY <1>7, <2>1, <2>3, <2>4, <2>5 DEF a, b, k
<1> QED
  BY <1>5, <1>6, <1>7

-----------------------------------------------------------------------------
(* A unit at rest.                                                         *)

Drained == internal_queues_empty /\ spm_wr = <<>>

AllRest == \A p \in Planes : Resting(agu[p])

\* Nothing can happen in a unit without data and without descriptors, whether
\* or not its queues are cleared.
LEMMA NoTraffic ==
  ASSUME Typed, InStep, Drained, \A p \in Planes : agu[p].valid = FALSE,
         NEW h \in Handshakes, SendPlanes(h), PloPlane(h)
  PROVE  /\ wait_fifo' = [l \in Send |-> <<>>] /\ noc_fifo' = [l \in Send |-> <<>>]
         /\ spm_rd' = [l \in Send |-> <<>>]
         /\ write_addr_fifo' = <<>> /\ spm_req_fifo' = <<>>
         /\ noc_plo' = <<>> /\ spm_wr' = <<>>
         /\ Outstanding(h) = 0
         /\ \A p \in Planes : Delivers(h, p) = FALSE
<1> DEFINE Nothing(s) == s = <<>>
<1>1. /\ \A l \in Send : wait_fifo[l] = <<>> /\ noc_fifo[l] = <<>> /\ spm_rd[l] = <<>>
      /\ write_addr_fifo = <<>> /\ spm_req_fifo = <<>> /\ noc_plo = <<>> /\ spm_wr = <<>>
      /\ plo_wr_outstanding = 0
  BY DEF Drained, internal_queues_empty, IsEmpty, InStep
<1>2. /\ \A l \in Send : h.rd_req[l] = FALSE /\ h.rd_resp[l] = FALSE /\ h.noc[l] = FALSE
      /\ h.plo_req = FALSE /\ h.plo_resp = FALSE /\ h.wr_req = FALSE
      /\ h.wr_resp = FALSE
  <2>1. \A l \in Send : ~SpmReadValid(l) /\ ~SpmReadRespReady(l) /\ ~NocValid(l)
    BY <1>1 DEF SpmReadValid, SpmReadRespReady, NocValid, IsEmpty, Planes
  <2>2. ~NocPloReqValid /\ ~NocPloRespReady /\ ~SpmWriteValid
    BY <1>1 DEF NocPloReqValid, NocPloRespReady, SpmWriteValid, IsEmpty, Planes
  <2> QED
    BY <1>1, <2>1, <2>2, HandshakeGuards
<1>3. \A clear, d : /\ AfterEdge(<<>>, Depth, clear, FALSE, FALSE, d) = <<>>
                    /\ Moved(<<>>, FALSE, FALSE, d) = <<>>
  BY DEF AfterEdge, Moved, Accepts, Popped
<1>4. ASSUME NEW l \in Send
      PROVE  wait_fifo'[l] = <<>> /\ noc_fifo'[l] = <<>> /\ spm_rd'[l] = <<>>
  BY <1>1, <1>2, <1>3 DEF SendPlanes
<1>5. /\ wait_fifo' = [l \in Send |-> wait_fifo'[l]]
      /\ noc_fifo' = [l \in Send |-> noc_fifo'[l]]
      /\ spm_rd' = [l \in Send |-> spm_rd'[l]]
  BY DEF SendPlanes
<1>6. write_addr_fifo' = <<>> /\ spm_req_fifo' = <<>> /\ noc_plo' = <<>> /\ spm_wr' = <<>>
  BY <1>1, <1>2, <1>3 DEF PloPlane
<1>7. Outstanding(h) = 0
  BY <1>1, <1>2 DEF Outstanding
<1>8. \A p \in Planes : Delivers(h, p) = FALSE
  BY <1>2 DEF Delivers, Planes
<1> QED
  BY <1>4, <1>5, <1>6, <1>7, <1>8

\* An edge of AGUs that all rest: those that START reaches begin.
LEMMA RestAgus ==
  ASSUME Typed, AllRest, agu_start = {} \/ ~agu_stop, NEW h \in Handshakes,
         AguEdges(h), NEW p \in Planes
  PROVE  /\ p \in agu_start => /\ Fresh(agu'[p]) /\ agu'[p].sent = 0
                               /\ delivered'[p] = 0
         /\ p \notin agu_start => /\ Resting(agu'[p]) /\ agu'[p].sent = agu[p].sent
                                  /\ delivered'[p] = delivered[p] + One(Delivers(h, p))
         /\ agu'[p].total = agu[p].total
<1> DEFINE a == agu[p]
           b == agu'[p]
           k == Taken(h, p)
           q == h.produce[p]
<1>1. a \in Record(MaxTotal) /\ agu_stop \in BOOLEAN /\ Resting(a)
  BY DEF Typed, AllRest
<1>2. CASE p \in agu_start
  <2>1. agu_stop = FALSE /\ BeginsRun(p)
    BY <1>1, <1>2 DEF BeginsRun, Begins, Resting
  <2>2. b = Edge(a, TRUE, FALSE, FALSE, k, q)
    BY <1>2, <2>1, AguInputs
  <2>3. delivered'[p] = 0
    BY <2>1 DEF AguEdges
  <2> HIDE DEF a, b, k, q
  <2>4. /\ Fresh(Edge(a, TRUE, FALSE, FALSE, k, q))
        /\ Edge(a, TRUE, FALSE, FALSE, k, q).sent = 0
        /\ Edge(a, TRUE, FALSE, FALSE, k, q).total = a.total
    BY <1>1, BeginEdge
  <2>5. Fresh(b) /\ b.sent = 0 /\ b.total = a.total
    BY <2>2, <2>4
  <2> QED
    BY <1>2, <2>3, <2>5 DEF a, b
<1>3. CASE p \notin agu_start
  <2>1. agu_stop \in {TRUE, FALSE} /\ b = Edge(a, FALSE, agu_stop, FALSE, k, q)
    BY <1>1, <1>3, AguInputs
  <2>2. delivered'[p] = delivered[p] + One(Delivers(h, p))
    BY <1>3, HistoryKept
  <2> HIDE DEF a, b, k, q
  <2>3. /\ Resting(Edge(a, FALSE, TRUE, FALSE, k, q))
        /\ Edge(a, FALSE, TRUE, FALSE, k, q).sent = a.sent
        /\ Edge(a, FALSE, TRUE, FALSE, k, q).total = a.total
    BY <1>1, RestingStopped
  <2>4. /\ Resting(Edge(a, FALSE, FALSE, FALSE, k, q))
        /\ Edge(a, FALSE, FALSE, FALSE, k, q).sent = a.sent
        /\ Edge(a, FALSE, FALSE, FALSE, k, q).total = a.total
    BY <1>1, RestingEdge
  <2>5. Resting(b) /\ b.sent = a.sent /\ b.total = a.total
    BY <2>1, <2>3, <2>4
  <2> QED
    BY <1>3, <2>2, <2>5 DEF a, b
<1> QED
  BY <1>2, <1>3

NoData ==
  /\ \A l \in Send : wait_fifo[l] = <<>> /\ noc_fifo[l] = <<>>
  /\ write_addr_fifo = <<>> /\ spm_req_fifo = <<>> /\ spm_wr = <<>>
  /\ \A p \in Planes : delivered[p] \in Nat

AllDelivered == \A p \in Planes : delivered[p] = agu[p].sent

\* With no data in the unit, in order means that all that was taken of an AGU has
\* been delivered.
LEMMA OrderAtRest == NoData => (SendInOrder /\ PloInOrder <=> AllDelivered)
<1> SUFFICES ASSUME NoData PROVE SendInOrder /\ PloInOrder <=> AllDelivered
  OBVIOUS
<1>1. Len(<<>>) = 0 /\ (\A i : i \notin 1 .. 0)
  OBVIOUS
<1>2. PloInOrder <=> delivered[PLO] = agu[PLO].sent
  <2>1. delivered[PLO] + 0 + 0 + 0 = delivered[PLO]
    BY DEF Planes, NoData
  <2> QED
    BY <1>1, <2>1 DEF PloInOrder, NoData
<1>3. \A l \in Send : SendPlaneInOrder(l) <=> delivered[l] = agu[l].sent
  <2>1. \A l \in Send : delivered[l] + 0 + 0 = delivered[l]
    BY DEF Planes, NoData
  <2> QED
    BY <1>1, <2>1 DEF SendPlaneInOrder, NoData
<1> QED
  BY <1>2, <1>3 DEF SendInOrder, Planes, AllDelivered

\* What holds of the unit throughout, whatever the firmware does.
Base == Typed /\ InStep /\ Paired /\ Unfinished /\ SendInOrder /\ PloInOrder

\* An edge of a unit at rest.
LEMMA RestStep ==
  ASSUME Base, AllRest, Drained, agu_start = {} \/ ~agu_stop,
         NEW h \in Handshakes, Datapath(h),
         NEW active \in BOOLEAN, NEW done \in BOOLEAN, NEW seen \in BOOLEAN,
         NEW pending \in BOOLEAN, Latches(active, done, seen, pending, h),
         NEW start \in SUBSET Planes, NEW stop \in BOOLEAN, NEW clear \in BOOLEAN,
         Wires(start, stop, clear), plane_en' \in SUBSET Planes
  PROVE  /\ Base' /\ Drained'
         /\ \A p \in Planes :
              /\ p \in agu_start => Fresh(agu'[p])
              /\ p \notin agu_start => Resting(agu'[p]) /\ agu'[p].sent = agu[p].sent
              /\ agu'[p].total = agu[p].total
<1>b. Typed /\ InStep /\ Paired /\ Unfinished /\ SendInOrder /\ PloInOrder
  BY DEF Base
<1>h. SendPlanes(h) /\ PloPlane(h) /\ AguEdges(h)
  BY DEF Datapath
<1>1. /\ wait_fifo' = [l \in Send |-> <<>>] /\ noc_fifo' = [l \in Send |-> <<>>]
      /\ spm_rd' = [l \in Send |-> <<>>]
      /\ write_addr_fifo' = <<>> /\ spm_req_fifo' = <<>>
      /\ noc_plo' = <<>> /\ spm_wr' = <<>>
      /\ Outstanding(h) = 0
      /\ \A p \in Planes : Delivers(h, p) = FALSE
  <2>1. \A p \in Planes : agu[p].valid = FALSE
    BY DEF AllRest, Resting
  <2> QED
    BY <1>b, <1>h, <2>1, NoTraffic
<1>2. /\ agu' \in [Planes -> Record(MaxTotal)]
      /\ run' \in [Planes -> Nat] /\ delivered' \in [Planes -> Nat]
      /\ Unfinished'
  BY <1>b, <1>h, AguStep
<1>3. /\ run_active' \in BOOLEAN /\ done_latched' \in BOOLEAN
      /\ seen_busy' \in BOOLEAN /\ start_pending' \in BOOLEAN
      /\ plo_wr_outstanding' = 0
      /\ status' \in [busy : BOOLEAN, done : BOOLEAN, idle : BOOLEAN]
  BY <1>1, LatchesTyped
<1>4. Typed'
  <2>1. \A S : <<>> \in Seq(S)
    OBVIOUS
  <2> QED
    BY <1>1, <1>2, <1>3, <2>1 DEF Typed, Wires
<1>5. InStep' /\ Paired' /\ Drained'
  <2>1. Len(<<>>) = 0 /\ (\A i : i \notin 1 .. 0)
    OBVIOUS
  <2> QED
    BY <1>1, <1>3, <2>1 DEF InStep, Paired, Drained, internal_queues_empty, IsEmpty
<1>6. ASSUME NEW p \in Planes
      PROVE  /\ p \in agu_start => /\ Fresh(agu'[p]) /\ agu'[p].sent = 0
                                   /\ delivered'[p] = 0
             /\ p \notin agu_start => /\ Resting(agu'[p]) /\ agu'[p].sent = agu[p].sent
                                      /\ delivered'[p] = delivered[p]
             /\ agu'[p].total = agu[p].total
  <2>1. delivered[p] \in Nat /\ One(Delivers(h, p)) = 0
    BY <1>b, <1>1 DEF Typed, One
  <2>2. delivered[p] + One(Delivers(h, p)) = delivered[p]
    BY <2>1
  <2> QED
    BY <1>b, <1>h, <2>2, RestAgus
<1>7. AllDelivered
  <2>1. NoData
    BY <1>b DEF NoData, Typed, Drained, internal_queues_empty, IsEmpty
  <2> QED
    BY <1>b, <2>1, OrderAtRest
<1>8. SendInOrder' /\ PloInOrder'
  <2>1. NoData' /\ AllDelivered'
    BY <1>1, <1>2, <1>6, <1>7 DEF NoData, AllDelivered
  <2>2. NoData' => (SendInOrder' /\ PloInOrder' <=> AllDelivered')
    BY OrderAtRest, PTL
  <2> QED
    BY <2>1, <2>2
<1> QED
  BY <1>2, <1>4, <1>5, <1>6, <1>8 DEF Base

\* An edge of a unit that works, with nothing on the wires.
LEMMA WorkStep ==
  ASSUME Base, agu_start = {}, ~agu_stop, ~fifo_clear,
         \A p \in Planes : \/ Fresh(agu[p]) \/ Working(agu[p])
                           \/ Ended(agu[p]) \/ Resting(agu[p]),
         NEW h \in Handshakes, Datapath(h),
         NEW active \in BOOLEAN, NEW done \in BOOLEAN, NEW seen \in BOOLEAN,
         NEW pending \in BOOLEAN, Latches(active, done, seen, pending, h),
         Wires({}, FALSE, FALSE), plane_en' \in SUBSET Planes
  PROVE  /\ Base'
         /\ \A p \in Planes :
              /\ Fresh(agu[p]) \/ Working(agu[p]) => Working(agu'[p]) \/ Ended(agu'[p])
              /\ Ended(agu[p]) => Ended(agu'[p])
              /\ Resting(agu[p]) => Resting(agu'[p])
<1>b. Typed /\ InStep /\ Paired /\ Unfinished /\ SendInOrder /\ PloInOrder
  BY DEF Base
<1>h. SendPlanes(h) /\ PloPlane(h) /\ AguEdges(h)
  BY DEF Datapath
<1>1. Typed' /\ InStep' /\ Paired' /\ Unfinished'
  <2>1. {} \in SUBSET Planes /\ TRUE \in BOOLEAN /\ FALSE \in BOOLEAN
    OBVIOUS
  <2> QED
    BY <1>b, <2>1, EdgeKeeps
<1>2. ASSUME NEW p \in Planes
      PROVE  /\ Fresh(agu[p]) \/ Working(agu[p]) => Working(agu'[p]) \/ Ended(agu'[p])
             /\ Ended(agu[p]) => Ended(agu'[p])
             /\ Resting(agu[p]) => Resting(agu'[p])
             /\ agu'[p].sent = agu[p].sent + One(Taken(h, p))
             /\ run'[p] = run[p] /\ delivered'[p] = delivered[p] + One(Delivers(h, p))
  BY <1>b, <1>h, ActiveAgus, HistoryKept
<1>3. ASSUME NEW l \in Send PROVE SendPlaneInOrder(l)'
  <2>1. l \in Planes /\ l # PLO
    BY PlanesAssumption DEF Planes
  <2>2. Taken(h, l) = h.rd_req[l] /\ Delivers(h, l) = h.noc[l]
    BY <2>1 DEF Taken, Delivers
  <2>3. /\ run'[l] = run[l] /\ delivered'[l] = delivered[l] + One(h.noc[l])
        /\ agu'[l].sent = agu[l].sent + One(h.rd_req[l])
    BY <1>2, <2>1, <2>2
  <2>4. SendPlaneInOrder(l)
    BY <1>b DEF SendInOrder
  <2> QED
    BY <1>b, <1>h, <2>3, <2>4, SendOrderStep
<1>4. PloInOrder'
  <2>1. PLO \in Planes /\ Taken(h, PLO) = h.plo_req /\ Delivers(h, PLO) = h.wr_resp
    BY DEF Taken, Delivers, Planes
  <2>2. /\ run'[PLO] = run[PLO] /\ delivered'[PLO] = delivered[PLO] + One(h.wr_resp)
        /\ agu'[PLO].sent = agu[PLO].sent + One(h.plo_req)
    BY <1>2, <2>1
  <2> QED
    BY <1>b, <1>h, <2>2, PloOrderStep
<1> QED
  BY <1>1, <1>2, <1>3, <1>4 DEF Base, SendInOrder

\* The latches at an edge without a busy AGU.
LEMMA LatchesAtRest ==
  ASSUME NEW active \in BOOLEAN, NEW done \in BOOLEAN, NEW seen \in BOOLEAN,
         NEW pending, NEW h, Latches(active, done, seen, pending, h),
         \A p \in Planes : agu[p].busy = FALSE
  PROVE  /\ seen_busy' = seen /\ status'.done = done_latched'
         /\ ~(active /\ seen) => done_latched' = done /\ run_active' = active
<1>1. any_busy = FALSE
  BY DEF any_busy
<1> QED
  BY <1>1 DEF Latches, w6

-----------------------------------------------------------------------------
(* A wave, from its START to its STOP.                                     *)

\* No wave: nothing runs and nothing is on the wires to the AGUs.
Quiet == agu_start = {} /\ AllRest /\ Drained /\ run_active = FALSE

\* START is on the wires.
Starting ==
  /\ agu_start = plane_en /\ AllRest /\ Drained
  /\ seen_busy = FALSE /\ done_latched = FALSE

\* The AGUs have begun; their busy outputs do not show it yet.
Started ==
  /\ agu_start = {} /\ seen_busy = FALSE /\ done_latched = FALSE
  /\ \A p \in Planes :
       (p \in plane_en /\ Fresh(agu[p])) \/ (p \notin plane_en /\ Resting(agu[p]))

\* Each AGU runs, its busy output up, or has had its last descriptor taken.
Underway ==
  /\ agu_start = {} /\ done_latched = FALSE
  /\ \A p \in Planes :
       \/ p \in plane_en /\ (Working(agu[p]) \/ Ended(agu[p]))
       \/ p \notin plane_en /\ Resting(agu[p])

\* All is over.
Complete ==
  /\ Quiet
  /\ \A p \in plane_en : agu[p].sent = agu[p].total

Phase ==
  \/ wave_fw = "idle" /\ Quiet /\ agu_stop = FALSE /\ done_latched = FALSE
  \/ wave_fw = "stopping" /\ Quiet /\ fifo_clear = FALSE /\ done_latched = FALSE
  \/ /\ wave_fw = "running" /\ agu_stop = FALSE /\ fifo_clear = FALSE
     /\ Starting \/ Started \/ Underway \/ Complete

FwInv == Base /\ Phase /\ status.done = done_latched

\* In every phase the queues, the SPM and the NoC are empty once DONE shows.
LEMMA DoneComplete == FwInv => DoneMeansComplete
<1> SUFFICES ASSUME FwInv, status.done PROVE WaveComplete
  BY DEF DoneMeansComplete
<1>1. Complete
  BY DEF FwInv, Phase, Starting, Started, Underway
<1>2. Drained /\ agu_start = {} /\ Base
  BY <1>1 DEF Complete, Quiet, FwInv
<1>3. NoData /\ (\A l \in Send : spm_rd[l] = <<>>) /\ noc_plo = <<>>
  BY <1>2 DEF NoData, Base, Typed, InStep, Drained, internal_queues_empty, IsEmpty
<1>4. AllDelivered
  BY <1>2, <1>3, OrderAtRest DEF Base
<1>5. plane_en \subseteq Planes
  BY <1>2 DEF Base, Typed
<1> QED
  BY <1>1, <1>2, <1>3, <1>4, <1>5 DEF WaveComplete, AllDelivered, Complete, Drained

\* The reset state.
LEMMA FwInitial == WaveInit => FwInv
<1> SUFFICES ASSUME WaveInit PROVE FwInv
  OBVIOUS
<1>1. Typed /\ InStep /\ Paired /\ Unfinished
  BY UnitInit DEF UnitInv, WaveInit
<1>2. \A p \in Planes : \E n \in 1 .. MaxTotal : agu[p] = AtReset(n)
  BY DEF WaveInit, HdduInit
<1>3. AllRest /\ AllDelivered
  BY <1>2 DEF AllRest, AllDelivered, AtReset, Resting, WaveInit, HdduInit
<1>4. Drained /\ NoData
  BY DEF Drained, NoData, internal_queues_empty, IsEmpty, WaveInit, HdduInit
<1>5. SendInOrder /\ PloInOrder
  BY <1>3, <1>4, OrderAtRest
<1>6. Phase /\ status.done = done_latched
  BY <1>3, <1>4 DEF Phase, Quiet, WaveInit, HdduInit
<1> QED
  BY <1>1, <1>5, <1>6 DEF FwInv, Base

\* What RestStep needs of the arguments of a command.
LEMMA Arguments ==
  ASSUME Typed
  PROVE  /\ run_active \in BOOLEAN /\ done_latched \in BOOLEAN /\ seen_busy \in BOOLEAN
         /\ start_pending \in BOOLEAN /\ (start_pending \/ plane_en # {}) \in BOOLEAN
         /\ (plane_en # {}) \in BOOLEAN /\ plane_en \in SUBSET Planes
         /\ {} \in SUBSET Planes /\ TRUE \in BOOLEAN /\ FALSE \in BOOLEAN
BY DEF Typed

\* From a quiet unit: no command, STOP, SOFT_RESET and a write of PLANE_EN leave
\* it quiet, with DONE low if it was or if the command takes it back.
LEMMA QuietStep ==
  ASSUME Base, Quiet, NEW h \in Handshakes, Datapath(h),
         NEW done \in BOOLEAN, NEW seen \in BOOLEAN,
         Latches(FALSE, done, seen, start_pending, h),
         NEW stop \in BOOLEAN, NEW clear \in BOOLEAN,
         Wires({}, stop, clear), plane_en' \in SUBSET Planes
  PROVE  /\ Base' /\ Quiet' /\ done_latched' = done /\ status'.done = done_latched'
         /\ \A p \in Planes : agu'[p].sent = agu[p].sent /\ agu'[p].total = agu[p].total
<1>1. /\ AllRest /\ Drained /\ agu_start = {} /\ start_pending \in BOOLEAN
      /\ FALSE \in BOOLEAN /\ {} \in SUBSET Planes
  BY DEF Quiet, Base, Typed
<1>2. /\ Base' /\ Drained'
      /\ \A p \in Planes :
           /\ p \in agu_start => Fresh(agu'[p])
           /\ p \notin agu_start => Resting(agu'[p]) /\ agu'[p].sent = agu[p].sent
           /\ agu'[p].total = agu[p].total
  BY <1>1, RestStep
<1>3. AllRest' /\ \A p \in Planes : agu'[p].sent = agu[p].sent
  BY <1>1, <1>2 DEF AllRest
<1>4. /\ status'.done = done_latched' /\ done_latched' = done /\ run_active' = FALSE
  <2>1. \A p \in Planes : agu[p].busy = FALSE
    BY <1>1 DEF AllRest, Resting
  <2> QED
    BY <1>1, <2>1, LatchesAtRest
<1> QED
  BY <1>2, <1>3, <1>4 DEF Quiet, Wires

\* START begins a wave.
LEMMA StartWaveStep == FwInv /\ StartWave => FwInv'
<1> SUFFICES ASSUME FwInv, StartWave PROVE FwInv'
  OBVIOUS
<1>1. PICK h \in Handshakes : StartRun(h)
  BY DEF StartWave
<1>2. /\ Base /\ AllRest /\ Drained /\ agu_start = {} /\ wave_fw' = "running"
      /\ (plane_en # {}) = TRUE /\ plane_en \in SUBSET Planes
  BY DEF FwInv, Phase, Quiet, StartWave, Base, Typed
<1>3. Datapath(h) /\ Wires(plane_en, FALSE, FALSE) /\ plane_en' = plane_en
  BY <1>1 DEF StartRun
<1> DEFINE pending == start_pending \/ plane_en # {}
<1>4. Latches(TRUE, FALSE, FALSE, pending, h)
  BY <1>1, <1>2 DEF StartRun
<1>5. pending \in BOOLEAN
  BY <1>2 DEF Base, Typed
<1>e. TRUE \in BOOLEAN /\ FALSE \in BOOLEAN
  OBVIOUS
<1> HIDE DEF pending
<1>6. /\ Base' /\ Drained'
      /\ \A p \in Planes : p \notin agu_start => Resting(agu'[p])
  BY <1>2, <1>3, <1>4, <1>5, <1>e, RestStep
<1>7. seen_busy' = FALSE /\ done_latched' = FALSE /\ status'.done = done_latched'
  <2>1. \A p \in Planes : agu[p].busy = FALSE
    BY <1>2 DEF AllRest, Resting
  <2> QED
    BY <1>4, <1>5, <1>e, <2>1, LatchesAtRest
<1>8. Starting' /\ agu_stop' = FALSE /\ fifo_clear' = FALSE
  BY <1>2, <1>3, <1>6, <1>7 DEF Starting, Wires, AllRest
<1> QED
  BY <1>2, <1>6, <1>7, <1>8 DEF FwInv, Phase

\* A step of a quiet unit that goes to, or stays in, idle or stopping.
LEMMA QuietPhase ==
  ASSUME Base, Quiet, NEW h \in Handshakes, Datapath(h), NEW seen \in BOOLEAN,
         Latches(FALSE, FALSE, seen, start_pending, h),
         NEW stop \in BOOLEAN, NEW clear \in BOOLEAN,
         Wires({}, stop, clear), plane_en' \in SUBSET Planes,
         \/ wave_fw' = "idle" /\ stop = FALSE
         \/ wave_fw' = "stopping" /\ clear = FALSE
  PROVE  FwInv'
<1>1. FALSE \in BOOLEAN
  OBVIOUS
<1>2. Base' /\ Quiet' /\ done_latched' = FALSE /\ status'.done = done_latched'
  BY <1>1, QuietStep
<1> QED
  BY <1>2 DEF FwInv, Phase, Wires

\* STOP, a SOFT_RESET, a write of PLANE_EN and the poll that sees the AGUs idle
\* find the unit quiet.
LEMMA QuietActionsStep ==
  FwInv /\ (StopWave \/ SeeAgusIdle \/ PrepareReset \/ PreparePlanes) => FwInv'
<1> SUFFICES ASSUME FwInv, StopWave \/ SeeAgusIdle \/ PrepareReset \/ PreparePlanes
             PROVE  FwInv'
  OBVIOUS
<1>1. Base /\ Typed /\ status.done = done_latched
  BY DEF FwInv, Base
<1>2. /\ run_active \in BOOLEAN /\ done_latched \in BOOLEAN /\ seen_busy \in BOOLEAN
      /\ plane_en \in SUBSET Planes /\ TRUE \in BOOLEAN /\ FALSE \in BOOLEAN
  BY <1>1, Arguments
<1>3. CASE StopWave
  <2>1. PICK h \in Handshakes : Stop(h)
    BY <1>3 DEF StopWave
  <2>2. Quiet /\ wave_fw' = "stopping"
    BY <1>1, <1>3 DEF StopWave, FwInv, Phase, Starting, Started, Underway, Complete
  <2>3. /\ Datapath(h) /\ Latches(FALSE, FALSE, seen_busy, start_pending, h)
        /\ Wires({}, TRUE, FALSE) /\ plane_en' \in SUBSET Planes
    BY <1>2, <2>1 DEF Stop
  <2> QED
    BY <1>1, <1>2, <2>2, <2>3, QuietPhase
<1>4. CASE SeeAgusIdle
  <2>1. PICK h \in Handshakes : NoCommand(h)
    BY <1>4 DEF SeeAgusIdle
  <2>2. Quiet /\ wave_fw' = "idle" /\ done_latched = FALSE /\ run_active = FALSE
    BY <1>4 DEF SeeAgusIdle, FwInv, Phase, Quiet
  <2>3. /\ Datapath(h) /\ Latches(FALSE, FALSE, seen_busy, start_pending, h)
        /\ Wires({}, FALSE, FALSE) /\ plane_en' \in SUBSET Planes
    BY <1>2, <2>1, <2>2 DEF NoCommand
  <2> QED
    BY <1>1, <1>2, <2>2, <2>3, QuietPhase
<1>5. CASE PrepareReset
  <2>1. PICK h \in Handshakes : SoftReset(h)
    BY <1>5 DEF PrepareReset
  <2>2. Quiet /\ wave_fw' = "idle"
    BY <1>5 DEF PrepareReset, FwInv, Phase
  <2>3. /\ Datapath(h) /\ Latches(FALSE, FALSE, FALSE, start_pending, h)
        /\ Wires({}, FALSE, TRUE) /\ plane_en' \in SUBSET Planes
    BY <1>2, <2>1 DEF SoftReset
  <2> QED
    BY <1>1, <1>2, <2>2, <2>3, QuietPhase
<1>6. CASE PreparePlanes
  <2>1. PICK h \in Handshakes, en \in SUBSET Planes : WritePlaneEn(en, h)
    BY <1>6 DEF PreparePlanes
  <2>2. Quiet /\ wave_fw' = "idle" /\ done_latched = FALSE /\ run_active = FALSE
    BY <1>6 DEF PreparePlanes, FwInv, Phase, Quiet
  <2>3. /\ Datapath(h) /\ Latches(FALSE, FALSE, seen_busy, start_pending, h)
        /\ Wires({}, FALSE, FALSE) /\ plane_en' \in SUBSET Planes
    BY <2>1, <2>2 DEF WritePlaneEn
  <2> QED
    BY <1>1, <1>2, <2>2, <2>3, QuietPhase
<1> QED
  BY <1>3, <1>4, <1>5, <1>6

\* An edge that empties a unit: its queues are empty, its AGUs offer nothing and
\* the last PLO write has been answered.
LEMMA LastEdge ==
  ASSUME Typed, InStep, Paired, fifo_clear = FALSE, internal_queues_empty,
         \A p \in Planes : agu[p].valid = FALSE,
         NEW h \in Handshakes, Datapath(h), Outstanding(h) = 0
  PROVE  Drained'
<1>1. /\ \A l \in Send : wait_fifo[l] = <<>> /\ noc_fifo[l] = <<>>
      /\ write_addr_fifo = <<>> /\ spm_req_fifo = <<>>
  BY DEF internal_queues_empty, IsEmpty
<1>2. /\ \A l \in Send : h.rd_req[l] = FALSE /\ h.rd_resp[l] = FALSE /\ h.noc[l] = FALSE
      /\ h.plo_req = FALSE /\ h.plo_resp = FALSE /\ h.wr_req = FALSE
  <2>1. \A l \in Send : ~SpmReadValid(l) /\ ~SpmReadRespReady(l) /\ ~NocValid(l)
    BY <1>1 DEF SpmReadValid, SpmReadRespReady, NocValid, IsEmpty, Planes
  <2>2. ~NocPloReqValid /\ ~NocPloRespReady /\ ~SpmWriteValid
    BY <1>1 DEF NocPloReqValid, NocPloRespReady, SpmWriteValid, IsEmpty, Planes
  <2> QED
    BY <2>1, <2>2, HandshakeGuards
<1>3. \A clear, d : AfterEdge(<<>>, Depth, clear, FALSE, FALSE, d) = <<>>
  BY DEF AfterEdge, Moved, Accepts, Popped
<1>4. SendPlanes(h) /\ PloPlane(h)
  BY DEF Datapath
<1>5. ASSUME NEW l \in Send PROVE wait_fifo'[l] = <<>> /\ noc_fifo'[l] = <<>>
  BY <1>1, <1>2, <1>3, <1>4 DEF SendPlanes
<1>6. write_addr_fifo' = <<>> /\ spm_req_fifo' = <<>>
  BY <1>1, <1>2, <1>3, <1>4 DEF PloPlane
<1>7. spm_wr' = <<>>
  <2>1. spm_wr' \in Seq(Packet) /\ Len(spm_wr') = 0
    BY <1>4, PloStep
  <2> QED
    BY <2>1, EmptySeq
<1> QED
  BY <1>5, <1>6, <1>7 DEF Drained, internal_queues_empty, IsEmpty

\* An edge of a wave at which the firmware writes nothing.
LEMMA WaveEdge ==
  ASSUME FwInv, wave_fw = "running", wave_fw' = "running", NEW h \in Handshakes, NoCommand(h)
  PROVE  FwInv'
<1>1. /\ Base /\ Typed /\ InStep /\ agu_stop = FALSE /\ fifo_clear = FALSE
      /\ Starting \/ Started \/ Underway \/ Complete
  BY DEF FwInv, Base, Phase
<1>2. /\ run_active \in BOOLEAN /\ done_latched \in BOOLEAN /\ seen_busy \in BOOLEAN
      /\ start_pending \in BOOLEAN /\ plane_en \in SUBSET Planes
      /\ {} \in SUBSET Planes /\ TRUE \in BOOLEAN /\ FALSE \in BOOLEAN
  BY <1>1, Arguments
<1>3. /\ Datapath(h) /\ Latches(run_active, done_latched, seen_busy, start_pending, h)
      /\ Wires({}, FALSE, FALSE) /\ plane_en' = plane_en /\ plane_en' \in SUBSET Planes
      /\ agu_start' = {} /\ agu_stop' = FALSE /\ fifo_clear' = FALSE
  BY <1>2 DEF NoCommand, Wires
<1>4. SUFFICES /\ Base' /\ status'.done = done_latched'
               /\ Starting' \/ Started' \/ Underway' \/ Complete'
  BY <1>3 DEF FwInv, Phase
<1>5. CASE Starting
  <2>1. AllRest /\ Drained /\ agu_start = plane_en /\ seen_busy = FALSE /\ done_latched = FALSE
    BY <1>5 DEF Starting
  <2>2. /\ Base'
        /\ \A p \in Planes : /\ p \in agu_start => Fresh(agu'[p])
                             /\ p \notin agu_start => Resting(agu'[p])
    BY <1>1, <1>2, <1>3, <2>1, RestStep
  <2>3. /\ seen_busy' = FALSE /\ done_latched' = FALSE /\ status'.done = done_latched'
    <3>1. \A p \in Planes : agu[p].busy = FALSE
      BY <2>1 DEF AllRest, Resting
    <3> QED
      BY <1>2, <1>3, <2>1, <3>1, LatchesAtRest
  <2>4. Started'
    BY <1>3, <2>1, <2>2, <2>3 DEF Started
  <2> QED
    BY <2>2, <2>3, <2>4
<1>6. CASE Complete
  <2>1. Quiet /\ run_active = FALSE
    BY <1>6 DEF Complete, Quiet
  <2>2. /\ Base' /\ Quiet' /\ status'.done = done_latched'
        /\ \A p \in Planes : agu'[p].sent = agu[p].sent /\ agu'[p].total = agu[p].total
    BY <1>1, <1>2, <1>3, <2>1, QuietStep
  <2>3. Complete'
    BY <1>2, <1>3, <1>6, <2>2 DEF Complete
  <2> QED
    BY <2>2, <2>3
<1>7. CASE Started \/ Underway
  <2>1. /\ agu_start = {} /\ done_latched = FALSE
        /\ \A p \in Planes :
             \/ p \in plane_en /\ (Fresh(agu[p]) \/ Working(agu[p]) \/ Ended(agu[p]))
             \/ p \notin plane_en /\ Resting(agu[p])
    BY <1>7 DEF Started, Underway
  <2>2. /\ Base'
        /\ \A p \in Planes :
             /\ Fresh(agu[p]) \/ Working(agu[p]) => Working(agu'[p]) \/ Ended(agu'[p])
             /\ Ended(agu[p]) => Ended(agu'[p])
             /\ Resting(agu[p]) => Resting(agu'[p])
    BY <1>1, <1>2, <1>3, <2>1, WorkStep
  <2>3. \A p \in Planes :
          \/ p \in plane_en' /\ (Working(agu'[p]) \/ Ended(agu'[p]))
          \/ p \notin plane_en' /\ Resting(agu'[p])
    BY <1>3, <2>1, <2>2
  <2>4. status'.done = done_latched'
    BY <1>3 DEF Latches
  <2>5. CASE done_latched' = FALSE
    <3>1. Underway'
      BY <1>3, <2>3, <2>5 DEF Underway
    <3> QED
      BY <2>2, <2>4, <3>1
  <2>6. CASE done_latched' # FALSE
    <3>1. ~any_busy /\ internal_queues_empty /\ Outstanding(h) = 0 /\ run_active' = FALSE
      BY <1>3, <2>1, <2>6 DEF Latches, w6
    <3>2. Underway
      <4>1. CASE Started
        <5>1. \A p \in Planes : agu[p].busy = FALSE
          BY <4>1 DEF Started, Fresh, Resting
        <5>2. seen_busy = FALSE
          BY <4>1 DEF Started
        <5>3. done_latched' = done_latched
          BY <1>2, <1>3, <5>1, <5>2, LatchesAtRest
        <5> QED
          BY <2>1, <2>6, <5>3
      <4> QED
        BY <1>7, <4>1
    <3>3. ASSUME NEW p \in Planes
          PROVE  /\ Resting(agu[p])
                 /\ p \in plane_en => agu[p].sent = agu[p].total
      <4>1. ~agu[p].busy
        BY <3>1 DEF any_busy
      <4>2. \/ p \in plane_en /\ (Working(agu[p]) \/ Ended(agu[p]))
            \/ p \notin plane_en /\ Resting(agu[p])
        BY <3>2 DEF Underway
      <4> QED
        BY <4>1, <4>2 DEF Working, Ended, Resting
    <3>4. Drained'
      <4>1. \A p \in Planes : agu[p].valid = FALSE
        BY <3>3 DEF Resting
      <4>2. Paired
        BY <1>1 DEF Base
      <4> QED
        BY <1>1, <1>3, <3>1, <4>1, <4>2, LastEdge
    <3>5. ASSUME NEW p \in Planes
          PROVE  /\ Resting(agu'[p])
                 /\ p \in plane_en => agu'[p].sent = agu'[p].total
      <4>1. p \in plane_en => Ended(agu[p])
        BY <3>2, <3>3 DEF Underway, Working, Resting
      <4>2. p \in plane_en => Ended(agu'[p])
        BY <2>2, <4>1
      <4> QED
        BY <2>2, <3>3, <4>2 DEF Ended
    <3>6. Complete'
      BY <1>3, <3>1, <3>4, <3>5, <1>2 DEF Complete, Quiet, AllRest
    <3> QED
      BY <2>2, <2>4, <3>6
  <2> QED
    BY <2>5, <2>6
<1> QED
  BY <1>1, <1>5, <1>6, <1>7

\* An edge at which the firmware writes nothing, in any phase.
LEMMA PollStep == FwInv /\ Poll => FwInv'
<1> SUFFICES ASSUME FwInv, Poll PROVE FwInv'
  OBVIOUS
<1>1. PICK h \in Handshakes : NoCommand(h)
  BY DEF Poll
<1>2. wave_fw' = wave_fw /\ Base /\ Typed
  BY DEF Poll, FwInv, Base
<1>3. CASE wave_fw = "running"
  BY <1>1, <1>2, <1>3, WaveEdge
<1>4. CASE wave_fw # "running"
  <2>1. /\ Quiet /\ done_latched = FALSE /\ run_active = FALSE
        /\ wave_fw' = "idle" \/ wave_fw' = "stopping"
    BY <1>2, <1>4 DEF FwInv, Phase, Quiet
  <2>2. /\ seen_busy \in BOOLEAN /\ plane_en \in SUBSET Planes /\ FALSE \in BOOLEAN
    BY <1>2, Arguments
  <2>3. /\ Datapath(h) /\ Latches(FALSE, FALSE, seen_busy, start_pending, h)
        /\ Wires({}, FALSE, FALSE) /\ plane_en' \in SUBSET Planes
    BY <1>1, <2>1, <2>2 DEF NoCommand
  <2> QED
    BY <1>2, <2>1, <2>2, <2>3, QuietPhase
<1> QED
  BY <1>3, <1>4

\* A step in which nothing changes.
LEMMA FwStutter == FwInv /\ UNCHANGED wave_vars => FwInv'
<1> SUFFICES ASSUME FwInv, UNCHANGED wave_vars PROVE FwInv'
  OBVIOUS
<1>1. Typed' /\ InStep' /\ Paired' /\ Unfinished'
  BY DEF FwInv, Base, Typed, InStep, Paired, Unfinished, wave_vars, hddu_vars, control, wires,
         queues, environment, history
<1>2. SendInOrder' /\ PloInOrder'
  BY DEF FwInv, Base, SendInOrder, SendPlaneInOrder, PloInOrder, Nth, wave_vars, hddu_vars,
         control, wires, queues, environment, history
<1>3. Phase' /\ (status.done = done_latched)'
  BY DEF FwInv, Phase, Quiet, Starting, Started, Underway, Complete, AllRest, Drained,
         internal_queues_empty, wave_vars, hddu_vars, control, wires, queues, environment, history
<1> QED
  BY <1>1, <1>2, <1>3 DEF FwInv, Base

\* The invariant of the unit under its firmware.
THEOREM FwInvariant == WaveSpec => []FwInv
<1>1. FwInv /\ [WaveNext]_wave_vars => FwInv'
  BY StartWaveStep, QuietActionsStep, PollStep, FwStutter DEF WaveNext
<1> QED
  BY <1>1, FwInitial, PTL DEF WaveSpec

\* Every variable stays in its type and every queue within its depth, SOFT_RESET
\* included.
THEOREM WaveTyping == WaveSpec => []WaveTypeOK
<1>1. FwInv => Typed /\ InStep /\ wave_fw \in {"idle", "running", "stopping"}
  BY DEF FwInv, Base, Phase
<1>2. FwInv /\ FwInv' /\ WithinLimits /\ [WaveNext]_wave_vars => WithinLimits'
  <2> SUFFICES ASSUME FwInv, FwInv', WithinLimits, [WaveNext]_wave_vars
               PROVE  WithinLimits'
    OBVIOUS
  <2>1. CASE WaveNext
    <3>1. PICK h \in Handshakes : SendPlanes(h) /\ PloPlane(h)
      BY <2>1 DEF WaveNext, StartWave, StopWave, SeeAgusIdle, Poll, PrepareReset, PreparePlanes,
                  NoCommand, StartRun, Stop, SoftReset, WritePlaneEn, Datapath
    <3> QED
      BY <1>1, <3>1, LimitsStep DEF FwInv, Base
  <2>2. CASE UNCHANGED wave_vars
    BY <2>2 DEF wave_vars, hddu_vars, control, queues, environment, WithinLimits
  <2> QED
    BY <2>1, <2>2
<1>3. WaveInit => WithinLimits
  BY LimitsInit DEF WaveInit
<1> QED
  BY <1>1, <1>2, <1>3, FwInvariant, PTL DEF WaveSpec, WaveTypeOK, HdduTypeOK

\* When DONE shows, the wave has been started, every descriptor of every enabled
\* plane has been delivered and answered, and nothing of it is left anywhere.
THEOREM DoneIsComplete == WaveSpec => []DoneMeansComplete
BY DoneComplete, FwInvariant, PTL

\* The packets of a send plane leave complete, in order and once each.
THEOREM SendOrder == WaveSpec => []SendInOrder
<1>1. FwInv => SendInOrder
  BY DEF FwInv, Base
<1> QED
  BY <1>1, FwInvariant, PTL

\* So do the writes of the PLO plane.
THEOREM PloOrder == WaveSpec => []PloInOrder
<1>1. FwInv => PloInOrder
  BY DEF FwInv, Base
<1> QED
  BY <1>1, FwInvariant, PTL
=============================================================================
