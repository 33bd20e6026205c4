--------------------------------- MODULE Hddu ---------------------------------
(***************************************************************************)
(* Cluster/HybridDataDeliverUnit.hpp: four planes between the scratchpad   *)
(* memory (SPM) and the network on chip (NoC), each driven by an address   *)
(* generation unit.  A send plane reads the SPM and sends what it read,    *)
(* with the descriptor's tag, into the NoC.  The PLO plane asks the NoC    *)
(* for partial sums and writes the answers to the SPM.                     *)
(*                                                                         *)
(* A step is a rising clock edge: seq_process, the four AGUs and every     *)
(* FIFO act on the same pre-state, so one action moves all of them.  What  *)
(* the edge does is decided by the MMIO command that arrives (one action   *)
(* per command) and by the set of valid/ready handshakes that complete.    *)
(*                                                                         *)
(* A descriptor stands for its address and its tag at once.  It is named   *)
(* by its plane's run number and its position in the run, so two entries   *)
(* are equal exactly if they belong together.                              *)
(*                                                                         *)
(* Environment.  An SPM port answers the requests it accepted in order     *)
(* (ScratchpadMemory.hpp) and always with SPM_OK, so ERR_CODE stays 0.     *)
(* The NoC answers PLO requests in order.                                  *)
(***************************************************************************)
EXTENDS AguOps, QueueOps, FiniteSets

CONSTANTS
  Send,       \* the send planes: PS, PD and PLI in the code
  PLO,        \* the receive plane
  Depth,      \* FIFO_DEPTH
  SpmLimit,   \* requests an SPM port holds at most
  MaxTotal,   \* bound: descriptors in a run
  MaxRuns     \* bound: runs of one AGU

ASSUME PlanesAssumption == PLO \notin Send
ASSUME DepthAssumption == Depth \in Nat \ {0}
ASSUME RunsAssumption ==
  SpmLimit \in Nat \ {0} /\ MaxTotal \in Nat \ {0} /\ MaxRuns \in Nat

Planes == Send \cup {PLO}

VARIABLES
  \* registers and latches of seq_process
  plane_en, run_active, done_latched, seen_busy, plo_wr_outstanding,
  start_pending, status,
  \* registered wires: they reach the AGUs and the FIFOs at the next edge
  agu_start, agu_stop, fifo_clear,
  agu,              \* the four AGUs
  \* queues of a send plane
  wait_fifo, noc_fifo,
  \* queues of the PLO plane
  write_addr_fifo, spm_req_fifo,
  \* environment: accepted and not yet answered
  spm_rd, spm_wr, noc_plo,
  \* history: runs begun, and descriptors of the run that were delivered
  run, delivered

control == <<plane_en, run_active, done_latched, seen_busy, plo_wr_outstanding,
             start_pending, status>>
wires == <<agu_start, agu_stop, fifo_clear>>
queues == <<wait_fifo, noc_fifo, write_addr_fifo, spm_req_fifo>>
environment == <<spm_rd, spm_wr, noc_plo>>
history == <<run, delivered>>
hddu_vars == <<control, wires, agu, queues, environment, history>>

Descriptor == Nat \X Nat
Packet == [tag : Descriptor, data : Descriptor]

Typed ==
  /\ plane_en \subseteq Planes
  /\ {run_active, done_latched, seen_busy, start_pending} \subseteq BOOLEAN
  /\ plo_wr_outstanding \in Nat
  /\ status \in [busy : BOOLEAN, done : BOOLEAN, idle : BOOLEAN]
  /\ agu_start \subseteq Planes /\ {agu_stop, fifo_clear} \subseteq BOOLEAN
  /\ agu \in [Planes -> Record(MaxTotal)]
  /\ wait_fifo \in [Send -> Seq(Descriptor)]
  /\ noc_fifo \in [Send -> Seq(Packet)]
  /\ write_addr_fifo \in Seq(Descriptor)
  /\ spm_req_fifo \in Seq(Packet)
  /\ spm_rd \in [Send -> Seq(Descriptor)]
  /\ spm_wr \in Seq(Packet)
  /\ noc_plo \in Seq(Descriptor)
  /\ run \in [Planes -> Nat]
  /\ delivered \in [Planes -> Nat]

\* No queue holds more than its depth, and no memory port more than its limit.
WithinLimits ==
  /\ \A l \in Send : /\ Len(wait_fifo[l]) <= Depth /\ Len(noc_fifo[l]) <= Depth
                     /\ Len(spm_rd[l]) <= SpmLimit
  /\ Len(write_addr_fifo) <= Depth /\ Len(spm_req_fifo) <= Depth /\ Len(noc_plo) <= Depth
  /\ Len(spm_wr) <= SpmLimit /\ plo_wr_outstanding <= SpmLimit

HdduTypeOK == Typed /\ WithinLimits

\* reset_internal; the firmware programs the AGUs before the first START.
HdduInit ==
  /\ plane_en = Planes
  /\ run_active = FALSE /\ done_latched = FALSE /\ seen_busy = FALSE
  /\ plo_wr_outstanding = 0 /\ start_pending = FALSE
  /\ status = [busy |-> FALSE, done |-> FALSE, idle |-> FALSE]
  /\ agu_start = {} /\ agu_stop = FALSE /\ fifo_clear = FALSE
  /\ agu \in [Planes -> {AtReset(n) : n \in 1 .. MaxTotal}]
  /\ wait_fifo = [l \in Send |-> <<>>] /\ noc_fifo = [l \in Send |-> <<>>]
  /\ write_addr_fifo = <<>> /\ spm_req_fifo = <<>>
  /\ spm_rd = [l \in Send |-> <<>>] /\ spm_wr = <<>> /\ noc_plo = <<>>
  /\ run = [p \in Planes |-> 0] /\ delivered = [p \in Planes |-> 0]

-----------------------------------------------------------------------------
(* What the combinational methods offer at an edge.                        *)

Offered(p) == <<run[p], agu[p].sent>>

\* A read is requested only with room for its tag.
SpmReadValid(l) ==
  agu[l].valid /\ l \in plane_en /\ ~IsFull(wait_fifo[l], Depth)

\* Defect: the room that an answer needs in the packet queue is not reserved.
SpmReadRespReadyAlways(l) == l \in plane_en /\ ~IsEmpty(wait_fifo[l])

SpmReadRespReady(l) ==
  l \in plane_en /\ ~IsEmpty(wait_fifo[l]) /\ ~IsFull(noc_fifo[l], Depth)

NocValid(l) == l \in plane_en /\ ~IsEmpty(noc_fifo[l])

NocPloReqValid ==
  agu[PLO].valid /\ PLO \in plane_en /\ ~IsFull(write_addr_fifo, Depth)

\* Defect: the room that the answer needs in the write queue is not reserved.
NocPloRespReadyAlways == PLO \in plane_en /\ ~IsEmpty(write_addr_fifo)

NocPloRespReady ==
  PLO \in plane_en /\ ~IsEmpty(write_addr_fifo) /\ ~IsFull(spm_req_fifo, Depth)

SpmWriteValid == PLO \in plane_en /\ ~IsEmpty(spm_req_fifo)

\* Defect: once the AGU is done, the answers of its last writes are not taken.
SpmWriteRespReadyWhileBusy == PLO \in plane_en /\ agu[PLO].busy

SpmWriteRespReady == PLO \in plane_en

internal_queues_empty ==
  /\ \A l \in Send : IsEmpty(wait_fifo[l]) /\ IsEmpty(noc_fifo[l])
  /\ IsEmpty(write_addr_fifo) /\ IsEmpty(spm_req_fifo)

any_busy == \E p \in Planes : agu[p].busy

\* The handshakes the environment may complete at this edge (rd_req .. wr_resp),
\* and the AGUs whose pipeline has a descriptor ready by the next one.
Handshakes ==
  [rd_req  : {f \in [Send -> BOOLEAN] :
                \A l \in Send : f[l] => SpmReadValid(l) /\ Len(spm_rd[l]) < SpmLimit},
   rd_resp : {f \in [Send -> BOOLEAN] :
                \A l \in Send : f[l] => spm_rd[l] # <<>> /\ SpmReadRespReady(l)},
   noc     : {f \in [Send -> BOOLEAN] : \A l \in Send : f[l] => NocValid(l)},
   plo_req : {b \in BOOLEAN : b => NocPloReqValid},
   plo_resp: {b \in BOOLEAN : b => noc_plo # <<>> /\ NocPloRespReady},
   wr_req  : {b \in BOOLEAN : b => SpmWriteValid /\ Len(spm_wr) < SpmLimit},
   wr_resp : {b \in BOOLEAN : b => spm_wr # <<>> /\ SpmWriteRespReady},
   produce : {f \in [Planes -> BOOLEAN] :
                \A p \in Planes : f[p] => agu[p].state = "RUN"}]

-----------------------------------------------------------------------------
(* The datapath part of an edge.                                           *)

\* A send plane: the tag waits while the SPM reads, and leaves with the answer.
SendPlanes(h) ==
  /\ wait_fifo' = [l \in Send |->
       AfterEdge(wait_fifo[l], Depth, fifo_clear, h.rd_req[l], h.rd_resp[l],
                 Offered(l))]
  /\ noc_fifo' = [l \in Send |->
       AfterEdge(noc_fifo[l], Depth, fifo_clear, h.rd_resp[l], h.noc[l],
                 [tag |-> Head(wait_fifo[l]), data |-> Head(spm_rd[l])])]
  /\ spm_rd' = [l \in Send |->
       Moved(spm_rd[l], h.rd_req[l], h.rd_resp[l], Offered(l))]

\* The PLO plane: the address waits while the NoC answers, then goes to the SPM
\* with the answer.
PloPlane(h) ==
  /\ write_addr_fifo' =
       AfterEdge(write_addr_fifo, Depth, fifo_clear, h.plo_req, h.plo_resp, Offered(PLO))
  /\ spm_req_fifo' =
       AfterEdge(spm_req_fifo, Depth, fifo_clear, h.plo_resp, h.wr_req,
                 [tag |-> Head(write_addr_fifo), data |-> Head(noc_plo)])
  /\ noc_plo' = Moved(noc_plo, h.plo_req, h.plo_resp, Offered(PLO))
  /\ spm_wr' = Moved(spm_wr, h.wr_req, h.wr_resp, Head(spm_req_fifo))

Taken(h, p) == IF p = PLO THEN h.plo_req ELSE h.rd_req[p]

Delivers(h, p) == IF p = PLO THEN h.wr_resp ELSE h.noc[p]

BeginsRun(p) == Begins(agu[p], p \in agu_start, agu_stop, FALSE)

AguEdges(h) ==
  /\ agu' = [p \in Planes |->
       Edge(agu[p], p \in agu_start, agu_stop, FALSE, Taken(h, p), h.produce[p])]
  /\ run' = [p \in Planes |-> IF BeginsRun(p) THEN run[p] + 1 ELSE run[p]]
  /\ delivered' = [p \in Planes |->
       IF BeginsRun(p) THEN 0
       ELSE IF Delivers(h, p) THEN delivered[p] + 1
       ELSE delivered[p]]

Datapath(h) == SendPlanes(h) /\ PloPlane(h) /\ AguEdges(h)

-----------------------------------------------------------------------------
(* The control part of an edge.                                            *)

\* Writes accepted by the SPM at this edge are counted before those answered.
Outstanding(h) ==
  LET issued == plo_wr_outstanding + (IF h.wr_req THEN 1 ELSE 0)
  IN  IF h.wr_resp /\ issued > 0 THEN issued - 1 ELSE issued

\* Defect: completion does not wait for the answers of the PLO writes.
w6_unanswered(seen, h) == seen /\ ~any_busy /\ internal_queues_empty

\* The W6 completion: the AGUs have run and are idle, no queue holds data, and
\* every write the SPM accepted has been answered.
w6(seen, h) == seen /\ ~any_busy /\ internal_queues_empty /\ Outstanding(h) = 0

\* The latches given their values after this edge's command, and the status
\* register that shows them.
Latches(active, done, seen_before, pending, h) ==
  LET seen == seen_before \/ (active /\ any_busy)
      done_pulse == active /\ w6(seen, h)
  IN  /\ seen_busy' = seen
      /\ done_latched' = (done \/ done_pulse)
      /\ run_active' = (active /\ ~done_pulse)
      /\ plo_wr_outstanding' = Outstanding(h)
      /\ start_pending' = (pending /\ ~any_busy /\ ~done_latched')
      /\ status' = [busy |-> any_busy, done |-> done_latched',
                    idle |-> ~run_active' /\ ~any_busy /\ ~done_latched']

Wires(start, stop, clear) ==
  agu_start' = start /\ agu_stop' = stop /\ fifo_clear' = clear

-----------------------------------------------------------------------------
(* One action per command.                                                 *)

\* An edge without a write to a global register.
NoCommand(h) ==
  /\ Latches(run_active, done_latched, seen_busy, start_pending, h)
  /\ Wires({}, FALSE, FALSE)
  /\ UNCHANGED plane_en
  /\ Datapath(h)

\* CTRL.START starts the AGUs of the enabled planes.
StartRun(h) ==
  /\ \A p \in Planes : run[p] < MaxRuns
  /\ Latches(plane_en # {}, FALSE, FALSE, start_pending \/ plane_en # {}, h)
  /\ Wires(plane_en, FALSE, FALSE)
  /\ UNCHANGED plane_en
  /\ Datapath(h)

\* CTRL.STOP stops all four AGUs; the queues drain on.
Stop(h) ==
  /\ Latches(FALSE, FALSE, seen_busy, start_pending, h)
  /\ Wires({}, TRUE, FALSE)
  /\ UNCHANGED plane_en
  /\ Datapath(h)

\* CTRL.SOFT_RESET clears the queues and the run; the AGUs and the requests the
\* SPM and the NoC hold go on.
SoftReset(h) ==
  /\ Latches(FALSE, FALSE, FALSE, start_pending, h)
  /\ Wires({}, FALSE, TRUE)
  /\ UNCHANGED plane_en
  /\ Datapath(h)

WritePlaneEn(en, h) ==
  /\ Latches(run_active, done_latched, seen_busy, start_pending, h)
  /\ Wires({}, FALSE, FALSE)
  /\ plane_en' = en
  /\ Datapath(h)

\* Any command but SOFT_RESET at any edge.
EdgeWithoutClear ==
  \E h \in Handshakes :
    \/ NoCommand(h)
    \/ StartRun(h)
    \/ Stop(h)
    \/ \E en \in SUBSET Planes : WritePlaneEn(en, h)

UnitSpecWithoutClear == HdduInit /\ [][EdgeWithoutClear]_hddu_vars

-----------------------------------------------------------------------------
(* Properties.                                                             *)

PacketPaired(packet) == packet.tag = packet.data

\* Every packet carries the data its own descriptor was read with, and every
\* PLO write goes to the address its own request was made for ("PLO response
\* and write_addr_fifo aligned", doc/component/HDDU.md), through stalls, STOPs,
\* restarts and planes that are switched off and on with requests in flight.
Paired ==
  /\ \A l \in Send : \A i \in 1 .. Len(noc_fifo[l]) : PacketPaired(noc_fifo[l][i])
  /\ \A i \in 1 .. Len(spm_req_fifo) : PacketPaired(spm_req_fifo[i])
  /\ \A i \in 1 .. Len(spm_wr) : PacketPaired(spm_wr[i])

\* The tags that wait are those of the reads the SPM has in hand, and the
\* addresses that wait those of the requests the NoC has in hand, in order; the
\* count of unanswered PLO writes is exact.
InStep ==
  /\ wait_fifo = spm_rd
  /\ write_addr_fifo = noc_plo
  /\ plo_wr_outstanding = Len(spm_wr)
=============================================================================
