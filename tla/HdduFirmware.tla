----------------------------- MODULE HdduFirmware -----------------------------
(***************************************************************************)
(* The delivery unit driven the way the generated firmware drives it       *)
(* (python/hybridacc_cc/templates/firmware_ops.c.j2): one command bit per  *)
(* write; START, wait for DONE, STOP, wait until no AGU is busy, and only  *)
(* then the next wave, a change of PLANE_EN or a SOFT_RESET.               *)
(***************************************************************************)
EXTENDS Hddu

VARIABLE wave_fw    \* where the firmware's wave loop is

wave_vars == <<hddu_vars, wave_fw>>

WaveTypeOK == HdduTypeOK /\ wave_fw \in {"idle", "running", "stopping"}

WaveInit == HdduInit /\ wave_fw = "idle"

\* bcast_write32(HDDU_CTRL, HDDU_CTRL_START)
StartWave ==
  /\ wave_fw = "idle" /\ plane_en # {}
  /\ \E h \in Handshakes : StartRun(h)
  /\ wave_fw' = "running"

\* The write of STOP, after wait_all_clusters_hddu_done has read DONE.
StopWave ==
  /\ wave_fw = "running" /\ status.done
  /\ \E h \in Handshakes : Stop(h)
  /\ wave_fw' = "stopping"

\* wait_all_clusters_agu_idle: the BUSY bits of the four AGU_STATUS registers.
SeeAgusIdle ==
  /\ wave_fw = "stopping" /\ \A p \in Planes : ~agu[p].busy_reg
  /\ \E h \in Handshakes : NoCommand(h)
  /\ wave_fw' = "idle"

\* An edge at which the firmware writes nothing: it polls or does other work.
Poll ==
  /\ \E h \in Handshakes : NoCommand(h)
  /\ UNCHANGED wave_fw

\* prepare_layer_common, between layers.
PrepareReset ==
  /\ wave_fw = "idle"
  /\ \E h \in Handshakes : SoftReset(h)
  /\ UNCHANGED wave_fw

PreparePlanes ==
  /\ wave_fw = "idle"
  /\ \E h \in Handshakes, en \in SUBSET Planes : WritePlaneEn(en, h)
  /\ UNCHANGED wave_fw

WaveNext == StartWave \/ StopWave \/ SeeAgusIdle \/ Poll \/ PrepareReset \/ PreparePlanes

WaveSpec == WaveInit /\ [][WaveNext]_wave_vars

-----------------------------------------------------------------------------
(* Properties.                                                             *)

\* DONE is the W6 completion (HybridDataDeliverUnit.hpp, seen_busy_latched):
\* when it shows, the AGUs of the wave have been started and every descriptor
\* has been delivered: every packet of a send plane has left for the NoC, every
\* PLO write has been answered by the SPM, and nothing of the wave is left in a
\* queue, the SPM or the NoC.
WaveComplete ==
  /\ agu_start = {}
  /\ \A p \in plane_en : delivered[p] = agu[p].total
  /\ internal_queues_empty
  /\ \A l \in Send : spm_rd[l] = <<>>
  /\ spm_wr = <<>> /\ noc_plo = <<>>

DoneMeansComplete == status.done => WaveComplete

Nth(p, n) == <<run[p], n>>

SendPlaneInOrder(l) ==
  /\ \A i \in 1 .. Len(noc_fifo[l]) :
       noc_fifo[l][i].tag = Nth(l, delivered[l] + i - 1)
  /\ \A i \in 1 .. Len(wait_fifo[l]) :
       wait_fifo[l][i] = Nth(l, delivered[l] + Len(noc_fifo[l]) + i - 1)
  /\ delivered[l] + Len(noc_fifo[l]) + Len(wait_fifo[l]) = agu[l].sent

\* The queues of a send plane hold, behind what was delivered, the next
\* descriptors of the current run in order: none is lost, duplicated, overtaken
\* or left over from an earlier wave.
SendInOrder == \A l \in Send : SendPlaneInOrder(l)

\* The same of the PLO plane, through the two queues and the SPM.
PloInOrder ==
  /\ \A i \in 1 .. Len(spm_wr) : spm_wr[i].tag = Nth(PLO, delivered[PLO] + i - 1)
  /\ \A i \in 1 .. Len(spm_req_fifo) :
       spm_req_fifo[i].tag = Nth(PLO, delivered[PLO] + Len(spm_wr) + i - 1)
  /\ \A i \in 1 .. Len(write_addr_fifo) :
       write_addr_fifo[i]
         = Nth(PLO, delivered[PLO] + Len(spm_wr) + Len(spm_req_fifo) + i - 1)
  /\ delivered[PLO] + Len(spm_wr) + Len(spm_req_fifo) + Len(write_addr_fifo)
       = agu[PLO].sent

\* A wave that was started completes, if the SPM takes and answers requests, the
\* NoC takes packets and answers PLO requests, and the pipelines of running AGUs
\* advance: fairness of the handshakes, each of which stays possible or becomes
\* so again and again until it happens.
WaveProgress(h) == NoCommand(h) /\ UNCHANGED wave_fw

WaveFairness ==
  /\ \A l \in Send :
       /\ SF_wave_vars(\E h \in Handshakes : h.rd_req[l] /\ WaveProgress(h))
       /\ SF_wave_vars(\E h \in Handshakes : h.rd_resp[l] /\ WaveProgress(h))
       /\ SF_wave_vars(\E h \in Handshakes : h.noc[l] /\ WaveProgress(h))
  /\ SF_wave_vars(\E h \in Handshakes : h.plo_req /\ WaveProgress(h))
  /\ SF_wave_vars(\E h \in Handshakes : h.plo_resp /\ WaveProgress(h))
  /\ SF_wave_vars(\E h \in Handshakes : h.wr_req /\ WaveProgress(h))
  /\ SF_wave_vars(\E h \in Handshakes : h.wr_resp /\ WaveProgress(h))
  /\ \A p \in Planes : SF_wave_vars(\E h \in Handshakes : h.produce[p] /\ WaveProgress(h))
  /\ WF_wave_vars(Poll)

FairWaveSpec == WaveSpec /\ WaveFairness

EveryWaveCompletes == wave_fw = "running" ~> status.done
=============================================================================
