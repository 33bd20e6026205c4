---------------------------------- MODULE Pe ----------------------------------
(***************************************************************************)
(* The processing element (ProcessElement.hpp and PE/): fetch and loop     *)
(* stack, the stage with the load and store DMAs, the data memory and the  *)
(* transform registers (EXE_M), and the stage with the accumulator, the    *)
(* psum registers and the local ports (EXE_A).                             *)
(*                                                                         *)
(* A step Edge is a rising clock edge; the combinational signals are       *)
(* operators over the registers, named as in the code.  Between two edges  *)
(* the router may offer a word at a port; whether it takes a word from     *)
(* the output port in a cycle is its choice.                               *)
(*                                                                         *)
(* Left out: LDMA.LOOP and the DMA resets, which no kernel uses, element   *)
(* widths and broadcast, TSTORE, the kernel sizes 5 and 7 of TSHIFT, the   *)
(* psum registers that have no scalar alias, the spatial-window override   *)
(* of a loop, and the counters of cycles.                                  *)
(***************************************************************************)
EXTENDS PeIsa

CONSTANTS WAVES, STARTUP_GUARD

VARIABLES
  program, wave,
  control,  \* pe_running_reg, stage_reset_reg, startup_guard_reg
  fetch,    \* IF_ID: pc_reg, valid_reg, halted_reg and the loop stack
  exe_m,    \* decode_signals_reg, valid_reg, halted_reg
  ldma, sdma,
  dm,       \* the two banks and dm_read_data
  tr,       \* the transform registers, vcounter and vtid_out
  exe_a,    \* the registers of EXE_A and its output buffer
  psum,     \* the psum registers, pcounter and the clear wires of a reset
  port      \* words offered and taken at the ports, words given

pipeline == <<control, fetch, exe_m, ldma, sdma, dm, tr, exe_a, psum>>
vars == <<program, wave, pipeline, port>>

Port == {"ps", "pd", "pli"}
demand == [ps  |-> Results[program].ps, pd |-> Results[program].pd,
           pli |-> Len(Results[program].out)]

ResetFetch == [pc |-> 1, valid |-> FALSE, halted |-> FALSE, loops |-> <<>>]
ResetExeM == [inst |-> Bubble, valid |-> FALSE, halted |-> FALSE]
ResetExeA == [state |-> "IDLE", inst |-> Bubble, s1 |-> Bubble, s2 |-> Bubble, vmul |-> <<>>,
              s1_sum |-> <<>>, s2_sum |-> <<>>, pli |-> 0, sum |-> <<>>, halted |-> FALSE,
              plo_valid |-> FALSE, plo_data |-> <<>>]

Init ==
  /\ program \in DOMAIN Programs /\ wave = 0
  /\ control = [running |-> FALSE, reset |-> FALSE, guard |-> 0]
  /\ fetch = ResetFetch /\ exe_m = ResetExeM
  /\ ldma = [state |-> "IDLE", addr |-> 0, len |-> 0, mode |-> 0,
             at |-> 0, left |-> 0, stride |-> 0, dmrv |-> 0]
  /\ sdma = [state |-> "IDLE", addr |-> 0, len |-> 0, mode |-> 0, loop |-> 0,
             at |-> 0, left |-> 0, phases |-> 0, bank_sel |-> 0]
  /\ dm = [banks |-> [b \in {0, 1} |-> [w \in Word |-> 0]], read |-> 0]
  /\ tr = [vt |-> ZeroVectors, counter |-> 0, out |-> 0]
  /\ exe_a = ResetExeA
  /\ psum = [P |-> ZeroPsums, counter |-> 0, clear |-> FALSE]
  /\ port = [offered |-> {}, taken |-> [p \in Port |-> 0], given |-> <<>>, plo_ready |-> FALSE]

-----------------------------------------------------------------------------
(* EXE_M sees the instruction that EXE_A may take.                         *)

word(p) == port.taken[p] + 1
offers(p) == p \in port.offered

\* Defect: the store DMA counts as busy while it waits for SWAPDM.
swap_stall_waiting == Is(exe_m.inst, "is_swap") /\ sdma.state \in {"RUN", "WAIT_SWAP"}

swap_stall == Is(exe_m.inst, "is_swap") /\ sdma.state = "RUN"

internal_stall ==
  \/ exe_m.valid /\ Is(exe_m.inst, "sdma_act") /\ ~offers("ps")
  \/ exe_m.valid /\ Is(exe_m.inst, "pd_load_v") /\ ~offers("pd")
  \/ swap_stall

m_valid == exe_m.valid /\ ~internal_stall

-----------------------------------------------------------------------------
(* EXE_A: what it can accept.                                              *)

vmac_active == exe_a.state \in {"VMAC_S1", "VMAC_S2", "VMAC_S3"}
can_push == ~exe_a.plo_valid \/ port.plo_ready
next_is_vpsum == m_valid /\ Is(exe_m.inst, "pli_plo_operation")
next_is_vmac == m_valid /\ Is(exe_m.inst, "vmac")

a_ready ==
  CASE exe_a.state \in {"IDLE", "NORMAL_MODE"} -> next_is_vpsum => can_push
    [] exe_a.state = "VMAC_S1"                 -> m_valid => next_is_vmac
    [] exe_a.state = "EXEC_PLI_VADDU"          -> can_push
    [] exe_a.state = "WAIT_PLO"                -> port.plo_ready
    [] OTHER                                   -> FALSE

accepting == m_valid /\ a_ready
m_ready == ~internal_stall /\ (a_ready \/ ~exe_m.valid)

\* Defect: only a waiting VPSUM takes its input.
pli_ready_waiting == exe_a.state = "WAIT_PLI"

\* The local input is taken at the edge that reads it; NORMAL_MODE reads
\* it without taking it.
pli_ready ==
  \/ exe_a.state = "WAIT_PLI"
  \/ exe_a.state \in {"IDLE", "EXEC_PLI_VADDU", "WAIT_PLO"} /\ accepting /\ next_is_vpsum

-----------------------------------------------------------------------------
(* Fetch: IF_ID and the loop controller.                                   *)

inst_in == IF fetch.pc \in DOMAIN Programs[program] THEN Programs[program][fetch.pc] ELSE Bubble
if_masked == control.reset \/ ~control.running \/ fetch.halted
if_decode == IF if_masked THEN Bubble ELSE inst_in
if_valid == fetch.valid /\ ~if_masked
can_advance == m_ready /\ fetch.valid

FetchStage ==
  fetch' =
    IF control.reset THEN ResetFetch
    ELSE [pc |-> CASE ~control.running \/ fetch.halted \/ ~can_advance -> fetch.pc
                   [] jump(fetch.loops, inst_in) -> Last(fetch.loops).start
                   [] OTHER -> fetch.pc + 1,
          valid |-> control.running /\ ~fetch.halted /\ (m_ready \/ fetch.valid),
          halted |-> fetch.halted
                     \/ (control.running /\ can_advance /\ Is(inst_in, "halt")),
          loops |-> IF can_advance THEN loops_after(fetch.loops, inst_in, fetch.pc)
                                   ELSE fetch.loops]

\* A HALT stays one cycle in EXE_M, whether EXE_A accepts it or not.
LoadStage ==
  exe_m' =
    IF control.reset THEN ResetExeM
    ELSE [inst |-> IF m_ready THEN if_decode ELSE exe_m.inst,
          valid |-> control.running /\ ~exe_m.halted /\ (IF m_ready THEN if_valid ELSE exe_m.valid),
          halted |-> exe_m.halted \/ (m_ready /\ if_valid /\ Is(if_decode, "halt"))]

-----------------------------------------------------------------------------
(* The DMAs and the data memory.                                           *)

\* The one-shot controls of an instruction come with its last cycle.
pulse(signal) == accepting /\ Is(exe_m.inst, signal)

dm_read_addr ==
  CASE ldma.state = "IDLE" /\ pulse("ldma_act") /\ ldma.len # 0 -> ldma.addr
    [] ldma.state = "LOAD_PIPELINE" /\ pulse("LDMA_next") /\ ldma.left # 0 -> ldma.at + ldma.stride
    [] OTHER -> ldma.at

\* The registers with the configuration that this edge writes.
ldma_set ==
  [ldma EXCEPT !.addr = IF pulse("ldma_addr") THEN exe_m.inst.imm ELSE @,
               !.len  = IF pulse("ldma_len")  THEN exe_m.inst.imm ELSE @,
               !.mode = IF pulse("ldma_mode") THEN exe_m.inst.imm ELSE @]

LoadDma ==
  ldma' =
    CASE ldma.state = "IDLE" /\ pulse("ldma_act") ->
           [ldma_set EXCEPT !.state = IF ldma.len = 0 THEN "IDLE" ELSE "LOAD_WAIT",
                            !.at = IF ldma.len = 0 THEN ldma.addr ELSE ldma.addr + ldma.mode,
                            !.left = ldma.len, !.stride = ldma.mode]
      [] ldma.state = "LOAD_WAIT" ->
           [ldma_set EXCEPT !.state = "LOAD_PIPELINE", !.left = @ - 1, !.dmrv = dm.read]
      [] ldma.state = "LOAD_PIPELINE" /\ pulse("LDMA_next") ->
           IF ldma.left = 0 THEN [ldma_set EXCEPT !.state = "DONE", !.dmrv = dm.read]
           ELSE [ldma_set EXCEPT !.at = @ + ldma.stride, !.left = @ - 1, !.dmrv = dm.read]
      [] ldma.state = "DONE" -> [ldma_set EXCEPT !.state = "IDLE"]
      [] OTHER -> ldma_set

ps_ready == sdma.state = "RUN" /\ sdma.left > 0
fire == ps_ready /\ offers("ps")

start_phase(bank, phases) ==
  [sdma EXCEPT !.state = IF sdma.len = 0 THEN "WAIT_SWAP" ELSE "RUN", !.at = 0,
               !.left = sdma.len, !.bank_sel = bank,
               !.phases = IF sdma.len = 0 THEN phases - 1 ELSE phases]

StoreDma ==
  sdma' =
    CASE sdma.state = "IDLE" /\ pulse("sdma_act") ->
           start_phase(sdma.bank_sel, IF sdma.loop = 0 THEN 1 ELSE sdma.loop)
      [] sdma.state = "IDLE" ->
           [sdma EXCEPT !.addr = IF pulse("sdma_addr") THEN exe_m.inst.imm ELSE @,
                        !.len  = IF pulse("sdma_len")  THEN exe_m.inst.imm + 1 ELSE @,
                        !.loop = IF pulse("sdma_loop") THEN exe_m.inst.imm + 1 ELSE @,
                        !.mode = IF pulse("sdma_mode") THEN exe_m.inst.imm ELSE @,
                        !.bank_sel = IF pulse("is_swap") THEN 1 - @ ELSE @]
      [] fire ->
           [sdma EXCEPT !.at = @ + sdma.mode, !.left = @ - 1,
                        !.phases = IF sdma.left = 1 THEN @ - 1 ELSE @,
                        !.state = IF sdma.left = 1 THEN "WAIT_SWAP" ELSE @]
      [] sdma.state = "WAIT_SWAP" /\ pulse("is_swap") ->
           IF sdma.phases > 0 THEN start_phase(1 - sdma.bank_sel, sdma.phases)
           ELSE [sdma EXCEPT !.state = "FINISH", !.bank_sel = 1 - @]
      [] sdma.state = "FINISH" -> [sdma EXCEPT !.state = "IDLE"]
      [] OTHER -> sdma

DataMemory ==
  dm' = [banks |-> IF fire THEN [dm.banks EXCEPT ![sdma.bank_sel][(sdma.addr + sdma.at) % WORDS]
                                   = word("ps")]
                           ELSE dm.banks,
         read |-> dm.banks[1 - sdma.bank_sel][dm_read_addr % WORDS]]

-----------------------------------------------------------------------------
(* The transform registers and the multiplier.                             *)

in_exe_m == IF exe_m.valid THEN exe_m.inst ELSE Bubble

\* What EXE_M drives for an instruction: the output's enable and counter bits,
\* which the method of the output does not wait for, and the signals that it
\* does (of the stored word it is enough that it is stored).
transform_control(d, advancing) ==
  [enable |-> advancing /\ d.on \cap {"vmac", "vmul", "tr_shift", "pd_load_v"} # {},
   use_vcounter |-> advancing /\ Is(d, "tr_use_vcounter"), tid |-> d.rid3,
   sensed |-> <<d.rid3, d.imm % 8, advancing /\ Is(d, "tr_shift"), advancing /\ Is(d, "pd_load_v")>>]

vt_of(c, vt, counter) ==
  IF c.enable THEN vt[IF c.use_vcounter THEN counter ELSE c.tid] ELSE 0

\* The method runs when the counter has changed, with the signals of the cycle
\* that ends, and again when a signal that it waits for has; EXE_M sets these first
\* with the stall and the readiness of the cycle that ends.  Else the output stays.
vt_driven(vt, counter) ==
  LET before == transform_control(in_exe_m, accepting)
      after == transform_control(in_exe_m', a_ready /\ ~internal_stall)
  IN CASE after.sensed # before.sensed -> vt_of(after, vt, counter)
       [] counter # tr.counter -> vt_of(before, vt, counter)
       [] OTHER -> tr.out

vt_out == tr.out
vmul_out == <<vt_out, ldma.dmrv>>

TransformRegFile ==
  LET vt == CASE pulse("tr_clear_regs") -> ZeroVectors
              [] pulse("tr_shift") -> shift(tr.vt)
              [] pulse("pd_load_v") -> [tr.vt EXCEPT ![exe_m.inst.rid3] = word("pd")]
              [] OTHER -> tr.vt
      counter == CASE pulse("sys_rst_tid") -> 0
                   [] pulse("tr_incr_vcounter") -> tr.counter + exe_m.inst.rid3
                   [] OTHER -> tr.counter
  IN  tr' = [vt |-> vt, counter |-> counter, out |-> vt_driven(vt, counter)]

-----------------------------------------------------------------------------
(* EXE_A: psum registers, the pipelined accumulator and the local ports.   *)

pr_decode == IF vmac_active THEN exe_a.s2 ELSE exe_a.inst
pr_id == IF Is(pr_decode, "pr_use_vcounter") THEN psum.counter ELSE pr_decode.rid5
vaddu_result == <<exe_a.pli, vector(psum.P, pr_id)>>

pr_incr ==
  /\ vmac_active \/ exe_a.state \in {"NORMAL_MODE", "EXEC_PLI_VADDU"}
  /\ Is(pr_decode, "pr_incr_vcounter")

\* The clear wires follow a reset only when an instruction or the state changes:
\* comb_pr_static_signals does not wait for the reset.
pr_clear ==
  IF <<exe_a.inst, exe_a.s2, exe_a.state>>' # <<exe_a.inst, exe_a.s2, exe_a.state>>
  THEN control.reset ELSE psum.clear

PsumRegFile ==
  psum' =
    [P |-> CASE psum.clear \/ Is(pr_decode, "pr_clear_regs") -> ZeroPsums
             [] vmac_active /\ Is(pr_decode, "vmac") -> vmac(psum.P, pr_id, exe_a.s2_sum)
             [] exe_a.state = "NORMAL_MODE" /\ Is(pr_decode, "vmul") ->
                  vmul(psum.P, pr_id, exe_a.vmul)
             [] OTHER -> psum.P,
     counter |-> CASE psum.clear \/ Is(pr_decode, "sys_rst_pid") -> 0
                   [] pr_incr -> psum.counter + pr_decode.rid5
                   [] OTHER -> psum.counter,
     clear |-> pr_clear]

state_for(d) ==
  CASE Is(d, "pli_plo_operation") -> IF offers("pli") THEN "EXEC_PLI_VADDU" ELSE "WAIT_PLI"
    [] Is(d, "vmac") -> "VMAC_S1"
    [] Is(d, "vmul") -> "NORMAL_MODE"
    [] OTHER -> "IDLE"

accepted == [exe_a EXCEPT !.inst = exe_m.inst, !.vmul = vmul_out, !.s1 = Bubble, !.s2 = Bubble,
                          !.pli = IF next_is_vpsum /\ offers("pli") THEN word("pli") ELSE @,
                          !.state = state_for(exe_m.inst), !.halted = Is(exe_m.inst, "halt")]

\* The accumulator's pipeline moves by one stage.
shifted(d, state) ==
  [exe_a EXCEPT !.inst = d, !.vmul = IF d = Bubble THEN @ ELSE vmul_out,
                !.s1 = exe_a.inst, !.s1_sum = exe_a.vmul,
                !.s2 = exe_a.s1, !.s2_sum = exe_a.s1_sum, !.state = state]

fsm ==
  CASE ~control.running \/ exe_a.halted -> exe_a
    [] exe_a.state = "VMAC_S1" -> IF accepting THEN shifted(exe_m.inst, "VMAC_S1")
                                               ELSE shifted(Bubble, "VMAC_S2")
    [] exe_a.state = "VMAC_S2" -> shifted(Bubble, "VMAC_S3")
    [] exe_a.state = "VMAC_S3" -> [exe_a EXCEPT !.s2 = exe_a.s1, !.state = "IDLE"]
    [] exe_a.state = "WAIT_PLI" ->
         IF offers("pli") THEN [exe_a EXCEPT !.pli = word("pli"), !.state = "EXEC_PLI_VADDU"]
                          ELSE exe_a
    [] exe_a.state = "EXEC_PLI_VADDU" /\ ~can_push ->
         [exe_a EXCEPT !.sum = vaddu_result, !.state = "WAIT_PLO"]
    [] exe_a.state = "WAIT_PLO" /\ ~port.plo_ready -> exe_a
    [] accepting -> accepted
    [] OTHER -> [exe_a EXCEPT !.state = "IDLE"]

\* The output buffer works whether the element runs or not.
pop == exe_a.plo_valid /\ port.plo_ready
produce == exe_a.state \in {"EXEC_PLI_VADDU", "WAIT_PLO"} /\ can_push

AddStage ==
  exe_a' =
    IF control.reset THEN ResetExeA
    ELSE [fsm EXCEPT !.plo_valid = produce \/ (@ /\ ~pop),
                     !.plo_data = CASE produce /\ exe_a.state = "WAIT_PLO" -> exe_a.sum
                                    [] produce -> vaddu_result
                                    [] OTHER -> @]

-----------------------------------------------------------------------------
(* ProcessElement, its ports and its router.                               *)

all_stages_halted == fetch.halted /\ exe_m.halted /\ exe_a.halted

Control(command) ==
  control' =
    [running |-> CASE command = "start" -> TRUE
                   [] command = "program" -> FALSE
                   [] all_stages_halted /\ ~control.reset /\ control.guard = 0 -> FALSE
                   [] OTHER -> control.running,
     reset |-> command = "start" \/ control.guard > 0,
     guard |-> CASE command = "start" -> STARTUP_GUARD
                 [] control.guard > 0 -> control.guard - 1
                 [] OTHER -> 0]

taking == {p \in port.offered : CASE p = "ps"  -> ps_ready
                                  [] p = "pd"  -> pulse("pd_load_v")
                                  [] p = "pli" -> pli_ready}

Exchange(plo_ready) ==
  port' = [offered |-> port.offered \ taking,
           taken |-> [p \in Port |-> port.taken[p] + (IF p \in taking THEN 1 ELSE 0)],
           given |-> IF pop THEN Append(port.given, exe_a.plo_data) ELSE port.given,
           plo_ready |-> plo_ready]

Clock(command) ==
  /\ FetchStage /\ LoadStage /\ AddStage
  /\ LoadDma /\ StoreDma /\ DataMemory /\ TransformRegFile /\ PsumRegFile
  /\ Control(command)
  /\ UNCHANGED program

Edge(plo_ready) == Clock("none") /\ Exchange(plo_ready) /\ UNCHANGED wave

Offer(p) ==
  /\ wave > 0 /\ ~offers(p) /\ port.taken[p] < demand[p]
  /\ port' = [port EXCEPT !.offered = @ \cup {p}]
  /\ UNCHANGED <<program, wave, pipeline>>

\* The cluster stops an element, and starts it again for the next wave,
\* when it has sent all the words of a wave; it does not wait for HALT.
finished == wave > 0 /\ port.given = Results[program].out

Stop == finished /\ control.running /\ Clock("program") /\ Exchange(FALSE) /\ UNCHANGED wave

Start ==
  /\ wave < WAVES
  /\ wave = 0 \/ finished
  /\ Clock("start") /\ wave' = wave + 1
  /\ port' = [offered |-> {}, taken |-> [p \in Port |-> 0], given |-> <<>>, plo_ready |-> FALSE]

Next == (\E r \in BOOLEAN : Edge(r)) \/ (\E p \in Port : Offer(p)) \/ Stop \/ Start

Spec == Init /\ [][Next]_vars

\* The clock ticks, data arrive, the output is taken now and then, and the
\* next wave comes.
FairSpec ==
  /\ Spec /\ WF_vars(Edge(TRUE)) /\ WF_vars(Start)
  /\ \A p \in Port : WF_vars(Offer(p))

-----------------------------------------------------------------------------
(* The element runs every wave to its HALT and reports it: no stall, no    *)
(* full port and no wait for a swap stops it (auto-halt in                 *)
(* ProcessElement::comb_control_next).                                     *)
EveryProgramEnds == <>[](wave = WAVES /\ finished /\ ~control.running)
=============================================================================
