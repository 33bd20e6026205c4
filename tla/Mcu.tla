--------------------------------- MODULE Mcu ---------------------------------
(***************************************************************************)
(* The RV32I microcontroller: the five stages under Core/rv32i_mcu/, its   *)
(* register file and CSRs, and CoreMcu.hpp, which wires the stages, stalls *)
(* them and connects them to the memories and to the command fabric.       *)
(*                                                                         *)
(* A step is a rising clock edge.  The combinational signals are operators *)
(* over the registers, named as in the code.  The instruction memory and   *)
(* the data memory answer at the next edge; a device answers after any     *)
(* number of edges (CmdFabric), and its effect is at the edge where its    *)
(* answer appears.  Between two edges the timer may reach its compare      *)
(* value.                                                                  *)
(*                                                                         *)
(* Left out: loads and stores of less than a word, mip, the counters, the  *)
(* immediate CSR forms, the vectored mtvec mode, the external interrupt    *)
(* (which Plic drives, and the code treats as the other two), the fetch    *)
(* stage's memory_state, which nothing reads, and the trace outputs.       *)
(***************************************************************************)
EXTENDS Instructions

CONSTANT Programs

VARIABLES
  program,
  fetch,      \* IF_pc, inst_read_done_reg_, if_inst_reg_
  bridge,     \* im_valid_reg_, if_rdata_reg_, dm_valid_reg_, dm_rdata_reg_, the device's answer
  decode,     \* the id_* registers
  execute,    \* the exe_* registers, stall_fence_reg_ and interrupt_reg_
  memory,     \* the mem_* registers
  writeback,  \* the wb_* registers
  gpr, csr,   \* GPR and CSR
  halted,     \* halted_reg_
  data,       \* the data memory and the devices
  timer       \* "off", "armed", "fired"

stages == <<fetch, bridge, decode, execute, memory, writeback>>
vars == <<program, stages, gpr, csr, halted, data, timer>>

Init ==
  /\ program \in Programs
  /\ fetch = [pc |-> 0, done |-> FALSE, inst |-> NoInstruction]
  /\ bridge = [im_valid |-> FALSE, if_rdata |-> NoInstruction, dm_valid |-> FALSE,
               dm_rdata |-> 0, mmio_valid |-> FALSE, mmio_rdata |-> 0]
  /\ decode = [pc |-> 0, inst |-> NoInstruction, valid |-> FALSE]
  /\ execute = [pc |-> 0, inst |-> NoInstruction, valid |-> FALSE, rs1 |-> 0, rs2 |-> 0,
                fence |-> FALSE, interrupt |-> FALSE]
  /\ memory = [valid |-> FALSE, inst |-> NoInstruction, pc |-> 0, out |-> 0, store |-> 0,
               read |-> 0, state |-> FALSE, done |-> FALSE]
  /\ writeback = [valid |-> FALSE, inst |-> NoInstruction, pc |-> 0, out |-> 0, read |-> 0,
                  first |-> FALSE]
  /\ gpr = [r \in Register |-> 0] /\ csr = ResetCsr
  /\ halted = FALSE
  /\ data = ResetData /\ timer = "off"

next_word(pc) == (pc + 1) % WORDS

-----------------------------------------------------------------------------
(* Interrupts and traps (CSR, ExecuteStage).                               *)

pending == pending_irq(data, timer)
trap_pending == irq_masked(csr, pending) \/ execute.inst.op \in {"ecall", "ebreak"}
interrupt_latched == trap_pending \/ execute.interrupt

\* Defect: wfi waits although the interrupt is there.
stall_wfi_always == execute.inst.op = "wfi"

stall_wfi == execute.inst.op = "wfi" /\ ~interrupt_latched

-----------------------------------------------------------------------------
(* The memory stage's access.                                              *)

dm_valid == IF memory.out \in Dsram THEN bridge.dm_valid ELSE bridge.mmio_valid
dm_DO == IF memory.out \in Dsram THEN bridge.dm_rdata ELSE bridge.mmio_rdata

\* Not dm_CEB: the access is being asked for.
dm_active == is_mem(memory.inst) /\ ~(memory.done \/ dm_valid) /\ memory.valid
mmio_req_valid == dm_active /\ memory.out \notin Dsram

DM_stall ==
  /\ ~(memory.done \/ dm_valid)
  /\ memory.state \/ (is_mem(memory.inst) /\ memory.valid)

-----------------------------------------------------------------------------
(* Forwarding.                                                             *)

MEM_read_data == IF dm_valid THEN dm_DO ELSE memory.read
MEM_rf_w_data == IF is_jump(memory.inst) THEN next_word(memory.pc) ELSE memory.out

IM_stall == ~(fetch.done \/ bridge.im_valid)
MEM_stall == IM_stall \/ stall_wfi
MEM_inst_valid == memory.valid /\ ~MEM_stall /\ ~DM_stall

WB_rf_w_data ==
  CASE is_jump(writeback.inst)     -> next_word(writeback.pc)
    [] writeback.inst.op = "load"  -> IF writeback.first /\ MEM_inst_valid
                                      THEN MEM_read_data ELSE writeback.read
    [] OTHER                       -> writeback.out
WB_irf_wen == writes_rd(writeback.inst) /\ writeback.valid

from_WB(r, uses) == r # 0 /\ uses /\ WB_irf_wen /\ r = writeback.inst.rd
from_MEM(r, uses) == r # 0 /\ uses /\ writes_rd(memory.inst) /\ r = memory.inst.rd

id_operand(r, uses) == IF from_WB(r, uses) THEN WB_rf_w_data ELSE gpr[r]

\* Defect: the older of two results is forwarded.
forwarded_old(r, uses, held) ==
  CASE from_WB(r, uses)  -> WB_rf_w_data
    [] from_MEM(r, uses) -> MEM_rf_w_data
    [] OTHER             -> held

forwarded(r, uses, held) ==
  CASE from_MEM(r, uses) -> MEM_rf_w_data
    [] from_WB(r, uses)  -> WB_rf_w_data
    [] OTHER             -> held

exe_rs1 == forwarded(execute.inst.rs1, reads_rs1(execute.inst), execute.rs1)
exe_rs2 == forwarded(execute.inst.rs2, reads_rs2(execute.inst), execute.rs2)

-----------------------------------------------------------------------------
(* Execute: results and redirection.                                       *)

alu_out == alu_result(execute.inst, execute.pc, exe_rs1, exe_rs2)
exe_out == IF is_csr(execute.inst) THEN csr[execute.inst.csr] ELSE alu_out
exe_taken ==
  \/ is_jump(execute.inst)
  \/ execute.valid /\ branch_taken(execute.inst, exe_rs1, exe_rs2)

EXE_bp_miss ==
  \/ execute.inst.op = "mret"
  \/ interrupt_latched
  \/ /\ is_branch(execute.inst) \/ is_jump(execute.inst)
     /\ execute.valid
     /\ decode.pc # IF exe_taken THEN alu_out ELSE next_word(execute.pc)

EXE_pc_target ==
  CASE execute.inst.op = "mret" -> csr.mepc
    [] interrupt_latched        -> csr.mtvec
    [] exe_taken                -> alu_out
    [] OTHER                    -> next_word(execute.pc)

\* What decode shows: nothing while the execute stage redirects.
ID_inst == IF EXE_bp_miss THEN NoInstruction ELSE decode.inst
ID_inst_valid == decode.valid /\ ~EXE_bp_miss

stall_DH ==
  /\ execute.inst.op = "load"
  /\ \/ ID_inst.rs1 # 0 /\ reads_rs1(ID_inst) /\ ID_inst.rs1 = execute.inst.rd
     \/ ID_inst.rs2 # 0 /\ reads_rs2(ID_inst) /\ ID_inst.rs2 = execute.inst.rd

\* Defect: where an interrupted wfi returns to is the wfi.
csr_epc_wfi ==
  IF execute.valid THEN execute.pc ELSE IF ID_inst_valid THEN decode.pc ELSE fetch.pc

csr_epc ==
  LET here == IF execute.valid THEN execute.pc
              ELSE IF ID_inst_valid THEN decode.pc ELSE fetch.pc
  IN  IF execute.inst.op = "wfi" THEN next_word(here) ELSE here

-----------------------------------------------------------------------------
(* CoreMcu::compute_stall_logic.                                           *)

IF_stall == DM_stall \/ stall_DH \/ stall_wfi \/ execute.fence
ID_stall == IM_stall \/ IF_stall
EXE_stall == IM_stall \/ DM_stall \/ stall_wfi
WB_stall == IM_stall \/ DM_stall \/ stall_wfi

-----------------------------------------------------------------------------
(* The registers of each stage.                                            *)

FetchStage ==
  LET stalled == IF_stall \/ IM_stall
  IN  fetch' = [pc |-> CASE stalled     -> fetch.pc
                         [] EXE_bp_miss -> EXE_pc_target
                         [] OTHER       -> next_word(fetch.pc),
                done |-> IF bridge.im_valid /\ IF_stall THEN TRUE ELSE fetch.done /\ stalled,
                inst |-> IF bridge.im_valid THEN bridge.if_rdata ELSE fetch.inst]

DecodeStage ==
  decode' = CASE ID_stall    -> decode
              [] EXE_bp_miss -> [pc |-> 0, inst |-> NoInstruction, valid |-> FALSE]
              [] OTHER       -> [pc |-> fetch.pc,
                                 inst |-> IF bridge.im_valid THEN bridge.if_rdata
                                          ELSE fetch.inst,
                                 valid |-> ~IF_stall /\ ~IM_stall]

ExecuteStage ==
  LET bubble == stall_DH \/ ~ID_inst_valid
      taken == [pc |-> IF bubble THEN 0 ELSE decode.pc,
                inst |-> IF bubble THEN NoInstruction ELSE ID_inst,
                valid |-> ~bubble /\ ~interrupt_latched,
                rs1 |-> IF bubble THEN 0 ELSE id_operand(ID_inst.rs1, reads_rs1(ID_inst)),
                rs2 |-> IF bubble THEN 0 ELSE id_operand(ID_inst.rs2, reads_rs2(ID_inst)),
                fence |-> FALSE, interrupt |-> FALSE]
      kept == [execute EXCEPT !.interrupt = @ \/ trap_pending]
      \* FENCE waits for an answer of the memory stage.
      fence == ID_inst_valid /\ ID_inst.op = "fence" /\ ~(execute.fence /\ dm_valid)
  IN  execute' = [(IF EXE_stall THEN kept ELSE taken) EXCEPT !.fence = fence]

MemoryStage ==
  LET taken == [memory EXCEPT !.valid = execute.valid, !.inst = execute.inst,
                              !.pc = execute.pc, !.out = exe_out, !.store = exe_rs2]
      stalled == MEM_stall \/ DM_stall
  IN  memory' = [(IF stalled THEN memory ELSE taken) EXCEPT
                   !.state = IF memory.state THEN ~dm_valid
                             ELSE is_mem(memory.inst) /\ ~memory.done /\ memory.valid,
                   !.done = IF dm_valid /\ MEM_stall THEN TRUE ELSE memory.done /\ stalled,
                   !.read = MEM_read_data]

WriteBackStage ==
  LET taken == [valid |-> MEM_inst_valid, inst |-> memory.inst, pc |-> memory.pc,
                out |-> memory.out, read |-> MEM_read_data, first |-> TRUE]
  IN  writeback' = IF WB_stall THEN [writeback EXCEPT !.first = FALSE] ELSE taken

Gpr ==
  gpr' = IF WB_irf_wen /\ writeback.inst.rd # 0
         THEN [gpr EXCEPT ![writeback.inst.rd] = WB_rf_w_data] ELSE gpr

CsrRegisters ==
  csr' = CASE EXE_stall                  -> csr
           [] trap_pending               -> trapped(csr, pending, execute.inst, csr_epc)
           [] execute.inst.op = "mret"   -> returned(csr)
           [] is_csr(execute.inst)       -> csr_written(csr, execute.inst, exe_rs1)
           [] OTHER                      -> csr

\* An access takes effect: in the data memory at once, in a device when it answers.
Access(answer) ==
  LET now == dm_active /\ (memory.out \in Dsram \/ answer)
  IN  /\ data' = CASE now /\ memory.inst.op = "store" ->
                        data_stored(data, memory.out, memory.store)
                   [] now /\ memory.inst.op = "load"  -> data_loaded(data, memory.out)
                   [] OTHER                           -> data
      /\ timer' = IF now /\ memory.inst.op = "store"
                  THEN timer_stored(timer, memory.out, memory.store) ELSE timer

Bridges(answer) ==
  bridge' = [im_valid |-> IM_stall,
             if_rdata |-> IF IM_stall THEN program[fetch.pc] ELSE bridge.if_rdata,
             dm_valid |-> dm_active /\ memory.out \in Dsram,
             dm_rdata |-> IF dm_active /\ memory.out \in Dsram THEN data[memory.out]
                          ELSE bridge.dm_rdata,
             mmio_valid |-> answer,
             mmio_rdata |-> IF answer THEN data[memory.out] ELSE 0]

Edge(answer) ==
  /\ answer => mmio_req_valid
  /\ FetchStage /\ DecodeStage /\ ExecuteStage /\ MemoryStage /\ WriteBackStage
  /\ Gpr /\ CsrRegisters /\ Access(answer) /\ Bridges(answer)
  /\ halted' = (halted \/ (execute.inst.op = "ebreak" /\ execute.valid))
  /\ UNCHANGED program

\* CoreLocalIrq: mtime reaches mtimecmp.
Fire ==
  /\ timer = "armed" /\ timer' = "fired"
  /\ UNCHANGED <<program, stages, gpr, csr, halted, data>>

Clock == \E answer \in BOOLEAN : Edge(answer)

Next == Clock \/ Fire

Spec == Init /\ [][Next]_vars

\* The clock runs, the fabric answers, time passes.
FairSpec == Spec /\ WF_vars(Clock) /\ WF_vars(Edge(TRUE)) /\ WF_vars(Fire)

-----------------------------------------------------------------------------
(* Properties.                                                             *)

\* Accesses that the memory stage has not made yet are counted as made.
waits == memory.valid /\ dm_active

commit_data ==
  CASE waits /\ memory.inst.op = "store" -> data_stored(data, memory.out, memory.store)
    [] waits /\ memory.inst.op = "load"  -> data_loaded(data, memory.out)
    [] OTHER                             -> data

commit_timer == IF waits /\ memory.inst.op = "store"
                THEN timer_stored(timer, memory.out, memory.store) ELSE timer

commit_regs ==
  LET written == IF WB_irf_wen THEN [gpr EXCEPT ![writeback.inst.rd] = WB_rf_w_data] ELSE gpr
      value == CASE memory.inst.op # "load" -> MEM_rf_w_data
                 [] waits                   -> data[memory.out]
                 [] OTHER                   -> MEM_read_data
      done == IF memory.valid /\ writes_rd(memory.inst)
              THEN [written EXCEPT ![memory.inst.rd] = value] ELSE written
  IN  [done EXCEPT ![0] = 0]

commit_pc ==
  IF execute.valid THEN execute.pc ELSE IF decode.valid THEN decode.pc ELSE fetch.pc

\* Forwarding, load-use stalls, redirection and interrupts are not seen by a
\* program: the instructions that have left the execute stage, with the
\* registers, accesses and CSRs they leave behind, are a run of the machine that
\* executes one at a time (the stages under Core/rv32i_mcu/).
Sequential == INSTANCE SequentialMachine
                WITH pc <- commit_pc, regs <- commit_regs,
                     data <- commit_data, timer <- commit_timer
ImplementsMachine == Sequential!MachineSpec

\* "For interrupts, mepc points to the instruction to resume": what a trap
\* leaves in mepc is the first instruction that has not run, or the ecall or
\* ebreak itself (CSR.hpp, ExecuteStage.hpp; test/firmware/test_trap/main.c:38).
Traps == Clock /\ trap_pending /\ ~EXE_stall
resume_pc ==
  CASE execute.inst.op \in {"ecall", "ebreak"} -> execute.pc
    [] execute.valid -> IF exe_taken THEN alu_out ELSE next_word(execute.pc)
    [] OTHER         -> commit_pc
MepcIsResumePoint == [][Traps => csr'.mepc = resume_pc]_vars

\* The program comes to its last instruction, a wfi that no interrupt ends:
\* no stall of one stage on another lasts, and an armed timer ends each wait
\* (CoreMcu::compute_stall_logic, ExecuteStage::stall_wfi).
asleep == execute.inst.op = "wfi" /\ 0 \notin bits(csr.mstatus) /\ execute.valid
EveryProgramEnds == <>[]asleep
=============================================================================
