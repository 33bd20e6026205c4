-------------------------- MODULE SequentialMachine --------------------------
(***************************************************************************)
(* What firmware may assume of the microcontroller: instructions run one   *)
(* at a time, each once, and an interrupt comes between two of them and    *)
(* returns to the one that has not run.                                    *)
(***************************************************************************)
EXTENDS Instructions

CONSTANT Programs

VARIABLES program, pc, regs, data, csr, timer

machine == <<program, pc, regs, data, csr, timer>>

instruction == program[pc]
rs1_value == regs[instruction.rs1]
rs2_value == regs[instruction.rs2]
result == alu_result(instruction, pc, rs1_value, rs2_value)

MachineInit ==
  /\ program \in Programs
  /\ pc = 0 /\ regs = [r \in Register |-> 0]
  /\ data = ResetData /\ csr = ResetCsr /\ timer = "off"

SetRegister(v) == regs' = IF instruction.rd = 0 THEN regs
                          ELSE [regs EXCEPT ![instruction.rd] = v]
GoOn == pc' = (pc + 1) % WORDS

Compute ==
  /\ instruction.op \in {"addi", "add", "fence"}
  /\ IF instruction.op = "fence" THEN UNCHANGED regs ELSE SetRegister(result)
  /\ GoOn /\ UNCHANGED <<data, csr, timer>>

Load ==
  /\ instruction.op = "load"
  /\ SetRegister(data[result]) /\ data' = data_loaded(data, result)
  /\ GoOn /\ UNCHANGED <<csr, timer>>

Store ==
  /\ instruction.op = "store"
  /\ data' = data_stored(data, result, rs2_value)
  /\ timer' = timer_stored(timer, result, rs2_value)
  /\ GoOn /\ UNCHANGED <<regs, csr>>

Branch ==
  /\ is_branch(instruction)
  /\ IF branch_taken(instruction, rs1_value, rs2_value) THEN pc' = result ELSE GoOn
  /\ UNCHANGED <<regs, data, csr, timer>>

Jump ==
  /\ is_jump(instruction)
  /\ SetRegister((pc + 1) % WORDS) /\ pc' = result
  /\ UNCHANGED <<data, csr, timer>>

AccessCsr ==
  /\ is_csr(instruction)
  /\ SetRegister(csr[instruction.csr])
  /\ csr' = csr_written(csr, instruction, rs1_value)
  /\ GoOn /\ UNCHANGED <<data, timer>>

Return ==
  /\ instruction.op = "mret"
  /\ csr' = returned(csr) /\ pc' = csr.mepc
  /\ UNCHANGED <<regs, data, timer>>

Raise ==
  /\ instruction.op \in {"ecall", "ebreak"}
  /\ csr' = trapped(csr, {}, instruction, pc) /\ pc' = csr.mtvec
  /\ UNCHANGED <<regs, data, timer>>

\* A wfi ends with the interrupt that it waits for.
Interrupt ==
  /\ irq_masked(csr, pending_irq(data, timer))
  /\ csr' = trapped(csr, pending_irq(data, timer), instruction,
                    IF instruction.op = "wfi" THEN (pc + 1) % WORDS ELSE pc)
  /\ pc' = csr.mtvec
  /\ UNCHANGED <<regs, data, timer>>

Fire ==
  /\ timer = "armed" /\ timer' = "fired"
  /\ UNCHANGED <<pc, regs, data, csr>>

MachineNext ==
  /\ Compute \/ Load \/ Store \/ Branch \/ Jump \/ AccessCsr
       \/ Return \/ Raise \/ Interrupt \/ Fire
  /\ UNCHANGED program

MachineSpec == MachineInit /\ [][MachineNext]_machine
=============================================================================
