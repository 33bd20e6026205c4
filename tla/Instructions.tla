---------------------------- MODULE Instructions ----------------------------
(***************************************************************************)
(* What the instructions of the RV32I microcontroller mean, shared by the  *)
(* pipeline (Mcu) and the machine that runs one instruction at a time      *)
(* (SequentialMachine): the control signals of DecodeStage.hpp, the traps  *)
(* and registers of CSR.hpp, and the devices behind loads and stores.      *)
(*                                                                         *)
(* A program is a function from a word address to an instruction, a record *)
(* [op, rd, rs1, rs2, imm, csr].  One operation stands for each class that *)
(* the control tells apart: "add" for every register operation, "addi" for *)
(* every immediate one.  Words are numbers below WORDS; a negative         *)
(* immediate is its value modulo WORDS.                                    *)
(***************************************************************************)
EXTENDS Naturals, FiniteSetsExt

CONSTANTS
  WORDS,         \* words are 0 .. WORDS - 1
  REGISTERS,     \* the registers above x0
  Dsram,         \* addresses of the data memory; all others are MMIO
  Mmio,          \* addresses of devices
  TIMER, MSIP,   \* the timer's compare register, the software interrupt
  PORT           \* a register with side effects: a store adds, a load counts

Word == 0 .. WORDS - 1
Register == 0 .. REGISTERS
Address == Dsram \cup Mmio
Csr == {"mstatus", "mie", "mtvec", "mepc", "mcause"}

\* Operations: addi add load store beq bne jal jalr fence csrrw csrrs csrrc
\* mret wfi ecall ebreak.

ASSUME MachineAssumption ==
  /\ WORDS \in Nat /\ WORDS >= 32 /\ REGISTERS \in Nat
  /\ Address \subseteq Word /\ {TIMER, MSIP, PORT} \subseteq Mmio \ Dsram

\* An empty place in the pipeline.
NoInstruction == [op |-> "none", rd |-> 0, rs1 |-> 0, rs2 |-> 0, imm |-> 0, csr |-> "mcause"]

is_branch(i) == i.op \in {"beq", "bne"}
is_jump(i) == i.op \in {"jal", "jalr"}
is_mem(i) == i.op \in {"load", "store"}
is_csr(i) == i.op \in {"csrrw", "csrrs", "csrrc"}
writes_rd(i) == i.op \in {"addi", "add", "load"} \/ is_jump(i) \/ is_csr(i)
reads_rs1(i) == i.op \in {"addi", "add", "jalr"} \/ is_mem(i) \/ is_branch(i) \/ is_csr(i)
reads_rs2(i) == i.op \in {"add", "store"} \/ is_branch(i)

branch_taken(i, a, b) == (i.op = "beq" /\ a = b) \/ (i.op = "bne" /\ a # b)

\* The ALU: an address, a jump's target, or a sum.
alu_result(i, pc, a, b) ==
  CASE is_branch(i) \/ i.op = "jal" -> (pc + i.imm) % WORDS
    [] i.op = "add"                 -> (a + b) % WORDS
    [] OTHER                        -> (a + i.imm) % WORDS

-----------------------------------------------------------------------------
(* CSR: bit 0 of mstatus is MIE, bit 1 MPIE; bit 0 of mie is MSIE, bit 1   *)
(* MTIE.                                                                   *)

bits(v) == {k \in 0 .. 4 : (v \div (2^k)) % 2 = 1}
number(S) == MapThenSumSet(LAMBDA k : 2^k, S)

csr_written(csr, i, v) ==
  LET old == csr[i.csr]
      new == CASE i.op = "csrrw" -> v
               [] i.op = "csrrs" -> number(bits(old) \cup bits(v))
               [] OTHER          -> number(bits(old) \ bits(v))
  IN  IF i.csr \in {"mstatus", "mie"} THEN [csr EXCEPT ![i.csr] = new % 4]
      ELSE IF i.csr = "mcause" THEN csr
      ELSE [csr EXCEPT ![i.csr] = new]

irq_masked(csr, pending) ==
  /\ 0 \in bits(csr.mstatus)
  /\ pending \cap bits(csr.mie) # {}

\* The timer comes before the software interrupt; 16 stands for bit 31.
cause(csr, pending, i) ==
  CASE 1 \in pending \cap bits(csr.mie) -> 16 + 7
    [] 0 \in pending \cap bits(csr.mie) -> 16 + 3
    [] i.op = "ecall"                   -> 11
    [] OTHER                            -> 3

trapped(csr, pending, i, resume) ==
  [csr EXCEPT !.mstatus = IF 0 \in bits(@) THEN 2 ELSE 0,
              !.mepc = resume,
              !.mcause = cause(csr, pending, i)]

returned(csr) == [csr EXCEPT !.mstatus = IF 1 \in bits(@) THEN 3 ELSE 2]

-----------------------------------------------------------------------------
(* Devices.                                                                *)

data_stored(data, a, v) ==
  [data EXCEPT ![a] = IF a = PORT THEN (@ + v) % WORDS ELSE v]

data_loaded(data, a) ==
  IF a = PORT THEN [data EXCEPT ![a] = (@ + 1) % WORDS] ELSE data

timer_stored(timer, a, v) ==
  IF a # TIMER THEN timer ELSE IF v = 0 THEN "off" ELSE "armed"

pending_irq(data, timer) ==
  {k \in {0, 1} : IF k = 1 THEN timer = "fired" ELSE data[MSIP] % 2 = 1}

ResetCsr == [c \in Csr |-> 0]
ResetData == [a \in Address |-> 0]
=============================================================================
