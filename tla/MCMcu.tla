-------------------------------- MODULE MCMcu --------------------------------
(* Programs for the microcontroller.                                       *)
EXTENDS Mcu, Sequences

MCDsram == 0 .. 3
MCMmio == {8, 9, 10}

In(op, rd, rs1, rs2, imm, c) ==
  [op |-> op, rd |-> rd, rs1 |-> rs1, rs2 |-> rs2, imm |-> imm, csr |-> c]
Addi(rd, rs1, imm) == In("addi", rd, rs1, 0, imm % WORDS, "mcause")
Add(rd, rs1, rs2) == In("add", rd, rs1, rs2, 0, "mcause")
Load(rd, a) == In("load", rd, 0, 0, a, "mcause")
Store(rs2, a) == In("store", 0, 0, rs2, a, "mcause")
Beq(rs1, rs2, d) == In("beq", 0, rs1, rs2, d % WORDS, "mcause")
Bne(rs1, rs2, d) == In("bne", 0, rs1, rs2, d % WORDS, "mcause")
Jal(rd, d) == In("jal", rd, 0, 0, d % WORDS, "mcause")
Jalr(rd, rs1) == In("jalr", rd, rs1, 0, 0, "mcause")
Csrrw(rd, c, rs1) == In("csrrw", rd, rs1, 0, 0, c)
Csrrs(rd, c, rs1) == In("csrrs", rd, rs1, 0, 0, c)
Csrrc(rd, c, rs1) == In("csrrc", rd, rs1, 0, 0, c)
Op(op) == [NoInstruction EXCEPT !.op = op]

\* A program as a sequence, padded with an endless wait.
AsProgram(s) == [a \in 0 .. WORDS - 1 |->
  IF a < Len(s) THEN s[a + 1] ELSE IF a % 2 = 0 THEN Op("wfi") ELSE Jal(0, WORDS - 1)]

\* Results used one, two and three instructions later, loads used at once,
\* a branch on a loaded value, a fence behind a load, a loop, a call.
Hazards == AsProgram(<<
  Addi(1, 0, 2), Store(1, 0), Load(2, 0), Op("fence"), Add(3, 2, 1), Add(3, 3, 2), Store(3, 10),
  Load(2, 10), Beq(2, 3, 2), Jal(0, 9), Load(2, 10), Jal(3, 4),
  Addi(1, 1, 31), Bne(1, 0, 29), Jal(0, 3), Addi(2, 2, 1), Jalr(0, 3), Op("wfi")>>)

\* arm_wfi_timer_tick and wfi, twice, with the handler of firmware_main; then ebreak.
Ticks == AsProgram(<<
  Addi(1, 0, 14), Csrrw(0, "mtvec", 1), Addi(1, 0, 2), Csrrs(0, "mie", 1),
  Addi(1, 0, 1), Csrrs(0, "mstatus", 1),
  Store(1, 8), Op("wfi"), Addi(2, 2, 1), Addi(3, 0, 2), Bne(2, 3, 28), Op("ebreak"),
  Op("wfi"), Jal(0, 31),
  Store(3, 1), Csrrs(3, "mcause", 0), Addi(3, 3, 9), Bne(3, 0, 4), Store(0, 8), Load(3, 1),
  Op("mret"), Op("wfi"), Jal(0, 31)>>)

\* Two ecalls in a row; the handler steps over them (test_trap).
Calls == AsProgram(<<
  Addi(1, 0, 8), Csrrw(0, "mtvec", 1), Op("ecall"), Op("ecall"), Store(2, 10), Op("wfi"),
  Jal(0, 31), Op("wfi"),
  Csrrs(3, "mepc", 0), Addi(3, 3, 1), Csrrw(0, "mepc", 3), Addi(2, 2, 1), Op("mret")>>)

\* A software interrupt that the program gives itself and waits for.
Software == AsProgram(<<
  Addi(1, 0, 9), Csrrw(0, "mtvec", 1), Addi(1, 0, 1), Csrrs(0, "mie", 1), Csrrs(0, "mstatus", 1),
  Store(1, 9), Op("wfi"), Csrrc(2, "mstatus", 1), Op("wfi"),
  Store(0, 9), Load(2, 9), Add(3, 2, 1), Op("mret")>>)

\* As test_trap: the interrupt comes while the program counts.
Counting == AsProgram(<<
  Addi(1, 0, 12), Csrrw(0, "mtvec", 1), Addi(1, 0, 2), Csrrs(0, "mie", 1),
  Addi(1, 0, 1), Csrrs(0, "mstatus", 1), Store(1, 8),
  Addi(2, 2, 1), Load(3, 0), Add(3, 3, 2), Csrrc(0, "mstatus", 1), Op("wfi"),
  Store(0, 8), Op("mret")>>)

\* Every program of four of these.
Mix == {Addi(1, 1, 1), Add(2, 1, 2), Load(1, 0), Load(2, 10), Store(2, 0), Store(1, 10), Beq(1, 2, 2),
        Jal(2, 2)}
Mixed == {AsProgram(s) : s \in [1 .. 4 -> Mix]}

MCPrograms == Mixed \cup {Hazards, Ticks, Calls, Software}
MCCounting == {Counting}
=============================================================================
