-------------------------------- MODULE PeIsa --------------------------------
(***************************************************************************)
(* The programs of a processing element: what the decoder makes of an      *)
(* instruction, and what a program means.  The meaning is that of the      *)
(* instruction simulator of hybridacc-pe-isa, which runs one instruction   *)
(* after the other, with two corrections from the ESL model: every LOOPIN  *)
(* pushes a frame, and a store task waits for SWAPDM after each phase.     *)
(*                                                                         *)
(* Data are symbols: the n-th word of a port is n, a product is the pair   *)
(* of its factors and a partial sum the sequence of the products added to  *)
(* it, in that order (FP16 addition is not associative).                   *)
(***************************************************************************)
EXTENDS Integers, SequencesExt

CONSTANTS
  Programs,  \* the programs, a sequence
  LANES,     \* scalar psum registers of a vector psum register: 4 in the code
  PSUMS,     \* scalar psum registers: 32 in the code
  WORDS,     \* 64-bit words of a bank of the data memory
  STEPS      \* a bound on the instructions a program runs

Lane == 0 .. LANES - 1
Psum == 0 .. PSUMS - 1
Word == 0 .. WORDS - 1

-----------------------------------------------------------------------------
(* Decoder: an instruction is the set of its signals and its operands.     *)

Bubble == [on |-> {}, imm |-> 0, rid3 |-> 0, rid5 |-> 0]
Is(d, signal) == signal \in d.on
Signals(S) == [Bubble EXCEPT !.on = S]
Payload(signal, n) == [Bubble EXCEPT !.on = {signal}, !.imm = n]

HALT == Signals({"halt"})
NOP == Bubble
SWAPDM == Signals({"is_swap"})
SYS_CTRL(flags) == Signals(flags)
LOOPIN(n) == Payload("loop_in", n - 1)
DMA_ADDR(unit, a) == Payload(unit \o "_addr", a)
DMA_LEN(unit, n) == Payload(unit \o "_len", n - 1)
DMA_LOOP(unit, n) == Payload(unit \o "_loop", n - 1)
DMA_MODE(unit, stride) == Payload(unit \o "_mode", stride)
VTSTORE(t) == [Signals({"pd_load_v"}) EXCEPT !.rid3 = t]
TSHIFT == Signals({"tr_shift"})

\* The R forms go by the counters, and step or clear them.
PRST == 31
VTRST == 3
p_step(p) == {"pr_use_vcounter"}
             \cup (IF p = PRST THEN {"sys_rst_pid"} ELSE {"pr_incr_vcounter"})
t_step(t) == {"tr_use_vcounter"}
             \cup (IF t = VTRST THEN {"sys_rst_tid"} ELSE {"tr_incr_vcounter"})

Arithmetic(S, p, t) == [on |-> S, imm |-> 0, rid3 |-> t, rid5 |-> p]
VMACRN(p, t) == Arithmetic({"vmac", "LDMA_next"} \cup p_step(p) \cup t_step(t), p, t)
VMUL(p, t) == Arithmetic({"vmul"}, p, t)
VMULR(p, t) == Arithmetic({"vmul"} \cup p_step(p) \cup t_step(t), p, t)
VMULRN(p, t) == Arithmetic({"vmul", "LDMA_next"} \cup p_step(p) \cup t_step(t), p, t)
VPSUM(p) == Arithmetic({"pli_plo_operation"}, p, 0)
VPSUMR(p) == Arithmetic({"pli_plo_operation"} \cup p_step(p), p, 0)
VPSUM_VTSTORE(p, t) == Arithmetic({"pli_plo_operation", "pd_load_v"}, p, t)
VPSUM_TSHIFT(p) == Arithmetic({"pli_plo_operation", "tr_shift"}, p, 0)

LOOPEND(d) == [d EXCEPT !.on = @ \cup {"loop_end"}]

-----------------------------------------------------------------------------
(* Loops, registers and memory, as the simulators share them.              *)

ZeroPsums == [p \in Psum |-> <<>>]
ZeroVectors == [t \in 0 .. 2 |-> 0]

\* The loop stack after instruction d at pc.
loops_after(loops, d, pc) ==
  LET pushed == IF Is(d, "loop_in")
                THEN Append(loops, [start |-> pc + 1, remaining |-> d.imm + 1])
                ELSE loops
      top == Last(pushed)
  IN CASE ~Is(d, "loop_end") \/ pushed = <<>> -> pushed
       [] top.remaining > 1 -> Append(Front(pushed), [top EXCEPT !.remaining = @ - 1])
       [] OTHER -> Front(pushed)

jump(loops, d) == Is(d, "loop_end") /\ loops # <<>> /\ Last(loops).remaining > 1

vector(P, v) == [l \in Lane |-> P[v * LANES + l]]
vmac(P, p, product) == [P EXCEPT ![p] = Append(@, product)]
vmul(P, v, product) == [p \in Psum |-> IF p \div LANES = v THEN Append(P[p], product)
                                                           ELSE P[p]]

\* Kernel size 3: every vector moves down one register.
shift(vt) == [t \in 0 .. 2 |-> IF t = 2 THEN 0 ELSE vt[t + 1]]

-----------------------------------------------------------------------------
(* PESimulator: one instruction after the other.                           *)

PEState ==
  [pc |-> 1, loops |-> <<>>, halted |-> FALSE,
   ldma |-> [addr |-> 0, len |-> 0, mode |-> 0], at |-> 0, left |-> 0, dmrv |-> 0,
   sdma |-> [addr |-> 0, len |-> 0, mode |-> 0, loop |-> 1], phases |-> 0,
   banks |-> [b \in {0, 1} |-> [w \in Word |-> 0]], active_bank |-> 0,
   vt |-> ZeroVectors, tid |-> 0, P |-> ZeroPsums, pid |-> 0,
   ps |-> 0, pd |-> 0, out |-> <<>>]

\* One phase of a store task fills the bank that is not read.
fill(S) ==
  [S EXCEPT !.banks[1 - S.active_bank] =
              [w \in Word |-> LET hits == {k \in 0 .. S.sdma.len - 1 :
                                             w = (S.sdma.addr + k * S.sdma.mode) % WORDS}
                              IN IF hits = {} THEN @[w] ELSE S.ps + 1 + Max(hits)],
            !.ps = @ + S.sdma.len, !.phases = @ - 1]

load(S, address, left) ==
  [S EXCEPT !.dmrv = S.banks[S.active_bank][address % WORDS],
            !.at = address + S.ldma.mode, !.left = left]

configured(S, d) ==
  CASE Is(d, "ldma_addr") -> [S EXCEPT !.ldma.addr = d.imm]
    [] Is(d, "ldma_len")  -> [S EXCEPT !.ldma.len = d.imm + 1]
    [] Is(d, "ldma_mode") -> [S EXCEPT !.ldma.mode = d.imm]
    [] Is(d, "sdma_addr") -> [S EXCEPT !.sdma.addr = d.imm]
    [] Is(d, "sdma_len")  -> [S EXCEPT !.sdma.len = d.imm + 1]
    [] Is(d, "sdma_loop") -> [S EXCEPT !.sdma.loop = d.imm + 1]
    [] Is(d, "sdma_mode") -> [S EXCEPT !.sdma.mode = d.imm]
    [] OTHER              -> S

activated(S, d) ==
  LET loading == IF Is(d, "ldma_act") THEN load(S, S.ldma.addr, S.ldma.len - 1) ELSE S
  IN IF Is(d, "sdma_act") THEN fill([loading EXCEPT !.phases = S.sdma.loop]) ELSE loading

swapped(S, d) ==
  LET T == [S EXCEPT !.active_bank = 1 - @]
  IN IF ~Is(d, "is_swap") THEN S ELSE IF S.phases > 0 THEN fill(T) ELSE T

\* The arithmetic of an instruction; the counters move after it.
computed(S, d) ==
  LET p == IF Is(d, "pr_use_vcounter") THEN S.pid ELSE d.rid5
      t == IF Is(d, "tr_use_vcounter") THEN S.tid ELSE d.rid3
      product == <<S.vt[t], S.dmrv>>
  IN [S EXCEPT
       !.P = CASE Is(d, "pr_clear_regs") -> ZeroPsums
               [] Is(d, "vmac") -> vmac(@, p, product)
               [] Is(d, "vmul") -> vmul(@, p, product)
               [] OTHER -> @,
       !.out = IF Is(d, "pli_plo_operation")
               THEN Append(@, <<Len(@) + 1, vector(S.P, p)>>) ELSE @,
       !.vt = CASE Is(d, "tr_clear_regs") -> ZeroVectors
                [] Is(d, "tr_shift") -> shift(@)
                [] Is(d, "pd_load_v") -> [@ EXCEPT ![d.rid3] = S.pd + 1]
                [] OTHER -> @,
       !.pd = IF Is(d, "pd_load_v") THEN @ + 1 ELSE @,
       !.pid = CASE Is(d, "sys_rst_pid") -> 0
                 [] Is(d, "pr_incr_vcounter") -> @ + d.rid5
                 [] OTHER -> @,
       !.tid = CASE Is(d, "sys_rst_tid") -> 0
                 [] Is(d, "tr_incr_vcounter") -> @ + d.rid3
                 [] OTHER -> @]

next_loaded(S, d) ==
  IF Is(d, "LDMA_next") /\ S.left > 0 THEN load(S, S.at, S.left - 1) ELSE S

moved(S, d) ==
  [S EXCEPT !.pc = IF jump(S.loops, d) THEN Last(S.loops).start ELSE @ + 1,
            !.loops = loops_after(@, d, S.pc),
            !.halted = Is(d, "halt")]

step(program, S) ==
  LET d == program[S.pc]
  IN IF S.halted THEN S
     ELSE moved(next_loaded(computed(swapped(activated(configured(S, d), d), d), d), d), d)

\* What each program leaves when it has run.
Results == [i \in DOMAIN Programs |->
              FoldLeft(LAMBDA S, n : step(Programs[i], S), PEState, [n \in 1 .. STEPS |-> n])]
=============================================================================
