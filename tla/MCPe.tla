--------------------------------- MODULE MCPe ---------------------------------
(***************************************************************************)
(* The processing element with the shapes of the kernels of hybridacc-cc:  *)
(* a GEMM tile (VMULR over two phases of stored data, psums by the         *)
(* counter), and windows of convolutions (VMACR, the shift alone or merged *)
(* with a sum, the store merged with one).  The assembler puts a NOP       *)
(* before HALT when a LOOPEND has no instruction of its own to mark, as in *)
(* all kernels.                                                            *)
(***************************************************************************)
EXTENDS Pe

setup(n, phases) ==
  <<DMA_LOOP("sdma", phases), DMA_ADDR("sdma", 0), DMA_LEN("sdma", n), DMA_MODE("sdma", 1),
    DMA_ADDR("ldma", 0), DMA_LEN("ldma", n), DMA_MODE("ldma", 1), SYS_CTRL({"sdma_act"})>>

begin == SYS_CTRL({"pr_clear_regs", "sys_rst_pid", "sys_rst_tid", "ldma_act"})

Gemm ==
  setup(2, 2) \o
  <<LOOPIN(2), SWAPDM, begin, VTSTORE(0), VTSTORE(1),
    LOOPIN(2), VMULR(0, 1), LOOPEND(VMULRN(1, VTRST)),
    SYS_CTRL({"sys_rst_pid"}), LOOPIN(2), LOOPEND(VPSUMR(1)),
    LOOPEND(NOP), HALT>>

Conv ==
  setup(2, 1) \o
  <<SWAPDM, VTSTORE(0), VTSTORE(1), LOOPIN(2), begin,
    LOOPIN(1), VMACRN(0, 1), LOOPEND(VMACRN(1, VTRST)),
    VPSUM_TSHIFT(0), LOOPEND(VPSUM_VTSTORE(1, 1)),
    NOP, HALT>>

Window ==
  setup(2, 1) \o
  <<SWAPDM, VTSTORE(0), VTSTORE(1), LOOPIN(2), begin,
    LOOPIN(1), VMACRN(0, 1), LOOPEND(VMACRN(1, VTRST)),
    TSHIFT, VPSUM(0), LOOPEND(VPSUM_VTSTORE(1, 1)),
    NOP, HALT>>

MCPrograms == <<Gemm, Conv, Window>>

\* Programs that the assembler accepts, and no kernel has, which the
\* pipeline runs otherwise (README, "Divergences").
HaltAfterSum == <<VPSUM(0), HALT>>
SumAfterMultiply == <<VMUL(0, 0), VPSUM(0), VPSUM(1), NOP, HALT>>
ResetWithSum == <<VMUL(1, 0), NOP, VPSUMR(1), VPSUMR(PRST), NOP, HALT>>
ZeroAfterNop ==
  setup(2, 1) \o
  <<SWAPDM, begin, VTSTORE(0), NOP, VMUL(0, 0), NOP, VPSUM(0), NOP, HALT>>
LoadOne ==
  setup(1, 1) \o <<SWAPDM, begin, NOP, VTSTORE(0), VMUL(0, 0), NOP, VPSUM(0), NOP, HALT>>

Ports == INSTANCE PePorts WITH
  Outputs <- [i \in DOMAIN Results |-> Results[i].out],
  taken <- port.taken["pli"], given <- port.given

(* The pipeline, with its DMAs in the background, gives what the program   *)
(* run one instruction at a time gives: the sums of the right products,    *)
(* each with the next word of the local input, each once and in order.     *)
ImplementsPorts == Ports!PortsSpec
=============================================================================
