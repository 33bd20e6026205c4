# HybridAcc: TLA+ models of the ESL simulator

HybridAcc is a neural-network accelerator described as a cycle-accurate SystemC
simulator (`src/design/hybridacc-ESL/simulator/include`, below `ESL/`), mirrored in
SystemVerilog and driven by firmware that a layer compiler generates. These modules
model the simulator's control logic, and the firmware's protocol towards it. A step of
every model is a rising clock edge: `seq_process` of each block reads the values before
the edge and writes those after it, combinational methods are definitions over the
state, and the value of a registered wire is a variable because it is seen one edge
later. A block written as a thread that waits for edges in several places has a
variable that says where it waits.

## 1. Inventory

| Part | State | Operations | Talks to | What is hard | What makes it correct |
|---|---|---|---|---|---|
| FIFO (`Utils/FIFO.hpp`) | storage, two pointers, count, driven flags and `data_out` | push, pop, clear | every block | all three at one edge, at the limits; `data_out` is driven by a method with its own sensitivity list | bounded queue; the head shows |
| AGU (`Cluster/AddressGenerateUnit.hpp`) | CTRL, state, loop indices, five pipeline registers | CTRL/ITER writes, START/STOP wires, handshake | HDDU | bypass and stalls; commands at the edge of a handshake | the loop nest's stream, complete and in order; a run ends |
| HDDU (`Cluster/HybridDataDeliverUnit.hpp`) | four AGUs, queues per plane, completion latches, registered command wires | global START, STOP, SOFT_RESET, PLANE_EN; handshakes with SPM and NoC | AGUs, SPM ports, NoC | requests in flight while commands arrive; DONE over many lagging flags | answers meet their own descriptor; DONE means done; order |
| Cluster control (`Cluster/ClusterControlUnit.hpp`, `ComputeCluster.hpp`) | mode, substate, pending flags, command wires | MODE, CTRL, NOC_COMMAND writes, background tick | NoC, SPM, HDDU, firmware | two sources of commands at one edge; QUIESCED lags commands | substate tells the phase; a reset resets everything; QUIESCED means over |
| NoC command path (`NetworkOnChip.hpp`, `NoC/*`, `PE/PErouter.hpp`, `ProcessElement.hpp`) | bus queues, router running / stop_pending / flush, PE running / halted | START, STOP, RESET, LOAD_PROGRAM | HDDU, PEs | commands travel for edges; flushes; draining | no running program is interrupted, no input lost |
| NoC data path (`NoC/NoCRouter.hpp`, `NoC/MBUS.hpp`, `PE/PErouter.hpp`) | channel and response FIFOs, tags, shadow rows, PE queues, local links | multicast, partial-sum reads, scan chain | HDDU, PEs | all-or-none broadcast; an answer that passes in one cycle only; sums popped by wire | each word at all its PEs at one edge; answers in order; nothing waits for ever |
| SPM (`Cluster/ScratchpadMemory.hpp`, `Utils/SRAM.hpp`) | skid registers, arbiters, credits, metadata FIFOs, banks | port requests, DMA's AXI port, port map, soft reset | HDDU, data fabric | banks with back pressure, merging of answers, credits | in-order answers per requester, no port starves |
| PE pipeline (`PE/*`) | stages, loop stack, LDMA, SDMA, two banks, psum registers | instructions, start and halt of a wave | PE router | background DMAs, waits in both execute stages, restart | the program's words, in order, each after its input; every wave ends |
| CmdFabric (`Core/CmdFabric.hpp`) with the core's memory stage | access state, broadcast mask and index, fast path, error status | core loads and stores | core, local devices, clusters | broadcasts, faults, slow targets; answers while the core stalls; answers by wire | each access reaches each target once; the core sees its own answer; errors are kept |
| DMA engine (`Core/DmaEngine.hpp`) | command FIFO, two address generators, transfer buffer, send registers, tags | submit, poll of the tag | DRAM, data fabric | bursts of different alignment, reads and writes out of step, a full queue | every beat at its place once, before the tag; every command ends |
| Data fabric (`Core/ClusterDataFabric.hpp`) | ingress FIFOs, reorder buffers, per-cluster queues, in-flight records | reads and writes of two requesters | DMA, clusters | clusters that answer at different times or not at all; address and data apart | own answers in order; a write's halves meet; no blocking by another |
| PLIC (`Core/Plic.hpp`) | pending, enable, priority, claimed, MEIP | register writes, claim, complete | all interrupt sources, core | pulses of one edge; a claim at the edge of a pulse; MEIP's sensitivity | no interrupt lost, best source first |
| Core-local interrupts (`Core/CoreLocalIrq.hpp`) | mtime, mtimecmp, msip | half writes | core | 64-bit compare in two halves | no spurious timer |
| Core (`Core/rv32i_mcu/*`) | five stages, CSRs | instructions, traps, WFI, FENCE | CmdFabric, interrupts | stall, redirect and trap together; latches that hold operands | one instruction at a time, precise traps |
| Boot (`Core/CoreController.hpp`, `BootHostIf.hpp`, `SectionLoader.hpp`, driver in `SimUtils.hpp`) | driver's place, host interface, section cursor, port mux | host writes and reads, DRAM reads, local writes | memories, core | handshakes of different lag, sections that end within a beat, errors | the image as listed; the core starts after the loader's end |
| Width-converting FIFO (`Utils/async_FIFO.hpp`) | storage in chunks, pointers | push of a word, pop of a chunk | PE routers | room for all chunks of a word | nothing dropped or invented |
| Firmware (`python/hybridacc_cc/templates`) | position in the layer and wave loop | MMIO writes, polling barriers | all of the above | barriers on lagging status | every layer and wave is over before the next |
| RTL mirror, compiler, PE-ISA tools, harness, scripts | | | | sequential, or the same blocks again | not modelled, but for the PE-ISA simulator's meaning of a program |

`PROJECT.json` lists the hazards, each at its line.

## 2. Modules

| Module | Models | Notes |
|---|---|---|
| `QueueOps` | the edge of a FIFO as an operation on a sequence | used where a queue's contents matter and not its pointers |
| `BoundedQueue` | abstract specification | what users of a FIFO rely on |
| `Fifo` | `Utils/FIFO.hpp` | refines `BoundedQueue`; proved for every depth in `NocData_proofs`, so no run |
| `AguOps` | an AGU at its interface, as operators on a record | what `Hddu` composes |
| `AguStream` | `AguOps` as an abstract specification | |
| `Agu`, `MCAgu`, `Agu_proofs` | the AGU with its pipeline | refines `AguStream` |
| `Hddu` | the delivery unit under any command | composes `AguOps` and `QueueOps`, SPM and NoC as in-order answerers |
| `HdduFirmware`, `HdduFirmware_proofs` | the wave loop of the generated firmware over `Hddu` | the proofs of `Hddu` too |
| `ClusterControl` | control unit, its caller, PE routers and run control | any software |
| `LayerFirmware`, `LayerFirmware_proofs` | the firmware's layer loop over `ClusterControl` | the proofs of `ClusterControl` too |
| `CmdFabric`, `MCCmdFabric`, `CmdFabric_proofs` | `Core/CmdFabric.hpp` between `rv32i_mcu/MemoryStage.hpp` and the clusters' command ports | any software, any stall |
| `Plic`, `PlicFirmware` | the interrupt controller; set-up and trap handler of `test_dma` over it | |
| `MCSoftware` | the four programs, each beside its hardware, in one instance | takes `MCBoot`, `PlicFirmware`, `LayerFirmware`, `HdduFirmware` side by side |
| `MemoryServer` | abstract specification | what a client of a shared memory relies on |
| `Spm`, `MCSpm` | the scratchpad with its banks | refines `MemoryServer` |
| `DataFabric`, `MCDataFabric`, `DataFabric_proofs` | the cluster data fabric | refines `MemoryServer` |
| `Copier` | abstract specification | what a user of a DMA relies on |
| `DmaEngine`, `MCDma`, `DmaEngine_proofs` | the DMA engine between two memories | refines `Copier` |
| `SectionLoader`, `Boot`, `MCBoot`, `CoreController_proofs` | loader, memories' load side and DRAM; host driver and host interface; the proofs also of `PlicFirmware` | `Boot` composes them |
| `NocData`, `MCNocData`, `NocData_proofs` | routers, buses, PE queues, links and scan chain | the proofs of `Fifo`, of which its queues are instances, too |
| `Instructions` | control, ALU, CSRs and devices of the core | shared by the next two |
| `SequentialMachine` | abstract specification | one instruction at a time |
| `Mcu`, `MCMcu` | the five-stage pipeline with bridge and devices | refines `SequentialMachine` |
| `PeIsa` | decoder and meaning of a PE program | symbols for data |
| `PePorts` | abstract specification | what the NoC relies on |
| `Pe`, `MCPe` | the processing element | refines `PePorts` |

How they fit: `Agu` implements `AguStream`, whose step is the operator `Edge` of `AguOps`;
`Hddu` moves its units by the same `Edge`. `Fifo` implements `BoundedQueue`, whose steps
are those of `QueueOps`; `Hddu`, `Spm` and `NocData` move their queues by its operators.
`Hddu` takes SPM and NoC for servers that answer in order: `Spm` implements such a
server (`ImplementsServer`), and `AnswersMatchReads` says it of the NoC's reads.
`LayerFirmware` takes a PE program for something that eats its inputs, gives its output
and halts, and `EveryProgramEnds` of `Pe` shows that the generator's kernels are so.
`DmaEngine` takes its memories for servers that answer in order: `DataFabric` is one.
`PlicFirmware` and `CmdFabric` take a core that traps and stalls at will; `Mcu` shows
what its stalls do to a program.

### State and actions

* **Agu.** One action per kind of input at an edge: `Quiet`, `GlobalStart`, `GlobalStop`
  (the command wires), `WriteCtrl`, `WriteIter`. Each is a use of `Edge`, which is the
  whole of `seq_process`: the CTRL register, and then one of `Begin`, `Halt`, `Run`,
  `Rest`. A descriptor is its loop index and its last flag.
* **Fifo.** `storage`, `read_ptr_reg`, `write_ptr_reg`, `count_reg` are the registers,
  `full`, `empty`, `data_out` what the block drives. `Transfer(push, pop, d)` is an edge
  without clear, `Clear` one with it. `DriveDataOut` is the combinational method with its
  sensitivity list: it runs only if one of the signals it names has changed.
* **Hddu.** One action per command (`NoCommand`, `StartRun`, `Stop`, `SoftReset`,
  `WritePlaneEn`); each takes the set of handshakes `h` that complete at the edge, which
  must be among those the ready and valid methods allow. The queues' entries are
  (run, position) pairs, so "belongs together" is equality.
* **ClusterControl.** One action per register write or none (`NoWrite`, `WriteMode`,
  `WriteCtrl`, `WriteNocCommand`), with the background tick first in each, and `t`, what
  PEs and delivery unit do at that edge. A router that does not run offers nothing, its
  pending answer included. Data is counted.
* **CmdFabric.** An edge is one of the fabric's disjuncts (a case of `seq_process` each)
  together with `MemoryStage`, `ClusterPorts` and `Devices`, which move at the same edge.
  An access has a one-bit name that its requests and answers carry; `hits` counts who
  was given the access that the stage holds, and `refused` remembers a target's error
  until software clears the status. `stall` is whatever the other stages ask for.
* **Plic.** One action per register access; a read of any other register is `NoAccess`.
* **Spm.** One edge: each `comb_*` process (skid, grants, bank requests, merging of
  answers) is a definition, and the next values follow from them. A bank is its pipeline
  with back pressure; data are the names of the requests they answer, so that a wrong
  pairing of entry and data shows. `SoftReset` raises `fifo_clear` and the port map changes
  whatever is in flight, as in the code; that software does both at rest only is a conjunct
  of `Next`, where the environment is.
* **DmaEngine.** One action per state of the engine (`IDLE`, `VALIDATE`, `RUN`, and
  `Report` for DONE and ERROR), each with what is submitted at that edge. `refusal` is the
  error that `VALIDATE` finds (no beat at all, or a transform it does not know). `RunEdge`
  computes buffer and both sides from the handshakes of the edge; a beat's number is its
  address and its data.
* **DataFabric.** One edge in the order of the code: ingress, merge, arbitration,
  dispatch, collection, retirement. `direction` selects the writes or the reads, which
  share no state.
* **Boot.** Three threads and the DRAM move at each edge; `pc` of the driver and of the
  loader are the `wait()` they stand at. The manifest and the DRAM's delays are free. A
  memory word is the bytes that were written to it: the last word of a section has strobes
  for the bytes that are left (`strb`).
* **NocData.** `ScanCommand` shifts the chain, `Offer` is a request of the delivery unit,
  `Edge` the routers, buses, PE queues and links, `TakePs`, `TakePd`, `Sum` the PE.
* **Mcu.** One `Edge` for the five stages with their stall, forwarding and redirect
  signals as definitions, the bridge, and `Fire` for the timer. Memory answers at the edge
  or later, as it likes.
* **Pe.** `Edge(plo_ready)` for all parts, `Offer(p)` when the router has a word,
  `Start` and `Stop` from the cluster. Two combinational methods do not name all they read
  in their sensitivity lists; their outputs keep the last value they drove (`vt_driven`,
  `pr_clear`).
* **HdduFirmware, LayerFirmware, PlicFirmware** add the driver's position as a variable
  and conjoin its writes with the actions above; between two writes any number of edges
  pass.

## 3. Runs

Nine runs are expected to pass; each of their properties has a mutant, a plausible bug in
one definition, that breaks it. Three runs are expected to find a violation: each checks
what a document or comment says and the code does not do (section 4). The numbers are
distinct states.

| Run | Question | Bounds | States |
|---|---|---|---|
| `software` | the boot: what is copied when, each register once, the core's enable; the handler: interrupts lost, spurious, starved; the layer loop's barriers; the wave loop's DONE, order, completion | each program alone, see below | 11 966 |
| `agu` | stream, refinement, termination | loop bounds 0 (taken as 1) and 2 in all four levels | 14 648 |
| `cmd_fabric` | once per target, own answer, errors, answers to all | two clusters with any power, one device, two masks | 45 148 |
| `spm` | in-order answers, credits, starvation | two ports, two groups of two banks, 3 reads outstanding | 12 012 |
| `dma` | copying, tags, termination | queue of 1, buffer of 3, address FIFOs of 2, four transfers of 4 and 5 beats with bursts of 1 to 3, two refused commands | 66 547 |
| `data_fabric` | in-order answers, halves of a write, no blocking | two clusters, one silent, 3 and 1 open accesses, a write's halves sent together | 48 098 |
| `noc_data` | multicast, links, reads | two ports of two PEs, queues of 2, 3 open reads, two topologies, scripts of up to 5 requests | 21 782 |
| `mcu` | refinement, termination | 4 096 programs of 4 instructions out of 8, and four longer ones | 85 041 |
| `pe` | refinement, termination | three kernels, 2 waves | 6 294 |
| `boot_error` | violation: the core is enabled with a whole image only (`RunsAfterLoad`) | the boot's | |
| `mcu_trap` | violation: mepc names the instruction to resume (`MepcIsResumePoint`) | a program that counts while the timer fires | |
| `noc_overrun` | violation: every request is served (`EverythingServed`) | `noc_data`'s | |

Why the bounds are enough.

* `agu`: the carry needs two iterations per level and all four levels; more iterations
  repeat what two do, and 0 is the case the code turns into 1.
* `software`, the programs: they share no state, so a behaviour runs one of the four
  (`part`) and the others keep their initial states; the states add up.
* `software`, the wave loop (one send plane and PLO, queues and servers of 1, runs of 1 and
  2 descriptors, 2 waves): two descriptors overfill a queue of one, so each handshake is
  blocked for want of room, and the second wave finds what the first left; the proofs cover
  every depth and length. Send planes share nothing but the latches, so one stands for three.
* `software`, the layer loop (two PEs, 3 inputs per layer, unbounded layers): states are per
  PE but for the all-ready broadcast and the all-halted condition, for which two PEs are
  needed.
* `software`, the handler (2 sources, priorities 0 to 2, 3 pulses): two sources are the
  least that can be compared; three pulses let one
  source come up during the service of another and of itself.
* `cmd_fabric`: two clusters are the least of which a broadcast can serve one and have the
  other left; the masks are empty, both, and one with a bit of a cluster that is not there.
* `spm`: with three reads outstanding a bank's pipeline and its output are both full and
  the third waits, which is where back pressure begins. A port that asks for one bank and
  for both puts answers of different latency behind each other.
* `dma`: the store is longer than buffer and address FIFOs; two copies within the DRAM have
  bursts as long as the buffer, cut at the same beats on both sides (`Aligned`) and at
  different ones (`Askew`). Askew blocks the engine for ever (section 4): the safety
  properties hold throughout, and `EveryCommandEnds` says in its antecedent that each
  command taken `fits`, that is, that its two sides cannot wait for each other. The queue of
  one is full when a second command waits.
* `data_fabric`: one requester has more open than a cluster queue and the in-flight
  records hold, which is the only way it can stand in the other's way.
* `software`, the boot (eight manifests, memories of 4 and 3 words of 2 bytes): sections end
  within a beat, within a word and within the memory, overlap, are empty, unknown or too
  long; each is a branch of the loader.
* `noc_data`, `noc_overrun`: the chained topology needs two ports, the shadow rows two PEs;
  three open reads are one more than the response queue has places, so that an answer meets
  a full queue. The safety properties hold there too; `ServedWithRoom` promises service as
  long as no more reads are open than there are places, and `noc_overrun` shows that without
  this condition it fails.
* `mcu`: a result can be used one, two or three instructions later; four instructions have
  every combination. Traps need set-up code, hence the programs of their own.
* `pe`: the kernels are the generator's with the least counts that fill the pipeline; the
  second wave starts on what the first left in LDMA, SDMA and the banks.

Deadlock is checked in every run but `pe`: there the last wave ends, and nothing is left to
happen.

### Fairness

* `agu`: clock edges keep coming to a unit that runs, and a descriptor that is offered
  again and again is taken: the delivery unit takes it when its queues have room, which
  `EveryWaveCompletes` shows to recur. A unit at rest need not get a command.
* `software`, wave loop: each handshake that is possible again and again happens (`SF`). The
  answerers serve what they hold, and a handshake may be withdrawn while another plane's
  command is processed, hence the strong form.
* `software`, layer loop: the clock ticks, the firmware goes on, the delivery unit sends and
  takes, PE programs do what they can do (`WF` each). A PE program that never halts would
  block the layer; `pe` shows that the kernels halt.
* `cmd_fabric`, the handler of `software`: the clock ticks (`WF`), and in the latter the
  core takes its interrupts. In `cmd_fabric` the answer comes however the core stalls.
* `spm`, `dma`, `data_fabric`, the boot of `software`: the clock keeps ticking, and a
  partner does not leave for ever what waits for it: a reader its answers, a memory the
  requests it was given (`[]<>nothing waits \/ []<>it is taken`). `spm` assumes nothing of
  the order in which ports are granted: the arbiter is in the model. In `data_fabric` one
  cluster and one requester are exempt, and in `dma` and `data_fabric` edges that change
  nothing need not be taken (`Settled`).
* `noc_data`, `mcu`, `pe`: the clock ticks, devices answer, PEs take what they are given,
  time passes (`WF`).

## 4. Divergences

Where the code does something other than a comment, a manual or the instruction simulator
says, or something a user of it would not expect. Those that a run shows are the findings
of `PROJECT.json`; where a property holds because a divergence stays out of its way, the
property's antecedent or the entry here says so, and the models can reproduce those that
are marked so. Of those that can do harm, the generated firmware and kernels stay out of the
way of all but two: the boot driver's, and the full response queue of the NoC, which nothing
in HybridAcc's configuration excludes.

**Delivery unit and cluster**

* SOFT_RESET in mid-wave, the manual's stop-and-clear (`HDDU.md:420-437`), clears the
  queues and leaves requests in the SPM and the NoC
  (`HybridDataDeliverUnit.hpp:893`); their answers then meet the next wave's
  descriptors. The firmware stops only after DONE, and `DoneIsComplete` proves that nothing
  is in flight then.
* A deferred soft reset whose tick falls on the edge of a direct NOC_COMMAND resets the SPM
  and not the NoC: both write the same signal (`ComputeCluster.hpp:835`; `Issue` of
  `ClusterControl`).
* A PE router whose queues are empty stops at once and takes none of the data that is
  still upstream (`PErouter.hpp:759`), although the comment at line 386 says that it
  drains. `NoInputLost` proves that the firmware's STOP finds nothing upstream.
* `AddressGenerateUnit.hpp:546`: a CTRL write at the first edge of a run is lost, ultra bit
  included, because the unit writes CTRL back without its start bit after the MMIO write of
  the same edge; `AGU.md:210` does not say so. In `CtrlEdge` of `Agu`.
* `ComputeCluster.md:86,141,191,205` says that the AHB port has no wait states; the code
  inserts one (`ComputeCluster.hpp:904,977`). A pipelined AHB master's read overwrites the
  delivery unit's MMIO address while a write is in its data phase (line 1042); the bridge
  does not pipeline, and HybridAcc does not connect it.

**PLIC**

* MEIP does not follow the priorities: they are not in the method's sensitivity list
  (`Plic.hpp:109`, `307`). `MeipTells` proves that firmware which leaves them alone once
  sources are enabled is not affected.

**NoC**

* The comment at `NoCRouter.hpp:730` says that MBUS holds a read's data while the response
  FIFO is full. It does not: the mask is gone after one cycle and the read never ends. In
  HybridAcc the delivery unit's queue of write addresses is of 16, the response FIFO of 4
  (`HybridAcc.hpp:333`), and nothing bounds the open reads. The run `noc_overrun` (three
  reads, two places) violates `EverythingServed`; with at most as many open reads as the
  FIFO has places nothing is lost (`ServedWithRoom`).

**Processing element**

* HALT stays one cycle in EXE_M whether or not EXE_A takes it (`EXE_M_stage.hpp:392`,
  `ProcessElement.hpp:359`): directly behind a VPSUM that waits for its input the element
  never reports its end. The assembler's NOP for nested loop ends keeps them apart
  (`instruction.cpp:24`). `HaltAfterSum` of `MCPe` violates `EveryProgramEnds`.
* The handshake of the local input leaves out a case in which the word is used
  (`EXE_A_stage.hpp:917` against `509`): a VMUL directly followed by two VPSUM uses one word
  twice. `SumAfterMultiply` violates `ImplementsPorts`.
* A VPSUMR with PRST that waits for input clears the psum counter before it reads
  (`EXE_A_stage.hpp:772`). `ResetWithSum`.
* The method that drives the vector of TransformRegFile is not sensitive to the enable, to
  `use_vcounter` or to the registers (`TransformRegFile.hpp:57`). So a VMUL or VMAC of vt0
  directly after a NOP or another instruction with tid 0 gets zero or the vector before its
  last store, and so does one that enters EXE_M from a bubble while EXE_A is not ready
  (`EXE_M_stage.hpp:523`). In `vt_driven` of `Pe`: the output changes only with a signal
  that it names; `ZeroAfterNop` violates `ImplementsPorts`.
* The clear of the psum registers under `control.reset` is driven by a method that is not
  sensitive to `stage_reset` (`EXE_A_stage.hpp:138-140`, `772`): it is seen at the next
  change of the instruction, not at the reset. In `pr_clear` of `Pe`; the kernels clear
  their sums themselves.
* The operand of LDMA.LEN is a count less one, which LDMA takes as a count
  (`LDMA.hpp:310`): LEN 1 loads nothing. `LoadOne`. LDMA.LOOP is the same.
* The instruction simulator pushes no frame for LOOPIN 1, runs a store task to its end at
  once and in one bank, does not know VPSUM_TSHIFT and asks for a valid bank at SWAPDM.
* Nothing keeps a VMUL directly after LDMA.ACT from old data; the assembler puts a NOP
  between them (`instruction.cpp:448`).

**Core**

* An interrupt that is taken while an instruction other than wfi is in the execute stage
  runs the instruction and leaves its own address in mepc: it runs again after mret; with a
  load-use bubble there, mepc is the fetch address and the instruction in between is lost
  (`ExecuteStage.hpp:288`). `test_trap/main.c:38` says that mepc points to the instruction
  to resume; the run `mcu_trap` violates that (`MepcIsResumePoint`). The firmware enables
  interrupts around wfi only, and so do the programs of `mcu`.
* A FENCE with no access in flight waits for ever (`ExecuteStage.hpp:419`).
* A timer that fires between the store that arms it and wfi is taken before wfi; a wait
  with nothing else to end it then lasts. The loop of the generated firmware polls a
  condition after each wait and arms again.

**DMA, fabric, boot**

* The comments at `firmware_ops.c.j2:1189,1294` say that the engine takes one live submit;
  the FIFO takes eight more. A submit to a full one is dropped and its error code
  cleared with the next command (`DmaEngine.hpp:684`). The firmware waits for the engine
  before it submits.
* The comment at `DmaEngine.hpp:597` says that any burst whose beats fit the buffer is
  supported, and line 599 checks no more. A copy within the DRAM whose bursts are as long as
  the buffer and differently aligned on its two sides never ends: each side waits for a
  whole burst. `Askew` of `MCDma` is one. `EveryCommandEnds` has the condition that rules it
  out as its antecedent (`fits`); without the antecedent it is violated.
* `Core.md:1120-1121` says that the fabric serves one transaction at a time and that the
  arbiter keeps a requester until its transaction is over. The code arbitrates by request and
  has several transactions of both requesters open (`ClusterDataFabric.hpp:668`). By the
  document's rule a silent cluster would stop both requesters; `EveryAccessAnswered` of
  `data_fabric` says that it stops one.
* The depth of a reorder buffer, `kRobDepth`, is not enforced in `ClusterDataFabric.hpp`;
  ingress FIFOs take one more than their depth (ready is a register). HybridAcc leaves the
  NLU's port idle.
* The boot driver enables the core without looking at the loader's error bit
  (`SimUtils.hpp:1034-1044`), while `Core.md:1159` releases it when the loader has
  completed. The run `boot_error` violates `RunsAfterLoad`: the core is enabled with part of
  the image. What is left is the order, `RunsAfterEnd`, which `CoreWaits` proves. The
  simulator's DRAM reports no error; a manifest may cause one.
* A soft reset of the SPM and a change of its port map take effect whatever is in flight
  (`ScratchpadMemory.hpp:1311-1328`): reads are dropped, or answered to another port.
  Nothing in the hardware waits for them. `MCSpm` has both at rest only, by conjuncts of
  `Next`; without either `ImplementsServer` is violated.
* The SPM merges DMA reads of two groups in one edge into one answer
  (`ScratchpadMemory.hpp:1067`); the tile layout keeps a burst within a group. The DMA's
  reads come last in the arbiter and may wait as long as ports ask (line 948).

## 5. Proofs

TLAPS proves, for every value of the constants within their assumptions:

| Module | Theorem | Statement |
|---|---|---|
| `NocData_proofs` | `RingTyping`, `Coherence`, `HeadVisible`, `RingRefinement` | types; count, pointers and flags agree; `data_out` is the head (depth from 2); the FIFO is the bounded queue |
| `NocData_proofs` | `Inductive`, `WordsReachAll`, `SumsArePassedOn`, `AnswersAreRight` | a PE gets the words of the requests that select it, once and in order; links pass on the sums; an answer holds the sums of its read |
| `Agu_proofs` | `InOrder`, `Ordered`, `Streaming` | the pipeline holds the loop nest's next descriptors in order; the unit is the stream `AguStream` |
| `HdduFirmware_proofs` | `UnitTyping`, `UnitPaired`, `UnitInStep` | types, no queue above its depth and no port above its limit; pairing and exact counts; under any command but SOFT_RESET |
| `HdduFirmware_proofs` | `WaveTyping`, `DoneIsComplete`, `SendOrder`, `PloOrder` | the wave loop: DONE means complete, streams in order |
| `LayerFirmware_proofs` | `Typing`, `Agreement` | types, and the substate, under any software |
| `LayerFirmware_proofs` | `LayerTyping`, `StopIsABarrier`, `NothingInterrupts`, `EveryInputArrives` | the layer loop: QUIESCED means over, no program is interrupted, no input lost |
| `CoreController_proofs` | `MemoriesFollow`, `CoreWaits`, `WritesHappenOnce` | the memories follow the loader; the core waits for its end, be it an error; a write call is one register write |
| `CoreController_proofs` | `NothingLost`, `MeipTells` | no interrupt lost under any software; MEIP exact under the firmware |
| `CmdFabric_proofs` | `Typing`, `OnceEach`, `OwnAnswer`, `ErrorsTold` | types; an access reaches each target once and nothing else; the stage gets its own answer; no refusal is lost |
| `DataFabric_proofs` | `Invariance`, `Meeting`, `Serving` | a write's halves meet; the fabric is the in-order server `MemoryServer` |
| `DmaEngine_proofs` | `TagsInOrder`, `Waiting`, `Copying` | who waits for a tag goes on after its command's report only; the engine is the copier `Copier` |

The arguments.

* *Fifo.* `RingTypeOK`, then `Coherent` (the count is the distance of the pointers, the flags
  say what it says) is inductive on top of it, then `DataOutIsHead`. It needs two slots:
  with one, a push and pop of the same edge changes neither pointer, and the method that
  drives `data_out` does not run. `RingRefinement` maps the abstract contents to the slots
  from the read pointer on; its core is how that sequence changes with each pointer.
* *Agu.* `Flows` numbers a run's descriptors from 0. Going from the output back, the
  stages that are not empty hold consecutive numbers from `sent` on, each marked last
  exactly if its number is the run's last, and the counters stand at the number that
  follows. That `compute_next_loop` gives the next number is `NextLoop`, arithmetic on a
  number of four digits in mixed radix; that the ready chain, the bypass and the direct
  issue keep the numbers in order is `StagesMove`. The refinement follows: a taken
  descriptor marked last leaves nothing behind it, and outside RUN nothing is offered.
* *Hddu.* `Paired` alone is not inductive: an answer is paired with the head of a waiting
  queue, so one needs that the waiting queue mirrors what the server holds (`InStep`), and
  that there is room for what an answer brings. `UnitInv` is the conjunction. `WithinLimits`
  is inductive with it: a queue takes only below its depth and a port below its limit, and
  `InStep` ties what the NoC has to answer and the outstanding writes to the queues.
* *HdduFirmware.* `FwInv` adds, per phase of the firmware, what the units and latches may
  be: before START all is at rest and empty; after it each AGU is fresh, working or ended
  and the latches tell how far the wave is; after DONE everything is delivered. `SendInOrder`
  and `PloInOrder` are conjuncts: entries are numbered from `delivered` on. SOFT_RESET may
  clear the queues because the phase says that they are empty.
* *ClusterControl.* `Agrees(unit)` relates substate and flags; each of the unit's
  functions preserves it, whatever the NoC reports.
* *LayerFirmware.* None of the three properties is inductive. What QUIESCED is worth
  depends on the commands that are on their way, in three places (the unit's wires, the
  central router, the PE routers), so `IInv` says, for each phase of the firmware, which
  commands may be there; that between layers the cluster is `Still`; and that within a
  layer the inputs in buses, routers and programs add up to those sent. The firmware's STOP
  then finds every queue empty, so routers stop at once, and no flush finds anything.
* *Boot.* The memories are a function of the loader's place (section, word): `Holds` says so
  for any set of words, and an edge leaves the place, passes one word (`NextWord`) or passes
  from a section to the next (`NextEntry`). For that the loader must receive the beat that it
  asked for: `LoaderOk` ties its registers to where it waits, `DramHas` its one request to the
  DRAM's queue. `Handshake` lists the eight stages that driver and interface go through
  together in a call; `RegistersWritten` counts the writes by stage. Together they give that
  the loader is kicked once, with the manifest's registers set, and that what comes after the
  wait for the interrupt comes after the loader's end (`WaitsForLoader`).
* *Plic.* MEIP is exact if the firmware never changes a priority of an enabled source:
  every other input of the method is in its sensitivity list.
* *CmdFabric.* An access is in one place at a time: in the stage, in a registered request,
  in a target's hand, on the wires of its answer. `IInv` says in which, by the state of the
  fabric, and exactly whom it has reached so far: in a broadcast the targets below the index,
  and the present one once it has the request. `Modes` keeps the fast path and the broadcast
  flag out of states in which they would be taken for another access's; `Told` follows a
  refusal from the cluster to the record. The proof goes state by state.
* *DataFabric.* What is in flight at a cluster is, on the address side as on the data side,
  what the cluster has followed by what its send register holds (`Meeting`). For the
  refinement the entries of a reorder buffer are numbered from its head: the names in it are
  a run of consecutive sequence numbers, every open one is in exactly one place on its way
  there and back, an entry that is complete holds the data of its own name, and as there is
  one name more than open accesses no two open ones have the same (`NameWraps`, `NamesAdd`).
* *DmaEngine.* Tags wrap. `IInv` says how far ahead of the last reported tag each queued
  command's tag is: the distances grow along the queue and stay below half the tags, so
  that the comparison modulo `TAGS` is the order of submission.
  `CopyInv` says where each beat of the active command is. The first `n` have landed; after
  them come, without a gap, the data sent, the buffer, `resp` and the bursts in flight, up to
  the last beat issued (`Reads`); the write bursts in flight cover the beats after the first
  `n`, a datum is marked last exactly if one of them ends there, and what is left of the last
  burst is in the buffer (`Writes`). For the addresses to be those beats' own, `Generates`
  says of each generator that its stages and FIFO hold the next ones, without an empty stage
  between two full ones, and `Addressed` that as many are still to be dropped as the burst
  before them covers. An edge takes the two sides one after the other, as the code does
  (`SrcEdge`, `DstIssues`), then the memories (`Lands`); `run_over` then implies that nothing
  is on its way (`OverIs`). The copy's length is a cardinality, counted with the library's
  bijection theorem (`CountIs`), and the least cut after a beat exists because `<` on the
  naturals is well-founded (`Least`).

* *NocData.* `Configured` says of the chain, by the shifts that are still to come
  (`ToShift`), which PE each configuration is on its way to; until it is loaded the network
  is `Quiet`. From then on everything is a function of how many requests of each channel
  have left (`Sent`). Once `Queued` says that what a channel holds is the rest of its
  script, `Multicast` and `SumsPassedOn` are inductive as they stand: a request leaves only
  if every PE that its tag selects takes it at that edge (`ReceiversAre`, `DeliveredIs`), and
  a link moves a sum from one queue to the next. The answers need more. `Kept`: a PE that
  the bus reads has given one sum for each read that came to it. `Standing`: those given for
  the pending read stand at exactly the PEs that its mask names, or the read is `Stuck`, the
  divergence of section 4, and no answer ever comes for it. `Answered` follows each answer
  back to the PE that gave it (`GivenBy`). Then the chain of `SumsPassedOn` leads down the
  local links to the PE that had the sum from the bus (`FromSource`; the lowest port from
  which on all PEs take from the link exists because `<` is well-founded), and `Multicast`
  tells which request brought it (`PlaceOf`). The words are stated as sets with an order
  (`Lists`), so that no recursive function is needed; the counting uses the library's
  bijection theorem.

Assumptions are those named in the modules: positive depths and bounds, at least one PE,
disjoint planes, at least two DMA tags, and in `NocData` workloads of configurations whose
local links have both ends (`Chained`), as the compiler makes them. TLC evaluates them in
each run.

Only model-checked: every liveness property, the refinement of `spm` (`ImplementsServer`),
and the properties of `mcu` and `pe`. Liveness is out of the prover's reach; the refinements
of `mcu` and `pe` rest on what a program computes, which is a recursive function of it.

## 6. Not modelled

Within the modelled parts, in addition to what each module's header says:

* `Agu`, `Hddu`: address arithmetic, tags as numbers, lane and port configuration, event
  counters, read-only registers, writes to single AGU banks in `Hddu` (`Agu` takes them),
  the QUIESCED bit, several command bits in one write (undefined by the manual) and the
  error path, which the SPM never triggers because it always answers OK.
* `ClusterControl` leaves the SPM's part out of the QUIESCED status bit. `LayerFirmware`
  has the delivery unit as an external sender whose first input comes after START's flush is
  over: between them lie the AGU's pipeline, a scratchpad read and a queue.
* `Spm`, `DataFabric`, `DmaEngine`, `CmdFabric`: data, byte masks and addresses within a
  bank or a cluster; `NocData`: packet layouts and the port delay of the equivalence tests.
* `Mcu`: sub-word accesses, mip, counters, immediate CSR forms, vectored traps, floating
  point, mul/div, the halves of mtime and mtimecmp. `Pe`: the arithmetic units, element
  widths, LDMA.LOOP, DMA resets, TSTORE.
* `Boot`: fast boot, the 32-bit wrap of a section's end, the DRAM bridge's timing.

Not at all: the AHB bridge (unit tests only), the harness and its logs, the RTL mirror,
the compiler's passes, assembler and file formats, the analysis scripts; see the
components of `PROJECT.json` with status `not_modelled`.

## 7. Plan

1. Done: every block of the simulator that keeps control state, and the firmware that
   drives cluster, delivery unit and PLIC.
2. Next: the proof of `ImplementsServer` of `Spm`, whose arbiter has to be restated without
   recursion.
3. Then: `Hddu` over `Spm` and `NocData` in place of the in-order answerers, on an instance
   small enough for TLC; the external interrupt of `Plic` into `Mcu`.
