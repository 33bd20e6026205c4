-------------------------------- MODULE Boot --------------------------------
(***************************************************************************)
(* The boot path of CoreController: the host's driver (SimUtils.hpp,       *)
(* BootTestDriver) writes and reads the host interface (BootHostIf.hpp)    *)
(* over AXI4-Lite; the interface kicks the section loader, gives it the    *)
(* DRAM port while it is busy, interrupts the host and enables the core.   *)
(*                                                                         *)
(* A step is a rising clock edge: each thread reads what the others drove  *)
(* before it.  A register of the interface is the set csr of those that    *)
(* hold what the host wrote.  The driver's fixed waits are any number of   *)
(* edges; it waits for ever where the code gives up after max_cycles.      *)
(*                                                                         *)
(* Environment.  The firmware may stop at any time after it is enabled.    *)
(* The DMA is idle, and no interrupt source is raised, while the loader    *)
(* works (nothing has started them).                                       *)
(***************************************************************************)
EXTENDS SectionLoader, FiniteSets

VARIABLES
  host,   \* the driver: where it is in its program and in a call, its outputs
  hif,    \* the host interface: axi_state, registers, outputs
  log,    \* history: the registers written, in order
  core,   \* the core has stopped at its EBREAK
  clk     \* the clock, so that an edge is a step even if it changes no register

vars == <<manifest, ld, ram, dram, host, hif, log, core, clk>>

Write(r) == <<"write", r>>
Read == <<"read", "IRQ_SUMMARY">>

\* Defect: the core is enabled before the interrupt.
Program_early ==
  <<Write("CORE_BOOT_ADDR"), Write("MANIFEST_ADDR_LO"), Write("MANIFEST_ADDR_HI"),
    Write("MANIFEST_SIZE"), Write("MANIFEST_KICK"), Write("HACC_CTRL"), <<"wait_irq", "">>, Read,
    Write("IRQ_FORCE_ACK"), <<"poll", "IRQ_SUMMARY">>, <<"end", "">>>>

\* BootTestDriver::main_proc.
Program ==
  <<Write("CORE_BOOT_ADDR"), Write("MANIFEST_ADDR_LO"), Write("MANIFEST_ADDR_HI"),
    Write("MANIFEST_SIZE"), Write("MANIFEST_KICK"), <<"wait_irq", "">>, Read,
    Write("IRQ_FORCE_ACK"), Write("HACC_CTRL"), <<"poll", "IRQ_SUMMARY">>, <<"end", "">>>>

NothingDriven == [aw |-> FALSE, w |-> FALSE, b_ready |-> FALSE, ar |-> FALSE, r_ready |-> FALSE]

Init ==
  /\ LoaderInit
  /\ host = [op |-> 1, pc |-> "next", irq |-> {}, out |-> NothingDriven]
  /\ hif = [axi_state |-> "IDLE", wr_addr |-> "", rd_rdata |-> {}, csr |-> {}, kick |-> FALSE,
            aw_ready |-> FALSE, w_ready |-> FALSE, b_valid |-> FALSE, ar_ready |-> FALSE,
            r_valid |-> FALSE, load_phase |-> FALSE, core_enable |-> FALSE, irq |-> FALSE]
  /\ log = <<>> /\ core = "stopped" /\ clk = 0

-----------------------------------------------------------------------------
(* The driver.                                                             *)

operation == Program[host.op]

\* The thread waits at pc.
At(h, pc) == [h EXCEPT !.pc = pc]

\* A call returns after one more edge.
Return(h) == [At(h, "return") EXCEPT !.out.b_ready = FALSE, !.out.r_ready = FALSE]

\* Each stage of axi_write falls through to the next when it need not wait.
AwaitB(h) == IF hif.b_valid THEN Return(h) ELSE At(h, "b")
AwaitW(h) ==
  IF hif.w_ready THEN AwaitB([h EXCEPT !.out.w = FALSE, !.out.b_ready = TRUE]) ELSE At(h, "w")

\* Defect: the address stays offered until the next call.
AwaitAw_held(h) == IF hif.aw_ready THEN AwaitW(h) ELSE At(h, "aw")

AwaitAw(h) == IF hif.aw_ready THEN AwaitW([h EXCEPT !.out.aw = FALSE]) ELSE At(h, "aw")

\* The stages of axi_read.
AwaitR(h) ==
  IF hif.r_valid THEN Return([h EXCEPT !.irq = hif.rd_rdata]) ELSE At(h, "r")
AwaitAr(h) ==
  IF hif.ar_ready THEN AwaitR([h EXCEPT !.out.ar = FALSE, !.out.r_ready = TRUE]) ELSE At(h, "ar")

\* The next operation starts.
Start(h, o) ==
  CASE o[1] = "write" -> [At(h, "aw") EXCEPT !.out.aw = TRUE, !.out.w = TRUE]
    [] o[1] \in {"read", "poll"} -> [At(h, "ar") EXCEPT !.out.ar = TRUE]
    [] o[1] = "wait_irq" -> IF hif.irq THEN [At(h, "next") EXCEPT !.op = @ + 1] ELSE h
    [] o[1] = "end" -> h

\* A poll is repeated until the core has stopped.
Returned(h) ==
  IF operation[1] = "poll" /\ "core_halted" \notin h.irq THEN At(h, "next")
  ELSE [At(h, "next") EXCEPT !.op = @ + 1]

Driver(rests) ==
  CASE host.pc = "next" -> IF rests THEN host ELSE Start(host, operation)
    [] host.pc = "return" ->
         LET h == Returned(host) IN IF rests THEN h ELSE Start(h, Program[h.op])
    [] host.pc = "aw" -> AwaitAw(host)
    [] host.pc = "w" -> AwaitW(host)
    [] host.pc = "b" -> AwaitB(host)
    [] host.pc = "ar" -> AwaitAr(host)
    [] host.pc = "r" -> AwaitR(host)

-----------------------------------------------------------------------------
(* The host interface (BootHostIf::seq_process).                           *)

irq_summary ==
  {b \in {"loader_done", "loader_error", "core_fault", "core_halted"} :
     CASE b = "loader_done" -> ld.done
       [] b = "loader_error" -> ld.err # "LD_OK"
       [] OTHER -> core = "halted"}

\* The one-pulse signals and the handshakes are off unless the state drives them.
Quiet(i) ==
  [i EXCEPT !.kick = FALSE, !.aw_ready = FALSE, !.w_ready = FALSE, !.b_valid = FALSE,
            !.ar_ready = FALSE, !.r_valid = FALSE]

AxiState(i) ==
  CASE i.axi_state = "IDLE" ->
         IF host.out.aw
         THEN [i EXCEPT !.wr_addr = operation[2], !.aw_ready = TRUE, !.axi_state = "WR_DATA"]
         ELSE IF host.out.ar
         THEN [i EXCEPT !.rd_rdata = irq_summary, !.ar_ready = TRUE, !.axi_state = "RD_RESP"]
         ELSE i
    [] i.axi_state = "WR_DATA" ->
         IF host.out.w
         THEN [i EXCEPT !.w_ready = TRUE, !.axi_state = "WR_RESP", !.csr = @ \cup {i.wr_addr},
                        !.kick = (i.wr_addr = "MANIFEST_KICK")]
         ELSE [i EXCEPT !.w_ready = TRUE]
    [] i.axi_state = "WR_RESP" ->
         [i EXCEPT !.b_valid = TRUE, !.axi_state = IF host.out.b_ready THEN "IDLE" ELSE @]
    [] i.axi_state = "RD_RESP" ->
         [i EXCEPT !.r_valid = TRUE, !.axi_state = IF host.out.r_ready THEN "IDLE" ELSE @]

\* Defect: the port is the loader's while it asks, no longer when it is answered.
port_is_loaders_to_ask == ld.ar # <<>>

\* The loader has the DRAM port.
port_is_loaders == ld.busy

Interface ==
  LET i == AxiState(Quiet(hif))
  IN  [i EXCEPT !.core_enable = ("HACC_CTRL" \in i.csr), !.load_phase = port_is_loaders,
                !.irq = (irq_summary # {})]

\* The register that is written at this edge.
Written ==
  IF hif.axi_state = "WR_DATA" /\ host.out.w THEN <<hif.wr_addr>> ELSE <<>>

-----------------------------------------------------------------------------
(* One edge.                                                               *)

\* The manifest as the loader finds it, with the registers that are set.
given_manifest ==
  [aligned |-> manifest.aligned,
   entries |-> IF {"MANIFEST_ADDR_LO", "MANIFEST_SIZE"} \subseteq hif.csr
               THEN manifest.entries ELSE <<>>]

\* mux_mem_axi.
port_ar == IF hif.load_phase THEN ld.ar ELSE <<>>
port_r_ready == hif.load_phase /\ ld.r_ready
loader_ar_ready == hif.load_phase /\ dram.ar_ready
loader_r == IF hif.load_phase THEN dram.r ELSE <<>>

Clock(rests, serves, ok, halts) ==
  /\ host' = Driver(rests)
  /\ hif' = Interface
  /\ log' = log \o Written
  /\ ld' = Loader(ld, hif.kick, given_manifest, loader_ar_ready, loader_r)
  /\ DramEdge(port_ar, port_r_ready, serves, ok)
  /\ RamEdge
  /\ core' = IF ~hif.core_enable THEN core ELSE IF halts \/ core = "halted" THEN "halted" ELSE "runs"
  /\ clk' = 1 - clk
  /\ UNCHANGED manifest

Next ==
  \E rests \in BOOLEAN, serves \in BOOLEAN, ok \in {TRUE, ~MayFail}, halts \in BOOLEAN :
    Clock(rests, serves, ok, halts)

Spec == Init /\ [][Next]_vars

\* The driver has something to do and may put it off.
may_go_on ==
  /\ host.pc = "next"
  /\ \/ operation[1] \in {"write", "read", "poll"}
     \/ operation[1] = "wait_irq" /\ hif.irq

\* The clock runs, the driver goes on, and the DRAM answers.
BootFairness ==
  /\ []<><<TRUE>>_vars
  /\ []<>~may_go_on \/ []<><<host' # host>>_vars
  /\ []<>(dram.queue = <<>>) \/ []<><<dram'.r # dram.r>>_vars

FairSpec == Spec /\ BootFairness

-----------------------------------------------------------------------------
(* Properties.                                                             *)

\* The words of the manifest's sections.
ImageWords ==
  UNION {{e - 1} \X (0 .. manifest.entries[e].size - 1) : e \in DOMAIN manifest.entries}

\* The order in which they are copied, and where to.
Precedes(v, w) == v[1] < w[1] \/ (v[1] = w[1] /\ v[2] < w[2])

Target(w) ==
  LET e == manifest.entries[w[1] + 1] IN <<in_isram(e), e.local + w[2]>>

\* The bytes of a section's i-th word: all of it but what is after the section's end.
SectionBytes(e, i) == {b \in 0 .. WordBytes - 1 : i = e.size - 1 => b < e.last}

\* The bytes of the memories that a word takes.
Bytes(w) == {Target(w)} \X SectionBytes(manifest.entries[w[1] + 1], w[2])

\* The memories hold just these words' bytes, of those for one place the last.
Holds(words) ==
  /\ DOMAIN ram = UNION {Bytes(w) : w \in words}
  /\ \A b \in DOMAIN ram :
       /\ ram[b] \in words /\ b \in Bytes(ram[b])
       /\ \A w \in words : b \in Bytes(w) => ~Precedes(ram[b], w)

\* The loader is, or stopped, in an entry's words.
within_entry ==
  \/ ld.state \in {"LD_WRITE_LOCAL", "LD_VERIFY"}
  \/ ld.state = "LD_ERR" /\ ld.err = "LD_ERR_AXI" /\ ld.at < ld.cur_entry.size

\* The words before the loader's place.
Copied ==
  LET place == <<ld.entry_idx, IF within_entry THEN ld.at ELSE 0>>
  IN  {w \in ImageWords : Precedes(w, place)}

\* Whatever the DRAM's delays and wherever the loader stops, the memories hold the
\* sections' words up to its place and nothing else (axi_read_beat, LD_WRITE_LOCAL).
CopiedSoFar == Holds(Copied)

\* The core runs only what the loader has loaded completely (Core.md:1159).  The
\* driver does not keep it: it reads the interrupt summary and does not look at it.
RunsAfterLoad ==
  hif.core_enable => ld.err = "LD_OK" /\ ld.done /\ Holds(ImageWords)

\* What it keeps: the core does not run before the loader has come to its end, with
\* the whole image or with an error (BootHostIf's interrupt, LD_DONE).
RunsAfterEnd ==
  hif.core_enable => ld.err # "LD_OK" \/ (ld.done /\ Holds(ImageWords))

\* The writes among the program's first n operations.
WritesUpTo(n) == {o \in 1 .. n : Program[o][1] = "write"}

\* Every write of the driver's is one write of the interface: when a call returns
\* the registers of the program so far have been written, once each and in order.
WritesOnce ==
  LET done == IF host.pc = "return" THEN host.op ELSE host.op - 1
  IN  host.pc \in {"next", "return"} =>
        /\ Len(log) = Cardinality(WritesUpTo(done))
        /\ \A o \in WritesUpTo(done) : log[Cardinality(WritesUpTo(o))] = Program[o][2]

\* The host that has begun to boot always gets to enable the core.
CoreEnabled == host.pc # "next" ~> hif.core_enable
=============================================================================
