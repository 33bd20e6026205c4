------------------------------ MODULE DmaEngine ------------------------------
(***************************************************************************)
(* Core/DmaEngine.hpp: commands wait in a FIFO; one at a time is validated *)
(* and run.  A run reads beats of the source into a transfer buffer and    *)
(* writes them to the destination, both in bursts, each side with its own  *)
(* address generator, counters and send registers.                         *)
(*                                                                         *)
(* A step is a rising clock edge.  Beats are numbered from 1: a beat's     *)
(* number stands for its address on either side and for its data, so a     *)
(* beat b at address a in the destination is right when a = b.             *)
(*                                                                         *)
(* A command says where bursts must end (cuts: beats that do not continue  *)
(* the burst before them), which beats of the source are fill values, and  *)
(* whether validate_transform_cfg accepts it.  A command of no beats is    *)
(* one whose counts multiply to 2^32.  The two endpoints differ in         *)
(* their bursts alone: to a cluster every beat is a burst.  DRAIN and      *)
(* LOAD_CMD are never entered.  The registers a command is submitted from, *)
(* the counters, the value of a fill and the store epilogue are left out,  *)
(* and the interrupt, which the firmware does not enable.                  *)
(*                                                                         *)
(* Environment.  The memories take addresses and data at any edge, answer  *)
(* reads in order and write bursts after they have all of them.            *)
(***************************************************************************)
EXTENDS Naturals, Sequences, FiniteSets, FiniteSetsExt, SequencesExt

CONSTANTS
  kDmaCmdFifoDepth, kDataBufferDepth, kRespFifoDepth, kDmaMaxOutstanding,
  ADDR_FIFO_DEPTH,  \* of an address generator
  Commands,         \* what may be submitted
  TAGS              \* bound: 2^32 in the code

Tag == 0 .. TAGS - 1

ASSUME SizeAssumption ==
  /\ {kDmaCmdFifoDepth, kDataBufferDepth, kRespFifoDepth, kDmaMaxOutstanding,
      ADDR_FIFO_DEPTH} \subseteq Nat \ {0}
  /\ TAGS \in Nat \ {0, 1}

ASSUME CommandAssumption ==
  \A c \in Commands :
    /\ c.beats \in Nat /\ {c.valid, c.pad} \subseteq BOOLEAN
    /\ c.src_cuts \cup c.dst_cuts \cup c.fills \subseteq 1 .. c.beats
    /\ c.fills # {} => c.pad

VARIABLES
  cmd_fifo_reg, active_cmd_reg, state_reg, mmio_error_code_reg, mmio_done_tag_reg,
  src,          \* registers of the read side
  dst,          \* registers of the write side
  buffer,       \* data_buffer_reg
  memory,       \* environment: what the memories have taken and not answered
  landed,       \* history: <<address, data>> written for the active command
  next_tag      \* the tag of the next submit

vars == <<cmd_fifo_reg, active_cmd_reg, state_reg, mmio_error_code_reg,
          mmio_done_tag_reg, src, dst, buffer, memory, landed, next_tag>>

NoAgu == [queued |-> 0, pipe |-> <<0, 0, 0>>, fifo |-> <<>>]

\* reset_execution_state.  txn holds the beats to come of each burst in flight, and
\* inflight how many they are together.
SrcReset == [agu |-> NoAgu, issued |-> 0, skip |-> 0, ar |-> <<>>, txn |-> <<>>,
             inflight |-> 0, resp |-> <<>>, r_ready |-> FALSE]
DstReset == [agu |-> NoAgu, issued |-> 0, retired |-> 0, skip |-> 0, aw |-> <<>>,
             w |-> <<>>, w_beats_left |-> 0, txn |-> <<>>, b_ready |-> FALSE]

Idle == [rd |-> <<>>, aw |-> <<>>, w |-> <<>>, b |-> 0]

Init ==
  /\ cmd_fifo_reg = <<>> /\ active_cmd_reg = <<>> /\ state_reg = "IDLE"
  /\ mmio_error_code_reg = "NONE" /\ mmio_done_tag_reg = 0
  /\ src = SrcReset /\ dst = DstReset /\ buffer = <<>>
  /\ memory = Idle /\ landed = {} /\ next_tag = 1

Beat == 1 .. Max({c.beats : c \in Commands})
-----------------------------------------------------------------------------
(* Bursts and addresses.                                                   *)

active == Head(active_cmd_reg).what

total_beats == active.beats
validate_transform_cfg == active.valid
accepted == total_beats # 0 /\ validate_transform_cfg
refusal == IF total_beats = 0 THEN "ZERO_LENGTH" ELSE "BAD_XFORM"
decode_load_pad_request(beat) == beat \in active.fills    \* nothing is read for it
direct_load_pad_active == active.pad

\* dram_burst_beats: a burst goes on to the next cut or the command's last beat.
burst_beats(first, cuts) ==
  Min({p \in cuts \cup {active.beats + 1} : p > first}) - first

\* update_src_agu_pipeline, update_dst_agu_pipeline: all stages stall together.
AguEdge(agu) ==
  IF Len(agu.fifo) >= ADDR_FIFO_DEPTH THEN agu
  ELSE LET issues == agu.queued < active.beats
       IN  [queued |-> IF issues THEN agu.queued + 1 ELSE agu.queued,
            pipe |-> <<IF issues THEN agu.queued + 1 ELSE 0, agu.pipe[1], agu.pipe[2]>>,
            fifo |-> agu.fifo \o (IF agu.pipe[3] = 0 THEN <<>> ELSE <<agu.pipe[3]>>)]

\* The addresses of beats that an issued burst covers are dropped as they come.
SkipBurst(side) ==
  LET n == Min({side.skip, Len(side.agu.fifo)})
  IN  [side EXCEPT !.skip = @ - n, !.agu.fifo = SubSeq(@, n + 1, Len(@))]

AguEmpty(side) == side.agu.fifo = <<>> /\ side.agu.pipe = <<0, 0, 0>> /\ side.skip = 0

-----------------------------------------------------------------------------
(* One edge of a run, in the order of the code: each part takes the sides  *)
(* and the buffer as the part before it left them.                         *)

\* run_src_retire: a beat is taken into resp, then the oldest goes to the buffer.
ready_to_read(s) == s.inflight > 0 /\ Len(s.resp) < kRespFifoDepth

\* The beats to come of each burst in flight, after one of the oldest is taken.
txn_after(txn) == IF Head(txn) = 1 THEN Tail(txn) ELSE [txn EXCEPT ![1] = @ - 1]

TakeRead(s, r) ==
  IF ~(r /\ s.r_ready) THEN [s EXCEPT !.r_ready = ready_to_read(s)]
  ELSE [s EXCEPT !.r_ready = ready_to_read(s),
                 !.txn = txn_after(@),
                 !.inflight = @ - 1,
                 !.resp = Append(@, Head(memory.rd).first)]

to_buffer(s, buf) == IF s.resp # <<>> /\ Len(buf) < kDataBufferDepth THEN <<Head(s.resp)>> ELSE <<>>

\* run_dst_retire: a burst is retired by its answer.
Retire(d, b) ==
  LET answered == b /\ d.b_ready
  IN  [d EXCEPT !.b_ready = d.txn # <<>>,
                !.retired = IF answered THEN @ + Head(d.txn) ELSE @,
                !.txn = IF answered THEN Tail(@) ELSE @]

\* Defect: the last place of the buffer is never used.
can_issue_read_less_one(s, buf, n) ==
  /\ Len(buf) + s.inflight + n < kDataBufferDepth
  /\ Len(s.txn) < kDmaMaxOutstanding

\* can_issue_dram_read: a burst reserves room in the buffer for all its beats.
can_issue_read(s, buf, n) ==
  /\ Len(buf) + s.inflight + n <= kDataBufferDepth
  /\ Len(s.txn) < kDmaMaxOutstanding

can_issue_fill(s, buf) ==
  Len(buf) < kDataBufferDepth /\ s.inflight = 0 /\ s.resp = <<>>

\* run_src_issue: the next fill, or the next read burst.
SrcIssue(s0, buf, ar_ready) ==
  LET s == [(IF direct_load_pad_active THEN s0 ELSE SkipBurst(s0))
              EXCEPT !.ar = IF ar_ready THEN <<>> ELSE @]
      first == s.issued + 1
      n == burst_beats(first, active.src_cuts)
      free == s.ar = <<>> /\ s.issued < active.beats
      addressed == direct_load_pad_active \/ (s.skip = 0 /\ s.agu.fifo # <<>>)
  IN  IF free /\ decode_load_pad_request(first)
      THEN IF can_issue_fill(s, buf)
           THEN [side |-> [s EXCEPT !.issued = @ + 1], buffer |-> Append(buf, first)]
           ELSE [side |-> s, buffer |-> buf]
      ELSE IF free /\ addressed /\ can_issue_read(s, buf, n)
      THEN [side |-> [s EXCEPT !.issued = @ + n, !.txn = Append(@, n), !.inflight = @ + n,
                        !.ar = <<[first |-> IF direct_load_pad_active THEN first ELSE Head(s.agu.fifo),
                                  beats |-> n]>>,
                        !.agu.fifo = IF direct_load_pad_active THEN @ ELSE Tail(@),
                        !.skip = IF direct_load_pad_active THEN @ ELSE n - 1],
            buffer |-> buf]
      ELSE [side |-> s, buffer |-> buf]

\* A write burst starts when the buffer holds all its beats.
has_burst(buf, n) == Len(buf) >= n

\* run_dst_issue: the next beat of the burst under way, and when all of that is
\* sent the next burst, its address and its first beat together.
DstIssue(d0, buf0, aw_ready, w_ready) ==
  LET d1 == [SkipBurst(d0) EXCEPT !.aw = IF aw_ready THEN <<>> ELSE @,
                                  !.w = IF w_ready THEN <<>> ELSE @]
      goes_on == d1.w = <<>> /\ d1.w_beats_left > 0
      d == IF goes_on
           THEN [d1 EXCEPT !.w_beats_left = @ - 1,
                           !.w = <<[data |-> Head(buf0), last |-> d1.w_beats_left = 1]>>]
           ELSE d1
      buf == IF goes_on THEN Tail(buf0) ELSE buf0
      n == burst_beats(d.issued + 1, active.dst_cuts)
  IN  IF /\ d.aw = <<>> /\ d.w = <<>> /\ d.w_beats_left = 0
         /\ d.issued < active.beats /\ Len(d.txn) < kDmaMaxOutstanding
         /\ d.skip = 0 /\ d.agu.fifo # <<>> /\ has_burst(buf, n)
      THEN [side |-> [d EXCEPT !.aw = <<[first |-> Head(d.agu.fifo), beats |-> n]>>,
                               !.w = <<[data |-> Head(buf), last |-> n = 1]>>,
                               !.w_beats_left = n - 1, !.issued = @ + n,
                               !.txn = Append(@, n), !.agu.fifo = Tail(@), !.skip = n - 1],
            buffer |-> Tail(buf)]
      ELSE [side |-> d, buffer |-> buf]

\* Defect: a run ends when its last burst is sent.
run_over_when_sent(s, d, buf) ==
  /\ d.issued >= active.beats /\ d.w_beats_left = 0 /\ buf = <<>>
  /\ AguEmpty(s) /\ AguEmpty(d) /\ s.txn = <<>> /\ s.resp = <<>>

run_over(s, d, buf) ==
  /\ d.retired >= active.beats
  /\ s.txn = <<>> /\ d.txn = <<>> /\ s.resp = <<>> /\ buf = <<>>
  /\ d.w_beats_left = 0 /\ AguEmpty(s) /\ AguEmpty(d)

\* What an edge makes of the two sides and the buffer.
RunEdge(ar_ready, r, aw_ready, w_ready, b) ==
  LET s == TakeRead([src EXCEPT !.agu = IF direct_load_pad_active THEN @ ELSE AguEdge(@)], r)
      moved == to_buffer(s, buffer)
      issued == SrcIssue([s EXCEPT !.resp = SubSeq(@, Len(moved) + 1, Len(@))],
                         buffer \o moved, ar_ready)
      sent == DstIssue(Retire([dst EXCEPT !.agu = AguEdge(@)], b), issued.buffer, aw_ready, w_ready)
  IN  [src |-> issued.side, dst |-> sent.side, buffer |-> sent.buffer]

Run(edge) ==
  /\ src' = edge.src /\ dst' = edge.dst /\ buffer' = edge.buffer
  /\ state_reg' = IF run_over(edge.src, edge.dst, edge.buffer) THEN "DONE" ELSE "RUN"
  /\ UNCHANGED <<active_cmd_reg, mmio_done_tag_reg>>

-----------------------------------------------------------------------------
(* The memories.                                                           *)

\* The bursts to come after one beat of the oldest is given.
Given(rd) ==
  IF Head(rd).beats = 1 THEN Tail(rd)
  ELSE <<[first |-> Head(rd).first + 1, beats |-> Head(rd).beats - 1]>> \o Tail(rd)

\* What is written when the address and all data of a burst are there.
Written(aw, w) ==
  {<<Head(aw).first + k - 1, IF w[k].last = (k = Head(aw).beats) THEN w[k].data ELSE 1>> :
     k \in 1 .. Head(aw).beats}

\* What an edge's handshakes do to the memories: at each channel what the engine
\* sends is taken or stays, and an answer is given when the engine is ready.
Memories(ar_ready, r, aw_ready, w_ready, b) ==
  LET aw == memory.aw \o (IF aw_ready THEN dst.aw ELSE <<>>)
      w == memory.w \o (IF w_ready THEN dst.w ELSE <<>>)
      lands == aw # <<>> /\ Len(w) >= Head(aw).beats
  IN  /\ memory' =
           [rd |-> (IF r THEN Given(memory.rd) ELSE memory.rd)
                     \o (IF ar_ready THEN src.ar ELSE <<>>),
            aw |-> IF lands THEN Tail(aw) ELSE aw,
            w |-> IF lands THEN SubSeq(w, Head(aw).beats + 1, Len(w)) ELSE w,
            b |-> memory.b + (IF lands THEN 1 ELSE 0) - (IF b THEN 1 ELSE 0)]
      /\ landed' = landed \cup (IF lands THEN Written(aw, w) ELSE {})

\* The handshakes that can happen at an edge.
Handshakes ==
  {h \in [ar : BOOLEAN, r : BOOLEAN, aw : BOOLEAN, w : BOOLEAN, b : BOOLEAN] :
     /\ h.ar => src.ar # <<>>
     /\ h.r => src.r_ready /\ memory.rd # <<>>
     /\ h.aw => dst.aw # <<>>
     /\ h.w => dst.w # <<>>
     /\ h.b => dst.b_ready /\ memory.b > 0}

-----------------------------------------------------------------------------
(* The engine's states.  handle_mmio comes first: submitted is <<>> or the *)
(* command that a write of CTRL submits at this edge.                      *)

queue_full == Len(cmd_fifo_reg) >= kDmaCmdFifoDepth

\* A command that finds the queue full is dropped.
fifo_with(submitted) == IF queue_full THEN cmd_fifo_reg ELSE cmd_fifo_reg \o submitted

error_with(submitted) ==
  IF queue_full /\ submitted # <<>> THEN "SUBMIT_WHEN_FULL" ELSE mmio_error_code_reg

Execution == <<src, dst, buffer, memory, landed>>

IDLE(submitted) ==
  /\ state_reg = "IDLE"
  /\ LET fifo == fifo_with(submitted)
     IN  IF fifo = <<>>
         THEN /\ mmio_error_code_reg' = error_with(submitted)
              /\ UNCHANGED <<state_reg, active_cmd_reg, cmd_fifo_reg>>
         ELSE /\ active_cmd_reg' = <<Head(fifo)>> /\ cmd_fifo_reg' = Tail(fifo)
              /\ mmio_error_code_reg' = "NONE" /\ state_reg' = "VALIDATE"
  /\ UNCHANGED <<mmio_done_tag_reg, Execution>>

VALIDATE(submitted) ==
  /\ state_reg = "VALIDATE"
  /\ cmd_fifo_reg' = fifo_with(submitted)
  /\ IF accepted
     THEN /\ state_reg' = "RUN" /\ mmio_error_code_reg' = error_with(submitted)
          /\ src' = SrcReset /\ dst' = DstReset /\ buffer' = <<>>
     ELSE /\ state_reg' = "ERROR" /\ mmio_error_code_reg' = refusal
          /\ UNCHANGED <<src, dst, buffer>>
  /\ UNCHANGED <<active_cmd_reg, mmio_done_tag_reg, memory, landed>>

RUN(submitted, h) ==
  /\ state_reg = "RUN"
  /\ cmd_fifo_reg' = fifo_with(submitted) /\ mmio_error_code_reg' = error_with(submitted)
  /\ \E edge \in {RunEdge(h.ar, h.r, h.aw, h.w, h.b)} : Run(edge)
  /\ Memories(h.ar, h.r, h.aw, h.w, h.b)

\* Defect: the tag of the last command submitted is reported.
reported_tag_of_last == (next_tag + TAGS - 1) % TAGS

reported_tag == Head(active_cmd_reg).tag

\* DONE and ERROR: either way the tag is reported.
Report(submitted) ==
  /\ state_reg \in {"DONE", "ERROR"}
  /\ cmd_fifo_reg' = fifo_with(submitted) /\ mmio_error_code_reg' = error_with(submitted)
  /\ mmio_done_tag_reg' = reported_tag
  /\ active_cmd_reg' = <<>> /\ state_reg' = "IDLE" /\ landed' = {}
  /\ UNCHANGED <<src, dst, buffer, memory>>

\* dma_wait_tag: the difference of two tags as a signed number is negative.
behind(done, tag) == (done + TAGS - tag) % TAGS >= TAGS \div 2

\* Every submit has a new tag; bound: fewer than half of all are in use.
Submits ==
  {<<>>} \cup {<<[what |-> c, tag |-> next_tag]>> :
                 c \in {d \in Commands : behind(mmio_done_tag_reg, next_tag)}}

NextTag(submitted) ==
  next_tag' = IF submitted = <<>> THEN next_tag ELSE (next_tag + 1) % TAGS

Clock(submitted, h) ==
  /\ IDLE(submitted) \/ VALIDATE(submitted) \/ RUN(submitted, h) \/ Report(submitted)
  /\ NextTag(submitted)

Next == \E submitted \in Submits : \E h \in Handshakes : Clock(submitted, h)

Spec == Init /\ [][Next]_vars

\* An edge at which nothing is submitted and no memory does anything would change
\* nothing.
Settled ==
  \/ state_reg = "IDLE" /\ cmd_fifo_reg = <<>>
  \/ /\ state_reg = "RUN" /\ ~run_over(src, dst, buffer)
     /\ RunEdge(FALSE, FALSE, FALSE, FALSE, FALSE) = [src |-> src, dst |-> dst, buffer |-> buffer]

\* The clock runs as long as an edge changes something by itself, and each memory
\* takes and answers what waits: what a channel offers to a memory, or a memory to an
\* engine that is ready, is not left there.
FairSpec ==
  /\ Spec
  /\ []<>Settled \/ []<><<TRUE>>_vars
  /\ []<>(src.ar = <<>>) \/ []<><<src.ar' # src.ar>>_vars
  /\ []<>(dst.aw = <<>>) \/ []<><<dst.aw' # dst.aw>>_vars
  /\ []<>(dst.w = <<>>) \/ []<><<dst.w' # dst.w>>_vars
  /\ []<>(memory.rd = <<>> \/ ~src.r_ready) \/ []<><<~IsPrefix(memory.rd, memory.rd')>>_vars
  /\ []<>(memory.b = 0 \/ ~dst.b_ready) \/ []<><<dst.retired' # dst.retired>>_vars

-----------------------------------------------------------------------------
(* Properties.                                                             *)

live == active_cmd_reg \o cmd_fifo_reg

\* How many beats are in the destination, each at its own place and in order.
copied == IF landed = {<<b, b>> : b \in 1 .. Cardinality(landed)} THEN Cardinality(landed)
          ELSE 1 + Max({c.beats : c \in Commands})

Ideal == INSTANCE Copier WITH
           MaxQueued <- kDmaCmdFifoDepth + 1, Tags <- Tag,
           queue <- live, reported <- mmio_done_tag_reg

\* Commands are run in order and one at a time, every beat of one lands once, at
\* its address and in order, and the tag is reported when all have: whatever the
\* bursts on the two sides are, and however reads and writes overlap
\* (seq_process, run_src_issue, run_dst_issue).
ImplementsCopier == Ideal!Spec

\* What waits for a tag does not go on before its command is reported: a tag
\* still to come is behind (dma_wait_tag).
WaitIsRight == \A i \in DOMAIN live : behind(mmio_done_tag_reg, live[i].tag)

\* The longest burst of a command of so many beats, cut so.
Longest(cuts, beats) ==
  Max({n \in 0 .. beats : \E first \in 1 .. beats - n + 1 :
                             (first + 1 .. first + n - 1) \cap cuts = {}})

\* The buffer always has a burst to write or room for the next one to read: the
\* bursts are the same on both sides, or what is short of the longest burst to
\* write leaves room for the longest one to read.
fits(c) ==
  LET reads == Longest(c.src_cuts, c.beats)
      writes == Longest(c.dst_cuts, c.beats)
  IN  \/ c.src_cuts = c.dst_cuts /\ reads <= kDataBufferDepth
      \/ reads + writes <= kDataBufferDepth + 1

\* Every command that is taken comes to its end, if none is taken whose bursts do
\* not fit the buffer in this way: it is not enough that each burst fits the buffer
\* (seq_process; DmaEngine.hpp:599).
EveryCommandEnds ==
  [](\A i \in DOMAIN live : fits(live[i].what)) =>
    \A t \in Tag : (live # <<>> /\ Head(live).tag = t) ~> (live = <<>> \/ Head(live).tag # t)
=============================================================================
