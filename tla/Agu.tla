--------------------------------- MODULE Agu ---------------------------------
(***************************************************************************)
(* Cluster/AddressGenerateUnit.hpp: the four-level loop counter and the    *)
(* five pipeline registers that turn it into a stream of descriptors.      *)
(*                                                                         *)
(* A step is a rising clock edge.  The commands come from the delivery     *)
(* unit's MMIO port: a global START or STOP raises one input wire, a write *)
(* of the unit's own CTRL register also raises the wires of its command    *)
(* bits at the same edge.  A descriptor is the loop index it was issued    *)
(* with: its address and tag are functions of that index and of registers  *)
(* that do not change during a run.  The payload of an invalid register is *)
(* not observable and is kept at NoIdx.                                    *)
(***************************************************************************)
EXTENDS Naturals, Sequences, FiniteSets, FiniteSetsExt

CONSTANTS
  RawIter,      \* values written to the halves of ITER01 and ITER23
  CtrlWrites    \* values written to CTRL, as sets of bits

Levels == 0 .. 3
CtrlBits == {"start", "stop", "soft", "ultra"}

\* normalize_iter: an iteration count of 0 means 1.
normalize_iter(v) == IF v = 0 THEN 1 ELSE v
Iters == {normalize_iter(v) : v \in RawIter} \cup {1}

ASSUME RawIterAssumption == RawIter \subseteq Nat /\ IsFiniteSet(RawIter)
ASSUME CtrlWritesAssumption == CtrlWrites \subseteq SUBSET CtrlBits

VARIABLES
  iter_reg, ctrl_reg,
  idx_reg, idx_next_reg, idx_update_pending, run_last_issued,
  state_reg, busy_reg, busy, done_reg, stalled_reg,
  s0, s1, n0_s0, n0_s1, s2,
  sent          \* history: handshakes since the last START

pipeline == <<s0, s1, n0_s0, n0_s1, s2, run_last_issued>>
counters == <<idx_reg, idx_next_reg, idx_update_pending>>
vars == <<iter_reg, ctrl_reg, counters, state_reg, busy_reg, busy, done_reg,
          stalled_reg, pipeline, sent>>

Zero == [l \in Levels |-> 0]
NoIdx == [l \in Levels |-> 0]
Empty == [valid |-> FALSE, idx |-> NoIdx, last |-> FALSE]

Index == [Levels -> 0 .. Max(Iters)]
Init ==
  /\ iter_reg = [l \in Levels |-> 1]
  /\ ctrl_reg = {}
  /\ idx_reg = Zero /\ idx_next_reg = Zero /\ idx_update_pending = FALSE
  /\ run_last_issued = FALSE
  /\ state_reg = "IDLE"
  /\ busy_reg = FALSE /\ busy = FALSE /\ done_reg = FALSE /\ stalled_reg = FALSE
  /\ s0 = Empty /\ s1 = Empty /\ n0_s0 = Empty /\ n0_s1 = Empty /\ s2 = Empty
  /\ sent = 0

-----------------------------------------------------------------------------
(* The loop nest: level 0 is the innermost.                                *)

\* compute_next_loop: the levels that do not wrap, the lowest of which advances.
Advancing(idx) == {l \in Levels : idx[l] + 1 < iter_reg[l]}

all_done(idx) == Advancing(idx) = {}

compute_next_loop(idx) ==
  IF all_done(idx) THEN Zero
  ELSE LET level == Min(Advancing(idx))
       IN  [l \in Levels |-> IF l < level THEN 0
                             ELSE IF l = level THEN idx[l] + 1 ELSE idx[l]]

-----------------------------------------------------------------------------
(* Commands as this edge sees them.                                        *)

stop_req(stop) == stop \/ "stop" \in ctrl_reg
start_req(start) == start \/ "start" \in ctrl_reg
soft_reset == "soft" \in ctrl_reg

Begins(start, stop) ==
  start_req(start) /\ ~stop_req(stop) /\ (state_reg = "IDLE" \/ soft_reset)

\* Running through this edge: no command ends the run before the pipeline moves.
Runs(stop) == state_reg = "RUN" /\ ~stop_req(stop) /\ ~soft_reset

\* Every assignment to ctrl_reg is made from the register's old value, and the
\* last one of the edge wins over a CTRL write of the same edge.
CtrlEdge(start, stop, written) ==
  ctrl_reg' =
    IF Begins(start, stop) \/ (Runs(stop) /\ "start" \in ctrl_reg)
    THEN ctrl_reg \ {"start"}
    ELSE IF "stop" \in ctrl_reg THEN ctrl_reg \ {"stop"}
    ELSE written

-----------------------------------------------------------------------------
(* The pipeline s0 -> s1 -> n0_s0 -> n0_s1 -> s2, with the ready chain     *)
(* evaluated from the output back.                                         *)

\* The counter values this edge works with: a pending update is applied first.
idx_now == IF idx_update_pending THEN idx_next_reg ELSE idx_reg

ClearPipeline ==
  /\ s0' = Empty /\ s1' = Empty /\ n0_s0' = Empty /\ n0_s1' = Empty /\ s2' = Empty
  /\ run_last_issued' = FALSE

s2_ready(ready) == ~s2.valid \/ ready
n0_s1_ready(ready) == ~n0_s1.valid \/ s2_ready(ready)
n0_s0_ready(ready) == ~n0_s0.valid \/ n0_s1_ready(ready)
s1_ready(ready) == ~s1.valid \/ n0_s0_ready(ready)
s0_ready(ready) == ~s0.valid \/ s1_ready(ready)

\* Defects: a bypass that overtakes the n0 registers; a last flag that is lost.
bypass_overtakes(ready) == s1.valid /\ n0_s0_ready(ready) /\ s2_ready(ready)
issue_payload_never_last == [valid |-> TRUE, idx |-> idx_now, last |-> FALSE]

\* s1 may jump to s2, but only past empty n0 registers.
bypass_s1_to_s2(ready) ==
  s1.valid /\ n0_s0_ready(ready) /\ ~n0_s0.valid /\ ~n0_s1.valid /\ s2_ready(ready)

issue_new(ready) == ~run_last_issued /\ s0_ready(ready)

issue_payload == [valid |-> TRUE, idx |-> idx_now, last |-> all_done(idx_now)]

out_fire(ready) == s2.valid /\ ready

MovePipeline(ready) ==
  /\ s2' = IF n0_s1.valid /\ s2_ready(ready) THEN n0_s1
           ELSE IF bypass_s1_to_s2(ready) THEN s1
           ELSE IF s2_ready(ready) THEN Empty ELSE s2
  /\ n0_s1' = IF n0_s0.valid /\ n0_s1_ready(ready) THEN n0_s0
              ELSE IF n0_s1_ready(ready) THEN Empty ELSE n0_s1
  /\ n0_s0' = IF s1.valid /\ n0_s0_ready(ready) /\ ~bypass_s1_to_s2(ready) THEN s1
              ELSE IF n0_s0_ready(ready) THEN Empty ELSE n0_s0
  /\ s1' = IF ~s1_ready(ready) THEN s1
           ELSE IF s0.valid THEN s0
           ELSE IF issue_new(ready) THEN issue_payload ELSE Empty
  /\ s0' = IF ~s0_ready(ready) THEN s0
           ELSE IF issue_new(ready) /\ (s0.valid \/ ~s1_ready(ready)) THEN issue_payload
           ELSE Empty
  /\ run_last_issued' = (run_last_issued \/ (issue_new(ready) /\ all_done(idx_now)))

\* The counters of a running edge: advanced when a descriptor was issued.
MoveCounters(ready) ==
  /\ idx_reg' = idx_now
  /\ idx_next_reg' = IF issue_new(ready) THEN compute_next_loop(idx_now) ELSE idx_next_reg
  /\ idx_update_pending' = issue_new(ready)

-----------------------------------------------------------------------------
(* The four ways an edge can go.                                           *)

\* START: counters and pipeline are cleared and the first descriptor is issued
\* into s1 at the same edge.
Begin ==
  /\ state_reg' = "RUN"
  /\ busy_reg' = TRUE
  /\ idx_reg' = Zero
  /\ idx_next_reg' = compute_next_loop(Zero)
  /\ idx_update_pending' = TRUE
  /\ s1' = [valid |-> TRUE, idx |-> Zero, last |-> all_done(Zero)]
  /\ s0' = Empty /\ n0_s0' = Empty /\ n0_s1' = Empty /\ s2' = Empty
  /\ run_last_issued' = all_done(Zero)
  /\ done_reg' = FALSE /\ stalled_reg' = FALSE
  /\ sent' = 0

\* Defect: a STOP that leaves the output register offering its descriptor.
HaltKeepsOutput ==
  /\ state_reg' = "IDLE"
  /\ busy_reg' = FALSE
  /\ s0' = Empty /\ s1' = Empty /\ n0_s0' = Empty /\ n0_s1' = Empty /\ s2' = s2
  /\ run_last_issued' = FALSE
  /\ idx_reg' = idx_now /\ idx_update_pending' = FALSE
  /\ done_reg' = FALSE /\ stalled_reg' = FALSE
  /\ UNCHANGED <<idx_next_reg, sent>>

\* STOP or soft reset: idle and empty at once; only soft reset clears the counters.
Halt ==
  /\ state_reg' = "IDLE"
  /\ busy_reg' = FALSE
  /\ ClearPipeline
  /\ IF soft_reset
     THEN idx_reg' = Zero /\ idx_next_reg' = Zero
     ELSE idx_reg' = idx_now /\ UNCHANGED idx_next_reg
  /\ idx_update_pending' = FALSE
  /\ done_reg' = FALSE /\ stalled_reg' = FALSE
  /\ UNCHANGED sent

\* A running edge: the handshake of the last descriptor ends the run.
Run(ready) ==
  /\ MovePipeline(ready)
  /\ MoveCounters(ready)
  /\ IF out_fire(ready) /\ s2.last
     THEN state_reg' = "DONE" /\ busy_reg' = FALSE /\ done_reg' = TRUE
     ELSE UNCHANGED <<state_reg, busy_reg>> /\ done_reg' = FALSE
  /\ stalled_reg' = (s2.valid /\ ~ready)
  /\ sent' = IF out_fire(ready) THEN sent + 1 ELSE sent

\* DONE lasts one edge; IDLE stays.
Rest ==
  /\ state_reg' = "IDLE"
  /\ ClearPipeline
  /\ idx_reg' = idx_now /\ idx_update_pending' = FALSE
  /\ done_reg' = FALSE /\ stalled_reg' = FALSE
  /\ UNCHANGED <<busy_reg, idx_next_reg, sent>>

\* written is what CTRL holds after this edge's MMIO write, if there is one.
Edge(start, stop, written, ready) ==
  /\ CtrlEdge(start, stop, written)
  /\ busy' = busy_reg
  /\ \/ Begins(start, stop) /\ Begin
     \/ ~Begins(start, stop) /\ (stop_req(stop) \/ soft_reset) /\ Halt
     \/ Runs(stop) /\ Run(ready)
     \/ /\ ~Begins(start, stop) /\ ~stop_req(stop) /\ ~soft_reset
        /\ state_reg # "RUN" /\ Rest

-----------------------------------------------------------------------------
(* What arrives at an edge.                                                *)

Quiet(ready) == Edge(FALSE, FALSE, ctrl_reg, ready) /\ UNCHANGED iter_reg
GlobalStart(ready) == Edge(TRUE, FALSE, ctrl_reg, ready) /\ UNCHANGED iter_reg
GlobalStop(ready) == Edge(FALSE, TRUE, ctrl_reg, ready) /\ UNCHANGED iter_reg

\* A CTRL write: the delivery unit raises the command wires with it.
WriteCtrl(w, ready) ==
  /\ Edge("start" \in w, "stop" \in w, w, ready)
  /\ UNCHANGED iter_reg

\* The firmware programs the loop bounds between runs only.
WriteIter(half, lo, hi, ready) ==
  /\ state_reg # "RUN" /\ "start" \notin ctrl_reg
  /\ Edge(FALSE, FALSE, ctrl_reg, ready)
  /\ iter_reg' = [iter_reg EXCEPT ![2 * half] = normalize_iter(lo),
                                  ![2 * half + 1] = normalize_iter(hi)]

Next ==
  \E ready \in BOOLEAN :
    \/ Quiet(ready)
    \/ GlobalStart(ready)
    \/ GlobalStop(ready)
    \/ \E w \in CtrlWrites : WriteCtrl(w, ready)
    \/ \E half \in {0, 1}, lo, hi \in RawIter : WriteIter(half, lo, hi, ready)

Spec == Init /\ [][Next]_vars

-----------------------------------------------------------------------------
(* Properties.                                                             *)

total == iter_reg[0] * iter_reg[1] * iter_reg[2] * iter_reg[3]

\* The position of a loop index in the run.
Position(idx) ==
  idx[0] + iter_reg[0] * (idx[1] + iter_reg[1] * (idx[2] + iter_reg[2] * idx[3]))

\* What a run has accepted into the pipeline and not handed over, oldest first.
in_stage(stage) == IF stage.valid THEN <<stage>> ELSE <<>>
Held == in_stage(s2) \o in_stage(n0_s1) \o in_stage(n0_s0) \o in_stage(s1) \o in_stage(s0)

\* While a unit runs, its pipeline holds the descriptors that come next, in
\* order and without a gap, the counters stand at the one to issue after them,
\* and exactly the final one is marked last: whatever the bypass, the direct
\* issue into s1 and the stalls of the ready chain do, the stream is the loop nest.
StreamIntact ==
  state_reg = "RUN" =>
    /\ \A i \in 1 .. Len(Held) :
         /\ Position(Held[i].idx) = sent + i - 1
         /\ Held[i].last = (sent + i = total)
    /\ IF run_last_issued THEN sent + Len(Held) = total
       ELSE Position(idx_now) = sent + Len(Held)

\* The unit as the delivery unit sees it.
Stream == INSTANCE AguStream WITH
  MaxTotal <- Max(Iters) * Max(Iters) * Max(Iters) * Max(Iters),
  agu <- [state |-> state_reg, busy_reg |-> busy_reg, busy |-> busy,
          valid |-> s2.valid, sent |-> sent, total |-> total]
ImplementsStream == Stream!Spec

\* Edges keep coming to a unit that runs, and a descriptor that is offered again
\* and again is taken.
offers == state_reg = "RUN" /\ s2.valid
FairSpec ==
  /\ Spec
  /\ []<>(state_reg # "RUN") \/ []<><<TRUE>>_vars
  /\ []<>offers => []<><<sent' # sent>>_vars

\* Every run ends: with its last handshake or by a STOP.
EveryRunEnds == state_reg = "RUN" ~> state_reg # "RUN"
=============================================================================
