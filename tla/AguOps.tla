------------------------------- MODULE AguOps -------------------------------
(***************************************************************************)
(* An address generation unit seen from outside: a stream of total         *)
(* descriptors offered one at a time and in order behind gen_valid, a run  *)
(* that START begins and STOP or the last handshake ends.  A record says   *)
(* where a unit is; Edge gives what one clock edge makes of it.  The       *)
(* pipeline that produces the descriptors is module Agu, which implements  *)
(* this; the delivery unit (module Hddu) is composed of four of these.     *)
(***************************************************************************)
EXTENDS Naturals

States == {"IDLE", "RUN", "DONE"}

\* valid is gen_valid; while it is TRUE the descriptor offered is number sent,
\* counted from 0.  busy is the output port, one edge behind busy_reg.
Record(maxTotal) ==
  [state : States, busy_reg : BOOLEAN, busy : BOOLEAN, valid : BOOLEAN,
   sent : 0 .. maxTotal, total : 1 .. maxTotal]

AtReset(total) ==
  [state |-> "IDLE", busy_reg |-> FALSE, busy |-> FALSE, valid |-> FALSE,
   sent |-> 0, total |-> total]

\* The record after an edge: busy.write(busy_reg.read()) passes on what the
\* register held before it.
After(a, state, busy_reg, valid, sent) ==
  [state |-> state, busy_reg |-> busy_reg, busy |-> a.busy_reg, valid |-> valid,
   sent |-> sent, total |-> a.total]

Halted(a) == After(a, "IDLE", FALSE, FALSE, a.sent)

Begun(a) == After(a, "RUN", TRUE, FALSE, 0)

Begins(a, start, stop, soft) == start /\ ~stop /\ (a.state = "IDLE" \/ soft)

Fires(a, ready) == a.state = "RUN" /\ a.valid /\ ready

\* After the last handshake of a run.
Finished(a) == After(a, "DONE", FALSE, FALSE, a.sent + 1)

Running(a, valid, sent) == After(a, a.state, a.busy_reg, valid, sent)

\* A running unit: a descriptor that is offered stays until it is taken; whether
\* the pipeline has the next one at the output by the next edge is produce.
RunEdge(a, ready, produce) ==
  IF a.valid /\ ~ready THEN Running(a, TRUE, a.sent)
  ELSE IF ~a.valid THEN Running(a, produce, a.sent)
  ELSE IF a.sent + 1 = a.total THEN Finished(a)
  ELSE Running(a, produce, a.sent + 1)

\* START is honoured in IDLE only: one that arrives in RUN, or in the one edge
\* the unit spends in DONE, is dropped.
Edge(a, start, stop, soft, ready, produce) ==
  IF Begins(a, start, stop, soft) THEN Begun(a)
  ELSE IF stop \/ soft THEN Halted(a)
  ELSE IF a.state = "RUN" THEN RunEdge(a, ready, produce)
  ELSE After(a, "IDLE", a.busy_reg, a.valid, a.sent)
=============================================================================
