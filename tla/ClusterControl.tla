---------------------------- MODULE ClusterControl ----------------------------
(***************************************************************************)
(* The life cycle of a layer in a compute cluster:                         *)
(*   - Cluster/ClusterControlUnit.hpp, the state machine behind the        *)
(*     CLUSTER registers, and its caller seq_ahb_ctrl in                   *)
(*     ComputeCluster.hpp, which turns its actions into NoC commands;      *)
(*   - the command path of every PE: its router (PE/PErouter.hpp) and its  *)
(*     run control (ProcessElement.hpp);                                   *)
(*   - the quiesced condition that the NoC reports back.                   *)
(*                                                                         *)
(* A step is a rising clock edge.  A command of the unit stands on the     *)
(* command wires for one cycle, reaches every enabled router at the next   *)
(* edge, and the PE behind it three edges after it was issued; meanwhile   *)
(* the NoC reports what the PEs were before.                               *)
(*                                                                         *)
(* Data is counted, not named: transit counts what the central router      *)
(* holds, ingress what a PE's input queues hold.  A PE's program is what   *)
(* consumes, produces and halts when the environment says so.              *)
(***************************************************************************)
EXTENDS Naturals

CONSTANTS
  PE,             \* the enabled PEs
  MaxTransit,     \* bound: what the central router holds at most
  MaxIngress,     \* bound: what a PE's input queues hold at most
  StartupGuard    \* edges for which a start or reset holds the stages (4)

ASSUME GuardAssumption == StartupGuard \in Nat
ASSUME TrafficAssumption == MaxTransit \in Nat /\ MaxIngress \in Nat

VARIABLES
  unit,             \* ClusterControlUnit
  noc_command,      \* noc_command_mode and noc_command_data: NONE or a command
  spm_soft_reset,   \* spm_soft_reset_sig
  router,           \* PErouter, its command registers
  pe,               \* ProcessElement, its run control
  fifo,             \* the queues of each PErouter
  transit, central_flush   \* NoCRouter: its queues, and the clear on its wires

cluster_vars == <<unit, noc_command, spm_soft_reset, router, pe, fifo, transit, central_flush>>

Commands == {"RESET", "LOAD_PROGRAM", "STOP_PE", "START_PE"}
Modes == {"DIRECT_DEBUG", "LAYER_MANAGED"}
Substates == {"IDLE", "RUNNING", "STOPPING", "WAIT_QUIESCED"}
CtrlBits == {"START", "STOP", "SOFT_RESET"}

Unit == [mode : Modes, substate : Substates, layer_active : BOOLEAN,
         stop_pending : BOOLEAN, soft_reset_pending : BOOLEAN, done_sticky : BOOLEAN]

Router == [running : BOOLEAN, stop_pending : BOOLEAN, flush : BOOLEAN,
           plo_clear : BOOLEAN, pulse_reg : Commands \cup {"NONE"},
           pulse : Commands \cup {"NONE"}]

RunControl == [running : BOOLEAN, stage_reset : BOOLEAN, guard : 0 .. StartupGuard,
               halted : BOOLEAN]

Fifos == [ingress : 0 .. MaxIngress, plo : BOOLEAN, resp : BOOLEAN]

ClusterTypeOK ==
  /\ unit \in Unit
  /\ noc_command \in Commands \cup {"NONE"}
  /\ spm_soft_reset \in BOOLEAN
  /\ router \in [PE -> Router]
  /\ pe \in [PE -> RunControl]
  /\ fifo \in [PE -> Fifos]
  /\ transit \in 0 .. MaxTransit
  /\ central_flush \in BOOLEAN

\* The cluster after reset_n, its PEs enabled.
ClusterInit ==
  /\ unit = [mode |-> "DIRECT_DEBUG", substate |-> "IDLE", layer_active |-> FALSE,
             stop_pending |-> FALSE, soft_reset_pending |-> FALSE, done_sticky |-> FALSE]
  /\ noc_command = "NONE" /\ spm_soft_reset = FALSE
  /\ router = [p \in PE |-> [running |-> FALSE, stop_pending |-> FALSE, flush |-> FALSE,
                             plo_clear |-> FALSE, pulse_reg |-> "NONE", pulse |-> "NONE"]]
  /\ pe = [p \in PE |-> [running |-> FALSE, stage_reset |-> FALSE, guard |-> 0,
                         halted |-> FALSE]]
  /\ fifo = [p \in PE |-> [ingress |-> 0, plo |-> FALSE, resp |-> FALSE]]
  /\ transit = 0 /\ central_flush = FALSE

-----------------------------------------------------------------------------
(* What the NoC reports.                                                   *)

pe_halted(p) == ~pe[p].running /\ pe[p].halted

fifo_nonempty(p) == fifo[p].ingress > 0 \/ fifo[p].plo

\* Defect: the PEs are not asked, only the routers.
noc_is_quiesced_by_routers ==
  (\A p \in PE : ~router[p].stop_pending /\ ~fifo[p].resp /\ ~fifo_nonempty(p))
    /\ transit = 0

noc_is_quiesced ==
  /\ \A p \in PE : /\ pe_halted(p)
                   /\ ~router[p].stop_pending /\ ~fifo[p].resp
                   /\ ~fifo_nonempty(p)
  /\ transit = 0

busy == unit.layer_active \/ unit.stop_pending \/ unit.soft_reset_pending

\* The QUIESCED bit, but for the scratchpad's part in it.
status_quiesced == ~busy /\ noc_is_quiesced

-----------------------------------------------------------------------------
(* The control unit.  Each operation gives the unit after it, and Action   *)
(* the command it asks for.                                                *)

Enters(u, substate, active, stop, soft, done) ==
  [u EXCEPT !.substate = substate, !.layer_active = active, !.stop_pending = stop,
            !.soft_reset_pending = soft, !.done_sticky = done]

Ended(u) == Enters(u, "IDLE", FALSE, FALSE, FALSE, TRUE)

\* Defect: START leaves DONE of the last layer set.
Started_sticky(u) == Enters(u, "RUNNING", TRUE, FALSE, FALSE, u.done_sticky)

Started(u) == Enters(u, "RUNNING", TRUE, FALSE, FALSE, FALSE)

\* Defect: only a layer that is not active any more can end.
TickEndsInactive(u) == u.stop_pending /\ ~u.layer_active /\ noc_is_quiesced

\* background_tick: a stop, or a soft reset that waits, ends when the NoC is quiesced.
TickEnds(u) == u.stop_pending /\ noc_is_quiesced
TickUnit(u) == IF TickEnds(u) THEN Ended(u) ELSE u
TickAction(u) == IF TickEnds(u) /\ u.soft_reset_pending THEN "RESET" ELSE "NONE"

\* write_ctrl, in LAYER_MANAGED mode: SOFT_RESET before STOP before START.
Deferred(u) == u.layer_active \/ ~noc_is_quiesced

CtrlUnit(u, bits) ==
  IF u.mode # "LAYER_MANAGED" THEN u
  ELSE IF "SOFT_RESET" \in bits THEN
    IF Deferred(u) THEN Enters(u, "WAIT_QUIESCED", u.layer_active, TRUE, TRUE, FALSE)
    ELSE Ended(u)
  ELSE IF "STOP" \in bits THEN Enters(u, "STOPPING", u.layer_active, TRUE, FALSE, FALSE)
  ELSE IF "START" \in bits THEN Started(u)
  ELSE u

CtrlAction(u, bits) ==
  IF u.mode # "LAYER_MANAGED" THEN "NONE"
  ELSE IF "SOFT_RESET" \in bits THEN IF Deferred(u) THEN "STOP_PE" ELSE "RESET"
  ELSE IF "STOP" \in bits THEN "STOP_PE"
  ELSE IF "START" \in bits THEN "START_PE"
  ELSE "NONE"

\* mirror_cluster_state_from_direct_noc_command, in either mode; a direct STOP_PE
\* leaves a soft reset that waits pending.
MirrorUnit(u, command) ==
  CASE command = "START_PE" -> Started(u)
    [] command = "STOP_PE" -> [u EXCEPT !.stop_pending = TRUE, !.done_sticky = FALSE,
                                        !.substate = "STOPPING"]
    [] command = "RESET" -> Ended(u)
    [] OTHER -> u
-----------------------------------------------------------------------------
(* The command path of a PE.                                               *)

drained(p) == ~fifo_nonempty(p) /\ ~fifo[p].resp

\* Defect: the flush waits for the pulse that starts the PE.
flushes_late(p) == router[p].pulse = "START_PE" \/ router[p].stop_pending

\* A start, or a stop that is pending, flushes the input queues.
flushes(p) == noc_command = "START_PE" \/ router[p].stop_pending

\* PErouter::seq_process.  STOP_PE lets the router run on until it is drained.
RouterEdge(p) ==
  LET r == router[p]
      starting == noc_command = "START_PE"
      stopping == CASE noc_command = "STOP_PE" -> TRUE
                    [] noc_command \in {"START_PE", "RESET"} -> FALSE
                    [] OTHER -> r.stop_pending
      running == CASE starting -> TRUE
                   [] noc_command = "RESET" -> FALSE
                   [] OTHER -> r.running
      stopped == stopping /\ drained(p)
  IN  [running |-> running /\ ~stopped,
       stop_pending |-> stopping /\ ~stopped,
       flush |-> flushes(p),
       plo_clear |-> starting,
       pulse_reg |-> IF noc_command = "STOP_PE" THEN "NONE" ELSE noc_command,
       pulse |-> r.pulse_reg]

\* comb_control_next and the halted flags of the stages.  halts says that the
\* program has reached its end in all of them.
RunControlEdge(p, halts) ==
  LET c == pe[p]
      pulse == router[p].pulse
      restart == pulse \in {"RESET", "START_PE"}
      stage_reset == restart \/ c.guard > 0
      auto_halt == c.running /\ ~c.stage_reset /\ ~stage_reset /\ c.halted
  IN  [running |-> \/ pulse = "START_PE"
                   \/ pulse # "LOAD_PROGRAM" /\ c.running /\ ~auto_halt,
       stage_reset |-> stage_reset,
       guard |-> IF restart THEN StartupGuard
                 ELSE IF c.guard > 0 THEN c.guard - 1 ELSE 0,
       halted |-> ~c.stage_reset /\ (c.halted \/ halts)]

\* What the program of a PE can do at an edge.
executes(p) == pe[p].running /\ ~pe[p].stage_reset /\ ~pe[p].halted

router_ready(p) ==
  router[p].running /\ (router[p].stop_pending \/ fifo[p].ingress < MaxIngress)

\* The bus hands a message to all the PEs it is for, or to none.
all_ready == \A p \in PE : router_ready(p)

\* Some of the PEs in S do something, and no other.
Only(S) == {f \in [PE -> BOOLEAN] : \A p \in PE : f[p] => p \in S}

\* What the environment does at an edge: the delivery unit sends (arrive), the
\* central router hands its head to the PEs (deliver), programs consume, produce
\* and halt, the NoC collects an output, and takes the answer.
Traffic ==
  LET ready == transit > 0 /\ all_ready
  IN  {t \in [arrive : BOOLEAN, deliver : BOOLEAN,
              consume : Only({p \in PE : executes(p) /\ router[p].running /\ fifo[p].ingress > 0}),
              produce : Only({p \in PE : executes(p) /\ router[p].running /\ ~fifo[p].plo}),
              collect : Only({p \in PE : router[p].running /\ fifo[p].plo /\ ~fifo[p].resp}),
              answer : Only({p \in PE : router[p].running /\ fifo[p].resp}),
              halts : Only({p \in PE : executes(p)})] :
         /\ t.arrive => transit < MaxTransit
         /\ t.deliver => ready
         /\ ready /\ noc_command = "NONE" => t.deliver}

One(b) == IF b THEN 1 ELSE 0

\* What is delivered to a router that drains is discarded.
accepts(p, t) == t.deliver /\ ~router[p].stop_pending

\* The queues of a PE's router.
FifoEdge(p, t) ==
  LET f == fifo[p]
  IN  [ingress |-> IF router[p].flush THEN 0
                   ELSE f.ingress + One(accepts(p, t)) - One(t.consume[p]),
       plo |-> ~router[p].plo_clear /\ (t.produce[p] \/ (f.plo /\ ~t.collect[p])),
       resp |-> t.collect[p] \/ (f.resp /\ ~t.answer[p])]

\* Everything but the control unit moves at every edge.
NocEdge(t) ==
  /\ router' = [p \in PE |-> RouterEdge(p)]
  /\ pe' = [p \in PE |-> RunControlEdge(p, t.halts[p])]
  /\ fifo' = [p \in PE |-> FifoEdge(p, t)]
  /\ transit' = IF central_flush THEN 0 ELSE transit + One(t.arrive) - One(t.deliver)
  /\ central_flush' = (noc_command = "START_PE")

-----------------------------------------------------------------------------
(* One action per register that is written.  At every edge background_tick *)
(* comes first; the command wires keep what is written last.               *)

Issue(tick, action) == noc_command' = IF action # "NONE" THEN action ELSE tick

NoWrite(t) ==
  /\ unit' = TickUnit(unit)
  /\ Issue(TickAction(unit), "NONE")
  /\ spm_soft_reset' = (TickAction(unit) = "RESET")
  /\ NocEdge(t)

WriteMode(mode, t) ==
  /\ unit' = [TickUnit(unit) EXCEPT !.mode = mode]
  /\ Issue(TickAction(unit), "NONE")
  /\ spm_soft_reset' = (TickAction(unit) = "RESET")
  /\ NocEdge(t)

WriteCtrl(bits, t) ==
  LET u == TickUnit(unit)
      action == CtrlAction(u, bits)
  IN  /\ unit' = CtrlUnit(u, bits)
      /\ Issue(TickAction(unit), action)
      /\ spm_soft_reset' = (TickAction(unit) = "RESET" \/ action = "RESET")
      /\ NocEdge(t)

\* A command written to the NoC register, which the control unit mirrors.
WriteNocCommand(command, t) ==
  /\ unit' = MirrorUnit(TickUnit(unit), command)
  /\ Issue(TickAction(unit), command)
  /\ spm_soft_reset' = (TickAction(unit) = "RESET")
  /\ NocEdge(t)

\* Any software.
ClusterNext ==
  \E t \in Traffic :
    \/ NoWrite(t)
    \/ \E mode \in Modes : WriteMode(mode, t)
    \/ \E bits \in SUBSET CtrlBits : WriteCtrl(bits, t)
    \/ \E command \in Commands : WriteNocCommand(command, t)

ClusterSpec == ClusterInit /\ [][ClusterNext]_cluster_vars

-----------------------------------------------------------------------------
(* Properties.                                                             *)

\* The substate that software reads tells the phase of the layer, whatever mix of
\* layer-managed and direct commands led there: IDLE exactly when nothing is
\* active or pending, RUNNING exactly when a layer runs and nobody has asked it to
\* stop, WAIT_QUIESCED only while a soft reset waits; DONE never shows with BUSY,
\* and a soft reset that waits has its stop pending, so that it can end.
SubstateAgrees ==
  /\ unit.substate = "IDLE" <=> ~busy
  /\ unit.substate = "RUNNING" <=> unit.layer_active /\ ~unit.stop_pending
  /\ unit.substate = "WAIT_QUIESCED" => unit.soft_reset_pending
  /\ unit.done_sticky => ~busy
  /\ unit.soft_reset_pending => unit.stop_pending

=============================================================================
