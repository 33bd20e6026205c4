------------------------- MODULE LayerFirmware_proofs -------------------------
(***************************************************************************)
(* The generated firmware's layers over ClusterControl, for any number of  *)
(* PEs and inputs and any bounds.  No property is inductive as it stands:  *)
(* what QUIESCED is worth depends on the commands that are still on their  *)
(* way to the PEs, so the invariant says, phase by phase, which commands   *)
(* can be in the three places of the command path and what they find there.*)
(*                                                                         *)
(* ClusterControl alone comes first: whatever the software writes, the     *)
(* types hold and the substate agrees with what is active and pending.     *)
(* Both are inductive as they stand.                                       *)
(***************************************************************************)
EXTENDS LayerFirmware, TLAPS

\* Every write leaves the control unit a well-formed unit.
LEMMA UnitTyped ==
  ASSUME NEW u \in Unit
  PROVE  /\ TickUnit(u) \in Unit
         /\ \A bits \in SUBSET CtrlBits : CtrlUnit(u, bits) \in Unit
         /\ \A command \in Commands : MirrorUnit(u, command) \in Unit
<1>1. ASSUME NEW s \in Substates, NEW active \in BOOLEAN, NEW stop \in BOOLEAN,
             NEW soft \in BOOLEAN, NEW done \in BOOLEAN
      PROVE  Enters(u, s, active, stop, soft, done) \in Unit
  BY DEF Unit, Enters
<1>2. /\ {"IDLE", "RUNNING", "STOPPING", "WAIT_QUIESCED"} \subseteq Substates
      /\ u.layer_active \in BOOLEAN
  BY DEF Unit, Substates
<1>3. Ended(u) \in Unit /\ Started(u) \in Unit
  BY <1>1, <1>2 DEF Ended, Started
<1>4. /\ Enters(u, "WAIT_QUIESCED", u.layer_active, TRUE, TRUE, FALSE) \in Unit
      /\ Enters(u, "STOPPING", u.layer_active, TRUE, FALSE, FALSE) \in Unit
  BY <1>1, <1>2
<1>5. TickUnit(u) \in Unit
  BY <1>3 DEF TickUnit
<1>6. ASSUME NEW bits \in SUBSET CtrlBits PROVE CtrlUnit(u, bits) \in Unit
  BY <1>3, <1>4 DEF CtrlUnit
<1>7. [u EXCEPT !.stop_pending = TRUE, !.done_sticky = FALSE, !.substate = "STOPPING"] \in Unit
  BY <1>2 DEF Unit
<1>8. ASSUME NEW command \in Commands PROVE MirrorUnit(u, command) \in Unit
  BY <1>3, <1>7 DEF MirrorUnit
<1> QED
  BY <1>5, <1>6, <1>8

\* An edge keeps the registers of a router, and the run control of its PE, typed.
LEMMA PathTyped ==
  ASSUME ClusterTypeOK, NEW p \in PE, NEW halts \in BOOLEAN
  PROVE  RouterEdge(p) \in Router /\ RunControlEdge(p, halts) \in RunControl
<1>1. router[p] \in Router /\ pe[p] \in RunControl /\ StartupGuard \in Nat
  BY GuardAssumption DEF ClusterTypeOK
<1>2. noc_command \in Commands \cup {"NONE"}
  BY DEF ClusterTypeOK
<1>3. RouterEdge(p) \in Router
  BY <1>1, <1>2 DEF RouterEdge, Router, flushes, drained, fifo_nonempty, Commands
<1>4. RunControlEdge(p, halts) \in RunControl
  BY <1>1 DEF RunControlEdge, RunControl, Router
<1> QED
  BY <1>3, <1>4

\* The queues of a router and of the central router stay within their bounds: the bus
\* delivers only what every PE has room for, or discards.
LEMMA QueuesTyped ==
  ASSUME ClusterTypeOK, NEW t \in Traffic
  PROVE  /\ \A p \in PE : FifoEdge(p, t) \in Fifos
         /\ transit + One(t.arrive) - One(t.deliver) \in 0 .. MaxTransit
<1>1. MaxTransit \in Nat /\ MaxIngress \in Nat
  BY TrafficAssumption
<1>2. transit \in 0 .. MaxTransit
  BY DEF ClusterTypeOK
<1>3. /\ t.arrive \in BOOLEAN /\ t.deliver \in BOOLEAN
      /\ t.arrive => transit < MaxTransit
      /\ t.deliver => transit > 0 /\ all_ready
  BY DEF Traffic, Only
<1>4. transit + One(t.arrive) - One(t.deliver) \in 0 .. MaxTransit
  BY <1>1, <1>2, <1>3 DEF One
<1>5. ASSUME NEW p \in PE PROVE FifoEdge(p, t) \in Fifos
  <2>1. /\ fifo[p].ingress \in 0 .. MaxIngress
        /\ fifo[p].plo \in BOOLEAN /\ fifo[p].resp \in BOOLEAN
    BY DEF ClusterTypeOK, Fifos
  <2>2. /\ t.consume[p] \in BOOLEAN /\ t.produce[p] \in BOOLEAN
        /\ t.collect[p] \in BOOLEAN /\ t.answer[p] \in BOOLEAN
        /\ t.consume[p] => fifo[p].ingress > 0
    BY DEF Traffic, Only
  <2>3. router[p].flush \in BOOLEAN /\ router[p].plo_clear \in BOOLEAN
    BY DEF ClusterTypeOK, Router
  <2>4. accepts(p, t) \in BOOLEAN /\ (accepts(p, t) => fifo[p].ingress < MaxIngress)
    BY <1>3, <2>1 DEF accepts, all_ready, router_ready, ClusterTypeOK, Router
  <2>5. (IF router[p].flush THEN 0
         ELSE fifo[p].ingress + One(accepts(p, t)) - One(t.consume[p])) \in 0 .. MaxIngress
    BY <1>1, <2>1, <2>2, <2>4 DEF One
  <2> QED
    BY <2>1, <2>2, <2>3, <2>5 DEF FifoEdge, Fifos
<1> QED
  BY <1>4, <1>5

\* What every action does outside the control unit keeps its types.
LEMMA NocTyped ==
  ASSUME ClusterTypeOK, NEW t \in Traffic, NocEdge(t)
  PROVE  /\ router' \in [PE -> Router] /\ pe' \in [PE -> RunControl]
         /\ fifo' \in [PE -> Fifos] /\ transit' \in 0 .. MaxTransit
         /\ central_flush' \in BOOLEAN
<1>1. \A p \in PE : t.halts[p] \in BOOLEAN
  BY DEF Traffic, Only
<1>2. router' \in [PE -> Router] /\ pe' \in [PE -> RunControl]
  BY <1>1, PathTyped DEF NocEdge
<1>3. fifo' \in [PE -> Fifos]
  BY QueuesTyped DEF NocEdge
<1>4. transit' \in 0 .. MaxTransit
  BY QueuesTyped, TrafficAssumption DEF NocEdge
<1>5. central_flush' \in BOOLEAN
  BY DEF NocEdge
<1> QED
  BY <1>2, <1>3, <1>4, <1>5

\* Every write leaves a command, or none, on the wires.
LEMMA WiresTyped ==
  ASSUME NEW u, NEW bits \in SUBSET CtrlBits
  PROVE  /\ TickAction(u) \in Commands \cup {"NONE"}
         /\ CtrlAction(u, bits) \in Commands \cup {"NONE"}
BY DEF TickAction, CtrlAction, Commands

-----------------------------------------------------------------------------
(* Types.                                                                  *)

\* The cluster after reset has the types.
LEMMA TypingInit == ClusterInit => ClusterTypeOK
<1> SUFFICES ASSUME ClusterInit PROVE ClusterTypeOK
  OBVIOUS
<1>1. unit \in Unit
  BY DEF ClusterInit, Unit, Modes, Substates
<1>2. router \in [PE -> Router]
  BY DEF ClusterInit, Router
<1>3. pe \in [PE -> RunControl]
  <2>1. 0 \in 0 .. StartupGuard
    BY GuardAssumption
  <2> QED
    BY <2>1 DEF ClusterInit, RunControl
<1>4. fifo \in [PE -> Fifos] /\ transit \in 0 .. MaxTransit
  <2>1. 0 \in 0 .. MaxIngress /\ 0 \in 0 .. MaxTransit
    BY TrafficAssumption
  <2> QED
    BY <2>1 DEF ClusterInit, Fifos
<1> QED
  BY <1>1, <1>2, <1>3, <1>4 DEF ClusterInit, ClusterTypeOK

\* Every step keeps the types.
LEMMA TypingStep == ClusterTypeOK /\ [ClusterNext]_cluster_vars => ClusterTypeOK'
<1> SUFFICES ASSUME ClusterTypeOK, [ClusterNext]_cluster_vars PROVE ClusterTypeOK'
  OBVIOUS
<1>1. CASE UNCHANGED cluster_vars
  BY <1>1 DEF ClusterTypeOK, cluster_vars
<1>2. CASE ClusterNext
  <2> PICK t \in Traffic :
        \/ NoWrite(t)
        \/ \E mode \in Modes : WriteMode(mode, t)
        \/ \E bits \in SUBSET CtrlBits : WriteCtrl(bits, t)
        \/ \E command \in Commands : WriteNocCommand(command, t)
    BY <1>2 DEF ClusterNext
  <2>1. unit \in Unit
    BY DEF ClusterTypeOK
  <2>2. TickUnit(unit) \in Unit /\ TickAction(unit) \in Commands \cup {"NONE"}
    BY <2>1, UnitTyped, WiresTyped
  <2>3. CASE NoWrite(t)
    BY <2>2, <2>3, NocTyped DEF NoWrite, Issue, ClusterTypeOK
  <2>4. ASSUME NEW mode \in Modes, WriteMode(mode, t) PROVE ClusterTypeOK'
    <3>1. unit' \in Unit
      BY <2>2, <2>4 DEF WriteMode, Unit
    <3> QED
      BY <2>2, <2>4, <3>1, NocTyped DEF WriteMode, Issue, ClusterTypeOK
  <2>5. ASSUME NEW bits \in SUBSET CtrlBits, WriteCtrl(bits, t) PROVE ClusterTypeOK'
    <3>1. unit' \in Unit
      BY <2>2, <2>5, UnitTyped DEF WriteCtrl
    <3>2. noc_command' \in Commands \cup {"NONE"} /\ spm_soft_reset' \in BOOLEAN
      BY <2>2, <2>5, WiresTyped DEF WriteCtrl, Issue
    <3> QED
      BY <2>5, <3>1, <3>2, NocTyped DEF WriteCtrl, ClusterTypeOK
  <2>6. ASSUME NEW command \in Commands, WriteNocCommand(command, t) PROVE ClusterTypeOK'
    <3>1. unit' \in Unit
      BY <2>2, <2>6, UnitTyped DEF WriteNocCommand
    <3> QED
      BY <2>2, <2>6, <3>1, NocTyped DEF WriteNocCommand, Issue, ClusterTypeOK
  <2> QED
    BY <2>3, <2>4, <2>5, <2>6
<1> QED
  BY <1>1, <1>2

\* The variables have their types in every reachable state: no queue exceeds its
\* bound, for any number of PEs, any depth and any start-up guard.
THEOREM Typing == ClusterSpec => []ClusterTypeOK
<1> QED
  BY TypingInit, TypingStep, PTL DEF ClusterSpec

-----------------------------------------------------------------------------
(* The substate.                                                           *)

\* SubstateAgrees of a unit.
Agrees(u) ==
  /\ u.substate = "IDLE" <=> ~(u.layer_active \/ u.stop_pending \/ u.soft_reset_pending)
  /\ u.substate = "RUNNING" <=> u.layer_active /\ ~u.stop_pending
  /\ u.substate = "WAIT_QUIESCED" => u.soft_reset_pending
  /\ u.done_sticky => ~(u.layer_active \/ u.stop_pending \/ u.soft_reset_pending)
  /\ u.soft_reset_pending => u.stop_pending

\* Every operation of the control unit keeps its substate in agreement with its
\* flags, in whatever order software uses them.
LEMMA OperationsAgree ==
  ASSUME NEW u \in Unit, Agrees(u)
  PROVE  /\ Agrees(TickUnit(u))
         /\ \A mode \in Modes : Agrees([u EXCEPT !.mode = mode])
         /\ \A bits \in SUBSET CtrlBits : Agrees(CtrlUnit(u, bits))
         /\ \A command \in Commands : Agrees(MirrorUnit(u, command))
<1>1. Agrees(Ended(u)) /\ Agrees(Started(u))
  BY DEF Agrees, Ended, Started, Enters, Unit
<1>2. Agrees(TickUnit(u))
  BY <1>1 DEF TickUnit
<1>3. \A mode \in Modes : Agrees([u EXCEPT !.mode = mode])
  BY DEF Agrees, Unit
<1>4. \A bits \in SUBSET CtrlBits : Agrees(CtrlUnit(u, bits))
  BY <1>1 DEF CtrlUnit, Agrees, Enters, Unit
<1>5. \A command \in Commands : Agrees(MirrorUnit(u, command))
  BY <1>1 DEF MirrorUnit, Agrees, Unit
<1> QED
  BY <1>2, <1>3, <1>4, <1>5

\* Every step keeps the agreement.
LEMMA AgreementStep == ClusterTypeOK /\ Agrees(unit) /\ [ClusterNext]_cluster_vars => Agrees(unit)'
<1> SUFFICES ASSUME ClusterTypeOK, Agrees(unit), [ClusterNext]_cluster_vars PROVE Agrees(unit')
  BY DEF Agrees
<1>1. CASE UNCHANGED cluster_vars
  BY <1>1 DEF cluster_vars
<1>2. CASE ClusterNext
  <2>1. unit \in Unit
    BY DEF ClusterTypeOK
  <2>2. TickUnit(unit) \in Unit /\ Agrees(TickUnit(unit))
    BY <2>1, UnitTyped, OperationsAgree
  <2>3. \/ unit' = TickUnit(unit)
        \/ \E mode \in Modes : unit' = [TickUnit(unit) EXCEPT !.mode = mode]
        \/ \E bits \in SUBSET CtrlBits : unit' = CtrlUnit(TickUnit(unit), bits)
        \/ \E command \in Commands : unit' = MirrorUnit(TickUnit(unit), command)
    BY <1>2 DEF ClusterNext, NoWrite, WriteMode, WriteCtrl, WriteNocCommand
  <2> QED
    BY <2>2, <2>3, OperationsAgree
<1> QED
  BY <1>1, <1>2

\* The substate that software reads agrees with what is active and pending, after
\* any mix of layer-managed and direct commands, for any set of PEs.
THEOREM Agreement == ClusterSpec => []SubstateAgrees
<1>1. ClusterInit => ClusterTypeOK /\ Agrees(unit)
  BY TypingInit DEF ClusterInit, Agrees
<1>2. Agrees(unit) => SubstateAgrees
  BY DEF Agrees, SubstateAgrees, busy
<1> QED
  BY <1>1, <1>2, TypingStep, AgreementStep, PTL DEF ClusterSpec

-----------------------------------------------------------------------------
(* The layers over the control unit.                                       *)

\* No command is on its way to the PE p.
PathEmpty(p) ==
  noc_command = "NONE" /\ router[p].pulse_reg = "NONE" /\ router[p].pulse = "NONE"

\* A START that is at one of the three places has nothing behind it, and has not
\* reached a PE that runs.
StartAlone(p) ==
  /\ noc_command = "START_PE" => ~pe[p].running
  /\ router[p].pulse_reg = "START_PE" => noc_command = "NONE" /\ ~pe[p].running
  /\ router[p].pulse = "START_PE" =>
       noc_command = "NONE" /\ router[p].pulse_reg = "NONE" /\ ~pe[p].running

NoStart(p) ==
  /\ noc_command # "START_PE"
  /\ router[p].pulse_reg # "START_PE" /\ router[p].pulse # "START_PE"

\* Nothing runs, nothing is left and nothing starts or stops.
Still ==
  /\ noc_command \notin {"STOP_PE", "START_PE"} /\ transit = 0
  /\ \A p \in PE : ~pe[p].running /\ ~router[p].running /\ drained(p) /\ NoStart(p)

\* The cluster is still between two layers.
BetweenLayers == layer_fw \in {"mode", "reset", "load", "start"} => Still

\* While a layer runs, its START finds an empty cluster, and every program that runs
\* has its START behind it.
InLayer ==
  layer_fw = "run" =>
    /\ noc_command \in {"NONE", "START_PE"}
    /\ noc_command = "START_PE" => sent = 0 /\ transit = 0
    /\ \A p \in PE :
         /\ StartAlone(p)
         /\ pe[p].running \/ p \in made => PathEmpty(p)
         /\ p \in made => taken[p] = Inputs
         /\ noc_command = "START_PE" => taken[p] = 0 /\ fifo[p].ingress = 0

\* While a layer is stopped all its work is done; the STOP finds every queue empty.
AtStop ==
  layer_fw = "stop" =>
    /\ noc_command \in {"NONE", "STOP_PE"} /\ transit = 0
    /\ noc_command = "STOP_PE" => unit.stop_pending
    /\ \A p \in PE : /\ drained(p) /\ p \in made /\ taken[p] = Inputs
                     /\ router[p].pulse_reg = "NONE" /\ router[p].pulse = "NONE"
                     /\ noc_command = "NONE" => ~router[p].running

\* The control unit under this firmware: a stop is pending in phase stop only.
UnitInPhase ==
  /\ ~unit.soft_reset_pending
  /\ unit.stop_pending => layer_fw = "stop"
  /\ layer_fw # "mode" => unit.mode = "LAYER_MANAGED"

\* A flush finds its queues empty, and no router is ever left to drain.
FlushesNothing ==
  /\ central_flush => transit = 0
  /\ \A p \in PE : /\ router[p].flush => central_flush /\ fifo[p].ingress = 0
                   /\ ~router[p].stop_pending

IInv ==
  /\ LayerTypeOK /\ NoInputLost
  /\ BetweenLayers /\ InLayer /\ AtStop /\ UnitInPhase /\ FlushesNothing

-----------------------------------------------------------------------------
(* What an edge does.                                                      *)

\* A step of the firmware is a step that ClusterControl allows any software.
LEMMA FirmwareIsSoftware == LayerNext => ClusterNext
<1> SUFFICES ASSUME NEW t \in LayerTraffic, Firmware(t) \/ Wait(t) PROVE ClusterNext
  BY DEF LayerNext
<1>1. t \in Traffic
  BY DEF LayerTraffic
<1>2. /\ "LAYER_MANAGED" \in Modes /\ {"START"} \in SUBSET CtrlBits
      /\ {"STOP"} \in SUBSET CtrlBits /\ "RESET" \in Commands /\ "LOAD_PROGRAM" \in Commands
  BY DEF Modes, CtrlBits, Commands
<1> QED
  BY <1>1, <1>2 DEF ClusterNext, Firmware, Wait, SetMode, ResetNoc, LoadProgram, StartLayer,
                    StopLayer, GoOn

\* Every step of the firmware is a clock edge for all the rest.
LEMMA EveryStepIsAnEdge ==
  ASSUME NEW t \in LayerTraffic, Firmware(t) \/ Wait(t)
  PROVE  NocEdge(t)
BY DEF Firmware, Wait, SetMode, ResetNoc, LoadProgram, StartLayer, StopLayer, GoOn,
       NoWrite, WriteMode, WriteCtrl, WriteNocCommand

\* A command moves one place at an edge; a STOP does not travel on to the PE.
LEMMA PathEdge ==
  ASSUME ClusterTypeOK, NEW t \in LayerTraffic, NocEdge(t), NEW p \in PE, ~router[p].stop_pending
  PROVE  /\ router'[p].pulse = router[p].pulse_reg
         /\ router'[p].pulse_reg = IF noc_command = "STOP_PE" THEN "NONE" ELSE noc_command
         /\ router'[p].flush = (noc_command = "START_PE")
         /\ noc_command = "STOP_PE" /\ drained(p) => ~router'[p].running
         /\ noc_command # "START_PE" /\ ~router[p].running => ~router'[p].running
         /\ noc_command # "STOP_PE" \/ drained(p) => ~router'[p].stop_pending
         /\ pe'[p].running => router[p].pulse = "START_PE" \/ pe[p].running
<1>1. router'[p] = RouterEdge(p) /\ pe'[p] = RunControlEdge(p, t.halts[p])
  BY DEF NocEdge
<1>2. /\ RouterEdge(p).pulse = router[p].pulse_reg
      /\ RouterEdge(p).pulse_reg = IF noc_command = "STOP_PE" THEN "NONE" ELSE noc_command
      /\ RouterEdge(p).flush = (noc_command = "START_PE")
  BY DEF RouterEdge, flushes
<1>3. /\ noc_command = "STOP_PE" /\ drained(p) => ~RouterEdge(p).running
      /\ noc_command # "START_PE" /\ ~router[p].running => ~RouterEdge(p).running
      /\ noc_command # "STOP_PE" \/ drained(p) => ~RouterEdge(p).stop_pending
  BY DEF RouterEdge
<1>4. RunControlEdge(p, t.halts[p]).running => router[p].pulse = "START_PE" \/ pe[p].running
  BY DEF RunControlEdge
<1> QED
  BY <1>1, <1>2, <1>3, <1>4

\* An edge moves inputs and outputs on and loses none.
LEMMA QueueEdge ==
  ASSUME LayerTypeOK, FlushesNothing, NEW t \in LayerTraffic, NocEdge(t)
  PROVE  /\ transit' = transit + One(t.arrive) - One(t.deliver)
         /\ t.deliver => transit > 0
         /\ t.arrive => layer_fw = "run" /\ ~flushing
         /\ \A p \in PE :
              /\ fifo'[p].ingress = fifo[p].ingress + One(t.deliver) - One(t.consume[p])
              /\ t.consume[p] => pe[p].running /\ fifo[p].ingress > 0 /\ taken[p] < Inputs
              /\ t.produce[p] => pe[p].running /\ taken[p] = Inputs /\ p \notin made
              /\ drained(p) /\ ~t.produce[p] => ~fifo'[p].plo /\ ~fifo'[p].resp
<1>1. /\ t.deliver => transit > 0
      /\ t.arrive => layer_fw = "run" /\ ~flushing
      /\ t.arrive \in BOOLEAN /\ t.deliver \in BOOLEAN
  BY DEF LayerTraffic, Traffic, Only
<1>2. transit \in Nat
  BY DEF LayerTypeOK, ClusterTypeOK
<1>3. transit' = transit + One(t.arrive) - One(t.deliver)
  BY <1>1, <1>2 DEF NocEdge, FlushesNothing, flushing, One
<1>4. ASSUME NEW p \in PE
      PROVE  /\ fifo'[p].ingress = fifo[p].ingress + One(t.deliver) - One(t.consume[p])
             /\ t.consume[p] => pe[p].running /\ fifo[p].ingress > 0 /\ taken[p] < Inputs
             /\ t.produce[p] => pe[p].running /\ taken[p] = Inputs /\ p \notin made
             /\ drained(p) /\ ~t.produce[p] => ~fifo'[p].plo /\ ~fifo'[p].resp
  <2>1. /\ t.consume[p] => pe[p].running /\ fifo[p].ingress > 0 /\ taken[p] < Inputs
        /\ t.produce[p] => pe[p].running /\ taken[p] = Inputs /\ p \notin made
        /\ t.collect[p] => fifo[p].plo
        /\ t.consume[p] \in BOOLEAN
    BY DEF LayerTraffic, Traffic, Only, executes
  <2>2. fifo'[p] = FifoEdge(p, t)
    BY DEF NocEdge
  <2>3. fifo[p].ingress \in Nat
    BY DEF LayerTypeOK, ClusterTypeOK, Fifos
  <2>4. /\ ~router[p].stop_pending
        /\ router[p].flush => fifo[p].ingress = 0 /\ ~t.deliver
    BY <1>1 DEF FlushesNothing
  <2>5. FifoEdge(p, t).ingress = fifo[p].ingress + One(t.deliver) - One(t.consume[p])
    BY <1>1, <2>1, <2>3, <2>4 DEF FifoEdge, accepts, One
  <2>6. drained(p) /\ ~t.produce[p] => ~FifoEdge(p, t).plo /\ ~FifoEdge(p, t).resp
    BY <2>1 DEF FifoEdge, drained, fifo_nonempty
  <2> QED
    BY <2>1, <2>2, <2>5, <2>6
<1> QED
  BY <1>1, <1>3, <1>4

\* The commands that a step leaves on the wires: the control unit asks for none of
\* its own, since no soft reset waits.
LEMMA WiresStep ==
  ASSUME UnitInPhase, NEW t \in LayerTraffic
  PROVE  /\ SetMode(t) \/ GoOn(t) \/ Wait(t) => noc_command' = "NONE"
         /\ ResetNoc(t) => noc_command' = "RESET"
         /\ LoadProgram(t) => noc_command' = "LOAD_PROGRAM"
         /\ StartLayer(t) => noc_command' = "START_PE"
         /\ StopLayer(t) => noc_command' = "STOP_PE" /\ unit'.stop_pending
<1>1. TickAction(unit) = "NONE"
  BY DEF UnitInPhase, TickAction
<1>2. SetMode(t) \/ GoOn(t) \/ Wait(t) => noc_command' = "NONE"
  BY <1>1 DEF SetMode, GoOn, Wait, NoWrite, WriteMode, Issue
<1>3. /\ ResetNoc(t) => noc_command' = "RESET"
      /\ LoadProgram(t) => noc_command' = "LOAD_PROGRAM"
  BY <1>1 DEF ResetNoc, LoadProgram, WriteNocCommand, Issue
<1>4. ASSUME StartLayer(t) PROVE noc_command' = "START_PE"
  <2>1. TickUnit(unit) = unit /\ unit.mode = "LAYER_MANAGED"
    BY <1>4 DEF StartLayer, UnitInPhase, TickUnit, TickEnds
  <2> QED
    BY <1>4, <2>1 DEF StartLayer, WriteCtrl, CtrlAction, Issue
<1>5. ASSUME StopLayer(t) PROVE noc_command' = "STOP_PE" /\ unit'.stop_pending
  <2>1. TickUnit(unit) = unit /\ unit.mode = "LAYER_MANAGED"
    BY <1>5 DEF StopLayer, UnitInPhase, TickUnit, TickEnds
  <2>2. CtrlUnit(unit, {"STOP"}).stop_pending
    BY <2>1 DEF CtrlUnit, Enters
  <2> QED
    BY <1>5, <2>1, <2>2 DEF StopLayer, WriteCtrl, CtrlAction, Issue
<1> QED
  BY <1>2, <1>3, <1>4, <1>5

-----------------------------------------------------------------------------
(* The invariant, part by part.                                            *)

LEMMA InitIInv == LayerInit => IInv
<1> SUFFICES ASSUME LayerInit PROVE IInv
  OBVIOUS
<1>1. ClusterTypeOK
  BY TypingInit DEF LayerInit
<1>2. LayerTypeOK
  BY <1>1, InputsAssumption DEF LayerInit, LayerTypeOK, LayerPhases
<1>3. NoInputLost /\ FlushesNothing
  BY DEF LayerInit, ClusterInit, NoInputLost, FlushesNothing
<1>4. BetweenLayers /\ InLayer /\ AtStop /\ UnitInPhase
  BY DEF LayerInit, ClusterInit, BetweenLayers, InLayer, AtStop, UnitInPhase, Still, drained,
         fifo_nonempty, NoStart
<1> QED
  BY <1>2, <1>3, <1>4 DEF IInv

\* A layer's counts keep their types.
LEMMA CountsStep ==
  ASSUME LayerTypeOK, FlushesNothing, NEW t \in LayerTraffic, Firmware(t) \/ Wait(t)
  PROVE  /\ layer_fw' \in LayerPhases /\ sent' \in 0 .. Inputs
         /\ taken' \in [PE -> 0 .. Inputs] /\ made' \subseteq PE
<1>1. layer_fw' \in LayerPhases
  BY DEF LayerTypeOK, LayerPhases, Firmware, Wait, SetMode, ResetNoc, LoadProgram, StartLayer,
         StopLayer, GoOn
<1>2. \/ LayerProgress(t)
      \/ sent' = 0 /\ taken' = [p \in PE |-> 0] /\ made' = {}
  BY DEF Firmware, Wait, SetMode, ResetNoc, LoadProgram, StartLayer, StopLayer, GoOn
<1>3. CASE LayerProgress(t)
  <2>1. /\ t.arrive \in BOOLEAN /\ t.arrive => sent < Inputs
        /\ \A p \in PE : t.consume[p] \in BOOLEAN /\ (t.consume[p] => taken[p] < Inputs)
    BY DEF LayerTraffic, Traffic, Only
  <2>2. sent' \in 0 .. Inputs
    <3>1. sent' = sent + One(t.arrive) /\ sent \in 0 .. Inputs
      BY <1>3 DEF LayerProgress, LayerTypeOK
    <3>2. CASE t.arrive
      BY <2>1, <3>1, <3>2, InputsAssumption DEF One
    <3>3. CASE ~t.arrive
      BY <3>1, <3>3, InputsAssumption DEF One
    <3> QED
      BY <3>2, <3>3
  <2>3. ASSUME NEW p \in PE PROVE taken[p] + One(t.consume[p]) \in 0 .. Inputs
    BY <2>1, InputsAssumption DEF LayerTypeOK, One
  <2> QED
    BY <1>1, <1>3, <2>2, <2>3 DEF LayerProgress, LayerTypeOK
<1>4. CASE sent' = 0 /\ taken' = [p \in PE |-> 0] /\ made' = {}
  BY <1>1, <1>4, InputsAssumption
<1> QED
  BY <1>2, <1>3, <1>4

\* No input is lost or repeated by an edge: it is sent, delivered or taken, and a layer
\* starts with none under way.
LEMMA NoInputLostStep ==
  ASSUME IInv, NEW t \in LayerTraffic, Firmware(t) \/ Wait(t)
  PROVE  NoInputLost'
<1> SUFFICES ASSUME NEW p \in PE
             PROVE  taken'[p] + fifo'[p].ingress + transit' = sent'
  BY DEF NoInputLost
<1>1. NocEdge(t)
  BY EveryStepIsAnEdge
<1>2. /\ transit' = transit + One(t.arrive) - One(t.deliver)
      /\ t.deliver => transit > 0
      /\ t.arrive => layer_fw = "run"
      /\ fifo'[p].ingress = fifo[p].ingress + One(t.deliver) - One(t.consume[p])
      /\ t.consume[p] => fifo[p].ingress > 0
  BY <1>1, QueueEdge DEF IInv
<1>3. /\ taken[p] \in Nat /\ fifo[p].ingress \in Nat /\ transit \in Nat /\ sent \in Nat
      /\ taken[p] + fifo[p].ingress + transit = sent
  BY InputsAssumption DEF IInv, LayerTypeOK, ClusterTypeOK, Fifos, NoInputLost
<1>4. One(t.arrive) \in 0 .. 1 /\ One(t.deliver) \in 0 .. 1 /\ One(t.consume[p]) \in 0 .. 1
  BY DEF One
<1>5. CASE LayerProgress(t)
  <2>1. sent' = sent + One(t.arrive) /\ taken'[p] = taken[p] + One(t.consume[p])
    BY <1>5 DEF LayerProgress
  <2> QED
    BY <1>2, <1>3, <1>4, <2>1
<1>6. CASE StartLayer(t)
  <2>1. layer_fw = "start" /\ transit = 0 /\ fifo[p].ingress = 0
    <3>1. layer_fw = "start"
      BY <1>6 DEF StartLayer
    <3> QED
      BY <3>1, <1>3 DEF IInv, BetweenLayers, Still, drained, fifo_nonempty
  <2>2. ~t.arrive /\ ~t.deliver /\ ~t.consume[p]
    BY <1>2, <2>1
  <2>3. sent' = 0 /\ taken'[p] = 0
    BY <1>6 DEF StartLayer
  <2> QED
    BY <1>2, <2>1, <2>2, <2>3 DEF One
<1> QED
  BY <1>5, <1>6 DEF Firmware, Wait, SetMode, ResetNoc, LoadProgram, StopLayer, GoOn

\* The control unit leaves its phases only with the firmware.
LEMMA UnitStep ==
  ASSUME IInv, NEW t \in LayerTraffic, Firmware(t) \/ Wait(t)
  PROVE  UnitInPhase'
<1> DEFINE u == TickUnit(unit)
<1>1. unit \in Unit /\ u \in Unit
  BY UnitTyped DEF IInv, LayerTypeOK, ClusterTypeOK
<1>2. /\ ~u.soft_reset_pending
      /\ u.stop_pending => unit.stop_pending
      /\ u.mode = unit.mode
      /\ ~unit.stop_pending => u = unit
  BY <1>1 DEF IInv, UnitInPhase, TickUnit, TickEnds, Ended, Enters, Unit
<1> HIDE DEF u
<1>3. CASE SetMode(t)
  <2>1. unit' = [u EXCEPT !.mode = "LAYER_MANAGED"] /\ layer_fw = "mode"
    BY <1>3 DEF SetMode, WriteMode, u
  <2>2. /\ unit'.mode = "LAYER_MANAGED" /\ unit'.stop_pending = u.stop_pending
        /\ unit'.soft_reset_pending = u.soft_reset_pending
    BY <1>1, <2>1 DEF Unit
  <2> QED
    BY <1>2, <2>1, <2>2 DEF IInv, UnitInPhase
<1>4. CASE GoOn(t) \/ Wait(t)
  <2>1. unit' = u /\ (layer_fw' = layer_fw \/ (layer_fw = "stop" /\ ~unit.stop_pending))
    BY <1>4 DEF GoOn, Wait, NoWrite, u, status_quiesced, busy
  <2> QED
    BY <1>2, <2>1 DEF IInv, UnitInPhase
<1>5. CASE ResetNoc(t)
  <2>1. unit' = MirrorUnit(u, "RESET") /\ layer_fw = "reset"
    BY <1>5 DEF ResetNoc, WriteNocCommand, u
  <2>2. /\ unit'.mode = u.mode /\ ~unit'.stop_pending /\ ~unit'.soft_reset_pending
    BY <1>1, <2>1 DEF MirrorUnit, Ended, Enters, Unit
  <2> QED
    BY <1>2, <2>1, <2>2 DEF IInv, UnitInPhase
<1>6. CASE LoadProgram(t)
  <2>1. unit' = u /\ layer_fw = "load"
    BY <1>6 DEF LoadProgram, WriteNocCommand, MirrorUnit, u
  <2> QED
    BY <1>2, <2>1 DEF IInv, UnitInPhase
<1>7. CASE StartLayer(t)
  <2>1. unit' = CtrlUnit(u, {"START"}) /\ layer_fw = "start"
    BY <1>7 DEF StartLayer, WriteCtrl, u
  <2>2. unit'.mode = u.mode /\ ~unit'.stop_pending /\ ~unit'.soft_reset_pending
    BY <1>1, <1>2, <2>1 DEF CtrlUnit, Started, Enters, Unit, IInv, UnitInPhase
  <2> QED
    BY <1>2, <2>1, <2>2 DEF IInv, UnitInPhase
<1>8. CASE StopLayer(t)
  <2>1. unit' = CtrlUnit(u, {"STOP"}) /\ layer_fw = "run" /\ layer_fw' = "stop"
    BY <1>8 DEF StopLayer, WriteCtrl, u
  <2>2. unit'.mode = u.mode /\ ~unit'.soft_reset_pending
    BY <1>1, <1>2, <2>1 DEF CtrlUnit, Enters, Unit
  <2> QED
    BY <1>2, <2>1, <2>2 DEF IInv, UnitInPhase
<1> QED
  BY <1>3, <1>4, <1>5, <1>6, <1>7, <1>8 DEF Firmware

\* A START is flushed into empty queues, and a STOP finds its router drained.
LEMMA FlushStep ==
  ASSUME IInv, NEW t \in LayerTraffic, Firmware(t) \/ Wait(t)
  PROVE  FlushesNothing'
<1>1. NocEdge(t)
  BY EveryStepIsAnEdge
<1>2. /\ transit' = transit + One(t.arrive) - One(t.deliver)
      /\ t.deliver => transit > 0
      /\ t.arrive => ~flushing
  BY <1>1, QueueEdge DEF IInv
<1>3. central_flush' = (noc_command = "START_PE")
  BY <1>1 DEF NocEdge
<1>4. layer_fw \in LayerPhases
  BY DEF IInv, LayerTypeOK
<1>5. noc_command = "START_PE" /\ (\E p \in PE : TRUE) => layer_fw = "run" /\ transit = 0
  BY <1>4 DEF IInv, BetweenLayers, Still, NoStart, InLayer, AtStop, LayerPhases
<1>6. noc_command = "STOP_PE" => layer_fw = "stop"
  BY <1>4 DEF IInv, BetweenLayers, Still, InLayer, LayerPhases
<1>7. central_flush' => transit' = 0
  <2>1. CASE noc_command = "START_PE"
    <3>1. transit = 0 /\ ~t.deliver /\ ~t.arrive
      BY <1>2, <1>5, <2>1, PEsAssumption DEF flushing
    <3> QED
      BY <1>2, <3>1 DEF One
  <2> QED
    BY <1>3, <2>1
<1>8. ASSUME NEW p \in PE
      PROVE  /\ router'[p].flush => central_flush' /\ fifo'[p].ingress = 0
             /\ ~router'[p].stop_pending
  <2>1. /\ router'[p].flush = (noc_command = "START_PE")
        /\ noc_command # "STOP_PE" \/ drained(p) => ~router'[p].stop_pending
    BY <1>1, PathEdge DEF IInv, FlushesNothing, LayerTypeOK
  <2>2. noc_command = "STOP_PE" => drained(p)
    BY <1>6 DEF IInv, AtStop
  <2>3. noc_command = "START_PE" => fifo[p].ingress = 0 /\ transit = 0
    BY <1>5 DEF IInv, InLayer
  <2>4. /\ fifo'[p].ingress = fifo[p].ingress + One(t.deliver) - One(t.consume[p])
        /\ t.consume[p] => fifo[p].ingress > 0
    BY <1>1, QueueEdge DEF IInv
  <2>5. CASE noc_command = "START_PE"
    <3>1. fifo[p].ingress = 0 /\ ~t.deliver /\ ~t.consume[p]
      BY <1>2, <2>3, <2>4, <2>5
    <3>2. fifo'[p].ingress = 0
      BY <2>4, <3>1 DEF One
    <3> QED
      BY <1>3, <2>1, <2>5, <3>2
  <2>6. CASE noc_command # "START_PE"
    BY <2>1, <2>2, <2>6
  <2> QED
    BY <2>5, <2>6
<1> QED
  BY <1>7, <1>8 DEF FlushesNothing

\* A still cluster stays still at an edge that neither starts nor stops it.
LEMMA StillEdge ==
  ASSUME IInv, Still, NEW t \in LayerTraffic, NocEdge(t), layer_fw # "run"
  PROVE  /\ transit' = 0
         /\ \A p \in PE :
              /\ ~pe'[p].running /\ ~router'[p].running
              /\ fifo'[p].ingress = 0 /\ ~fifo'[p].plo /\ ~fifo'[p].resp
              /\ router'[p].pulse_reg # "START_PE" /\ router'[p].pulse # "START_PE"
<1>1. /\ transit = 0 /\ ~t.deliver /\ ~t.arrive
      /\ transit' = transit + One(t.arrive) - One(t.deliver)
  BY QueueEdge DEF IInv, Still
<1>2. transit' = 0
  BY <1>1 DEF One
<1>3. ASSUME NEW p \in PE
      PROVE  /\ ~pe'[p].running /\ ~router'[p].running
             /\ fifo'[p].ingress = 0 /\ ~fifo'[p].plo /\ ~fifo'[p].resp
             /\ router'[p].pulse_reg # "START_PE" /\ router'[p].pulse # "START_PE"
  <2>1. /\ ~pe[p].running /\ ~router[p].running /\ drained(p) /\ NoStart(p)
        /\ ~router[p].stop_pending /\ ClusterTypeOK
    BY DEF IInv, Still, FlushesNothing, LayerTypeOK
  <2>2. /\ ~pe'[p].running /\ ~router'[p].running
        /\ router'[p].pulse_reg # "START_PE" /\ router'[p].pulse # "START_PE"
    BY <2>1, PathEdge DEF NoStart
  <2>3. /\ fifo'[p].ingress = fifo[p].ingress + One(t.deliver) - One(t.consume[p])
        /\ ~t.consume[p] /\ ~t.produce[p]
        /\ ~fifo'[p].plo /\ ~fifo'[p].resp
    BY <2>1, QueueEdge DEF IInv
  <2>4. fifo[p].ingress = 0
    BY <2>1 DEF drained, fifo_nonempty, IInv, LayerTypeOK, ClusterTypeOK, Fifos
  <2>5. fifo'[p].ingress = 0
    BY <1>1, <2>3, <2>4 DEF One
  <2> QED
    BY <2>2, <2>3, <2>5
<1> QED
  BY <1>2, <1>3

\* The barrier: when the firmware reads QUIESCED after its STOP, the cluster is still.
LEMMA QuiescedIsStill == IInv /\ layer_fw = "stop" /\ status_quiesced => Still
<1> SUFFICES ASSUME IInv, layer_fw = "stop", status_quiesced PROVE Still
  OBVIOUS
<1>1. noc_command = "NONE" /\ transit = 0
  BY DEF IInv, AtStop, status_quiesced, busy
<1>2. ASSUME NEW p \in PE
      PROVE  ~pe[p].running /\ ~router[p].running /\ drained(p) /\ NoStart(p)
  BY <1>1 DEF IInv, AtStop, status_quiesced, noc_is_quiesced, pe_halted, NoStart
<1> QED
  BY <1>1, <1>2 DEF Still

\* Between two layers the cluster stays still.
LEMMA BetweenStep ==
  ASSUME IInv, NEW t \in LayerTraffic, Firmware(t) \/ Wait(t)
  PROVE  BetweenLayers'
<1> SUFFICES ASSUME layer_fw' \in {"mode", "reset", "load", "start"} PROVE Still'
  BY DEF BetweenLayers
<1>1. Still /\ layer_fw # "run"
  <2>1. CASE GoOn(t)
    BY <2>1, QuiescedIsStill DEF GoOn
  <2>2. CASE SetMode(t) \/ ResetNoc(t) \/ LoadProgram(t) \/ Wait(t)
    BY <2>2 DEF SetMode, ResetNoc, LoadProgram, Wait, IInv, BetweenLayers
  <2> QED
    BY <2>1, <2>2 DEF Firmware, StartLayer, StopLayer
<1>2. noc_command' \in {"NONE", "RESET", "LOAD_PROGRAM"}
  <2>1. ~StartLayer(t) /\ ~StopLayer(t)
    BY DEF StartLayer, StopLayer
  <2> QED
    BY <2>1, WiresStep DEF IInv, Firmware
<1>3. NocEdge(t)
  BY EveryStepIsAnEdge
<1> QED
  BY <1>1, <1>2, <1>3, StillEdge DEF Still, NoStart, drained, fifo_nonempty

\* A START begins in a still cluster, and what runs has its START behind it.
LEMMA InLayerStep ==
  ASSUME IInv, NEW t \in LayerTraffic, Firmware(t) \/ Wait(t)
  PROVE  InLayer'
<1> SUFFICES ASSUME layer_fw' = "run" PROVE InLayer'
  BY DEF InLayer
<1>1. NocEdge(t)
  BY EveryStepIsAnEdge
<1>2. CASE StartLayer(t)
  <2>1. Still /\ layer_fw # "run"
    BY <1>2 DEF StartLayer, IInv, BetweenLayers
  <2>2. noc_command' = "START_PE"
    BY <1>2, WiresStep DEF IInv
  <2>3. sent' = 0 /\ made' = {} /\ \A p \in PE : taken'[p] = 0
    BY <1>2 DEF StartLayer
  <2> QED
    BY <1>1, <2>1, <2>2, <2>3, StillEdge DEF InLayer, StartAlone
<1>3. CASE Wait(t) /\ layer_fw = "run"
  <2>1. noc_command' = "NONE" /\ LayerProgress(t)
    BY <1>3, WiresStep DEF IInv, Wait
  <2>2. ASSUME NEW p \in PE
        PROVE  /\ StartAlone(p)'
               /\ pe'[p].running \/ p \in made' => PathEmpty(p)'
               /\ p \in made' => taken'[p] = Inputs
    <3>1. /\ router'[p].pulse = router[p].pulse_reg
          /\ router'[p].pulse_reg = IF noc_command = "STOP_PE" THEN "NONE" ELSE noc_command
          /\ pe'[p].running => router[p].pulse = "START_PE" \/ pe[p].running
      BY <1>1, PathEdge DEF IInv, FlushesNothing, LayerTypeOK
    <3>2. /\ t.produce[p] => pe[p].running /\ taken[p] = Inputs
          /\ t.consume[p] => taken[p] < Inputs
          /\ taken[p] \in 0 .. Inputs
      BY <1>1, QueueEdge DEF IInv, LayerTypeOK
    <3>3. /\ taken'[p] = taken[p] + One(t.consume[p])
          /\ p \in made' => p \in made \/ t.produce[p]
      BY <2>1 DEF LayerProgress
    <3>4. /\ StartAlone(p)
          /\ pe[p].running \/ p \in made => PathEmpty(p)
          /\ p \in made => taken[p] = Inputs
      BY <1>3 DEF IInv, InLayer
    <3>5. StartAlone(p)'
      BY <2>1, <3>1, <3>4 DEF StartAlone, PathEmpty
    <3>6. pe'[p].running \/ p \in made' => PathEmpty(p)'
      BY <2>1, <3>1, <3>2, <3>3, <3>4 DEF StartAlone, PathEmpty
    <3>7. ASSUME p \in made' PROVE taken'[p] = Inputs
      <4>1. taken[p] = Inputs
        BY <3>2, <3>3, <3>4, <3>7
      <4>2. ~t.consume[p]
        BY <3>2, <4>1, InputsAssumption
      <4> QED
        BY <3>3, <4>1, <4>2, InputsAssumption DEF One
    <3> QED
      BY <3>5, <3>6, <3>7
  <2> QED
    BY <2>1, <2>2 DEF InLayer
<1> QED
  BY <1>2, <1>3 DEF Firmware, Wait, SetMode, ResetNoc, LoadProgram, StopLayer, GoOn

\* A layer is stopped when all is done; the STOP ends the routers at its first edge.
LEMMA AtStopStep ==
  ASSUME IInv, NEW t \in LayerTraffic, Firmware(t) \/ Wait(t)
  PROVE  AtStop'
<1> SUFFICES ASSUME layer_fw' = "stop" PROVE AtStop'
  BY DEF AtStop
<1>1. NocEdge(t)
  BY EveryStepIsAnEdge
<1>2. \/ StopLayer(t) /\ layer_fw = "run" /\ hddu_done
      \/ Wait(t) /\ layer_fw = "stop"
  BY DEF Firmware, Wait, SetMode, ResetNoc, LoadProgram, StartLayer, StopLayer, GoOn
<1>3. LayerProgress(t)
  BY <1>2 DEF StopLayer, Wait
<1>4. /\ transit = 0
      /\ \A p \in PE : /\ drained(p) /\ p \in made /\ taken[p] = Inputs
                       /\ router[p].pulse_reg = "NONE" /\ router[p].pulse = "NONE"
  <2>1. CASE layer_fw = "stop"
    BY <2>1 DEF IInv, AtStop
  <2>2. CASE layer_fw = "run" /\ hddu_done
    <3>1. \A p \in PE : /\ p \in made /\ taken[p] = Inputs /\ PathEmpty(p)
                        /\ ~fifo[p].plo /\ ~fifo[p].resp
      BY <2>2 DEF hddu_done, IInv, InLayer
    <3>2. \A p \in PE : fifo[p].ingress = 0 /\ transit = 0
      BY <2>2, <3>1, InputsAssumption
         DEF hddu_done, IInv, NoInputLost, LayerTypeOK, ClusterTypeOK, Fifos
    <3> QED
      BY <3>1, <3>2, PEsAssumption DEF PathEmpty, drained, fifo_nonempty
  <2> QED
    BY <1>2, <2>1, <2>2
<1>5. /\ transit' = transit + One(t.arrive) - One(t.deliver)
      /\ ~t.deliver /\ ~t.arrive
  <2>1. t.arrive => layer_fw = "run" /\ sent < Inputs
    BY DEF LayerTraffic
  <2>2. ~(sent < Inputs) \/ layer_fw = "stop"
    BY <1>2, InputsAssumption DEF hddu_done
  <2> QED
    BY <1>1, <1>2, <1>4, <2>1, <2>2, QueueEdge DEF IInv
<1>6. transit' = 0
  BY <1>4, <1>5 DEF One
<1>7. /\ noc_command' \in {"NONE", "STOP_PE"}
      /\ noc_command' = "STOP_PE" => unit'.stop_pending
      /\ noc_command' = "NONE" => Wait(t) /\ layer_fw = "stop"
  BY <1>2, WiresStep DEF IInv
<1>8. noc_command \in {"NONE", "STOP_PE"}
  BY <1>2, <1>4, PEsAssumption DEF IInv, AtStop, InLayer, PathEmpty
<1>9. ASSUME NEW p \in PE
      PROVE  /\ drained(p)' /\ p \in made' /\ taken'[p] = Inputs
             /\ router'[p].pulse_reg = "NONE" /\ router'[p].pulse = "NONE"
             /\ noc_command' = "NONE" => ~router'[p].running
  <2>1. /\ ~t.consume[p] /\ ~t.produce[p]
        /\ fifo'[p].ingress = fifo[p].ingress + One(t.deliver) - One(t.consume[p])
        /\ ~fifo'[p].plo /\ ~fifo'[p].resp
    BY <1>1, <1>4, InputsAssumption, QueueEdge DEF IInv
  <2>2. fifo[p].ingress = 0
    BY <1>4 DEF drained, fifo_nonempty, IInv, LayerTypeOK, ClusterTypeOK, Fifos
  <2>3. drained(p)'
    BY <1>5, <2>1, <2>2 DEF drained, fifo_nonempty, One
  <2>4. p \in made' /\ taken'[p] = Inputs
    BY <1>3, <1>4, <2>1, InputsAssumption DEF LayerProgress, One
  <2>5. /\ router'[p].pulse_reg = "NONE" /\ router'[p].pulse = "NONE"
        /\ noc_command = "STOP_PE" => ~router'[p].running
        /\ noc_command = "NONE" /\ ~router[p].running => ~router'[p].running
    BY <1>1, <1>4, <1>8, PathEdge DEF IInv, FlushesNothing, LayerTypeOK
  <2>6. noc_command' = "NONE" => ~router'[p].running
    BY <1>7, <1>8, <2>5 DEF IInv, AtStop
  <2> QED
    BY <2>3, <2>4, <2>5, <2>6
<1> QED
  BY <1>6, <1>7, <1>9 DEF AtStop

\* Every step of the firmware keeps the invariant.
LEMMA IInvStep == IInv /\ [LayerNext]_layer_vars => IInv'
<1> SUFFICES ASSUME IInv, [LayerNext]_layer_vars PROVE IInv'
  OBVIOUS
<1>1. CASE UNCHANGED layer_vars
  BY <1>1 DEF layer_vars, cluster_vars, layer, IInv, LayerTypeOK, ClusterTypeOK, NoInputLost,
              BetweenLayers, Still,
              InLayer, AtStop, UnitInPhase, FlushesNothing, drained, fifo_nonempty, NoStart,
              StartAlone, PathEmpty
<1>2. CASE LayerNext
  <2>1. PICK t \in LayerTraffic : Firmware(t) \/ Wait(t)
    BY <1>2 DEF LayerNext
  <2>2. LayerTypeOK'
    BY <1>2, <2>1, FirmwareIsSoftware, TypingStep, CountsStep DEF IInv, LayerTypeOK
  <2> QED
    BY <2>1, <2>2, NoInputLostStep, BetweenStep, InLayerStep, AtStopStep, UnitStep, FlushStep
       DEF IInv
<1> QED
  BY <1>1, <1>2

-----------------------------------------------------------------------------
(* Theorems.                                                               *)

\* The invariant holds in every state the firmware reaches.
LEMMA AlwaysIInv == LayerSpec => []IInv
<1> QED
  BY InitIInv, IInvStep, PTL DEF LayerSpec

\* The types of the firmware's layer, and of the cluster under it.
THEOREM LayerTyping == LayerSpec => []LayerTypeOK
<1>1. IInv => LayerTypeOK
  BY DEF IInv
<1> QED
  BY <1>1, AlwaysIInv, PTL

\* QUIESCED after a STOP means that nothing runs and that no command is on its way,
\* for any number of PEs, inputs and any depth of the queues.
THEOREM StopIsABarrier == LayerSpec => []StoppedMeansStill
<1>1. IInv => StoppedMeansStill
  <2> SUFFICES ASSUME IInv, layer_fw = "stop", status_quiesced
               PROVE  /\ transit = 0
                      /\ \A p \in PE : /\ pe_halted(p) /\ drained(p) /\ ~router[p].running
                                       /\ router[p].pulse_reg = "NONE"
                                       /\ router[p].pulse = "NONE"
    BY DEF StoppedMeansStill
  <2> QED
    BY QuiescedIsStill DEF IInv, AtStop, Still, status_quiesced, noc_is_quiesced
<1> QED
  BY <1>1, AlwaysIInv, PTL

\* No START, RESET or program load reaches a PE that still runs its program.
THEOREM NothingInterrupts == LayerSpec => []NeverInterrupted
<1>1. IInv => NeverInterrupted
  <2> SUFFICES ASSUME IInv, NEW p \in PE, pe[p].running,
                      router[p].pulse \in {"START_PE", "RESET", "LOAD_PROGRAM"}
               PROVE  FALSE
    BY DEF NeverInterrupted
  <2>1. layer_fw \in LayerPhases
    BY DEF IInv, LayerTypeOK
  <2> QED
    BY <2>1 DEF IInv, LayerPhases, BetweenLayers, Still, InLayer, AtStop, PathEmpty
<1> QED
  BY <1>1, AlwaysIInv, PTL

\* Every input that is sent is taken once by every program, or still on its way to it.
THEOREM EveryInputArrives == LayerSpec => []NoInputLost
<1>1. IInv => NoInputLost
  BY DEF IInv
<1> QED
  BY <1>1, AlwaysIInv, PTL
=============================================================================
