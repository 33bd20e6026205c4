---------------------------- MODULE LayerFirmware ----------------------------
(***************************************************************************)
(* ClusterControl under the generated firmware (firmware_ops.c.j2): it     *)
(* resets the NoC and loads the program directly, starts and stops the     *)
(* layer through the CLUSTER registers, and goes on to the next layer, or  *)
(* to the next wave, when the cluster says QUIESCED.                       *)
(*                                                                         *)
(* A PE program takes all the inputs of the layer, then gives its output,  *)
(* then halts.  The delivery unit is external here: it sends the inputs,   *)
(* takes the outputs, and is DONE when both are over.  Its first input     *)
(* arrives after the flush of a START is over: between START and the first *)
(* request it needs the AGU pipeline, a scratchpad read and a queue.       *)
(***************************************************************************)
EXTENDS ClusterControl

CONSTANT Inputs   \* what a layer sends to every PE

ASSUME InputsAssumption == Inputs \in Nat
ASSUME PEsAssumption == PE # {}

VARIABLES
  layer_fw,   \* the next thing the firmware does
  sent,       \* inputs sent in this layer
  taken,      \* inputs each program has taken
  made        \* the programs that have given their output

layer == <<layer_fw, sent, taken, made>>

layer_vars == <<cluster_vars, layer>>

LayerPhases == {"mode", "reset", "load", "start", "run", "stop"}

LayerInit ==
  ClusterInit /\ layer_fw = "mode" /\ sent = 0 /\ taken = [p \in PE |-> 0] /\ made = {}

flushing == central_flush \/ noc_command = "START_PE" \/ \E p \in PE : router[p].flush

\* What the delivery unit and the programs do.
LayerTraffic ==
  {t \in Traffic :
     /\ t.arrive => layer_fw = "run" /\ sent < Inputs /\ ~flushing
     /\ \A p \in PE : /\ t.consume[p] => taken[p] < Inputs
                      /\ t.produce[p] => taken[p] = Inputs /\ p \notin made
                      /\ t.halts[p] => p \in made}

hddu_done == sent = Inputs /\ \A p \in PE : p \in made /\ ~fifo[p].plo /\ ~fifo[p].resp

LayerProgress(t) ==
  /\ sent' = sent + One(t.arrive)
  /\ taken' = [p \in PE |-> taken[p] + One(t.consume[p])]
  /\ made' = made \cup {p \in PE : t.produce[p]}

SetMode(t) ==
  layer_fw = "mode" /\ layer_fw' = "reset" /\ WriteMode("LAYER_MANAGED", t) /\ LayerProgress(t)

ResetNoc(t) ==
  layer_fw = "reset" /\ layer_fw' = "load" /\ WriteNocCommand("RESET", t) /\ LayerProgress(t)

LoadProgram(t) ==
  layer_fw = "load" /\ layer_fw' = "start" /\ WriteNocCommand("LOAD_PROGRAM", t) /\ LayerProgress(t)

StartLayer(t) ==
  /\ layer_fw = "start" /\ layer_fw' = "run" /\ WriteCtrl({"START"}, t)
  /\ sent' = 0 /\ taken' = [p \in PE |-> 0] /\ made' = {}

StopLayer(t) ==
  layer_fw = "run" /\ hddu_done /\ layer_fw' = "stop" /\ WriteCtrl({"STOP"}, t) /\ LayerProgress(t)

\* The firmware reads QUIESCED: the next layer, or the next wave of this one.
GoOn(t) ==
  /\ layer_fw = "stop" /\ status_quiesced /\ layer_fw' \in {"mode", "start"}
  /\ NoWrite(t) /\ LayerProgress(t)

\* Any number of edges pass between two writes.
Wait(t) == layer_fw' = layer_fw /\ NoWrite(t) /\ LayerProgress(t)

Firmware(t) ==
  SetMode(t) \/ ResetNoc(t) \/ LoadProgram(t) \/ StartLayer(t) \/ StopLayer(t) \/ GoOn(t)

LayerNext == \E t \in LayerTraffic : Firmware(t) \/ Wait(t)

LayerSpec == LayerInit /\ [][LayerNext]_layer_vars

\* The clock ticks, the firmware goes on, the delivery unit sends and takes, and a
\* program does what it can do.
LayerFairness ==
  /\ WF_layer_vars(\E t \in LayerTraffic : Firmware(t))
  /\ WF_layer_vars(\E t \in LayerTraffic : Wait(t))
  /\ WF_layer_vars(\E t \in LayerTraffic : t.arrive /\ Wait(t))
  /\ \A p \in PE :
       /\ WF_layer_vars(\E t \in LayerTraffic : t.consume[p] /\ Wait(t))
       /\ WF_layer_vars(\E t \in LayerTraffic : t.produce[p] /\ Wait(t))
       /\ WF_layer_vars(\E t \in LayerTraffic : t.collect[p] /\ Wait(t))
       /\ WF_layer_vars(\E t \in LayerTraffic : t.answer[p] /\ Wait(t))
       /\ WF_layer_vars(\E t \in LayerTraffic : t.halts[p] /\ Wait(t))

FairLayerSpec == LayerSpec /\ LayerFairness

-----------------------------------------------------------------------------
(* Properties.                                                             *)

\* Types of the firmware's layer and of the cluster under it.
LayerTypeOK ==
  /\ ClusterTypeOK
  /\ layer_fw \in LayerPhases /\ sent \in 0 .. Inputs
  /\ taken \in [PE -> 0 .. Inputs] /\ made \subseteq PE

\* When the firmware reads QUIESCED after a STOP, the layer is really over: no PE
\* runs, no router runs, no command is on its way to a PE and no data is left, so
\* the next layer may reset the NoC, rewrite the programs and start.
StoppedMeansStill ==
  layer_fw = "stop" /\ status_quiesced =>
    /\ transit = 0
    /\ \A p \in PE : /\ pe_halted(p) /\ drained(p) /\ ~router[p].running
                     /\ router[p].pulse_reg = "NONE" /\ router[p].pulse = "NONE"

\* A START or a RESET never reaches a PE whose program still runs: the quiesced
\* barrier is enough although the command travels for three edges.
NeverInterrupted ==
  \A p \in PE : router[p].pulse \in {"START_PE", "RESET", "LOAD_PROGRAM"} => ~pe[p].running

\* Every input sent to a layer is taken by every program once, or still on its way
\* to it: no flush, stop or start on the command path loses or repeats one.
NoInputLost ==
  \A p \in PE : taken[p] + fifo[p].ingress + transit = sent

\* A layer that is started ends: its programs run, it can be stopped, and the
\* firmware reads QUIESCED.
LayerEnds == layer_fw = "run" ~> layer_fw = "stop" /\ status_quiesced
=============================================================================
