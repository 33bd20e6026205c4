------------------------------ MODULE MCSoftware ------------------------------
(***************************************************************************)
(* TLC instance of the four programs, each beside the hardware it drives:  *)
(* the host's boot, the interrupt handler, the layer loop and the wave     *)
(* loop.  They share no state, so one of them runs in a behaviour, and the *)
(* others keep their initial states.                                       *)
(***************************************************************************)
EXTENDS MCBoot, PlicFirmware, LayerFirmware, HdduFirmware

VARIABLE part   \* the program that runs

Parts == {"boot", "handler", "layer", "wave"}

SoftwareInit ==
  /\ part \in Parts
  /\ Init /\ FwInit /\ LayerInit /\ WaveInit
  /\ part # "boot" => manifest.entries = <<>>
  /\ part # "wave" => \A p \in Planes : agu[p].total = MaxTotal

BootStep == part = "boot" /\ Next /\ UNCHANGED <<fvars, layer_vars, wave_vars>>
HandlerStep == part = "handler" /\ FwNext /\ UNCHANGED <<vars, layer_vars, wave_vars>>
LayerStep == part = "layer" /\ LayerNext /\ UNCHANGED <<vars, fvars, wave_vars>>
WaveStep == part = "wave" /\ WaveNext /\ UNCHANGED <<vars, fvars, layer_vars>>

SoftwareNext ==
  (BootStep \/ HandlerStep \/ LayerStep \/ WaveStep) /\ UNCHANGED part

\* The fairness of the program that runs.
SoftwareFairness ==
  \/ part = "boot" /\ BootFairness
  \/ part = "handler" /\ FwFairness
  \/ part = "layer" /\ LayerFairness
  \/ part = "wave" /\ WaveFairness

SoftwareSpec ==
  /\ SoftwareInit /\ [][SoftwareNext]_<<part, vars, fvars, layer_vars, wave_vars>>
  /\ SoftwareFairness
=============================================================================
