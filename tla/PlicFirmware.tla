---------------------------- MODULE PlicFirmware ----------------------------
(***************************************************************************)
(* Plic under firmware that, like test_dma/main.c, writes the enables, the *)
(* priorities and the threshold at start-up and then leaves the controller *)
(* to its trap handler, which claims once and completes what it claimed.   *)
(* The firmware changes no priority once a source is enabled; it may write *)
(* the one that is there, as test_dma does.                                *)
(***************************************************************************)
EXTENDS Plic

CONSTANT MaxPulses   \* bound: how many times a source comes up in all

ASSUME PulsesAssumption == MaxPulses \in Nat

VARIABLES
  fw,       \* SETUP, MAIN, or the step of the trap handler: TRAP, COMPLETE
  pulses    \* pulses seen so far

fvars == <<plic_vars, fw, pulses>>

FwInit == PlicInit /\ fw = "SETUP" /\ pulses = 0

\* A source comes up for one edge, as dma_irq does, and at most MaxPulses do.
Pulse ==
  \/ irq' = {} /\ UNCHANGED pulses
  \/ \E s \in Sources : irq' = {s} /\ pulses < MaxPulses /\ pulses' = pulses + 1

SetPriority(s, level) ==
  /\ fw = "SETUP" /\ (enable = {} \/ level = priority[s])
  /\ WritePriority(s, level) /\ Pulse /\ UNCHANGED fw

\* The last write of the set-up.
SetThreshold(level) ==
  fw = "SETUP" /\ WriteThreshold(level) /\ Pulse /\ fw' = "MAIN"

Enable(sources) ==
  fw = "SETUP" /\ WriteEnable(sources) /\ Pulse /\ UNCHANGED fw

\* The firmware does something else.
Elsewhere == NoAccess /\ Pulse /\ UNCHANGED fw

Trap == fw = "MAIN" /\ meip /\ NoAccess /\ Pulse /\ fw' = "TRAP"

ClaimOne ==
  /\ fw = "TRAP" /\ Claim /\ Pulse
  /\ fw' = IF answer' # 0 THEN "COMPLETE" ELSE "MAIN"

\* The source is in answer until the handler writes it back.
CompleteOne ==
  /\ fw = "COMPLETE"
  /\ \E s \in claimed : Complete(s)
  /\ Pulse /\ fw' = "MAIN"

FwNext ==
  \/ \E s \in Sources, level \in Levels : SetPriority(s, level)
  \/ \E level \in Levels : SetThreshold(level)
  \/ \E sources \in SUBSET Sources : Enable(sources)
  \/ Elsewhere \/ Trap \/ ClaimOne \/ CompleteOne

FwSpec == FwInit /\ [][FwNext]_fvars

\* The clock ticks, and the core takes its interrupts.
FwFairness == WF_fvars(Elsewhere) /\ WF_fvars(Trap) /\ WF_fvars(ClaimOne) /\ WF_fvars(CompleteOne)

FairFwSpec == FwSpec /\ FwFairness

-----------------------------------------------------------------------------
(* Properties.                                                             *)

\* Every source that comes up and can interrupt is claimed, whatever its priority.
EverySourceServed ==
  \A s \in Sources :
    fw = "MAIN" /\ s \in irq /\ s \in enable /\ priority[s] > threshold ~> answer = s
=============================================================================
