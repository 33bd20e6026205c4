------------------------------- MODULE PePorts -------------------------------
(***************************************************************************)
(* What the network may assume of a processing element: in every wave it   *)
(* takes one word from its local input for each word it will send, and     *)
(* sends the program's words, in order, none before its input is taken.    *)
(***************************************************************************)
EXTENDS Integers, Sequences

CONSTANTS
  Outputs,  \* the words that each program sends in a wave
  WAVES     \* bound: waves

VARIABLES program, wave, taken, given

ports == <<program, wave, taken, given>>
output == Outputs[program]

PortsInit ==
  /\ program \in DOMAIN Outputs
  /\ wave = 0 /\ taken = 0 /\ given = <<>>

StartWave ==
  /\ wave < WAVES
  /\ wave = 0 \/ given = output
  /\ wave' = wave + 1 /\ taken' = 0 /\ given' = <<>>

Exchange ==
  \E take, give \in {0, 1} :
    /\ taken' = taken + take /\ taken' <= Len(output)
    /\ Len(given) + give <= taken
    /\ given' = given \o SubSeq(output, Len(given) + 1, Len(given) + give)
    /\ UNCHANGED wave

PortsNext == (StartWave \/ Exchange) /\ UNCHANGED program

PortsSpec == PortsInit /\ [][PortsNext]_ports
=============================================================================
