------------------------------- MODULE MCCpu -------------------------------
(* Instances of the instruction set for TLC. *)
EXTENDS Cpu

EachGroup == {{"alu", "float"}, {"alu", "memory"}, {"stack"}}
AluOnly == {{"alu"}}
=============================================================================
