----------------------------- MODULE MCFdTable -----------------------------
(* Instances of the descriptor table for TLC. *)
EXTENDS FdTable

SpecialTypes == {"DEV_TTY"}
OpenModes == {"RDWR"}
=============================================================================
