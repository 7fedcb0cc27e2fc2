--------------------------- MODULE MCCanOperator ---------------------------
(* Two devices that both send long messages.                               *)
EXTENDS CanOperator

MCCanId == {"HMI_RCANID", "KEY_RCANID"}
=============================================================================
