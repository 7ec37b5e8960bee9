------------------------------ MODULE MCTuiTurn ------------------------------
(* Constants of the small instances of TuiTurn that TLC checks. *)
EXTENDS TuiTurn

CONSTANTS bash, edit, brief   \* tools
================================================================================
