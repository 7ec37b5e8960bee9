--------------------------- MODULE MCChildCommands ---------------------------
(* The instance of ChildCommands that TLC checks.                             *)
EXTENDS ChildCommands
================================================================================
