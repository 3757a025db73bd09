------------------------------- MODULE MCCommands -------------------------------
(***************************************************************************)
(* The small programs of MCBreakpoints, for Commands.                      *)
(***************************************************************************)
EXTENDS MCBreakpoints, Commands
================================================================================
