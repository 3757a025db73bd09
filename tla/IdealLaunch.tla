------------------------------- MODULE IdealLaunch -------------------------------
(***************************************************************************)
(* What `run' promises, and what module Session takes a launch for:        *)
(* "PENDING breakpoints are placed after the first 'run'", and the program *)
(* is under the debugger's control from its first instruction on. One      *)
(* actor and no race: loaded, armed, resumed, stopped, then a prompt.      *)
(***************************************************************************)

VARIABLES
  program,   \* not loaded, loaded, about to be resumed, running, stopped, leaving
  prompt     \* may the user type?

vars == <<program, prompt>>

Init ==
  /\ program = "none"
  /\ prompt = FALSE

Load ==
  /\ program = "none"
  /\ program' = "loaded"
  /\ UNCHANGED prompt

PlacePending ==
  /\ program = "loaded"
  /\ program' = "armed"
  /\ UNCHANGED prompt

Resume ==
  /\ program = "armed"
  /\ program' = "running"
  /\ UNCHANGED prompt

\* At a breakpoint or a fault, or at its exit.
Stop ==
  /\ program = "running"
  /\ program' \in {"stopped", "leaving"}
  /\ UNCHANGED prompt

Report ==
  /\ program \in {"stopped", "leaving"}
  /\ ~prompt
  /\ prompt' = TRUE
  /\ UNCHANGED program

RunAgain ==
  /\ prompt
  /\ program = "stopped"
  /\ program' = "armed"
  /\ prompt' = FALSE

Next == Load \/ PlacePending \/ Resume \/ Stop \/ Report \/ RunAgain

Spec == Init /\ [][Next]_vars
================================================================================
