----------------------------- MODULE IdealDebugger -----------------------------
(***************************************************************************)
(* What the user is promised of breakpoints, stepping and continuing: the  *)
(* README's "Stop the program before a function or elf-address", and the   *)
(* comments on ptraceStep, "Steps one instruction", and on ptraceContinue, *)
(* "Run the traced-program to the end (except segfaults/breakpoints/...)". *)
(* No text is patched here and no instruction is executed twice.           *)
(***************************************************************************)
EXTENDS Integers

CONSTANTS Instr, Succ, Entry, FaultAt, ExitAt, BpAddr, Exited

VARIABLES
  pc,     \* the instruction the program executes next, or Exited
  armed,  \* the breakpoints
  hit,    \* has the stop at pc been reported since control came there?
  mode,   \* at the prompt, serving a step or a continue, or about to report
  asked   \* has the user asked the program to stop?

vars == <<pc, armed, hit, mode, asked>>

Init ==
  /\ pc = Entry
  /\ armed = {}
  /\ hit = FALSE
  /\ mode = "prompt"
  /\ asked = FALSE

SetBreakpoint(a) ==
  /\ mode = "prompt"
  /\ armed' = armed \cup {a}
  /\ UNCHANGED <<pc, hit, mode, asked>>

Serve(command) ==
  /\ mode = "prompt"
  /\ mode' = command
  /\ UNCHANGED <<pc, armed, hit, asked>>

AskToStop ==
  /\ mode = "prompt"
  /\ asked' = TRUE
  /\ UNCHANGED <<pc, armed, hit, mode>>

Busy == mode \in {"step", "cont"}

\* An armed instruction is executed only after a stop before it was reported.
MayPass == pc \in armed => hit

\* A request to stop is honoured before anything is executed, once. A breakpoint
\* at pc stops the program anew after it; a continue may go on to that at once.
StopOnRequest ==
  /\ Busy
  /\ asked
  /\ asked' = FALSE
  /\ hit' = FALSE
  /\ \/ mode' = "halted"
     \/ mode = "cont" /\ hit /\ UNCHANGED mode
  /\ UNCHANGED <<pc, armed>>

\* A step ends with the first instruction; a continue goes on.
Execute ==
  /\ Busy
  /\ ~asked
  /\ MayPass
  /\ pc \in Instr
  /\ pc' \in Succ[pc]
  /\ hit' = FALSE
  /\ mode' = IF mode = "step" THEN "halted" ELSE mode
  /\ UNCHANGED <<armed, asked>>

StopBefore ==
  /\ Busy
  /\ ~asked
  /\ pc \in armed
  /\ ~hit
  /\ hit' = TRUE
  /\ mode' = "halted"
  /\ UNCHANGED <<pc, armed, asked>>

Fault ==
  /\ Busy
  /\ ~asked
  /\ MayPass
  /\ pc \in FaultAt
  /\ mode' = "halted"
  /\ UNCHANGED <<pc, armed, hit, asked>>

Exit ==
  /\ Busy
  /\ ~asked
  /\ MayPass
  /\ pc \in ExitAt
  /\ pc' = Exited
  /\ hit' = FALSE
  /\ mode' = "halted"
  /\ UNCHANGED <<armed, asked>>

\* Resumed at its exit, the program is gone; the user is told.
Die ==
  /\ Busy
  /\ pc = Exited
  /\ mode' = "halted"
  /\ UNCHANGED <<pc, armed, hit, asked>>

Report ==
  /\ mode = "halted"
  /\ mode' = "prompt"
  /\ UNCHANGED <<pc, armed, hit, asked>>

Next ==
  \/ \E a \in BpAddr : SetBreakpoint(a)
  \/ \E command \in {"step", "cont"} : Serve(command)
  \/ AskToStop
  \/ StopOnRequest
  \/ Execute
  \/ StopBefore
  \/ Fault
  \/ Exit
  \/ Die
  \/ Report

Spec == Init /\ [][Next]_vars
================================================================================
