--------------------------------- MODULE Launch --------------------------------
(***************************************************************************)
(* The start of a traced program, `run' at the first prompt: the debugger  *)
(* forks, and the two processes then run concurrently through initBDD and  *)
(* initChild (lib/bdd_ptrace.cpp). They share a print mutex in mapped      *)
(* memory (ExclusiveIO); one is stopped and resumed by the other's ptrace  *)
(* requests, at any point, the mutex in its hands included; and nothing    *)
(* but a 50 ms sleep makes the debugger attach before the child executes   *)
(* the program.                                                            *)
(***************************************************************************)
EXTENDS Naturals

VARIABLES
  bdd,       \* where the debugger is
  debug,     \* the DEBUG macro: are the debug_f messages printed?
  timely,    \* will the debugger attach within the child's 50 ms?
  execFails, \* will execv fail?
  child,     \* where the child is
  lock,      \* the owner of print_mutex
  run,       \* the child for the kernel
  traced,    \* is the debugger its tracer?
  options,   \* is PTRACE_O_TRACEEXIT set?
  sigstop,   \* is the SIGSTOP of PTRACE_ATTACH pending?
  news,      \* has the child stopped or died since the last waitpid?
  planted,   \* are the pending breakpoints in the program's text?
  early      \* has the program executed anything without them?

vars == <<bdd, debug, timely, execFails, child, lock, run, traced, options,
          sigstop, news, planted, early>>
chance == <<debug, timely, execFails>>
kernel == <<chance, run, traced, options, sigstop, news>>

\* A message goes out between lockPrint and unlockPrint; what follows it is as below.
\* `vainCont' is no message: where execv failed the child returns into runCommand,
\* whose ptraceContinue has no pid there. Its requests fail between the same two calls.
BddSays ==
  [sayAttach |-> "attach", sayCont |-> "cont", sayReady |-> "lock",
   sayDone |-> "prompt"]
ChildSays ==
  [sayInit |-> "traceme", sayArgs |-> "sayReady", sayReady |-> "exec",
   sayExit |-> "vainCont", vainCont |-> "sayPrompt", sayPrompt |-> "loop"]
DebugOnly == {"sayAttach", "sayCont", "sayInit", "sayArgs"}

BddPc ==
  DOMAIN BddSays \cup
  {"fork", "attach", "waitAttach", "setOptions", "cont", "wait", "getAddress",
   "place", "lock", "contLocked", "waitLocked", "unlock", "prompt", "threw"}
ChildPc ==
  DOMAIN ChildSays \cup {"none", "sleep", "traceme", "exec", "program", "loop",
                         "over"}

TypeOK ==
  /\ bdd \in BddPc
  /\ debug \in BOOLEAN
  /\ timely \in BOOLEAN
  /\ execFails \in BOOLEAN
  /\ child \in ChildPc
  /\ \/ lock = "free"
     \/ lock = "bdd" /\ bdd \in DOMAIN BddSays
                             \cup {"contLocked", "waitLocked", "unlock"}
     \/ lock = "child" /\ child \in DOMAIN ChildSays
  /\ run \in {"none", "running", "stopped", "exiting", "dead", "reaped"}
  /\ traced \in BOOLEAN
  /\ options \in BOOLEAN
  /\ sigstop \in BOOLEAN
  /\ news \in BOOLEAN
  /\ planted \in BOOLEAN
  /\ early \in BOOLEAN

Init ==
  /\ bdd = "fork"
  /\ debug \in BOOLEAN
  /\ timely \in BOOLEAN
  /\ execFails \in BOOLEAN
  /\ child = "none"
  /\ lock = "free"
  /\ run = "none"
  /\ traced = FALSE
  /\ options = FALSE
  /\ sigstop = FALSE
  /\ news = FALSE
  /\ planted = FALSE
  /\ early = FALSE

-----------------------------------------------------------------------------
(* genericFormatPrint: one message, under the mutex. *)

Printed(pc) == pc \in DebugOnly => debug

BddSay ==
  /\ bdd \in DOMAIN BddSays
  /\ \/ Printed(bdd) /\ lock = "free" /\ lock' = "bdd" /\ UNCHANGED bdd
     \/ Printed(bdd) /\ lock = "bdd" /\ lock' = "free" /\ bdd' = BddSays[bdd]
     \/ ~Printed(bdd) /\ bdd' = BddSays[bdd] /\ UNCHANGED lock
  /\ UNCHANGED <<child, kernel, planted, early>>

ChildSay ==
  /\ run = "running"
  /\ child \in DOMAIN ChildSays
  /\ \/ Printed(child) /\ lock = "free" /\ lock' = "child" /\ UNCHANGED child
     \/ Printed(child) /\ lock = "child" /\ lock' = "free"
          /\ child' = ChildSays[child]
     \/ ~Printed(child) /\ child' = ChildSays[child] /\ UNCHANGED lock
  /\ UNCHANGED <<bdd, kernel, planted, early>>

-----------------------------------------------------------------------------
(* The debugger: run, initBDD, attachPtrace, and the ptraceContinue of     *)
(* runCommand.                                                             *)

Fork ==
  /\ bdd = "fork"
  /\ bdd' = "sayAttach"
  /\ child' = "sleep"
  /\ run' = "running"
  /\ UNCHANGED <<chance, lock, traced, options, sigstop, news, planted, early>>

\* EPERM if the child is traced already, by its own PTRACE_TRACEME.
Attach ==
  /\ bdd = "attach"
  /\ \/ /\ ~traced /\ run = "running"
        /\ traced' = TRUE
        /\ sigstop' = TRUE
     \/ /\ traced \/ run # "running"
        /\ UNCHANGED <<traced, sigstop>>
  /\ bdd' = "waitAttach"
  /\ UNCHANGED <<chance, child, lock, run, options, news, planted, early>>

AfterWait == [waitAttach |-> "setOptions", wait |-> "getAddress",
              waitLocked |-> "unlock"]

\* Fault: does not wait for the child.
WaitForNothing ==
  /\ bdd \in DOMAIN AfterWait
  /\ news' = FALSE
  /\ run' = IF run = "dead" THEN "reaped" ELSE run
  /\ bdd' = AfterWait[bdd]
  /\ UNCHANGED <<chance, child, lock, traced, options, sigstop, planted, early>>

\* waitpid; ECHILD if the child was reaped before.
Wait ==
  /\ bdd \in DOMAIN AfterWait
  /\ news \/ run = "reaped"
  /\ news' = FALSE
  /\ run' = IF run = "dead" THEN "reaped" ELSE run
  /\ bdd' = AfterWait[bdd]
  /\ UNCHANGED <<chance, child, lock, traced, options, sigstop, planted, early>>

\* Fault: the tracee is not asked to stop at its exit.
OptionsForgotten ==
  /\ bdd = "setOptions"
  /\ bdd' = "sayCont"
  /\ UNCHANGED <<child, lock, kernel, planted, early>>

SetOptions ==
  /\ bdd = "setOptions"
  /\ options' = (run = "stopped")
  /\ bdd' = "sayCont"
  /\ UNCHANGED <<chance, child, lock, run, traced, sigstop, news, planted, early>>

\* PTRACE_CONT
Resume ==
  CASE run = "stopped" -> run' = "running" /\ UNCHANGED news
    [] run = "exiting" -> run' = "dead" /\ news' = TRUE
    [] OTHER           -> UNCHANGED <<run, news>>

\* Fault: prints are locked out while the child is on its way to execve.
ContUnderLock ==
  \/ /\ bdd = "cont" /\ lock = "free"
     /\ lock' = "bdd"
     /\ Resume
     /\ bdd' = "wait"
     /\ UNCHANGED <<chance, child, traced, options, sigstop, planted, early>>
  \/ /\ bdd = "contLocked"
     /\ Resume
     /\ bdd' = "waitLocked"
     /\ UNCHANGED <<chance, child, lock, traced, options, sigstop, planted, early>>

\* ptraceContinue without the lock, then, once the program is in place, with it.
Cont ==
  /\ \/ bdd = "cont" /\ bdd' = "wait"
     \/ bdd = "contLocked" /\ bdd' = "waitLocked"
  /\ Resume
  /\ UNCHANGED <<chance, child, lock, traced, options, sigstop, planted, early>>

\* getTracedRAMAddress throws when there is no /proc/<pid>/maps.
GetAddress ==
  /\ bdd = "getAddress"
  /\ bdd' = IF run = "reaped" THEN "threw" ELSE "place"
  /\ UNCHANGED <<child, lock, kernel, planted, early>>

\* Fault: the pending breakpoints stay pending.
PlaceForgotten ==
  /\ bdd = "place"
  /\ bdd' = "sayReady"
  /\ UNCHANGED <<child, lock, kernel, planted, early>>

PlaceEveryPendingBreakpoints ==
  /\ bdd = "place"
  /\ planted' = (child = "program" /\ run \in {"stopped", "exiting"})
  /\ bdd' = "sayReady"
  /\ UNCHANGED <<child, lock, kernel, early>>

LockPrint ==
  /\ bdd = "lock" /\ lock = "free"
  /\ lock' = "bdd"
  /\ bdd' = "contLocked"
  /\ UNCHANGED <<child, kernel, planted, early>>

UnlockPrint ==
  /\ bdd = "unlock"
  /\ lock' = "free"
  /\ bdd' = "sayDone"
  /\ UNCHANGED <<child, kernel, planted, early>>

\* The user continues a program that has stopped.
RunAgain ==
  /\ bdd = "prompt" /\ run = "stopped"
  /\ bdd' = "lock"
  /\ UNCHANGED <<child, lock, kernel, planted, early>>

-----------------------------------------------------------------------------
(* The child: initChild, then the program it executes. It moves while the  *)
(* kernel lets it run.                                                     *)

StopAs(how) == run' = how /\ news' = TRUE

TakeSigstop ==
  /\ run = "running" /\ sigstop
  /\ sigstop' = FALSE
  /\ StopAs("stopped")
  /\ UNCHANGED <<chance, bdd, child, lock, traced, options, planted, early>>

\* The 50 ms are long enough if they end after the debugger attached.
Sleep ==
  /\ run = "running" /\ child = "sleep"
  /\ timely => traced /\ ~sigstop
  /\ child' = "sayInit"
  /\ UNCHANGED <<bdd, lock, kernel, planted, early>>

\* PTRACE_TRACEME; EPERM if the debugger attached first.
TraceMe ==
  /\ run = "running" /\ child = "traceme"
  /\ traced' = TRUE
  /\ child' = "sayArgs"
  /\ UNCHANGED <<chance, bdd, lock, run, options, sigstop, news, planted, early>>

\* A traced process stops after execve. Where execv fails, initChild returns,
\* and with it `run': the child goes on as a debugger with a prompt of its own.
Exec ==
  /\ run = "running" /\ child = "exec"
  /\ \/ ~execFails /\ child' = "program" /\ StopAs("stopped")
     \/ execFails /\ child' = "sayExit" /\ UNCHANGED <<run, news>>
  /\ UNCHANGED <<chance, bdd, lock, traced, options, sigstop, planted, early>>

Exit == StopAs(IF options THEN "exiting" ELSE "dead")

\* The program runs to a breakpoint or a fault, or to its end.
Program ==
  /\ run = "running" /\ child = "program"
  /\ StopAs("stopped") \/ Exit
  /\ early' = (early \/ ~planted)
  /\ UNCHANGED <<chance, bdd, child, lock, traced, options, sigstop, planted>>

\* The user leaves the child's prompt.
LeaveLoop ==
  /\ run = "running" /\ child = "loop"
  /\ child' = "over"
  /\ Exit
  /\ UNCHANGED <<chance, bdd, lock, traced, options, sigstop, planted, early>>

-----------------------------------------------------------------------------
Debugger ==
  \/ BddSay \/ Fork \/ Attach \/ Wait \/ SetOptions \/ Cont \/ GetAddress
  \/ PlaceEveryPendingBreakpoints \/ LockPrint \/ UnlockPrint

Child == ChildSay \/ TakeSigstop \/ Sleep \/ TraceMe \/ Exec \/ Program

User == RunAgain \/ LeaveLoop

Next == Debugger \/ Child \/ User

Spec == Init /\ [][Next]_vars

\* Both processes are scheduled, and the program does not run for ever. The
\* user need not do anything.
FairSpec == Spec /\ WF_vars(Debugger) /\ WF_vars(Child)

-----------------------------------------------------------------------------
\* The program executes nothing before the pending breakpoints are in its text,
\* if the child's 50 ms are long enough for the debugger to attach: nothing
\* else makes the child wait for it.
BreakpointsInTime == timely => ~early

\* The terminal never has two readers: the debugger stays in waitpid while a
\* child whose execv failed serves commands.
OneReader ==
  ~(bdd = "prompt" /\ run = "running" /\ child \in {"sayExit", "vainCont", "sayPrompt", "loop"})

\* getTracedRAMAddress finds the memory map of the process it attached: it is
\* never left with a child that is reaped already. If execv fails in a child
\* that was not attached in time, it may be.
NeverThrows == timely \/ ~execFails => bdd # "threw"

\* `run' gives the prompt back: the child gets the print mutex for its messages
\* on the way to execve, and never keeps it while it is stopped. Where execv
\* fails the user may stay at the child's own prompt; and a child that prints
\* debug messages may be stopped in one of them if it is attached late.
RunReturns ==
  (bdd = "attach" /\ ~execFails /\ (timely \/ ~debug)) ~> (bdd = "prompt")

(***************************************************************************)
(* What a launch promises: module IdealLaunch, under this mapping. A launch *)
(* that is not attached in time, or has nothing to execute, promises       *)
(* nothing: it is mapped to a program that is never loaded.                *)
(***************************************************************************)
ProgramBar ==
  IF ~timely \/ execFails \/ child # "program" THEN "none"
  ELSE CASE run = "running" -> "running"
         [] run = "stopped" /\ ~planted -> "loaded"
         [] run = "stopped" /\ planted /\ bdd \in {"sayReady", "lock", "contLocked"} -> "armed"
         [] run = "stopped" /\ planted
              /\ bdd \in {"waitLocked", "unlock", "sayDone", "prompt"} -> "stopped"
         [] OTHER -> "leaving"

PromptBar == timely /\ ~execFails /\ bdd = "prompt"

Promise == INSTANCE IdealLaunch WITH program <- ProgramBar, prompt <- PromptBar

\* The two processes together do what IdealLaunch promises of one.
ImplementsPromise == Promise!Spec
================================================================================
