------------------------------ MODULE Breakpoints ------------------------------
(***************************************************************************)
(* Software breakpoints of one traced process, from the stop after execve  *)
(* to its death: class Breakpoint and the step and continue operations of  *)
(* TracedProgram (lib/bdd_ptrace_breakpoint.cpp, lib/bdd_ptrace.cpp).      *)
(*                                                                         *)
(* Breakpoint::enable saves a whole machine word and overwrites its first  *)
(* byte with INT3; disable writes the whole saved word back. Both work on  *)
(* the tracee's text, a row of bytes that the tracee executes whenever the *)
(* debugger resumes it. Every ptrace request is an action of its own, and  *)
(* the tracee only moves between a resuming request and the next waitpid.  *)
(***************************************************************************)
EXTENDS Integers

CONSTANTS
  Last,      \* the last mapped byte of the tracee's text
  WordSize,  \* bytes of an instr_t: what PEEKTEXT and POKETEXT transfer
  Instr,     \* where the tracee's instructions start
  Succ,      \* where control may go after each instruction
  Entry,     \* the first instruction
  FaultAt,   \* instructions that may raise SIGSEGV
  ExitAt,    \* the exit system calls
  BpAddr,    \* addresses the user gives to `bp'
  OffAddr    \* addresses given to disableBreakpointAt...; the prompt only passes on
             \* functions whose name starts with `off' (module Session)

Addr == 0 .. Last
Offset == 0 .. WordSize - 1

ASSUME LayoutAssumption ==
  /\ Last \in Nat
  /\ WordSize \in Nat \ {0}
  /\ Instr \subseteq Addr
  /\ Entry \in Instr
  /\ Succ \in [Instr -> SUBSET Instr]
  /\ FaultAt \subseteq Instr
  /\ ExitAt \subseteq Instr
  /\ \A a \in ExitAt : a + 1 \notin Instr

\* The user breaks at instruction boundaries, and far enough from the end of
\* the mapping for PEEKTEXT to succeed; elsewhere enable() fails and leaves
\* everything as it was.
ASSUME UserAssumption ==
  /\ BpAddr \subseteq Instr
  /\ OffAddr \subseteq BpAddr
  /\ \A a \in BpAddr : a + WordSize - 1 \in Addr

(***************************************************************************)
(* Three restrictions on where the breakpoints are. The code does not      *)
(* enforce them; each property below says which of them it needs.          *)
(***************************************************************************)
\* No breakpoint on a one-byte instruction: RIP-1 then tells a hit apart.
Unambiguous == \A a \in BpAddr : a + 1 \notin Instr

\* No breakpoint inside the word saved by another one.
Separated == \A a, b \in BpAddr : a < b => a + WordSize <= b

\* No breakpoint on an instruction that stops the tracee by itself.
Plain == BpAddr \cap (FaultAt \cup ExitAt) = {}

Byte == {"code", "INT3"}
Word == [Offset -> Byte]
Breakpoint == [address : BpAddr, original : Word, enabled : BOOLEAN]
NoBreakpoint == [address |-> -1]

VARIABLES
  mem,             \* the tracee's text: program byte or planted INT3
  ip,              \* the tracee's RIP
  tracee,          \* how the tracee is stopped, or how it is running
  breakpointsMap,  \* TracedProgram::breakpointsMap
  dbg,             \* the next ptrace request of the debugger
  cmd,             \* the command being served
  bp,              \* resumeBreakpoint's copy of the breakpoint it lifts
  sigint           \* is a SIGINT pending for the stopped tracee?

vars == <<mem, ip, tracee, breakpointsMap, dbg, cmd, bp, sigint>>

Running == {"singlestep", "cont", "dying"}
Stopped == {"exec", "int3", "step", "segv", "sigint", "exit", "gone"}
Phase   == {"idle", "disable", "rewind", "rawstep", "stepping", "enable",
            "cont", "waiting"}

TypeOK ==
  /\ mem \in [Addr -> Byte]
  /\ ip \in Int
  /\ tracee \in Running \cup Stopped
  /\ breakpointsMap \in [BpAddr -> Breakpoint \cup {NoBreakpoint}]
  /\ dbg \in Phase
  /\ cmd \in {"none", "step", "cont"}
  /\ bp \in Breakpoint \cup {NoBreakpoint}
  /\ sigint \in BOOLEAN

-----------------------------------------------------------------------------
(* ptrace on the tracee's text. *)

\* Fault: transfers one byte more than a word.
PeekTooMuch(a) == [i \in 0 .. WordSize |-> mem[a + i]]

Peek(a) == [i \in Offset |-> mem[a + i]]

Poke(a, word) ==
  mem' = [b \in Addr |-> IF b - a \in Offset THEN word[b - a] ELSE mem[b]]

\* (original & TRAP_MASK) | INT3 on a little-endian word.
Trapping(word) == [word EXCEPT ![0] = "INT3"]

-----------------------------------------------------------------------------
(* The map and the test for a hit. *)

Contains(a) == a \in BpAddr /\ breakpointsMap[a] # NoBreakpoint

Placed == {a \in BpAddr : breakpointsMap[a] # NoBreakpoint}

GetIP == ip - 1

\* Fault: takes RIP for the address of the INT3.
TrappedAtRip == Contains(ip)

IsTrappedAtBreakpoint == Contains(GetIP)

Init ==
  /\ mem = [a \in Addr |-> "code"]
  /\ ip = Entry
  /\ tracee = "exec"
  /\ breakpointsMap = [a \in BpAddr |-> NoBreakpoint]
  /\ dbg = "idle"
  /\ cmd = "none"
  /\ bp = NoBreakpoint
  /\ sigint = FALSE

-----------------------------------------------------------------------------
(* Commands. ptrace fails on a process that is gone and waitpid returns at *)
(* once with ECHILD: a command then changes nothing.                       *)

\* Fault: the entry of an earlier `bp' is overwritten, as by insert_or_assign.
BreakpointReplaced(a) ==
  /\ dbg = "idle"
  /\ tracee # "gone"
  /\ Poke(a, Trapping(Peek(a)))
  /\ breakpointsMap' = [breakpointsMap EXCEPT ![a] =
                          [address |-> a, original |-> Peek(a), enabled |-> TRUE]]
  /\ UNCHANGED <<ip, tracee, dbg, cmd, bp, sigint>>

\* Fault: a second `bp' writes the saved word of the first, without its INT3.
BreakpointUnplanted(a) ==
  /\ dbg = "idle"
  /\ tracee # "gone"
  /\ \/ /\ Contains(a)
        /\ Poke(a, breakpointsMap[a].original)
        /\ UNCHANGED breakpointsMap
     \/ /\ ~Contains(a)
        /\ Poke(a, Trapping(Peek(a)))
        /\ breakpointsMap' =
             [breakpointsMap EXCEPT ![a] =
               [address |-> a, original |-> Peek(a), enabled |-> TRUE]]
  /\ UNCHANGED <<ip, tracee, dbg, cmd, bp, sigint>>

\* breakpointAtAddress: enable() first, then try_emplace, which keeps the
\* entry, and with it the word saved, of an earlier `bp' at that address.
BreakpointAtAddress(a) ==
  /\ dbg = "idle"
  /\ tracee # "gone"
  /\ Poke(a, Trapping(Peek(a)))
  /\ breakpointsMap' =
       IF Contains(a) THEN breakpointsMap
       ELSE [breakpointsMap EXCEPT ![a] =
               [address |-> a, original |-> Peek(a), enabled |-> TRUE]]
  /\ UNCHANGED <<ip, tracee, dbg, cmd, bp, sigint>>

\* Fault: the entry is erased, while other entries may have saved its INT3.
DisableForgets(a) ==
  /\ dbg = "idle"
  /\ tracee # "gone"
  /\ Contains(a)
  /\ Poke(a, breakpointsMap[a].original)
  /\ breakpointsMap' = [breakpointsMap EXCEPT ![a] = NoBreakpoint]
  /\ UNCHANGED <<ip, tracee, dbg, cmd, bp, sigint>>

\* disableBreakpointAt...: disable() on a copy of the entry. The word goes
\* back into the text; the entry stays in the map, and stays enabled.
DisableBreakpointAtAddress(a) ==
  /\ dbg = "idle"
  /\ tracee # "gone"
  /\ Contains(a)
  /\ Poke(a, breakpointsMap[a].original)
  /\ UNCHANGED <<ip, tracee, breakpointsMap, dbg, cmd, bp, sigint>>

Resume(how) == tracee' = IF tracee = "exit" THEN "dying" ELSE how

\* getHitBreakpoint returns a reference, but resumeBreakpoint copies it.
GetHitBreakpoint ==
  /\ bp' = breakpointsMap[GetIP]
  /\ dbg' = "disable"
  /\ UNCHANGED tracee

PtraceStep ==
  /\ dbg = "idle"
  /\ tracee # "gone"
  /\ cmd' = "step"
  /\ \/ IsTrappedAtBreakpoint /\ GetHitBreakpoint
     \/ /\ ~IsTrappedAtBreakpoint
        /\ Resume("singlestep")
        /\ dbg' = "waiting"
        /\ UNCHANGED bp
  /\ UNCHANGED <<mem, ip, breakpointsMap, sigint>>

PtraceContinue ==
  /\ dbg = "idle"
  /\ tracee # "gone"
  /\ cmd' = "cont"
  /\ \/ IsTrappedAtBreakpoint /\ GetHitBreakpoint
     \/ /\ ~IsTrappedAtBreakpoint
        /\ Resume("cont")
        /\ dbg' = "waiting"
        /\ UNCHANGED bp
  /\ UNCHANGED <<mem, ip, breakpointsMap, sigint>>

\* stopTraced: `stop', whose question the user answers with no. The SIGINT waits
\* until the tracee is resumed.
StopTraced ==
  /\ dbg = "idle"
  /\ tracee # "gone"
  /\ sigint' = TRUE
  /\ UNCHANGED <<mem, ip, tracee, breakpointsMap, dbg, cmd, bp>>

CommandOnGone ==
  /\ dbg = "idle"
  /\ tracee = "gone"
  /\ UNCHANGED vars

-----------------------------------------------------------------------------
(* resumeBreakpoint, one ptrace request after the other. *)

ResumeDisable ==
  /\ dbg = "disable"
  /\ Poke(bp.address, bp.original)
  /\ dbg' = "rewind"
  /\ UNCHANGED <<ip, tracee, breakpointsMap, cmd, bp, sigint>>

\* Fault: RIP stays behind the INT3.
BackwardStepForgotten ==
  /\ dbg = "rewind"
  /\ dbg' = "rawstep"
  /\ UNCHANGED <<mem, ip, tracee, breakpointsMap, cmd, bp, sigint>>

PtraceBackwardStep ==
  /\ dbg = "rewind"
  /\ ip' = GetIP
  /\ dbg' = "rawstep"
  /\ UNCHANGED <<mem, tracee, breakpointsMap, cmd, bp, sigint>>

\* Fault: the breakpoint is planted again before the tracee has moved.
RawStepForgotten ==
  /\ dbg = "rawstep"
  /\ dbg' = "enable"
  /\ UNCHANGED <<mem, ip, tracee, breakpointsMap, cmd, bp, sigint>>

PtraceRawStep ==
  /\ dbg = "rawstep"
  /\ Resume("singlestep")
  /\ dbg' = "stepping"
  /\ UNCHANGED <<mem, ip, breakpointsMap, cmd, bp, sigint>>

\* Fault: the breakpoint is not planted again.
EnableForgotten ==
  /\ dbg = "enable"
  /\ dbg' = IF cmd = "step" THEN "idle" ELSE "cont"
  /\ cmd' = IF cmd = "step" THEN "none" ELSE cmd
  /\ bp' = NoBreakpoint
  /\ UNCHANGED <<mem, ip, tracee, breakpointsMap, sigint>>

\* Fault: goes on with PTRACE_CONT whatever the command.
EnableThenContinue ==
  /\ dbg = "enable"
  /\ Poke(bp.address, Trapping(Peek(bp.address)))
  /\ dbg' = "cont"
  /\ bp' = NoBreakpoint
  /\ UNCHANGED <<ip, tracee, breakpointsMap, cmd, sigint>>

\* enable() saves the word again, but in the copy, which dies here.
ResumeEnable ==
  /\ dbg = "enable"
  /\ Poke(bp.address, Trapping(Peek(bp.address)))
  /\ dbg' = IF cmd = "step" THEN "idle" ELSE "cont"
  /\ cmd' = IF cmd = "step" THEN "none" ELSE cmd
  /\ bp' = NoBreakpoint
  /\ UNCHANGED <<ip, tracee, breakpointsMap, sigint>>

ResumeContinue ==
  /\ dbg = "cont"
  /\ Resume("cont")
  /\ dbg' = "waiting"
  /\ UNCHANGED <<mem, ip, breakpointsMap, cmd, bp, sigint>>

\* Fault: goes on after a stop by SIGSEGV.
WaitOverFaults ==
  /\ tracee \in Stopped
  /\ \/ dbg = "stepping" /\ dbg' = "enable" /\ UNCHANGED cmd
     \/ dbg = "waiting" /\ tracee = "segv" /\ dbg' = "cont" /\ UNCHANGED cmd
     \/ dbg = "waiting" /\ tracee # "segv" /\ dbg' = "idle" /\ cmd' = "none"
  /\ UNCHANGED <<mem, ip, tracee, breakpointsMap, bp, sigint>>

\* waitpid returns once the tracee has stopped or died.
WaitAndUpdateStatus ==
  /\ tracee \in Stopped
  /\ \/ dbg = "stepping" /\ dbg' = "enable" /\ UNCHANGED cmd
     \/ dbg = "waiting" /\ dbg' = "idle" /\ cmd' = "none"
  /\ UNCHANGED <<mem, ip, tracee, breakpointsMap, bp, sigint>>

-----------------------------------------------------------------------------
(* The tracee: the processor and the kernel, as the code relies on them.   *)
(* PTRACE_CONT and PTRACE_SINGLESTEP carry signal 0: the signal of the     *)
(* stop is dropped and a faulting instruction is simply tried again.       *)

Alive == tracee \in {"singlestep", "cont"}

\* A pending SIGINT stops the tracee before it executes anything.
TakeSignal ==
  /\ Alive
  /\ sigint
  /\ sigint' = FALSE
  /\ tracee' = "sigint"
  /\ UNCHANGED <<mem, ip, breakpointsMap, dbg, cmd, bp>>

Execute ==
  /\ Alive
  /\ ~sigint
  /\ ip \in Instr
  /\ mem[ip] = "code"
  /\ ip' \in Succ[ip]
  /\ tracee' = IF tracee = "singlestep" THEN "step" ELSE tracee
  /\ UNCHANGED <<mem, breakpointsMap, dbg, cmd, bp, sigint>>

\* The processor has read INT3: RIP is past it when SIGTRAP stops the tracee.
Trap ==
  /\ Alive
  /\ ~sigint
  /\ ip \in Addr
  /\ mem[ip] = "INT3"
  /\ ip' = ip + 1
  /\ tracee' = "int3"
  /\ UNCHANGED <<mem, breakpointsMap, dbg, cmd, bp, sigint>>

Fault ==
  /\ Alive
  /\ ~sigint
  /\ ip \in FaultAt
  /\ mem[ip] = "code"
  /\ tracee' = "segv"
  /\ UNCHANGED <<mem, ip, breakpointsMap, dbg, cmd, bp, sigint>>

\* PTRACE_EVENT_EXIT: the two-byte system call is behind RIP.
ExitEvent ==
  /\ Alive
  /\ ~sigint
  /\ ip \in ExitAt
  /\ mem[ip] = "code"
  /\ ip' = ip + 2
  /\ tracee' = "exit"
  /\ UNCHANGED <<mem, breakpointsMap, dbg, cmd, bp, sigint>>

Die ==
  /\ tracee = "dying"
  /\ tracee' = "gone"
  /\ UNCHANGED <<mem, ip, breakpointsMap, dbg, cmd, bp, sigint>>

-----------------------------------------------------------------------------
Command ==
  \/ \E a \in BpAddr : BreakpointAtAddress(a)
  \/ \E a \in OffAddr : DisableBreakpointAtAddress(a)
  \/ PtraceStep
  \/ PtraceContinue
  \/ StopTraced
  \/ CommandOnGone

Debugger ==
  \/ ResumeDisable
  \/ PtraceBackwardStep
  \/ PtraceRawStep
  \/ ResumeEnable
  \/ ResumeContinue
  \/ WaitAndUpdateStatus

Tracee == TakeSignal \/ Execute \/ Trap \/ Fault \/ ExitEvent \/ Die

Next == Command \/ Debugger \/ Tracee

Spec == Init /\ [][Next]_vars

\* The debugger is sequential code that nothing preempts for ever, and the
\* kernel runs a resumed tracee. Nothing is assumed of the user.
FairSpec == Spec /\ WF_vars(Debugger) /\ WF_vars(Tracee)

-----------------------------------------------------------------------------
(* Safety of the bookkeeping, wherever the breakpoints are. *)

\* Every INT3 in the text is one the debugger has an entry for, so that a
\* tracee stopped by it is recognised and rewound: enable() before try_emplace,
\* entries never erased, and no saved word that brings back a foreign INT3.
EveryTrapKnown == \A a \in Addr : mem[a] = "INT3" => a \in Placed

\* The word an entry saved does not hold the entry's own INT3: writing it back
\* really lifts the breakpoint, also after `bp' twice at one address.
OriginalsClean == \A a \in Placed : breakpointsMap[a].original[0] = "code"

\* The tracee never runs from the middle of an instruction: an INT3 it has
\* executed is always rewound before it goes on.
RunsAtBoundaries == Alive => ip \in Instr

(* Safety that depends on where the breakpoints are. *)

\* isTrappedAtBreakpoint, which only looks at RIP-1, is right: it holds at the
\* prompt exactly when the tracee was stopped by an INT3. Needs Unambiguous.
HitIsExact ==
  dbg = "idle" /\ tracee # "gone" => (IsTrappedAtBreakpoint <=> tracee = "int3")

\* What resumeBreakpoint lifts, and will put back, is in place when it starts:
\* it never plants an INT3 that was not there. Needs Separated and no `bp off'.
ResumeLiftsPlanted == dbg = "disable" => mem[bp.address] = "INT3"

\* Every breakpoint placed has its INT3 in the text, except the one that
\* resumeBreakpoint is stepping over. Needs Separated and no `bp off'.
PlacedStaysPlanted ==
  \A a \in Placed :
    \/ mem[a] = "INT3"
    \/ dbg \in {"rewind", "rawstep", "stepping", "enable"} /\ bp.address = a

(***************************************************************************)
(* The tracee as its program sees it. After a hit the instruction to       *)
(* execute is the one that INT3 replaced, until resumeBreakpoint rewinds.  *)
(***************************************************************************)
Exited == -1

ProgramCounter ==
  CASE tracee \in {"exit", "dying", "gone"} -> Exited
    [] tracee = "int3" /\ dbg # "rawstep" -> ip - 1
    [] OTHER -> ip

\* The tracee executes its program: control only moves along the program's
\* own flow, whatever the debugger plants, lifts and rewinds. Needs Unambiguous.
TransparentExecution ==
  [][\/ ProgramCounter' = ProgramCounter
     \/ ProgramCounter \in Instr /\ ProgramCounter' \in Succ[ProgramCounter]
     \/ ProgramCounter \in ExitAt /\ ProgramCounter' = Exited]_vars

\* A stop by SIGSEGV or at exit ends the command, so that the user sees it:
\* no request resumes the tracee from it behind the user's back. Needs Plain and
\* Unambiguous.
StopsAreReported ==
  [][(tracee \in {"segv", "exit"} /\ tracee' # tracee => dbg = "idle")]_vars

(* Liveness under FairSpec. *)

\* `step' comes back to the prompt, whatever it steps on.
StepReturns == (cmd = "step") ~> (dbg = "idle")

\* A user who keeps typing `run', and `stop' no more, gets a program that does not
\* loop, and does not fault for ever, to its end: no breakpoint holds the tracee.
RunsToTheEnd ==
  []<><<PtraceContinue>>_vars /\ <>[][~StopTraced /\ ~Fault]_vars
    => <>(tracee = "gone")

(***************************************************************************)
(* What the debugger promises: module IdealDebugger, under this mapping.   *)
(* Needs Unambiguous, Separated, Plain and no `bp off'.                    *)
(***************************************************************************)
ModeBar ==
  CASE dbg = "idle" -> "prompt"
    [] cmd = "step" /\ \/ dbg = "enable"
                       \/ dbg \in {"stepping", "waiting"} /\ tracee \in Stopped
         -> "halted"
    [] cmd = "cont" /\ dbg = "waiting" /\ tracee \in Stopped -> "halted"
    [] OTHER -> cmd

HitBar == tracee = "int3" \/ (dbg = "stepping" /\ tracee = "singlestep")

Promise == INSTANCE IdealDebugger
  WITH pc <- ProgramCounter, armed <- Placed, hit <- HitBar, mode <- ModeBar,
       asked <- sigint

ImplementsPromise == Promise!Spec
================================================================================
