-------------------------------- MODULE Session --------------------------------
(***************************************************************************)
(* A debugging session: the command loop of apps/tracer.cpp and the life   *)
(* of the processes that TracedProgram forks, one after the other          *)
(* (lib/bdd_ptrace.cpp, lib/bdd_signals.cpp).                              *)
(*                                                                         *)
(* What is remembered about the process being traced is spread over five   *)
(* members (traced_pid, cached_status, ram_start_address, breakpointsMap   *)
(* and pendingBreakpointsMap) that `run', `restart' and clearCurrentProcess *)
(* must keep together. A tracee only moves inside a command, so a command  *)
(* is one step here; `run' and `restart' take one step per system call     *)
(* that creates or resumes a process. Module Breakpoints has the ptrace    *)
(* requests inside a step or a continue.                                   *)
(***************************************************************************)
EXTENDS WaitStatus, Sequences, FiniteSets

CONSTANTS
  Pids,         \* the process ids fork returns, one per launch of a session
  Bases,        \* where the loader may map the executable
  Size,         \* how many addresses of its mapping hold a whole word
  WordSize,     \* bytes of an instr_t: what PEEKTEXT and POKETEXT transfer
  OneByte,      \* where its instructions of one byte are, from its load address
  Pie,          \* is it position independent?
  Functions,    \* the ELF addresses of its functions
  UserAddr,     \* addresses the user gives as `bp 0x...': of instructions
  MaxPending,   \* bound on the breakpoints waiting for the first `run'
  PastExit,     \* is a process ever resumed at its exit: by a `step' typed there,
                \* or over a breakpoint on the exit system call itself?
  ForkMayFail,  \* may fork fail for another reason than EAGAIN?
  OffWords,     \* what the user types behind `bp' that starts with `off': functions,
                \* or 0 for a word that is none, like `off' itself
  OutsideKill   \* may something else than the debugger kill the traced process?

ASSUME SessionAssumption ==
  /\ Pids \subseteq Nat \ {0}
  /\ Bases \subseteq Nat \ {0}
  /\ Size \in Nat \ {0}
  /\ WordSize \in Nat \ {0}
  /\ OneByte \subseteq 0 .. Size - 1
  /\ Pie \in BOOLEAN
  /\ ~Pie => Cardinality(Bases) = 1
  /\ Functions \subseteq Nat \ {0}
  /\ UserAddr \subseteq Nat \ {0}
  /\ \A f \in Functions, b \in Bases :
       IF Pie THEN f < Size /\ f < b ELSE f - b \in 0 .. Size - 1
  /\ MaxPending \in Nat
  /\ PastExit \in BOOLEAN
  /\ ForkMayFail \in BOOLEAN
  /\ OffWords \subseteq Functions \cup {0}
  /\ OutsideKill \in BOOLEAN

Mapped(base) == base .. base + Size - 1

\* Where the loader puts the code that the ELF file has at address f.
Runtime(base, f) == IF Pie THEN base + f ELSE f

Addr == UserAddr \cup (UNION {Mapped(b) : b \in Bases})
             \cup {b + a : b \in Bases, a \in Functions \cup UserAddr}

\* The word at an address, as ptrace transfers it.
Bytes(a) == a .. a + WordSize - 1

\* One-byte instructions of a program loaded at a base: RIP-1 behind each of them is
\* its address, as it is behind an INT3 that has been planted there.
ShortAt(base) == {base + o : o \in OneByte}

(***************************************************************************)
(* Two restrictions on where the breakpoints are, as in Breakpoints. The   *)
(* code does not enforce them; a property below that needs one says so.    *)
(***************************************************************************)
\* Where a program that is loaded at a base may get a breakpoint.
Targets(base) ==
  Mapped(base) \cap (Functions \cup UserAddr \cup {base + a : a \in Functions \cup UserAddr})

\* No breakpoint on a one-byte instruction.
Unambiguous == \A b \in Bases : Targets(b) \cap ShortAt(b) = {}

\* No breakpoint inside the word saved by another one.
Separated ==
  \A b \in Bases : \A x, y \in Targets(b) : x < y => x + WordSize <= y

\* A breakpoint's name: the function it was asked for, or 0 for "Unknown".
Name == Functions \cup {0}

\* An entry also has the word that enable() read from the text: of that word, the
\* INT3s of other breakpoints that were in it.
MapEntry == [pid : Pids, name : Name, saved : SUBSET Addr]
NoEntry == [pid |-> 0]
Pending == [address : Functions \cup UserAddr, name : Name]

VARIABLES
  ram_start_address,
  traced_pid,
  cached_status,          \* a word of module WaitStatus
  breakpointsMap,
  pendingBreakpointsMap,
  force_end,
  phase,                  \* what the debugger does next
  after,                  \* where `run' goes once it has forked
  proc,                   \* the processes, as the kernel knows them
  strays,                 \* the pids given to kill() that were no child's
  refused                 \* the kinds of `bp' answered with "failed" so far,
                          \* while there was a program to break

vars == <<ram_start_address, traced_pid, cached_status, breakpointsMap,
          pendingBreakpointsMap, force_end, phase, after, proc, strays,
          refused>>

traced == <<ram_start_address, traced_pid, cached_status, breakpointsMap>>

(***************************************************************************)
(* A process is stopped under ptrace, killed (and not yet reaped), gone    *)
(* (reaped), no longer traced, or not forked yet. It stops once more on    *)
(* its way out: at its own exit, or dying of a SIGKILL. `addr' is RIP-1    *)
(* where it is stopped, if that is the address of an INT3 it executed or   *)
(* of a one-byte instruction, and 0 if not: in the middle of a longer one  *)
(* nobody breaks. `derailed': it was resumed behind an INT3.               *)
(***************************************************************************)
Process ==
  [life : {"unused", "stopped", "killed", "gone", "detached"},
   base : Bases \cup {0},
   planted : SUBSET Addr,
   at : {"start", "exec", "step", "hit", "segv", "sigint", "exit", "dying"},
   addr : Addr \cup {0},
   sigint : BOOLEAN,
   derailed : BOOLEAN]

ExitStop == StoppedAt(PTRACE_EVENT_EXIT)

Status == {Exited(0), KilledBy(SIGKILL, FALSE), ExitStop}
            \cup {StoppedBy(signal) : signal \in {SIGTRAP, SIGSEGV, SIGINT}}

TypeOK ==
  /\ ram_start_address \in Bases \cup {0}
  /\ traced_pid \in Pids \cup {0, -1}
  /\ cached_status \in Status
  /\ breakpointsMap \in [Addr -> MapEntry \cup {NoEntry}]
  /\ pendingBreakpointsMap \in Seq(Pending)
  /\ force_end \in BOOLEAN
  /\ phase \in {"prompt", "clear", "fork", "init", "continue", "ended", "aborted",
               "crashed"}
  /\ after \in {"prompt", "continue"}
  /\ proc \in [Pids -> Process]
  /\ strays \subseteq Pids \cup {0, -1}
  /\ refused \subseteq {"function", "address"}

-----------------------------------------------------------------------------
(* bdd_signals.cpp. The initial status 0 reads as a normal exit, death by  *)
(* a signal does not.                                                      *)

\* Fault: a tracee that is stopped at its exit counts as dead.
DeadAtExit == WIFEXITED(cached_status) \/ cached_status = ExitStop

isDead == WIFEXITED(cached_status)
isAlive == ~isDead
isStopped == WIFSTOPPED(cached_status)
isSegfault == isStopped /\ WSTOPSIG(cached_status) = SIGSEGV
isTrapped == isStopped /\ WSTOPSIG(cached_status) = SIGTRAP

\* Fault: the exit is not told apart from the other SIGTRAPs.
AnyTrap == isTrapped

isExiting == isTrapped /\ cached_status \div 65536 = PTRACE_EVENT_EXIT

hasStarted == ram_start_address > 0

Leaving(p) == p.at \in {"exit", "dying"}

\* Fault: the status of a stop without the mark in its low byte.
Unmarked(p) == IF p.life = "gone" THEN Exited(0) ELSE SIGTRAP * 256

\* The status waitpid returns for a process that stops or ends like this.
StatusOf(p) ==
  CASE p.life = "gone" /\ p.at = "exit" -> Exited(0)
    [] p.life = "gone" /\ p.at = "dying" -> KilledBy(SIGKILL, FALSE)
    [] p.life # "gone" /\ Leaving(p) -> ExitStop
    [] p.at = "segv" -> StoppedBy(SIGSEGV)
    [] p.at = "sigint" -> StoppedBy(SIGINT)
    [] OTHER -> StoppedBy(SIGTRAP)

Placed == {a \in Addr : breakpointsMap[a] # NoEntry}

NoBreakpoints == [a \in Addr |-> NoEntry]

\* std::map::try_emplace
TryEmplace(m, a, e) == IF m[a] = NoEntry THEN [m EXCEPT ![a] = e] ELSE m

Init ==
  /\ ram_start_address = 0
  /\ traced_pid = 0
  /\ cached_status = 0
  /\ breakpointsMap = NoBreakpoints
  /\ pendingBreakpointsMap = <<>>
  /\ force_end = FALSE
  /\ phase = "prompt"
  /\ after = "prompt"
  /\ proc = [p \in Pids |->
               [life |-> "unused", base |-> 0, planted |-> {}, at |-> "start",
                addr |-> 0, sigint |-> FALSE, derailed |-> FALSE]]
  /\ strays = {}
  /\ refused = {}

-----------------------------------------------------------------------------
(* One tracee resumed by ptrace until it stops or ends: every outcome.     *)

\* Stopped behind an instruction that is no INT3.
Behind(p, way) == {[p EXCEPT !.at = way, !.addr = a] : a \in {0} \cup ShortAt(p.base)}

\* How it stops that executes at least one instruction: at a planted INT3, at its
\* exit, or in one of the given ways. The exit system call has two bytes.
Stops(p, ways) ==
  {[p EXCEPT !.at = "hit", !.addr = a] : a \in p.planted}
    \cup {[p EXCEPT !.at = "exit", !.addr = 0]}
    \cup UNION {Behind(p, way) : way \in ways}

\* PTRACE_CONT or, if single, PTRACE_SINGLESTEP. A pending SIGINT stops the
\* tracee before it moves and is then dropped: the request carries signal 0.
Resume(p, single) ==
  CASE Leaving(p) -> {[p EXCEPT !.life = "gone"]}
    [] ~Leaving(p) /\ p.sigint ->
         {[p EXCEPT !.sigint = FALSE, !.at = "sigint",
                    !.derailed = p.derailed \/ p.at = "hit"]}
    [] OTHER ->
         Stops([p EXCEPT !.derailed = p.derailed \/ p.at = "hit"],
               IF single THEN {"segv", "step"} ELSE {"segv"})

\* disable(): the word that the entry saved goes back, over every byte of it.
Disabled(p, a) ==
  [p EXCEPT !.planted = (@ \ Bytes(a)) \cup breakpointsMap[a].saved]

\* ptraceBackwardStep: RIP is a, no longer behind it.
Rewound(p, a) ==
  [p EXCEPT !.at = "exec", !.addr = IF a - 1 \in ShortAt(p.base) THEN a - 1 ELSE 0]

\* ptraceRawStep from there: one instruction, or the INT3 if it is still in the text.
RawStep(p, a) ==
  {q \in Resume(Rewound(p, a), TRUE) :
     /\ q.at = "hit" => q.addr = a
     /\ a \in p.planted => q.at \notin {"step", "segv", "exit"}
     /\ q.at = "exit" => PastExit}

\* Fault: goes on without the step over the breakpoint.
ResumeForgotten(p) == {p}

\* resumeBreakpoint: disable() and enable() go to the process that the entry was
\* made for, the rewind and the step to the traced one. enable() saves the word in
\* a copy of the entry, which dies. The text of a dying process is not run again.
ResumeBreakpoint(p) ==
  LET a == p.addr IN
  IF Leaving(p) THEN Resume(p, TRUE)
  ELSE IF breakpointsMap[a].pid = traced_pid
  THEN {[q EXCEPT !.planted = @ \cup {a}] : q \in RawStep(Disabled(p, a), a)}
  ELSE RawStep(p, a)

\* RIP-1 is in the map, whatever stopped the process there. On one that is gone the
\* request for RIP fails, and the -1 for it is no breakpoint.
IsTrappedAtBreakpoint(p) == p.life = "stopped" /\ p.addr \in Placed

Continued(p) ==
  IF IsTrappedAtBreakpoint(p)
  THEN UNION {Resume(r, FALSE) : r \in ResumeBreakpoint(p)}
  ELSE Resume(p, FALSE)

Stepped(p) ==
  IF IsTrappedAtBreakpoint(p) THEN ResumeBreakpoint(p) ELSE Resume(p, TRUE)

\* waitpid finds a killed child dead, or first at its PTRACE_EVENT_EXIT.
WaitForKilled(p) ==
  /\ proc[p].life = "killed"
  /\ \E life \in {"gone"} \cup (IF Leaving(proc[p]) THEN {} ELSE {"stopped"}) :
       LET at == IF proc[p].at = "exit" THEN "exit" ELSE "dying"
           q == [proc[p] EXCEPT !.life = life, !.at = at]
       IN  proc' = [proc EXCEPT ![p] = q] /\ cached_status' = StatusOf(q)

Children == {p \in Pids : proc[p].life \in {"stopped", "killed"}}

\* After a failed fork waitpid gets -1, any child. It fails if there is none, and
\* waits for ever for one that has reported its exit and that nobody resumes.
WaitForAny ==
  \/ Children = {} /\ UNCHANGED <<cached_status, proc>>
  \/ \E p \in Children : WaitForKilled(p)

\* A request to the traced process, and the waitpid that follows. On a process
\* that is gone both fail and the cached status stays.
Drive(outcomes) ==
  \/ traced_pid = -1 /\ WaitForAny
  \/ /\ traced_pid \in Pids
     /\ proc[traced_pid].life = "stopped"
     /\ \E q \in outcomes :
          /\ proc' = [proc EXCEPT ![traced_pid] = q]
          /\ cached_status' = StatusOf(q)
  \/ traced_pid \in Pids /\ WaitForKilled(traced_pid)
  \/ /\ traced_pid = 0 \/ (traced_pid \in Pids /\ proc[traced_pid].life = "gone")
     /\ UNCHANGED <<cached_status, proc>>

-----------------------------------------------------------------------------
(* Signals. kill(-1, ...) would go to every process of the user, and the   *)
(* pid of a child that was reaped may be anyone's.                         *)

Signal(p) == strays' = strays \cup ({p} \ Children)

Kill(p) ==
  IF p \in Pids /\ proc[p].life = "stopped"
  THEN [proc EXCEPT ![p].life = "killed"] ELSE proc

Interrupt(p) ==
  IF p \in Pids /\ proc[p].life = "stopped"
  THEN [proc EXCEPT ![p].sigint = TRUE] ELSE proc

stopTraced ==
  IF isDead THEN UNCHANGED <<proc, strays>>
  ELSE proc' = Interrupt(traced_pid) /\ Signal(traced_pid)

\* Fault: no look at isDead first.
KillUnchecked == proc' = Kill(traced_pid) /\ Signal(traced_pid)

killTraced ==
  IF isDead THEN UNCHANGED <<proc, strays>>
  ELSE proc' = Kill(traced_pid) /\ Signal(traced_pid)

\* Fault model: the OOM killer, another debugger, the user in a second terminal. Not
\* while a launch is under way, which is one step here and has no kill in Launch.
KilledFromOutside ==
  /\ OutsideKill
  /\ phase \in {"prompt", "clear", "continue"}
  /\ traced_pid \in Pids /\ proc[traced_pid].life = "stopped"
  /\ proc' = Kill(traced_pid)
  /\ UNCHANGED <<traced, pendingBreakpointsMap, force_end, phase, after, strays,
                 refused>>

-----------------------------------------------------------------------------
(* Breakpoints by the user. *)

Prompt == phase = "prompt" /\ ~force_end

Live(p) == p \in Pids /\ proc[p].life = "stopped" /\ proc[p].at # "dying"

\* PEEKTEXT and POKETEXT on the traced process.
CanPatch(a) ==
  /\ traced_pid \in Pids
  /\ proc[traced_pid].life = "stopped"
  /\ a \in Mapped(proc[traced_pid].base)

\* What becomes of the tracees when the debugger ends: nothing lifts its INT3s.
Detached ==
  [p \in Pids |-> IF proc[p].life = "stopped"
                  THEN [proc[p] EXCEPT !.life = "detached"] ELSE proc[p]]

Die(how) == phase' = how /\ proc' = Detached

\* "Breakpoint[%s] failed" is printed without the argument: whatever is found
\* for it is printed as a string, or ends the debugger.
Refuse(requests) ==
  /\ refused' = IF Live(traced_pid) THEN refused \cup requests ELSE refused
  /\ UNCHANGED <<phase, proc>> \/ Die("crashed")
  /\ UNCHANGED <<breakpointsMap, pendingBreakpointsMap>>

\* breakpointAtAddress and setBreakpoint. enable() needs a mapped address of a
\* process that is still there; if it fails the breakpoint is dropped.
BreakpointAtAddress(a, name, request) ==
  \/ /\ ~hasStarted
     /\ Len(pendingBreakpointsMap) < MaxPending
     /\ pendingBreakpointsMap' =
          Append(pendingBreakpointsMap, [address |-> a, name |-> name])
     /\ UNCHANGED <<breakpointsMap, proc, phase, refused>>
  \/ /\ hasStarted
     /\ CanPatch(a)
     /\ proc' = [proc EXCEPT ![traced_pid].planted = @ \cup {a}]
     /\ breakpointsMap' =
          TryEmplace(breakpointsMap, a,
                     [pid |-> traced_pid, name |-> name,
                      saved |-> proc[traced_pid].planted \cap Bytes(a)])
     /\ UNCHANGED <<pendingBreakpointsMap, phase, refused>>
  \/ /\ hasStarted
     /\ ~CanPatch(a)
     /\ Refuse({request})

KeepsTheRest ==
  UNCHANGED <<ram_start_address, traced_pid, cached_status, force_end, after,
              strays>>

\* Fault: the address is always taken for an offset.
AddressMoved(a) ==
  /\ Prompt
  /\ BreakpointAtAddress(ram_start_address + a, 0, "address")
  /\ KeepsTheRest

bpAddress(a) ==
  /\ Prompt
  /\ BreakpointAtAddress(a, 0, "address")
  /\ KeepsTheRest

\* Fault: breaks at the address in the ELF file.
FunctionUnmoved(f) ==
  /\ Prompt
  /\ hasStarted => isAlive
  /\ BreakpointAtAddress(f, f, "function")
  /\ KeepsTheRest

\* getFunctionPhysicalAddress asserts isAlive() and adds the load address.
bpFunction(f) ==
  /\ Prompt
  /\ \/ /\ hasStarted /\ isDead
        /\ Die("aborted")
        /\ UNCHANGED <<breakpointsMap, pendingBreakpointsMap, refused>>
     \/ /\ hasStarted => isAlive
        /\ BreakpointAtAddress(ram_start_address + f, f, "function")
  /\ KeepsTheRest

\* The entry's disable(), on the process it was made for.
Lift(a) ==
  LET p == breakpointsMap[a].pid IN
  /\ proc' = IF proc[p].life = "stopped"
             THEN [proc EXCEPT ![p] = Disabled(@, a)] ELSE proc
  /\ UNCHANGED <<breakpointsMap, pendingBreakpointsMap, phase, refused>>

\* bpOffCommand looks up the word that made it `bp off', never the next one:
\* `off' itself, or a function whose name starts so. Where there is no such
\* function, getFunctionAddress reads past the end of its list: a fault or any
\* address.
bpOffCommand(word) ==
  /\ Prompt
  /\ \/ /\ isDead
        /\ Die("aborted")
        /\ UNCHANGED <<breakpointsMap, pendingBreakpointsMap, refused>>
     \/ /\ isAlive
        /\ LET found == IF word = 0 THEN Placed
                        ELSE Placed \cap {ram_start_address + word}
           IN  \/ \E a \in found : Lift(a)
               \/ (found = {} \/ word = 0) /\ Refuse({})
  /\ KeepsTheRest

-----------------------------------------------------------------------------
(* TracedProgram::run, one system call that makes or frees a process at a  *)
(* time. The bound on the session: no `run' once every pid is used.        *)

Unused == {p \in Pids : proc[p].life = "unused"}

StartRun(then) ==
  /\ Unused # {}
  /\ phase' = IF isAlive THEN "clear" ELSE "fork"
  /\ after' = then
  /\ UNCHANGED <<traced, pendingBreakpointsMap, force_end, proc, strays,
                 refused>>

\* What clearCurrentProcess resets besides the load address and the breakpoints.
ForgetProcess ==
  /\ traced_pid' = 0
  /\ cached_status' = 0
  /\ phase' = "fork"
  /\ UNCHANGED <<pendingBreakpointsMap, force_end, after, refused>>

\* Fault: the old process is only interrupted.
ClearWithoutKill ==
  /\ phase = "clear"
  /\ stopTraced
  /\ breakpointsMap' = NoBreakpoints
  /\ ram_start_address' = 0
  /\ ForgetProcess

\* Fault: the load address of the old process is kept.
ClearKeepsBase ==
  /\ phase = "clear"
  /\ killTraced
  /\ breakpointsMap' = NoBreakpoints
  /\ UNCHANGED ram_start_address
  /\ ForgetProcess

\* Fault: the breakpoints of the old process are kept.
ClearKeepsBreakpoints ==
  /\ phase = "clear"
  /\ killTraced
  /\ ram_start_address' = 0
  /\ UNCHANGED breakpointsMap
  /\ ForgetProcess

\* The SIGINT cannot end a tracee that is stopped under ptrace, and nothing
\* updates cached_status in the 200 ms: the SIGKILL always follows.
clearCurrentProcess ==
  /\ phase = "clear"
  /\ killTraced
  /\ breakpointsMap' = NoBreakpoints
  /\ ram_start_address' = 0
  /\ ForgetProcess

\* On EAGAIN `run' tries again, which changes nothing.
Fork ==
  /\ phase = "fork"
  /\ \/ \E p \in Unused :
          /\ \A q \in Unused : p <= q
          /\ proc' = [proc EXCEPT ![p].life = "stopped"]
          /\ traced_pid' = p
          /\ phase' = "init"
     \/ /\ ForkMayFail
        /\ traced_pid' = -1
        /\ phase' = after
        /\ UNCHANGED proc
  /\ UNCHANGED <<ram_start_address, cached_status, breakpointsMap,
                 pendingBreakpointsMap, force_end, after, strays, refused>>

\* Fault: takes every pending address for an offset.
AlwaysOffset(address, ram) == address + ram

\* Where placeEveryPendingBreakpoints puts a breakpoint.
RealAddr(address, ram) == IF address < ram THEN address + ram ELSE address

\* initBDD: the process is attached and stops after its execve. A load address
\* that is already known is not read again. Module Launch has the steps.
initBDD ==
  /\ phase = "init"
  /\ \E base \in Bases :
       LET ram == IF hasStarted THEN ram_start_address ELSE base
           Real(i) == RealAddr(pendingBreakpointsMap[i].address, ram)
           enabled == {i \in DOMAIN pendingBreakpointsMap : Real(i) \in Mapped(base)}
           At(a) == {i \in enabled : Real(i) = a}
           First(a) == CHOOSE i \in At(a) : \A j \in At(a) : i <= j
           Earlier(a) == {Real(i) : i \in {j \in enabled : j < First(a)}}
       IN  /\ ram_start_address' = ram
           /\ \E addr \in {0} \cup ShortAt(base) :
                proc' = [proc EXCEPT ![traced_pid].base = base,
                                     ![traced_pid].at = "exec",
                                     ![traced_pid].addr = addr,
                                     ![traced_pid].planted = {Real(i) : i \in enabled}]
           /\ breakpointsMap' =
                [a \in Addr |->
                   IF At(a) = {} THEN breakpointsMap[a]
                   ELSE TryEmplace(breakpointsMap, a,
                          [pid |-> traced_pid,
                           name |-> pendingBreakpointsMap[First(a)].name,
                           saved |-> Earlier(a) \cap Bytes(a)])[a]]
  /\ cached_status' = StoppedBy(SIGTRAP)
  /\ pendingBreakpointsMap' = <<>>
  /\ phase' = after
  /\ UNCHANGED <<traced_pid, force_end, after, strays, refused>>

Continue ==
  /\ Drive(Continued(proc[traced_pid]))
  /\ phase' = "prompt"
  /\ UNCHANGED <<ram_start_address, traced_pid, breakpointsMap,
                 pendingBreakpointsMap, force_end, after, strays, refused>>

ContinueAfterRun == phase = "continue" /\ Continue

-----------------------------------------------------------------------------
(* The other commands. A question answered with anything but Y, and the    *)
(* commands that only display, change nothing.                             *)

runCommand ==
  /\ Prompt
  /\ \/ ~hasStarted /\ StartRun("continue")
     \/ hasStarted /\ (isDead \/ isExiting) /\ StartRun("prompt")
     \/ hasStarted /\ ~(isDead \/ isExiting) /\ Continue

restartCommand ==
  /\ Prompt
  /\ isAlive /\ ~isExiting
  /\ StartRun("prompt")

stepCommand ==
  /\ Prompt
  /\ isExiting => PastExit
  /\ Drive(Stepped(proc[traced_pid]))
  /\ UNCHANGED <<ram_start_address, traced_pid, breakpointsMap,
                 pendingBreakpointsMap, force_end, phase, after, strays,
                 refused>>

\* `stop' when the program is dead, or still alive after the SIGINT, as it
\* always is: the user may then ask for the SIGKILL, or leave it.
stopCommand ==
  /\ Prompt
  /\ \/ isDead /\ force_end' = TRUE /\ UNCHANGED <<proc, strays>>
     \/ isAlive /\ stopTraced /\ UNCHANGED force_end
     \/ isAlive /\ killTraced /\ force_end' = TRUE
  /\ UNCHANGED <<traced, pendingBreakpointsMap, phase, after, refused>>

killCommand ==
  /\ Prompt
  /\ killTraced
  /\ force_end' = TRUE
  /\ UNCHANGED <<traced, pendingBreakpointsMap, phase, after, refused>>

\* main after the command loop: a last stopTraced, which no program that is left
\* stopped would live to see, and ~TracedProgram, which lets it go.
End ==
  /\ phase = "prompt" /\ force_end
  /\ IF isDead THEN UNCHANGED strays ELSE Signal(traced_pid)
  /\ Die("ended")
  /\ UNCHANGED <<traced, pendingBreakpointsMap, force_end, after, refused>>

Next ==
  \/ \E a \in UserAddr : bpAddress(a)
  \/ \E f \in Functions : bpFunction(f)
  \/ \E word \in OffWords : bpOffCommand(word)
  \/ runCommand
  \/ restartCommand
  \/ stepCommand
  \/ stopCommand
  \/ killCommand
  \/ clearCurrentProcess
  \/ Fork
  \/ initBDD
  \/ ContinueAfterRun
  \/ End
  \/ KilledFromOutside

Spec == Init /\ [][Next]_vars

-----------------------------------------------------------------------------
\* What onIPStopped tells the user before each prompt.
Notice ==
  CASE isExiting -> "exited"
    [] ~isExiting /\ traced_pid \in Pids /\ IsTrappedAtBreakpoint(proc[traced_pid])
         -> "breakpoint"
    [] isSegfault -> "segfault"
    [] OTHER -> "none"

\* The notice is true of the program that is there, whichever launch it is: the
\* cached status and the map, which the notice is made of, never lag behind it.
\* Needs ~PastExit and, as RIP-1 does not tell an INT3 that was executed from an
\* instruction of its length, Unambiguous.
NoticeIsRight ==
  Prompt /\ Live(traced_pid) =>
    Notice = CASE proc[traced_pid].at = "exit" -> "exited"
               [] proc[traced_pid].at = "hit" -> "breakpoint"
               [] proc[traced_pid].at = "segv" -> "segfault"
               [] OTHER -> "none"

\* At most one program is being debugged, and it is the one the debugger would
\* kill: `restart' and a second `run' leave none behind, stopped and untraced.
\* A debugger that ends by itself has killed it.
NoOrphan ==
  \A p \in Pids :
    /\ Live(p) => /\ p = traced_pid
                  /\ phase # "init" => isAlive
    /\ phase = "ended" => ~(proc[p].life = "detached" /\ proc[p].at # "dying")

\* Every INT3 of the live process has an entry and every entry of the map an
\* INT3 in it: the map follows the process through each re-run, and no step over
\* a breakpoint takes the INT3 of another one away. Needs ~PastExit, no `bp off'
\* and Separated.
MapMatchesText ==
  Live(traced_pid) /\ phase # "init" => Placed = proc[traced_pid].planted

\* The load address is that of the process being traced. Needs ~PastExit.
BaseIsCurrent ==
  Live(traced_pid) /\ phase # "init" => ram_start_address = proc[traced_pid].base

\* disable() and enable() patch the process that hit the breakpoint. Same
\* condition.
EntriesAreCurrent == \A a \in Placed : breakpointsMap[a].pid = traced_pid

\* No process is resumed behind an INT3 whose instruction it never executed.
\* Needs ~PastExit.
NeverDerailed == \A p \in Pids : ~proc[p].derailed

\* Signals go to the program being traced, "every process" and strangers that
\* got the pid of one that is gone never get them. Needs ~OutsideKill and
\* ~ForkMayFail.
SignalsStayInside == strays = {}

\* The assertion of getFunctionPhysicalAddress holds. Needs ~PastExit and no
\* `bp off'.
NoAssertionFails == phase # "aborted"

\* A breakpoint asked for before the first `run' is in the text of the program
\* before it runs, wherever that is loaded: "PENDING breakpoints are placed
\* after the first 'run'".
PendingArePlaced ==
  [][pendingBreakpointsMap' = <<>> =>
       \A i \in DOMAIN pendingBreakpointsMap :
         LET b == pendingBreakpointsMap[i] IN
         b.name # 0 =>
           Runtime(proc'[traced_pid].base, b.name) \in proc'[traced_pid].planted]_vars

\* A `bp' by function is placed at that function, whenever it is typed. Needs
\* Pie and ~PastExit.
FunctionsAreFound ==
  /\ "function" \notin refused
  /\ Live(traced_pid) /\ phase # "init" =>
       \A a \in Placed :
         LET f == breakpointsMap[a].name IN
         f # 0 => a = Runtime(proc[traced_pid].base, f)

\* A `bp 0x...' with an address of the ELF file is accepted, whenever it is
\* typed while there is a program. Needs ~Pie and ~PastExit.
ElfAddressesAreFound == "address" \notin refused
================================================================================
