----------------------------- MODULE PromiseProofs -----------------------------
(***************************************************************************)
(* Breakpoints implements IdealDebugger, for every program, word size and  *)
(* choice of breakpoints that meets the restrictions named in each         *)
(* theorem. Three facts join the invariants of BreakpointsProofs: what a   *)
(* phase says of the command being served, that a resume only starts from  *)
(* a hit, and that an instruction under a breakpoint neither faults nor    *)
(* exits.                                                                  *)
(***************************************************************************)
EXTENDS BreakpointsProofs

(* The command being served, in each phase. *)
CommandInv ==
  /\ dbg = "idle" <=> cmd = "none"
  /\ dbg = "cont" => cmd = "cont"

(* The request that the tracee was resumed with. *)
SingleStepInv ==
  /\ tracee = "singlestep" => dbg = "stepping" \/ cmd = "step"
  /\ tracee = "cont" => cmd = "cont"

(* What the step over a breakpoint ends with. *)
SteppedPlainly ==
  dbg \in {"stepping", "enable", "cont"} => tracee \notin {"segv", "exit"}

PlainInv ==
  /\ IInv
  /\ CommandInv
  /\ SingleStepInv
  /\ ResumesHits
  /\ SteppedPlainly

-----------------------------------------------------------------------------
LEMMA CommandInvInductive ==
  /\ Init => CommandInv
  /\ IInv /\ CommandInv /\ [Next]_vars => CommandInv'
  <1>1. Init => CommandInv
    BY DEF Init, CommandInv
  <1>2. ASSUME IInv, CommandInv, [Next]_vars
        PROVE  CommandInv'
    <2>1. CASE Command
      BY <1>2, <2>1
      DEF Command, BreakpointAtAddress, DisableBreakpointAtAddress, PtraceStep,
          PtraceContinue, GetHitBreakpoint, StopTraced, CommandOnGone, vars,
          CommandInv
    <2>2. CASE Debugger
      <3>1. cmd \in {"none", "step", "cont"}
        BY <1>2 DEF IInv, TypeOK
      <3>2. QED
        BY <1>2, <2>2, <3>1
        DEF Debugger, ResumeDisable, PtraceBackwardStep, PtraceRawStep,
            ResumeEnable, ResumeContinue, WaitAndUpdateStatus, CommandInv
    <2>3. CASE Tracee
      BY <1>2, <2>3
      DEF Tracee, TakeSignal, Execute, Trap, Fault, ExitEvent, Die, CommandInv
    <2>4. CASE UNCHANGED vars
      BY <1>2, <2>4 DEF vars, CommandInv
    <2>5. QED
      BY <1>2, <2>1, <2>2, <2>3, <2>4 DEF Next
  <1>3. QED
    BY <1>1, <1>2

LEMMA SingleStepInvInductive ==
  /\ Init => SingleStepInv
  /\ IInv /\ CommandInv /\ SingleStepInv /\ [Next]_vars => SingleStepInv'
  <1>1. Init => SingleStepInv
    BY DEF Init, SingleStepInv
  <1>2. ASSUME IInv, CommandInv, SingleStepInv, [Next]_vars
        PROVE  SingleStepInv'
    <2>1. CASE Command
      <3>1. dbg = "idle" => tracee \notin {"singlestep", "cont"}
        BY <1>2 DEF IInv, PhaseInv, Stopped
      <3>2. QED
        BY <1>2, <2>1, <3>1
        DEF Command, BreakpointAtAddress, DisableBreakpointAtAddress, PtraceStep,
            PtraceContinue, GetHitBreakpoint, Resume, StopTraced, CommandOnGone,
            vars, SingleStepInv
    <2>2. CASE Debugger
      BY <1>2, <2>2
      DEF Debugger, ResumeDisable, PtraceBackwardStep, PtraceRawStep,
          ResumeEnable, ResumeContinue, WaitAndUpdateStatus, Resume, IInv,
          PhaseInv, Stopped, CommandInv, SingleStepInv
    <2>3. CASE Tracee
      BY <1>2, <2>3
      DEF Tracee, TakeSignal, Execute, Trap, Fault, ExitEvent, Die, Alive,
          SingleStepInv
    <2>4. CASE UNCHANGED vars
      BY <1>2, <2>4 DEF vars, SingleStepInv
    <2>5. QED
      BY <1>2, <2>1, <2>2, <2>3, <2>4 DEF Next
  <1>3. QED
    BY <1>1, <1>2

LEMMA SteppedPlainlyInductive ==
  ASSUME Plain
  PROVE  /\ Init => SteppedPlainly
         /\ IInv /\ ResumesHits /\ SteppedPlainly /\ [Next]_vars => SteppedPlainly'
  <1>1. Init => SteppedPlainly
    BY DEF Init, SteppedPlainly
  <1>2. ASSUME IInv, ResumesHits, SteppedPlainly, [Next]_vars
        PROVE  SteppedPlainly'
    <2>1. CASE Command
      BY <1>2, <2>1
      DEF Command, BreakpointAtAddress, DisableBreakpointAtAddress, PtraceStep,
          PtraceContinue, GetHitBreakpoint, StopTraced, CommandOnGone, vars,
          SteppedPlainly
    <2>2. CASE Debugger
      BY <1>2, <2>2
      DEF Debugger, ResumeDisable, PtraceBackwardStep, PtraceRawStep,
          ResumeEnable, ResumeContinue, WaitAndUpdateStatus, Resume,
          ResumesHits, SteppedPlainly
    <2>3. CASE Fault \/ ExitEvent
      <3>1. dbg' = dbg /\ dbg \in {"waiting", "stepping"}
        BY <1>2, <2>3, RunningWaits DEF Fault, ExitEvent, Alive, Running
      <3>2. ASSUME dbg = "stepping" PROVE FALSE
        <4>1. tracee = "singlestep" /\ ip \in FaultAt \cup ExitAt
          BY <1>2, <2>3, <3>2 DEF Fault, ExitEvent, Alive, IInv, PhaseInv
        <4>2. bp.address = ip /\ bp.address \in BpAddr
          BY <1>2, <3>2, <4>1
          DEF IInv, PositionInv, Lifted, EntriesInv, Resuming, Placed
        <4>3. QED
          BY <4>1, <4>2 DEF Plain
      <3>3. QED
        BY <3>1, <3>2 DEF SteppedPlainly
    <2>4. CASE TakeSignal \/ Execute \/ Trap \/ Die
      BY <1>2, <2>4
      DEF TakeSignal, Execute, Trap, Die, Alive, SteppedPlainly
    <2>5. CASE UNCHANGED vars
      BY <1>2, <2>5 DEF vars, SteppedPlainly
    <2>6. QED
      BY <1>2, <2>1, <2>2, <2>3, <2>4, <2>5 DEF Next, Tracee
  <1>3. QED
    BY <1>1, <1>2

LEMMA PlainInvariance ==
  ASSUME Unambiguous, Plain
  PROVE  Spec => []PlainInv
  <1>1. Init => PlainInv
    BY InitIInv, CommandInvInductive, SingleStepInvInductive,
       ResumesHitsInductive, SteppedPlainlyInductive DEF PlainInv
  <1>2. PlainInv /\ [Next]_vars => PlainInv'
    BY NextIInv, CommandInvInductive, SingleStepInvInductive,
       ResumesHitsInductive, SteppedPlainlyInductive DEF PlainInv
  <1>3. QED
    BY <1>1, <1>2, PTL DEF Spec

\* A fault or the exit of the program ends the command being served: ptraceStep
\* and ptraceContinue never resume the tracee from it, unless the user says so.
THEOREM FaultsAndExitAreReported ==
  ASSUME Unambiguous, Plain
  PROVE  Spec => StopsAreReported
  <1>1. ASSUME PlainInv, [Next]_vars,
               tracee \in {"segv", "exit"}, tracee' # tracee
        PROVE  dbg = "idle"
    <2>1. CASE Command
      BY <2>1
      DEF Command, BreakpointAtAddress, DisableBreakpointAtAddress, PtraceStep,
          PtraceContinue, StopTraced, CommandOnGone, vars
    <2>2. CASE Debugger
      BY <1>1, <2>2
      DEF Debugger, ResumeDisable, PtraceBackwardStep, PtraceRawStep,
          ResumeEnable, ResumeContinue, WaitAndUpdateStatus,
          PlainInv, ResumesHits, SteppedPlainly
    <2>3. CASE Tracee
      BY <1>1, <2>3
      DEF Tracee, TakeSignal, Execute, Trap, Fault, ExitEvent, Die, Alive
    <2>4. QED
      BY <1>1, <2>1, <2>2, <2>3 DEF Next, vars
  <1>2. PlainInv /\ [Next]_vars =>
          [(tracee \in {"segv", "exit"} /\ tracee' # tracee => dbg = "idle")]_vars
    BY <1>1
  <1>3. QED
    BY <1>2, PlainInvariance, PTL DEF Spec, StopsAreReported

-----------------------------------------------------------------------------
(* The refinement: what each action is for IdealDebugger.                  *)

PromiseInv == PlainInv /\ PlacedStaysPlanted

Mapped == <<ProgramCounter, Placed, HitBar, ModeBar, sigint>>

\* An instruction without INT3 has no breakpoint, except the one being stepped
\* over, whose hit has been reported.
LEMMA CodeMayPass ==
  ASSUME PromiseInv, Alive, ip \in Addr, mem[ip] = "code"
  PROVE  Promise!MayPass
  <1>1. ProgramCounter = ip
    BY DEF Alive, ProgramCounter
  <1>2. ASSUME ip \in Placed PROVE HitBar
    <2>1. dbg \in {"waiting", "stepping"}
      BY RunningWaits DEF PromiseInv, PlainInv, Alive, Running
    <2>2. dbg = "stepping"
      BY <1>2, <2>1 DEF PromiseInv, PlacedStaysPlanted
    <2>3. tracee = "singlestep"
      BY <2>2 DEF PromiseInv, PlainInv, IInv, PhaseInv, Alive
    <2>4. QED
      BY <2>2, <2>3 DEF HitBar
  <1>3. QED
    BY <1>1, <1>2 DEF Promise!MayPass

\* While it runs, the tracee is busy with the command being served.
LEMMA RunningIsBusy ==
  ASSUME PromiseInv, tracee \in Running
  PROVE  /\ ModeBar = cmd
         /\ cmd \in {"step", "cont"}
         /\ dbg \in {"waiting", "stepping"}
  <1>1. dbg \in {"waiting", "stepping"} /\ tracee \notin Stopped
    BY RunningWaits DEF PromiseInv, PlainInv, Running, Stopped
  <1>2. cmd \in {"step", "cont"}
    BY <1>1 DEF PromiseInv, PlainInv, CommandInv, IInv, TypeOK
  <1>3. QED
    BY <1>1, <1>2 DEF ModeBar

LEMMA InitPromise == Init => Promise!Init
  <1>1. ASSUME Init
        PROVE  /\ ProgramCounter = Entry
               /\ Placed = {}
               /\ HitBar = FALSE
               /\ ModeBar = "prompt"
    BY <1>1 DEF Init, ProgramCounter, Placed, HitBar, ModeBar
  <1>2. Init => sigint = FALSE
    BY Zenon DEF Init
  <1>3. QED
    BY <1>1, <1>2 DEF Promise!Init

LEMMA BreakpointAtAddressPromise ==
  ASSUME PromiseInv, NEW a \in BpAddr, BreakpointAtAddress(a)
  PROVE  Promise!SetBreakpoint(a)
  <1>1. /\ dbg = "idle"
        /\ UNCHANGED <<ip, tracee, dbg, cmd, sigint>>
    BY DEF BreakpointAtAddress
  <1>2. Placed' = Placed \cup {a}
    <2>1. breakpointsMap \in [BpAddr -> Breakpoint \cup {NoBreakpoint}]
      BY DEF PromiseInv, PlainInv, IInv, TypeOK
    <2>2. CASE Contains(a)
      BY <2>2 DEF BreakpointAtAddress, Contains, Placed
    <2>3. CASE ~Contains(a)
      <3>1. PICK word : breakpointsMap' =
              [breakpointsMap EXCEPT ![a] =
                 [address |-> a, original |-> word, enabled |-> TRUE]]
        BY <2>3 DEF BreakpointAtAddress
      <3>2. [address |-> a, original |-> word, enabled |-> TRUE] # NoBreakpoint
        BY BpAddrInText DEF NoBreakpoint, Addr
      <3>3. QED
        BY <2>1, <3>1, <3>2 DEF Placed
    <2>4. QED
      BY <2>2, <2>3
  <1>3. UNCHANGED <<ProgramCounter, HitBar, ModeBar>> /\ ModeBar = "prompt"
    BY <1>1 DEF ProgramCounter, HitBar, ModeBar
  <1>4. QED
    BY <1>1, <1>2, <1>3 DEF Promise!SetBreakpoint

LEMMA ResumePromise ==
  ASSUME PromiseInv, HitIsExact, PtraceStep \/ PtraceContinue
  PROVE  Promise!Serve(cmd')
  <1>1. /\ dbg = "idle"
        /\ dbg' \in {"disable", "waiting"}
        /\ cmd' \in {"step", "cont"}
        /\ tracee # "gone"
        /\ UNCHANGED <<ip, breakpointsMap, sigint>>
    BY DEF PtraceStep, PtraceContinue, GetHitBreakpoint
  <1>2. UNCHANGED <<ProgramCounter, HitBar>>
    <2>1. CASE IsTrappedAtBreakpoint
      BY <1>1, <2>1
      DEF PtraceStep, PtraceContinue, GetHitBreakpoint, ProgramCounter, HitBar
    <2>2. CASE ~IsTrappedAtBreakpoint
      <3>1. tracee # "int3"
        BY <1>1, <2>2 DEF HitIsExact
      <3>2. /\ dbg' = "waiting"
            /\ \/ tracee = "exit" /\ tracee' = "dying"
               \/ tracee # "exit" /\ tracee' \in {"singlestep", "cont"}
        BY <2>2 DEF PtraceStep, PtraceContinue, Resume
      <3>3. tracee \in Stopped
        BY <1>1 DEF PromiseInv, PlainInv, IInv, PhaseInv
      <3>4. QED
        BY <1>1, <3>1, <3>2, <3>3 DEF ProgramCounter, HitBar, Stopped
    <2>3. QED
      BY <2>1, <2>2
  <1>3. ModeBar' = cmd'
    <2>1. CASE dbg' = "disable"
      BY <1>1, <2>1 DEF ModeBar
    <2>2. CASE dbg' = "waiting"
      <3>1. tracee' \in Running
        BY <2>2 DEF PtraceStep, PtraceContinue, GetHitBreakpoint, Resume, Running
      <3>2. QED
        BY <2>2, <3>1 DEF ModeBar, Running, Stopped
    <2>3. QED
      BY <1>1, <2>1, <2>2
  <1>4. Placed' = Placed /\ ModeBar = "prompt"
    BY <1>1 DEF Placed, ModeBar
  <1>5. QED
    BY <1>1, <1>2, <1>3, <1>4 DEF Promise!Serve

LEMMA StopTracedPromise ==
  ASSUME StopTraced
  PROVE  Promise!AskToStop
  <1>1. UNCHANGED <<ProgramCounter, Placed, HitBar, ModeBar>> /\ ModeBar = "prompt"
    BY DEF StopTraced, ProgramCounter, Placed, HitBar, ModeBar
  <1>2. QED
    BY <1>1 DEF StopTraced, Promise!AskToStop

\* The requests of resumeBreakpoint are invisible, except that the last one of a
\* step, and the waitpid of any other command, report.
LEMMA DebuggerPromise ==
  ASSUME PromiseInv, Debugger
  PROVE  Promise!Report \/ UNCHANGED Mapped
  <1>1. CASE ResumeDisable
    BY <1>1 DEF ResumeDisable, ProgramCounter, Placed, HitBar, ModeBar, Mapped
  <1>2. CASE PtraceBackwardStep
    BY <1>2
    DEF PtraceBackwardStep, GetIP, PromiseInv, PlainInv, ResumesHits,
        ProgramCounter, Placed, HitBar, ModeBar, Mapped
  <1>3. CASE PtraceRawStep
    BY <1>3
    DEF PtraceRawStep, Resume, PromiseInv, PlainInv, ResumesHits, Stopped,
        ProgramCounter, Placed, HitBar, ModeBar, Mapped
  <1>4. CASE ResumeEnable
    <2>1. /\ dbg = "enable" /\ tracee \in {"step", "sigint"}
          /\ cmd \in {"step", "cont"}
      BY <1>4
      DEF ResumeEnable, PromiseInv, PlainInv, CommandInv, IInv, PhaseInv,
          TypeOK, SteppedPlainly
    <2>2. UNCHANGED <<ProgramCounter, Placed, HitBar, sigint>>
      BY <1>4, <2>1 DEF ResumeEnable, ProgramCounter, Placed, HitBar
    <2>3. CASE cmd = "step"
      <3>1. ModeBar = "halted" /\ ModeBar' = "prompt"
        BY <1>4, <2>1, <2>3 DEF ResumeEnable, ModeBar
      <3>2. QED
        BY <2>2, <3>1 DEF Promise!Report
    <2>4. CASE cmd = "cont"
      <3>1. ModeBar = cmd /\ ModeBar' = cmd
        BY <1>4, <2>1, <2>4 DEF ResumeEnable, ModeBar
      <3>2. QED
        BY <2>2, <3>1 DEF Mapped
    <2>5. QED
      BY <2>1, <2>3, <2>4
  <1>5. CASE ResumeContinue
    BY <1>5
    DEF ResumeContinue, Resume, PromiseInv, PlainInv, CommandInv, IInv, PhaseInv,
        SteppedPlainly, Stopped, ProgramCounter, Placed, HitBar, ModeBar, Mapped
  <1>6. CASE WaitAndUpdateStatus
    <2>1. tracee \in Stopped /\ tracee' = tracee /\ tracee \notin {"dying", "singlestep"}
      BY <1>6 DEF WaitAndUpdateStatus, Stopped
    <2>2. UNCHANGED <<ip, breakpointsMap, sigint>>
      BY <1>6 DEF WaitAndUpdateStatus
    <2>3. UNCHANGED <<ProgramCounter, Placed, HitBar>>
      BY <1>6, <2>1, <2>2 DEF WaitAndUpdateStatus, ProgramCounter, Placed, HitBar
    <2>4. cmd \in {"step", "cont"}
      BY <1>6
      DEF WaitAndUpdateStatus, PromiseInv, PlainInv, CommandInv, IInv, TypeOK
    <2>5. CASE dbg = "stepping"
      <3>1. ModeBar' = ModeBar
        BY <1>6, <2>1, <2>4, <2>5 DEF WaitAndUpdateStatus, ModeBar
      <3>2. QED
        BY <2>2, <2>3, <3>1 DEF Mapped
    <2>6. CASE dbg = "waiting"
      <3>1. ModeBar = "halted" /\ ModeBar' = "prompt"
        BY <1>6, <2>1, <2>4, <2>6 DEF WaitAndUpdateStatus, ModeBar
      <3>2. QED
        BY <2>2, <2>3, <3>1 DEF Promise!Report
    <2>7. QED
      BY <1>6, <2>5, <2>6 DEF WaitAndUpdateStatus
  <1>7. QED
    BY <1>1, <1>2, <1>3, <1>4, <1>5, <1>6 DEF Debugger

LEMMA TakeSignalPromise ==
  ASSUME PromiseInv, TakeSignal
  PROVE  Promise!StopOnRequest
  <1>1. /\ Alive /\ sigint /\ sigint' = FALSE /\ tracee' = "sigint"
        /\ UNCHANGED <<mem, ip, breakpointsMap, dbg, cmd, bp>>
    BY DEF TakeSignal
  <1>2. /\ ModeBar = cmd /\ cmd \in {"step", "cont"}
        /\ dbg \in {"waiting", "stepping"}
    BY <1>1, RunningIsBusy DEF Alive, Running
  <1>3. UNCHANGED <<ProgramCounter, Placed>> /\ HitBar' = FALSE
    BY <1>1, <1>2 DEF Alive, ProgramCounter, Placed, HitBar
  <1>4. \/ ModeBar' = "halted"
        \/ ModeBar = "cont" /\ HitBar /\ ModeBar' = ModeBar
    <2>1. CASE cmd = "step" \/ dbg = "waiting"
      BY <1>1, <1>2, <2>1 DEF ModeBar, Stopped
    <2>2. CASE cmd = "cont" /\ dbg = "stepping"
      <3>1. tracee = "singlestep"
        BY <1>1, <2>2 DEF Alive, PromiseInv, PlainInv, IInv, PhaseInv
      <3>2. QED
        BY <1>1, <1>2, <2>2, <3>1 DEF ModeBar, HitBar, Stopped
    <2>3. QED
      BY <1>2, <2>1, <2>2
  <1>5. QED
    BY <1>1, <1>2, <1>3, <1>4 DEF Promise!StopOnRequest, Promise!Busy

LEMMA ExecutePromise ==
  ASSUME PromiseInv, Execute
  PROVE  Promise!Execute
  <1>1. /\ Alive /\ ~sigint /\ ip \in Instr /\ mem[ip] = "code" /\ ip' \in Succ[ip]
        /\ tracee' = IF tracee = "singlestep" THEN "step" ELSE tracee
        /\ UNCHANGED <<mem, breakpointsMap, dbg, cmd, bp, sigint>>
    BY DEF Execute
  <1>2. /\ ModeBar = cmd /\ cmd \in {"step", "cont"}
        /\ dbg \in {"waiting", "stepping"}
    BY <1>1, RunningIsBusy DEF Alive, Running
  <1>3. Promise!MayPass
    BY <1>1, CodeMayPass, LayoutAssumption
  <1>4. /\ ProgramCounter = ip /\ ProgramCounter' = ip'
        /\ Placed' = Placed
        /\ HitBar' = FALSE
    BY <1>1, <1>2 DEF Alive, ProgramCounter, Placed, HitBar
  <1>5. ModeBar' = IF cmd = "step" THEN "halted" ELSE cmd
    <2>1. CASE tracee = "singlestep"
      <3>1. cmd = "cont" => dbg = "stepping"
        BY <1>1, <1>2, <2>1 DEF PromiseInv, PlainInv, SingleStepInv
      <3>2. QED
        BY <1>1, <1>2, <2>1, <3>1 DEF ModeBar, Stopped
    <2>2. CASE tracee = "cont"
      <3>1. dbg = "waiting" /\ cmd = "cont"
        BY <1>1, <1>2, <2>2 DEF PromiseInv, PlainInv, SingleStepInv, IInv, PhaseInv
      <3>2. QED
        BY <1>1, <2>2, <3>1 DEF ModeBar, Stopped
    <2>3. QED
      BY <1>1, <2>1, <2>2 DEF Alive
  <1>6. QED
    BY <1>1, <1>2, <1>3, <1>4, <1>5 DEF Promise!Execute, Promise!Busy

LEMMA TrapPromise ==
  ASSUME PromiseInv, Trap
  PROVE  Promise!StopBefore
  <1>1. /\ Alive /\ ~sigint /\ ip \in Addr /\ mem[ip] = "INT3"
        /\ ip' = ip + 1 /\ tracee' = "int3"
        /\ UNCHANGED <<mem, breakpointsMap, dbg, cmd, bp, sigint>>
    BY DEF Trap
  <1>2. /\ ModeBar = cmd /\ cmd \in {"step", "cont"}
        /\ dbg \in {"waiting", "stepping"}
    BY <1>1, RunningIsBusy DEF Alive, Running
  <1>3. dbg = "waiting"
    BY <1>1, <1>2
    DEF PromiseInv, PlainInv, IInv, PhaseInv, PositionInv, LiftedInv, Lifted, Alive
  <1>4. ip \in Placed
    BY <1>1 DEF PromiseInv, PlainInv, IInv, EveryTrapKnown
  <1>5. /\ ProgramCounter = ip /\ ProgramCounter' = ip
        /\ Placed' = Placed
        /\ HitBar = FALSE /\ HitBar' = TRUE
    BY <1>1, <1>3, <1>4, BpAddrInText
    DEF Alive, ProgramCounter, Placed, HitBar
  <1>6. ModeBar' = "halted"
    BY <1>1, <1>2, <1>3 DEF ModeBar, Stopped
  <1>7. QED
    BY <1>1, <1>2, <1>4, <1>5, <1>6 DEF Promise!StopBefore, Promise!Busy

LEMMA FaultPromise ==
  ASSUME PromiseInv, PromiseInv', Fault
  PROVE  Promise!Fault
  <1>1. /\ Alive /\ ~sigint /\ ip \in FaultAt /\ mem[ip] = "code" /\ tracee' = "segv"
        /\ UNCHANGED <<mem, ip, breakpointsMap, dbg, cmd, bp, sigint>>
    BY DEF Fault
  <1>2. /\ ModeBar = cmd /\ cmd \in {"step", "cont"}
        /\ dbg \in {"waiting", "stepping"}
    BY <1>1, RunningIsBusy DEF Alive, Running
  <1>3. dbg = "waiting"
    BY <1>1, <1>2 DEF PromiseInv, PlainInv, SteppedPlainly
  <1>4. Promise!MayPass
    BY <1>1, CodeMayPass, LayoutAssumption
  <1>5. /\ ProgramCounter = ip
        /\ UNCHANGED <<ProgramCounter, Placed, HitBar>>
        /\ ModeBar' = "halted"
    BY <1>1, <1>2, <1>3 DEF Alive, ProgramCounter, Placed, HitBar, ModeBar, Stopped
  <1>6. QED
    BY <1>1, <1>2, <1>4, <1>5 DEF Promise!Fault, Promise!Busy

LEMMA ExitEventPromise ==
  ASSUME PromiseInv, PromiseInv', ExitEvent
  PROVE  Promise!Exit
  <1>1. /\ Alive /\ ~sigint /\ ip \in ExitAt /\ mem[ip] = "code" /\ tracee' = "exit"
        /\ UNCHANGED <<mem, breakpointsMap, dbg, cmd, bp, sigint>>
    BY DEF ExitEvent
  <1>2. /\ ModeBar = cmd /\ cmd \in {"step", "cont"}
        /\ dbg \in {"waiting", "stepping"}
    BY <1>1, RunningIsBusy DEF Alive, Running
  <1>3. dbg = "waiting"
    BY <1>1, <1>2 DEF PromiseInv, PlainInv, SteppedPlainly
  <1>4. Promise!MayPass
    BY <1>1, CodeMayPass, LayoutAssumption
  <1>5. /\ ProgramCounter = ip /\ ProgramCounter' = Exited
        /\ Placed' = Placed /\ HitBar' = FALSE
        /\ ModeBar' = "halted"
    BY <1>1, <1>2, <1>3 DEF Alive, ProgramCounter, Placed, HitBar, ModeBar, Stopped
  <1>6. QED
    BY <1>1, <1>2, <1>4, <1>5 DEF Promise!Exit, Promise!Busy

LEMMA DiePromise ==
  ASSUME PromiseInv, Die
  PROVE  Promise!Die
  <1>1. /\ tracee = "dying" /\ tracee' = "gone"
        /\ UNCHANGED <<mem, ip, breakpointsMap, dbg, cmd, bp, sigint>>
    BY DEF Die
  <1>2. /\ ModeBar = cmd /\ cmd \in {"step", "cont"}
        /\ dbg \in {"waiting", "stepping"}
    BY <1>1, RunningIsBusy DEF Running
  <1>3. dbg = "waiting"
    BY <1>1, <1>2 DEF PromiseInv, PlainInv, IInv, PhaseInv
  <1>4. /\ ProgramCounter = Exited
        /\ UNCHANGED <<ProgramCounter, Placed, HitBar>>
        /\ ModeBar' = "halted"
    BY <1>1, <1>2, <1>3 DEF ProgramCounter, Placed, HitBar, ModeBar, Stopped
  <1>5. QED
    BY <1>1, <1>2, <1>4 DEF Promise!Die, Promise!Busy

LEMMA NextPromise ==
  ASSUME PromiseInv, PromiseInv', HitIsExact, OffAddr = {}, [Next]_vars
  PROVE  Promise!Next \/ UNCHANGED Mapped
  <1>1. CASE Command
    <2>1. ASSUME NEW a \in BpAddr, BreakpointAtAddress(a) PROVE Promise!Next
      BY <2>1, BreakpointAtAddressPromise DEF Promise!Next
    <2>2. CASE PtraceStep \/ PtraceContinue
      <3>1. cmd' \in {"step", "cont"}
        BY <2>2 DEF PtraceStep, PtraceContinue
      <3>2. QED
        BY <2>2, <3>1, ResumePromise DEF Promise!Next
    <2>3. CASE StopTraced
      BY <2>3, StopTracedPromise DEF Promise!Next
    <2>4. CASE CommandOnGone
      BY <2>4
      DEF CommandOnGone, vars, Mapped, ProgramCounter, Placed, HitBar, ModeBar
    <2>5. QED
      BY <1>1, <2>1, <2>2, <2>3, <2>4 DEF Command
  <1>2. CASE Debugger
    BY <1>2, DebuggerPromise DEF Promise!Next
  <1>3. CASE Tracee
    BY <1>3, TakeSignalPromise, ExecutePromise, TrapPromise, FaultPromise,
       ExitEventPromise, DiePromise
    DEF Tracee, Promise!Next
  <1>4. CASE UNCHANGED vars
    BY <1>4 DEF vars, Mapped, ProgramCounter, Placed, HitBar, ModeBar
  <1>5. QED
    BY <1>1, <1>2, <1>3, <1>4 DEF Next

\* The debugger keeps the promise of IdealDebugger: breakpoints stop the program
\* before their instruction and only there, a step executes one instruction, a
\* continue goes on to the next stop, and every fault, hit, request to stop and
\* exit is reported; text, saved words, rewinding and the step over a breakpoint
\* are invisible.
THEOREM KeepsPromise ==
  ASSUME Unambiguous, Separated, Plain, OffAddr = {}
  PROVE  Spec => ImplementsPromise
  <1>1. Spec => [](PromiseInv /\ HitIsExact)
    <2>1. PlainInv /\ PlacedStaysPlanted => PromiseInv
      BY DEF PromiseInv
    <2>2. QED
      BY <2>1, PlainInvariance, PlacedAlwaysPlanted, HitsAreExact, PTL
  <1>2. PromiseInv /\ PromiseInv' /\ HitIsExact /\ [Next]_vars
          => [Promise!Next]_(Promise!vars)
    BY NextPromise DEF Mapped, Promise!vars
  <1>3. QED
    BY <1>1, <1>2, InitPromise, PTL DEF Spec, ImplementsPromise, Promise!Spec
================================================================================
