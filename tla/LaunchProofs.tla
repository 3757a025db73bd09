------------------------------ MODULE LaunchProofs ------------------------------
(***************************************************************************)
(* Proofs about Launch: the two processes of a launch, for every           *)
(* interleaving, and the launch that Session takes for one step.           *)
(***************************************************************************)
EXTENDS Launch, TLAPS

\* The debugger's program counters, by what it knows of the child: it has not
\* reaped its last stop yet, or it has.
Expecting == {"sayAttach", "attach", "waitAttach", "wait", "waitLocked"}
Informed == {"setOptions", "sayCont", "cont", "getAddress", "place", "sayReady",
             "lock", "contLocked", "unlock", "sayDone", "prompt"}
Unattached == {"sayAttach", "attach", "waitAttach"}
Attaching == {"setOptions", "sayCont", "cont"}
Arming == {"getAddress", "place", "sayReady", "lock", "contLocked"}
Reporting == {"unlock", "sayDone", "prompt"}

\* Where execv failed.
Failed == {"sayExit", "vainCont", "sayPrompt", "loop", "over"}

\* The mutex is held for messages that are printed.
LockInv ==
  /\ lock = "bdd" => Printed(bdd)
  /\ lock = "child" => Printed(child)

\* Each stop of the child is news once, and the debugger acts on it when it has
\* read it: it never takes a child for stopped that runs.
NewsInv ==
  /\ bdd = "fork" => /\ run = "none" /\ child = "none"
                     /\ ~news /\ ~traced /\ ~sigstop /\ ~planted /\ ~early
  /\ bdd \in Expecting => /\ run # "none"
                          /\ news <=> run \in {"stopped", "exiting", "dead"}
  /\ bdd \in Informed => ~news /\ run \in {"stopped", "exiting", "reaped"}
  /\ bdd = "threw" => run = "reaped"

\* A program that could be executed is not dead before it has been asked to stop at
\* its exit, attached in time or not: it first stops at its execve.
ExecInv ==
  ~execFails =>
    /\ child \notin Failed
    /\ bdd \in Unattached => /\ run \in {"running", "stopped"}
                             /\ child = "program" => run = "stopped"
    /\ bdd \in Attaching => run = "stopped"
    /\ bdd \in {"sayCont", "cont", "wait"} => options
    /\ bdd = "wait" => run \in {"running", "stopped", "exiting"}
    /\ bdd = "getAddress" => run \in {"stopped", "exiting"}
    /\ bdd # "threw"

\* A launch that is attached in time, step by step: the child sleeps until it is
\* attached, and each of the two moves only when the other waits.
TimelyInv ==
  timely =>
    /\ ~early
    /\ bdd \in {"sayAttach", "attach"} =>
         child = "sleep" /\ run = "running" /\ ~traced /\ ~sigstop
    /\ bdd = "waitAttach" =>
         child = "sleep" /\ traced /\ run = (IF sigstop THEN "running" ELSE "stopped")
    /\ bdd \in Attaching => child = "sleep" /\ run = "stopped"
    /\ bdd \notin {"fork"} \cup Unattached => ~sigstop
    /\ bdd \notin {"fork", "setOptions"} \cup Unattached => options
    /\ bdd \in Unattached \cup Attaching \cup {"wait", "getAddress", "place"} => ~planted
    /\ bdd \notin {"getAddress", "place"} /\ bdd \in Arming \cup {"waitLocked"} \cup Reporting =>
         (child = "program" => planted)
    /\ bdd = "wait" =>
         \/ run = "running" /\ child \notin {"none", "program", "over"}
         \/ run = "stopped" /\ child = "program"
         \/ run = "exiting" /\ child = "over"
    /\ bdd \in Arming =>
         \/ run = "stopped" /\ child = "program"
         \/ run = "exiting" /\ child = "over"
    /\ bdd = "waitLocked" =>
         \/ run \in {"running", "stopped", "exiting"} /\ child = "program"
         \/ run = "dead" /\ child = "over"
    /\ bdd \in Reporting =>
         \/ run \in {"stopped", "exiting"} /\ child = "program"
         \/ run = "reaped" /\ child = "over"
    /\ bdd # "threw"

\* TypeOK in two parts, for two provers.
Places ==
  /\ bdd \in BddPc
  /\ child \in ChildPc
  /\ \/ lock = "free"
     \/ lock = "bdd" /\ bdd \in DOMAIN BddSays
                             \cup {"contLocked", "waitLocked", "unlock"}
     \/ lock = "child" /\ child \in DOMAIN ChildSays
  /\ run \in {"none", "running", "stopped", "exiting", "dead", "reaped"}

Flags ==
  /\ debug \in BOOLEAN /\ timely \in BOOLEAN /\ execFails \in BOOLEAN
  /\ traced \in BOOLEAN /\ options \in BOOLEAN /\ sigstop \in BOOLEAN
  /\ news \in BOOLEAN /\ planted \in BOOLEAN /\ early \in BOOLEAN

LaunchInv == TypeOK /\ LockInv /\ NewsInv /\ ExecInv /\ TimelyInv

\* The tables of what follows a message, and a wait.
LEMMA Says ==
  /\ DOMAIN BddSays = {"sayAttach", "sayCont", "sayReady", "sayDone"}
  /\ BddSays["sayAttach"] = "attach" /\ BddSays["sayCont"] = "cont"
  /\ BddSays["sayReady"] = "lock" /\ BddSays["sayDone"] = "prompt"
  /\ DOMAIN ChildSays = {"sayInit", "sayArgs", "sayReady", "sayExit", "vainCont",
                         "sayPrompt"}
  /\ ChildSays["sayInit"] = "traceme" /\ ChildSays["sayArgs"] = "sayReady"
  /\ ChildSays["sayReady"] = "exec" /\ ChildSays["sayExit"] = "vainCont"
  /\ ChildSays["vainCont"] = "sayPrompt"
  /\ ChildSays["sayPrompt"] = "loop"
  /\ DOMAIN AfterWait = {"waitAttach", "wait", "waitLocked"}
  /\ AfterWait["waitAttach"] = "setOptions" /\ AfterWait["wait"] = "getAddress"
  /\ AfterWait["waitLocked"] = "unlock"
  BY DEF BddSays, ChildSays, AfterWait

LEMMA LaunchInvInit == Init => LaunchInv
  BY Says DEF Init, LaunchInv, TypeOK, LockInv, NewsInv, ExecInv, TimelyInv, BddPc, ChildPc,
              Expecting, Informed, Unattached, Attaching, Arming, Reporting, Failed, Printed

-----------------------------------------------------------------------------
LEMMA LaunchInvNext == LaunchInv /\ [Next]_vars => LaunchInv'
<1> SUFFICES ASSUME LaunchInv, [Next]_vars PROVE LaunchInv'
  OBVIOUS
<1> USE Says DEF LaunchInv, vars, chance, kernel, BddPc, ChildPc, Printed, DebugOnly,
                 Expecting, Informed, Unattached, Attaching, Arming, Reporting, Failed
<1>1. CASE BddSay
  <2> USE <1>1 DEF BddSay
  <2>1. TypeOK'
    BY DEF TypeOK, NewsInv, LockInv
  <2>2. LockInv'
    BY DEF TypeOK, LockInv
  <2>3. NewsInv'
    BY DEF TypeOK, NewsInv
  <2>4. ExecInv'
    BY DEF TypeOK, NewsInv, ExecInv
  <2>5. TimelyInv'
    BY DEF TypeOK, NewsInv, TimelyInv
  <2> QED
    BY <2>1, <2>2, <2>3, <2>4, <2>5
<1>2. CASE ChildSay
  <2> USE <1>2 DEF ChildSay
  <2>1. TypeOK'
    BY DEF TypeOK, NewsInv, LockInv
  <2>2. LockInv'
    BY DEF TypeOK, LockInv
  <2>3. NewsInv'
    BY DEF TypeOK, NewsInv
  <2>4. ExecInv'
    BY DEF TypeOK, NewsInv, ExecInv
  <2>5. TimelyInv'
    BY DEF TypeOK, NewsInv, TimelyInv
  <2> QED
    BY <2>1, <2>2, <2>3, <2>4, <2>5
<1>3. CASE Fork
  <2> USE <1>3 DEF Fork
  <2>1. TypeOK'
    BY DEF TypeOK, NewsInv, LockInv
  <2>2. LockInv'
    BY DEF TypeOK, LockInv
  <2>3. NewsInv'
    BY DEF TypeOK, NewsInv
  <2>4. ExecInv'
    BY DEF TypeOK, NewsInv, ExecInv
  <2>5. TimelyInv'
    BY DEF TypeOK, NewsInv, TimelyInv
  <2> QED
    BY <2>1, <2>2, <2>3, <2>4, <2>5
<1>4. CASE Attach
  <2> USE <1>4 DEF Attach
  <2>1. TypeOK'
    <3>1. Places'
      BY DEF TypeOK, Places, NewsInv, LockInv
    <3>2. Flags'
      BY Zenon DEF TypeOK, Flags, NewsInv
    <3> QED
      BY Zenon, <3>1, <3>2 DEF TypeOK, Places, Flags
  <2>2. LockInv'
    BY DEF TypeOK, LockInv
  <2>3. NewsInv'
    BY DEF TypeOK, NewsInv
  <2>4. ExecInv'
    BY DEF TypeOK, NewsInv, ExecInv
  <2>5. TimelyInv'
    BY DEF TypeOK, NewsInv, TimelyInv
  <2> QED
    BY <2>1, <2>2, <2>3, <2>4, <2>5
<1>5. CASE Wait
  <2> USE <1>5 DEF Wait
  <2>1. TypeOK'
    <3>1. Places'
      BY DEF TypeOK, Places, NewsInv, LockInv
    <3>2. Flags'
      BY Zenon DEF TypeOK, Flags, NewsInv
    <3> QED
      BY Zenon, <3>1, <3>2 DEF TypeOK, Places, Flags
  <2>2. LockInv'
    BY DEF TypeOK, LockInv
  <2>3. NewsInv'
    BY DEF TypeOK, NewsInv
  <2>4. ExecInv'
    BY DEF TypeOK, NewsInv, ExecInv
  <2>5. TimelyInv'
    BY DEF TypeOK, NewsInv, TimelyInv
  <2> QED
    BY <2>1, <2>2, <2>3, <2>4, <2>5
<1>6. CASE SetOptions
  <2> USE <1>6 DEF SetOptions
  <2>1. TypeOK'
    BY DEF TypeOK, NewsInv, LockInv
  <2>2. LockInv'
    BY DEF TypeOK, LockInv
  <2>3. NewsInv'
    BY DEF TypeOK, NewsInv
  <2>4. ExecInv'
    BY DEF TypeOK, NewsInv, ExecInv
  <2>5. TimelyInv'
    BY DEF TypeOK, NewsInv, TimelyInv
  <2> QED
    BY <2>1, <2>2, <2>3, <2>4, <2>5
<1>7. CASE Cont
  <2> USE <1>7 DEF Cont, Resume
  <2>1. TypeOK'
    <3>1. Places'
      BY DEF TypeOK, Places, NewsInv, LockInv
    <3>2. Flags'
      BY Zenon DEF TypeOK, Flags, NewsInv
    <3> QED
      BY Zenon, <3>1, <3>2 DEF TypeOK, Places, Flags
  <2>2. LockInv'
    BY DEF TypeOK, LockInv
  <2>3. NewsInv'
    BY DEF TypeOK, NewsInv
  <2>4. ExecInv'
    BY DEF TypeOK, NewsInv, ExecInv
  <2>5. TimelyInv'
    BY DEF TypeOK, NewsInv, TimelyInv
  <2> QED
    BY <2>1, <2>2, <2>3, <2>4, <2>5
<1>8. CASE GetAddress
  <2> USE <1>8 DEF GetAddress
  <2>1. TypeOK'
    BY DEF TypeOK, NewsInv, LockInv
  <2>2. LockInv'
    BY DEF TypeOK, LockInv
  <2>3. NewsInv'
    BY DEF TypeOK, NewsInv
  <2>4. ExecInv'
    BY DEF TypeOK, NewsInv, ExecInv
  <2>5. TimelyInv'
    BY DEF TypeOK, NewsInv, TimelyInv
  <2> QED
    BY <2>1, <2>2, <2>3, <2>4, <2>5
<1>9. CASE PlaceEveryPendingBreakpoints
  <2> USE <1>9 DEF PlaceEveryPendingBreakpoints
  <2>1. TypeOK'
    BY DEF TypeOK, NewsInv, LockInv
  <2>2. LockInv'
    BY DEF TypeOK, LockInv
  <2>3. NewsInv'
    BY DEF TypeOK, NewsInv
  <2>4. ExecInv'
    BY DEF TypeOK, NewsInv, ExecInv
  <2>5. TimelyInv'
    BY DEF TypeOK, NewsInv, TimelyInv
  <2> QED
    BY <2>1, <2>2, <2>3, <2>4, <2>5
<1>10. CASE LockPrint
  <2> USE <1>10 DEF LockPrint
  <2>1. TypeOK'
    BY DEF TypeOK, NewsInv, LockInv
  <2>2. LockInv'
    BY DEF TypeOK, LockInv
  <2>3. NewsInv'
    BY DEF TypeOK, NewsInv
  <2>4. ExecInv'
    BY DEF TypeOK, NewsInv, ExecInv
  <2>5. TimelyInv'
    BY DEF TypeOK, NewsInv, TimelyInv
  <2> QED
    BY <2>1, <2>2, <2>3, <2>4, <2>5
<1>11. CASE UnlockPrint
  <2> USE <1>11 DEF UnlockPrint
  <2>1. TypeOK'
    BY DEF TypeOK, NewsInv, LockInv
  <2>2. LockInv'
    BY DEF TypeOK, LockInv
  <2>3. NewsInv'
    BY DEF TypeOK, NewsInv
  <2>4. ExecInv'
    BY DEF TypeOK, NewsInv, ExecInv
  <2>5. TimelyInv'
    BY DEF TypeOK, NewsInv, TimelyInv
  <2> QED
    BY <2>1, <2>2, <2>3, <2>4, <2>5
<1>12. CASE RunAgain
  <2> USE <1>12 DEF RunAgain
  <2>1. TypeOK'
    BY DEF TypeOK, NewsInv, LockInv
  <2>2. LockInv'
    BY DEF TypeOK, LockInv
  <2>3. NewsInv'
    BY DEF TypeOK, NewsInv
  <2>4. ExecInv'
    BY DEF TypeOK, NewsInv, ExecInv
  <2>5. TimelyInv'
    BY DEF TypeOK, NewsInv, TimelyInv
  <2> QED
    BY <2>1, <2>2, <2>3, <2>4, <2>5
<1>13. CASE TakeSigstop
  <2> USE <1>13 DEF TakeSigstop, StopAs
  <2>1. TypeOK'
    <3>1. Places'
      BY DEF TypeOK, Places, NewsInv, LockInv
    <3>2. Flags'
      BY Zenon DEF TypeOK, Flags, NewsInv
    <3> QED
      BY Zenon, <3>1, <3>2 DEF TypeOK, Places, Flags
  <2>2. LockInv'
    BY DEF TypeOK, LockInv
  <2>3. NewsInv'
    BY DEF TypeOK, NewsInv
  <2>4. ExecInv'
    BY DEF TypeOK, NewsInv, ExecInv
  <2>5. TimelyInv'
    BY DEF TypeOK, NewsInv, TimelyInv
  <2> QED
    BY <2>1, <2>2, <2>3, <2>4, <2>5
<1>14. CASE Sleep
  <2> USE <1>14 DEF Sleep
  <2>1. TypeOK'
    BY DEF TypeOK, NewsInv, LockInv
  <2>2. LockInv'
    BY DEF TypeOK, LockInv
  <2>3. NewsInv'
    BY DEF TypeOK, NewsInv
  <2>4. ExecInv'
    BY DEF TypeOK, NewsInv, ExecInv
  <2>5. TimelyInv'
    BY DEF TypeOK, NewsInv, TimelyInv
  <2> QED
    BY <2>1, <2>2, <2>3, <2>4, <2>5
<1>15. CASE TraceMe
  <2> USE <1>15 DEF TraceMe
  <2>1. TypeOK'
    BY DEF TypeOK, NewsInv, LockInv
  <2>2. LockInv'
    BY DEF TypeOK, LockInv
  <2>3. NewsInv'
    BY DEF TypeOK, NewsInv
  <2>4. ExecInv'
    BY DEF TypeOK, NewsInv, ExecInv
  <2>5. TimelyInv'
    BY DEF TypeOK, NewsInv, TimelyInv
  <2> QED
    BY <2>1, <2>2, <2>3, <2>4, <2>5
<1>16. CASE Exec
  <2> USE <1>16 DEF Exec, StopAs
  <2>1. TypeOK'
    <3>1. Places'
      BY DEF TypeOK, Places, NewsInv, LockInv
    <3>2. Flags'
      BY Zenon DEF TypeOK, Flags, NewsInv
    <3> QED
      BY Zenon, <3>1, <3>2 DEF TypeOK, Places, Flags
  <2>2. LockInv'
    BY DEF TypeOK, LockInv
  <2>3. NewsInv'
    BY DEF TypeOK, NewsInv
  <2>4. ExecInv'
    BY DEF TypeOK, NewsInv, ExecInv
  <2>5. TimelyInv'
    BY DEF TypeOK, NewsInv, TimelyInv
  <2> QED
    BY <2>1, <2>2, <2>3, <2>4, <2>5
<1>17. CASE Program
  <2> USE <1>17 DEF Program, StopAs, Exit
  <2>1. TypeOK'
    <3>1. Places'
      BY DEF TypeOK, Places, NewsInv, LockInv
    <3>2. Flags'
      BY Zenon DEF TypeOK, Flags, NewsInv
    <3> QED
      BY Zenon, <3>1, <3>2 DEF TypeOK, Places, Flags
  <2>2. LockInv'
    BY DEF TypeOK, LockInv
  <2>3. NewsInv'
    BY DEF TypeOK, NewsInv
  <2>4. ExecInv'
    BY DEF TypeOK, NewsInv, ExecInv
  <2>5. TimelyInv'
    BY DEF TypeOK, NewsInv, TimelyInv
  <2> QED
    BY <2>1, <2>2, <2>3, <2>4, <2>5
<1>18. CASE LeaveLoop
  <2> USE <1>18 DEF LeaveLoop, StopAs, Exit
  <2>1. TypeOK'
    BY DEF TypeOK, NewsInv, LockInv
  <2>2. LockInv'
    BY DEF TypeOK, LockInv
  <2>3. NewsInv'
    BY DEF TypeOK, NewsInv
  <2>4. ExecInv'
    BY DEF TypeOK, NewsInv, ExecInv
  <2>5. TimelyInv'
    BY DEF TypeOK, NewsInv, TimelyInv
  <2> QED
    BY <2>1, <2>2, <2>3, <2>4, <2>5
<1>19. CASE UNCHANGED vars
  BY <1>19 DEF TypeOK, LockInv, NewsInv, ExecInv, TimelyInv
<1> QED
  BY <1>1, <1>2, <1>3, <1>4, <1>5, <1>6, <1>7, <1>8, <1>9, <1>10, <1>11, <1>12, <1>13, <1>14, <1>15, <1>16, <1>17, <1>18, <1>19
     DEF Next, Debugger, Child, User

THEOREM LaunchInvariant == Spec => []LaunchInv
<1> QED
  BY LaunchInvInit, LaunchInvNext, PTL DEF Spec

\* The mutex is held by the process that prints, and a process only prints where
\* the code does.
THEOREM LaunchTypes == Spec => []TypeOK
<1>1. LaunchInv => TypeOK
  BY DEF LaunchInv
<1> QED
  BY <1>1, LaunchInvariant, PTL

\* run: a child that sleeps long enough to be attached executes nothing of its
\* program before every pending breakpoint is in the text.
THEOREM InTime == Spec => []BreakpointsInTime
<1>1. LaunchInv => BreakpointsInTime
  BY DEF LaunchInv, TimelyInv, BreakpointsInTime
<1> QED
  BY <1>1, LaunchInvariant, PTL

\* initChild, initBDD: while a child that could not execute anything reads commands,
\* the debugger is in waitpid.
THEOREM OneReaderAtATime == Spec => []OneReader
<1>1. LaunchInv => OneReader
  BY DEF LaunchInv, NewsInv, Informed, OneReader
<1> QED
  BY <1>1, LaunchInvariant, PTL

\* getTracedRAMAddress: the child that initBDD asks for its memory map has one.
THEOREM MapIsFound == Spec => []NeverThrows
<1>1. LaunchInv => NeverThrows
  BY DEF LaunchInv, TypeOK, ExecInv, TimelyInv, NeverThrows
<1> QED
  BY <1>1, LaunchInvariant, PTL

-----------------------------------------------------------------------------
(* The launch that Session takes for one step. *)

LEMMA InitKeepsPromise == Init => Promise!Init
  BY DEF Init, Promise!Init, ProgramBar, PromptBar

LEMMA StepsKeepPromise ==
  ASSUME LaunchInv, LaunchInv', [Next]_vars
  PROVE  [Promise!Next]_(Promise!vars)
<1> DEFINE Still == ProgramBar' = ProgramBar /\ PromptBar' = PromptBar
<1>a. child # "program" => ProgramBar = "none"
  BY DEF ProgramBar
<1>b. child' # "program" => ProgramBar' = "none"
  BY DEF ProgramBar
<1> USE Says DEF LaunchInv, vars, chance, kernel, BddPc, ChildPc, Printed, DebugOnly,
                 Expecting, Informed, Unattached, Attaching, Arming, Reporting, Failed
<1>1. BddSay => Promise!Report \/ Still
  BY DEF BddSay, Promise!Report, ProgramBar, PromptBar,
     TypeOK, NewsInv, ExecInv, TimelyInv
<1>2. ChildSay => Still
  BY DEF ChildSay, ProgramBar, PromptBar, TypeOK, NewsInv, ExecInv, TimelyInv
<1>3. Fork => Still
  <2> SUFFICES ASSUME Fork PROVE Still
    OBVIOUS
  <2>1. PromptBar' = PromptBar
    BY DEF Fork, PromptBar, TypeOK
  <2>2. ProgramBar' = ProgramBar
    BY <1>a, <1>b DEF Fork, NewsInv
  <2> QED
    BY <2>1, <2>2
<1>4. Attach => Still
  BY DEF Attach, ProgramBar, PromptBar, TypeOK, NewsInv, ExecInv, TimelyInv
<1>5. Wait => Still
  BY DEF Wait, ProgramBar, PromptBar, TypeOK, NewsInv, ExecInv, TimelyInv
<1>6. SetOptions => Still
  BY DEF SetOptions, ProgramBar, PromptBar, TypeOK, NewsInv, ExecInv, TimelyInv
<1>7. Cont => Promise!Resume \/ Still
  BY DEF Cont, Resume, Promise!Resume, ProgramBar, PromptBar,
     TypeOK, NewsInv, ExecInv, TimelyInv
<1>8. GetAddress => Still
  BY DEF GetAddress, ProgramBar, PromptBar, TypeOK, NewsInv, ExecInv, TimelyInv
<1>9. PlaceEveryPendingBreakpoints => Promise!PlacePending \/ Still
  BY DEF PlaceEveryPendingBreakpoints, Promise!PlacePending, ProgramBar, PromptBar,
     TypeOK, NewsInv, ExecInv, TimelyInv
<1>10. LockPrint => Still
  BY DEF LockPrint, ProgramBar, PromptBar, TypeOK, NewsInv, ExecInv, TimelyInv
<1>11. UnlockPrint => Still
  BY DEF UnlockPrint, ProgramBar, PromptBar, TypeOK, NewsInv, ExecInv, TimelyInv
<1>12. RunAgain => Promise!RunAgain \/ Still
  BY DEF RunAgain, Promise!RunAgain, ProgramBar, PromptBar,
     TypeOK, NewsInv, ExecInv, TimelyInv
<1>13. TakeSigstop => Still
  BY DEF TakeSigstop, StopAs, ProgramBar, PromptBar, TypeOK, NewsInv, ExecInv, TimelyInv
<1>14. Sleep => Still
  BY DEF Sleep, ProgramBar, PromptBar, TypeOK, NewsInv, ExecInv, TimelyInv
<1>15. TraceMe => Still
  BY DEF TraceMe, ProgramBar, PromptBar, TypeOK, NewsInv, ExecInv, TimelyInv
<1>16. Exec => Promise!Load \/ Still
  <2> SUFFICES ASSUME Exec PROVE Promise!Load \/ Still
    OBVIOUS
  <2>1. PromptBar' = PromptBar
    BY DEF Exec, StopAs, PromptBar, TypeOK
  <2>2. CASE execFails
    BY <1>a, <1>b, <2>1, <2>2 DEF Exec, StopAs
  <2>3. CASE ~execFails
    <3>1. ProgramBar' \in {"none", "loaded"}
      BY <2>3 DEF Exec, StopAs, ProgramBar, TypeOK, NewsInv, ExecInv, TimelyInv
    <3> QED
      BY <1>a, <2>1, <3>1 DEF Exec, StopAs, Promise!Load
  <2> QED
    BY <2>2, <2>3
<1>17. Program => Promise!Stop \/ Still
  BY DEF Program, StopAs, Exit, Promise!Stop, ProgramBar, PromptBar,
     TypeOK, NewsInv, ExecInv, TimelyInv
<1>18. LeaveLoop => Still
  <2> SUFFICES ASSUME LeaveLoop PROVE Still
    OBVIOUS
  <2>1. PromptBar' = PromptBar
    BY DEF LeaveLoop, StopAs, Exit, PromptBar, TypeOK
  <2>2. ProgramBar' = ProgramBar
    BY <1>a, <1>b DEF LeaveLoop, StopAs, Exit, NewsInv
  <2> QED
    BY <2>1, <2>2
<1>19. UNCHANGED vars => Still
  BY DEF ProgramBar, PromptBar
<1> QED
  BY <1>1, <1>2, <1>3, <1>4, <1>5, <1>6, <1>7, <1>8, <1>9, <1>10, <1>11, <1>12, <1>13, <1>14, <1>15, <1>16, <1>17, <1>18, <1>19
     DEF Next, Debugger, Child, User, Promise!Next, Promise!vars

\* initBDD and initChild: whatever the interleaving, a launch that is attached in
\* time and has a program to execute goes through the steps of IdealLaunch.
THEOREM LaunchKeepsPromise == Spec => ImplementsPromise
<1>1. LaunchInv /\ LaunchInv' /\ [Next]_vars => [Promise!Next]_(Promise!vars)
  BY StepsKeepPromise
<1> QED
  BY <1>1, InitKeepsPromise, LaunchInvariant, PTL DEF Spec, ImplementsPromise, Promise!Spec
================================================================================
