--------------------------- MODULE CommandLoopProofs ---------------------------
(***************************************************************************)
(* Proofs about CommandLoop: whatever lines are typed, and whatever answers *)
(* are left unread, the loop only makes steps of Session, and what is      *)
(* proved of Session therefore holds of it.                                *)
(***************************************************************************)
EXTENDS CommandLoop, SessionProofs

\* Session allows `bp off' with the words that the lines have.
OffWordsTyped ==
  \A word \in OffPrefixed :
    (IF word \in DOMAIN FunctionOf THEN FunctionOf[word] ELSE 0) \in OffWords

\* What a question was asked for is still so when it is answered: nothing happens
\* to the program in between.
QuestionInv ==
  /\ question = "rerun" => Prompt /\ hasStarted /\ (isDead \/ isExiting)
  /\ question = "restart" => Prompt /\ isAlive /\ ~isExiting
  /\ question = "stop" => Prompt /\ isAlive

\* What QuestionInv reads of a session.
LEMMA QuestionFrame ==
  ASSUME UNCHANGED <<phase, force_end, ram_start_address, cached_status>>
  PROVE  /\ Prompt' <=> Prompt
         /\ hasStarted' <=> hasStarted
         /\ isDead' <=> isDead
         /\ isAlive' <=> isAlive
         /\ isExiting' <=> isExiting
  BY DEF Prompt, hasStarted, isDead, isAlive, isExiting, isTrapped, isStopped

LEMMA SameQuestion ==
  ASSUME QuestionInv, UNCHANGED vars, question' \in {question, "none"}
  PROVE  QuestionInv'
  BY QuestionFrame DEF QuestionInv, vars

LEMMA QuestionInvNext == QuestionInv /\ [LoopNext]_loopVars => QuestionInv'
<1> SUFFICES ASSUME QuestionInv, [LoopNext]_loopVars PROVE QuestionInv'
  OBVIOUS
<1>1. ASSUME question' = "none" PROVE QuestionInv'
  BY <1>1 DEF QuestionInv
<1>2. CASE readInput
  BY <1>2, SameQuestion DEF readInput
<1>3. CASE RunChosen
  <2>1. CASE hasStarted /\ (isDead \/ isExiting) /\ Ask("rerun") /\ UNCHANGED vars
    BY <1>3, <2>1, QuestionFrame DEF RunChosen, Choice, Ask, QuestionInv, vars
  <2> QED
    BY <1>1, <1>3, <2>1 DEF RunChosen, Choice, Served
<1>4. CASE RestartChosen
  BY <1>4, QuestionFrame DEF RestartChosen, Choice, Ask, QuestionInv, vars
<1>5. CASE StopChosen
  <2>1. CASE isAlive /\ stopTraced /\ Ask("stop") /\ UNCHANGED force_end
    BY <1>5, <2>1, QuestionFrame DEF StopChosen, Choice, Ask, QuestionInv, traced
  <2> QED
    BY <1>1, <1>5, <2>1 DEF StopChosen, Choice, Served
<1>6. CASE KillChosen \/ StepChosen \/ BpChosen \/ DisplayChosen
  BY <1>1, <1>6 DEF KillChosen, StepChosen, BpChosen, DisplayChosen, Choice, Served
<1>7. CASE ElfChosen
  BY <1>7 DEF ElfChosen, Ask, QuestionInv
<1>8. CASE Answer
  BY <1>1, <1>8 DEF Answer, AnswerNo, AnswerRun, AnswerStop, ReadAnswer
<1>9. CASE Go
  <2>1. ~Prompt /\ question' = question
    BY <1>9 DEF Go, lineVars, Prompt, clearCurrentProcess, Fork, initBDD, ContinueAfterRun,
                End
  <2> QED
    BY <2>1 DEF QuestionInv
<1>10. CASE UNCHANGED loopVars
  BY <1>10, SameQuestion DEF loopVars, lineVars
<1> QED
  BY <1>2, <1>3, <1>4, <1>5, <1>6, <1>7, <1>8, <1>9, <1>10 DEF LoopNext, Serve

LEMMA QuestionsStay == LoopSpec => []QuestionInv
<1>1. LoopInit => QuestionInv
  BY DEF LoopInit, QuestionInv
<1> QED
  BY <1>1, QuestionInvNext, PTL DEF LoopSpec

\* Each step of the loop is a command of Session, or none.
LEMMA LoopStep ==
  ASSUME OffWordsTyped
  PROVE  QuestionInv /\ [LoopNext]_loopVars => [Next]_vars
<1> SUFFICES ASSUME QuestionInv, [LoopNext]_loopVars PROVE [Next]_vars
  OBVIOUS
<1>1. CASE readInput \/ RestartChosen \/ ElfChosen \/ DisplayChosen \/ AnswerNo
  BY <1>1 DEF readInput, RestartChosen, ElfChosen, DisplayChosen, AnswerNo
<1>2. CASE RunChosen
  BY <1>2 DEF RunChosen, Next
<1>3. CASE StopChosen
  <2>1. stopCommand
    BY <1>3 DEF StopChosen, stopCommand, Choice, traced
  <2> QED
    BY <2>1 DEF Next
<1>4. CASE KillChosen \/ StepChosen
  BY <1>4 DEF KillChosen, StepChosen, Next
<1>5. CASE BpChosen
  <2>1. \/ \E word \in OffWords : bpOffCommand(word)
        \/ \E a \in UserAddr : bpAddress(a)
        \/ \E f \in Functions : bpFunction(f)
    BY <1>5, CommandLoopAssumption DEF BpChosen, OffWordsTyped
  <2> QED
    BY <2>1 DEF Next
<1>6. CASE AnswerRun
  <2>1. runCommand \/ restartCommand
    BY <1>6 DEF AnswerRun, QuestionInv, runCommand, restartCommand
  <2> QED
    BY <2>1 DEF Next
<1>7. CASE AnswerStop
  <2>1. stopCommand
    BY <1>7 DEF AnswerStop, QuestionInv, stopCommand
  <2> QED
    BY <2>1 DEF Next
<1>8. CASE Go
  BY <1>8 DEF Go, Next
<1>9. CASE UNCHANGED loopVars
  BY <1>9 DEF loopVars
<1> QED
  BY <1>1, <1>2, <1>3, <1>4, <1>5, <1>6, <1>7, <1>8, <1>9 DEF LoopNext, Serve, Answer

\* The loop implements Session, for all lines.
THEOREM LoopImplementsSession ==
  ASSUME OffWordsTyped
  PROVE  LoopSpec => ImplementsSession
<1>1. LoopInit => Init
  BY DEF LoopInit
<1>2. QuestionInv /\ [LoopNext]_loopVars => [Next]_vars
  BY LoopStep
<1> QED
  BY <1>1, <1>2, QuestionsStay, PTL DEF LoopSpec, ImplementsSession, Spec

\* What Session always keeps, the loop keeps: no program is left behind, and no
\* breakpoint that waits for the first `run' is lost.
THEOREM LoopKeepsSession ==
  ASSUME OffWordsTyped
  PROVE  LoopSpec => []NoOrphan /\ PendingArePlaced
<1>1. LoopSpec => Spec
  BY LoopImplementsSession DEF ImplementsSession
<1> QED
  BY <1>1, NoneIsLeftBehind, PendingBreakpointsArePlaced, PTL

\* Under the conditions of Session, the notice before each prompt of the loop is true.
THEOREM LoopNoticesAreRight ==
  ASSUME OffWordsTyped, ~PastExit, Unambiguous
  PROVE  LoopSpec => []NoticeIsRight
<1>1. LoopSpec => Spec
  BY LoopImplementsSession DEF ImplementsSession
<1>2. Spec => []NoticeIsRight
  BY NoticesAreRight
<1> QED
  BY <1>1, <1>2, PTL

\* A function that is named to `bp' is on the list or in the map, if its text can be
\* patched.
THEOREM BpHearsFunctions ==
  ASSUME OffWordsTyped
  PROVE  LoopSpec => FunctionsAreHeard
<1> DEFINE Asked == /\ Choice("bp") /\ Len(input) = 2 /\ input' = <<>>
                    /\ input[2] \in DOMAIN FunctionOf
                    /\ input[2] \notin OffPrefixed \cup ShowPrefixed
           Heard == LET f == FunctionOf[input[2]] IN
                    \/ \E i \in DOMAIN pendingBreakpointsMap' :
                         pendingBreakpointsMap'[i].name = f
                    \/ hasStarted /\ ~CanPatch(ram_start_address + f)
                    \/ hasStarted /\ breakpointsMap'[ram_start_address + f] # NoEntry
                    \/ phase' # phase
<1>1. SessionInv /\ [LoopNext]_loopVars => [Asked => Heard]_loopVars
  <2> SUFFICES ASSUME SessionInv, LoopNext, Asked PROVE Heard
    OBVIOUS
  <2> DEFINE f == FunctionOf[input[2]]
  <2>1. BpChosen
    <3>1. input # <<>> /\ input' # input /\ question = "none" /\ input[1] = "bp"
      BY DEF Choice
    <3>2. ~readInput /\ ~Answer /\ ~Go
      BY <3>1 DEF readInput, Answer, AnswerNo, AnswerRun, AnswerStop, Go, lineVars
    <3>3. ~DisplayChosen
      BY <3>1 DEF DisplayChosen, IsShow
    <3> QED
      BY <3>1, <3>2, <3>3
         DEF LoopNext, Serve, RunChosen, RestartChosen, StopChosen, KillChosen, StepChosen,
             ElfChosen, Choice
  <2>2. bpFunction(f) /\ f \in Functions
    BY <2>1, CommandLoopAssumption DEF BpChosen, IsShow
  <2>3. CASE Die("aborted") /\ Prompt
    BY <2>3 DEF Die, Prompt
  <2>4. CASE /\ ~hasStarted
             /\ pendingBreakpointsMap' =
                  Append(pendingBreakpointsMap, [address |-> ram_start_address + f,
                                                 name |-> f])
    <3> DEFINE b == [address |-> ram_start_address + f, name |-> f]
               n == Len(pendingBreakpointsMap) + 1
    <3>1. pendingBreakpointsMap \in Seq(Pending)
      BY DEF SessionInv, TypeOK
    <3>2. n \in DOMAIN pendingBreakpointsMap' /\ pendingBreakpointsMap'[n] = b
      BY <2>4, <3>1
    <3> QED
      BY <3>2
  <2>5. CASE /\ hasStarted
             /\ breakpointsMap' =
                  TryEmplace(breakpointsMap, ram_start_address + f,
                             [pid |-> traced_pid, name |-> f,
                              saved |-> proc[traced_pid].planted
                                          \cap Bytes(ram_start_address + f)])
             /\ CanPatch(ram_start_address + f)
    <3> DEFINE saved == proc[traced_pid].planted \cap Bytes(ram_start_address + f)
               e == [pid |-> traced_pid, name |-> f, saved |-> saved]
    <3>0. saved \in SUBSET Addr
      BY <2>5 DEF CanPatch, SessionInv, TypeOK, Process
    <3> HIDE DEF saved
    <3>1. e \in MapEntry
      BY <2>2, <2>5, <3>0 DEF CanPatch, MapEntry, Name
    <3>2. ram_start_address \in Bases
      BY <2>5, SessionAssumption DEF SessionInv, TypeOK, hasStarted
    <3>3. ram_start_address + f \in Addr
      BY <2>2, <3>2 DEF Addr
    <3>4. breakpointsMap \in [Addr -> MapEntry \cup {NoEntry}]
      BY DEF SessionInv, TypeOK
    <3>5. breakpointsMap' = TryEmplace(breakpointsMap, ram_start_address + f, e)
      BY <2>5 DEF saved
    <3> HIDE DEF e, f
    <3>6. breakpointsMap'[ram_start_address + f] # NoEntry
      BY <3>1, <3>3, <3>4, <3>5, TryEmplaceType, EntriesDiffer
    <3> QED
      BY <2>5, <3>6 DEF f
  <2>6. CASE hasStarted /\ ~CanPatch(ram_start_address + f)
    BY <2>6
  <2> QED
    BY <2>2, <2>3, <2>4, <2>5, <2>6 DEF bpFunction, BreakpointAtAddress
<1>2. LoopSpec => []SessionInv
  BY LoopImplementsSession, SessionInvariant, PTL DEF ImplementsSession
<1> QED
  BY <1>1, <1>2, PTL DEF LoopSpec, FunctionsAreHeard
================================================================================
