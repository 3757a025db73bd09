------------------------------ MODULE CommandLoop ------------------------------
(***************************************************************************)
(* The prompt of apps/tracer.cpp: how the lines a user types become the    *)
(* commands of module Session.                                             *)
(*                                                                         *)
(* Two functions read the same standard input in different ways. readInput *)
(* takes a line and splits it into words; ExclusiveIO::input, which reads  *)
(* the answer to a question, takes one word with >> and leaves what is     *)
(* behind it, the end of the line at least, to whoever reads next. At the  *)
(* end of the input both return at once with nothing, for ever.            *)
(***************************************************************************)
EXTENDS Session

CONSTANTS
  Lines,         \* the lines the user may type, as sequences of words
  FunctionOf,    \* the functions that words of theirs name
  AddressOf,     \* the addresses that words of theirs give: "0x..."
  OffPrefixed,   \* the words that start with `off'
  ShowPrefixed   \* the words that start with `show'

ASSUME CommandLoopAssumption ==
  /\ Lines \subseteq Seq(STRING)
  /\ FunctionOf \in [DOMAIN FunctionOf -> Functions]
  /\ AddressOf \in [DOMAIN AddressOf -> UserAddr]
  /\ OffPrefixed \cap ShowPrefixed = {}
  /\ DOMAIN AddressOf \cap (DOMAIN FunctionOf \cup OffPrefixed \cup ShowPrefixed) = {}

VARIABLES
  input,      \* the words of the command being served
  unread,     \* the rest of the line read last, its end included: one line or none
  question,   \* what ExclusiveIO::input reads the answer to
  eof         \* has the user closed the input?

lineVars == <<input, unread, question, eof>>
loopVars == <<vars, lineVars>>

LoopInit ==
  /\ Init
  /\ input = <<>>
  /\ unread = <<>>
  /\ question = "none"
  /\ eof = FALSE

-----------------------------------------------------------------------------
(* Reading. *)

\* The bounds of Session, and its PastExit, as bounds on what the user types.
Fits(line) ==
  LET choice == IF line = <<>> THEN "" ELSE line[1] IN
  /\ choice \in {"run", "restart"} =>
       Unused # {} \/ (choice = "run" /\ hasStarted /\ ~(isDead \/ isExiting))
  /\ choice = "bp" => hasStarted \/ Len(pendingBreakpointsMap) < MaxPending
  /\ choice = "step" => PastExit \/ ~isExiting

\* getline: first what an answer left of its line. At the end of the input there
\* are no words, and the loop goes round without them.
readInput ==
  /\ Prompt /\ input = <<>> /\ question = "none"
  /\ \/ unread # <<>> /\ input' = unread[1] /\ UNCHANGED eof
     \/ unread = <<>> /\ ~eof /\ (\E l \in Lines : Fits(l) /\ input' = l) /\ UNCHANGED eof
     \/ unread = <<>> /\ ~eof /\ eof' = TRUE /\ UNCHANGED input
  /\ unread' = <<>>
  /\ UNCHANGED <<vars, question>>

\* cin >> word: skips the ends of lines; the user types on until there is a word.
Replies ==
  CASE unread # <<>> /\ unread # <<<<>>>> -> {unread[1]}
    [] unread \in {<<>>, <<<<>>>>} /\ eof -> {<<>>}
    [] OTHER -> (Lines \ {<<>>}) \cup {<<>>}

\* The answer is the first word, or nothing at the end of the input.
ReadAnswer(reply) ==
  /\ unread' = IF reply = <<>> THEN <<>> ELSE <<Tail(reply)>>
  /\ eof' = (eof \/ reply = <<>>)
  /\ question' = "none"
  /\ UNCHANGED input

-----------------------------------------------------------------------------
(* Dispatch, in the order of command_loop. *)

Choice(word) ==
  /\ Prompt /\ question = "none"
  /\ input # <<>> /\ input[1] = word

Served == input' = <<>> /\ UNCHANGED <<unread, question, eof>>

Ask(what) == question' = what /\ input' = <<>> /\ UNCHANGED <<unread, eof>>

RunChosen ==
  /\ Choice("run")
  /\ \/ hasStarted /\ (isDead \/ isExiting) /\ Ask("rerun") /\ UNCHANGED vars
     \/ ~(hasStarted /\ (isDead \/ isExiting)) /\ runCommand /\ Served

RestartChosen ==
  /\ Choice("restart")
  /\ isAlive /\ ~isExiting
  /\ Ask("restart")
  /\ UNCHANGED vars

StopChosen ==
  /\ Choice("stop")
  /\ \/ isDead /\ force_end' = TRUE /\ Served /\ UNCHANGED <<proc, strays>>
     \/ isAlive /\ stopTraced /\ Ask("stop") /\ UNCHANGED force_end
  /\ UNCHANGED <<traced, pendingBreakpointsMap, phase, after, refused>>

KillChosen == Choice("kill") /\ killCommand /\ Served

StepChosen == Choice("step") /\ stepCommand /\ Served

\* Fault: one letter is enough for `bp show'.
IsShow1(word) == word \in ShowPrefixed \cup {"spin"}

IsShow(word) == word \in ShowPrefixed

BpChosen ==
  /\ Choice("bp") /\ Len(input) > 1
  /\ LET word == input[2] IN
     \/ /\ word \in OffPrefixed
        /\ bpOffCommand(IF word \in DOMAIN FunctionOf THEN FunctionOf[word] ELSE 0)
     \/ /\ ~(word \in OffPrefixed \/ IsShow(word))
        /\ \/ word \in DOMAIN AddressOf /\ bpAddress(AddressOf[word])
           \/ word \in DOMAIN FunctionOf /\ bpFunction(FunctionOf[word])
  /\ Served

ElfChosen == Choice("elf") /\ Ask("elf") /\ UNCHANGED vars

\* The displays, `restart' of a program that is not alive, and the usage text for
\* every word that is no command.
DisplayChosen ==
  /\ Prompt /\ question = "none" /\ input # <<>>
  /\ \/ input[1] = "restart" /\ ~(isAlive /\ ~isExiting)
     \/ input[1] = "bp" /\ (Len(input) > 1 => IsShow(input[2]))
     \/ input[1] \notin {"run", "restart", "stop", "kill", "step", "bp", "elf"}
  /\ Served
  /\ UNCHANGED vars

-----------------------------------------------------------------------------
(* Answers. `stop' takes a word that starts with y, the others only a y.   *)

Yes == IF question = "stop" THEN {"y", "yes"} ELSE {"y"}

IsYes(reply) == reply # <<>> /\ reply[1] \in Yes

\* Fault: asks again until it is a y.
AskAgain ==
  /\ question \in {"rerun", "restart", "stop"}
  /\ \E reply \in Replies :
       /\ ~IsYes(reply)
       /\ unread' = IF reply = <<>> THEN <<>> ELSE <<Tail(reply)>>
       /\ eof' = (eof \/ reply = <<>>)
  /\ UNCHANGED <<vars, input, question>>

AnswerNo ==
  /\ question # "none"
  /\ \E reply \in Replies :
       /\ question = "elf" \/ ~IsYes(reply)
       /\ ReadAnswer(reply)
  /\ UNCHANGED vars

AnswerRun ==
  /\ question \in {"rerun", "restart"}
  /\ \E reply \in Replies : IsYes(reply) /\ ReadAnswer(reply)
  /\ StartRun("prompt")

\* Fault: the loop goes on after the SIGKILL.
AnswerStopGoesOn ==
  /\ question = "stop"
  /\ \E reply \in Replies : IsYes(reply) /\ ReadAnswer(reply)
  /\ killTraced
  /\ UNCHANGED <<traced, pendingBreakpointsMap, force_end, phase, after, refused>>

AnswerStop ==
  /\ question = "stop"
  /\ \E reply \in Replies : IsYes(reply) /\ ReadAnswer(reply)
  /\ killTraced
  /\ force_end' = TRUE
  /\ UNCHANGED <<traced, pendingBreakpointsMap, phase, after, refused>>

-----------------------------------------------------------------------------
Serve ==
  \/ RunChosen \/ RestartChosen \/ StopChosen \/ KillChosen \/ StepChosen
  \/ BpChosen \/ ElfChosen \/ DisplayChosen

Answer == AnswerNo \/ AnswerRun \/ AnswerStop

Go ==
  /\ clearCurrentProcess \/ Fork \/ initBDD \/ ContinueAfterRun \/ End
  /\ UNCHANGED lineVars

\* Kills from outside are left to Session: they change no line.
LoopNext ==
  \/ readInput
  \/ Serve
  \/ Answer
  \/ Go

LoopSpec == LoopInit /\ [][LoopNext]_loopVars

\* The debugger is sequential code, the kernel and the tracee get on, and a user
\* who is asked a question answers it or closes the input. No command need be
\* typed.
FairLoopSpec == LoopSpec /\ WF_loopVars(Serve \/ Answer \/ Go)

-----------------------------------------------------------------------------
\* What is typed only ever does what the commands of Session do, one after the
\* other, whatever was left unread by whom: a question in the middle of a
\* command, and its answer, make no state that a command could not make.
ImplementsSession == Spec

\* `bp' with a function of the program gets it on the list or into the map, each
\* time, unless the text cannot be patched there: no other command takes it. A
\* function whose name starts with `off' or `show' never gets there.
FunctionsAreHeard ==
  [][Choice("bp") /\ Len(input) = 2 /\ input' = <<>> /\ input[2] \in DOMAIN FunctionOf
        /\ input[2] \notin OffPrefixed \cup ShowPrefixed =>
       LET f == FunctionOf[input[2]] IN
       \/ \E i \in DOMAIN pendingBreakpointsMap' : pendingBreakpointsMap'[i].name = f
       \/ hasStarted /\ ~CanPatch(ram_start_address + f)
       \/ hasStarted /\ breakpointsMap'[ram_start_address + f] # NoEntry
       \/ phase' # phase]_loopVars

\* `bp off' with a function that has a breakpoint takes its INT3 out of the text:
\* "Removes a breakpoint from the specified location."
OffIsObeyed ==
  [][Choice("bp") /\ Len(input) = 3 /\ input[2] = "off" /\ input' = <<>>
        /\ Live(traced_pid) /\ input[3] \in DOMAIN FunctionOf =>
       ram_start_address + FunctionOf[input[3]] \notin proc'[traced_pid].planted]_loopVars

\* Every command comes back to the prompt or ends the debugger, with the
\* questions it asks, the launch it makes and the waits it takes part in. Needs
\* ~ForkMayFail: a wait for any child may last for ever.
CommandReturns ==
  (input # <<>>) ~>
    \/ Prompt /\ input = <<>> /\ question = "none"
    \/ phase \in {"ended", "aborted", "crashed"}
================================================================================
