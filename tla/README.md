# C_BDD: a verification development

C_BDD is a small debugger for Linux/x86-64: it forks a
program, traces it with `ptrace(2)`, and lets a user run, step, restart, stop
and set breakpoints at a prompt. This directory holds TLA+ models of its logic,
TLC configurations that check them on small instances, and TLAPS proofs.
Paths below are relative to `src/`.

## 1. Inventory

| Component | Code | State it keeps | Operations |
|---|---|---|---|
| Software breakpoints | `lib/bdd_ptrace_breakpoint.cpp`, class `Breakpoint` in `include/bdd_ptrace.hpp` | the tracee's text; `breakpointsMap` (per address: pid, saved word, `enabled`, name); `pendingBreakpointsMap` | `enable`, `disable`, `setBreakpoint`, `breakpointAtAddress`, `breakpointAtFunction`, `disableBreakpointAt...`, `isTrappedAtBreakpoint`, `getHitBreakpoint` |
| Step and continue | `lib/bdd_ptrace.cpp:52-110` | RIP and the run state of the tracee | `ptraceStep`, `ptraceContinue`, `resumeBreakpoint`, `ptraceBackwardStep`, `ptraceRawStep`, `waitAndUpdateStatus` |
| Life of the traced processes | `lib/bdd_ptrace.cpp:112-176`, `lib/bdd_signals.cpp` | `traced_pid`, `cached_status`, `ram_start_address` | `run`, `clearCurrentProcess`, `stopTraced`, `killTraced`, `getTracedRAMAddress`, `placeEveryPendingBreakpoints` |
| Launch of a process | `lib/bdd_ptrace.cpp:8-43` | the new child, the tracer relation | `initChild` in the child, `initBDD` and `attachPtrace` in the debugger |
| Command loop | `apps/tracer.cpp` | `force_end`, what is left of the line read last | `readInput`, the dispatch, one handler per command with its question |
| Exclusive output | `include/bdd_exclusive_io.hpp`, `lib/bdd_exclusive_io.cpp` | `print_mutex` in memory shared over `fork` | `lockPrint`, `unlockPrint`, the print functions, `input` |
| Wait status predicates | `lib/bdd_signals.cpp` | none (reads `cached_status`) | `isDead`, `isAlive`, `isExiting`, ... |
| ELF loader and symbols | `lib/bdd_elf.cpp`, `include/bdd_elf.hpp` | headers, `sectionsData`; while loading: the stream's state and a buffer | the constructor, `getFunctionsList`, `getFunctionAddress`, `getSymbolCount`, ... |
| Backtrace, displays, readelf | `lib/bdd_unwind.cpp`, show commands, `apps/readelf.cpp` | none | read and format |

How they interact:

- The command loop is one thread. Each handler calls `TracedProgram`, which
  issues `ptrace` requests and blocks in `waitpid` until the tracee stops. The
  tracee runs only between a resuming request and that `waitpid`.
- A `bp` before the first `run` goes to `pendingBreakpointsMap`; `initBDD` puts
  these into the text at the stop after `execve`. A `bp` by name asks the ELF
  loader for the function's address and adds the load address.
- A second `run` or a `restart` kills the process and forks another; the five
  members that describe the traced process must change over together.
- During a launch the debugger and its child really run in parallel. They are
  kept apart by a 50 ms sleep, and share the print mutex.
- `stop` sends a SIGINT to a tracee that is stopped under `ptrace`. The signal
  waits and is taken by whichever resuming request comes next, in the middle of
  `resumeBreakpoint` perhaps.
- Commands are read by line, answers to questions by word, from one stream: what
  an answer leaves of its line is the next command.
- The debugger learns of a tracee's death only from `waitpid`. Between two
  commands it may be wrong about a process that something else has killed.

What is hard here, and the properties that make each component correct:

- *Breakpoints.* `enable()` saves and `disable()` restores a word of 8 bytes
  though only one byte changes, so that breakpoints interfere; a hit is recognised
  by `RIP-1` alone; a resume from a breakpoint is four requests with the tracee
  running in between. Correct means: the program executes its own instructions,
  once each, in its own order; every placed breakpoint stops it before its
  instruction; every INT3 in the text is known.
- *Life of the processes.* Cached values outlive the process they describe.
  Correct means: base address, map and entries are those of the live process; no
  process is left behind; signals go to it only; no assertion fails.
- *Launch.* Two processes, a mutex, a tracer that can stop the mutex's owner, a
  sleep in place of a handshake. Correct means: breakpoints are planted before the
  program runs, `run` returns, one process reads the terminal.
- *Command loop.* Two readers of one stream, questions in the middle of
  commands, an input that may end anywhere. Correct means: what is typed only does
  what a command may do, every command comes back to the prompt or ends the
  debugger, a `bp` with a function is heard.
- *ELF loader.* One stream and one buffer for all sections, error bits that
  stick. Correct means: what is kept for each section is what the file has there.

`PROJECT.json` lists the hazards line by line, each with the properties that
would catch it or the reason why none does.

## 2. Modules

| Module | What it is |
|---|---|
| `Breakpoints` | one traced process from the stop after `execve` to its death, byte by byte, one `ptrace` request per action |
| `IdealDebugger` | abstract specification: what the user is promised of breakpoints, step, continue and stop; no text is patched here |
| `Commands` | `Breakpoints` with a history variable: what a whole `step` or `run` leaves behind, compared with what `Session` takes it for |
| `MCBreakpoints`, `MCCommands` | small programs for TLC |
| `BreakpointsProofs`, `PromiseProofs` | the proofs about `Breakpoints`: its invariants; that it implements `IdealDebugger` |
| `CommandsProofs` | that a whole command has one of the outcomes `Session` has for it |
| `WaitStatus` | the words of `waitpid` and the macros that read them |
| `Session` | the commands and the processes of a session, one command (or, in `run`, one system call) per action |
| `SessionProofs` | the proofs about `Session` and `WaitStatus` |
| `CommandLoop`, `MCCommandLoop` | how lines, answers and the end of the input become the commands of `Session`; what a user may type |
| `CommandLoopProofs` | that `CommandLoop` implements `Session`, and what follows |
| `Launch` | `initBDD` and `initChild` as two concurrent processes |
| `IdealLaunch` | abstract specification: a launch as one actor without a race |
| `LaunchProofs` | the proofs about `Launch`, the refinement included |
| `Elf`, `MCElf`, `ElfProofs` | the loader, the function look-up and the menu of `elf`; small files; proofs |
| `FlattenProofs` | what `FlattenSeq`, with which `Elf` builds its lists, returns for every argument |

How they fit together:

    CommandLoop --EXTENDS, implements--> Session --EXTENDS--> WaitStatus
                                         ^     ^
              a whole command is one of  |     |  initBDD is one step
                     Session's outcomes  |     |
                          Commands ------+     +------ IdealLaunch
                             | EXTENDS                     ^ implements
    IdealDebugger <-- Breakpoints                        Launch
          implements

The links to `Session` are of three kinds. `CommandLoop!ImplementsSession` is a
refinement: its steps are steps of `Session` or change none of its variables.
`Commands!OutcomesAreKnown` instantiates `Session` on the state of `Breakpoints`
and says that the process after a command is in the set that
`Session!Stepped` or `Session!Continued` gives for the process before it, the INT3s
of its text and what RIP-1 says included.
`Launch!ImplementsPromise` is a refinement of `IdealLaunch`, whose `Load` and
`PlacePending` are what `Session!initBDD` does in one step.

### Breakpoints

The text is `mem`, a row of bytes that are `"code"` or `"INT3"`. Which
instruction a byte belongs to and where control goes next are the constants
`Instr` and `Succ`. `Peek` and `Poke` transfer `WordSize` bytes, as `PEEKTEXT` and
`POKETEXT` do with 8.

| Action | Code |
|---|---|
| `BreakpointAtAddress` | `breakpointAtAddress` with `setBreakpoint` and `enable`: the word is planted first, then `try_emplace`, which keeps an older entry |
| `DisableBreakpointAtAddress` | `disable()` on a copy of the entry: the entry stays, and stays enabled |
| `PtraceStep`, `PtraceContinue` | up to the first request; at a hit they start `resumeBreakpoint` |
| `ResumeDisable`, `PtraceBackwardStep`, `PtraceRawStep`, `WaitAndUpdateStatus`, `ResumeEnable`, `ResumeContinue` | the requests of `resumeBreakpoint` and what follows it, in order |
| `StopTraced` | `stop` answered with no: `stopTraced` sends the SIGINT |
| `TakeSignal`, `Execute`, `Trap`, `Fault`, `ExitEvent`, `Die` | the processor and the kernel |

A SIGINT that is pending (`sigint`) stops the tracee before it executes anything,
in whichever request resumes it: in the raw step of `resumeBreakpoint`, too,
after which the breakpoint is planted over an instruction that was not executed.
`dbg` is the debugger's program counter, `bp` the local copy of the entry in
`resumeBreakpoint`. Each stop reports through `tracee`.

Three operators name restrictions that the code does not enforce, and each property
says which it needs: `Unambiguous` (no breakpoint on a one-byte instruction),
`Separated` (no breakpoint within the word saved by another), `Plain` (none on an
instruction that faults or exits). Without them the properties are false of the
code; section 5 shows how.

### Session

`proc` is the kernel's view of each process forked, the other variables are the
members of `TracedProgram`. `cached_status` is a word of `WaitStatus`, and the
predicates of `bdd_signals.cpp` read it with that module's macros; 0, its initial
value, reads as a normal exit, while death by a signal does not. `phase` is the
place within `run` (`clear`, `fork`, `init`, then `continue` on a first run).
A resumed tracee takes one step, to any of its outcomes (`Resume`).
`ResumeBreakpoint` sends `disable()` to the pid in the entry and the rewind and
the step to `traced_pid`, as the code does. `waitpid(-1)` after a failed fork picks
up any child (`WaitForAny`).

Of the text of a process `Session` keeps the INT3s. An entry has the INT3s of the
word that `enable()` saved (`saved`), and `Disabled` puts that word back over all of
its `WordSize` bytes, so that an INT3 of another breakpoint in it may be lost or come
back. `addr` is RIP-1 where that can be taken for a breakpoint: behind an INT3, and
behind an instruction of one byte (`OneByte`). `IsTrappedAtBreakpoint` asks, as the code
does, only whether it is in the map. Two restrictions as in `Breakpoints`:
`Unambiguous`, `Separated`, here for every address that may get a breakpoint in any
launch.

Faults that the environment adds: `ForkMayFail`, and `OutsideKill`, under
which something else kills the traced process between two commands or two
steps of `run` (`KilledFromOutside`). A killed process is found dead by the next
`waitpid`, or first at its `PTRACE_EVENT_EXIT` (`WaitForKilled`). `End` is the way
out of `main`: processes that are left stopped are then detached, INT3s
included.

`refused` and `strays` record what properties are about: the kinds of `bp` that
were answered with "failed" while there was a program, and the pids given to
`kill` that belong to no child. `Refuse` has both outcomes of a message that is
printed without its argument (`apps/tracer.cpp:372`), the end of the debugger with
it among them. `bpOffCommand` looks up its own second word.

### CommandLoop

A line is a sequence of words. `readInput` takes a line, `Replies` and
`ReadAnswer` one word as `cin >>` does, and `unread` is what the latter leaves.
`question` is the question that `ExclusiveIO::input` waits in (`run` on a dead
program, `restart`, `stop`, `elf`). `Serve` dispatches in the order of
`command_loop`: `bp` followed by a word that starts with `off` or `show` never gets
to a function of that name. `Fits` bounds what the user types so that the bounds
of `Session` are respected. At the end of the input `readInput` has no words and
the loop goes round, which changes nothing and is therefore not an action.

### Launch

`bdd` and `child` are program counters. A message is two steps, the mutex held
between them; a child stopped between them keeps it. `debug`, `timely` and
`execFails` are chosen at the start and never change: whether `DEBUG` is set,
whether the debugger attaches within the 50 ms, whether `execv` fails. A child whose
`execv` failed returns into `runCommand`: it does its own `ptraceContinue`, with no
pid, under the mutex (`vainCont`), and goes to the prompt. `ProgramBar`
maps a launch that is attached in time, and has a program to execute, to
`IdealLaunch`; any other promises nothing and is mapped to a program that is
never loaded.

### Elf

A file is a row of cells: a cell is one symbol, one string, or other data, and
sizes count cells. `Read` follows `ifstream::read`: with `failbit` set it leaves the
buffer alone. `getFunctionsList` and `getFunctionAddress` are operators on the
loaded state, compared with `FunctionsInFile`, a definition that reads the file
directly. `MenuIndex` and `SectionShown` are the two
places of `elfCommand` that must agree on where sections are counted from.

## 3. The runs

| Run | Questions | Bounds |
|---|---|---|
| `BpSeparated` | does the debugger implement `IdealDebugger`? are hits exact, do breakpoints stay, are faults and the exit reported, does `step` return? | 5 two-byte instructions with a loop, a branch and a fault; 2-byte words; 3 adjacent breakpoints; `stop` at any prompt; 928 states |
| `BpOverlap` | one-byte instructions and the exit call under breakpoints, a fault, saved words that contain other breakpoints, breakpoints taken off: is every INT3 known, is every saved word clean, does the tracee run at instruction boundaries, does the program end? does each whole command end as `Session` says? | 3-byte words, 5 breakpoints on all of 5 instructions, 3 of them taken off; 402,576 states |
| `SessionPie` | re-runs of a position-independent program, forks that fail, kills from outside: nothing left behind, all five members about the live process, the notice before the prompt right | 2 launches, 2 load addresses, a mapping of 4 bytes with a one-byte instruction, 2-byte words, 2 functions, 1 typed address, 2 pending breakpoints; 2,333,262 states |
| `CommandLoop` | does the prompt only do what `Session` does? does every command return? are functions heard, pending breakpoints placed, signals kept inside, on a program linked at a fixed address? | 16 lines, 2 launches, 2 functions (one called `offset`), 1 typed address; 294,441 states |
| `Launch` | the race between debugger and child; does a launch in time implement `IdealLaunch`? | one launch; all values of `debug`, `timely`, `execFails`; 811 states |
| `ElfLoad` | section data, function list, menu | the null section and one of each type in all 24 orders, `.bss` from 0 to 12 cells, with and without data behind the sections |

Why these bounds are enough for the cases that matter: interference between
breakpoints is between a word and an address in it, so that two breakpoints show it
and three or more show chains; the real word of 8 bytes with instructions of 1
to 15 bytes gives the same relations as words of 2 and 3 with instructions of 1
and 2. Two launches make every "old process, new process" case; what a launch
leaves behind is forgotten or not at the next one, so that a third shows no
new case. One pending breakpoint may coincide with another in address, which
needs two. The lines include each command, each answer, and an answer with a
command behind it, which is the one way in which the two readers meet. The proofs
of section 6 remove the bounds from everything but liveness.

The bounds in the models: `MaxPending` (breakpoints waiting for the first
`run`), `Pids` (launches in a session; no `run` is accepted when all are used),
`Fits` (the same two, as bounds on the lines of `CommandLoop`), `OffWords` (the words
behind `bp` that start with `off`).
`Breakpoints`, `Launch` and `Elf` have no counters.

Deadlock is checked in `Breakpoints`, where a command can always be typed
(`CommandOnGone` is the command on a dead process). It is not in
`Session`, `CommandLoop` and `Elf`, which end, nor in `Launch`, where a program that has died
leaves nothing to do.

Every property has a mutant: a small fault in the code's place (operators
commented `Fault:`) under which TLC finds the property violated.

## 4. Fairness and liveness

`Breakpoints!FairSpec` assumes `WF(Debugger)` and `WF(Tracee)`: the debugger
is sequential code between two prompts, and the kernel runs a process that was
resumed. Nothing is assumed of the user. `StepReturns` then says that `step`
always comes back. `RunsToTheEnd` puts its assumption on the user in the formula:
one who continues again and again, and types `stop` no more, gets a program that
does not loop, and does not fault for ever, to its end. A `stop` before each
continue would hold the tracee for ever, as each SIGINT stops it before it
moves. `Commands!FairCommandSpec`, which
`BpOverlap` checks, is the same fairness with the history variable.

`Launch!FairSpec` assumes the same of the two processes, the program
itself being part of the child (it does not run for ever); `RunReturns` says that
`run` comes back. Where `execv` fails the user may stay at the child's prompt,
where the child prints debug messages and is attached late it may be stopped
with the mutex: `RunReturns` excludes these two, and section 5 says why.

`CommandLoop!FairLoopSpec` assumes `WF(Serve \/ Answer \/ Go)`: the debugger
serves what it has read, and a user who is asked a question answers it or closes
the input. A command need never be typed. The program is assumed to stop or end
when it is resumed, as in `Session`, where that is one step. `CommandReturns` then
says that each command gives the prompt back or ends the debugger.

## 5. Where the code departs from what is said of it

Runs that TLC must find violated, each with the sentence it contradicts:

| Run | What happens |
|---|---|
| `BpStepTwice` | `bp` on a one-byte instruction, `step` over it: RIP-1 is the breakpoint again, and the next `step` rewinds and executes the instruction a second time |
| `BpLost` | a breakpoint set inside the word an older one saved is erased when the older one is lifted; the copy in the map stays, the program runs past it |
| `BpHidesFault` | a fault in the step inside `ptraceContinue` is overwritten by the continue's own status |
| `SessionStaleEntry` | after stepping a program to its very end and running it again, entries of the dead process are hit in the new one; `disable()` goes to the old pid and the program goes on behind the INT3, in the middle of an instruction |
| `CommandOff` | `bp off spin` looks up a function called `off` and leaves the INT3 of `spin` in the text |
| `ElfLargeBss` | a `.bss` that would end behind the end of the file leaves the stream failed: no later section is read, no function is found |

Other departures that the models have, which is why some properties name a
condition (set the constant the other way, or drop the condition, and TLC shows
the case):

- *`bp off` at a hit* (`Breakpoints`, `OffAddr`): the entry stays and stays
  `enabled`, and the next step or continue from there plants the INT3 again
  (`lib/bdd_ptrace_breakpoint.cpp:147`, `lib/bdd_ptrace.cpp:57`).
  `PlacedStaysPlanted`, `ResumeLiftsPlanted` and `ImplementsPromise` are about
  sessions without it. At the prompt `bp off X` never reads `X`
  (`apps/tracer.cpp:341`, run `CommandOff`); where no function is called `off` it
  reads behind the end of the function list.
- *`stop` at a hit* (`Breakpoints`): the next `run` takes the SIGINT in the step of
  `resumeBreakpoint`, forgets that stop, and continues into the breakpoint
  that was just planted again. `IdealDebugger!StopOnRequest` allows it; the user
  sees the same breakpoint twice and no stop.
- *A tracee killed from outside* (`Session`, `OutsideKill = TRUE`): a process that
  died of a signal, and was reaped, still counts as alive, so that `stop` and `kill`
  signal its pid, which may be another process's by then. `SignalsStayInside`
  needs `~OutsideKill`.
- *A `bp` that fails* prints its message without the argument
  (`apps/tracer.cpp:372`), and may end the debugger there.
- *Functions whose names start with `off` or `show`* cannot get a breakpoint by
  name (`CommandLoop!FunctionsAreHeard` leaves them out).
- *A process resumed at its exit* (`Session`, `PastExit = TRUE`): it counts as
  dead while `ram_start_address` and the map are still set, so that `run`
  skips `clearCurrentProcess`. `BaseIsCurrent`, `EntriesAreCurrent`,
  `MapMatchesText`, `NeverDerailed` and `NoticeIsRight` need `~PastExit`; so does
  `NoAssertionFails`, as `bp <function>` then meets `assert(isAlive())`. The
  same condition leaves out a step over a breakpoint on the exit call itself that
  is followed by a continue.
- *A breakpoint on a one-byte instruction* (`Session`, `OneByte`): after a step over
  it RIP-1 is its address, and the prompt says "hit a breakpoint" where nothing was
  hit (`apps/tracer.cpp:393`; with the cause of `BpStepTwice`). `NoticeIsRight` needs
  `Unambiguous`.
- *Breakpoints within a word* (`Session`, `WordSize`): `disable()` writes back a word
  that was saved before another breakpoint was planted in it, and the map goes on
  listing a breakpoint whose INT3 is gone (as in `BpLost`). `MapMatchesText` needs
  `Separated`.
- *A failed fork* (`Session`, `ForkMayFail = TRUE`): `traced_pid` is -1, a later
  `waitpid(-1)` may make the cached status alive, and `stop` or `kill` then
  signals process -1; or it waits for ever for a child that has reported its exit.
  `SignalsStayInside` and `CommandReturns` are checked without failing forks.
- *A program linked at fixed addresses* (`Pie = FALSE`): a `bp <function>`
  after the first run adds the load address to an absolute address; only
  pending breakpoints are told apart by `real_addr < ram_start_address`.
  `FunctionsAreFound` needs `Pie`.
- *ELF addresses in a position-independent program*: accepted before the first run
  and refused after it. `ElfAddressesAreFound` needs `~Pie`.
- *Late attachment* (`Launch`, `~timely`): the program runs before its
  breakpoints are placed. With debug messages the child may be stopped while
  it holds the print mutex and the debugger's next message waits for it for ever.
- *`execv` fails and the attachment is late*: `getTracedRAMAddress` may find no
  memory map and throw. `NeverThrows` names the condition.

## 6. What is proved

All theorems are about every value of the constants: every program and word size,
any number of launches, load addresses, functions, lines and files.

### Breakpoints (`BreakpointsProofs`, `PromiseProofs`)

Under `LayoutAssumption` and `UserAssumption`:

| Theorem | Further assumption |
|---|---|
| `TypeCorrect`, `TrapsAreKnown`, `OriginalsAreClean`, `AlwaysAtBoundaries` | none |
| `HitsAreExact`, `ExecutionIsTransparent` | `Unambiguous` |
| `PlacedAlwaysPlanted`, `ResumeLiftsOnlyPlanted` | `Separated`, `OffAddr = {}` |
| `FaultsAndExitAreReported` | `Unambiguous`, `Plain` |
| `KeepsPromise`: `Spec => ImplementsPromise` | `Unambiguous`, `Separated`, `Plain`, `OffAddr = {}` |

A SIGINT may be pending at any time in all of them. The argument has three layers.
The first is the inductive invariant `IInv`, which
holds wherever the breakpoints are. "Every INT3 is known" alone is not inductive:
`disable()` writes back a word that may hold INT3s of others, which must be known
too (`SavedTrapsKnown`), and lifting must lift (`OriginalsClean`: the saved word
does not hold the entry's own INT3, although `enable()` runs again on a planted
one, because `try_emplace` keeps the first entry). That the tracee runs at
instruction boundaries needs to know where RIP is in each phase of
`resumeBreakpoint` (`PositionInv`), which stops each phase can see
(`PhaseInv`), that the copy `bp` is the entry (`EntriesInv`), and that the
breakpoint is out of the text during the step (`LiftedInv`). Each action has a
lemma; `NextIInv` puts them together.

The second layer adds one restriction at a time. With `Unambiguous`,
`isTrappedAtBreakpoint` is exact, a resume only starts from a real hit, and
so each step of the machine is one of the program or moves nothing
(`NextProgramStep`). With `Separated` the lifting of one breakpoint touches no
other, which makes `PlacedStaysPlanted` inductive relative to `IInv`.

The third layer is about the stops that `resumeBreakpoint` does not show.
`SteppedPlainly` says what the step over a breakpoint can end in when no breakpoint
is on a faulting or exiting instruction, so that what the debugger overwrites is
never a fault or the exit (`StopsAreReported`). With `PlacedStaysPlanted` added
(`PromiseInv`), every action is a step of `IdealDebugger` or changes nothing of it,
one lemma for each: the requests of `resumeBreakpoint` are stutters, and the
processor may execute an instruction only where `IdealDebugger!MayPass` allows it
(`CodeMayPass`).

### Commands (`CommandsProofs`)

`CommandsHaveKnownOutcomes` is `CommandSpec => OutcomesAreKnown`, under
`LayoutAssumption` and `UserAssumption` alone: what `Session` takes for one step is
what the `ptrace` requests really add up to, byte by byte, on one-byte
instructions, with breakpoints inside the words of others, with `bp off`, on
faulting and exiting instructions. The invariant `ServedInv` carries what is known of
the process at the time of the command through its requests. `BeforeInv` says that
this process was one at the prompt. `Passing` follows the step over a breakpoint: the
text is the one before, then `LiftedText`, which has the saved word in it, then
`ReplantedText`, and `Passed` says how the step may end and what has become of a
pending SIGINT. `Waiting` says what the last request may do, from the prompt
(`WaitsPlainly`) or from behind the breakpoint (`WaitsPassed`). It is inductive
relative to `StepInv`, the invariants of `Breakpoints`.

When the command ends, the lemmas `ExitResumed`, `SignalTaken`, `ResumedToStop`,
`SteppedFrom`, `ResumedOver` and `PassedOver` find the process among the outcomes of
`Session!Resume`, `Session!RawStep` and `Session!ResumeBreakpoint`. `TextLifted` and
`TextReplanted` say that a word transferred by `Poke` is what `Session!Disabled`
does to the set of INT3s. That the two modules take the same branch, over a
breakpoint or not, is `TrappedForLife` with `KnownToLife`, `PlacedForLife` and
`NoHitForLife`.

### Session (`SessionProofs`)

Under `SessionAssumption`. Three inductive invariants, each with its own condition:

| Theorem | Invariant | Further assumption |
|---|---|---|
| `SessionTypes`, `NoneIsLeftBehind`, `PendingBreakpointsArePlaced` | `SessionInv` | none: forks may fail, processes be killed from outside or resumed at their exit |
| `BaseFollows`, `EntriesFollow`, `NoneDerails` | `OneLaunchInv` | `~PastExit` |
| `NoticesAreRight` | both | `~PastExit`, `Unambiguous` |
| `MapFollowsText` | both | `~PastExit`, `OffWords = {}`, `Separated` |
| `AssertionsHold` | `OneLaunchInv` | `~PastExit`, `OffWords = {}` |
| `FunctionBreakpoints` | `OneLaunchInv` | `~PastExit`, `Pie` |
| `AddressBreakpoints` | `OneLaunchInv` | `~PastExit`, every typed address is in the mapping |
| `SignalsReachTheirs` | `SignalInv` | `~OutsideKill`, `~ForkMayFail` |

`SessionInv` relates the kernel's view to the cached one. `ProcessesInv`: only the
process of the last fork can be alive, and those not forked yet are untouched.
`StatusInv`: at the prompt `cached_status` is the word the kernel stored for that
process; this is where `Words`, `Predicates` and `StatusWords` are used, which say
for each word which macros of `sys/wait.h` hold of it. `MapInv`: an INT3 in a process
that is alive has an entry, and so have those in a word that was saved
(`EntriesInv`); a process that hit one is at an entry. `EndInv` and
`PendingInv` are about the way out and the list of pending breakpoints.

`OneLaunchInv` says that base, map and entries are of one launch: `LaunchInv` ties
`hasStarted`, the entries' pids and the base to the traced process, `TargetsInv`
the entries to what the user can ask for there, `TextInv`
the map to its text where `Separated` holds (no saved word then reaches another
entry, `TargetsApart`), `NamesInv` the names to the addresses, `AddressInv` the refusals
to the mapping. A process that is resumed at its exit breaks the first clause, as it
is dead while the map is kept; hence `~PastExit`. With `TargetsInv`, `Unambiguous`
gives that RIP-1 is no entry behind a one-byte instruction, which is what
`NoticesAreRight` adds to `MapInv`.

`SignalInv` needs more than its theorem says: that `force_end` follows each kill, and
that a process that is gone has left through its exit, so that `isAlive` is false of it.

### CommandLoop (`CommandLoopProofs`)

`LoopImplementsSession` says `LoopSpec => ImplementsSession`, if the words behind
`off` are those that `OffWords` has. An answer acts on what its question was asked
about; `QuestionInv` says that this is still so: nothing happens to the
program between question and answer. `LoopKeepsSession` then carries
`NoOrphan` and `PendingArePlaced` over, which `Session` has without a condition,
`LoopNoticesAreRight` the notices under their conditions, and `BpHearsFunctions` is `FunctionsAreHeard`.

### Launch (`LaunchProofs`)

No assumption. `LaunchTypes` (who holds the mutex), `InTime`, `OneReaderAtATime`,
`MapIsFound`, and the refinement `LaunchKeepsPromise`. The invariant `LaunchInv` has
three parts besides the types and the mutex: `NewsInv` (each stop of the child is
news once, and between two waits the debugger knows whether the child moves),
`ExecInv` (a child whose `execv` succeeds stops there before it can die, attached in
time or not), and `TimelyInv`, which follows a launch that is attached in time step
by step. The abstract steps are `Exec` (`Load`), `PlaceEveryPendingBreakpoints`
(`PlacePending`), the continue under the lock, the program's stop, the
message that gives the prompt back, and `RunAgain`; all others are stutters.

### Elf (`ElfProofs`, `FlattenProofs`)

Under `FilesAssumption`: `TypeCorrect`; and if each section, `.bss` included, would
end within the file, `SectionsAlwaysRead`, `MenuAlwaysRight` and
`FunctionsAlwaysListed`. The invariant
`ReadInv` says that the stream is good after every read, so that the reused buffer is
overwritten in full (`ReadContent`); the names in the menu are then found in the data
kept for their string table (`NameIsFound`).

`FunctionsAlwaysListed` is about loops over data: `getFunctionsList` appends, for each
symbol table, an entry for each function with a name. `Elf` writes these loops as
`FlattenSeq` of what each round appends; that a file can have any number of tables and
entries takes an induction over the rounds. The library's induction theorems have an
operator as parameter, which the provers cannot instantiate, but the well-foundedness
of the naturals is a fact about sets. `FlattenProofs` derives from it that a nonempty
set of naturals has a least element (`LeastElement`), induction for sets
(`SetInduction`), that the recursive equation of `FlattenSeq` has a solution
(`BodyHasFixpoint`), and that its result holds the elements of the parts and no other
(`FlattenElements`). `ElfProofs` applies this to each loop: `TablesAreFound`,
`EntryOfSymbol` and `TableIsListed`, `ListIsComplete`. `AddressIsListed` says that
`find_if` has a first entry to stop at for a function of the file (`LeastElement`).

### Only model-checked

Liveness: `StepReturns`, `RunsToTheEnd`, `RunReturns`, `CommandReturns`. It needs
`ENABLED`, which the prover does not have.

## 7. What is not modelled

- Backtraces (a loop over libunwind calls), `registers`, `dump` (runs objdump),
  `status`, `bp show`, help and version: they read and format and keep no state.
  `CommandLoop!DisplayChosen` is all of them, and changes nothing.
- `readelf`: loads one file, as `Elf` does, and prints it.
- Formatting, colours and buffer lengths.
- The print mutex outside a launch: there is then one process that uses it, and
  `input` releases what it took.
- Parameters of `run` (`args[32]`): they do not influence the debugger's state.
- What the processor and the kernel do beyond the requests used; signals to the
  tracee other than SIGINT, SIGSEGV and SIGKILL; threads or children of the traced
  program.
- A kill from outside while a launch is under way: `Launch` has none, and `Session`
  takes it as one step.
- The text of a process that is dying: it runs no more.
- A `bp 0x...` with an address inside an instruction, where an INT3 is an operand
  and not executed (`UserAddr`, and `BpAddr` in `Breakpoints`).
- Files whose header tables are cut off.

## 8. Plan

Done: the breakpoint machinery with its abstract specification and proofs, the
session with its status words and faults, the command loop, the launch with
its abstract specification, the links between them, the loader; the safety
properties and the refinements of all of them are proved.

Left: liveness stays with TLC, for the reason in section 6; the parts of section 7
keep no state.
