-------------------------------- MODULE Commands --------------------------------
(***************************************************************************)
(* What a whole `step' or `run' does to the traced process, which module   *)
(* Breakpoints shows one ptrace request after the other and module Session *)
(* takes as one step. A history variable remembers the process as it was   *)
(* when the command was typed; what the command leaves behind must be one  *)
(* of the outcomes that Session has for it.                                *)
(***************************************************************************)
EXTENDS Breakpoints

VARIABLE before    \* the process when the command being served was typed

commandVars == <<vars, before>>

Load == 100        \* where the text is loaded, for Session

Shifted(S) == {Load + a : a \in S}

Text == {a \in Addr : mem[a] = "INT3"}

\* The INT3s in the word that an entry saved.
Saved(a) == {b \in Addr : b - a \in Offset /\ breakpointsMap[a].original[b - a] = "INT3"}

Short == {a \in Instr : a + 1 \in Instr}

\* The traced process as Session knows it: RIP-1 counts if it is an INT3 that was
\* executed or a one-byte instruction.
Process ==
  [life |-> IF tracee = "gone" THEN "gone" ELSE "stopped",
   base |-> Load,
   planted |-> Shifted(Text),
   at |-> CASE tracee = "int3" -> "hit"
            [] tracee = "gone" -> "exit"
            [] OTHER -> tracee,
   addr |-> IF tracee = "int3" \/ GetIP \in Short THEN Load + GetIP ELSE 0,
   sigint |-> sigint,
   derailed |-> FALSE]

Life == INSTANCE Session WITH
  Pids <- {1}, Bases <- {Load}, Size <- Last + 1, Pie <- TRUE, Functions <- {},
  WordSize <- WordSize, OneByte <- Short,
  UserAddr <- {}, MaxPending <- 0, PastExit <- TRUE, ForkMayFail <- FALSE,
  OffWords <- {}, OutsideKill <- FALSE,
  ram_start_address <- Load, traced_pid <- 1, cached_status <- 0,
  breakpointsMap <- [a \in Shifted(Addr) |-> IF a - Load \in Placed
                                             THEN [pid |-> 1, name |-> 0,
                                                   saved |-> Shifted(Saved(a - Load))]
                                             ELSE [pid |-> 0]],
  pendingBreakpointsMap <- <<>>, force_end <- FALSE, phase <- "prompt",
  after <- "prompt", proc <- <<Process>>, strays <- {}, refused <- {}

CommandInit == Init /\ before = Process

CommandNext ==
  \/ Command /\ before' = Process
  \/ Debugger /\ UNCHANGED before
  \/ Tracee /\ UNCHANGED before

CommandSpec == CommandInit /\ [][CommandNext]_commandVars

\* The debugger and the tracee keep going, as in FairSpec of Breakpoints.
FairCommandSpec ==
  CommandSpec /\ WF_commandVars(Debugger /\ UNCHANGED before)
              /\ WF_commandVars(Tracee /\ UNCHANGED before)

\* What the several ptrace requests of a command do to the process, with the
\* faults, hits and the exit that come in between, is what Session says of the
\* whole command: the INT3s that the text has in the end, how the process stopped
\* and what RIP-1 then says, wherever the breakpoints are.
OutcomesAreKnown ==
  [][cmd # "none" /\ cmd' = "none" =>
       Process' \in IF cmd = "step" THEN Life!Stepped(before)
                    ELSE Life!Continued(before)]_commandVars
================================================================================
