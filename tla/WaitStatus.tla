------------------------------- MODULE WaitStatus -------------------------------
(***************************************************************************)
(* The words that waitpid stores in TracedProgram::cached_status, and the  *)
(* macros of sys/wait.h that lib/bdd_signals.cpp reads them with. A word   *)
(* is a number of 32 bits: the low byte tells how the process stopped or   *)
(* ended, the second one the signal or the exit code, and the upper half   *)
(* the ptrace event.                                                       *)
(***************************************************************************)
EXTENDS Integers

SIGINT == 2
SIGTRAP == 5
SIGKILL == 9
SIGSEGV == 11
PTRACE_EVENT_EXIT == 6

(* What the kernel stores. *)
Exited(code) == code * 256
KilledBy(signal, dumped) == signal + (IF dumped THEN 128 ELSE 0)
StoppedBy(signal) == signal * 256 + 127
StoppedAt(event) == event * 65536 + StoppedBy(SIGTRAP)

(* What sys/wait.h reads. *)
WIFEXITED(status) == status % 128 = 0
WIFSTOPPED(status) == status % 256 = 127
WSTOPSIG(status) == (status \div 256) % 256
================================================================================
