----------------------------- MODULE SessionProofs -----------------------------
(***************************************************************************)
(* Proofs about Session, for any number of launches, any load addresses    *)
(* and any number of breakpoints.                                          *)
(*                                                                         *)
(* Three invariants, each for what the code keeps together under fewer     *)
(* circumstances: SessionInv always holds; LaunchInv needs that no process *)
(* is resumed at its exit (~PastExit), and TextInv beside it that no word  *)
(* saved by an entry covers another breakpoint; SignalInv that the debugger *)
(* alone kills its process and that fork does not fail.                    *)
(***************************************************************************)
EXTENDS Session, WellFoundedInduction, TLAPS

-----------------------------------------------------------------------------
(* The words of waitpid. *)

DeadBySignal == KilledBy(SIGKILL, FALSE)
AtTrap == StoppedBy(SIGTRAP)
AtFault == StoppedBy(SIGSEGV)
AtInterrupt == StoppedBy(SIGINT)

Word == {0, DeadBySignal, ExitStop, AtTrap, AtFault, AtInterrupt}

LEMMA WordNumbers ==
  /\ DeadBySignal = 9 /\ ExitStop = 394623
  /\ AtTrap = 1407 /\ AtFault = 2943 /\ AtInterrupt = 639
  BY SMT DEF DeadBySignal, AtTrap, AtFault, AtInterrupt, ExitStop, KilledBy, StoppedAt,
             StoppedBy, SIGINT, SIGTRAP, SIGKILL, SIGSEGV, PTRACE_EVENT_EXIT

LEMMA WordsDiffer ==
  /\ 0 \notin {DeadBySignal, ExitStop, AtTrap, AtFault, AtInterrupt}
  /\ DeadBySignal \notin {ExitStop, AtTrap, AtFault, AtInterrupt}
  /\ ExitStop \notin {AtTrap, AtFault, AtInterrupt}
  /\ AtTrap \notin {AtFault, AtInterrupt}
  /\ AtFault # AtInterrupt
  BY WordNumbers, SMT

LEMMA StatusIsWord == Status = Word
  BY SMT DEF Status, Word, Exited, DeadBySignal, AtTrap, AtFault, AtInterrupt

\* Each word that a session sees satisfies the one predicate it should: only the
\* 0 that cached_status starts with reads as an exit.
LEMMA Words ==
  \A s \in Word :
    /\ WIFEXITED(s) <=> s = 0
    /\ WIFSTOPPED(s) <=> s \notin {0, DeadBySignal}
    /\ s \notin {0, DeadBySignal} =>
         /\ WSTOPSIG(s) = SIGTRAP <=> s \in {ExitStop, AtTrap}
         /\ WSTOPSIG(s) = SIGSEGV <=> s = AtFault
    /\ (s \div 65536 = PTRACE_EVENT_EXIT) <=> s = ExitStop
<1> USE DEF SIGTRAP, SIGSEGV, PTRACE_EVENT_EXIT, WIFEXITED, WIFSTOPPED, WSTOPSIG
<1>1. /\ 0 % 128 = 0 /\ 0 % 256 = 0 /\ 0 \div 65536 = 0
      /\ 9 % 128 = 9 /\ 9 % 256 = 9 /\ 9 \div 65536 = 0
      /\ 394623 % 128 = 127 /\ 394623 % 256 = 127 /\ 394623 \div 65536 = 6
      /\ 1407 % 128 = 127 /\ 1407 % 256 = 127 /\ 1407 \div 65536 = 0
      /\ 2943 % 128 = 127 /\ 2943 % 256 = 127 /\ 2943 \div 65536 = 0
      /\ 639 % 128 = 127 /\ 639 % 256 = 127 /\ 639 \div 65536 = 0
  BY SMT
<1>2. /\ (394623 \div 256) % 256 = 5 /\ (1407 \div 256) % 256 = 5
      /\ (2943 \div 256) % 256 = 11 /\ (639 \div 256) % 256 = 2
  BY SMT
<1> QED
  BY <1>1, <1>2, WordNumbers, SMT DEF Word

\* The predicates of bdd_signals.cpp, on a word.
LEMMA Predicates ==
  ASSUME cached_status \in Status
  PROVE  /\ isDead <=> cached_status = 0
         /\ isAlive <=> cached_status # 0
         /\ isExiting <=> cached_status = ExitStop
         /\ isSegfault <=> cached_status = AtFault
<1>1. cached_status \in Word
  BY StatusIsWord
<1> QED
  BY <1>1, Words, WordsDiffer
     DEF isDead, isAlive, isExiting, isTrapped, isStopped, isSegfault

LEMMA PredicatesNext ==
  ASSUME cached_status' \in Status
  PROVE  /\ isDead' <=> cached_status' = 0
         /\ isAlive' <=> cached_status' # 0
         /\ isExiting' <=> cached_status' = ExitStop
<1>1. cached_status' \in Word
  BY StatusIsWord
<1> QED
  BY <1>1, Words, WordsDiffer DEF isDead, isAlive, isExiting, isTrapped, isStopped

\* StatusOf, case by case.
LEMMA StatusWords ==
  ASSUME NEW p \in Process
  PROVE  /\ StatusOf(p) \in Status
         /\ p.life = "gone" /\ p.at = "exit" => StatusOf(p) = 0
         /\ p.life = "gone" /\ p.at = "dying" => StatusOf(p) = DeadBySignal
         /\ p.life # "gone" /\ Leaving(p) => StatusOf(p) = ExitStop
         /\ ~Leaving(p) /\ p.at = "segv" => StatusOf(p) = AtFault
         /\ ~Leaving(p) /\ p.at = "sigint" => StatusOf(p) = AtInterrupt
         /\ ~Leaving(p) /\ p.at \notin {"segv", "sigint"} => StatusOf(p) = AtTrap
<1>1. Exited(0) = 0
  BY DEF Exited
<1> QED
  BY <1>1, StatusIsWord DEF StatusOf, Word, Leaving, DeadBySignal, AtTrap, AtFault, AtInterrupt

-----------------------------------------------------------------------------
(* What a resumed process may become. *)

\* q is p after it was resumed: it stopped somewhere or it is gone.
Moved(p, q) ==
  /\ q \in Process
  /\ q.base = p.base
  /\ q.life \in {"stopped", "gone"}
  /\ q.life = "gone" <=> Leaving(p)
  /\ q.life = "gone" => q.at = p.at
  /\ q.at = "dying" <=> p.at = "dying"
  /\ q.at # "start"

\* Addresses are positive, and one-byte instructions are at addresses.
LEMMA AddrNat ==
  /\ Addr \subseteq Nat \ {0}
  /\ \A b \in Bases : ShortAt(b) \subseteq Addr
<1>1. Addr \subseteq Nat \ {0}
  <2>1. UserAddr \subseteq Nat \ {0}
    BY SessionAssumption
  <2>2. \A b \in Bases : Mapped(b) \subseteq Nat \ {0}
    BY SessionAssumption DEF Mapped
  <2>3. \A b \in Bases, a \in Functions \cup UserAddr : b + a \in Nat \ {0}
    <3>1. Bases \subseteq Nat \ {0} /\ Functions \cup UserAddr \subseteq Nat \ {0}
      BY SessionAssumption
    <3> QED
      BY <3>1
  <2>4. ASSUME NEW a \in Addr PROVE a \in Nat \ {0}
    <3>1. \/ a \in UserAddr
          \/ \E b \in Bases : a \in Mapped(b)
          \/ \E b \in Bases, c \in Functions \cup UserAddr : a = b + c
      BY <2>4, SMT DEF Addr
    <3> QED
      BY <2>1, <2>2, <2>3, <3>1, Zenon
  <2> QED
    BY <2>4
<1>2. ASSUME NEW b \in Bases, NEW o \in OneByte PROVE b + o \in Mapped(b)
  BY SessionAssumption DEF Mapped
<1> QED
  BY <1>1, <1>2 DEF Addr, ShortAt

\* Where RIP-1 of a process is that no INT3 has stopped.
Located(p) == p.at \notin {"hit", "dying"} => p.addr \in {0} \cup ShortAt(p.base)

\* Its INT3s, and where it may have been stopped, if these are the breakpoints.
Traceable(p, breakpoints) ==
  /\ p.base \in Bases
  /\ p.planted \subseteq breakpoints
  /\ p.at = "hit" => p.addr \in breakpoints
  /\ Located(p)

\* The word an entry saved holds INT3s of other entries only.
EntriesInv == \A a \in Placed : breakpointsMap[a].saved \subseteq Placed \ {a}

LEMMA ResumeMoves ==
  ASSUME NEW p \in Process, p.life = "stopped", p.at # "start", p.base \in Bases,
         NEW single \in BOOLEAN, NEW q \in Resume(p, single)
  PROVE  /\ Moved(p, q)
         /\ q.planted = p.planted
         /\ q.at = "hit" => q.addr \in p.planted
         /\ Located(p) /\ (p.at = "hit" => ~p.sigint) => Located(q)
         /\ q.derailed => p.derailed \/ p.at = "hit"
         /\ ~Leaving(p) => ~q.sigint
<1> DEFINE on == p.derailed \/ p.at = "hit"
           r == [p EXCEPT !.derailed = on]
<1>1. CASE Leaving(p)
  <2>1. q = [p EXCEPT !.life = "gone"]
    BY <1>1 DEF Resume
  <2> QED
    BY <1>1, <2>1 DEF Moved, Leaving, Process, Located
<1>2. CASE ~Leaving(p) /\ p.sigint
  <2>1. q = [[[p EXCEPT !.sigint = FALSE] EXCEPT !.at = "sigint"] EXCEPT !.derailed = on]
    BY <1>2, Zenon DEF Resume
  <2> QED
    BY <1>2, <2>1 DEF Moved, Leaving, Process, Located
<1>3. CASE ~Leaving(p) /\ ~p.sigint
  <2>1. \/ \E a \in r.planted : q = [[r EXCEPT !.at = "hit"] EXCEPT !.addr = a]
        \/ q = [[r EXCEPT !.at = "exit"] EXCEPT !.addr = 0]
        \/ \E way \in {"segv", "step"}, a \in {0} \cup ShortAt(r.base) :
             q = [[r EXCEPT !.at = way] EXCEPT !.addr = a]
    <3> DEFINE ways == IF single THEN {"segv", "step"} ELSE {"segv"}
    <3>1. q \in Stops(r, ways)
      BY <1>3, Zenon DEF Resume
    <3>2. ways \subseteq {"segv", "step"}
      OBVIOUS
    <3> HIDE DEF r, ways
    <3>3. \/ \E a \in r.planted : q = [r EXCEPT !.at = "hit", !.addr = a]
          \/ q = [r EXCEPT !.at = "exit", !.addr = 0]
          \/ \E way \in ways : q \in Behind(r, way)
      BY <3>1, Zenon DEF Stops
    <3>4. \A way \in ways : q \in Behind(r, way) =>
            \E a \in {0} \cup ShortAt(r.base) : q = [r EXCEPT !.at = way, !.addr = a]
      BY Zenon DEF Behind
    <3> QED
      BY <3>2, <3>3, <3>4, Zenon
  <2>2. /\ r \in Process /\ r.base = p.base /\ r.life = "stopped" /\ r.at = p.at
        /\ r.planted = p.planted /\ r.derailed = on /\ ~r.sigint
    BY <1>3 DEF Process
  <2>3. /\ p.planted \subseteq Addr /\ p.at # "dying" /\ ~Leaving(p)
        /\ ShortAt(p.base) \subseteq Addr
    BY <1>3, AddrNat DEF Process, Leaving
  <2> HIDE DEF r
  <2>4. CASE \E a \in r.planted : q = [[r EXCEPT !.at = "hit"] EXCEPT !.addr = a]
    BY <2>2, <2>3, <2>4 DEF Moved, Process, Leaving, Located
  <2>5. CASE q = [[r EXCEPT !.at = "exit"] EXCEPT !.addr = 0]
    BY <2>2, <2>3, <2>5 DEF Moved, Process, Leaving, Located
  <2>6. ASSUME NEW way \in {"segv", "step"}, NEW a \in {0} \cup ShortAt(r.base),
               q = [[r EXCEPT !.at = way] EXCEPT !.addr = a]
        PROVE  /\ Moved(p, q)
               /\ q.planted = p.planted
               /\ q.at = "hit" => q.addr \in p.planted
               /\ Located(q)
               /\ q.derailed => on
               /\ ~q.sigint
    <3>1. q.at = way /\ q.addr = a /\ q.derailed = r.derailed /\ q.sigint = r.sigint
          /\ q.planted = r.planted
      BY <2>2, <2>6 DEF Process
    <3>2. Moved(p, q)
      BY <2>2, <2>3, <2>6 DEF Moved, Process, Leaving
    <3>3. q.base = p.base
      BY <3>2 DEF Moved
    <3> QED
      BY <2>2, <2>6, <3>1, <3>2, <3>3 DEF Located
  <2> QED
    BY <2>1, <2>4, <2>5, <2>6
<1> QED
  BY <1>1, <1>2, <1>3

\* The step over a breakpoint. If the entry is that of the traced process, its INT3
\* is out of the way; if not, it may be hit once more.
LEMMA ResumesBreakpoint ==
  ASSUME NEW p \in Process, p.life = "stopped", p.at # "start", ~Leaving(p),
         EntriesInv, Placed \subseteq Addr, p.addr \in Placed, Traceable(p, Placed),
         NEW q \in ResumeBreakpoint(p)
  PROVE  /\ Moved(p, q)
         /\ Traceable(q, Placed)
         /\ ~q.sigint
         /\ q.at = "exit" => PastExit
         /\ q.derailed => p.derailed
         /\ breakpointsMap[p.addr].pid = traced_pid => q.at # "hit"
         /\ p.planted \cap Bytes(p.addr) \subseteq {p.addr} => p.planted \subseteq q.planted
<1> DEFINE a == p.addr
           back == IF a - 1 \in ShortAt(p.base) THEN a - 1 ELSE 0
           Ready(t) == [[[p EXCEPT !.planted = t] EXCEPT !.at = "exec"] EXCEPT !.addr = back]
<1>1. a \in Placed /\ a \in Addr /\ a \in Bytes(a)
      /\ p.planted \subseteq Placed /\ p.base \in Bases
  <2>1. a \in Bytes(a)
    <3>1. a \in Nat /\ WordSize \in Nat \ {0}
      BY AddrNat, SessionAssumption
    <3> QED
      BY <3>1 DEF Bytes
  <2> QED
    BY <2>1 DEF Traceable
<1>2. back \in {0} \cup ShortAt(p.base) /\ back \in Addr \cup {0}
  BY <1>1, AddrNat
<1>3. ASSUME NEW t \in SUBSET Placed, NEW r \in Resume(Ready(t), TRUE),
             r.at = "exit" => PastExit
      PROVE  /\ Moved(p, r) /\ r.planted = t /\ ~r.sigint
             /\ r.at = "hit" => r.addr \in t
             /\ Located(r) /\ r.base \in Bases
             /\ r.derailed => p.derailed
  <2> DEFINE o == Ready(t)
  <2>1. /\ o \in Process /\ o.life = "stopped" /\ o.at = "exec" /\ o.base = p.base
        /\ o.planted = t /\ o.addr = back /\ o.derailed = p.derailed
    BY <1>2 DEF Process
  <2> HIDE DEF o, back
  <2>2. Located(o) /\ ~Leaving(o)
    BY <1>2, <2>1 DEF Located, Leaving
  <2>3. /\ Moved(o, r) /\ r.planted = o.planted /\ ~r.sigint
        /\ r.at = "hit" => r.addr \in o.planted
        /\ Located(r) /\ (r.derailed => o.derailed)
    BY <1>1, <1>3, <2>1, <2>2, ResumeMoves DEF o
  <2> QED
    BY <1>1, <2>1, <2>2, <2>3 DEF Moved, Leaving
<1>4. CASE breakpointsMap[a].pid = traced_pid
  <2> DEFINE t == (p.planted \ Bytes(a)) \cup breakpointsMap[a].saved
  <2>1. t \subseteq Placed /\ a \notin t
    BY <1>1 DEF EntriesInv
  <2>2. PICK r \in RawStep(Disabled(p, a), a) : q = [r EXCEPT !.planted = r.planted \cup {a}]
    BY <1>4, Zenon DEF ResumeBreakpoint
  <2>3. Rewound(Disabled(p, a), a) = Ready(t)
    <3>1. Disabled(p, a) = [p EXCEPT !.planted = t]
      BY DEF Disabled
    <3>2. [p EXCEPT !.planted = t].base = p.base
      BY DEF Process
    <3> HIDE DEF t
    <3> QED
      BY <3>1, <3>2 DEF Rewound
  <2> HIDE DEF t
  <2>4. /\ r \in Resume(Ready(t), TRUE) /\ (r.at = "exit" => PastExit)
        /\ r.at = "hit" => r.addr = a
    <3> HIDE DEF Ready, a
    <3> QED
      BY <2>2, <2>3 DEF RawStep
  <2> HIDE DEF Ready
  <2>5. /\ Moved(p, r) /\ r.planted = t /\ ~r.sigint
        /\ r.at = "hit" => r.addr \in t
        /\ Located(r) /\ r.base \in Bases
        /\ r.derailed => p.derailed
    BY <1>3, <2>1, <2>4
  <2>6. /\ q.planted = t \cup {a} /\ q.at = r.at /\ q.addr = r.addr /\ q.base = r.base
        /\ q.life = r.life /\ q.derailed = r.derailed /\ q.sigint = r.sigint
        /\ q \in Process
    BY <1>1, <2>2, <2>5 DEF Moved, Process
  <2>7. r.at # "hit"
    BY <2>1, <2>4, <2>5
  <2>8. p.planted \cap Bytes(a) \subseteq {a} => p.planted \subseteq t \cup {a}
    BY DEF t
  <2> HIDE DEF a
  <2>9. Moved(p, q) /\ Located(q) /\ Traceable(q, Placed)
    BY <1>1, <2>1, <2>5, <2>6, <2>7 DEF Moved, Located, Leaving, Traceable
  <2> QED
    BY <2>4, <2>5, <2>6, <2>7, <2>8, <2>9 DEF a
<1>5. CASE breakpointsMap[a].pid # traced_pid
  <2>1. q \in RawStep(p, a)
    BY <1>5 DEF ResumeBreakpoint
  <2>2. Rewound(p, a) = Ready(p.planted)
    <3>1. [p EXCEPT !.planted = p.planted] = p
      BY DEF Process
    <3> QED
      BY <3>1 DEF Rewound
  <2>3. q \in Resume(Ready(p.planted), TRUE) /\ (q.at = "exit" => PastExit)
    <3> HIDE DEF Ready, a
    <3> QED
      BY <2>1, <2>2 DEF RawStep
  <2> HIDE DEF Ready
  <2>4. /\ Moved(p, q) /\ q.planted = p.planted /\ ~q.sigint
        /\ q.at = "hit" => q.addr \in p.planted
        /\ Located(q) /\ q.base \in Bases
        /\ q.derailed => p.derailed
    BY <1>1, <1>3, <2>3
  <2> QED
    BY <1>1, <1>5, <2>3, <2>4 DEF Traceable
<1> QED
  BY <1>4, <1>5

\* The outcomes of `continue' and `step'. Where the entries are those of the traced
\* process, the INT3 that it stopped at is never executed again, and where they are
\* apart no other one is lost.
LEMMA Outcomes ==
  ASSUME NEW p \in Process, p.life = "stopped", p.at # "start",
         EntriesInv, Placed \subseteq Addr, Traceable(p, Placed),
         NEW q \in Continued(p) \cup Stepped(p)
  PROVE  /\ q \in Process
         /\ q.base = p.base
         /\ q.life \in {"stopped", "gone"}
         /\ q.life = "gone" => Leaving(q)
         /\ q.at # "start"
         /\ q.at = "dying" <=> p.at = "dying"
         /\ Traceable(q, Placed)
         /\ (\A a \in Placed : Placed \cap Bytes(a) \subseteq {a})
               => p.planted \subseteq q.planted
         /\ q.life = "gone" /\ ~PastExit => Leaving(p)
         /\ q.derailed =>
              \/ p.derailed
              \/ p.addr \in Placed /\ breakpointsMap[p.addr].pid # traced_pid
<1>1. CASE ~IsTrappedAtBreakpoint(p)
  <2>1. PICK single \in BOOLEAN : q \in Resume(p, single)
    BY <1>1 DEF Continued, Stepped
  <2>2. p.at # "hit" /\ p.base \in Bases /\ p.planted \subseteq Placed /\ Located(p)
    BY <1>1 DEF IsTrappedAtBreakpoint, Traceable
  <2>3. /\ Moved(p, q)
        /\ q.planted = p.planted
        /\ q.at = "hit" => q.addr \in p.planted
        /\ Located(q)
        /\ q.derailed => p.derailed
    BY <2>1, <2>2, ResumeMoves
  <2> QED
    BY <2>2, <2>3 DEF Moved, Leaving, Traceable
<1>2. CASE IsTrappedAtBreakpoint(p) /\ Leaving(p)
  <2>1. q = [p EXCEPT !.life = "gone"]
    <3> DEFINE gone == [p EXCEPT !.life = "gone"]
    <3>1. ResumeBreakpoint(p) = {gone}
      BY <1>2, Zenon DEF ResumeBreakpoint, Resume
    <3>2. gone.at = p.at /\ [gone EXCEPT !.life = "gone"] = gone
      BY DEF Process
    <3> HIDE DEF gone
    <3>3. Resume(gone, FALSE) = {gone}
      <4>1. Leaving(gone)
        BY <1>2, <3>2 DEF Leaving
      <4>2. Resume(gone, FALSE) = {[gone EXCEPT !.life = "gone"]}
        BY <4>1, Zenon DEF Resume
      <4> QED
        BY <3>2, <4>2
    <3>4. q \in {gone} \cup UNION {Resume(r, FALSE) : r \in {gone}}
      BY <1>2, <3>1 DEF Continued, Stepped
    <3> QED
      BY <3>3, <3>4 DEF gone
  <2> QED
    BY <1>2, <2>1 DEF Process, Leaving, Traceable, Located
<1>3. CASE IsTrappedAtBreakpoint(p) /\ ~Leaving(p)
  <2>1. p.addr \in Placed
    BY <1>3 DEF IsTrappedAtBreakpoint
  <2>2. PICK r \in ResumeBreakpoint(p) : q = r \/ q \in Resume(r, FALSE)
    BY <1>3 DEF Continued, Stepped
  <2>3. /\ Moved(p, r)
        /\ Traceable(r, Placed)
        /\ ~r.sigint
        /\ r.at = "exit" => PastExit
        /\ r.derailed => p.derailed
        /\ breakpointsMap[p.addr].pid = traced_pid => r.at # "hit"
        /\ p.planted \cap Bytes(p.addr) \subseteq {p.addr} => p.planted \subseteq r.planted
    BY <1>3, <2>1, ResumesBreakpoint
  <2>4. (\A a \in Placed : Placed \cap Bytes(a) \subseteq {a}) => p.planted \subseteq r.planted
    BY <2>1, <2>3 DEF Traceable
  <2>5. CASE q = r
    BY <1>3, <2>3, <2>4, <2>5 DEF Moved, Leaving
  <2>6. CASE q \in Resume(r, FALSE)
    <3>1. /\ r \in Process /\ r.life = "stopped" /\ r.at \notin {"start", "dying"}
          /\ r.base \in Bases /\ r.base = p.base /\ r.planted \subseteq Placed /\ Located(r)
      BY <1>3, <2>3 DEF Moved, Leaving, Traceable
    <3>2. /\ Moved(r, q)
          /\ q.planted = r.planted
          /\ q.at = "hit" => q.addr \in r.planted
          /\ Located(q)
          /\ q.derailed => r.derailed \/ r.at = "hit"
      BY <2>3, <2>6, <3>1, ResumeMoves
    <3> QED
      BY <1>3, <2>1, <2>3, <2>4, <3>1, <3>2 DEF Moved, Leaving, Traceable
  <2> QED
    BY <2>2, <2>5, <2>6
<1> QED
  BY <1>1, <1>2, <1>3

-----------------------------------------------------------------------------
(* What always holds, under no condition on the constants. *)

Fresh ==
  [life |-> "unused", base |-> 0, planted |-> {}, at |-> "start", addr |-> 0,
   sigint |-> FALSE, derailed |-> FALSE]

Forked == [Fresh EXCEPT !.life = "stopped"]

\* A process that has been launched and has reached its execve.
Attached == traced_pid \in Pids /\ phase # "init"

ProcessesInv ==
  \A p \in Pids :
    /\ proc[p].life = "unused" => proc[p] = Fresh
    /\ proc[p].life = "gone" => Leaving(proc[p])
    /\ Live(p) => p = traced_pid

\* The cached status is the last word of the traced process.
StatusInv ==
  /\ phase \in {"fork", "init"} => cached_status = 0
  /\ phase = "clear" => cached_status # 0
  /\ traced_pid = 0 => cached_status = 0
  /\ phase = "init" => traced_pid \in Pids /\ proc[traced_pid] = Forked
  /\ traced_pid \in Pids => proc[traced_pid].life # "unused"
  /\ Attached => /\ cached_status = StatusOf(proc[traced_pid])
                 /\ proc[traced_pid].at # "start"
  /\ phase = "continue" /\ traced_pid \in Pids => cached_status # ExitStop

EndInv ==
  /\ force_end => /\ phase \in {"prompt", "ended"}
                  /\ \A p \in Pids : ~Live(p)
  /\ phase = "ended" => /\ force_end
                        /\ \A p \in Pids :
                             proc[p].life = "detached" => proc[p].at = "dying"
  /\ \A p \in Pids :
       proc[p].life = "detached" => phase \in {"ended", "aborted", "crashed"}

PendingInv ==
  /\ hasStarted => pendingBreakpointsMap = <<>>
  /\ \A i \in DOMAIN pendingBreakpointsMap :
       LET b == pendingBreakpointsMap[i] IN b.name # 0 => b.address = b.name

\* A process has the INT3s of entries only, and stops at these.
MapInv == EntriesInv /\ (Attached => Traceable(proc[traced_pid], Placed))

SessionInv ==
  TypeOK /\ ProcessesInv /\ StatusInv /\ EndInv /\ PendingInv /\ MapInv

LEMMA SameEntries ==
  ASSUME UNCHANGED breakpointsMap
  PROVE  Placed' = Placed /\ (EntriesInv => EntriesInv')
  BY DEF Placed, EntriesInv

\* What else than a resumption happens to a process keeps it there.
LEMMA TraceableStays ==
  ASSUME NEW p, NEW q, NEW before, NEW now, Traceable(p, before), before \subseteq now,
         q.base = p.base, q.addr = p.addr, q.planted \subseteq now,
         q.at = p.at \/ q.at = "dying"
  PROVE  Traceable(q, now)
  BY DEF Traceable, Located

LEMMA FreshIsProcess == Fresh \in Process /\ Forked \in Process
  BY DEF Fresh, Forked, Process

LEMMA SessionInvInit == Init => SessionInv
<1> SUFFICES ASSUME Init PROVE SessionInv
  OBVIOUS
<1>1. TypeOK
  <2>1. 0 \in Status
    BY StatusIsWord DEF Word
  <2>2. proc \in [Pids -> Process]
    <3>1. proc = [p \in Pids |-> Fresh]
      BY Zenon DEF Init, Fresh
    <3> QED
      BY <3>1, FreshIsProcess
  <2>3. pendingBreakpointsMap \in Seq(Pending)
    BY DEF Init
  <2> QED
    BY <2>1, <2>2, <2>3 DEF Init, TypeOK, NoBreakpoints
<1>2. ProcessesInv
  BY DEF Init, ProcessesInv, Fresh, Live, Leaving
<1>3. StatusInv
  BY SessionAssumption DEF Init, StatusInv, Attached
<1>4. EndInv /\ PendingInv
  BY SessionAssumption DEF Init, EndInv, PendingInv, hasStarted, Live
<1>5. MapInv
  BY SessionAssumption DEF Init, MapInv, Attached, EntriesInv, Placed, NoBreakpoints
<1> QED
  BY <1>1, <1>2, <1>3, <1>4, <1>5 DEF SessionInv

-----------------------------------------------------------------------------
(* Each action keeps SessionInv. First the parts that actions share.       *)

LEMMA DetachedProcesses ==
  ASSUME proc \in [Pids -> Process], NEW p \in Pids
  PROVE  /\ Detached \in [Pids -> Process]
         /\ Detached[p].life = IF proc[p].life = "stopped" THEN "detached" ELSE proc[p].life
         /\ Detached[p].at = proc[p].at
         /\ Detached[p].addr = proc[p].addr
         /\ Detached[p].planted = proc[p].planted
         /\ Detached[p].base = proc[p].base
         /\ Detached[p].derailed = proc[p].derailed
         /\ proc[p].life # "stopped" => Detached[p] = proc[p]
  BY DEF Detached, Process

\* The debugger ends: what it was told, by itself or by the system.
LEMMA DieKeeps ==
  ASSUME SessionInv, phase = "prompt",
         NEW how \in {"ended", "aborted", "crashed"}, how = "ended" <=> force_end,
         Die(how),
         UNCHANGED <<ram_start_address, traced_pid, cached_status, breakpointsMap,
                     pendingBreakpointsMap, force_end, after>>,
         strays' \subseteq Pids \cup {0, -1}, refused' \subseteq {"function", "address"}
  PROVE  SessionInv'
<1> USE DEF SessionInv, Die
<1>1. /\ proc' \in [Pids -> Process]
      /\ \A p \in Pids :
           /\ proc'[p].life = IF proc[p].life = "stopped" THEN "detached" ELSE proc[p].life
           /\ proc'[p].at = proc[p].at
           /\ proc'[p].addr = proc[p].addr
           /\ proc'[p].planted = proc[p].planted
           /\ proc'[p].base = proc[p].base
           /\ proc[p].life # "stopped" => proc'[p] = proc[p]
  <2>1. proc \in [Pids -> Process] /\ proc' = Detached
    BY DEF TypeOK
  <2> HIDE DEF SessionInv
  <2>2. CASE Pids = {}
    BY <2>1, <2>2 DEF Detached
  <2>3. CASE Pids # {}
    BY <2>1, <2>3, DetachedProcesses
  <2> QED
    BY <2>2, <2>3
<1>2. TypeOK'
  BY <1>1 DEF TypeOK
<1>3. ProcessesInv'
  BY <1>1 DEF ProcessesInv, Live, Leaving
<1>4. StatusInv'
  <2>1. ASSUME Attached PROVE StatusOf(proc'[traced_pid]) = StatusOf(proc[traced_pid])
    BY <1>1, <2>1 DEF Attached, StatusOf, Leaving
  <2> QED
    BY <1>1, <2>1 DEF StatusInv, Attached
<1>5. EndInv'
  BY <1>1 DEF EndInv, Live
<1>6. PendingInv'
  BY DEF PendingInv, hasStarted
<1>7. MapInv'
  BY <1>1, SameEntries DEF MapInv, Attached, Traceable, Located
<1> QED
  BY <1>2, <1>3, <1>4, <1>5, <1>6, <1>7

\* One process changes: it is resumed, signalled, waited for or patched.
LEMMA ChangeKeeps ==
  ASSUME SessionInv,
         NEW p \in Pids, NEW q \in Process,
         proc' = [proc EXCEPT ![p] = q],
         proc[p].life \in {"stopped", "killed"},
         q.life \in {"stopped", "killed", "gone"},
         q.life = "gone" => Leaving(q),
         q.life = "stopped" /\ q.at # "dying" => Live(p),
         cached_status' \in Status,
         p = traced_pid => /\ cached_status' = StatusOf(q)
                           /\ q.at # "start"
                           /\ Traceable(q, Placed'),
         p # traced_pid => traced_pid = -1 \/ cached_status' = cached_status,
         phase \in {"prompt", "clear", "continue"}, phase' \in {phase, "prompt"},
         phase' = "prompt" \/ cached_status' = cached_status,
         breakpointsMap' \in [Addr -> MapEntry \cup {NoEntry}], Placed \subseteq Placed',
         EntriesInv', force_end' \in BOOLEAN,
         force_end' => phase' = "prompt" /\ \A r \in Pids : ~Live(r)',
         strays' \subseteq Pids \cup {0, -1}, refused' \subseteq {"function", "address"},
         UNCHANGED <<ram_start_address, traced_pid, pendingBreakpointsMap, after>>
  PROVE  SessionInv'
<1> USE DEF SessionInv
<1>1. /\ proc' \in [Pids -> Process] /\ proc'[p] = q
      /\ \A r \in Pids \ {p} : proc'[r] = proc[r]
  BY DEF TypeOK
<1>2. TypeOK'
  BY <1>1 DEF TypeOK
<1>3. ProcessesInv'
  BY <1>1 DEF ProcessesInv, Live, Leaving
<1>4. StatusInv'
  <2>1. traced_pid = 0 => p # traced_pid /\ cached_status' = cached_status
    BY SessionAssumption
  <2>2. CASE traced_pid = p
    BY <1>1, <2>1, <2>2 DEF StatusInv, Attached
  <2>3. CASE traced_pid # p
    BY <1>1, <2>1, <2>3, SessionAssumption DEF StatusInv, Attached
  <2> QED
    BY <2>2, <2>3
<1>5. EndInv'
  BY <1>1 DEF EndInv, Live
<1>6. PendingInv'
  BY DEF PendingInv, hasStarted
<1>7. MapInv'
  <2>1. CASE traced_pid = p
    BY <1>1, <2>1 DEF MapInv, Attached
  <2>2. CASE traced_pid # p
    BY <1>1, <2>2 DEF MapInv, Attached, Traceable
  <2> QED
    BY <2>1, <2>2
<1> QED
  BY <1>2, <1>3, <1>4, <1>5, <1>6, <1>7

\* The processes and what is remembered of the traced one stay.
LEMMA IdleKeeps ==
  ASSUME SessionInv, UNCHANGED <<traced, pendingBreakpointsMap, proc>>,
         phase \in {"prompt", "clear", "continue"},
         \/ phase' \in {phase, "prompt"}
         \/ phase' = "clear" /\ cached_status # 0
         \/ phase' = "fork" /\ cached_status = 0,
         after' \in {"prompt", "continue"}, force_end' \in BOOLEAN,
         force_end' => phase' = "prompt" /\ \A r \in Pids : ~Live(r),
         strays' \subseteq Pids \cup {0, -1}, refused' \subseteq {"function", "address"}
  PROVE  SessionInv'
<1> USE DEF SessionInv, traced
<1>1. TypeOK' /\ ProcessesInv' /\ PendingInv'
  BY DEF TypeOK, ProcessesInv, PendingInv, hasStarted, Live
<1>2. StatusInv' /\ MapInv'
  BY SameEntries DEF StatusInv, MapInv, Attached
<1>3. EndInv'
  BY DEF EndInv, Live
<1> QED
  BY <1>1, <1>2, <1>3

LEMMA WaitKeeps ==
  ASSUME SessionInv, phase \in {"prompt", "continue"}, ~force_end,
         NEW p \in Pids, p = traced_pid \/ traced_pid = -1,
         WaitForKilled(p), phase' = "prompt",
         UNCHANGED <<ram_start_address, traced_pid, breakpointsMap,
                     pendingBreakpointsMap, force_end, after, strays, refused>>
  PROVE  SessionInv'
<1> DEFINE at == IF proc[p].at = "exit" THEN "exit" ELSE "dying"
           Q(life) == [[proc[p] EXCEPT !.life = life] EXCEPT !.at = at]
<1>1. proc[p].life = "killed" /\ proc[p] \in Process
  BY DEF WaitForKilled, SessionInv, TypeOK
<1>2. PICK life \in {"gone"} \cup (IF Leaving(proc[p]) THEN {} ELSE {"stopped"}) :
        proc' = [proc EXCEPT ![p] = Q(life)] /\ cached_status' = StatusOf(Q(life))
  BY Zenon DEF WaitForKilled
<1> DEFINE q == Q(life)
<1>3. /\ q \in Process /\ q.life = life /\ q.at = at
      /\ q.planted = proc[p].planted /\ q.addr = proc[p].addr /\ q.base = proc[p].base
      /\ q.at = proc[p].at \/ q.at = "dying"
  BY <1>1 DEF Process
<1>4. /\ q.life = "gone" => Leaving(q)
      /\ q.life = "stopped" => q.at = "dying"
      /\ q.at \notin {"start", "hit"}
      /\ q.life \in {"stopped", "gone"}
  BY <1>1, <1>3 DEF Leaving
<1>5. proc' = [proc EXCEPT ![p] = q] /\ cached_status' = StatusOf(q)
  BY <1>2
<1> HIDE DEF q, Q
<1>6. cached_status' \in Status
  BY <1>3, <1>5, StatusWords
<1>7. Placed' = Placed /\ EntriesInv' /\ (p = traced_pid => Traceable(q, Placed))
  <2>1. Placed' = Placed /\ EntriesInv'
    BY SameEntries DEF SessionInv, MapInv
  <2>2. ASSUME p = traced_pid PROVE Traceable(q, Placed)
    <3>1. Traceable(proc[p], Placed)
      BY <2>2 DEF SessionInv, MapInv, Attached
    <3>2. q.planted \subseteq Placed
      BY <1>3, <3>1 DEF Traceable
    <3> QED
      BY <1>3, <3>1, <3>2, TraceableStays
  <2> QED
    BY <2>1, <2>2
<1> QED
  BY <1>1, <1>3, <1>4, <1>5, <1>6, <1>7, ChangeKeeps, SessionAssumption DEF SessionInv, TypeOK

\* Every command that drives the traced process.
LEMMA DriveKeeps ==
  ASSUME SessionInv, phase \in {"prompt", "continue"}, ~force_end,
         NEW outcomes \in {Continued(proc[traced_pid]), Stepped(proc[traced_pid])},
         Drive(outcomes), phase' = "prompt",
         UNCHANGED <<ram_start_address, traced_pid, breakpointsMap,
                     pendingBreakpointsMap, force_end, after, strays, refused>>
  PROVE  SessionInv'
<1>1. ASSUME UNCHANGED <<cached_status, proc>> PROVE SessionInv'
  BY <1>1, IdleKeeps DEF traced, SessionInv, TypeOK
<1>2. CASE traced_pid = -1 /\ WaitForAny
  BY <1>1, <1>2, WaitKeeps DEF WaitForAny, Children
<1>3. CASE traced_pid \in Pids /\ WaitForKilled(traced_pid)
  BY <1>3, WaitKeeps
<1>4. ASSUME traced_pid \in Pids, proc[traced_pid].life = "stopped",
             NEW q \in outcomes,
             proc' = [proc EXCEPT ![traced_pid] = q], cached_status' = StatusOf(q)
      PROVE  SessionInv'
  <2> DEFINE p == proc[traced_pid]
  <2>1. /\ p \in Process /\ p.at # "start"
        /\ Traceable(p, Placed)
        /\ p.life = "stopped"
    BY <1>4 DEF SessionInv, TypeOK, StatusInv, MapInv, Attached
  <2>2. Placed \subseteq Addr /\ Placed' = Placed /\ EntriesInv /\ EntriesInv'
    BY SameEntries DEF Placed, SessionInv, MapInv
  <2>3. q \in Continued(p) \cup Stepped(p)
    BY <1>4
  <2> HIDE DEF p
  <2>4. /\ q \in Process /\ q.life \in {"stopped", "gone"} /\ q.at # "start"
        /\ q.life = "gone" => Leaving(q)
        /\ q.at = "dying" <=> p.at = "dying"
        /\ Traceable(q, Placed)
    BY <2>1, <2>2, <2>3, Outcomes
  <2>5. q.life = "stopped" /\ q.at # "dying" => Live(traced_pid)
    BY <1>4, <2>4 DEF p, Live
  <2>6. cached_status' \in Status
    BY <1>4, <2>4, StatusWords
  <2> QED
    BY <1>4, <2>1, <2>2, <2>4, <2>5, <2>6, ChangeKeeps, SessionAssumption
       DEF SessionInv, TypeOK
<1> QED
  BY <1>1, <1>2, <1>3, <1>4 DEF Drive

\* An entry is none but NoEntry: its pid is never 0.
LEMMA EntriesDiffer == NoEntry \notin MapEntry
  BY SessionAssumption DEF NoEntry, MapEntry

LEMMA TryEmplaceType ==
  ASSUME NEW m \in [Addr -> MapEntry \cup {NoEntry}], NEW a \in Addr, NEW e \in MapEntry
  PROVE  /\ TryEmplace(m, a, e) \in [Addr -> MapEntry \cup {NoEntry}]
         /\ \A b \in Addr : TryEmplace(m, a, e)[b] =
                              IF b = a /\ m[a] = NoEntry THEN e ELSE m[b]
         /\ {b \in Addr : TryEmplace(m, a, e)[b] # NoEntry} =
              {b \in Addr : m[b] # NoEntry} \cup {a}
  BY EntriesDiffer DEF TryEmplace

LEMMA RefuseKeeps ==
  ASSUME SessionInv, Prompt, NEW requests \in SUBSET {"function", "address"},
         Refuse(requests), KeepsTheRest
  PROVE  SessionInv'
<1>1. refused' \subseteq {"function", "address"} /\ strays' = strays
  BY DEF SessionInv, TypeOK, Refuse, KeepsTheRest
<1>2. CASE Die("crashed")
  BY <1>1, <1>2, DieKeeps DEF Prompt, Refuse, KeepsTheRest, SessionInv, TypeOK
<1>3. CASE UNCHANGED <<phase, proc>>
  BY <1>1, <1>3, IdleKeeps DEF traced, Prompt, Refuse, KeepsTheRest, SessionInv, TypeOK
<1> QED
  BY <1>2, <1>3 DEF Refuse

LEMMA BreakpointKeeps ==
  ASSUME SessionInv, Prompt,
         NEW a, NEW name \in Name, NEW request \in {"function", "address"},
         hasStarted => a \in Addr,
         ~hasStarted => a \in Functions \cup UserAddr /\ (name # 0 => a = name),
         BreakpointAtAddress(a, name, request), KeepsTheRest
  PROVE  SessionInv'
<1>1. CASE /\ ~hasStarted
           /\ pendingBreakpointsMap' =
                Append(pendingBreakpointsMap, [address |-> a, name |-> name])
           /\ UNCHANGED <<breakpointsMap, proc, phase, refused>>
  <2> USE <1>1 DEF SessionInv, KeepsTheRest
  <2>1. [address |-> a, name |-> name] \in Pending
    BY DEF Pending
  <2>2. TypeOK'
    BY <2>1 DEF TypeOK
  <2>3. PendingInv'
    <3>1. ~hasStarted'
      BY DEF hasStarted
    <3>2. pendingBreakpointsMap \in Seq(Pending)
      BY DEF TypeOK
    <3> QED
      BY <2>1, <3>1, <3>2 DEF PendingInv
  <2>4. ProcessesInv' /\ StatusInv' /\ MapInv'
    BY SameEntries DEF ProcessesInv, StatusInv, MapInv, Attached, Live
  <2>5. EndInv'
    BY DEF EndInv, Live
  <2> QED
    BY <2>2, <2>3, <2>4, <2>5
<1>2. CASE /\ hasStarted /\ CanPatch(a)
           /\ proc' = [proc EXCEPT ![traced_pid].planted = @ \cup {a}]
           /\ breakpointsMap' =
                TryEmplace(breakpointsMap, a,
                           [pid |-> traced_pid, name |-> name,
                            saved |-> proc[traced_pid].planted \cap Bytes(a)])
           /\ UNCHANGED <<pendingBreakpointsMap, phase, refused>>
  <2> DEFINE p == proc[traced_pid]
             q == [p EXCEPT !.planted = p.planted \cup {a}]
  <2>1. /\ traced_pid \in Pids /\ p.life = "stopped" /\ a \in Addr
        /\ p \in Process /\ p.at # "start" /\ cached_status = StatusOf(p)
        /\ Traceable(p, Placed) /\ EntriesInv
    BY <1>2 DEF CanPatch, SessionInv, TypeOK, StatusInv, MapInv, Attached, Prompt
  <2>2. /\ q \in Process /\ q.life = "stopped" /\ q.at = p.at /\ q.addr = p.addr
        /\ q.base = p.base /\ q.planted = p.planted \cup {a}
    BY <2>1 DEF Process
  <2>3. proc' = [proc EXCEPT ![traced_pid] = q]
    BY <1>2
  <2>4. /\ breakpointsMap' \in [Addr -> MapEntry \cup {NoEntry}]
        /\ Placed' = Placed \cup {a}
        /\ EntriesInv'
    <3> DEFINE saved == p.planted \cap Bytes(a)
               e == [pid |-> traced_pid, name |-> name, saved |-> saved]
    <3>1. saved \subseteq Placed /\ saved \in SUBSET Addr
      BY <2>1 DEF Traceable, Placed
    <3>2. breakpointsMap' = TryEmplace(breakpointsMap, a, e)
      BY <1>2
    <3> HIDE DEF saved
    <3>3. e \in MapEntry /\ e.saved = saved
      BY <2>1, <3>1 DEF MapEntry
    <3>4. breakpointsMap \in [Addr -> MapEntry \cup {NoEntry}]
      BY DEF SessionInv, TypeOK
    <3> HIDE DEF e
    <3>5. /\ breakpointsMap' \in [Addr -> MapEntry \cup {NoEntry}]
          /\ Placed' = Placed \cup {a}
          /\ \A b \in Addr : breakpointsMap'[b] =
                              IF b = a /\ a \notin Placed THEN e ELSE breakpointsMap[b]
      BY <2>1, <3>2, <3>3, <3>4, TryEmplaceType DEF Placed
    <3>6. EntriesInv'
      <4> SUFFICES ASSUME NEW b \in Placed'
                   PROVE  breakpointsMap'[b].saved \subseteq Placed' \ {b}
        BY DEF EntriesInv
      <4>1. b \in Addr
        BY DEF Placed
      <4>2. CASE b = a /\ a \notin Placed
        BY <3>1, <3>3, <3>5, <4>1, <4>2
      <4>3. CASE ~(b = a /\ a \notin Placed)
        BY <2>1, <3>5, <4>1, <4>3 DEF EntriesInv
      <4> QED
        BY <4>2, <4>3
    <3> QED
      BY <3>5, <3>6
  <2>5. StatusOf(q) = StatusOf(p)
    BY <2>1, <2>2 DEF StatusOf, Leaving
  <2>6. q.at # "dying" => Live(traced_pid)
    BY <2>1, <2>2 DEF Live
  <2> HIDE DEF p, q
  <2>7. proc[traced_pid].life = "stopped"
    BY <2>1 DEF p
  <2>8. /\ UNCHANGED <<ram_start_address, traced_pid, cached_status, force_end, after,
                       strays, phase, pendingBreakpointsMap, refused>>
        /\ phase = "prompt" /\ force_end = FALSE
    BY <1>2 DEF KeepsTheRest, Prompt, SessionInv, TypeOK
  <2>9. cached_status \in Status /\ strays \subseteq Pids \cup {0, -1}
        /\ refused \subseteq {"function", "address"}
    BY DEF SessionInv, TypeOK
  <2>10. Traceable(q, Placed')
    <3>1. Placed \subseteq Placed' /\ q.planted \subseteq Placed'
      BY <2>1, <2>2, <2>4 DEF Traceable
    <3> QED
      BY <2>1, <2>2, <3>1, TraceableStays
  <2> QED
    BY <2>1, <2>2, <2>3, <2>4, <2>5, <2>6, <2>7, <2>8, <2>9, <2>10, ChangeKeeps
<1>3. CASE Refuse({request})
  BY <1>3, RefuseKeeps
<1> QED
  BY <1>1, <1>2, <1>3 DEF BreakpointAtAddress

LEMMA BpAddressKeeps ==
  ASSUME SessionInv, NEW a \in UserAddr, bpAddress(a)
  PROVE  SessionInv'
<1>1. a \in Addr /\ 0 \in Name
  BY DEF Addr, Name
<1> QED
  BY <1>1, BreakpointKeeps DEF bpAddress

LEMMA BpFunctionKeeps ==
  ASSUME SessionInv, NEW f \in Functions, bpFunction(f)
  PROVE  SessionInv'
<1>1. CASE Die("aborted") /\ UNCHANGED <<breakpointsMap, pendingBreakpointsMap, refused>>
  BY <1>1, DieKeeps DEF bpFunction, Prompt, KeepsTheRest, SessionInv, TypeOK
<1>2. CASE BreakpointAtAddress(ram_start_address + f, f, "function")
  <2>1. ram_start_address \in Bases \cup {0} /\ Bases \subseteq Nat \ {0}
        /\ Functions \subseteq Nat \ {0} /\ f \in Name
    BY SessionAssumption DEF SessionInv, TypeOK, Name
  <2>2. hasStarted => ram_start_address \in Bases
    BY <2>1 DEF hasStarted
  <2>3. hasStarted => ram_start_address + f \in Addr
    BY <2>2 DEF Addr
  <2>4. ~hasStarted => ram_start_address + f = f
    BY <2>1 DEF hasStarted
  <2> QED
    BY <1>2, <2>1, <2>3, <2>4, BreakpointKeeps DEF bpFunction
<1> QED
  BY <1>1, <1>2 DEF bpFunction

\* `bp off' changes the text of one process at most.
LEMMA LiftEffect ==
  ASSUME SessionInv, NEW a \in Placed, Lift(a)
  PROVE  proc' = proc \/ \E p \in Pids : \E t : proc' = [proc EXCEPT ![p].planted = t]
<1> DEFINE p == breakpointsMap[a].pid
           t == (proc[p].planted \ Bytes(a)) \cup breakpointsMap[a].saved
<1>1. p \in Pids
  BY DEF SessionInv, TypeOK, Placed, MapEntry
<1>2. proc' = proc \/ proc' = [proc EXCEPT ![p].planted = t]
  BY DEF Lift, Disabled
<1> HIDE DEF p, t
<1> QED
  BY <1>1, <1>2

LEMMA BpOffKeeps ==
  ASSUME SessionInv, NEW word \in OffWords, bpOffCommand(word)
  PROVE  SessionInv'
<1>1. CASE Die("aborted") /\ UNCHANGED <<breakpointsMap, pendingBreakpointsMap, refused>>
  BY <1>1, DieKeeps DEF bpOffCommand, Prompt, KeepsTheRest, SessionInv, TypeOK
<1>2. CASE Refuse({})
  BY <1>2, RefuseKeeps DEF bpOffCommand
<1>3. ASSUME NEW a \in Placed, Lift(a) PROVE SessionInv'
  <2> DEFINE p == breakpointsMap[a].pid
             saved == breakpointsMap[a].saved
             q == [proc[p] EXCEPT !.planted = (proc[p].planted \ Bytes(a)) \cup saved]
  <2>1. p \in Pids /\ saved \in SUBSET Addr /\ saved \subseteq Placed
    BY DEF SessionInv, TypeOK, Placed, MapEntry, MapInv, EntriesInv
  <2>2. CASE proc[p].life = "stopped"
    <3>1. proc' = [proc EXCEPT ![p] = q]
      BY <1>3, <2>2 DEF Lift, Disabled
    <3> HIDE DEF saved
    <3>2. proc[p] \in Process
      BY <2>1 DEF SessionInv, TypeOK
    <3>3. /\ q \in Process /\ q.life = "stopped"
          /\ q.at = proc[p].at /\ q.addr = proc[p].addr /\ q.base = proc[p].base
          /\ q.planted = (proc[p].planted \ Bytes(a)) \cup saved
      BY <2>1, <3>2, <2>2 DEF Process
    <3>4. StatusOf(q) = StatusOf(proc[p])
      BY <2>2, <3>3 DEF StatusOf, Leaving
    <3>5. q.at # "dying" => Live(p)
      BY <2>1, <2>2, <3>3 DEF Live
    <3> DEFINE pid == p
    <3> HIDE DEF q
    <3>6. /\ UNCHANGED <<ram_start_address, traced_pid, cached_status, force_end, after,
                         strays, phase, pendingBreakpointsMap, breakpointsMap, refused>>
          /\ phase = "prompt" /\ force_end = FALSE
          /\ cached_status \in Status /\ strays \subseteq Pids \cup {0, -1}
          /\ refused \subseteq {"function", "address"}
          /\ breakpointsMap \in [Addr -> MapEntry \cup {NoEntry}]
      BY <1>3 DEF Lift, bpOffCommand, KeepsTheRest, Prompt, SessionInv, TypeOK
    <3>7. p = traced_pid =>
            /\ cached_status = StatusOf(q) /\ q.at # "start"
            /\ Traceable(q, Placed)
      <4> SUFFICES ASSUME p = traced_pid
                   PROVE  /\ cached_status = StatusOf(q) /\ q.at # "start"
                          /\ Traceable(q, Placed)
        OBVIOUS
      <4>1. /\ Traceable(proc[p], Placed) /\ proc[p].at # "start"
            /\ cached_status = StatusOf(proc[p])
        BY <2>1, <3>6 DEF SessionInv, StatusInv, MapInv, Attached
      <4>2. q.planted \subseteq Placed
        BY <2>1, <3>3, <4>1 DEF Traceable
      <4> QED
        BY <3>3, <3>4, <4>1, <4>2, TraceableStays
    <3>8. Placed' = Placed /\ EntriesInv'
      BY <3>6, SameEntries DEF SessionInv, MapInv
    <3> HIDE DEF p
    <3> QED
      BY <2>1, <2>2, <3>1, <3>3, <3>5, <3>6, <3>7, <3>8, ChangeKeeps
  <2>3. CASE proc[p].life # "stopped"
    BY <1>3, <2>3, IdleKeeps
       DEF traced, Lift, bpOffCommand, KeepsTheRest, Prompt, SessionInv, TypeOK
  <2> QED
    BY <2>2, <2>3
<1>4. \A a \in IF word = 0 THEN Placed ELSE Placed \cap {ram_start_address + word} :
        a \in Placed
  OBVIOUS
<1> QED
  BY <1>1, <1>2, <1>3, <1>4 DEF bpOffCommand

\* SIGINT or SIGKILL to the traced process.
LEMMA SignalKeeps ==
  ASSUME SessionInv, phase \in {"prompt", "clear", "continue"},
         proc' \in {Kill(traced_pid), Interrupt(traced_pid)},
         UNCHANGED <<traced, pendingBreakpointsMap, phase, after, refused>>,
         strays' \subseteq Pids \cup {0, -1}, force_end' \in BOOLEAN,
         force_end' => phase = "prompt" /\ \A r \in Pids : ~Live(r)'
  PROVE  SessionInv'
<1>1. CASE traced_pid \in Pids /\ proc[traced_pid].life = "stopped"
  <2> DEFINE p == proc[traced_pid]
  <2>1. /\ p \in Process /\ p.at # "start" /\ cached_status = StatusOf(p)
        /\ Traceable(p, Placed)
        /\ cached_status \in Status /\ refused \subseteq {"function", "address"}
        /\ breakpointsMap \in [Addr -> MapEntry \cup {NoEntry}]
    BY <1>1 DEF SessionInv, TypeOK, StatusInv, MapInv, Attached
  <2>2. PICK q : /\ q \in {[p EXCEPT !.life = "killed"], [p EXCEPT !.sigint = TRUE]}
                 /\ proc' = [proc EXCEPT ![traced_pid] = q]
    BY <1>1, Zenon DEF Kill, Interrupt
  <2>3. /\ q \in Process /\ q.life \in {"stopped", "killed"}
        /\ q.at = p.at /\ q.addr = p.addr /\ q.planted = p.planted /\ q.base = p.base
    BY <1>1, <2>1, <2>2 DEF Process
  <2>4. StatusOf(q) = StatusOf(p)
    BY <1>1, <2>3 DEF StatusOf, Leaving
  <2>5. Placed' = Placed /\ EntriesInv'
    BY SameEntries DEF traced, SessionInv, MapInv
  <2>6. q.at # "dying" => Live(traced_pid)
    BY <1>1, <2>3 DEF Live
  <2> HIDE DEF p
  <2>7. Traceable(q, Placed)
    <3>1. q.planted \subseteq Placed
      BY <2>1, <2>3 DEF Traceable
    <3> QED
      BY <2>1, <2>3, <3>1, TraceableStays
  <2> QED
    BY <1>1, <2>1, <2>2, <2>3, <2>4, <2>5, <2>6, <2>7, ChangeKeeps DEF traced
<1>2. CASE ~(traced_pid \in Pids /\ proc[traced_pid].life = "stopped")
  <2>1. proc' = proc
    BY <1>2 DEF Kill, Interrupt
  <2> QED
    BY <2>1, IdleKeeps DEF traced, SessionInv, TypeOK, Live
<1> QED
  BY <1>1, <1>2

\* Only a process that is gone reads as dead.
LEMMA LiveIsAlive ==
  ASSUME SessionInv, Attached, proc[traced_pid].life # "gone"
  PROVE  cached_status # 0
  BY StatusWords, WordsDiffer DEF SessionInv, TypeOK, StatusInv, Attached

LEMMA KillLeavesNone ==
  ASSUME SessionInv, phase # "init", killTraced
  PROVE  \A r \in Pids : ~Live(r)'
<1>1. cached_status \in Status /\ proc \in [Pids -> Process]
  BY DEF SessionInv, TypeOK
<1>2. CASE isDead
  <2>1. cached_status = 0 /\ proc' = proc
    BY <1>1, <1>2, Predicates DEF killTraced
  <2> QED
    BY <2>1, LiveIsAlive DEF SessionInv, ProcessesInv, Live, Attached
<1>3. CASE ~isDead
  <2>1. proc' = Kill(traced_pid)
    BY <1>3 DEF killTraced
  <2> QED
    BY <1>1, <2>1 DEF Kill, Live, SessionInv, ProcessesInv
<1> QED
  BY <1>2, <1>3

LEMMA StrayType ==
  ASSUME SessionInv, killTraced \/ stopTraced \/ Signal(traced_pid)
  PROVE  strays' \subseteq Pids \cup {0, -1}
  BY DEF SessionInv, TypeOK, killTraced, stopTraced, Signal

LEMMA StopCommandKeeps == SessionInv /\ stopCommand => SessionInv'
<1> SUFFICES ASSUME SessionInv, stopCommand PROVE SessionInv'
  OBVIOUS
<1>1. /\ phase = "prompt" /\ force_end = FALSE
      /\ UNCHANGED <<traced, pendingBreakpointsMap, phase, after, refused>>
      /\ cached_status \in Status /\ after \in {"prompt", "continue"}
      /\ refused \subseteq {"function", "address"} /\ strays \subseteq Pids \cup {0, -1}
  BY DEF stopCommand, Prompt, SessionInv, TypeOK
<1>2. CASE isDead /\ force_end' = TRUE /\ UNCHANGED <<proc, strays>>
  <2>1. \A r \in Pids : ~Live(r)
    BY <1>1, <1>2, LiveIsAlive, Predicates DEF SessionInv, ProcessesInv, Live, Attached
  <2> QED
    BY <1>1, <1>2, <2>1, IdleKeeps
<1>3. CASE isAlive /\ stopTraced /\ UNCHANGED force_end
  BY <1>1, <1>3, StrayType, SignalKeeps DEF stopTraced, isAlive
<1>4. CASE isAlive /\ killTraced /\ force_end' = TRUE
  BY <1>1, <1>4, StrayType, SignalKeeps, KillLeavesNone DEF killTraced, isAlive
<1> QED
  BY <1>2, <1>3, <1>4 DEF stopCommand

LEMMA KillCommandKeeps == SessionInv /\ killCommand => SessionInv'
<1> SUFFICES ASSUME SessionInv, killCommand PROVE SessionInv'
  OBVIOUS
<1>1. /\ phase = "prompt" /\ force_end' = TRUE /\ killTraced
      /\ UNCHANGED <<traced, pendingBreakpointsMap, phase, after, refused>>
      /\ after \in {"prompt", "continue"} /\ refused \subseteq {"function", "address"}
  BY DEF killCommand, Prompt, SessionInv, TypeOK
<1>2. strays' \subseteq Pids \cup {0, -1} /\ \A r \in Pids : ~Live(r)'
  BY <1>1, StrayType, KillLeavesNone
<1>3. CASE isDead
  <2>1. proc' = proc
    BY <1>1, <1>3 DEF killTraced
  <2> QED
    BY <1>1, <1>2, <2>1, IdleKeeps DEF Live
<1>4. CASE ~isDead
  BY <1>1, <1>2, <1>4, SignalKeeps DEF killTraced
<1> QED
  BY <1>3, <1>4

LEMMA OutsideKeeps == SessionInv /\ KilledFromOutside => SessionInv'
<1> SUFFICES ASSUME SessionInv, KilledFromOutside PROVE SessionInv'
  OBVIOUS
<1>1. /\ phase \in {"prompt", "clear", "continue"} /\ proc' = Kill(traced_pid)
      /\ UNCHANGED <<traced, pendingBreakpointsMap, force_end, phase, after, strays,
                     refused>>
      /\ traced_pid \in Pids /\ proc[traced_pid].life = "stopped"
      /\ strays \subseteq Pids \cup {0, -1} /\ force_end \in BOOLEAN
  BY DEF KilledFromOutside, SessionInv, TypeOK
<1>2. force_end => phase = "prompt" /\ \A r \in Pids : ~Live(r)'
  <2>1. ASSUME force_end, NEW r \in Pids PROVE ~Live(r)'
    <3>1. proc \in [Pids -> Process] /\ ~Live(r)
      BY <2>1 DEF SessionInv, TypeOK, EndInv
    <3> QED
      BY <1>1, <3>1 DEF Kill, Live
  <2> QED
    BY <1>1, <2>1 DEF SessionInv, EndInv
<1> QED
  BY <1>1, <1>2, SignalKeeps

LEMMA EndKeeps == SessionInv /\ End => SessionInv'
<1> SUFFICES ASSUME SessionInv, End PROVE SessionInv'
  OBVIOUS
<1>1. strays' \subseteq Pids \cup {0, -1}
  BY StrayType DEF End, SessionInv, TypeOK
<1> QED
  BY <1>1, DieKeeps DEF End, traced, SessionInv, TypeOK

LEMMA StartRunKeeps ==
  ASSUME SessionInv, Prompt,
         NEW then \in {"prompt", "continue"}, StartRun(then)
  PROVE  SessionInv'
<1>1. cached_status \in Status /\ strays \subseteq Pids \cup {0, -1}
      /\ refused \subseteq {"function", "address"} /\ force_end = FALSE /\ phase = "prompt"
  BY DEF SessionInv, TypeOK, Prompt
<1> QED
  BY <1>1, Predicates, IdleKeeps DEF StartRun, isAlive

LEMMA ClearKeeps == SessionInv /\ clearCurrentProcess => SessionInv'
<1> SUFFICES ASSUME SessionInv, clearCurrentProcess PROVE SessionInv'
  OBVIOUS
<1> USE DEF SessionInv, clearCurrentProcess, ForgetProcess
<1>1. /\ cached_status \in Status /\ proc \in [Pids -> Process]
      /\ cached_status # 0 /\ ~isDead
  BY Predicates DEF TypeOK, StatusInv
<1>2. proc' = Kill(traced_pid) /\ strays' \subseteq Pids \cup {0, -1}
  BY <1>1, StrayType DEF killTraced
<1>3. \A r \in Pids : ~Live(r)'
  BY KillLeavesNone
<1>4. /\ proc' \in [Pids -> Process]
      /\ \A r \in Pids : /\ \/ proc'[r].life = proc[r].life
                            \/ proc[r].life = "stopped" /\ proc'[r].life = "killed"
                         /\ proc'[r].at = proc[r].at
                         /\ proc[r].life = "unused" => proc'[r] = proc[r]
  BY <1>1, <1>2 DEF Kill, Process
<1>5. TypeOK'
  <2>1. 0 \in Status
    BY StatusIsWord DEF Word
  <2> QED
    BY <1>2, <1>4, <2>1 DEF TypeOK, NoBreakpoints
<1>6. ProcessesInv'
  BY <1>3, <1>4 DEF ProcessesInv, Leaving
<1>7. StatusInv' /\ MapInv'
  BY SessionAssumption
     DEF StatusInv, MapInv, Attached, EntriesInv, Placed, NoBreakpoints
<1>8. EndInv'
  BY <1>4 DEF EndInv
<1>9. PendingInv'
  BY DEF PendingInv, hasStarted
<1> QED
  BY <1>5, <1>6, <1>7, <1>8, <1>9

LEMMA ForkKeeps == SessionInv /\ Fork => SessionInv'
<1> SUFFICES ASSUME SessionInv, Fork PROVE SessionInv'
  OBVIOUS
<1> USE DEF SessionInv
<1>1. /\ phase = "fork" /\ cached_status = 0 /\ proc \in [Pids -> Process]
      /\ UNCHANGED <<ram_start_address, cached_status, breakpointsMap,
                     pendingBreakpointsMap, force_end, after, strays, refused>>
      /\ force_end = FALSE /\ after \in {"prompt", "continue"}
  BY DEF Fork, StatusInv, EndInv, TypeOK
<1>2. \A r \in Pids : ~Live(r)
  BY <1>1, LiveIsAlive DEF ProcessesInv, Live, Attached
<1>3. CASE \E p \in Unused : /\ proc' = [proc EXCEPT ![p].life = "stopped"]
                             /\ traced_pid' = p /\ phase' = "init"
  <2>1. PICK p \in Unused : /\ proc' = [proc EXCEPT ![p].life = "stopped"]
                            /\ traced_pid' = p /\ phase' = "init"
    BY <1>3
  <2>2. p \in Pids /\ proc[p] = Fresh
    BY DEF Unused, ProcessesInv
  <2>3. proc' = [proc EXCEPT ![p] = Forked]
    BY <2>1, <2>2 DEF Forked
  <2>4. /\ proc' \in [Pids -> Process] /\ proc'[p] = Forked
        /\ \A r \in Pids \ {p} : proc'[r] = proc[r]
    BY <1>1, <2>2, <2>3, FreshIsProcess
  <2>5. Forked.life = "stopped" /\ Forked.at = "start"
    BY DEF Forked, Fresh
  <2>6. TypeOK'
    BY <1>1, <2>1, <2>2, <2>4 DEF TypeOK
  <2>7. ProcessesInv'
    BY <1>2, <2>1, <2>4, <2>5 DEF ProcessesInv, Live, Leaving
  <2>8. StatusInv' /\ MapInv'
    BY <1>1, <2>1, <2>2, <2>4, <2>5, SameEntries, SessionAssumption
       DEF StatusInv, MapInv, Attached
  <2>9. EndInv' /\ PendingInv'
    BY <1>1, <2>1, <2>2, <2>4, <2>5 DEF EndInv, PendingInv, hasStarted
  <2> QED
    BY <2>6, <2>7, <2>8, <2>9
<1>4. CASE traced_pid' = -1 /\ phase' = after /\ UNCHANGED proc
  <2>1. -1 \notin Pids
    BY SessionAssumption
  <2>2. TypeOK' /\ PendingInv'
    BY <1>1, <1>4 DEF TypeOK, PendingInv, hasStarted
  <2>3. ProcessesInv'
    BY <1>2, <1>4 DEF ProcessesInv, Live
  <2>4. StatusInv' /\ MapInv'
    BY <1>1, <1>4, <2>1, SameEntries DEF StatusInv, MapInv, Attached
  <2>5. EndInv'
    BY <1>1, <1>4 DEF EndInv
  <2> QED
    BY <2>2, <2>3, <2>4, <2>5
<1> QED
  BY <1>3, <1>4 DEF Fork

LEMMA MinimumExists ==
  ASSUME NEW T \in SUBSET Nat, T # {}
  PROVE  \E i \in T : \A j \in T : i <= j
<1>1. PICK i \in T : \A j \in T : ~(<<j, i>> \in OpToRel(<, Nat))
  BY NatLessThanWellFounded, WFMin
<1>2. \A j \in T : ~(j < i)
  BY <1>1 DEF OpToRel
<1> QED
  BY <1>2

\* What initBDD does with the breakpoints that waited: each that gets an address of
\* the mapping is planted there and has an entry of its own or the one of another
\* that waited for the same place.
LEMMA InitEffect ==
  ASSUME SessionInv, initBDD
  PROVE  \E base \in Bases, addr \in Addr \cup {0} :
           LET ram == IF hasStarted THEN ram_start_address ELSE base
               Real(i) == RealAddr(pendingBreakpointsMap[i].address, ram)
               enabled == {i \in DOMAIN pendingBreakpointsMap : Real(i) \in Mapped(base)}
               planted == {Real(i) : i \in enabled}
           IN  /\ addr \in {0} \cup ShortAt(base)
               /\ ram_start_address' = ram
               /\ proc' = [proc EXCEPT ![traced_pid] =
                             [[[[proc[traced_pid] EXCEPT !.base = base] EXCEPT
                               !.at = "exec"] EXCEPT !.addr = addr] EXCEPT
                               !.planted = planted]]
               /\ planted \subseteq Addr
               /\ breakpointsMap' \in [Addr -> MapEntry \cup {NoEntry}]
               /\ Placed' = Placed \cup planted
               /\ \A a \in Addr :
                    breakpointsMap'[a] # breakpointsMap[a] =>
                      \E i \in enabled, saved \in SUBSET (planted \ {a}) :
                        /\ a = Real(i)
                        /\ breakpointsMap'[a] =
                             [pid |-> traced_pid, name |-> pendingBreakpointsMap[i].name,
                              saved |-> saved]
<1> USE DEF SessionInv
<1>1. PICK base \in Bases, addr \in Addr \cup {0} :
        LET ram == IF hasStarted THEN ram_start_address ELSE base
            Real(i) == RealAddr(pendingBreakpointsMap[i].address, ram)
            enabled == {i \in DOMAIN pendingBreakpointsMap : Real(i) \in Mapped(base)}
            At(a) == {i \in enabled : Real(i) = a}
            First(a) == CHOOSE i \in At(a) : \A j \in At(a) : i <= j
            Earlier(a) == {Real(i) : i \in {j \in enabled : j < First(a)}}
        IN  /\ addr \in {0} \cup ShortAt(base)
            /\ ram_start_address' = ram
            /\ proc' = [proc EXCEPT ![traced_pid].base = base,
                                    ![traced_pid].at = "exec",
                                    ![traced_pid].addr = addr,
                                    ![traced_pid].planted = {Real(i) : i \in enabled}]
            /\ breakpointsMap' =
                 [a \in Addr |->
                    IF At(a) = {} THEN breakpointsMap[a]
                    ELSE TryEmplace(breakpointsMap, a,
                           [pid |-> traced_pid,
                            name |-> pendingBreakpointsMap[First(a)].name,
                            saved |-> Earlier(a) \cap Bytes(a)])[a]]
  <2>1. \A base \in Bases : {0} \cup ShortAt(base) \subseteq Addr \cup {0}
    BY AddrNat
  <2> QED
    BY <2>1, Zenon DEF initBDD
<1> DEFINE ram == IF hasStarted THEN ram_start_address ELSE base
           Real(i) == RealAddr(pendingBreakpointsMap[i].address, ram)
           enabled == {i \in DOMAIN pendingBreakpointsMap : Real(i) \in Mapped(base)}
           planted == {Real(i) : i \in enabled}
           At(a) == {i \in enabled : Real(i) = a}
           First(a) == CHOOSE i \in At(a) : \A j \in At(a) : i <= j
           Earlier(a) == {Real(i) : i \in {j \in enabled : j < First(a)}}
           saved(a) == Earlier(a) \cap Bytes(a)
           e(a) == [pid |-> traced_pid, name |-> pendingBreakpointsMap[First(a)].name,
                    saved |-> saved(a)]
<1>2. /\ addr \in {0} \cup ShortAt(base)
      /\ ram_start_address' = ram
      /\ proc' = [proc EXCEPT ![traced_pid].base = base,
                              ![traced_pid].at = "exec",
                              ![traced_pid].addr = addr,
                              ![traced_pid].planted = planted]
      /\ breakpointsMap' =
           [a \in Addr |-> IF At(a) = {} THEN breakpointsMap[a]
                           ELSE TryEmplace(breakpointsMap, a, e(a))[a]]
  BY <1>1
<1>3. /\ traced_pid \in Pids /\ proc[traced_pid] = Forked /\ proc \in [Pids -> Process]
      /\ breakpointsMap \in [Addr -> MapEntry \cup {NoEntry}]
      /\ pendingBreakpointsMap \in Seq(Pending)
  BY DEF initBDD, StatusInv, TypeOK
<1>4. planted \subseteq Addr
  BY DEF Addr
<1>5. ASSUME NEW a \in Addr, At(a) # {}
      PROVE  /\ First(a) \in enabled /\ Real(First(a)) = a /\ e(a) \in MapEntry
             /\ saved(a) \in SUBSET (planted \ {a})
  <2>1. At(a) \subseteq Nat
    BY <1>3
  <2>2. \E i \in At(a) : \A j \in At(a) : i <= j
    BY <1>5, <2>1, MinimumExists
  <2>3. First(a) \in At(a) /\ \A j \in At(a) : First(a) <= j
    BY <2>2
  <2>4. pendingBreakpointsMap[First(a)] \in Pending
    BY <1>3, <2>3
  <2>5. Earlier(a) \subseteq planted \ {a}
    <3> DEFINE first == First(a)
    <3>1. first \in Nat /\ \A j \in At(a) : first <= j
      BY <2>1, <2>3
    <3> HIDE DEF first
    <3>2. ASSUME NEW j \in enabled, j < first PROVE Real(j) \in planted /\ Real(j) # a
      <4>1. j \in Nat
        BY <1>3
      <4>2. j \notin At(a)
        BY <3>1, <3>2, <4>1
      <4> QED
        BY <4>2
    <3> QED
      BY <3>2 DEF first
  <2>6. saved(a) \in SUBSET (planted \ {a})
    BY <2>5
  <2> HIDE DEF saved, First, At, planted
  <2>7. saved(a) \in SUBSET Addr /\ pendingBreakpointsMap[First(a)].name \in Name
    BY <1>4, <2>4, <2>6 DEF Pending
  <2>8. e(a) \in MapEntry
    BY <1>3, <2>7 DEF MapEntry
  <2> QED
    BY <2>3, <2>6, <2>8 DEF At
<1>6. \A a \in Addr : At(a) # {} <=> a \in planted
  OBVIOUS
<1> HIDE DEF e, saved, Earlier, First, At, planted, enabled, Real, ram
<1>7. ASSUME NEW a \in Addr
      PROVE  /\ breakpointsMap'[a] \in MapEntry \cup {NoEntry}
             /\ breakpointsMap'[a] # NoEntry <=> a \in Placed \cup planted
             /\ breakpointsMap'[a] # breakpointsMap[a] => At(a) # {} /\ breakpointsMap'[a] = e(a)
  <2>1. CASE At(a) = {}
    BY <1>2, <1>3, <1>6, <2>1 DEF Placed
  <2>2. CASE At(a) # {}
    <3>1. breakpointsMap'[a] = TryEmplace(breakpointsMap, a, e(a))[a]
      BY <1>2, <2>2
    <3>2. breakpointsMap'[a] = IF breakpointsMap[a] = NoEntry THEN e(a) ELSE breakpointsMap[a]
      BY <1>3, <1>5, <2>2, <3>1, TryEmplaceType
    <3>3. e(a) \in MapEntry /\ e(a) # NoEntry /\ a \in planted
      BY <1>5, <1>6, <2>2, EntriesDiffer
    <3>4. breakpointsMap[a] \in MapEntry \cup {NoEntry}
      BY <1>3
    <3>5. CASE breakpointsMap[a] = NoEntry
      BY <2>2, <3>2, <3>3, <3>5
    <3>6. CASE breakpointsMap[a] # NoEntry
      BY <3>2, <3>3, <3>4, <3>6
    <3> QED
      BY <3>5, <3>6
  <2> QED
    BY <2>1, <2>2
<1>8. breakpointsMap' \in [Addr -> MapEntry \cup {NoEntry}] /\ Placed' = Placed \cup planted
  <2>1. breakpointsMap' = [a \in Addr |-> breakpointsMap'[a]]
    BY <1>2
  <2> QED
    BY <1>4, <1>7, <2>1 DEF Placed
<1>9. \A a \in Addr :
        breakpointsMap'[a] # breakpointsMap[a] =>
          \E i \in enabled, t \in SUBSET (planted \ {a}) :
            /\ a = Real(i)
            /\ breakpointsMap'[a] =
                 [pid |-> traced_pid, name |-> pendingBreakpointsMap[i].name, saved |-> t]
  BY <1>5, <1>7 DEF e
<1>10. proc' = [proc EXCEPT ![traced_pid] =
                  [[[[proc[traced_pid] EXCEPT !.base = base] EXCEPT
                    !.at = "exec"] EXCEPT !.addr = addr] EXCEPT !.planted = planted]]
  BY <1>2, <1>3
<1> QED
  BY <1>2, <1>4, <1>8, <1>9, <1>10 DEF planted, enabled, Real, ram

LEMMA InitBDDKeeps == SessionInv /\ initBDD => SessionInv'
<1> SUFFICES ASSUME SessionInv, initBDD PROVE SessionInv'
  OBVIOUS
<1> USE DEF SessionInv
<1>1. PICK base \in Bases, addr \in Addr \cup {0} :
        LET ram == IF hasStarted THEN ram_start_address ELSE base
            Real(i) == RealAddr(pendingBreakpointsMap[i].address, ram)
            enabled == {i \in DOMAIN pendingBreakpointsMap : Real(i) \in Mapped(base)}
            planted == {Real(i) : i \in enabled}
        IN  /\ addr \in {0} \cup ShortAt(base)
            /\ ram_start_address' = ram
            /\ proc' = [proc EXCEPT ![traced_pid] =
                          [[[[proc[traced_pid] EXCEPT !.base = base] EXCEPT
                            !.at = "exec"] EXCEPT !.addr = addr] EXCEPT
                            !.planted = planted]]
            /\ planted \subseteq Addr
            /\ breakpointsMap' \in [Addr -> MapEntry \cup {NoEntry}]
            /\ Placed' = Placed \cup planted
            /\ \A a \in Addr :
                 breakpointsMap'[a] # breakpointsMap[a] =>
                   \E i \in enabled, saved \in SUBSET (planted \ {a}) :
                     /\ a = Real(i)
                     /\ breakpointsMap'[a] =
                          [pid |-> traced_pid, name |-> pendingBreakpointsMap[i].name,
                           saved |-> saved]
  BY InitEffect, Zenon
<1> DEFINE ram == IF hasStarted THEN ram_start_address ELSE base
           Real(i) == RealAddr(pendingBreakpointsMap[i].address, ram)
           enabled == {i \in DOMAIN pendingBreakpointsMap : Real(i) \in Mapped(base)}
           planted == {Real(i) : i \in enabled}
           q == [[[[Forked EXCEPT !.base = base] EXCEPT !.at = "exec"] EXCEPT
                  !.addr = addr] EXCEPT !.planted = planted]
<1>2. /\ traced_pid \in Pids /\ proc[traced_pid] = Forked /\ proc \in [Pids -> Process]
      /\ phase = "init" /\ after \in {"prompt", "continue"} /\ force_end = FALSE
      /\ UNCHANGED <<traced_pid, force_end, after, strays, refused>>
      /\ phase' = after /\ pendingBreakpointsMap' = <<>> /\ cached_status' = AtTrap
  BY DEF initBDD, StatusInv, EndInv, TypeOK, AtTrap
<1>3. /\ addr \in {0} \cup ShortAt(base)
      /\ proc' = [proc EXCEPT ![traced_pid] = q]
      /\ ram_start_address' \in Bases \cup {0}
      /\ planted \subseteq Addr
      /\ breakpointsMap' \in [Addr -> MapEntry \cup {NoEntry}]
      /\ Placed' = Placed \cup planted
      /\ \A a \in Addr :
           breakpointsMap'[a] # breakpointsMap[a] =>
             \E saved \in SUBSET (planted \ {a}) : breakpointsMap'[a].saved = saved
  BY <1>1, <1>2 DEF TypeOK
<1>4. /\ q \in Process /\ q.life = "stopped" /\ q.at = "exec" /\ q.planted = planted
      /\ q.base = base /\ q.addr = addr
  BY <1>3, FreshIsProcess DEF Process, Forked, Fresh
<1> HIDE DEF planted, q
<1>5. StatusOf(q) = AtTrap /\ AtTrap \in Status
  BY <1>4, StatusWords DEF Leaving
<1>6. /\ proc' \in [Pids -> Process] /\ proc'[traced_pid] = q
      /\ \A r \in Pids \ {traced_pid} : proc'[r] = proc[r]
  BY <1>2, <1>3, <1>4
<1>7. TypeOK'
  <2>1. pendingBreakpointsMap' \in Seq(Pending)
    BY <1>2
  <2> QED
    BY <1>2, <1>3, <1>5, <1>6, <2>1 DEF TypeOK
<1>8. ProcessesInv'
  BY <1>2, <1>4, <1>6 DEF ProcessesInv, Live, Leaving
<1>9. StatusInv'
  BY <1>2, <1>4, <1>5, <1>6, WordsDiffer, SessionAssumption DEF StatusInv, Attached
<1>10. EndInv'
  BY <1>2, <1>4, <1>6 DEF EndInv
<1>11. PendingInv'
  BY <1>2 DEF PendingInv
<1>12. MapInv'
  <2>1. Traceable(proc'[traced_pid], Placed')
    BY <1>3, <1>4, <1>6 DEF Traceable, Located
  <2>2. ASSUME NEW a \in Placed' PROVE breakpointsMap'[a].saved \subseteq Placed' \ {a}
    <3>1. a \in Addr
      BY DEF Placed
    <3>2. CASE breakpointsMap'[a] = breakpointsMap[a]
      <4>1. a \in Placed
        BY <3>1, <3>2 DEF Placed
      <4> QED
        BY <1>3, <3>2, <4>1 DEF MapInv, EntriesInv
    <3>3. CASE breakpointsMap'[a] # breakpointsMap[a]
      BY <1>3, <3>1, <3>3
    <3> QED
      BY <3>2, <3>3
  <2> QED
    BY <1>2, <2>1, <2>2 DEF MapInv, EntriesInv, Attached
<1> QED
  BY <1>7, <1>8, <1>9, <1>10, <1>11, <1>12

LEMMA ContinueKeeps ==
  ASSUME SessionInv, phase \in {"prompt", "continue"}, ~force_end, Continue
  PROVE  SessionInv'
  BY DriveKeeps DEF Continue

LEMMA SessionInvNext == SessionInv /\ [Next]_vars => SessionInv'
<1> SUFFICES ASSUME SessionInv, [Next]_vars PROVE SessionInv'
  OBVIOUS
<1>1. CASE \E a \in UserAddr : bpAddress(a)
  BY <1>1, BpAddressKeeps
<1>2. CASE \E f \in Functions : bpFunction(f)
  BY <1>2, BpFunctionKeeps
<1>3. CASE \E word \in OffWords : bpOffCommand(word)
  BY <1>3, BpOffKeeps
<1>4. CASE runCommand
  BY <1>4, StartRunKeeps, ContinueKeeps DEF runCommand, Prompt
<1>5. CASE restartCommand
  BY <1>5, StartRunKeeps DEF restartCommand
<1>6. CASE stepCommand
  BY <1>6, DriveKeeps DEF stepCommand, Prompt
<1>7. CASE stopCommand
  BY <1>7, StopCommandKeeps
<1>8. CASE killCommand
  BY <1>8, KillCommandKeeps
<1>9. CASE clearCurrentProcess
  BY <1>9, ClearKeeps
<1>10. CASE Fork
  BY <1>10, ForkKeeps
<1>11. CASE initBDD
  BY <1>11, InitBDDKeeps
<1>12. CASE ContinueAfterRun
  BY <1>12, ContinueKeeps DEF ContinueAfterRun, SessionInv, EndInv
<1>13. CASE End
  BY <1>13, EndKeeps
<1>14. CASE KilledFromOutside
  BY <1>14, OutsideKeeps
<1>15. CASE UNCHANGED vars
  BY <1>15, SameEntries DEF vars, SessionInv, TypeOK, ProcessesInv, StatusInv, EndInv,
               PendingInv, MapInv, hasStarted, Live, Attached
<1> QED
  BY <1>1, <1>2, <1>3, <1>4, <1>5, <1>6, <1>7, <1>8, <1>9, <1>10, <1>11, <1>12, <1>13,
     <1>14, <1>15
     DEF Next

THEOREM SessionInvariant == Spec => []SessionInv
  BY SessionInvInit, SessionInvNext, PTL DEF Spec

\* Every variable of a session keeps its type, and a map of breakpoints its entries.
THEOREM SessionTypes == Spec => []TypeOK
<1>1. SessionInv => TypeOK
  BY DEF SessionInv
<1> QED
  BY <1>1, SessionInvariant, PTL

\* `restart' and a second `run' leave no program behind, stopped and untraced, and a
\* debugger that ends by itself has killed the one it had.
THEOREM NoneIsLeftBehind == Spec => []NoOrphan
<1>1. SessionInv => NoOrphan
  <2> SUFFICES ASSUME SessionInv, NEW p \in Pids
               PROVE  /\ Live(p) => p = traced_pid /\ (phase # "init" => isAlive)
                      /\ phase = "ended" =>
                           ~(proc[p].life = "detached" /\ proc[p].at # "dying")
    BY DEF NoOrphan
  <2>1. ASSUME Live(p) PROVE p = traced_pid /\ (phase # "init" => isAlive)
    BY <2>1, LiveIsAlive, Predicates
       DEF SessionInv, TypeOK, ProcessesInv, Attached, Live
  <2>2. phase = "ended" => ~(proc[p].life = "detached" /\ proc[p].at # "dying")
    BY DEF SessionInv, EndInv
  <2> QED
    BY <2>1, <2>2
<1> QED
  BY <1>1, SessionInvariant, PTL

\* The breakpoints that wait for the first `run' are in the text of the program when
\* it is about to start, each at its function, wherever the loader put it.
THEOREM PendingBreakpointsArePlaced == Spec => PendingArePlaced
<1> DEFINE Placing ==
      pendingBreakpointsMap' = <<>> =>
        \A i \in DOMAIN pendingBreakpointsMap :
          LET b == pendingBreakpointsMap[i] IN
          b.name # 0 =>
            Runtime(proc'[traced_pid].base, b.name) \in proc'[traced_pid].planted
<1>1. SessionInv /\ Next => Placing
  <2> SUFFICES ASSUME SessionInv, Next, pendingBreakpointsMap' = <<>>,
                      NEW i \in DOMAIN pendingBreakpointsMap,
                      pendingBreakpointsMap[i].name # 0
               PROVE  Runtime(proc'[traced_pid].base, pendingBreakpointsMap[i].name)
                        \in proc'[traced_pid].planted
    OBVIOUS
  <2>1. /\ pendingBreakpointsMap # <<>> /\ ~hasStarted
        /\ pendingBreakpointsMap[i].address = pendingBreakpointsMap[i].name
        /\ pendingBreakpointsMap \in Seq(Pending)
    BY DEF SessionInv, TypeOK, PendingInv
  <2>2. initBDD
    <3>1. ASSUME NEW a, NEW name, NEW request, BreakpointAtAddress(a, name, request)
          PROVE  FALSE
      BY <2>1, <3>1 DEF BreakpointAtAddress, Refuse
    <3>2. \A a \in UserAddr : ~bpAddress(a)
      BY <3>1 DEF bpAddress
    <3>3. \A f \in Functions : ~bpFunction(f)
      BY <2>1, <3>1 DEF bpFunction
    <3>4. \A word \in OffWords : ~bpOffCommand(word)
      BY <2>1 DEF bpOffCommand, Lift, Refuse
    <3>5. ~runCommand /\ ~restartCommand /\ ~stepCommand /\ ~ContinueAfterRun
      BY <2>1 DEF runCommand, restartCommand, stepCommand, ContinueAfterRun, Continue, StartRun
    <3>6. ~stopCommand /\ ~killCommand /\ ~clearCurrentProcess /\ ~Fork /\ ~End
            /\ ~KilledFromOutside
      BY <2>1 DEF stopCommand, killCommand, clearCurrentProcess, ForgetProcess, Fork, End,
                  KilledFromOutside
    <3> QED
      BY <3>2, <3>3, <3>4, <3>5, <3>6 DEF Next
  <2>3. PICK base \in Bases, addr \in Addr \cup {0} :
          LET ram == IF hasStarted THEN ram_start_address ELSE base
              Real(j) == RealAddr(pendingBreakpointsMap[j].address, ram)
              enabled == {j \in DOMAIN pendingBreakpointsMap : Real(j) \in Mapped(base)}
              planted == {Real(j) : j \in enabled}
          IN  proc' = [proc EXCEPT ![traced_pid] =
                         [[[[proc[traced_pid] EXCEPT !.base = base] EXCEPT
                           !.at = "exec"] EXCEPT !.addr = addr] EXCEPT !.planted = planted]]
    BY <2>2, InitEffect, Zenon
  <2> DEFINE Real(j) == RealAddr(pendingBreakpointsMap[j].address, base)
             enabled == {j \in DOMAIN pendingBreakpointsMap : Real(j) \in Mapped(base)}
             planted == {Real(j) : j \in enabled}
             f == pendingBreakpointsMap[i].name
  <2>4. proc'[traced_pid].base = base /\ proc'[traced_pid].planted = planted
    <3>1. /\ proc[traced_pid] \in Process /\ traced_pid \in Pids
          /\ proc \in [Pids -> Process]
      BY <2>2 DEF initBDD, SessionInv, TypeOK, StatusInv
    <3>2. proc' = [proc EXCEPT ![traced_pid] =
                     [[[[proc[traced_pid] EXCEPT !.base = base] EXCEPT
                       !.at = "exec"] EXCEPT !.addr = addr] EXCEPT !.planted = planted]]
      BY <2>1, <2>3
    <3> HIDE DEF planted
    <3> QED
      BY <3>1, <3>2 DEF Process
  <2>5. f \in Functions /\ f \in Nat /\ base \in Nat /\ Size \in Nat
    <3>1. pendingBreakpointsMap[i] \in Pending
      BY <2>1
    <3>2. f \in Functions
      BY <3>1 DEF Pending, Name
    <3> QED
      BY <3>2, SessionAssumption
  <2>6. Real(i) = Runtime(base, f) /\ Runtime(base, f) \in Mapped(base)
    <3>1. IF Pie THEN f < Size /\ f < base ELSE f - base \in 0 .. Size - 1
      BY <2>5, SessionAssumption
    <3>2. Real(i) = RealAddr(f, base)
      BY <2>1
    <3>3. CASE Pie
      BY <2>5, <3>1, <3>2, <3>3 DEF RealAddr, Runtime, Mapped
    <3>4. CASE ~Pie
      BY <2>5, <3>1, <3>2, <3>4 DEF RealAddr, Runtime, Mapped
    <3> QED
      BY <3>3, <3>4
  <2> QED
    BY <2>4, <2>6
<1>2. SessionInv /\ [Next]_vars => [Placing]_vars
  BY <1>1
<1> QED
  BY <1>2, SessionInvariant, PTL DEF PendingArePlaced, Spec

-----------------------------------------------------------------------------
(* What holds when no process is resumed at its exit: the process that is  *)
(* being traced never reads as dead, so that every `run' goes through      *)
(* clearCurrentProcess, and what is remembered is always of one launch.    *)

\* Every address the user gives is one of the mapping, wherever that is.
AddressesMapped == \A b \in Bases : UserAddr \subseteq Mapped(b)

\* Breakpoints are at functions and at addresses that were given, in the mapping.
TargetsInv == Attached => Placed \subseteq Targets(proc[traced_pid].base)

LaunchInv ==
  /\ hasStarted <=> Attached
  /\ Placed # {} => Attached
  /\ Attached => /\ cached_status # 0
                 /\ ram_start_address = proc[traced_pid].base
  /\ TargetsInv
  /\ EntriesAreCurrent
  /\ NeverDerailed

\* Without `bp off' every entry keeps its INT3, if no word saved by another one
\* covers it.
TextInv ==
  OffWords = {} => /\ phase # "aborted"
                   /\ Separated /\ Attached => Placed \subseteq proc[traced_pid].planted

LEMMA TargetsApart ==
  ASSUME Separated, NEW b \in Bases, NEW T \in SUBSET Targets(b), NEW a \in T
  PROVE  T \cap Bytes(a) \subseteq {a}
<1> SUFFICES ASSUME NEW x \in T, x \in Bytes(a), x # a PROVE FALSE
  OBVIOUS
<1>1. a \in Int /\ x \in Int /\ WordSize \in Nat
  BY SessionAssumption DEF Targets, Mapped
<1>2. a < x /\ x < a + WordSize
  BY <1>1 DEF Bytes
<1> QED
  BY <1>1, <1>2 DEF Separated

\* The name of an entry tells where it is.
NamesInv ==
  Pie => /\ "function" \notin refused
         /\ Attached => \A a \in Placed :
                          breakpointsMap[a].name # 0 =>
                            a = proc[traced_pid].base + breakpointsMap[a].name

AddressInv == AddressesMapped => "address" \notin refused

OneLaunchInv == LaunchInv /\ TextInv /\ NamesInv /\ AddressInv

LEMMA OneLaunchInit == Init => OneLaunchInv
<1> SUFFICES ASSUME Init PROVE OneLaunchInv
  OBVIOUS
<1>1. ~hasStarted /\ ~Attached /\ Placed = {}
  BY SessionAssumption DEF Init, hasStarted, Attached, Placed, NoBreakpoints
<1>2. NeverDerailed
  BY DEF Init, NeverDerailed
<1> QED
  BY <1>1, <1>2 DEF Init, OneLaunchInv, LaunchInv, TargetsInv, TextInv, NamesInv,
                    AddressInv, EntriesAreCurrent

\* A step that leaves the load address, the map and the launch alone.
LEMMA SameLaunch ==
  ASSUME SessionInv, OneLaunchInv, phase # "init", phase' # "init",
         UNCHANGED <<ram_start_address, traced_pid, breakpointsMap>>,
         traced_pid \in Pids => cached_status' # 0,
         \A p \in Pids : /\ proc'[p].base = proc[p].base
                         /\ proc'[p].derailed => proc[p].derailed
                         /\ OffWords = {} /\ Separated =>
                              proc[p].planted \subseteq proc'[p].planted,
         OffWords = {} => phase' # "aborted",
         Pie /\ "function" \in refused' => "function" \in refused,
         AddressesMapped /\ "address" \in refused' => "address" \in refused
  PROVE  OneLaunchInv'
<1> USE DEF OneLaunchInv
<1>1. (Attached' <=> Attached) /\ (hasStarted' <=> hasStarted) /\ Placed' = Placed
  BY DEF Attached, hasStarted, Placed
<1>2. LaunchInv'
  BY <1>1 DEF LaunchInv, TargetsInv, EntriesAreCurrent, NeverDerailed, Attached
<1>3. TextInv'
  BY <1>1 DEF TextInv, Attached
<1>4. NamesInv'
  BY <1>1 DEF NamesInv, Attached
<1>5. AddressInv'
  BY DEF AddressInv, AddressesMapped
<1> QED
  BY <1>2, <1>3, <1>4, <1>5

\* The fields that neither a signal nor the end of the debugger touches.
LEMMA SignalsMoveNothing ==
  ASSUME SessionInv,
         proc' \in {proc, Kill(traced_pid), Interrupt(traced_pid), Detached}
  PROVE  \A p \in Pids : /\ proc'[p].base = proc[p].base
                         /\ proc'[p].derailed = proc[p].derailed
                         /\ proc'[p].planted = proc[p].planted
<1> SUFFICES ASSUME NEW p \in Pids
             PROVE  /\ proc'[p].base = proc[p].base
                    /\ proc'[p].derailed = proc[p].derailed
                    /\ proc'[p].planted = proc[p].planted
  OBVIOUS
<1>1. proc \in [Pids -> Process]
  BY DEF SessionInv, TypeOK
<1>2. CASE proc' \in {proc, Kill(traced_pid), Interrupt(traced_pid)}
  BY <1>1, <1>2 DEF Kill, Interrupt, Process
<1>3. CASE proc' = Detached
  BY <1>1, <1>3, DetachedProcesses
<1> QED
  BY <1>2, <1>3

LEMMA DriveSameLaunch ==
  ASSUME SessionInv, OneLaunchInv, ~PastExit, phase \in {"prompt", "continue"},
         traced_pid \in Pids => cached_status # ExitStop,
         NEW outcomes \in {Continued(proc[traced_pid]), Stepped(proc[traced_pid])},
         Drive(outcomes), phase' = "prompt",
         UNCHANGED <<ram_start_address, traced_pid, breakpointsMap,
                     pendingBreakpointsMap, force_end, after, strays, refused>>
  PROVE  OneLaunchInv'
<1> USE DEF SessionInv
<1>1. proc \in [Pids -> Process]
  BY DEF TypeOK
<1>2. traced_pid \in Pids => Attached /\ cached_status # 0 /\ cached_status = StatusOf(proc[traced_pid])
  BY DEF Attached, OneLaunchInv, LaunchInv, StatusInv
<1>3. ASSUME UNCHANGED <<cached_status, proc>> PROVE OneLaunchInv'
  BY <1>2, <1>3, SameLaunch
<1>4. ASSUME NEW p \in Pids, WaitForKilled(p), p = traced_pid \/ traced_pid = -1
      PROVE  OneLaunchInv'
  <2> DEFINE at == IF proc[p].at = "exit" THEN "exit" ELSE "dying"
             Q(life) == [[proc[p] EXCEPT !.life = life] EXCEPT !.at = at]
  <2>1. PICK life \in {"gone"} \cup (IF Leaving(proc[p]) THEN {} ELSE {"stopped"}) :
          proc' = [proc EXCEPT ![p] = Q(life)] /\ cached_status' = StatusOf(Q(life))
    BY <1>4, Zenon DEF WaitForKilled
  <2> DEFINE q == Q(life)
  <2>2. /\ q \in Process /\ q.life = life /\ q.at = at /\ q.base = proc[p].base
        /\ q.planted = proc[p].planted /\ q.derailed = proc[p].derailed
    <3> DEFINE r == [proc[p] EXCEPT !.life = life]
    <3>1. /\ proc[p] \in Process /\ life \in {"gone", "stopped"}
          /\ at \in {"exit", "dying"}
      BY <1>1, <2>1
    <3>2. /\ r \in Process /\ r.life = life /\ r.base = proc[p].base
          /\ r.planted = proc[p].planted /\ r.derailed = proc[p].derailed
      BY <3>1 DEF Process
    <3>3. q = [r EXCEPT !.at = at]
      OBVIOUS
    <3> HIDE DEF r, at
    <3> QED
      BY <3>1, <3>2, <3>3 DEF Process
  <2>3. proc' = [proc EXCEPT ![p] = q] /\ cached_status' = StatusOf(q)
    BY <2>1
  <2>4. traced_pid \in Pids => proc[p].at # "exit"
    <3>1. proc[p].life = "killed" /\ proc[p] \in Process
      BY <1>1, <1>4 DEF WaitForKilled
    <3>2. proc[p].at = "exit" => StatusOf(proc[p]) = ExitStop
      BY <3>1, StatusWords DEF Leaving
    <3> QED
      BY <1>2, <1>4, <3>2, SessionAssumption
  <2>5. traced_pid \in Pids => cached_status' # 0
    <3>1. q.at = "dying" /\ q.life \in {"gone", "stopped"} => StatusOf(q) # 0
      BY <2>2, StatusWords, WordsDiffer DEF Leaving
    <3> QED
      BY <2>1, <2>2, <2>3, <2>4, <3>1
  <2> HIDE DEF q, Q
  <2>6. \A r \in Pids : /\ proc'[r].base = proc[r].base
                        /\ proc'[r].derailed = proc[r].derailed
                        /\ proc'[r].planted = proc[r].planted
    BY <1>1, <2>2, <2>3
  <2> QED
    BY <2>5, <2>6, SameLaunch
<1>5. ASSUME traced_pid \in Pids, proc[traced_pid].life = "stopped",
             NEW q \in outcomes,
             proc' = [proc EXCEPT ![traced_pid] = q], cached_status' = StatusOf(q)
      PROVE  OneLaunchInv'
  <2> DEFINE p == proc[traced_pid]
  <2>1. /\ p \in Process /\ p.at # "start" /\ p.life = "stopped"
        /\ Traceable(p, Placed) /\ EntriesInv
        /\ Placed \subseteq Targets(p.base)
        /\ ~p.derailed
    BY <1>1, <1>2, <1>5
       DEF StatusInv, MapInv, OneLaunchInv, LaunchInv, TargetsInv, NeverDerailed
  <2>2. ~Leaving(p)
    <3>1. Leaving(p) => StatusOf(p) = ExitStop
      BY <2>1, StatusWords
    <3> QED
      BY <1>2, <1>5, <3>1
  <2>3. \A a \in Placed : breakpointsMap[a].pid = traced_pid
    BY DEF OneLaunchInv, LaunchInv, EntriesAreCurrent
  <2>4. Placed \subseteq Addr
    BY DEF Placed
  <2>5. q \in Continued(p) \cup Stepped(p)
    BY <1>5
  <2> HIDE DEF p
  <2>6. /\ q \in Process /\ q.base = p.base
        /\ q.life = "stopped" /\ ~q.derailed
        /\ Separated => p.planted \subseteq q.planted
    <3>1. Separated => \A a \in Placed : Placed \cap Bytes(a) \subseteq {a}
      BY <2>1, TargetsApart DEF Traceable
    <3>2. /\ q \in Process /\ q.base = p.base /\ q.life \in {"stopped", "gone"}
          /\ (\A a \in Placed : Placed \cap Bytes(a) \subseteq {a})
                => p.planted \subseteq q.planted
          /\ q.life = "gone" /\ ~PastExit => Leaving(p)
          /\ q.derailed =>
               \/ p.derailed
               \/ p.addr \in Placed /\ breakpointsMap[p.addr].pid # traced_pid
      BY <2>1, <2>4, <2>5, Outcomes
    <3>3. ~q.derailed
      BY <2>1, <2>3, <3>2
    <3> QED
      BY <2>2, <3>1, <3>2, <3>3
  <2>7. cached_status' # 0
    BY <1>5, <2>6, StatusWords, WordsDiffer
  <2>8. \A r \in Pids : /\ proc'[r].base = proc[r].base
                        /\ proc'[r].derailed => proc[r].derailed
                        /\ Separated => proc[r].planted \subseteq proc'[r].planted
    BY <1>1, <1>5, <2>6 DEF p
  <2> QED
    BY <2>7, <2>8, SameLaunch
<1> QED
  BY <1>3, <1>4, <1>5 DEF Drive, WaitForAny, Children

\* A breakpoint at an address of the program, or a refusal of it.
LEMMA BreakpointSameLaunch ==
  ASSUME SessionInv, OneLaunchInv, Prompt,
         NEW a, NEW name \in Name, NEW request \in {"function", "address"},
         hasStarted => a \in Addr,
         a \in UserAddr \cup {ram_start_address + f : f \in Functions},
         hasStarted /\ Pie /\ name # 0 => a = proc[traced_pid].base + name,
         hasStarted /\ Live(traced_pid) /\ ~CanPatch(a) =>
           (Pie => request # "function") /\ (AddressesMapped => request # "address"),
         BreakpointAtAddress(a, name, request), KeepsTheRest
  PROVE  OneLaunchInv'
<1>1. phase = "prompt" /\ UNCHANGED <<ram_start_address, traced_pid, cached_status>>
      /\ (traced_pid \in Pids => cached_status # 0)
  BY DEF Prompt, KeepsTheRest, OneLaunchInv, LaunchInv, Attached
<1>2. CASE ~hasStarted /\ UNCHANGED <<breakpointsMap, proc, phase, refused>>
  BY <1>1, <1>2, SameLaunch
<1>3. CASE /\ hasStarted /\ CanPatch(a)
           /\ proc' = [proc EXCEPT ![traced_pid].planted = @ \cup {a}]
           /\ breakpointsMap' =
                TryEmplace(breakpointsMap, a,
                           [pid |-> traced_pid, name |-> name,
                            saved |-> proc[traced_pid].planted \cap Bytes(a)])
           /\ UNCHANGED <<pendingBreakpointsMap, phase, refused>>
  <2> DEFINE saved == proc[traced_pid].planted \cap Bytes(a)
             e == [pid |-> traced_pid, name |-> name, saved |-> saved]
  <2>0. /\ traced_pid \in Pids /\ proc \in [Pids -> Process] /\ saved \in SUBSET Addr
        /\ a \in Mapped(proc[traced_pid].base)
    BY <1>3 DEF CanPatch, SessionInv, TypeOK, Process
  <2> HIDE DEF saved
  <2>1. /\ traced_pid \in Pids /\ a \in Addr /\ e \in MapEntry
        /\ proc \in [Pids -> Process]
        /\ breakpointsMap \in [Addr -> MapEntry \cup {NoEntry}]
    BY <1>3, <2>0 DEF SessionInv, TypeOK, MapEntry
  <2>2. breakpointsMap' = TryEmplace(breakpointsMap, a, e)
    BY <1>3 DEF saved
  <2>3. e.pid = traced_pid /\ e.name = name
    OBVIOUS
  <2> HIDE DEF e
  <2>4. /\ Placed' = Placed \cup {a}
        /\ \A b \in Placed' : \/ b \in Placed /\ breakpointsMap'[b] = breakpointsMap[b]
                              \/ b = a /\ breakpointsMap'[b] = e
    BY <2>1, <2>2, TryEmplaceType, EntriesDiffer DEF Placed
  <2>5. \A p \in Pids : /\ proc'[p].base = proc[p].base
                        /\ proc'[p].derailed = proc[p].derailed
                        /\ proc'[p].planted =
                             proc[p].planted \cup (IF p = traced_pid THEN {a} ELSE {})
    BY <1>3, <2>1 DEF Process
  <2>6. Attached /\ Attached' /\ hasStarted'
    BY <1>1, <1>3, <2>1 DEF Attached, hasStarted
  <2>7. LaunchInv'
    <3>1. a \in Targets(proc[traced_pid].base)
      BY <2>0, <2>6 DEF Targets, OneLaunchInv, LaunchInv
    <3>2. TargetsInv'
      BY <1>1, <2>1, <2>4, <2>5, <2>6, <3>1 DEF OneLaunchInv, LaunchInv, TargetsInv
    <3>3. EntriesAreCurrent'
      BY <1>1, <2>3, <2>4 DEF OneLaunchInv, LaunchInv, EntriesAreCurrent
    <3>4. NeverDerailed'
      BY <2>5 DEF OneLaunchInv, LaunchInv, NeverDerailed
    <3>5. (ram_start_address = proc[traced_pid].base)'
      BY <1>1, <2>1, <2>5, <2>6 DEF OneLaunchInv, LaunchInv
    <3>6. cached_status' # 0
      BY <1>1, <2>1
    <3> QED
      BY <2>6, <3>2, <3>3, <3>4, <3>5, <3>6 DEF LaunchInv
  <2>8. TextInv'
    BY <1>1, <1>3, <2>1, <2>4, <2>5, <2>6 DEF OneLaunchInv, TextInv
  <2>9. NamesInv'
    BY <1>1, <1>3, <2>1, <2>3, <2>4, <2>5, <2>6 DEF OneLaunchInv, NamesInv
  <2>10. AddressInv'
    BY <1>3 DEF OneLaunchInv, AddressInv, AddressesMapped
  <2> QED
    BY <2>7, <2>8, <2>9, <2>10 DEF OneLaunchInv
<1>4. CASE hasStarted /\ ~CanPatch(a) /\ Refuse({request})
  <2>1. proc' \in {proc, Detached} /\ phase' \in {"prompt", "crashed"}
        /\ UNCHANGED breakpointsMap
    BY <1>1, <1>4 DEF Refuse, Die
  <2>2. /\ Pie /\ "function" \in refused' => "function" \in refused
        /\ AddressesMapped /\ "address" \in refused' => "address" \in refused
    BY <1>4 DEF Refuse
  <2> QED
    BY <1>1, <2>1, <2>2, SignalsMoveNothing, SameLaunch
<1> QED
  BY <1>2, <1>3, <1>4 DEF BreakpointAtAddress

LEMMA BpAddressSameLaunch ==
  ASSUME SessionInv, OneLaunchInv, NEW a \in UserAddr, bpAddress(a)
  PROVE  OneLaunchInv'
<1>1. a \in Addr /\ 0 \in Name
  BY DEF Addr, Name
<1>2. hasStarted /\ Live(traced_pid) /\ AddressesMapped => CanPatch(a)
  <2> SUFFICES ASSUME hasStarted, Live(traced_pid), AddressesMapped PROVE CanPatch(a)
    OBVIOUS
  <2>1. ram_start_address = proc[traced_pid].base /\ ram_start_address \in Bases
    BY SessionAssumption DEF OneLaunchInv, LaunchInv, hasStarted, SessionInv, TypeOK
  <2> QED
    BY <2>1 DEF AddressesMapped, CanPatch, Live
<1> QED
  BY <1>1, <1>2, BreakpointSameLaunch DEF bpAddress

LEMMA BpFunctionSameLaunch ==
  ASSUME SessionInv, OneLaunchInv, NEW f \in Functions, bpFunction(f)
  PROVE  OneLaunchInv'
<1> USE DEF SessionInv
<1>1. Prompt /\ KeepsTheRest /\ f \in Name /\ f \in Nat \ {0} /\ Size \in Nat
      /\ cached_status \in Status /\ ram_start_address \in Bases \cup {0}
      /\ 0 \notin Bases /\ Bases \subseteq Nat
  BY SessionAssumption DEF bpFunction, Name, TypeOK
<1>2. hasStarted => /\ isAlive /\ Attached /\ ram_start_address \in Bases
                    /\ ram_start_address = proc[traced_pid].base
  BY <1>1, Predicates DEF OneLaunchInv, LaunchInv, hasStarted
<1>3. BreakpointAtAddress(ram_start_address + f, f, "function")
  BY <1>2 DEF bpFunction, isAlive
<1>4. hasStarted => ram_start_address + f \in Addr
  BY <1>2 DEF Addr
<1>5. hasStarted /\ Live(traced_pid) /\ Pie => CanPatch(ram_start_address + f)
  <2> SUFFICES ASSUME hasStarted, Live(traced_pid), Pie
               PROVE  CanPatch(ram_start_address + f)
    OBVIOUS
  <2>1. f < Size
    BY <1>2, SessionAssumption
  <2>2. ram_start_address + f \in Mapped(ram_start_address)
    <3>1. ram_start_address \in Nat
      BY <1>1
    <3>2. f \in Nat /\ Size \in Nat
      BY <1>1
    <3> QED
      BY <2>1, <3>1, <3>2 DEF Mapped
  <2> QED
    BY <1>2, <2>2 DEF CanPatch, Live
<1> QED
  BY <1>1, <1>2, <1>3, <1>4, <1>5, BreakpointSameLaunch

LEMMA BpOffSameLaunch ==
  ASSUME SessionInv, OneLaunchInv, NEW word \in OffWords, bpOffCommand(word)
  PROVE  OneLaunchInv'
<1>1. phase = "prompt" /\ UNCHANGED <<ram_start_address, traced_pid, cached_status>>
      /\ (traced_pid \in Pids => cached_status # 0)
  BY DEF bpOffCommand, Prompt, KeepsTheRest, OneLaunchInv, LaunchInv, Attached
<1>2. /\ UNCHANGED <<breakpointsMap, refused>>
      /\ phase' \in {"prompt", "aborted", "crashed"}
      /\ \/ proc' \in {proc, Detached}
         \/ \E p \in Pids : \E t : proc' = [proc EXCEPT ![p].planted = t]
  <2>1. CASE Die("aborted") /\ UNCHANGED <<breakpointsMap, pendingBreakpointsMap, refused>>
    BY <2>1 DEF Die
  <2>2. ASSUME NEW a \in Placed, Lift(a)
        PROVE  /\ UNCHANGED <<breakpointsMap, refused, phase>>
               /\ \/ proc' = proc
                  \/ \E p \in Pids : \E t : proc' = [proc EXCEPT ![p].planted = t]
    BY <2>2, LiftEffect DEF Lift
  <2>3. CASE Refuse({})
    BY <1>1, <2>3 DEF Refuse, Die
  <2>4. \A a \in IF word = 0 THEN Placed ELSE Placed \cap {ram_start_address + word} :
          a \in Placed
    OBVIOUS
  <2> QED
    BY <1>1, <2>1, <2>2, <2>3, <2>4 DEF bpOffCommand
<1>3. \A p \in Pids : /\ proc'[p].base = proc[p].base
                      /\ proc'[p].derailed = proc[p].derailed
  <2>1. CASE proc' \in {proc, Detached}
    BY <2>1, SignalsMoveNothing
  <2>2. CASE \E p \in Pids : \E t : proc' = [proc EXCEPT ![p].planted = t]
    <3>1. proc \in [Pids -> Process]
      BY DEF SessionInv, TypeOK
    <3> QED
      BY <2>2, <3>1 DEF Process
  <2> QED
    BY <1>2, <2>1, <2>2
<1> QED
  BY <1>1, <1>2, <1>3, SameLaunch

LEMMA ClearSameLaunch == SessionInv /\ OneLaunchInv /\ clearCurrentProcess => OneLaunchInv'
<1> SUFFICES ASSUME SessionInv, OneLaunchInv, clearCurrentProcess PROVE OneLaunchInv'
  OBVIOUS
<1> USE DEF clearCurrentProcess, ForgetProcess, OneLaunchInv
<1>1. ~hasStarted' /\ ~Attached' /\ Placed' = {}
  BY SessionAssumption DEF hasStarted, Attached, Placed, NoBreakpoints
<1>2. proc' \in {proc, Kill(traced_pid)}
  BY DEF killTraced
<1>3. NeverDerailed'
  BY <1>2, SignalsMoveNothing DEF LaunchInv, NeverDerailed
<1>4. LaunchInv' /\ TextInv' /\ NamesInv' /\ AddressInv'
  BY <1>1, <1>3 DEF LaunchInv, TargetsInv, TextInv, NamesInv, AddressInv, AddressesMapped,
                     EntriesAreCurrent
<1> QED
  BY <1>4

LEMMA ForkSameLaunch == SessionInv /\ OneLaunchInv /\ Fork => OneLaunchInv'
<1> SUFFICES ASSUME SessionInv, OneLaunchInv, Fork PROVE OneLaunchInv'
  OBVIOUS
<1> USE DEF OneLaunchInv
<1>1. /\ phase = "fork" /\ cached_status = 0 /\ proc \in [Pids -> Process]
      /\ UNCHANGED <<ram_start_address, cached_status, breakpointsMap, refused>>
      /\ after \in {"prompt", "continue"}
  BY DEF Fork, SessionInv, StatusInv, TypeOK
<1>2. ~Attached /\ ~hasStarted' /\ Placed' = {}
  BY <1>1 DEF LaunchInv, hasStarted, Placed
<1>3. /\ \A r \in Pids : proc'[r].derailed = proc[r].derailed
      /\ phase' # "aborted"
      /\ ~Attached'
  <2>1. CASE \E p \in Unused : /\ proc' = [proc EXCEPT ![p].life = "stopped"]
                               /\ traced_pid' = p /\ phase' = "init"
    BY <1>1, <2>1 DEF Attached, Process
  <2>2. CASE traced_pid' = -1 /\ phase' = after /\ UNCHANGED proc
    BY <1>1, <2>2, SessionAssumption DEF Attached
  <2> QED
    BY <2>1, <2>2 DEF Fork
<1>4. LaunchInv' /\ TextInv' /\ NamesInv' /\ AddressInv'
  BY <1>1, <1>2, <1>3
     DEF LaunchInv, TargetsInv, TextInv, NamesInv, AddressInv, AddressesMapped,
         EntriesAreCurrent, NeverDerailed
<1> QED
  BY <1>4

LEMMA InitBDDSameLaunch == SessionInv /\ OneLaunchInv /\ initBDD => OneLaunchInv'
<1> SUFFICES ASSUME SessionInv, OneLaunchInv, initBDD PROVE OneLaunchInv'
  OBVIOUS
<1> USE DEF OneLaunchInv
<1>1. /\ traced_pid \in Pids /\ proc[traced_pid] = Forked /\ proc \in [Pids -> Process]
      /\ phase = "init" /\ phase' \in {"prompt", "continue"}
      /\ traced_pid' = traced_pid /\ refused' = refused /\ cached_status' # 0
      /\ pendingBreakpointsMap \in Seq(Pending)
  BY WordsDiffer DEF initBDD, SessionInv, StatusInv, TypeOK, AtTrap
<1>2. ~Attached /\ ~hasStarted /\ Placed = {}
  BY <1>1 DEF LaunchInv, Attached
<1>3. PICK base \in Bases, addr \in Addr \cup {0} :
        LET ram == IF hasStarted THEN ram_start_address ELSE base
            Real(i) == RealAddr(pendingBreakpointsMap[i].address, ram)
            enabled == {i \in DOMAIN pendingBreakpointsMap : Real(i) \in Mapped(base)}
            planted == {Real(i) : i \in enabled}
        IN  /\ ram_start_address' = ram
            /\ proc' = [proc EXCEPT ![traced_pid] =
                          [[[[proc[traced_pid] EXCEPT !.base = base] EXCEPT
                            !.at = "exec"] EXCEPT !.addr = addr] EXCEPT
                            !.planted = planted]]
            /\ planted \subseteq Addr
            /\ breakpointsMap' \in [Addr -> MapEntry \cup {NoEntry}]
            /\ Placed' = Placed \cup planted
            /\ \A a \in Addr :
                 breakpointsMap'[a] # breakpointsMap[a] =>
                   \E i \in enabled, saved \in SUBSET (planted \ {a}) :
                     /\ a = Real(i)
                     /\ breakpointsMap'[a] =
                          [pid |-> traced_pid, name |-> pendingBreakpointsMap[i].name,
                           saved |-> saved]
  BY InitEffect, Zenon
<1> DEFINE Real(i) == RealAddr(pendingBreakpointsMap[i].address, base)
           enabled == {i \in DOMAIN pendingBreakpointsMap : Real(i) \in Mapped(base)}
           planted == {Real(i) : i \in enabled}
           q == [[[[Forked EXCEPT !.base = base] EXCEPT !.at = "exec"] EXCEPT
                  !.addr = addr] EXCEPT !.planted = planted]
<1>4. /\ ram_start_address' = base /\ base \in Nat /\ base > 0
      /\ proc' = [proc EXCEPT ![traced_pid] = q]
      /\ Placed' = planted
  BY <1>1, <1>2, <1>3, SessionAssumption
<1>5. ASSUME NEW a \in Placed'
      PROVE  \E i \in enabled : \E saved :
               /\ a = Real(i)
               /\ breakpointsMap'[a] =
                    [pid |-> traced_pid, name |-> pendingBreakpointsMap[i].name,
                     saved |-> saved]
  <2>1. a \in Addr /\ breakpointsMap'[a] # NoEntry
    BY DEF Placed
  <2>2. breakpointsMap[a] = NoEntry
    BY <1>2, <2>1 DEF Placed
  <2> QED
    BY <1>2, <1>3, <2>1, <2>2
<1>6. q.base = base /\ q.planted = planted /\ ~q.derailed
  BY FreshIsProcess DEF Process, Forked, Fresh
<1> HIDE DEF planted, q
<1>7. /\ proc'[traced_pid] = q
      /\ \A r \in Pids \ {traced_pid} : proc'[r] = proc[r]
  BY <1>1, <1>4
<1>8. Attached' /\ hasStarted'
  BY <1>1, <1>4 DEF Attached, hasStarted
<1>9. LaunchInv'
  <2>1. EntriesAreCurrent'
    <3>1. ASSUME NEW a \in Placed' PROVE breakpointsMap'[a].pid = traced_pid'
      <4>1. \E name, saved :
              breakpointsMap'[a] = [pid |-> traced_pid, name |-> name, saved |-> saved]
        BY <1>5
      <4> QED
        BY <1>1, <4>1
    <3> QED
      BY <3>1 DEF EntriesAreCurrent
  <2>2. NeverDerailed'
    BY <1>6, <1>7 DEF LaunchInv, NeverDerailed
  <2>3. TargetsInv'
    <3>1. ASSUME NEW a \in Placed' PROVE a \in Targets(base)
      <4>1. PICK i \in enabled : a = Real(i)
        BY <1>5
      <4>2. a \in Mapped(base)
        BY <4>1
      <4>3. pendingBreakpointsMap[i].address \in Functions \cup UserAddr
        <5>1. i \in DOMAIN pendingBreakpointsMap /\ pendingBreakpointsMap[i] \in Pending
          BY <1>1
        <5> QED
          BY <5>1 DEF Pending
      <4>4. Functions \cup UserAddr \subseteq Nat
        BY SessionAssumption
      <4> DEFINE f == pendingBreakpointsMap[i].address
      <4>5. a = f \/ a = base + f
        BY <1>4, <4>1, <4>3, <4>4 DEF RealAddr
      <4> HIDE DEF f, enabled, Real
      <4> QED
        BY <4>2, <4>3, <4>5 DEF Targets, f
    <3> QED
      BY <1>1, <1>6, <1>7, <3>1 DEF TargetsInv
  <2> QED
    BY <1>1, <1>4, <1>6, <1>7, <1>8, <2>1, <2>2, <2>3 DEF LaunchInv
<1>10. TextInv'
  BY <1>1, <1>4, <1>6, <1>7 DEF TextInv
<1>11. NamesInv'
  <2>1. ASSUME Pie, NEW a \in Placed', breakpointsMap'[a].name # 0
        PROVE  a = base + breakpointsMap'[a].name
    <3>1. PICK i \in enabled :
            /\ a = Real(i)
            /\ \E saved : breakpointsMap'[a] =
                 [pid |-> traced_pid, name |-> pendingBreakpointsMap[i].name, saved |-> saved]
      BY <1>5
    <3>2. breakpointsMap'[a].name = pendingBreakpointsMap[i].name
      BY <3>1
    <3> DEFINE f == pendingBreakpointsMap[i].name
    <3>3. i \in DOMAIN pendingBreakpointsMap /\ pendingBreakpointsMap[i] \in Pending
      BY <1>1
    <3>4. f \in Functions /\ pendingBreakpointsMap[i].address = f
      BY <2>1, <3>2, <3>3 DEF SessionInv, PendingInv, Pending, Name
    <3>5. f \in Nat /\ f < base
      BY <2>1, <3>4, SessionAssumption
    <3>6. a = base + f
      BY <1>4, <3>1, <3>4, <3>5 DEF RealAddr
    <3> QED
      BY <3>2, <3>6
  <2> QED
    BY <1>1, <1>6, <1>7, <2>1 DEF NamesInv
<1>12. AddressInv'
  BY <1>1 DEF AddressInv, AddressesMapped
<1> QED
  BY <1>9, <1>10, <1>11, <1>12

LEMMA OneLaunchNext ==
  ASSUME ~PastExit
  PROVE  SessionInv /\ OneLaunchInv /\ [Next]_vars => OneLaunchInv'
<1> SUFFICES ASSUME SessionInv, OneLaunchInv, [Next]_vars PROVE OneLaunchInv'
  OBVIOUS
<1> USE DEF SessionInv
<1>1. /\ traced_pid \in Pids /\ phase # "init" => cached_status # 0
      /\ cached_status \in Status
  BY DEF OneLaunchInv, LaunchInv, Attached, TypeOK
<1>2. ASSUME UNCHANGED <<traced, refused>>, phase \in {"prompt", "clear", "continue"},
             phase' \notin {"init", "aborted"},
             proc' \in {proc, Kill(traced_pid), Interrupt(traced_pid), Detached}
      PROVE  OneLaunchInv'
  BY <1>1, <1>2, SignalsMoveNothing, SameLaunch DEF traced
<1>3. ASSUME NEW then, Prompt, StartRun(then) PROVE OneLaunchInv'
  BY <1>2, <1>3 DEF StartRun, Prompt
<1>4. CASE \E a \in UserAddr : bpAddress(a)
  BY <1>4, BpAddressSameLaunch
<1>5. CASE \E f \in Functions : bpFunction(f)
  BY <1>5, BpFunctionSameLaunch
<1>6. CASE \E word \in OffWords : bpOffCommand(word)
  BY <1>6, BpOffSameLaunch
<1>7. CASE runCommand
  <2>1. CASE hasStarted /\ ~(isDead \/ isExiting) /\ Continue
    BY <1>1, <1>7, <2>1, Predicates, DriveSameLaunch DEF runCommand, Continue, Prompt
  <2> QED
    BY <1>3, <1>7, <2>1 DEF runCommand
<1>8. CASE restartCommand
  BY <1>3, <1>8 DEF restartCommand
<1>9. CASE stepCommand
  BY <1>1, <1>9, Predicates, DriveSameLaunch DEF stepCommand, Prompt
<1>10. CASE stopCommand
  BY <1>2, <1>10 DEF stopCommand, stopTraced, killTraced, Prompt
<1>11. CASE killCommand
  BY <1>2, <1>11 DEF killCommand, killTraced, Prompt
<1>12. CASE clearCurrentProcess
  BY <1>12, ClearSameLaunch
<1>13. CASE Fork
  BY <1>13, ForkSameLaunch
<1>14. CASE initBDD
  BY <1>14, InitBDDSameLaunch
<1>15. CASE ContinueAfterRun
  BY <1>1, <1>15, DriveSameLaunch DEF ContinueAfterRun, Continue, StatusInv
<1>16. CASE End
  BY <1>2, <1>16 DEF End, Die
<1>17. CASE KilledFromOutside
  BY <1>2, <1>17 DEF KilledFromOutside
<1>18. CASE UNCHANGED vars
  BY <1>18 DEF vars, OneLaunchInv, LaunchInv, TargetsInv, TextInv, NamesInv, AddressInv,
               AddressesMapped, EntriesAreCurrent, NeverDerailed, hasStarted, Attached,
               Placed
<1> QED
  BY <1>4, <1>5, <1>6, <1>7, <1>8, <1>9, <1>10, <1>11, <1>12, <1>13, <1>14, <1>15,
     <1>16, <1>17, <1>18
     DEF Next

THEOREM OneLaunch ==
  ASSUME ~PastExit
  PROVE  Spec => []OneLaunchInv
<1>1. SessionInv /\ OneLaunchInv /\ [Next]_vars => OneLaunchInv'
  BY OneLaunchNext
<1> QED
  BY <1>1, OneLaunchInit, SessionInvariant, PTL DEF Spec

\* The load address is that of the process being traced, through every re-run.
THEOREM BaseFollows ==
  ASSUME ~PastExit
  PROVE  Spec => []BaseIsCurrent
<1>1. OneLaunchInv => BaseIsCurrent
  BY DEF OneLaunchInv, LaunchInv, BaseIsCurrent, Live, Attached
<1> QED
  BY <1>1, OneLaunch, PTL

\* What disable() and enable() patch is the process being traced.
THEOREM EntriesFollow ==
  ASSUME ~PastExit
  PROVE  Spec => []EntriesAreCurrent
<1>1. OneLaunchInv => EntriesAreCurrent
  BY DEF OneLaunchInv, LaunchInv
<1> QED
  BY <1>1, OneLaunch, PTL

\* No process goes on behind an INT3 whose instruction it never executed.
THEOREM NoneDerails ==
  ASSUME ~PastExit
  PROVE  Spec => []NeverDerailed
<1>1. OneLaunchInv => NeverDerailed
  BY DEF OneLaunchInv, LaunchInv
<1> QED
  BY <1>1, OneLaunch, PTL

\* What the user is told before a prompt is true of the program that is there,
\* whichever launch it is and however it got there. Unambiguous is needed: behind a
\* breakpoint that is on a one-byte instruction RIP-1 tells nothing.
THEOREM NoticesAreRight ==
  ASSUME ~PastExit, Unambiguous
  PROVE  Spec => []NoticeIsRight
<1>1. SessionInv /\ OneLaunchInv => NoticeIsRight
  <2> SUFFICES ASSUME SessionInv, OneLaunchInv, Prompt, Live(traced_pid)
               PROVE  Notice = CASE proc[traced_pid].at = "exit" -> "exited"
                                 [] proc[traced_pid].at = "hit" -> "breakpoint"
                                 [] proc[traced_pid].at = "segv" -> "segfault"
                                 [] OTHER -> "none"
    BY DEF NoticeIsRight
  <2> DEFINE p == proc[traced_pid]
  <2>1. /\ traced_pid \in Pids /\ p \in Process /\ p.life = "stopped" /\ p.at # "dying"
        /\ cached_status = StatusOf(p) /\ cached_status \in Status
        /\ Traceable(p, Placed) /\ Placed \subseteq Targets(p.base)
    BY DEF SessionInv, TypeOK, StatusInv, MapInv, OneLaunchInv, LaunchInv, TargetsInv,
           Attached, Live, Prompt
  <2>2. /\ isExiting <=> p.at = "exit"
        /\ isSegfault <=> p.at = "segv"
    BY <2>1, StatusWords, WordsDiffer, Predicates DEF Leaving
  <2> HIDE DEF p
  <2>3. IsTrappedAtBreakpoint(p) <=> p.at = "hit"
    <3>1. 0 \notin Placed
      BY AddrNat DEF Placed
    <3>2. Placed \cap ShortAt(p.base) = {}
      BY <2>1 DEF Unambiguous, Traceable
    <3> QED
      BY <2>1, <3>1, <3>2 DEF IsTrappedAtBreakpoint, Traceable, Located
  <2>4. CASE p.at = "exit"
    BY <2>2, <2>4 DEF Notice, p
  <2>5. CASE p.at = "hit"
    BY <2>1, <2>2, <2>3, <2>5 DEF Notice, p
  <2>6. CASE p.at = "segv"
    BY <2>1, <2>2, <2>3, <2>6 DEF Notice, p
  <2>7. CASE p.at \notin {"exit", "hit", "segv"}
    BY <2>1, <2>2, <2>3, <2>7 DEF Notice, p
  <2> QED
    BY <2>4, <2>5, <2>6, <2>7 DEF p
<1> QED
  BY <1>1, OneLaunch, SessionInvariant, PTL

\* The map and the text of the live process agree, breakpoint by breakpoint, if none
\* is in the word that another one saved: disable() puts that whole word back.
THEOREM MapFollowsText ==
  ASSUME ~PastExit, OffWords = {}, Separated
  PROVE  Spec => []MapMatchesText
<1>1. SessionInv /\ OneLaunchInv => MapMatchesText
  BY DEF SessionInv, MapInv, Traceable, OneLaunchInv, TextInv, MapMatchesText, Live,
         Attached
<1> QED
  BY <1>1, OneLaunch, SessionInvariant, PTL

\* getFunctionPhysicalAddress is never asked about a program that is dead.
THEOREM AssertionsHold ==
  ASSUME ~PastExit, OffWords = {}
  PROVE  Spec => []NoAssertionFails
<1>1. OneLaunchInv => NoAssertionFails
  BY DEF OneLaunchInv, TextInv, NoAssertionFails
<1> QED
  BY <1>1, OneLaunch, PTL

\* A breakpoint on a function of a position independent executable is accepted and
\* is at that function, typed before the first `run' or after.
THEOREM FunctionBreakpoints ==
  ASSUME ~PastExit, Pie
  PROVE  Spec => []FunctionsAreFound
<1>1. OneLaunchInv => FunctionsAreFound
  BY DEF OneLaunchInv, NamesInv, FunctionsAreFound, Live, Attached, Runtime
<1> QED
  BY <1>1, OneLaunch, PTL

\* A breakpoint on an address of the mapping is accepted.
THEOREM AddressBreakpoints ==
  ASSUME ~PastExit, AddressesMapped
  PROVE  Spec => []ElfAddressesAreFound
<1>1. OneLaunchInv => ElfAddressesAreFound
  BY DEF OneLaunchInv, AddressInv, ElfAddressesAreFound
<1> QED
  BY <1>1, OneLaunch, PTL

-----------------------------------------------------------------------------
(* What holds when fork does not fail and nothing but the debugger kills:  *)
(* it sends no signal to a process that is gone, because each that it has  *)
(* killed is followed by the end, or by the next fork.                     *)

SignalInv ==
  /\ strays = {}
  /\ traced_pid # -1
  /\ Attached => LET p == proc[traced_pid] IN
                 /\ p.life = "killed" => force_end
                 /\ p.life = "gone" => p.at = "exit"
                 /\ p.life = "stopped" => p.at # "dying"

LEMMA SignalsGoToChildren ==
  ASSUME SessionInv, SignalInv, phase \in {"prompt", "clear", "continue"}, ~isDead
  PROVE  traced_pid \in Children
<1>1. cached_status # 0 /\ traced_pid \in Pids
  BY Predicates DEF SessionInv, TypeOK, StatusInv, SignalInv
<1>2. /\ proc[traced_pid] \in Process /\ cached_status = StatusOf(proc[traced_pid])
      /\ proc[traced_pid].life \notin {"unused", "detached"}
      /\ proc[traced_pid].life = "gone" => proc[traced_pid].at = "exit"
  BY <1>1 DEF SessionInv, TypeOK, StatusInv, EndInv, SignalInv, Attached
<1>3. proc[traced_pid].life # "gone"
  BY <1>1, <1>2, StatusWords
<1> QED
  BY <1>1, <1>2, <1>3 DEF Children, Process

LEMMA NoStrays ==
  ASSUME SessionInv, SignalInv, phase \in {"prompt", "clear", "continue"},
         stopTraced \/ killTraced \/ (~isDead /\ Signal(traced_pid))
  PROVE  strays' = {}
<1>1. strays = {}
  BY DEF SignalInv
<1>2. CASE isDead
  BY <1>1, <1>2 DEF stopTraced, killTraced
<1>3. CASE ~isDead
  BY <1>1, <1>3, SignalsGoToChildren DEF stopTraced, killTraced, Signal
<1> QED
  BY <1>2, <1>3

\* A step that leaves the traced process, or ends it with the debugger.
LEMMA SameSignals ==
  ASSUME SessionInv, SignalInv, phase # "init", traced_pid' = traced_pid, strays' = {},
         force_end => force_end',
         \/ proc' \in {proc, Interrupt(traced_pid), Detached}
         \/ proc' = Kill(traced_pid) /\ force_end'
         \/ \E p \in Pids : \E S : proc' = [proc EXCEPT ![p].planted = S]
  PROVE  SignalInv'
<1>1. proc \in [Pids -> Process]
  BY DEF SessionInv, TypeOK
<1>2. CASE traced_pid \notin Pids
  BY <1>2 DEF SignalInv, Attached
<1>3. CASE traced_pid \in Pids
  <2> DEFINE p == proc[traced_pid]
  <2>1. /\ p \in Process
        /\ p.life = "killed" => force_end
        /\ p.life = "gone" => p.at = "exit"
        /\ p.life = "stopped" => p.at # "dying"
    BY <1>1, <1>3 DEF SignalInv, Attached
  <2>2. /\ proc'[traced_pid].at = p.at
        /\ \/ proc'[traced_pid].life = p.life
           \/ proc'[traced_pid].life = "killed" /\ force_end'
           \/ proc'[traced_pid].life = "detached"
    <3>1. CASE proc' \in {proc, Interrupt(traced_pid)}
      BY <1>1, <1>3, <3>1 DEF Interrupt, Process
    <3>2. CASE proc' = Kill(traced_pid) /\ force_end'
      BY <1>1, <1>3, <3>2 DEF Kill, Process
    <3>3. CASE proc' = Detached
      BY <1>1, <1>3, <3>3, DetachedProcesses
    <3>4. CASE \E r \in Pids : \E S : proc' = [proc EXCEPT ![r].planted = S]
      BY <1>1, <1>3, <3>4 DEF Process
    <3> QED
      BY <3>1, <3>2, <3>3, <3>4
  <2> HIDE DEF p
  <2> QED
    BY <2>1, <2>2 DEF SignalInv, Attached
<1> QED
  BY <1>2, <1>3

LEMMA DriveSignals ==
  ASSUME SessionInv, SignalInv, phase \in {"prompt", "continue"}, ~force_end,
         NEW outcomes \in {Continued(proc[traced_pid]), Stepped(proc[traced_pid])},
         Drive(outcomes), UNCHANGED <<traced_pid, force_end, strays>>
  PROVE  SignalInv'
<1> USE DEF SessionInv
<1>1. traced_pid \in Pids =>
        /\ proc[traced_pid] \in Process /\ proc[traced_pid].at # "start"
        /\ proc[traced_pid].life # "killed"
        /\ proc[traced_pid].life = "stopped" => proc[traced_pid].at # "dying"
  BY DEF TypeOK, StatusInv, Attached, SignalInv
<1>2. traced_pid # -1 /\ strays' = {}
  BY DEF SignalInv
<1>3. CASE UNCHANGED proc
  BY <1>2, <1>3, SessionAssumption DEF SignalInv, Attached
<1>4. ASSUME traced_pid \in Pids, proc[traced_pid].life = "stopped",
             NEW q \in outcomes, proc' = [proc EXCEPT ![traced_pid] = q]
      PROVE  SignalInv'
  <2> DEFINE p == proc[traced_pid]
  <2>1. p \in Process /\ p.life = "stopped" /\ p.at \notin {"start", "dying"}
    BY <1>1, <1>4
  <2>2. /\ Placed \subseteq Addr /\ q \in Continued(p) \cup Stepped(p)
        /\ EntriesInv /\ Traceable(p, Placed)
    BY <1>4 DEF Placed, MapInv, Attached
  <2> HIDE DEF p
  <2>3. /\ q.life \in {"stopped", "gone"}
        /\ q.life = "gone" => Leaving(q)
        /\ q.at # "dying"
    BY <2>1, <2>2, Outcomes
  <2>4. proc'[traced_pid] = q
    BY <1>4 DEF TypeOK
  <2> QED
    BY <1>2, <2>3, <2>4 DEF SignalInv, Attached, Leaving
<1> QED
  BY <1>1, <1>2, <1>3, <1>4 DEF Drive, WaitForKilled

LEMMA SignalInvNext ==
  ASSUME ~OutsideKill, ~ForkMayFail
  PROVE  SessionInv /\ SignalInv /\ [Next]_vars => SignalInv'
<1> SUFFICES ASSUME SessionInv, SignalInv, [Next]_vars PROVE SignalInv'
  OBVIOUS
<1> USE DEF SessionInv
<1>1. strays = {} /\ proc \in [Pids -> Process]
  BY DEF SignalInv, TypeOK
<1>2. ASSUME NEW then, Prompt, StartRun(then) PROVE SignalInv'
  BY <1>1, <1>2, SameSignals DEF StartRun, traced, Prompt
<1>3. ASSUME Prompt, Continue PROVE SignalInv'
  BY <1>3, DriveSignals DEF Continue, Prompt
<1>4. ASSUME NEW requests, Prompt, KeepsTheRest, Refuse(requests) PROVE SignalInv'
  <2>1. proc' \in {proc, Detached}
    BY <1>4 DEF Refuse, Die
  <2> QED
    BY <1>1, <1>4, <2>1, SameSignals DEF KeepsTheRest, Prompt
<1>5. ASSUME NEW a, NEW name, NEW request,
             Prompt, KeepsTheRest, BreakpointAtAddress(a, name, request)
      PROVE  SignalInv'
  <2>1. CASE UNCHANGED proc
    BY <1>1, <1>5, <2>1, SameSignals DEF KeepsTheRest, Prompt
  <2>2. CASE CanPatch(a) /\ proc' = [proc EXCEPT ![traced_pid].planted = @ \cup {a}]
    <3>1. traced_pid \in Pids
      BY <2>2 DEF CanPatch
    <3> QED
      BY <1>1, <1>5, <2>2, <3>1, SameSignals DEF KeepsTheRest, Prompt
  <2> QED
    BY <1>4, <1>5, <2>1, <2>2 DEF BreakpointAtAddress
<1>6. ASSUME Prompt, Die("aborted"), KeepsTheRest PROVE SignalInv'
  BY <1>1, <1>6, SameSignals DEF Die, KeepsTheRest, Prompt
<1>7. CASE \E a \in UserAddr : bpAddress(a)
  BY <1>5, <1>7 DEF bpAddress
<1>8. CASE \E f \in Functions : bpFunction(f)
  BY <1>5, <1>6, <1>8 DEF bpFunction
<1>9. CASE \E word \in OffWords : bpOffCommand(word)
  <2>1. PICK word \in OffWords : bpOffCommand(word)
    BY <1>9
  <2>2. Prompt /\ KeepsTheRest
    BY <2>1 DEF bpOffCommand
  <2>3. ASSUME NEW a \in Placed, Lift(a) PROVE SignalInv'
    <3>1. proc' = proc \/ \E p \in Pids : \E t : proc' = [proc EXCEPT ![p].planted = t]
      BY <2>3, LiftEffect
    <3> QED
      BY <1>1, <2>2, <2>3, <3>1, SameSignals DEF Lift, KeepsTheRest, Prompt
  <2>4. \A a \in IF word = 0 THEN Placed ELSE Placed \cap {ram_start_address + word} :
          a \in Placed
    OBVIOUS
  <2> QED
    BY <1>4, <1>6, <2>1, <2>2, <2>3, <2>4 DEF bpOffCommand
<1>10. CASE runCommand
  BY <1>2, <1>3, <1>10 DEF runCommand
<1>11. CASE restartCommand
  BY <1>2, <1>11 DEF restartCommand
<1>12. CASE stepCommand
  BY <1>12, DriveSignals DEF stepCommand, Prompt
<1>13. CASE stopCommand
  <2>1. strays' = {}
    BY <1>1, <1>13, NoStrays DEF stopCommand, Prompt
  <2> QED
    BY <1>13, <2>1, SameSignals DEF stopCommand, stopTraced, killTraced, traced, Prompt
<1>14. CASE killCommand
  <2>1. strays' = {}
    BY <1>14, NoStrays DEF killCommand, Prompt
  <2> QED
    BY <1>14, <2>1, SameSignals DEF killCommand, killTraced, traced, Prompt
<1>15. CASE clearCurrentProcess
  <2>1. strays' = {}
    BY <1>15, NoStrays DEF clearCurrentProcess
  <2> QED
    BY <1>15, <2>1, SessionAssumption
       DEF clearCurrentProcess, ForgetProcess, SignalInv, Attached
<1>16. CASE Fork
  <2>1. strays' = strays /\ traced_pid' \in Pids /\ phase' = "init"
    BY <1>16 DEF Fork, Unused
  <2> QED
    BY <1>1, <2>1, SessionAssumption DEF SignalInv, Attached
<1>17. CASE initBDD
  <2>1. /\ traced_pid \in Pids /\ proc[traced_pid] = Forked
        /\ traced_pid' = traced_pid /\ strays' = strays
    BY <1>17 DEF initBDD, StatusInv
  <2>2. proc'[traced_pid].life = "stopped" /\ proc'[traced_pid].at = "exec"
    <3>1. PICK base \in Bases, addr \in Addr \cup {0} :
            LET ram == IF hasStarted THEN ram_start_address ELSE base
                Real(i) == RealAddr(pendingBreakpointsMap[i].address, ram)
                enabled == {i \in DOMAIN pendingBreakpointsMap : Real(i) \in Mapped(base)}
                planted == {Real(i) : i \in enabled}
            IN  proc' = [proc EXCEPT ![traced_pid] =
                           [[[[proc[traced_pid] EXCEPT !.base = base] EXCEPT
                             !.at = "exec"] EXCEPT !.addr = addr] EXCEPT
                             !.planted = planted]]
      BY <1>17, InitEffect, Zenon
    <3>2. \E planted :
            proc' = [proc EXCEPT ![traced_pid] =
                       [[[[proc[traced_pid] EXCEPT !.base = base] EXCEPT
                         !.at = "exec"] EXCEPT !.addr = addr] EXCEPT !.planted = planted]]
      BY <3>1
    <3> QED
      BY <1>1, <2>1, <3>2, FreshIsProcess DEF Process, Forked, Fresh
  <2> QED
    BY <1>1, <2>1, <2>2, SessionAssumption DEF SignalInv, Attached
<1>18. CASE ContinueAfterRun
  BY <1>18, DriveSignals DEF ContinueAfterRun, Continue, EndInv
<1>19. CASE End
  <2>1. strays' = {}
    BY <1>1, <1>19, NoStrays DEF End
  <2> QED
    BY <1>19, <2>1, SameSignals DEF End, Die, traced
<1>20. CASE UNCHANGED vars
  BY <1>1, <1>20 DEF vars, SignalInv, Attached
<1> QED
  BY <1>7, <1>8, <1>9, <1>10, <1>11, <1>12, <1>13, <1>14, <1>15, <1>16, <1>17, <1>18,
     <1>19, <1>20
     DEF Next, KilledFromOutside

\* Signals go to the program being traced: none to "every process", none to a pid
\* that is no longer its.
THEOREM SignalsReachTheirs ==
  ASSUME ~OutsideKill, ~ForkMayFail
  PROVE  Spec => []SignalsStayInside
<1>1. Init => SignalInv
  BY SessionAssumption DEF Init, SignalInv, Attached
<1>2. SessionInv /\ SignalInv /\ [Next]_vars => SignalInv'
  BY SignalInvNext
<1>3. SignalInv => SignalsStayInside
  BY DEF SignalInv, SignalsStayInside
<1> QED
  BY <1>1, <1>2, <1>3, SessionInvariant, PTL DEF Spec
================================================================================
