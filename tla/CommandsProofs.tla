----------------------------- MODULE CommandsProofs -----------------------------
(***************************************************************************)
(* The link between Breakpoints and Session, for every program, word size  *)
(* and choice of breakpoints: what all ptrace requests of a command do     *)
(* together is one of the outcomes that Session has for the command. No    *)
(* restriction on where the breakpoints are is needed: Session has the     *)
(* saved words that bring an INT3 back or take one away, and the hits that *)
(* RIP-1 only seems to be.                                                 *)
(***************************************************************************)
EXTENDS Commands, PromiseProofs

\* A process of Session that is on its way, field by field.
Traced(life, planted, at, addr, signal, derailed) ==
  [life |-> life, base |-> Load, planted |-> planted, at |-> at, addr |-> addr,
   sigint |-> signal, derailed |-> derailed]

\* How a process is stopped at the prompt.
Halted == {"exec", "hit", "step", "segv", "sigint", "exit"}

\* The process when the command was typed is there. An INT3 that it executed is a
\* breakpoint, and its exit is behind no breakpoint.
BeforeInv ==
  cmd # "none" =>
    /\ before = Traced("stopped", before.planted, before.at, before.addr,
                       before.sigint, FALSE)
    /\ before.sigint \in BOOLEAN
    /\ before.at \in Halted
    /\ before.at = "hit" => before.addr \in Shifted(Placed)
    /\ before.at = "exit" => before.addr \notin Shifted(Placed)

\* The text once the breakpoint that the command started at is lifted, and once it
\* is planted again.
LiftedText ==
  (before.planted \ Life!Bytes(before.addr)) \cup Shifted(Saved(before.addr - Load))

ReplantedText == LiftedText \cup {before.addr}

\* RIP-1 where the tracee is stopped by anything but an INT3.
Behind == IF GetIP \in Short THEN Load + GetIP ELSE 0

\* The same once RIP is back at the breakpoint.
RewoundTo ==
  IF before.addr - 1 \in Life!ShortAt(Load) THEN before.addr - 1 ELSE 0

\* How the step over a breakpoint may end, if a SIGINT is pending or not.
PassedAt(signal) == IF signal THEN {"sigint"} ELSE {"segv", "exit", "step"}

PassedTo(at, addr) ==
  /\ at \in PassedAt(before.sigint)
  /\ addr \in {0} \cup Life!ShortAt(Load)
  /\ at = "sigint" => addr = RewoundTo
  /\ at = "exit" => addr = 0

Passed == ~sigint /\ PassedTo(tracee, Behind)

\* What may become of a process that was stopped somehow when a request resumed it.
Going(at, addr, signal, single) ==
  \/ tracee \in {"singlestep", "cont"} /\ at # "exit" /\ sigint = signal
       /\ (signal => Behind = addr)
  \/ tracee \in {"dying", "gone"} /\ at = "exit" /\ sigint = signal /\ Behind = addr
  \/ tracee = "sigint" /\ at # "exit" /\ signal /\ ~sigint /\ Behind = addr
  \/ tracee \in {"segv", "exit"} /\ at # "exit" /\ ~signal /\ ~sigint
  \/ tracee = "int3" /\ at # "exit" /\ ~signal /\ ~sigint /\ GetIP \in Text
  \/ tracee = "step" /\ single /\ at # "exit" /\ ~signal /\ ~sigint

\* How far the command has come that started at a breakpoint.
Passing ==
  /\ dbg \in Resuming \cup {"cont"} => before.addr \in Shifted(Placed)
  /\ dbg \in Resuming => before.addr = Load + bp.address
  /\ dbg = "disable" => Shifted(Text) = before.planted
  /\ dbg \in {"rewind", "rawstep", "stepping", "enable"} => Shifted(Text) = LiftedText
  /\ dbg = "cont" => Shifted(Text) = ReplantedText
  /\ dbg \in {"disable", "rewind", "rawstep"} => sigint = before.sigint
  /\ dbg = "stepping" /\ tracee = "singlestep" => sigint = before.sigint
  /\ dbg = "stepping" /\ tracee # "singlestep" => Passed
  /\ dbg \in {"enable", "cont"} => Passed

\* The tracee behind the last request of the command.
WaitsPlainly ==
  /\ before.addr \notin Shifted(Placed)
  /\ Shifted(Text) = before.planted
  /\ Going(before.at, before.addr, before.sigint, cmd = "step")

WaitsPassed ==
  /\ before.addr \in Shifted(Placed) /\ cmd = "cont"
  /\ Shifted(Text) = ReplantedText
  /\ \E at, addr : PassedTo(at, addr) /\ Going(at, addr, FALSE, FALSE)

Waiting == dbg = "waiting" => WaitsPlainly \/ WaitsPassed

ServedInv == BeforeInv /\ Passing /\ Waiting

-----------------------------------------------------------------------------
(* Outcomes that Session has for a request to a process, and for the step  *)
(* over a breakpoint. The provers want a record's fields as constants:     *)
(* strings and numbers are given by equations.                             *)

\* A process at its exit dies when it is resumed.
LEMMA ExitResumed ==
  ASSUME NEW planted, NEW addr, NEW signal, NEW single, NEW off,
         NEW stopped, NEW exit, exit = "exit", NEW gone, gone = "gone"
  PROVE  Traced(gone, planted, exit, addr, signal, off)
           \in Life!Resume(Traced(stopped, planted, exit, addr, signal, off), single)
<1> DEFINE p == Traced(stopped, planted, exit, addr, signal, off)
           q == Traced(gone, planted, exit, addr, signal, off)
<1>1. p.at = exit
  BY DEF Traced
<1>2. [p EXCEPT !.life = gone] = q
  BY SMT DEF Traced
<1> HIDE DEF p, q
<1>3. Life!Resume(p, single) = {[p EXCEPT !.life = gone]}
  BY <1>1, Zenon DEF Life!Resume, Life!Leaving
<1>4. q \in Life!Resume(p, single)
  BY <1>2, <1>3
<1> QED
  BY <1>4 DEF p, q

\* A pending SIGINT stops the process where it is.
LEMMA SignalTaken ==
  ASSUME NEW planted, NEW at, at \notin {"hit", "exit", "dying"}, NEW addr, NEW single,
         NEW stopped, NEW sigstop, sigstop = "sigint",
         NEW on, on = TRUE, NEW off, off = FALSE
  PROVE  Traced(stopped, planted, sigstop, addr, off, off)
           \in Life!Resume(Traced(stopped, planted, at, addr, on, off), single)
<1> DEFINE p == Traced(stopped, planted, at, addr, on, off)
           q == Traced(stopped, planted, at, addr, off, off)
           r == Traced(stopped, planted, sigstop, addr, off, off)
<1>1. p.at = at /\ p.sigint = on /\ p.derailed = off
  BY DEF Traced
<1>2. [p EXCEPT !.sigint = off] = q
  BY SMT DEF Traced
<1>3. [q EXCEPT !.at = sigstop] = r
  BY SMT DEF Traced
<1>4. [r EXCEPT !.derailed = off] = r
  BY SMT DEF Traced
<1> HIDE DEF p, q, r
<1>5. ~Life!Leaving(p) /\ p.sigint
  BY <1>1 DEF Life!Leaving
<1>6. (p.derailed \/ p.at = "hit") = off
  BY <1>1
<1>7. Life!Resume(p, single) =
        {[p EXCEPT !.sigint = FALSE, !.at = "sigint",
                   !.derailed = p.derailed \/ p.at = "hit"]}
  BY <1>5, Zenon DEF Life!Resume
<1>8. r \in Life!Resume(p, single)
  BY <1>2, <1>3, <1>4, <1>6, <1>7
<1> QED
  BY <1>8 DEF p, r

\* Without one the process goes to a planted INT3, a fault or its exit, or steps.
LEMMA ResumedToStop ==
  ASSUME NEW planted, NEW at, at \notin {"hit", "exit", "dying"}, NEW addr, NEW single,
         NEW stopped, NEW off, off = FALSE,
         NEW how, NEW where,
         \/ how = "hit" /\ where \in planted
         \/ how = "exit" /\ where = 0
         \/ how = "segv" /\ where \in {0} \cup Life!ShortAt(Load)
         \/ how = "step" /\ single /\ where \in {0} \cup Life!ShortAt(Load)
  PROVE  Traced(stopped, planted, how, where, off, off)
           \in Life!Resume(Traced(stopped, planted, at, addr, off, off), single)
<1> DEFINE p == Traced(stopped, planted, at, addr, off, off)
           r == Traced(stopped, planted, how, addr, off, off)
           s == Traced(stopped, planted, how, where, off, off)
           ways == IF single THEN {"segv", "step"} ELSE {"segv"}
<1>1. /\ p.at = at /\ p.sigint = off /\ p.planted = planted /\ p.derailed = off
      /\ p.base = Load
  BY DEF Traced
<1>2. [p EXCEPT !.derailed = off] = p
  BY SMT DEF Traced
<1>3. [p EXCEPT !.at = how] = r
  BY SMT DEF Traced
<1>4. [r EXCEPT !.addr = where] = s
  BY SMT DEF Traced
<1> HIDE DEF p, r, s
<1>5. ~Life!Leaving(p) /\ ~p.sigint
  BY <1>1 DEF Life!Leaving
<1>6. (p.derailed \/ p.at = "hit") = off
  BY <1>1
<1>7. Life!Resume(p, single) = Life!Stops(p, ways)
  <2>1. Life!Resume(p, single) =
          Life!Stops([p EXCEPT !.derailed = p.derailed \/ p.at = "hit"], ways)
    BY <1>5, Zenon DEF Life!Resume
  <2> HIDE DEF ways
  <2> QED
    BY <1>2, <1>6, <2>1
<1>8. [p EXCEPT !.at = how, !.addr = where] = s
  BY <1>3, <1>4
<1>9. ASSUME how \in ways, where \in {0} \cup Life!ShortAt(Load)
      PROVE  s \in UNION {Life!Behind(p, way) : way \in ways}
  <2>1. s \in Life!Behind(p, how)
    BY <1>1, <1>8, <1>9 DEF Life!Behind
  <2> HIDE DEF ways
  <2> QED
    BY <1>9, <2>1
<1>10. s \in Life!Stops(p, ways)
  <2>1. CASE how = "hit" /\ where \in planted
    <3>1. s \in {[p EXCEPT !.at = "hit", !.addr = a] : a \in p.planted}
      BY <1>1, <1>8, <2>1
    <3> QED
      BY <3>1 DEF Life!Stops
  <2>2. CASE how = "exit" /\ where = 0
    <3>1. s = [p EXCEPT !.at = "exit", !.addr = 0]
      BY <1>8, <2>2
    <3> QED
      BY <3>1 DEF Life!Stops
  <2>3. CASE /\ how = "segv" \/ (how = "step" /\ single)
             /\ where \in {0} \cup Life!ShortAt(Load)
    <3>1. s \in UNION {Life!Behind(p, way) : way \in ways}
      BY <1>9, <2>3
    <3> HIDE DEF ways
    <3> QED
      BY <3>1 DEF Life!Stops
  <2> QED
    BY <2>1, <2>2, <2>3
<1> QED
  BY <1>7, <1>10 DEF p, s

\* The step of a process at an address that its text no longer has an INT3 at.
LEMMA SteppedFrom ==
  ASSUME NEW planted, NEW a, a \notin planted, NEW was, NEW stopped,
         NEW signal, NEW off, NEW at, at # "hit", NEW addr,
         NEW exec, exec = "exec",
         NEW back, back = IF a - 1 \in Life!ShortAt(Load) THEN a - 1 ELSE 0,
         Traced(stopped, planted, at, addr, off, off)
           \in Life!Resume(Traced(stopped, planted, exec, back, signal, off), TRUE)
  PROVE  Traced(stopped, planted, at, addr, off, off)
           \in Life!RawStep(Traced(stopped, planted, was, a, signal, off), a)
<1> DEFINE p == Traced(stopped, planted, was, a, signal, off)
           q == Traced(stopped, planted, exec, a, signal, off)
           r == Traced(stopped, planted, exec, back, signal, off)
           s == Traced(stopped, planted, at, addr, off, off)
<1>1. p.planted = planted /\ p.base = Load /\ s.at = at
  BY DEF Traced
<1>2. [p EXCEPT !.at = exec] = q
  BY SMT DEF Traced
<1>3. [q EXCEPT !.addr = back] = r
  BY SMT DEF Traced
<1>4. s \in Life!Resume(r, TRUE)
  OBVIOUS
<1> HIDE DEF p, q, r, s
<1>5. Life!Rewound(p, a) = r
  BY <1>1, <1>2, <1>3 DEF Life!Rewound
<1>6. s \in Life!RawStep(p, a)
  BY <1>1, <1>4, <1>5 DEF Life!RawStep
<1> QED
  BY <1>6 DEF p, s

\* What Session takes for the map.
Entries ==
  [a \in Shifted(Addr) |-> IF a - Load \in Placed
                           THEN [pid |-> 1, name |-> 0,
                                 saved |-> Shifted(Saved(a - Load))]
                           ELSE [pid |-> 0]]

\* Session's text, and the breakpoints in it, are those of Breakpoints.
LEMMA PlacedForLife ==
  ASSUME IInv
  PROVE  /\ Life!Placed = Shifted(Placed)
         /\ \A a \in Shifted(Placed) : /\ Entries[a].pid = 1
                                       /\ Entries[a].saved = Shifted(Saved(a - Load))
<1>1. Life!Addr = Shifted(Addr)
  <2>1. Life!Addr = Life!Mapped(Load)
    <3>1. UNION {Life!Mapped(b) : b \in {Load}} = Life!Mapped(Load)
      OBVIOUS
    <3>2. {b + a : b \in {Load}, a \in {} \cup {}} = {}
      OBVIOUS
    <3>3. Life!Addr = {} \cup (UNION {Life!Mapped(b) : b \in {Load}})
                        \cup {b + a : b \in {Load}, a \in {} \cup {}}
      BY DEF Life!Addr
    <3> QED
      BY <3>1, <3>2, <3>3
  <2>2. Life!Mapped(Load) = Load .. Load + Last
    BY LayoutAssumption DEF Life!Mapped, Load
  <2>3. \A a \in Load .. Load + Last : a - Load \in Addr /\ Load + (a - Load) = a
    BY LayoutAssumption DEF Addr, Load
  <2>4. \A a \in Addr : Load + a \in Load .. Load + Last
    BY LayoutAssumption DEF Addr, Load
  <2>5. Shifted(Addr) = Load .. Load + Last
    BY <2>3, <2>4 DEF Shifted
  <2> QED
    BY <2>1, <2>2, <2>5
<1>2. \A a \in Shifted(Addr) : a - Load \in Addr /\ Load + (a - Load) = a
  BY LayoutAssumption DEF Shifted, Addr, Load
<1>3. Placed \subseteq Addr
  BY BpAddrInText DEF Placed
<1>4. \A a \in Shifted(Addr) : a \in Shifted(Placed) <=> a - Load \in Placed
  <2>1. \A a \in Addr : (Load + a) - Load = a
    BY LayoutAssumption DEF Addr, Load
  <2> QED
    BY <1>2, <1>3, <2>1 DEF Shifted
<1>5. \A a \in Shifted(Addr) : a \in Shifted(Placed) =>
        Entries[a] = [pid |-> 1, name |-> 0, saved |-> Shifted(Saved(a - Load))]
  BY <1>4 DEF Entries
<1>6. \A a \in Shifted(Addr) : a \notin Shifted(Placed) => Entries[a] = [pid |-> 0]
  BY <1>4 DEF Entries
<1>7. Shifted(Placed) \subseteq Shifted(Addr)
  BY <1>3 DEF Shifted
<1>8. \A a \in Shifted(Addr) : a \in Shifted(Placed) <=> Entries[a] # [pid |-> 0]
  <2>1. ASSUME NEW saved PROVE [pid |-> 1, name |-> 0, saved |-> saved].pid # [pid |-> 0].pid
    OBVIOUS
  <2> QED
    BY <1>5, <1>6, <2>1
<1>9. Life!Placed = {a \in Life!Addr : Entries[a] # [pid |-> 0]}
  BY Zenon DEF Life!Placed, Life!NoEntry, Entries
<1>10. Life!Placed = Shifted(Placed)
  BY <1>1, <1>7, <1>8, <1>9
<1>11. \A a \in Shifted(Placed) : /\ Entries[a].pid = 1
                                  /\ Entries[a].saved = Shifted(Saved(a - Load))
  <2> SUFFICES ASSUME NEW a \in Shifted(Placed)
               PROVE  Entries[a].pid = 1 /\ Entries[a].saved = Shifted(Saved(a - Load))
    OBVIOUS
  <2>1. Entries[a] = [pid |-> 1, name |-> 0, saved |-> Shifted(Saved(a - Load))]
    BY <1>5, <1>7
  <2> HIDE DEF Entries
  <2> QED
    BY <2>1
<1> QED
  BY <1>10, <1>11

\* In Session, too, a process with a breakpoint behind it is stepped over it first.
LEMMA KnownToLife ==
  ASSUME IInv, NEW p, p.life = "stopped", p.addr \in Shifted(Placed)
  PROVE  /\ Life!Stepped(p) = Life!ResumeBreakpoint(p)
         /\ Life!Continued(p) = UNION {Life!Resume(r, FALSE) : r \in Life!ResumeBreakpoint(p)}
<1>1. Life!IsTrappedAtBreakpoint(p)
  BY PlacedForLife DEF Life!IsTrappedAtBreakpoint
<1> QED
  BY <1>1 DEF Life!Stepped, Life!Continued

\* In Session, too, any other process is just resumed.
LEMMA NoHitForLife ==
  ASSUME IInv, NEW p, p.addr \notin Shifted(Placed)
  PROVE  /\ Life!Stepped(p) = Life!Resume(p, TRUE)
         /\ Life!Continued(p) = Life!Resume(p, FALSE)
<1>1. ~Life!IsTrappedAtBreakpoint(p)
  BY PlacedForLife DEF Life!IsTrappedAtBreakpoint
<1> QED
  BY <1>1 DEF Life!Stepped, Life!Continued

\* What Session makes of a breakpoint: it is lifted, stepped over and planted again.
LEMMA ResumedOver ==
  ASSUME IInv, NEW planted, NEW at, at \notin {"exit", "dying"},
         NEW addr \in Shifted(Placed), NEW stopped, NEW signal, NEW off,
         NEW how, NEW where, NEW lifted,
         lifted = (planted \ Life!Bytes(addr)) \cup Shifted(Saved(addr - Load)),
         NEW again, again = lifted \cup {addr},
         Traced(stopped, lifted, how, where, off, off)
           \in Life!RawStep(Traced(stopped, lifted, at, addr, signal, off), addr)
  PROVE  Traced(stopped, again, how, where, off, off)
           \in Life!ResumeBreakpoint(Traced(stopped, planted, at, addr, signal, off))
<1> DEFINE p == Traced(stopped, planted, at, addr, signal, off)
           q == Traced(stopped, lifted, at, addr, signal, off)
           s == Traced(stopped, lifted, how, where, off, off)
           t == Traced(stopped, again, how, where, off, off)
<1>1. p.planted = planted /\ p.at = at /\ p.addr = addr /\ s.planted = lifted
  BY DEF Traced
<1>2. [p EXCEPT !.planted = lifted] = q
  BY SMT DEF Traced
<1>3. [s EXCEPT !.planted = again] = t
  BY SMT DEF Traced
<1>4. s \in Life!RawStep(q, addr)
  OBVIOUS
<1> HIDE DEF p, q, s, t
<1>5. Entries[addr].pid = 1 /\ Entries[addr].saved = Shifted(Saved(addr - Load))
  BY PlacedForLife
<1>6. Life!Disabled(p, addr) = q
  <2>1. Life!Disabled(p, addr) =
          [p EXCEPT !.planted = (p.planted \ Life!Bytes(addr)) \cup Entries[addr].saved]
    BY Zenon DEF Life!Disabled, Entries
  <2>2. (p.planted \ Life!Bytes(addr)) \cup Entries[addr].saved = lifted
    BY <1>1, <1>5, Zenon
  <2> QED
    BY <1>2, <2>1, <2>2, Zenon
<1>7. ~Life!Leaving(p)
  BY <1>1 DEF Life!Leaving
<1>8. Life!ResumeBreakpoint(p) =
        {[x EXCEPT !.planted = x.planted \cup {addr}] : x \in Life!RawStep(q, addr)}
  <2>1. Life!ResumeBreakpoint(p) =
          IF Life!Leaving(p) THEN Life!Resume(p, TRUE)
          ELSE IF Entries[p.addr].pid = 1
          THEN {[x EXCEPT !.planted = x.planted \cup {p.addr}] :
                  x \in Life!RawStep(Life!Disabled(p, p.addr), p.addr)}
          ELSE Life!RawStep(p, p.addr)
    BY Zenon DEF Life!ResumeBreakpoint, Entries
  <2>2. Entries[p.addr].pid = 1
    BY <1>1, <1>5, Zenon
  <2>3. Life!ResumeBreakpoint(p) =
          {[x EXCEPT !.planted = x.planted \cup {p.addr}] :
             x \in Life!RawStep(Life!Disabled(p, p.addr), p.addr)}
    BY <1>7, <2>1, <2>2, Zenon
  <2> QED
    BY <1>1, <1>6, <2>3, Zenon
<1>9. [s EXCEPT !.planted = s.planted \cup {addr}] = t
  BY <1>1, <1>3
<1>10. t \in Life!ResumeBreakpoint(p)
  BY <1>4, <1>8, <1>9
<1> QED
  BY <1>10 DEF p, t

\* A saved word of a breakpoint does not have its own INT3.
LEMMA LiftedIsOut ==
  ASSUME IInv, NEW addr \in Shifted(Placed), NEW planted
  PROVE  addr \notin (planted \ Life!Bytes(addr)) \cup Shifted(Saved(addr - Load))
<1>1. PICK a \in Placed : addr = Load + a
  BY DEF Shifted
<1>2. a \in Addr /\ a \in Int
  BY <1>1, BpAddrInText DEF Placed
<1>3. addr - Load = a /\ addr \in Int
  BY <1>1, <1>2 DEF Load
<1>4. addr \in Life!Bytes(addr)
  BY <1>3, LayoutAssumption DEF Life!Bytes
<1>5. a \notin Saved(a)
  BY <1>1, <1>2, EntryFacts DEF Saved
<1>6. addr \notin Shifted(Saved(a))
  <2>1. \A b \in Saved(a) : b \in Int
    BY LayoutAssumption DEF Saved, Addr
  <2> QED
    BY <1>1, <1>2, <1>5, <2>1 DEF Shifted, Load
<1> QED
  BY <1>3, <1>4, <1>6

\* A step over a breakpoint as it may end, and what the text is then.
LEMMA PassedOver ==
  ASSUME IInv, BeforeInv, cmd # "none", before.addr \in Shifted(Placed),
         NEW at, NEW addr, PassedTo(at, addr)
  PROVE  Traced("stopped", ReplantedText, at, addr, FALSE, FALSE)
           \in Life!ResumeBreakpoint(before)
<1>1. /\ before = Traced("stopped", before.planted, before.at, before.addr,
                         before.sigint, FALSE)
      /\ before.sigint \in BOOLEAN
  BY Zenon DEF BeforeInv
<1>2. before.at \notin {"exit", "dying"}
  BY DEF BeforeInv, Halted
<1>3. before.addr \notin LiftedText
  BY LiftedIsOut DEF LiftedText
<1>4. at \in PassedAt(before.sigint) /\ at # "hit"
  BY DEF PassedTo, PassedAt
<1>5. Traced("stopped", LiftedText, at, addr, FALSE, FALSE)
        \in Life!Resume(Traced("stopped", LiftedText, "exec", RewoundTo, before.sigint,
                               FALSE), TRUE)
  <2>1. CASE before.sigint = TRUE
    <3>1. at = "sigint" /\ addr = RewoundTo
      BY <1>4, <2>1 DEF PassedAt, PassedTo
    <3>2. Traced("stopped", LiftedText, "sigint", RewoundTo, FALSE, FALSE)
            \in Life!Resume(Traced("stopped", LiftedText, "exec", RewoundTo, TRUE, FALSE),
                            TRUE)
      BY SignalTaken, Zenon
    <3> QED
      BY <2>1, <3>1, <3>2, Zenon
  <2>2. CASE before.sigint = FALSE
    <3>1. \/ at = "exit" /\ addr = 0
          \/ at \in {"segv", "step"} /\ addr \in {0} \cup Life!ShortAt(Load)
      BY <1>4, <2>2 DEF PassedAt, PassedTo
    <3>2. Traced("stopped", LiftedText, at, addr, FALSE, FALSE)
            \in Life!Resume(Traced("stopped", LiftedText, "exec", RewoundTo, FALSE, FALSE),
                            TRUE)
      BY <3>1, ResumedToStop
    <3> QED
      BY <2>2, <3>2, Zenon
  <2> QED
    BY <1>1, <2>1, <2>2
<1>6. Traced("stopped", LiftedText, at, addr, FALSE, FALSE)
        \in Life!RawStep(Traced("stopped", LiftedText, before.at, before.addr,
                                before.sigint, FALSE), before.addr)
  BY <1>3, <1>4, <1>5, SteppedFrom, Zenon DEF RewoundTo
<1>7. Traced("stopped", ReplantedText, at, addr, FALSE, FALSE)
        \in Life!ResumeBreakpoint(Traced("stopped", before.planted, before.at, before.addr,
                                         before.sigint, FALSE))
  BY <1>2, <1>6, ResumedOver, Zenon DEF LiftedText, ReplantedText
<1> QED
  BY <1>1, <1>7, Zenon

-----------------------------------------------------------------------------
(* What Process says of the tracee.                                        *)

How == CASE tracee = "int3" -> "hit" [] tracee = "gone" -> "exit" [] OTHER -> tracee

Where == IF tracee = "int3" THEN Load + GetIP ELSE Behind

LEMMA ProcessByField ==
  Process = Traced(IF tracee = "gone" THEN "gone" ELSE "stopped", Shifted(Text),
                   How, Where, sigint, FALSE)
<1>1. (IF tracee = "int3" \/ GetIP \in Short THEN Load + GetIP ELSE 0) = Where
  BY DEF Where, Behind
<1> QED
  BY <1>1, Zenon DEF Process, Traced, How

\* No instruction of one byte ends where an exit system call does.
LEMMA BehindExit ==
  ASSUME IInv, tracee \in {"exit", "dying", "gone"}
  PROVE  Behind = 0
<1>1. ip - 2 \in ExitAt /\ ip \in Int
  BY DEF IInv, TypeOK, PositionInv
<1>2. (ip - 2) + 1 \notin Instr /\ (ip - 2) + 1 = ip - 1
  BY <1>1, LayoutAssumption
<1> QED
  BY <1>2 DEF Behind, GetIP, Short

LEMMA BehindTyped == Behind \in {0} \cup Life!ShortAt(Load)
  BY DEF Behind, Life!ShortAt

LEMMA ShortForLife ==
  ASSUME NEW a \in Int
  PROVE  Load + a \in Life!ShortAt(Load) <=> a \in Short
<1>1. \A o \in Short : o \in Int
  BY LayoutAssumption DEF Short, Addr
<1>2. Life!ShortAt(Load) = {Load + o : o \in Short}
  BY Zenon DEF Life!ShortAt
<1> QED
  BY <1>1, <1>2 DEF Load

\* Before a command RIP-1 has a breakpoint exactly if Session thinks so.
LEMMA TrappedForLife ==
  ASSUME IInv, tracee \in Stopped, dbg = "idle"
  PROVE  /\ IsTrappedAtBreakpoint <=> Where \in Shifted(Placed)
         /\ IsTrappedAtBreakpoint => Where = Load + GetIP
         /\ tracee = "int3" => IsTrappedAtBreakpoint
<1>1. ip \in Int /\ GetIP \in Int /\ Load \in Int
  BY DEF IInv, TypeOK, GetIP, Load
<1>2. \A a \in Placed : a \in Int /\ a \in Nat /\ a \in Instr
  BY BpAddrInText, LayoutAssumption DEF Placed, Addr
<1>3. IsTrappedAtBreakpoint <=> GetIP \in Placed
  BY DEF IsTrappedAtBreakpoint, Contains, Placed
<1>4. Load + GetIP \in Shifted(Placed) <=> GetIP \in Placed
  BY <1>1, <1>2 DEF Shifted
<1>5. 0 \notin Shifted(Placed)
  BY <1>2 DEF Shifted, Load
<1>6. tracee = "int3" => IsTrappedAtBreakpoint
  BY <1>3 DEF IInv, PositionInv, GetIP
<1>7. IsTrappedAtBreakpoint /\ tracee # "int3" => GetIP \in Short
  <2> SUFFICES ASSUME IsTrappedAtBreakpoint, tracee # "int3"
               PROVE  GetIP \in Short
    OBVIOUS
  <2>1. tracee \notin {"exit", "dying", "gone"}
    BY HitNotAtExit DEF IsTrappedAtBreakpoint, GetIP
  <2>2. ip \in Instr
    BY <2>1 DEF IInv, PositionInv, Stopped
  <2>3. GetIP \in Instr /\ GetIP + 1 = ip
    BY <1>1, <1>2, <1>3 DEF GetIP
  <2> QED
    BY <2>2, <2>3 DEF Short
<1> QED
  BY <1>3, <1>4, <1>5, <1>6, <1>7 DEF Where, Behind

-----------------------------------------------------------------------------
(* How far the command has come is an invariant.                           *)

StepInv ==
  /\ IInv
  /\ CommandInv
  /\ SingleStepInv

LEMMA StepInvInductive ==
  /\ Init => StepInv
  /\ StepInv /\ [Next]_vars => StepInv'
<1>1. Init => StepInv
  BY InitIInv, CommandInvInductive, SingleStepInvInductive DEF StepInv
<1>2. StepInv /\ [Next]_vars => StepInv'
  BY NextIInv, CommandInvInductive, SingleStepInvInductive DEF StepInv
<1> QED
  BY <1>1, <1>2

LEMMA InitServed == Init => ServedInv
  BY DEF Init, ServedInv, BeforeInv, Passing, Waiting, Resuming

\* A command that only sets a breakpoint or asks for a stop ends as it starts.
LEMMA AtPromptServed ==
  ASSUME dbg' = "idle", cmd' = "none"
  PROVE  ServedInv'
  BY DEF ServedInv, BeforeInv, Passing, Waiting, Resuming

\* `step' and `run' start with the process as the user saw it.
LEMMA ResumeServed ==
  ASSUME StepInv, PtraceStep \/ PtraceContinue, before' = Process
  PROVE  ServedInv'
<1>1. /\ dbg = "idle" /\ tracee # "gone" /\ tracee \in Stopped
      /\ UNCHANGED <<mem, ip, breakpointsMap, sigint>>
      /\ IInv
      /\ sigint \in BOOLEAN
  <2>1. /\ dbg = "idle" /\ tracee # "gone"
        /\ UNCHANGED <<mem, ip, breakpointsMap, sigint>>
    BY DEF PtraceStep, PtraceContinue
  <2>2. IInv /\ tracee \in Stopped
    BY <2>1 DEF StepInv, IInv, PhaseInv
  <2>3. sigint \in BOOLEAN
    BY <2>2, Zenon DEF IInv, TypeOK
  <2> QED
    BY <2>1, <2>2, <2>3
<1>2. Shifted(Placed)' = Shifted(Placed) /\ Shifted(Text)' = Shifted(Text) /\ Behind' = Behind
  BY <1>1 DEF Placed, Shifted, Text, Behind, GetIP
<1>3. before' = Traced("stopped", Shifted(Text), How, Where, sigint, FALSE)
  BY <1>1, ProcessByField, Zenon
<1>4. /\ before'.at = How /\ before'.addr = Where /\ before'.sigint = sigint
      /\ before'.planted = Shifted(Text)
  BY <1>3 DEF Traced
<1>5. /\ IsTrappedAtBreakpoint <=> Where \in Shifted(Placed)
      /\ IsTrappedAtBreakpoint => Where = Load + GetIP
      /\ tracee = "int3" => IsTrappedAtBreakpoint
  BY <1>1, TrappedForLife
<1>6. tracee = "int3" => How = "hit"
  BY DEF How
<1>7. tracee # "int3" => How = tracee /\ How \in {"exec", "step", "segv", "sigint", "exit"}
                         /\ Where = Behind
  BY <1>1 DEF Stopped, How, Where
<1>8. BeforeInv'
  <2>1. before' = Traced("stopped", before.planted, before.at, before.addr,
                         before.sigint, FALSE)'
    BY <1>3, <1>4, Zenon DEF Traced
  <2>2. before'.sigint \in BOOLEAN
    BY <1>1, <1>4, Zenon
  <2>3. before'.at \in Halted
    BY <1>4, <1>6, <1>7 DEF Halted
  <2>4. before'.at = "hit" => before'.addr \in Shifted(Placed)'
    BY <1>2, <1>4, <1>5, <1>7
  <2>5. before'.at = "exit" => before'.addr \notin Shifted(Placed)'
    <3>1. tracee = "exit" => ~IsTrappedAtBreakpoint
      BY <1>1, HitNotAtExit DEF IsTrappedAtBreakpoint, GetIP
    <3> QED
      BY <1>2, <1>4, <1>5, <1>6, <1>7, <3>1
  <2> QED
    BY <2>1, <2>2, <2>3, <2>4, <2>5, Zenon DEF BeforeInv
<1>9. sigint' = before'.sigint
  BY <1>1, <1>4, Zenon
<1>10. CASE IsTrappedAtBreakpoint
  <2>1. dbg' = "disable" /\ bp' = breakpointsMap[GetIP]
    BY <1>10 DEF PtraceStep, PtraceContinue, GetHitBreakpoint
  <2>2. before'.addr = Load + bp'.address
    <3>1. GetIP \in Placed
      BY <1>10 DEF IsTrappedAtBreakpoint, Contains, Placed
    <3>2. bp'.address = GetIP
      BY <1>1, <2>1, <3>1, EntryFacts
    <3> QED
      BY <1>4, <1>5, <1>10, <3>2
  <2>3. before'.addr \in Shifted(Placed)' /\ Shifted(Text)' = before'.planted
    BY <1>2, <1>4, <1>5, <1>10
  <2>4. Passing'
    BY <1>9, <2>1, <2>2, <2>3 DEF Passing, Resuming
  <2>5. Waiting'
    BY <2>1 DEF Waiting
  <2> QED
    BY <1>8, <2>4, <2>5 DEF ServedInv
<1>11. CASE ~IsTrappedAtBreakpoint
  <2>1. /\ dbg' = "waiting" /\ before'.at = tracee
        /\ before'.addr = Behind'
        /\ \/ tracee = "exit" /\ tracee' = "dying"
           \/ tracee # "exit" /\ tracee' \in {"singlestep", "cont"}
    BY <1>2, <1>4, <1>5, <1>7, <1>11 DEF PtraceStep, PtraceContinue, Resume
  <2>2. Passing'
    BY <2>1 DEF Passing, Resuming
  <2>3. Going(before.at, before.addr, before.sigint, cmd = "step")'
    BY <1>9, <2>1 DEF Going
  <2>4. WaitsPlainly'
    BY <1>2, <1>4, <1>5, <1>11, <2>3 DEF WaitsPlainly
  <2>5. Waiting'
    BY <2>4 DEF Waiting
  <2> QED
    BY <1>8, <2>2, <2>5 DEF ServedInv
<1> QED
  BY <1>10, <1>11

\* The requests and the tracee's moves in between leave the history and the map alone.
LEMMA BeforeKept ==
  ASSUME BeforeInv, UNCHANGED <<before, breakpointsMap>>, cmd' # "none" => cmd # "none"
  PROVE  /\ BeforeInv'
         /\ Shifted(Placed)' = Shifted(Placed)
         /\ LiftedText' = LiftedText
         /\ ReplantedText' = ReplantedText
         /\ RewoundTo' = RewoundTo
         /\ before' = before
<1>1. Placed' = Placed /\ Shifted(Placed)' = Shifted(Placed)
  BY DEF Placed, Shifted
<1>2. BeforeInv'
  <2>1. CASE cmd' = "none"
    BY <2>1 DEF BeforeInv
  <2>2. CASE cmd # "none"
    BY <1>1, <2>2, Zenon DEF BeforeInv, Traced
  <2> QED
    BY <2>1, <2>2
<1>3. LiftedText' = LiftedText
  BY Zenon DEF LiftedText, Life!Bytes, Shifted, Saved
<1>4. ReplantedText' = ReplantedText
  BY <1>3 DEF ReplantedText
<1>5. RewoundTo' = RewoundTo
  BY Zenon DEF RewoundTo, Life!ShortAt
<1> QED
  BY <1>1, <1>2, <1>3, <1>4, <1>5

\* The saved word is put back.
LEMMA TextLifted ==
  ASSUME StepInv, ServedInv, ResumeDisable
  PROVE  Shifted(Text)' = LiftedText
<1>1. /\ dbg = "disable" /\ Poke(bp.address, bp.original)
      /\ IInv /\ mem \in [Addr -> Byte]
  BY DEF ResumeDisable, StepInv, IInv, TypeOK
<1> DEFINE a == bp.address
           word == breakpointsMap[a].original
<1>2. a \in Placed /\ bp = breakpointsMap[a]
  BY <1>1 DEF IInv, EntriesInv, Resuming
<1>3. a \in BpAddr /\ a \in Int /\ word \in Word /\ bp.original = word
  BY <1>1, <1>2, EntryFacts, BpAddrInText
<1>4. before.addr = Load + a /\ before.planted = Shifted(Text)
  BY <1>1 DEF ServedInv, Passing, Resuming
<1>5. \A b \in Addr : mem'[b] = IF b - a \in Offset THEN word[b - a] ELSE mem[b]
  BY <1>1, <1>3, PokeText
<1> HIDE DEF a, word
<1>6. Text' = {b \in Text : b - a \notin Offset} \cup Saved(a)
  BY <1>5 DEF Text, Saved, word
<1>7. before.addr - Load = a
  BY <1>3, <1>4 DEF Load
<1>8. \A b \in Addr : Load + b \in Life!Bytes(before.addr) <=> b - a \in Offset
  BY <1>3, <1>4, LayoutAssumption DEF Life!Bytes, Offset, Addr, Load
<1>9. Shifted({b \in Text : b - a \notin Offset}) = Shifted(Text) \ Life!Bytes(before.addr)
  BY <1>8 DEF Shifted, Text
<1>10. Shifted({b \in Text : b - a \notin Offset} \cup Saved(a))
         = Shifted({b \in Text : b - a \notin Offset}) \cup Shifted(Saved(a))
  BY DEF Shifted
<1>11. Shifted(Text)' = Shifted(Text')
  BY DEF Shifted
<1> QED
  BY <1>4, <1>6, <1>7, <1>9, <1>10, <1>11 DEF LiftedText

\* The INT3 is put back.
LEMMA TextReplanted ==
  ASSUME StepInv, ServedInv, ResumeEnable
  PROVE  Shifted(Text)' = ReplantedText
<1>1. /\ dbg = "enable" /\ Poke(bp.address, Trapping(Peek(bp.address)))
      /\ IInv /\ mem \in [Addr -> Byte]
  BY DEF ResumeEnable, StepInv, IInv, TypeOK
<1> DEFINE a == bp.address
<1>2. a \in BpAddr /\ a \in Addr
  BY <1>1, PlacedTyped, BpAddrInText DEF IInv, EntriesInv, Resuming
<1>3. before.addr = Load + a /\ Shifted(Text) = LiftedText
  BY <1>1 DEF ServedInv, Passing, Resuming
<1>4. mem'[a] = "INT3" /\ \A b \in Addr : b # a => mem'[b] = mem[b]
  BY <1>1, <1>2, PlantText
<1> HIDE DEF a
<1>5. Text' = Text \cup {a}
  BY <1>2, <1>4 DEF Text
<1>6. Shifted(Text \cup {a}) = Shifted(Text) \cup {Load + a}
  BY DEF Shifted
<1>7. Shifted(Text)' = Shifted(Text')
  BY DEF Shifted
<1> QED
  BY <1>3, <1>5, <1>6, <1>7 DEF ReplantedText

LEMMA DebuggerServed ==
  ASSUME StepInv, ServedInv, Debugger, UNCHANGED before
  PROVE  ServedInv'
<1>1. /\ UNCHANGED <<before, breakpointsMap>>
      /\ cmd' \in {cmd, "none"} /\ (cmd' # "none" => cmd # "none")
  BY DEF Debugger, ResumeDisable, PtraceBackwardStep, PtraceRawStep, ResumeEnable,
         ResumeContinue, WaitAndUpdateStatus
<1>2. /\ BeforeInv'
      /\ Shifted(Placed)' = Shifted(Placed)
      /\ LiftedText' = LiftedText /\ ReplantedText' = ReplantedText
      /\ RewoundTo' = RewoundTo /\ before' = before
  BY <1>1, BeforeKept DEF ServedInv
<1>3. sigint' = sigint
  BY Zenon DEF Debugger, ResumeDisable, PtraceBackwardStep, PtraceRawStep, ResumeEnable,
         ResumeContinue, WaitAndUpdateStatus
<1>4. ASSUME UNCHANGED <<ip, tracee, sigint>>, Passed PROVE Passed'
  BY <1>2, <1>4 DEF Passed, PassedTo, Behind, GetIP
<1>5. ASSUME UNCHANGED mem PROVE Shifted(Text)' = Shifted(Text)
  BY <1>5 DEF Shifted, Text
<1>6. Passing' /\ Waiting'
  <2>1. CASE ResumeDisable
    <3>1. /\ dbg = "disable" /\ dbg' = "rewind" /\ bp' = bp
      BY <2>1 DEF ResumeDisable
    <3>2. Shifted(Text)' = LiftedText'
      BY <1>2, <2>1, TextLifted
    <3> QED
      BY <1>2, <1>3, <3>1, <3>2 DEF ServedInv, Passing, Waiting, Resuming
  <2>2. CASE PtraceBackwardStep
    <3>1. /\ dbg = "rewind" /\ dbg' = "rawstep" /\ bp' = bp /\ UNCHANGED mem
      BY <2>2 DEF PtraceBackwardStep
    <3> QED
      BY <1>2, <1>3, <1>5, <3>1 DEF ServedInv, Passing, Waiting, Resuming
  <2>3. CASE PtraceRawStep
    <3>1. /\ dbg = "rawstep" /\ dbg' = "stepping" /\ bp' = bp /\ UNCHANGED mem
          /\ tracee' = "singlestep"
      BY <2>3 DEF PtraceRawStep, Resume, StepInv, IInv, PhaseInv
    <3> QED
      BY <1>2, <1>3, <1>5, <3>1 DEF ServedInv, Passing, Waiting, Resuming
  <2>4. CASE ResumeEnable
    <3>1. /\ dbg = "enable" /\ UNCHANGED <<ip, tracee, sigint>>
          /\ \/ dbg' = "idle" /\ cmd' = "none"
             \/ dbg' = "cont" /\ cmd' = cmd
      BY <2>4 DEF ResumeEnable
    <3>2. dbg' = "idle" => Passing' /\ Waiting'
      BY DEF Passing, Waiting, Resuming
    <3>3. Shifted(Text)' = ReplantedText'
      BY <1>2, <2>4, TextReplanted
    <3>4. Passed'
      BY <1>4, <3>1 DEF ServedInv, Passing
    <3>5. dbg' = "cont" => Passing' /\ Waiting'
      BY <1>2, <3>1, <3>3, <3>4 DEF ServedInv, Passing, Waiting, Resuming
    <3> QED
      BY <3>1, <3>2, <3>5
  <2>5. CASE ResumeContinue
    <3>1. /\ dbg = "cont" /\ dbg' = "waiting" /\ cmd' = cmd /\ cmd = "cont"
          /\ tracee' = IF tracee = "exit" THEN "dying" ELSE "cont"
          /\ UNCHANGED <<mem, ip>>
      BY <2>5 DEF ResumeContinue, Resume, StepInv, CommandInv
    <3>2. /\ ~sigint /\ PassedTo(tracee, Behind)
          /\ before.addr \in Shifted(Placed)
          /\ Shifted(Text) = ReplantedText
      BY <3>1 DEF ServedInv, Passing, Passed
    <3>3. PICK at, addr : at = tracee /\ addr = Behind
      OBVIOUS
    <3>4. Going(at, addr, FALSE, FALSE)'
      <4>1. ~sigint' /\ sigint' = FALSE
        BY <1>3, <3>2, Zenon DEF StepInv, IInv, TypeOK
      <4>2. Behind' = Behind
        BY <3>1 DEF Behind, GetIP
      <4>3. tracee = "exit" => Behind = 0 /\ tracee' = "dying"
        BY <3>1, BehindExit DEF StepInv
      <4> QED
        BY <3>1, <3>3, <4>1, <4>2, <4>3 DEF Going
    <3>5. PassedTo(at, addr)'
      BY <1>2, <3>2, <3>3 DEF PassedTo
    <3>6. WaitsPassed'
      BY <1>2, <1>5, <3>1, <3>2, <3>4, <3>5 DEF WaitsPassed
    <3>7. Passing'
      BY <1>2, <3>1, <3>2 DEF Passing, Resuming
    <3> QED
      BY <3>6, <3>7 DEF Waiting
  <2>6. CASE WaitAndUpdateStatus
    <3>1. /\ UNCHANGED <<ip, tracee, sigint, mem, bp>> /\ tracee \in Stopped
          /\ \/ dbg = "stepping" /\ dbg' = "enable"
             \/ dbg' = "idle"
      BY <2>6 DEF WaitAndUpdateStatus
    <3>2. dbg' = "idle" => Passing' /\ Waiting'
      BY DEF Passing, Waiting, Resuming
    <3>3. dbg' = "enable" => Passing' /\ Waiting'
      <4> SUFFICES ASSUME dbg' = "enable" PROVE Passing' /\ Waiting'
        OBVIOUS
      <4>1. dbg = "stepping" /\ tracee # "singlestep"
        BY <3>1 DEF Stopped
      <4>2. Passed'
        BY <1>4, <3>1, <4>1 DEF ServedInv, Passing
      <4> QED
        BY <1>2, <1>5, <3>1, <4>1, <4>2 DEF ServedInv, Passing, Waiting, Resuming
    <3> QED
      BY <3>1, <3>2, <3>3
  <2> QED
    BY <2>1, <2>2, <2>3, <2>4, <2>5, <2>6 DEF Debugger
<1> QED
  BY <1>2, <1>6 DEF ServedInv

LEMMA TraceeServed ==
  ASSUME StepInv, ServedInv, Tracee, UNCHANGED before
  PROVE  ServedInv'
<1>1. /\ UNCHANGED <<mem, breakpointsMap, cmd, dbg, bp>>
      /\ tracee \in Running
  BY DEF Tracee, TakeSignal, Execute, Trap, Fault, ExitEvent, Die, Alive, Running
<1>2. /\ BeforeInv'
      /\ Shifted(Placed)' = Shifted(Placed)
      /\ LiftedText' = LiftedText /\ ReplantedText' = ReplantedText
      /\ RewoundTo' = RewoundTo /\ before' = before
  BY <1>1, BeforeKept DEF ServedInv
<1>3. Shifted(Text)' = Shifted(Text)
  BY <1>1 DEF Shifted, Text
<1>4. /\ dbg = "waiting" \/ (dbg = "stepping" /\ tracee = "singlestep")
      /\ dbg = "stepping" => tracee' # "int3"
      /\ StepInv'
  <2>1. dbg = "waiting" \/ (dbg = "stepping" /\ tracee = "singlestep")
    BY <1>1, RunningWaits DEF StepInv
  <2>2. StepInv'
    BY StepInvInductive DEF Next
  <2>3. dbg = "stepping" => tracee' # "int3"
    BY <1>1, <2>2 DEF StepInv, IInv, PhaseInv
  <2> QED
    BY <2>1, <2>2, <2>3
<1>5. \/ Alive /\ sigint /\ ~sigint' /\ tracee' = "sigint" /\ ip' = ip
      \/ Alive /\ ~sigint /\ ~sigint' /\ tracee' \in {"segv", "exit"}
      \/ Alive /\ ~sigint /\ ~sigint' /\ tracee' = "int3" /\ mem[ip] = "INT3"
           /\ ip \in Addr /\ ip' = ip + 1
      \/ tracee = "singlestep" /\ ~sigint /\ ~sigint' /\ tracee' = "step"
      \/ tracee = "cont" /\ ~sigint /\ ~sigint' /\ tracee' = "cont"
      \/ tracee = "dying" /\ tracee' = "gone" /\ sigint' = sigint /\ ip' = ip
  BY Zenon DEF Tracee, TakeSignal, Execute, Trap, Fault, ExitEvent, Die, Alive
<1>6. ip' = ip => Behind' = Behind
  BY DEF Behind, GetIP
<1>7. tracee' = "exit" => Behind' = 0
  <2>1. (IInv /\ tracee \in {"exit", "dying", "gone"} => Behind = 0)'
    BY BehindExit, PTL
  <2> QED
    BY <1>4, <2>1 DEF StepInv
<1>8. (Behind \in {0} \cup Life!ShortAt(Load))'
  BY BehindTyped, PTL
<1>9. CASE dbg = "stepping"
  <2>1. /\ tracee = "singlestep" /\ sigint = before.sigint
    BY <1>4, <1>9 DEF ServedInv, Passing
  <2>2. before.addr \in Shifted(Placed) /\ before.addr = Load + bp.address
    BY <1>9 DEF ServedInv, Passing, Resuming
  <2>3. bp.address = ip /\ ip \in Int
    BY <1>9, <2>1 DEF StepInv, IInv, TypeOK, PositionInv, Lifted
  <2>4. Behind = RewoundTo
    <3>1. ip - 1 \in Int /\ before.addr - 1 = Load + (ip - 1)
      BY <2>2, <2>3 DEF Load
    <3>2. Load + (ip - 1) \in Life!ShortAt(Load) <=> ip - 1 \in Short
      BY <3>1, ShortForLife
    <3> QED
      BY <3>1, <3>2 DEF Behind, RewoundTo, GetIP
  <2>5. \/ sigint /\ ~sigint' /\ tracee' = "sigint" /\ Behind' = RewoundTo
        \/ ~sigint /\ ~sigint' /\ tracee' \in {"segv", "exit", "step"}
    BY <1>4, <1>5, <1>6, <1>9, <2>1, <2>4
  <2>6. ~sigint' /\ PassedAt(before.sigint)' = PassedAt(sigint)
    BY <1>2, <2>1, <2>5 DEF PassedAt
  <2>7. tracee' \in PassedAt(sigint)
    BY <2>5 DEF PassedAt
  <2>8. tracee' = "sigint" => Behind' = RewoundTo
    BY <2>5
  <2>9. Passed'
    BY <1>2, <1>7, <1>8, <2>6, <2>7, <2>8 DEF Passed, PassedTo
  <2>10. tracee' # "singlestep"
    BY <2>5
  <2>11. Passing' /\ Waiting'
    BY <1>1, <1>2, <1>3, <1>9, <2>2, <2>9, <2>10
    DEF ServedInv, Passing, Waiting, Resuming
  <2> QED
    BY <1>2, <2>11 DEF ServedInv
<1>10. CASE dbg = "waiting"
  <2>1. Passing'
    BY <1>1, <1>10 DEF Passing, Resuming
  <2>2. ASSUME NEW at, NEW addr, NEW signal \in BOOLEAN, NEW single \in BOOLEAN,
               Going(at, addr, signal, single), tracee = "singlestep" => single
        PROVE  Going(at, addr, signal, single)'
    <3>1. \/ Alive /\ at # "exit" /\ sigint = signal /\ (signal => Behind = addr)
          \/ tracee = "dying" /\ at = "exit" /\ sigint = signal /\ Behind = addr
      BY <1>1, <2>2 DEF Going, Alive, Running
    <3>2. sigint \in BOOLEAN /\ sigint' \in BOOLEAN
      BY <1>4, Zenon DEF StepInv, IInv, TypeOK
    <3>3. ~sigint /\ ~sigint' /\ sigint = signal => sigint' = signal /\ ~signal
      <4>1. \A a, b, c \in BOOLEAN : ~a /\ ~b /\ a = c => b = c /\ ~c
        OBVIOUS
      <4> QED
        BY <3>2, <4>1, Zenon
    <3>4. CASE Alive /\ sigint /\ ~sigint' /\ tracee' = "sigint" /\ ip' = ip
      BY <1>6, <3>1, <3>4 DEF Going, Alive
    <3>5. CASE Alive /\ ~sigint /\ ~sigint' /\ tracee' \in {"segv", "exit"}
      BY <3>1, <3>3, <3>5 DEF Going, Alive
    <3>6. CASE Alive /\ ~sigint /\ ~sigint' /\ tracee' = "int3" /\ mem[ip] = "INT3"
                 /\ ip \in Addr /\ ip' = ip + 1
      <4>1. GetIP' = ip
        BY <3>6 DEF GetIP, Addr
      <4>2. GetIP' \in Text'
        BY <1>1, <3>6, <4>1 DEF Text
      <4> QED
        BY <3>1, <3>3, <3>6, <4>2 DEF Going, Alive
    <3>7. CASE tracee = "singlestep" /\ ~sigint /\ ~sigint' /\ tracee' = "step"
      BY <2>2, <3>1, <3>3, <3>7 DEF Going
    <3>8. CASE tracee = "cont" /\ ~sigint /\ ~sigint' /\ tracee' = "cont"
      BY <3>1, <3>3, <3>8 DEF Going, Alive
    <3>9. CASE tracee = "dying" /\ tracee' = "gone" /\ sigint' = sigint /\ ip' = ip
      BY <1>6, <3>1, <3>9 DEF Going, Alive
    <3> QED
      BY <1>5, <3>4, <3>5, <3>6, <3>7, <3>8, <3>9
  <2>3. tracee = "singlestep" => cmd = "step"
    BY <1>10 DEF StepInv, SingleStepInv
  <2>4. before.sigint \in BOOLEAN
    BY <1>10 DEF ServedInv, BeforeInv, StepInv, CommandInv
  <2>5. CASE WaitsPlainly
    <3>1. Going(before.at, before.addr, before.sigint, cmd = "step")'
      BY <1>1, <1>2, <2>2, <2>3, <2>4, <2>5 DEF WaitsPlainly
    <3>2. WaitsPlainly'
      BY <1>2, <1>3, <2>5, <3>1 DEF WaitsPlainly
    <3> QED
      BY <1>2, <2>1, <3>2 DEF ServedInv, Waiting
  <2>6. CASE WaitsPassed
    <3>1. PICK at, addr : PassedTo(at, addr) /\ Going(at, addr, FALSE, FALSE)
      BY <2>6 DEF WaitsPassed
    <3>2. cmd = "cont"
      BY <2>6 DEF WaitsPassed
    <3>3. Going(at, addr, FALSE, FALSE)'
      BY <2>2, <2>3, <3>1, <3>2
    <3>4. PassedTo(at, addr)'
      BY <1>2, <3>1 DEF PassedTo
    <3>5. WaitsPassed'
      BY <1>1, <1>2, <1>3, <2>6, <3>3, <3>4 DEF WaitsPassed
    <3> QED
      BY <1>2, <2>1, <3>5 DEF ServedInv, Waiting
  <2> QED
    BY <1>10, <2>5, <2>6 DEF ServedInv, Waiting
<1> QED
  BY <1>4, <1>9, <1>10

LEMMA ServedInductive ==
  /\ CommandInit => StepInv /\ ServedInv
  /\ StepInv /\ ServedInv /\ [CommandNext]_commandVars => StepInv' /\ ServedInv'
<1>1. CommandInit => StepInv /\ ServedInv
  BY InitServed, StepInvInductive DEF CommandInit
<1>2. ASSUME StepInv, ServedInv, [CommandNext]_commandVars
      PROVE  StepInv' /\ ServedInv'
  <2>1. [Next]_vars
    BY <1>2 DEF CommandNext, Next, commandVars
  <2>2. StepInv'
    BY <1>2, <2>1, StepInvInductive
  <2>3. ServedInv'
    <3>1. CASE Command /\ before' = Process
      <4>1. CASE PtraceStep \/ PtraceContinue
        BY <1>2, <3>1, <4>1, ResumeServed
      <4>2. CASE ~(PtraceStep \/ PtraceContinue)
        <5>1. dbg' = "idle"
          BY <3>1, <4>2 DEF Command, BreakpointAtAddress, DisableBreakpointAtAddress,
             StopTraced, CommandOnGone, vars
        <5> QED
          BY <2>2, <5>1, AtPromptServed DEF StepInv, CommandInv
      <4> QED
        BY <4>1, <4>2
    <3>2. CASE Debugger /\ UNCHANGED before
      BY <1>2, <3>2, DebuggerServed
    <3>3. CASE Tracee /\ UNCHANGED before
      BY <1>2, <3>3, TraceeServed
    <3>4. CASE UNCHANGED commandVars
      <4>1. UNCHANGED <<mem, ip, tracee, breakpointsMap, dbg, cmd, bp, sigint, before>>
        BY <3>4 DEF commandVars, vars
      <4>2. /\ BeforeInv'
            /\ Shifted(Placed)' = Shifted(Placed)
            /\ LiftedText' = LiftedText /\ ReplantedText' = ReplantedText
            /\ RewoundTo' = RewoundTo /\ before' = before
        BY <1>2, <4>1, BeforeKept DEF ServedInv
      <4>3. Shifted(Text)' = Shifted(Text) /\ Behind' = Behind /\ GetIP' = GetIP /\ Text' = Text
        BY <4>1 DEF Shifted, Text, Behind, GetIP
      <4>4. Passed' = Passed
        BY <4>1, <4>2, <4>3 DEF Passed, PassedTo
      <4>5. Passing'
        BY <1>2, <4>1, <4>2, <4>3, <4>4 DEF ServedInv, Passing
      <4>6. ASSUME NEW at, NEW addr, NEW signal, NEW single
            PROVE  /\ Going(at, addr, signal, single) => Going(at, addr, signal, single)'
                   /\ PassedTo(at, addr) => PassedTo(at, addr)'
        BY <4>1, <4>2, <4>3 DEF Going, PassedTo
      <4>7. WaitsPlainly => WaitsPlainly'
        BY <4>1, <4>2, <4>3, <4>6 DEF WaitsPlainly
      <4>8. WaitsPassed => WaitsPassed'
        BY <4>1, <4>2, <4>3, <4>6 DEF WaitsPassed
      <4> QED
        BY <1>2, <4>1, <4>2, <4>5, <4>7, <4>8 DEF ServedInv, Waiting
    <3> QED
      BY <1>2, <3>1, <3>2, <3>3, <3>4 DEF CommandNext
  <2> QED
    BY <2>2, <2>3
<1> QED
  BY <1>1, <1>2

-----------------------------------------------------------------------------
(* What the command leaves behind.                                         *)

\* A request that resumed a process, once waitpid has returned.
LEMMA GoneWell ==
  ASSUME StepInv, tracee \in Stopped,
         NEW at, at \notin {"hit", "dying"}, NEW addr,
         NEW signal \in BOOLEAN, NEW single \in BOOLEAN,
         Going(at, addr, signal, single)
  PROVE  Process \in Life!Resume(Traced("stopped", Shifted(Text), at, addr, signal, FALSE),
                                 single)
<1>1. Process = Traced(IF tracee = "gone" THEN "gone" ELSE "stopped", Shifted(Text),
                       How, Where, sigint, FALSE)
  BY ProcessByField
<1>2. sigint \in BOOLEAN
  BY Zenon DEF StepInv, IInv, TypeOK
<1>3. CASE tracee = "gone"
  <2>1. at = "exit" /\ sigint = signal /\ Behind = addr
    BY <1>3 DEF Going
  <2>2. How = "exit" /\ Where = addr
    BY <1>3, <2>1 DEF How, Where
  <2>3. Process = Traced("gone", Shifted(Text), "exit", addr, signal, FALSE)
    BY <1>1, <1>3, <2>1, <2>2, Zenon
  <2> QED
    BY <2>1, <2>3, ExitResumed, Zenon
<1>4. CASE tracee = "sigint"
  <2>1. at # "exit" /\ signal = TRUE /\ sigint = FALSE /\ Behind = addr
    BY <1>2, <1>4 DEF Going
  <2>2. How = "sigint" /\ Where = addr
    BY <1>4, <2>1 DEF How, Where
  <2>3. Process = Traced("stopped", Shifted(Text), "sigint", addr, FALSE, FALSE)
    BY <1>1, <1>4, <2>1, <2>2, Zenon
  <2> QED
    BY <2>1, <2>3, SignalTaken, Zenon
<1>5. CASE tracee \in {"int3", "segv", "exit", "step"}
  <2>1. /\ at \notin {"hit", "exit", "dying"} /\ signal = FALSE /\ sigint = FALSE
        /\ tracee = "step" => single
        /\ tracee = "int3" => GetIP \in Text
    BY <1>2, <1>5 DEF Going
  <2>2. Process = Traced("stopped", Shifted(Text), How, Where, FALSE, FALSE)
    BY <1>1, <1>5, <2>1, Zenon
  <2>3. \/ How = "hit" /\ Where \in Shifted(Text)
        \/ How = "exit" /\ Where = 0
        \/ How = "segv" /\ Where \in {0} \cup Life!ShortAt(Load)
        \/ How = "step" /\ single /\ Where \in {0} \cup Life!ShortAt(Load)
    <3>1. CASE tracee = "int3"
      BY <2>1, <3>1 DEF How, Where, Shifted
    <3>2. CASE tracee = "exit"
      BY <3>2, BehindExit DEF StepInv, How, Where
    <3>3. CASE tracee \in {"segv", "step"}
      BY <2>1, <3>3, BehindTyped DEF How, Where
    <3> QED
      BY <1>5, <3>1, <3>2, <3>3
  <2>4. Traced("stopped", Shifted(Text), How, Where, FALSE, FALSE)
          \in Life!Resume(Traced("stopped", Shifted(Text), at, addr, FALSE, FALSE), single)
    BY <2>1, <2>3, ResumedToStop
  <2> QED
    BY <2>1, <2>2, <2>4, Zenon
<1> QED
  BY <1>3, <1>4, <1>5 DEF Going, Stopped

\* The waitpid that ends a command, but the step over a breakpoint.
LEMMA WaitedWell ==
  ASSUME StepInv, ServedInv, WaitAndUpdateStatus, dbg = "waiting"
  PROVE  Process' \in IF cmd = "step" THEN Life!Stepped(before) ELSE Life!Continued(before)
<1>1. tracee \in Stopped /\ Process' = Process
  BY DEF WaitAndUpdateStatus, Process, Text, GetIP
<1>2. cmd \in {"step", "cont"} /\ cmd # "none" /\ IInv /\ BeforeInv
  BY DEF StepInv, CommandInv, IInv, TypeOK, ServedInv
<1>3. /\ before = Traced("stopped", before.planted, before.at, before.addr,
                         before.sigint, FALSE)
      /\ before.sigint \in BOOLEAN
  BY <1>2, Zenon DEF BeforeInv
<1>4. CASE WaitsPlainly
  <2>1. before.at \notin {"hit", "dying"}
    BY <1>2, <1>4 DEF BeforeInv, Halted, WaitsPlainly
  <2>2. Process \in Life!Resume(before, cmd = "step")
    <3>1. Process \in Life!Resume(Traced("stopped", Shifted(Text), before.at, before.addr,
                                         before.sigint, FALSE), cmd = "step")
      BY <1>1, <1>3, <1>4, <2>1, GoneWell DEF WaitsPlainly
    <3>2. Shifted(Text) = before.planted
      BY <1>4 DEF WaitsPlainly
    <3> QED
      BY <1>3, <3>1, <3>2, Zenon
  <2>3. /\ Life!Stepped(before) = Life!Resume(before, TRUE)
        /\ Life!Continued(before) = Life!Resume(before, FALSE)
    BY <1>2, <1>4, NoHitForLife DEF WaitsPlainly
  <2>4. CASE cmd = "step"
    <3>1. (cmd = "step") = TRUE
      BY <2>4
    <3> QED
      BY <1>1, <2>2, <2>3, <2>4, <3>1, Zenon
  <2>5. CASE cmd # "step"
    <3>1. (cmd = "step") = FALSE
      BY <2>5
    <3> QED
      BY <1>1, <2>2, <2>3, <2>5, <3>1, Zenon
  <2> QED
    BY <2>4, <2>5
<1>5. CASE WaitsPassed
  <2>1. PICK at, addr : PassedTo(at, addr) /\ Going(at, addr, FALSE, FALSE)
    BY <1>5 DEF WaitsPassed
  <2>2. /\ before.addr \in Shifted(Placed) /\ cmd = "cont"
        /\ Shifted(Text) = ReplantedText
    BY <1>5 DEF WaitsPassed
  <2>3. Traced("stopped", ReplantedText, at, addr, FALSE, FALSE)
          \in Life!ResumeBreakpoint(before)
    BY <1>2, <2>1, <2>2, PassedOver
  <2>4. at \notin {"hit", "dying"}
    BY <2>1 DEF PassedTo, PassedAt
  <2>5. Process \in Life!Resume(Traced("stopped", ReplantedText, at, addr, FALSE, FALSE),
                                FALSE)
    <3>1. Process \in Life!Resume(Traced("stopped", Shifted(Text), at, addr, FALSE, FALSE),
                                  FALSE)
      BY <1>1, <2>1, <2>4, GoneWell
    <3> QED
      BY <2>2, <3>1, Zenon
  <2>6. before.life = "stopped"
    BY <1>3 DEF Traced
  <2>7. Life!Continued(before) =
          UNION {Life!Resume(r, FALSE) : r \in Life!ResumeBreakpoint(before)}
    BY <1>2, <2>2, <2>6, KnownToLife
  <2>8. Process \in Life!Continued(before)
    BY <2>3, <2>5, <2>7
  <2> QED
    BY <1>1, <2>2, <2>8
<1> QED
  BY <1>4, <1>5 DEF ServedInv, Waiting

\* The last request of a `step' over a breakpoint, resumeBreakpoint's enable.
LEMMA PassedWell ==
  ASSUME StepInv, ServedInv, ResumeEnable, cmd = "step"
  PROVE  Process' \in Life!Stepped(before)
<1>1. /\ dbg = "enable" /\ UNCHANGED <<ip, tracee, sigint>>
      /\ IInv /\ BeforeInv /\ cmd # "none"
  BY DEF ResumeEnable, StepInv, ServedInv
<1>2. /\ before.addr \in Shifted(Placed) /\ ~sigint /\ PassedTo(tracee, Behind)
  BY <1>1 DEF ServedInv, Passing, Passed, Resuming
<1>3. tracee \in {"sigint", "segv", "exit", "step"}
  BY <1>2 DEF PassedTo, PassedAt
<1>4. sigint' = FALSE
  BY <1>1, <1>2, Zenon DEF IInv, TypeOK
<1>5. Process' = Traced("stopped", ReplantedText, tracee, Behind, FALSE, FALSE)
  <2>1. (Process = Traced(IF tracee = "gone" THEN "gone" ELSE "stopped", Shifted(Text),
                          How, Where, sigint, FALSE))'
    BY ProcessByField, PTL
  <2>2. tracee' = tracee /\ tracee # "gone" /\ How' = tracee /\ Where' = Behind
    BY <1>1, <1>3 DEF How, Where, Behind, GetIP
  <2>3. Shifted(Text)' = ReplantedText
    BY TextReplanted
  <2>4. Process' = Traced(IF tracee' = "gone" THEN "gone" ELSE "stopped", Shifted(Text)',
                          How', Where', sigint', FALSE)
    BY <2>1 DEF Traced
  <2> QED
    BY <1>4, <2>2, <2>3, <2>4, Zenon
<1>6. Traced("stopped", ReplantedText, tracee, Behind, FALSE, FALSE)
        \in Life!ResumeBreakpoint(before)
  <2>1. PICK at, addr : at = tracee /\ addr = Behind
    OBVIOUS
  <2>2. PassedTo(at, addr)
    BY <1>2, <2>1
  <2>3. Traced("stopped", ReplantedText, at, addr, FALSE, FALSE)
          \in Life!ResumeBreakpoint(before)
    BY <1>1, <1>2, <2>2, PassedOver
  <2> QED
    BY <2>1, <2>3, Zenon
<1>7. before.life = "stopped"
  <2>1. before = Traced("stopped", before.planted, before.at, before.addr,
                        before.sigint, FALSE)
    BY <1>1, Zenon DEF BeforeInv
  <2> QED
    BY <2>1 DEF Traced
<1>8. Life!Stepped(before) = Life!ResumeBreakpoint(before)
  BY <1>1, <1>2, <1>7, KnownToLife
<1> QED
  BY <1>5, <1>6, <1>8, Zenon

\* What the several ptrace requests of a command do together to the traced process
\* is what Session says of the whole command, for every program, word size and
\* choice of breakpoints: ptraceStep and ptraceContinue with resumeBreakpoint. No
\* restriction on the breakpoints: they may overlap, lie on one-byte instructions,
\* on faults and exits, and `bp off' may have lifted some.
THEOREM CommandsHaveKnownOutcomes == CommandSpec => OutcomesAreKnown
<1>1. ASSUME StepInv, ServedInv, CommandNext, StepInv', cmd # "none", cmd' = "none"
      PROVE  Process' \in IF cmd = "step" THEN Life!Stepped(before)
                          ELSE Life!Continued(before)
  <2>1. dbg # "idle" /\ dbg' = "idle"
    BY <1>1 DEF StepInv, CommandInv
  <2>2. Debugger
    BY <1>1, <2>1
    DEF CommandNext, Command, BreakpointAtAddress, DisableBreakpointAtAddress,
        PtraceStep, PtraceContinue, StopTraced, CommandOnGone, Tracee, TakeSignal,
        Execute, Trap, Fault, ExitEvent, Die
  <2>3. \/ ResumeEnable /\ cmd = "step"
        \/ WaitAndUpdateStatus /\ dbg = "waiting"
    BY <2>1, <2>2
    DEF Debugger, ResumeDisable, PtraceBackwardStep, PtraceRawStep, ResumeEnable,
        ResumeContinue, WaitAndUpdateStatus
  <2> QED
    BY <1>1, <2>3, WaitedWell, PassedWell
<1>2. StepInv /\ ServedInv /\ StepInv' /\ [CommandNext]_commandVars =>
        [(cmd # "none" /\ cmd' = "none" =>
            Process' \in IF cmd = "step" THEN Life!Stepped(before)
                         ELSE Life!Continued(before))]_commandVars
  BY <1>1
<1> QED
  BY <1>2, ServedInductive, PTL DEF CommandSpec, OutcomesAreKnown
================================================================================
