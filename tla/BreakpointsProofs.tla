--------------------------- MODULE BreakpointsProofs ---------------------------
(***************************************************************************)
(* Proofs about Breakpoints for every program, word size and choice of     *)
(* breakpoints. The argument has two layers: an inductive invariant that   *)
(* needs no restriction on where the breakpoints are, and, on top of it,   *)
(* what Unambiguous and Separated add.                                     *)
(***************************************************************************)
EXTENDS Breakpoints, TLAPS

Resuming == {"disable", "rewind", "rawstep", "stepping", "enable"}

(* An entry is filed under its address; the copy that resumeBreakpoint     *)
(* holds is the entry of its address.                                      *)
EntriesInv ==
  /\ \A a \in Placed : breakpointsMap[a].address = a
  /\ dbg \in Resuming => /\ bp \in Breakpoint
                         /\ bp.address \in Placed
                         /\ bp = breakpointsMap[bp.address]

(* A saved word may hold the INT3 of other breakpoints: they are all known. *)
SavedTrapsKnown ==
  \A a \in Placed : \A i \in Offset :
    breakpointsMap[a].original[i] = "INT3" => a + i \in Placed

(* Which stops each phase of the debugger can see. *)
PhaseInv ==
  /\ dbg = "idle" => tracee \in Stopped
  /\ dbg \in {"disable", "rewind", "rawstep"} =>
       tracee \in {"exec", "int3", "step", "segv", "sigint"}
  /\ dbg = "stepping" => tracee \in {"singlestep", "step", "segv", "sigint", "exit"}
  /\ dbg \in {"enable", "cont"} => tracee \in {"step", "segv", "sigint", "exit"}

(* The breakpoint is out of the text while the tracee steps over it. *)
Lifted == dbg = "rawstep" \/ (dbg = "stepping" /\ tracee = "singlestep")

(* Where RIP is. *)
PositionInv ==
  /\ tracee \in {"exec", "step", "segv", "sigint", "singlestep", "cont"} => ip \in Instr
  /\ tracee \in {"exit", "dying", "gone"} => ip - 2 \in ExitAt
  /\ tracee = "int3" => \/ dbg \in {"idle", "waiting", "disable", "rewind"}
                           /\ ip - 1 \in Placed
                        \/ dbg = "rawstep"
  /\ dbg \in {"disable", "rewind"} => bp.address = ip - 1
  /\ Lifted => bp.address = ip

LiftedInv == dbg = "rewind" \/ Lifted => mem[bp.address] = "code"

IInv ==
  /\ TypeOK
  /\ EntriesInv
  /\ SavedTrapsKnown
  /\ EveryTrapKnown
  /\ OriginalsClean
  /\ PhaseInv
  /\ PositionInv
  /\ LiftedInv

-----------------------------------------------------------------------------
(* The text under PEEKTEXT and POKETEXT. *)

LEMMA NoBreakpointIsNone == NoBreakpoint \notin Breakpoint
  BY LayoutAssumption, UserAssumption DEF NoBreakpoint, Breakpoint, Addr

LEMMA BpAddrInText ==
  ASSUME NEW a \in BpAddr
  PROVE  /\ a \in Instr
         /\ a \in Addr
         /\ a \in Int
         /\ \A i \in Offset : a + i \in Addr
  BY LayoutAssumption, UserAssumption DEF Addr, Offset

\* What a word read at a breakpoint's address holds.
LEMMA PeekWord ==
  ASSUME mem \in [Addr -> Byte], NEW a \in BpAddr
  PROVE  /\ Peek(a) \in Word
         /\ \A i \in Offset : Peek(a)[i] = mem[a + i]
  BY BpAddrInText DEF Peek, Word

\* Writing a word changes the bytes it covers and no other.
LEMMA PokeText ==
  ASSUME mem \in [Addr -> Byte], NEW a \in BpAddr, NEW word \in Word,
         Poke(a, word)
  PROVE  /\ mem' \in [Addr -> Byte]
         /\ \A b \in Addr : mem'[b] = IF b - a \in Offset THEN word[b - a]
                                      ELSE mem[b]
         /\ mem'[a] = word[0]
  <1>1. mem' \in [Addr -> Byte]
    BY DEF Poke, Word
  <1>2. \A b \in Addr : mem'[b] = IF b - a \in Offset THEN word[b - a]
                                  ELSE mem[b]
    BY DEF Poke
  <1>3. a - a = 0 /\ 0 \in Offset /\ a \in Addr
    BY BpAddrInText, LayoutAssumption DEF Offset
  <1>4. QED
    BY <1>1, <1>2, <1>3

\* enable() plants one INT3 and leaves every other byte as it was.
LEMMA PlantText ==
  ASSUME mem \in [Addr -> Byte], NEW a \in BpAddr,
         Poke(a, Trapping(Peek(a)))
  PROVE  /\ mem' \in [Addr -> Byte]
         /\ mem'[a] = "INT3"
         /\ \A b \in Addr : b # a => mem'[b] = mem[b]
  <1>1. /\ Trapping(Peek(a)) \in Word
        /\ Trapping(Peek(a))[0] = "INT3"
        /\ \A i \in Offset : i # 0 => Trapping(Peek(a))[i] = mem[a + i]
    <2>1. 0 \in Offset
      BY LayoutAssumption DEF Offset
    <2>2. QED
      BY <2>1, PeekWord DEF Trapping, Word, Byte
  <1>2. /\ mem' \in [Addr -> Byte]
        /\ mem'[a] = "INT3"
        /\ \A b \in Addr : mem'[b] = IF b - a \in Offset
                                     THEN Trapping(Peek(a))[b - a] ELSE mem[b]
    BY <1>1, PokeText
  <1>3. ASSUME NEW b \in Addr, b # a, b - a \in Offset
        PROVE  mem'[b] = mem[b]
    <2>1. b - a # 0 /\ a + (b - a) = b
      BY <1>3, BpAddrInText DEF Addr
    <2>2. QED
      BY <1>1, <1>2, <1>3, <2>1
  <1>4. QED
    BY <1>2, <1>3

-----------------------------------------------------------------------------
(* Type correctness. *)

LEMMA InitTypeOK == Init => TypeOK
  <1>1. Init => sigint \in BOOLEAN
    BY Zenon DEF Init
  <1>2. QED
    BY <1>1, LayoutAssumption
    DEF Init, TypeOK, Byte, Running, Stopped, Phase, Addr

LEMMA PlacedTyped ==
  ASSUME TypeOK, NEW a \in Placed
  PROVE  a \in BpAddr /\ breakpointsMap[a] \in Breakpoint
  BY DEF TypeOK, Placed

\* A placed breakpoint's entry, word by word.
LEMMA EntryFacts ==
  ASSUME IInv, NEW a \in Placed
  PROVE  /\ a \in BpAddr
         /\ breakpointsMap[a] \in Breakpoint
         /\ breakpointsMap[a].address = a
         /\ breakpointsMap[a].original \in Word
         /\ breakpointsMap[a].original[0] = "code"
  BY PlacedTyped DEF IInv, EntriesInv, OriginalsClean, Breakpoint

\* Writing a saved word back plants no INT3 of its own.
LEMMA RestoreText ==
  ASSUME IInv, NEW a \in Placed, Poke(a, breakpointsMap[a].original)
  PROVE  /\ mem' \in [Addr -> Byte]
         /\ mem'[a] = "code"
         /\ \A b \in Addr : mem'[b] = "INT3" => b \in Placed
  <1> DEFINE word == breakpointsMap[a].original
  <1>1. a \in BpAddr /\ word \in Word /\ word[0] = "code"
    BY EntryFacts
  <1>2. mem \in [Addr -> Byte]
    BY DEF IInv, TypeOK
  <1>3. /\ mem' \in [Addr -> Byte]
        /\ \A b \in Addr : mem'[b] = IF b - a \in Offset THEN word[b - a]
                                     ELSE mem[b]
        /\ mem'[a] = word[0]
    BY <1>1, <1>2, PokeText
  <1>4. ASSUME NEW b \in Addr, mem'[b] = "INT3"
        PROVE  b \in Placed
    <2>1. CASE b - a \in Offset
      <3>1. a + (b - a) = b
        BY <1>1, BpAddrInText DEF Addr
      <3>2. a + (b - a) \in Placed
        BY <1>3, <1>4, <2>1 DEF IInv, SavedTrapsKnown
      <3>3. QED
        BY <3>1, <3>2
    <2>2. CASE b - a \notin Offset
      BY <1>3, <1>4, <2>2 DEF IInv, EveryTrapKnown
    <2>3. QED
      BY <2>1, <2>2
  <1>5. QED
    BY <1>1, <1>3, <1>4

\* At a recognised hit the tracee is not at its exit: no breakpoint follows
\* an exit system call by one byte.
LEMMA HitNotAtExit ==
  ASSUME IInv, Contains(ip - 1)
  PROVE  /\ ip - 1 \in Placed
         /\ tracee \notin {"exit", "dying", "gone"}
  BY LayoutAssumption, UserAssumption
  DEF IInv, PositionInv, TypeOK, Contains, Placed, Addr

-----------------------------------------------------------------------------
(* The inductive invariant. *)

LEMMA InitIInv == Init => IInv
  <1> SUFFICES ASSUME Init PROVE IInv
    OBVIOUS
  <1>1. Placed = {}
    BY DEF Init, Placed
  <1>2. TypeOK
    BY InitTypeOK
  <1>3. QED
    BY <1>1, <1>2, LayoutAssumption
    DEF Init, IInv, EntriesInv, SavedTrapsKnown, EveryTrapKnown,
        OriginalsClean, PhaseInv, PositionInv, LiftedInv, Lifted, Resuming,
        Stopped

LEMMA BreakpointAtAddressIInv ==
  ASSUME IInv, NEW a \in BpAddr, BreakpointAtAddress(a)
  PROVE  IInv'
  <1>1. /\ mem \in [Addr -> Byte]
        /\ dbg = "idle" /\ dbg' = "idle"
        /\ UNCHANGED <<ip, tracee, cmd, bp, sigint>>
    BY DEF BreakpointAtAddress, IInv, TypeOK
  <1>2. /\ mem' \in [Addr -> Byte]
        /\ mem'[a] = "INT3"
        /\ \A b \in Addr : b # a => mem'[b] = mem[b]
    BY <1>1, PlantText DEF BreakpointAtAddress
  <1>3. /\ Peek(a) \in Word
        /\ \A i \in Offset : Peek(a)[i] = mem[a + i] /\ a + i \in Addr
        /\ a \in Addr /\ 0 \in Offset /\ a + 0 = a
    BY <1>1, PeekWord, BpAddrInText, LayoutAssumption DEF Offset
  <1> DEFINE entry == [address |-> a, original |-> Peek(a), enabled |-> TRUE]
  <1>4. /\ entry \in Breakpoint
        /\ entry.address = a
        /\ entry.original = Peek(a)
    BY <1>3 DEF Breakpoint
  <1> HIDE DEF entry
  <1>5. /\ breakpointsMap' \in [BpAddr -> Breakpoint \cup {NoBreakpoint}]
        /\ \A b \in BpAddr : b # a => breakpointsMap'[b] = breakpointsMap[b]
        /\ a \in Placed => breakpointsMap'[a] = breakpointsMap[a]
        /\ a \notin Placed => breakpointsMap'[a] = entry
    BY <1>4 DEF BreakpointAtAddress, IInv, TypeOK, Contains, Placed, entry
  <1>6. Placed' = Placed \cup {a}
    BY <1>4, <1>5, NoBreakpointIsNone DEF Placed
  <1>7. TypeOK'
    BY <1>1, <1>2, <1>5 DEF IInv, TypeOK
  <1>8. EntriesInv'
    BY <1>1, <1>4, <1>5, <1>6, EntryFacts DEF EntriesInv, Resuming
  <1>9. SavedTrapsKnown'
    <2> SUFFICES ASSUME NEW b \in Placed', NEW i \in Offset,
                        breakpointsMap'[b].original[i] = "INT3"
                 PROVE  b + i \in Placed'
      BY DEF SavedTrapsKnown
    <2>1. CASE b \in Placed
      BY <1>5, <1>6, <2>1, PlacedTyped DEF IInv, SavedTrapsKnown
    <2>2. CASE b \notin Placed
      <3>1. b = a /\ mem[a + i] = "INT3" /\ a + i \in Addr
        BY <1>3, <1>4, <1>5, <1>6, <2>2
      <3>2. QED
        BY <1>6, <3>1 DEF IInv, EveryTrapKnown
    <2>3. QED
      BY <2>1, <2>2
  <1>10. EveryTrapKnown'
    BY <1>2, <1>6 DEF IInv, EveryTrapKnown
  <1>11. OriginalsClean'
    <2> SUFFICES ASSUME NEW b \in Placed'
                 PROVE  breakpointsMap'[b].original[0] = "code"
      BY DEF OriginalsClean
    <2>1. CASE b \in Placed
      BY <1>5, <2>1, EntryFacts
    <2>2. CASE b \notin Placed
      <3>1. b = a /\ mem[a] # "INT3"
        BY <1>3, <1>6, <2>2 DEF IInv, EveryTrapKnown
      <3>2. QED
        BY <1>1, <1>3, <1>4, <1>5, <2>2, <3>1 DEF Byte
    <2>3. QED
      BY <2>1, <2>2
  <1>12. PhaseInv' /\ PositionInv' /\ LiftedInv'
    BY <1>1, <1>6 DEF IInv, PhaseInv, PositionInv, LiftedInv, Lifted
  <1>13. QED
    BY <1>7, <1>8, <1>9, <1>10, <1>11, <1>12 DEF IInv

LEMMA DisableBreakpointAtAddressIInv ==
  ASSUME IInv, NEW a \in OffAddr, DisableBreakpointAtAddress(a)
  PROVE  IInv'
  <1>1. /\ a \in Placed
        /\ Poke(a, breakpointsMap[a].original)
        /\ dbg = "idle"
        /\ UNCHANGED <<ip, tracee, breakpointsMap, dbg, cmd, bp, sigint>>
    BY DEF DisableBreakpointAtAddress, Contains, Placed
  <1>2. /\ mem' \in [Addr -> Byte]
        /\ \A b \in Addr : mem'[b] = "INT3" => b \in Placed
    BY <1>1, RestoreText
  <1>3. Placed' = Placed
    BY <1>1 DEF Placed
  <1>4. QED
    BY <1>1, <1>2, <1>3
    DEF IInv, TypeOK, EntriesInv, SavedTrapsKnown, EveryTrapKnown,
        OriginalsClean, PhaseInv, PositionInv, LiftedInv, Lifted, Resuming

\* What `step' and `run' have in common.
LEMMA ResumeIInv ==
  ASSUME IInv, dbg = "idle", tracee # "gone",
         cmd' \in {"step", "cont"}, NEW how \in {"singlestep", "cont"},
         \/ IsTrappedAtBreakpoint /\ GetHitBreakpoint
         \/ /\ ~IsTrappedAtBreakpoint
            /\ Resume(how)
            /\ dbg' = "waiting"
            /\ UNCHANGED bp,
         UNCHANGED <<mem, ip, breakpointsMap, sigint>>
  PROVE  IInv'
  <1>1. /\ Placed' = Placed
        /\ SavedTrapsKnown' /\ EveryTrapKnown' /\ OriginalsClean'
    BY DEF IInv, Placed, SavedTrapsKnown, EveryTrapKnown, OriginalsClean
  <1>2. tracee \in Stopped /\ ip \in Int
    BY DEF IInv, PhaseInv, TypeOK
  <1>3. CASE IsTrappedAtBreakpoint /\ GetHitBreakpoint
    <2>1. /\ ip - 1 \in Placed
          /\ tracee \in {"exec", "int3", "step", "segv", "sigint"}
      BY <1>2, <1>3, HitNotAtExit DEF IsTrappedAtBreakpoint, GetIP, Stopped
    <2>2. /\ bp' = breakpointsMap[ip - 1]
          /\ dbg' = "disable"
          /\ tracee' = tracee
      BY <1>3 DEF GetHitBreakpoint, GetIP
    <2>3. bp' \in Breakpoint /\ bp'.address = ip - 1
      BY <2>1, <2>2, EntryFacts
    <2>4. TypeOK'
      BY <2>2, <2>3 DEF IInv, TypeOK, Phase
    <2>5. EntriesInv'
      BY <1>1, <2>1, <2>2, <2>3 DEF IInv, EntriesInv
    <2>6. PhaseInv' /\ PositionInv' /\ LiftedInv'
      BY <1>1, <2>1, <2>2, <2>3
      DEF IInv, PhaseInv, PositionInv, LiftedInv, Lifted
    <2>7. QED
      BY <1>1, <2>4, <2>5, <2>6 DEF IInv
  <1>4. CASE /\ ~IsTrappedAtBreakpoint
             /\ Resume(how)
             /\ dbg' = "waiting"
             /\ UNCHANGED bp
    <2>1. tracee # "int3"
      BY <1>4 DEF IInv, PositionInv, IsTrappedAtBreakpoint, GetIP, Contains,
                  Placed
    <2>2. \/ tracee' = "dying" /\ ip - 2 \in ExitAt
          \/ tracee' \in {"singlestep", "cont"} /\ ip \in Instr
      BY <1>2, <1>4, <2>1 DEF Resume, Stopped, IInv, PositionInv
    <2>3. TypeOK'
      BY <1>4, <2>2 DEF IInv, TypeOK, Phase, Running
    <2>4. EntriesInv' /\ PhaseInv' /\ PositionInv' /\ LiftedInv'
      BY <1>1, <1>4, <2>2
      DEF IInv, EntriesInv, Resuming, PhaseInv, PositionInv, LiftedInv, Lifted
    <2>5. QED
      BY <1>1, <2>3, <2>4 DEF IInv
  <1>5. QED
    BY <1>3, <1>4

LEMMA ResumeDisableIInv ==
  ASSUME IInv, ResumeDisable
  PROVE  IInv'
  <1>1. /\ dbg = "disable" /\ dbg' = "rewind"
        /\ UNCHANGED <<ip, tracee, breakpointsMap, cmd, bp, sigint>>
        /\ Poke(bp.address, bp.original)
    BY DEF ResumeDisable
  <1>2. bp.address \in Placed /\ bp = breakpointsMap[bp.address]
    BY <1>1 DEF IInv, EntriesInv, Resuming
  <1>3. /\ mem' \in [Addr -> Byte]
        /\ mem'[bp.address] = "code"
        /\ \A b \in Addr : mem'[b] = "INT3" => b \in Placed
    BY <1>1, <1>2, RestoreText
  <1>4. Placed' = Placed
    BY <1>1 DEF Placed
  <1>5. TypeOK' /\ EntriesInv'
    BY <1>1, <1>3, <1>4 DEF IInv, TypeOK, Phase, EntriesInv, Resuming
  <1>6. SavedTrapsKnown' /\ EveryTrapKnown' /\ OriginalsClean'
    BY <1>1, <1>3, <1>4 DEF IInv, SavedTrapsKnown, EveryTrapKnown, OriginalsClean
  <1>7. PhaseInv' /\ PositionInv' /\ LiftedInv'
    BY <1>1, <1>3, <1>4 DEF IInv, PhaseInv, PositionInv, LiftedInv, Lifted
  <1>8. QED
    BY <1>5, <1>6, <1>7 DEF IInv

\* The steps that leave the text and the map alone.
LEMMA MapUnchanged ==
  ASSUME IInv, UNCHANGED <<mem, breakpointsMap>>
  PROVE  /\ Placed' = Placed
         /\ SavedTrapsKnown' /\ EveryTrapKnown' /\ OriginalsClean'
  BY DEF IInv, Placed, SavedTrapsKnown, EveryTrapKnown, OriginalsClean

LEMMA PtraceBackwardStepIInv ==
  ASSUME IInv, PtraceBackwardStep
  PROVE  IInv'
  <1>1. /\ dbg = "rewind" /\ dbg' = "rawstep"
        /\ UNCHANGED <<mem, tracee, breakpointsMap, cmd, bp, sigint>>
        /\ ip' = ip - 1
    BY DEF PtraceBackwardStep, GetIP
  <1>2. bp.address \in Placed /\ ip' = bp.address
    BY <1>1 DEF IInv, EntriesInv, Resuming, PositionInv
  <1>3. ip' \in Instr /\ ip' \in Int
    BY <1>2, BpAddrInText DEF Placed
  <1>4. TypeOK' /\ EntriesInv'
    BY <1>1, <1>3, MapUnchanged DEF IInv, TypeOK, Phase, EntriesInv, Resuming
  <1>5. PhaseInv' /\ PositionInv' /\ LiftedInv'
    BY <1>1, <1>2, <1>3 DEF IInv, PhaseInv, PositionInv, LiftedInv, Lifted
  <1>6. QED
    BY <1>1, <1>4, <1>5, MapUnchanged DEF IInv

LEMMA PtraceRawStepIInv ==
  ASSUME IInv, PtraceRawStep
  PROVE  IInv'
  <1>1. /\ dbg = "rawstep" /\ dbg' = "stepping"
        /\ UNCHANGED <<mem, ip, breakpointsMap, cmd, bp, sigint>>
        /\ tracee' = "singlestep"
    BY DEF PtraceRawStep, Resume, IInv, PhaseInv
  <1>2. bp.address \in Placed /\ ip = bp.address
    BY <1>1 DEF IInv, EntriesInv, Resuming, PositionInv, Lifted
  <1>3. ip \in Instr
    BY <1>2, BpAddrInText DEF Placed
  <1>4. TypeOK' /\ EntriesInv'
    BY <1>1, MapUnchanged
    DEF IInv, TypeOK, Phase, Running, EntriesInv, Resuming
  <1>5. PhaseInv' /\ PositionInv' /\ LiftedInv'
    BY <1>1, <1>2, <1>3 DEF IInv, PhaseInv, PositionInv, LiftedInv, Lifted
  <1>6. QED
    BY <1>1, <1>4, <1>5, MapUnchanged DEF IInv

LEMMA ResumeEnableIInv ==
  ASSUME IInv, ResumeEnable
  PROVE  IInv'
  <1>1. /\ dbg = "enable" /\ dbg' \in {"idle", "cont"}
        /\ UNCHANGED <<ip, tracee, breakpointsMap, sigint>>
        /\ bp' = NoBreakpoint
        /\ cmd' \in {"none", "step", "cont"}
        /\ Poke(bp.address, Trapping(Peek(bp.address)))
    BY DEF ResumeEnable, IInv, TypeOK
  <1>2. /\ bp.address \in Placed
        /\ bp.address \in BpAddr
        /\ mem \in [Addr -> Byte]
    BY <1>1 DEF IInv, EntriesInv, Resuming, Placed, TypeOK
  <1>3. /\ mem' \in [Addr -> Byte]
        /\ \A b \in Addr : b # bp.address => mem'[b] = mem[b]
    BY <1>1, <1>2, PlantText
  <1>4. Placed' = Placed
    BY <1>1 DEF Placed
  <1>5. TypeOK' /\ EntriesInv'
    BY <1>1, <1>3, <1>4 DEF IInv, TypeOK, Phase, EntriesInv, Resuming
  <1>6. SavedTrapsKnown' /\ EveryTrapKnown' /\ OriginalsClean'
    BY <1>1, <1>2, <1>3, <1>4
    DEF IInv, SavedTrapsKnown, EveryTrapKnown, OriginalsClean
  <1>7. PhaseInv' /\ PositionInv' /\ LiftedInv'
    BY <1>1, <1>4
    DEF IInv, PhaseInv, PositionInv, LiftedInv, Lifted, Stopped
  <1>8. QED
    BY <1>5, <1>6, <1>7 DEF IInv

LEMMA ResumeContinueIInv ==
  ASSUME IInv, ResumeContinue
  PROVE  IInv'
  <1>1. /\ dbg = "cont" /\ dbg' = "waiting"
        /\ UNCHANGED <<mem, ip, breakpointsMap, cmd, bp, sigint>>
        /\ \/ tracee' = "dying" /\ ip - 2 \in ExitAt
           \/ tracee' = "cont" /\ ip \in Instr
    BY DEF ResumeContinue, Resume, IInv, PhaseInv, PositionInv
  <1>2. TypeOK' /\ EntriesInv'
    BY <1>1, MapUnchanged
    DEF IInv, TypeOK, Phase, Running, EntriesInv, Resuming
  <1>3. PhaseInv' /\ PositionInv' /\ LiftedInv'
    BY <1>1 DEF IInv, PhaseInv, PositionInv, LiftedInv, Lifted
  <1>4. QED
    BY <1>1, <1>2, <1>3, MapUnchanged DEF IInv

LEMMA WaitAndUpdateStatusIInv ==
  ASSUME IInv, WaitAndUpdateStatus
  PROVE  IInv'
  <1>1. /\ tracee \in Stopped
        /\ \/ dbg = "stepping" /\ dbg' = "enable"
           \/ dbg = "waiting" /\ dbg' = "idle"
        /\ cmd' \in {"none", "step", "cont"}
        /\ UNCHANGED <<mem, ip, tracee, breakpointsMap, bp, sigint>>
    BY DEF WaitAndUpdateStatus, IInv, TypeOK
  <1>2. TypeOK' /\ EntriesInv'
    BY <1>1, MapUnchanged DEF IInv, TypeOK, Phase, EntriesInv, Resuming
  <1>3. PhaseInv' /\ PositionInv' /\ LiftedInv'
    BY <1>1, MapUnchanged
    DEF IInv, PhaseInv, PositionInv, LiftedInv, Lifted, Stopped
  <1>4. QED
    BY <1>1, <1>2, <1>3, MapUnchanged DEF IInv

\* A running tracee means that the debugger waits for it.
LEMMA RunningWaits ==
  ASSUME IInv, tracee \in Running
  PROVE  /\ dbg = "waiting" \/ (dbg = "stepping" /\ tracee = "singlestep")
         /\ Alive => ip \in Instr
  BY DEF IInv, TypeOK, PhaseInv, PositionInv, Alive, Running, Stopped, Phase

LEMMA StopTracedIInv ==
  ASSUME IInv, StopTraced
  PROVE  IInv'
  <1>1. /\ UNCHANGED <<mem, ip, tracee, breakpointsMap, dbg, cmd, bp>>
        /\ sigint' \in BOOLEAN
    BY Zenon DEF StopTraced
  <1>2. TypeOK' /\ EntriesInv'
    BY <1>1, MapUnchanged DEF IInv, TypeOK, EntriesInv
  <1>3. PhaseInv' /\ PositionInv' /\ LiftedInv'
    BY <1>1, MapUnchanged DEF IInv, PhaseInv, PositionInv, LiftedInv, Lifted
  <1>4. QED
    BY <1>1, <1>2, <1>3, MapUnchanged DEF IInv

LEMMA TakeSignalIInv ==
  ASSUME IInv, TakeSignal
  PROVE  IInv'
  <1>1. /\ Alive /\ tracee' = "sigint"
        /\ UNCHANGED <<mem, ip, breakpointsMap, dbg, cmd, bp>>
        /\ sigint' \in BOOLEAN
    BY Zenon DEF TakeSignal
  <1>2. ip \in Instr /\ dbg \in {"waiting", "stepping"}
    BY <1>1, RunningWaits DEF Alive, Running
  <1>3. TypeOK' /\ EntriesInv'
    BY <1>1, MapUnchanged DEF IInv, TypeOK, Stopped, EntriesInv, Resuming
  <1>4. PhaseInv' /\ PositionInv' /\ LiftedInv'
    BY <1>1, <1>2 DEF PhaseInv, PositionInv, LiftedInv, Lifted
  <1>5. QED
    BY <1>1, <1>3, <1>4, MapUnchanged DEF IInv

LEMMA ExecuteIInv ==
  ASSUME IInv, Execute
  PROVE  IInv'
  <1>1. /\ Alive /\ ip \in Instr
        /\ tracee' \in {"step", "cont"}
        /\ tracee' = "cont" => tracee = "cont"
        /\ UNCHANGED <<mem, breakpointsMap, dbg, cmd, bp, sigint>>
    BY DEF Execute, Alive
  <1>2. ip' \in Instr /\ ip' \in Int
    BY LayoutAssumption DEF Execute, Addr
  <1>3. dbg = "waiting" \/ (dbg = "stepping" /\ tracee = "singlestep")
    BY <1>1, RunningWaits DEF Alive, Running
  <1>4. TypeOK' /\ EntriesInv'
    BY <1>1, <1>2, MapUnchanged
    DEF IInv, TypeOK, Running, Stopped, EntriesInv, Resuming
  <1>5. PhaseInv' /\ PositionInv' /\ LiftedInv'
    BY <1>1, <1>2, <1>3 DEF PhaseInv, PositionInv, LiftedInv, Lifted
  <1>6. QED
    BY <1>1, <1>4, <1>5, MapUnchanged DEF IInv

\* The breakpoint being stepped over is out of the text: an INT3 is only ever
\* executed under the waitpid of a command.
LEMMA TrapIInv ==
  ASSUME IInv, Trap
  PROVE  IInv'
  <1>1. /\ Alive /\ ip \in Addr /\ mem[ip] = "INT3"
        /\ ip' = ip + 1 /\ tracee' = "int3"
        /\ UNCHANGED <<mem, breakpointsMap, dbg, cmd, bp, sigint>>
    BY DEF Trap
  <1>2. ip \in Placed /\ ip' \in Int /\ ip' - 1 = ip
    BY <1>1, LayoutAssumption DEF IInv, EveryTrapKnown, Addr
  <1>3. dbg = "waiting"
    <2>1. ~Lifted
      BY <1>1 DEF IInv, PositionInv, LiftedInv
    <2>2. QED
      BY <1>1, <2>1, RunningWaits DEF Alive, Running, Lifted
  <1>4. TypeOK' /\ EntriesInv'
    BY <1>1, <1>2, MapUnchanged
    DEF IInv, TypeOK, Stopped, EntriesInv, Resuming
  <1>5. PhaseInv' /\ PositionInv' /\ LiftedInv'
    BY <1>1, <1>2, <1>3, MapUnchanged DEF PhaseInv, PositionInv, LiftedInv, Lifted
  <1>6. QED
    BY <1>1, <1>4, <1>5, MapUnchanged DEF IInv

LEMMA FaultIInv ==
  ASSUME IInv, Fault
  PROVE  IInv'
  <1>1. /\ Alive /\ ip \in Instr /\ tracee' = "segv"
        /\ UNCHANGED <<mem, ip, breakpointsMap, dbg, cmd, bp, sigint>>
    BY LayoutAssumption DEF Fault
  <1>2. dbg \in {"waiting", "stepping"}
    BY <1>1, RunningWaits DEF Alive, Running
  <1>3. TypeOK' /\ EntriesInv'
    BY <1>1, MapUnchanged DEF IInv, TypeOK, Stopped, EntriesInv, Resuming
  <1>4. PhaseInv' /\ PositionInv' /\ LiftedInv'
    BY <1>1, <1>2 DEF PhaseInv, PositionInv, LiftedInv, Lifted
  <1>5. QED
    BY <1>1, <1>3, <1>4, MapUnchanged DEF IInv

LEMMA ExitEventIInv ==
  ASSUME IInv, ExitEvent
  PROVE  IInv'
  <1>1. /\ Alive /\ ip \in ExitAt /\ ip' = ip + 2 /\ tracee' = "exit"
        /\ UNCHANGED <<mem, breakpointsMap, dbg, cmd, bp, sigint>>
    BY DEF ExitEvent
  <1>2. ip' \in Int /\ ip' - 2 = ip
    BY <1>1, LayoutAssumption DEF Addr
  <1>3. dbg \in {"waiting", "stepping"}
    BY <1>1, RunningWaits DEF Alive, Running
  <1>4. TypeOK' /\ EntriesInv'
    BY <1>1, <1>2, MapUnchanged
    DEF IInv, TypeOK, Stopped, EntriesInv, Resuming
  <1>5. PhaseInv' /\ PositionInv' /\ LiftedInv'
    BY <1>1, <1>2, <1>3 DEF PhaseInv, PositionInv, LiftedInv, Lifted
  <1>6. QED
    BY <1>1, <1>4, <1>5, MapUnchanged DEF IInv

LEMMA DieIInv ==
  ASSUME IInv, Die
  PROVE  IInv'
  <1>1. /\ tracee = "dying" /\ tracee' = "gone"
        /\ UNCHANGED <<mem, ip, breakpointsMap, dbg, cmd, bp, sigint>>
    BY DEF Die
  <1>2. dbg = "waiting"
    BY <1>1, RunningWaits DEF Running
  <1>3. TypeOK' /\ EntriesInv'
    BY <1>1, MapUnchanged DEF IInv, TypeOK, Stopped, EntriesInv, Resuming
  <1>4. PhaseInv' /\ PositionInv' /\ LiftedInv'
    BY <1>1, <1>2 DEF IInv, PhaseInv, PositionInv, LiftedInv, Lifted
  <1>5. QED
    BY <1>1, <1>3, <1>4, MapUnchanged DEF IInv

LEMMA NextIInv == IInv /\ [Next]_vars => IInv'
  <1> SUFFICES ASSUME IInv, [Next]_vars PROVE IInv'
    OBVIOUS
  <1>1. ASSUME UNCHANGED vars PROVE IInv'
    BY <1>1
    DEF vars, IInv, TypeOK, EntriesInv, SavedTrapsKnown, EveryTrapKnown,
        OriginalsClean, PhaseInv, PositionInv, LiftedInv, Lifted, Placed
  <1>2. CASE Command
    <2>1. ASSUME NEW a \in BpAddr, BreakpointAtAddress(a) PROVE IInv'
      BY <2>1, BreakpointAtAddressIInv
    <2>2. ASSUME NEW a \in OffAddr, DisableBreakpointAtAddress(a) PROVE IInv'
      BY <2>2, DisableBreakpointAtAddressIInv
    <2>3. CASE PtraceStep
      BY <2>3, ResumeIInv DEF PtraceStep
    <2>4. CASE PtraceContinue
      BY <2>4, ResumeIInv DEF PtraceContinue
    <2>5. CASE StopTraced
      BY <2>5, StopTracedIInv
    <2>6. QED
      BY <1>1, <1>2, <2>1, <2>2, <2>3, <2>4, <2>5 DEF Command, CommandOnGone
  <1>3. CASE Debugger
    BY <1>3, ResumeDisableIInv, PtraceBackwardStepIInv, PtraceRawStepIInv,
       ResumeEnableIInv, ResumeContinueIInv, WaitAndUpdateStatusIInv
    DEF Debugger
  <1>4. CASE Tracee
    BY <1>4, TakeSignalIInv, ExecuteIInv, TrapIInv, FaultIInv, ExitEventIInv, DieIInv
    DEF Tracee
  <1>5. QED
    BY <1>1, <1>2, <1>3, <1>4 DEF Next

\* The inductive invariant holds of every behaviour, wherever the breakpoints
\* are and whatever the user types.
THEOREM Invariance == Spec => []IInv
  BY InitIInv, NextIInv, PTL DEF Spec

\* The text, the map and the debugger's phase keep their types.
THEOREM TypeCorrect == Spec => []TypeOK
  <1>1. IInv => TypeOK
    BY DEF IInv
  <1>2. QED
    BY <1>1, Invariance, PTL

\* No INT3 is ever left in the text without an entry that recognises it, even
\* when saved words overlap: enable(), try_emplace and disable() together.
THEOREM TrapsAreKnown == Spec => []EveryTrapKnown
  <1>1. IInv => EveryTrapKnown
    BY DEF IInv
  <1>2. QED
    BY <1>1, Invariance, PTL

\* No entry ever saves its own INT3 as the original instruction, although
\* `bp' may be typed again on an address that is planted already.
THEOREM OriginalsAreClean == Spec => []OriginalsClean
  <1>1. IInv => OriginalsClean
    BY DEF IInv
  <1>2. QED
    BY <1>1, Invariance, PTL

\* resumeBreakpoint always rewinds: the tracee is never resumed from the second
\* byte of an instruction that INT3 had replaced.
THEOREM AlwaysAtBoundaries == Spec => []RunsAtBoundaries
  <1>1. IInv => RunsAtBoundaries
    BY DEF IInv, PositionInv, Alive, RunsAtBoundaries
  <1>2. QED
    BY <1>1, Invariance, PTL

-----------------------------------------------------------------------------
(* What Unambiguous adds. *)

LEMMA HitIsExactInv ==
  ASSUME Unambiguous
  PROVE  IInv => HitIsExact
  <1> SUFFICES ASSUME IInv, dbg = "idle", tracee # "gone"
               PROVE  IsTrappedAtBreakpoint <=> tracee = "int3"
    BY DEF HitIsExact
  <1>1. ASSUME tracee = "int3" PROVE IsTrappedAtBreakpoint
    BY <1>1
    DEF IInv, PositionInv, IsTrappedAtBreakpoint, GetIP, Contains, Placed
  <1>2. ASSUME IsTrappedAtBreakpoint PROVE tracee = "int3"
    <2>1. ip - 1 \in BpAddr /\ tracee \notin {"exit", "gone"}
      BY <1>2, HitNotAtExit DEF IsTrappedAtBreakpoint, GetIP, Contains
    <2>2. ip \notin Instr
      BY <2>1 DEF Unambiguous, IInv, TypeOK
    <2>3. QED
      BY <2>1, <2>2 DEF IInv, PhaseInv, PositionInv, Stopped
  <1>3. QED
    BY <1>1, <1>2

\* With no breakpoint on a one-byte instruction, the test of RIP-1 against the
\* map tells the hits from the other stops at every prompt.
THEOREM HitsAreExact ==
  ASSUME Unambiguous
  PROVE  Spec => []HitIsExact
  BY HitIsExactInv, Invariance, PTL

\* What resumeBreakpoint rewinds has executed an INT3.
ResumesHits == dbg \in {"disable", "rewind", "rawstep"} => tracee = "int3"

LEMMA ResumesHitsInductive ==
  ASSUME Unambiguous
  PROVE  /\ Init => ResumesHits
         /\ IInv /\ ResumesHits /\ [Next]_vars => ResumesHits'
  <1>1. Init => ResumesHits
    BY DEF Init, ResumesHits
  <1>2. ASSUME IInv, ResumesHits, [Next]_vars
        PROVE  ResumesHits'
    <2>1. HitIsExact
      BY <1>2, HitIsExactInv
    <2>2. CASE Command
      BY <1>2, <2>1, <2>2
      DEF Command, BreakpointAtAddress, DisableBreakpointAtAddress,
          PtraceStep, PtraceContinue, GetHitBreakpoint, StopTraced,
          CommandOnGone, vars,
          HitIsExact, ResumesHits
    <2>3. CASE Debugger
      BY <1>2, <2>3
      DEF Debugger, ResumeDisable, PtraceBackwardStep, PtraceRawStep,
          ResumeEnable, ResumeContinue, WaitAndUpdateStatus, ResumesHits
    <2>4. CASE Tracee
      <3>1. tracee \in Running /\ dbg' = dbg
        BY <2>4
        DEF Tracee, TakeSignal, Execute, Trap, Fault, ExitEvent, Die, Alive, Running
      <3>2. QED
        BY <1>2, <3>1, RunningWaits DEF ResumesHits
    <2>5. CASE UNCHANGED vars
      BY <1>2, <2>5 DEF vars, ResumesHits
    <2>6. QED
      BY <1>2, <2>2, <2>3, <2>4, <2>5 DEF Next
  <1>3. QED
    BY <1>1, <1>2

\* One step of the program, seen from the program.
ProgramStep ==
  \/ ProgramCounter' = ProgramCounter
  \/ ProgramCounter \in Instr /\ ProgramCounter' \in Succ[ProgramCounter]
  \/ ProgramCounter \in ExitAt /\ ProgramCounter' = Exited

LEMMA NextProgramStep ==
  ASSUME IInv, ResumesHits, [Next]_vars
  PROVE  ProgramStep
  <1>1. /\ ip \in Int
        /\ tracee \in Running \cup Stopped
    BY DEF IInv, TypeOK
  <1>2. CASE Command
    <2>1. dbg = "idle" /\ dbg' # "rawstep" /\ ip' = ip
      BY <1>2
      DEF Command, BreakpointAtAddress, DisableBreakpointAtAddress,
          PtraceStep, PtraceContinue, GetHitBreakpoint, StopTraced,
          CommandOnGone, vars
    <2>2. \/ tracee' = tracee
          \/ tracee = "exit" /\ tracee' = "dying"
          \/ /\ tracee \notin {"exit", "gone", "int3"}
             /\ tracee' \in {"singlestep", "cont"}
      BY <1>2, <2>1
      DEF Command, BreakpointAtAddress, DisableBreakpointAtAddress,
          PtraceStep, PtraceContinue, GetHitBreakpoint, StopTraced,
          CommandOnGone, vars,
          Resume, IsTrappedAtBreakpoint, Contains, GetIP, Placed,
          IInv, PositionInv
    <2>3. tracee \in Stopped
      BY <2>1 DEF IInv, PhaseInv
    <2>4. QED
      BY <2>1, <2>2, <2>3 DEF ProgramStep, ProgramCounter, Stopped
  <1>3. CASE Debugger
    <2>1. CASE PtraceBackwardStep
      BY <2>1
      DEF PtraceBackwardStep, GetIP, ResumesHits, ProgramStep, ProgramCounter
    <2>2. CASE PtraceRawStep
      BY <2>2
      DEF PtraceRawStep, Resume, ResumesHits, ProgramStep, ProgramCounter
    <2>3. CASE ResumeContinue
      BY <2>3
      DEF ResumeContinue, Resume, IInv, PhaseInv, ProgramStep, ProgramCounter
    <2>4. CASE ResumeDisable \/ ResumeEnable \/ WaitAndUpdateStatus
      BY <2>4
      DEF ResumeDisable, ResumeEnable, WaitAndUpdateStatus,
          ProgramStep, ProgramCounter
    <2>5. QED
      BY <1>3, <2>1, <2>2, <2>3, <2>4 DEF Debugger
  <1>4. CASE Execute
    BY <1>4 DEF Execute, Alive, ProgramStep, ProgramCounter
  <1>5. CASE Trap
    <2>1. dbg # "rawstep"
      BY <1>5, RunningWaits DEF Trap, Alive, Running
    <2>2. QED
      BY <1>1, <1>5, <2>1 DEF Trap, Alive, ProgramStep, ProgramCounter
  <1>6. CASE Fault
    BY <1>6 DEF Fault, Alive, ProgramStep, ProgramCounter
  <1>7. CASE ExitEvent
    BY <1>7 DEF ExitEvent, Alive, ProgramStep, ProgramCounter
  <1>8. CASE Die
    BY <1>8 DEF Die, ProgramStep, ProgramCounter
  <1>9. CASE UNCHANGED vars
    BY <1>9 DEF vars, ProgramStep, ProgramCounter
  <1>10. CASE TakeSignal
    BY <1>10 DEF TakeSignal, Alive, ProgramStep, ProgramCounter
  <1>11. QED
    BY <1>2, <1>3, <1>4, <1>5, <1>6, <1>7, <1>8, <1>9, <1>10 DEF Next, Tracee

\* The debugger is transparent: through planting, hits, lifting, rewinding and
\* single steps, the program takes exactly the steps of its own control flow.
THEOREM ExecutionIsTransparent ==
  ASSUME Unambiguous
  PROVE  Spec => TransparentExecution
  <1>1. IInv /\ ResumesHits /\ [Next]_vars => [ProgramStep]_vars
    BY NextProgramStep
  <1>2. QED
    BY <1>1, Invariance, ResumesHitsInductive, PTL
    DEF Spec, TransparentExecution, ProgramStep

-----------------------------------------------------------------------------
(* What Separated adds, as long as the user lifts nothing with `bp off'.   *)

LEMMA PlacedStaysPlantedInductive ==
  ASSUME Separated, OffAddr = {}
  PROVE  /\ Init => PlacedStaysPlanted
         /\ IInv /\ PlacedStaysPlanted /\ [Next]_vars => PlacedStaysPlanted'
  <1>1. Init => PlacedStaysPlanted
    BY DEF Init, Placed, PlacedStaysPlanted
  <1>2. ASSUME IInv, PlacedStaysPlanted, [Next]_vars
        PROVE  PlacedStaysPlanted'
    <2>1. ASSUME NEW a \in BpAddr, BreakpointAtAddress(a)
          PROVE  PlacedStaysPlanted'
      <3>1. /\ mem'[a] = "INT3"
            /\ \A b \in Addr : b # a => mem'[b] = mem[b]
        BY <1>2, <2>1, PlantText DEF BreakpointAtAddress, IInv, TypeOK
      <3>2. Placed' \subseteq Placed \cup {a}
        BY <1>2, <2>1 DEF BreakpointAtAddress, Placed, IInv, TypeOK
      <3>3. dbg = "idle"
        BY <2>1 DEF BreakpointAtAddress
      <3>4. QED
        BY <1>2, <3>1, <3>2, <3>3, BpAddrInText
        DEF PlacedStaysPlanted, Placed
    <2>2. CASE ResumeDisable
      <3>1. /\ dbg = "disable" /\ dbg' = "rewind"
            /\ Placed' = Placed /\ bp' = bp
            /\ Poke(bp.address, bp.original)
        BY <2>2 DEF ResumeDisable, Placed
      <3>2. bp.address \in BpAddr
        BY <1>2, <3>1 DEF IInv, EntriesInv, Resuming, Placed
      <3>3. ASSUME NEW a \in Placed, a # bp.address
            PROVE  mem'[a] = "INT3"
        <4>1. a \in BpAddr /\ a \in Addr /\ a \in Int /\ bp.address \in Int
          BY <3>2, BpAddrInText DEF Placed
        <4>2. a < bp.address \/ bp.address + WordSize <= a
          BY <3>2, <3>3, <4>1 DEF Separated
        <4>3. a - bp.address \notin Offset
          BY <4>1, <4>2, LayoutAssumption DEF Offset
        <4>4. mem'[a] = mem[a]
          BY <3>1, <4>1, <4>3 DEF Poke
        <4>5. QED
          BY <1>2, <3>1, <4>4 DEF PlacedStaysPlanted
      <3>4. QED
        BY <3>1, <3>3 DEF PlacedStaysPlanted
    <2>3. CASE ResumeEnable
      <3>1. dbg = "enable" /\ Placed' = Placed
        BY <2>3 DEF ResumeEnable, Placed
      <3>2. bp.address \in BpAddr
        BY <1>2, <3>1 DEF IInv, EntriesInv, Resuming, Placed
      <3>3. /\ mem'[bp.address] = "INT3"
            /\ \A b \in Addr : b # bp.address => mem'[b] = mem[b]
        BY <1>2, <2>3, <3>2, PlantText DEF ResumeEnable, IInv, TypeOK
      <3>4. QED
        BY <1>2, <3>1, <3>3, BpAddrInText DEF PlacedStaysPlanted, Placed
    <2>4. CASE /\ UNCHANGED <<mem, breakpointsMap>>
               /\ \/ UNCHANGED <<dbg, bp>>
                  \/ dbg = "idle"
                  \/ dbg \in {"cont", "waiting"}
                  \/ /\ dbg' \in {"rawstep", "stepping", "enable"}
                     /\ bp' = bp
      BY <1>2, <2>4 DEF PlacedStaysPlanted, Placed
    <2>5. CASE Command
      BY <2>1, <2>4, <2>5
      DEF Command, DisableBreakpointAtAddress, PtraceStep, PtraceContinue,
          StopTraced, CommandOnGone, vars
    <2>6. CASE Debugger
      BY <2>2, <2>3, <2>4, <2>6
      DEF Debugger, PtraceBackwardStep, PtraceRawStep, ResumeContinue,
          WaitAndUpdateStatus
    <2>7. CASE Tracee
      BY <2>4, <2>7 DEF Tracee, TakeSignal, Execute, Trap, Fault, ExitEvent, Die
    <2>8. CASE UNCHANGED vars
      BY <2>4, <2>8 DEF vars
    <2>9. QED
      BY <1>2, <2>5, <2>6, <2>7, <2>8 DEF Next
  <1>3. QED
    BY <1>1, <1>2

\* With no two breakpoints inside one word, none is ever lost to the lifting of
\* another: each stays planted except while it is itself being stepped over.
THEOREM PlacedAlwaysPlanted ==
  ASSUME Separated, OffAddr = {}
  PROVE  Spec => []PlacedStaysPlanted
  BY PlacedStaysPlantedInductive, Invariance, PTL DEF Spec

\* resumeBreakpoint never plants an INT3 that was not there before it.
THEOREM ResumeLiftsOnlyPlanted ==
  ASSUME Separated, OffAddr = {}
  PROVE  Spec => []ResumeLiftsPlanted
  <1>1. IInv /\ PlacedStaysPlanted => ResumeLiftsPlanted
    BY DEF IInv, EntriesInv, Resuming, PlacedStaysPlanted, ResumeLiftsPlanted
  <1>2. QED
    BY <1>1, PlacedAlwaysPlanted, Invariance, PTL
================================================================================
