------------------------------ MODULE FlattenProofs ------------------------------
(***************************************************************************)
(* Lists that a loop builds: what FlattenSeq returns for every argument.   *)
(* Induction over the naturals is had from the well-foundedness of their   *)
(* order, as a statement about sets.                                       *)
(***************************************************************************)
EXTENDS SequencesExt, SequenceTheorems, WellFoundedInduction, TLAPS

\* Every set of naturals that is not empty has a least element.
LEMMA LeastElement ==
  ASSUME NEW T, T \subseteq Nat, T # {}
  PROVE  \E x \in T : \A y \in T : x <= y
<1> DEFINE R == {ss \in Nat \X Nat : ss[1] < ss[2]}
<1>1. IsWellFoundedOn(R, Nat)
  BY NatLessThanWellFounded DEF OpToRel
<1>2. PICK x \in T : \A y \in T : <<y, x>> \notin R
  <2> HIDE DEF R
  <2> QED
    BY <1>1, WFMin
<1>3. ASSUME NEW y \in T PROVE x <= y
  <2>1. <<y, x>> \notin R /\ x \in Nat /\ y \in Nat
    BY <1>2
  <2> QED
    BY <2>1
<1> QED
  BY <1>2, <1>3

\* A set with 0 and the successor of each of its members holds every natural.
LEMMA SetInduction ==
  ASSUME NEW S, 0 \in S, \A n \in Nat : n \in S => n + 1 \in S
  PROVE  Nat \subseteq S
<1> SUFFICES ASSUME Nat \ S # {} PROVE FALSE
  OBVIOUS
<1>1. PICK x \in Nat \ S : \A y \in Nat \ S : x <= y
  <2> DEFINE T == Nat \ S
  <2>1. T \subseteq Nat /\ T # {}
    OBVIOUS
  <2> HIDE DEF T
  <2>2. \E x \in T : \A y \in T : x <= y
    BY <2>1, LeastElement
  <2> QED
    BY <2>2 DEF T
<1>2. x # 0 /\ x - 1 \in Nat
  OBVIOUS
<1>3. x - 1 \in S
  BY <1>1, <1>2
<1> QED
  BY <1>2, <1>3

-----------------------------------------------------------------------------
(* The recursive function of FlattenSeq. *)

Body(parts, m, g) == [i \in 1 .. m |-> IF i = 1 THEN parts[i] ELSE g[i - 1] \o parts[i]]

\* The equation that FlattenSeq solves has a solution, whatever the parts are.
LEMMA BodyHasFixpoint ==
  ASSUME NEW parts, NEW n \in Nat
  PROVE  \E g : g = Body(parts, n, g)
<1> DEFINE S == {m \in Nat : \E g : g = Body(parts, m, g)}
<1>1. 0 \in S
  <2> DEFINE g == [i \in 1 .. 0 |-> parts[i]]
  <2>1. g = Body(parts, 0, g)
    BY DEF Body
  <2> HIDE DEF g
  <2> QED
    BY <2>1
<1>2. ASSUME NEW m \in Nat, m \in S PROVE m + 1 \in S
  <2>1. PICK g : g = Body(parts, m, g)
    BY <1>2
  <2> DEFINE h == [i \in 1 .. m + 1 |->
                     IF i = m + 1 THEN IF i = 1 THEN parts[i] ELSE g[m] \o parts[i]
                     ELSE g[i]]
  <2>2. ASSUME NEW i \in 1 .. m + 1
        PROVE  h[i] = IF i = 1 THEN parts[i] ELSE h[i - 1] \o parts[i]
    <3>1. CASE i = m + 1
      <4>1. i # 1 => i - 1 = m /\ m \in 1 .. m + 1 /\ m # m + 1
        BY <3>1
      <4> QED
        BY <3>1, <4>1
    <3>2. CASE i # m + 1
      <4>1. i \in 1 .. m /\ h[i] = g[i]
        BY <3>2
      <4>2. g[i] = IF i = 1 THEN parts[i] ELSE g[i - 1] \o parts[i]
        <5>1. Body(parts, m, g)[i] = IF i = 1 THEN parts[i] ELSE g[i - 1] \o parts[i]
          BY <4>1 DEF Body
        <5> QED
          BY <2>1, <5>1
      <4>3. i # 1 => i - 1 \in 1 .. m + 1 /\ i - 1 # m + 1
        BY <4>1
      <4>4. i # 1 => h[i - 1] = g[i - 1]
        BY <4>3
      <4> QED
        BY <4>1, <4>2, <4>4
    <3> QED
      BY <3>1, <3>2
  <2>3. h = Body(parts, m + 1, h)
    <3>1. h = [i \in 1 .. m + 1 |-> h[i]]
      OBVIOUS
    <3> HIDE DEF h
    <3> QED
      BY <2>2, <3>1 DEF Body
  <2> HIDE DEF h
  <2> QED
    BY <2>3
<1>3. Nat \subseteq S
  <2> HIDE DEF S
  <2> QED
    BY <1>1, <1>2, SetInduction
<1> QED
  BY <1>3

\* FlattenSeq appends one part after the other.
LEMMA FlattenSteps ==
  ASSUME NEW parts, Len(parts) \in Nat, Len(parts) # 0
  PROVE  \E g : /\ FlattenSeq(parts) = g[Len(parts)]
                /\ g[1] = parts[1]
                /\ \A i \in 2 .. Len(parts) : g[i] = g[i - 1] \o parts[i]
<1> DEFINE n == Len(parts)
           flatten == CHOOSE g : g = Body(parts, n, g)
<1>1. flatten = Body(parts, n, flatten)
  BY BodyHasFixpoint
<1>2. FlattenSeq(parts) = flatten[n]
  BY DEF FlattenSeq, Body
<1> HIDE DEF flatten
<1>3. ASSUME NEW i \in 1 .. n
      PROVE  flatten[i] = IF i = 1 THEN parts[i] ELSE flatten[i - 1] \o parts[i]
  <2>1. Body(parts, n, flatten)[i] =
          IF i = 1 THEN parts[i] ELSE flatten[i - 1] \o parts[i]
    BY DEF Body
  <2> QED
    BY <1>1, <2>1
<1>4. flatten[1] = parts[1]
  <2>1. 1 \in 1 .. n
    OBVIOUS
  <2> QED
    BY <1>3, <2>1
<1>5. ASSUME NEW i \in 2 .. n PROVE flatten[i] = flatten[i - 1] \o parts[i]
  <2>1. i \in 1 .. n /\ i # 1
    OBVIOUS
  <2> QED
    BY <1>3, <2>1
<1> QED
  BY <1>2, <1>4, <1>5

\* What a sequence holds.
Elements(s) == {s[i] : i \in DOMAIN s}

\* A function on 1 .. n to sequences is a row of parts.
LEMMA PartsType ==
  ASSUME NEW S, NEW n \in Nat, NEW parts, parts = [i \in 1 .. n |-> parts[i]],
         \A i \in 1 .. n : parts[i] \in Seq(S)
  PROVE  parts \in Seq(Seq(S)) /\ DOMAIN parts = 1 .. n
  OBVIOUS

\* Two sequences in a row hold what each of them holds.
LEMMA ConcatElements ==
  ASSUME NEW S, NEW s \in Seq(S), NEW t \in Seq(S)
  PROVE  /\ s \o t \in Seq(S)
         /\ Elements(s \o t) = Elements(s) \cup Elements(t)
<1>1. s \o t \in Seq(S) /\ Len(s \o t) = Len(s) + Len(t)
  OBVIOUS
<1>2. ASSUME NEW i \in DOMAIN s PROVE s[i] = (s \o t)[i] /\ i \in DOMAIN (s \o t)
  BY <1>1
<1>3. ASSUME NEW i \in DOMAIN t
      PROVE  t[i] = (s \o t)[Len(s) + i] /\ Len(s) + i \in DOMAIN (s \o t)
  BY <1>1
<1>4. ASSUME NEW i \in DOMAIN (s \o t)
      PROVE  \/ i \in DOMAIN s /\ (s \o t)[i] = s[i]
             \/ i - Len(s) \in DOMAIN t /\ (s \o t)[i] = t[i - Len(s)]
  BY <1>1
<1>5. Elements(s) \subseteq Elements(s \o t)
  BY <1>2 DEF Elements
<1>6. Elements(t) \subseteq Elements(s \o t)
  BY <1>3 DEF Elements
<1>7. Elements(s \o t) \subseteq Elements(s) \cup Elements(t)
  BY <1>4 DEF Elements
<1> QED
  BY <1>1, <1>5, <1>6, <1>7

\* What FlattenSeq returns holds the elements of the parts, and no other.
LEMMA FlattenElements ==
  ASSUME NEW S, NEW parts \in Seq(Seq(S))
  PROVE  /\ FlattenSeq(parts) \in Seq(S)
         /\ Elements(FlattenSeq(parts)) = UNION {Elements(parts[i]) : i \in DOMAIN parts}
<1> DEFINE n == Len(parts)
<1>1. n \in Nat /\ DOMAIN parts = 1 .. n /\ \A i \in 1 .. n : parts[i] \in Seq(S)
  BY ElementOfSeq
<1>2. CASE n = 0
  <2>1. FlattenSeq(parts) = parts /\ parts = <<>>
    BY <1>2, EmptySeq DEF FlattenSeq
  <2> QED
    BY <1>1, <1>2, <2>1 DEF Elements
<1>3. CASE n # 0
  <2>1. PICK g : /\ FlattenSeq(parts) = g[n]
                 /\ g[1] = parts[1]
                 /\ \A i \in 2 .. n : g[i] = g[i - 1] \o parts[i]
    BY <1>1, <1>3, FlattenSteps
  <2> DEFINE UpTo(m) == UNION {Elements(parts[i]) : i \in 1 .. m}
             T == {m \in Nat : m + 1 \in 1 .. n =>
                                 g[m + 1] \in Seq(S) /\ Elements(g[m + 1]) = UpTo(m + 1)}
  <2>2. 0 \in T
    <3>1. g[1] \in Seq(S)
      BY <1>1, <1>3, <2>1
    <3>2. UpTo(1) = Elements(parts[1])
      <4>1. 1 .. 1 = {1}
        OBVIOUS
      <4> QED
        BY <4>1
    <3> HIDE DEF UpTo
    <3> QED
      BY <2>1, <3>1, <3>2
  <2>3. ASSUME NEW m \in Nat, m \in T PROVE m + 1 \in T
    <3> SUFFICES ASSUME m + 2 \in 1 .. n
                 PROVE  g[m + 2] \in Seq(S) /\ Elements(g[m + 2]) = UpTo(m + 2)
      <4>1. (m + 1) + 1 = m + 2
        OBVIOUS
      <4> HIDE DEF UpTo
      <4> QED
        BY <4>1
    <3>1. /\ g[m + 1] \in Seq(S) /\ Elements(g[m + 1]) = UpTo(m + 1)
          /\ parts[m + 2] \in Seq(S)
      <4> HIDE DEF UpTo
      <4> QED
        BY <1>1, <2>3
    <3>2. g[m + 2] = g[m + 1] \o parts[m + 2]
      <4>1. m + 2 \in 2 .. n /\ (m + 2) - 1 = m + 1
        OBVIOUS
      <4> QED
        BY <2>1, <4>1
    <3>3. UpTo(m + 2) = UpTo(m + 1) \cup Elements(parts[m + 2])
      <4>1. 1 .. m + 2 = (1 .. m + 1) \cup {m + 2}
        OBVIOUS
      <4> QED
        BY <4>1
    <3>4. /\ g[m + 1] \o parts[m + 2] \in Seq(S)
          /\ Elements(g[m + 1] \o parts[m + 2]) =
               Elements(g[m + 1]) \cup Elements(parts[m + 2])
      <4> DEFINE s == g[m + 1]  t == parts[m + 2]
      <4>1. s \in Seq(S) /\ t \in Seq(S)
        BY <3>1
      <4> HIDE DEF s, t
      <4>2. s \o t \in Seq(S) /\ Elements(s \o t) = Elements(s) \cup Elements(t)
        BY <4>1, ConcatElements
      <4> QED
        BY <4>2 DEF s, t
    <3> HIDE DEF UpTo
    <3> QED
      BY <3>1, <3>2, <3>3, <3>4
  <2>4. Nat \subseteq T
    <3> HIDE DEF T
    <3> QED
      BY <2>2, <2>3, SetInduction
  <2>5. n - 1 \in T /\ (n - 1) + 1 = n /\ n \in 1 .. n
    <3>1. n - 1 \in Nat /\ (n - 1) + 1 = n /\ n \in 1 .. n
      BY <1>1, <1>3
    <3> HIDE DEF T
    <3> QED
      BY <2>4, <3>1
  <2>6. g[n] \in Seq(S) /\ Elements(g[n]) = UpTo(n)
    <3> HIDE DEF UpTo
    <3> QED
      BY <2>5
  <2> QED
    BY <1>1, <2>1, <2>6
<1> QED
  BY <1>2, <1>3
================================================================================
