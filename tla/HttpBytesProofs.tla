---------------------------- MODULE HttpBytesProofs ----------------------------
(***************************************************************************)
(* Strings and the bytes of HttpBytes, for the proofs about both ends of a *)
(* connection.                                                             *)
(*                                                                         *)
(* What the functions of LibUtils return for every string: find, the parts *)
(* of split_string and where they lie in the string, the parts put         *)
(* together again, strings written one behind the other, and lines that    *)
(* are split as they were written.  They are recursive functions; the      *)
(* lemmas at the beginning say when such a function exists and how a fact  *)
(* about it is proved from one end to the other.  Then what a piece of a   *)
(* message is that has been received, and what is still to come.           *)
(***************************************************************************)
EXTENDS HttpBytes, Integers, TLAPS, SequenceTheorems, WellFoundedInduction

-----------------------------------------------------------------------------
(* Recursion that goes towards an end of its input *)

\* A set of numbers that is not empty has a smallest one.
LEMMA SmallestOf ==
  ASSUME NEW T \in SUBSET Nat, T # {}
  PROVE  Min(T) \in T /\ \A n \in T : Min(T) <= n
<1> DEFINE less == OpToRel(<, Nat)
<1>1. IsWellFoundedOn(less, Nat)
  BY NatLessThanWellFounded
<1>2. PICK m \in T : \A n \in T : <<n, m>> \notin less
  <2> HIDE DEF less
  <2> QED
    BY <1>1, WFMin
<1>3. ASSUME NEW n \in T PROVE m <= n
  <2>1. SUFFICES ASSUME n < m PROVE FALSE
    OBVIOUS
  <2>2. <<n, m>> \in less
    BY <2>1 DEF OpToRel
  <2> QED
    BY <1>2, <2>2
<1> QED
  BY <1>3 DEF Min

\* Induction from the end: what holds behind last, and at p if it holds at
\* p + step, holds everywhere.
LEMMA FromTheEnd ==
  ASSUME NEW T \in SUBSET Nat, NEW last \in Nat, NEW step \in Nat \ {0},
         \A p \in Nat : p > last => p \in T,
         \A p \in Nat : p + step \in T => p \in T
  PROVE  T = Nat
<1> DEFINE Left == {n \in Nat : \E p \in Nat \ T : n = last - p}
<1>1. SUFFICES ASSUME NEW p \in Nat, p \notin T PROVE FALSE
  OBVIOUS
<1>2. p <= last
  BY <1>1
<1>3. last - p \in Left
  BY <1>1, <1>2
<1>4. Min(Left) \in Left /\ \A n \in Left : Min(Left) <= n
  BY <1>3, SmallestOf
<1>5. PICK q \in Nat \ T : Min(Left) = last - q
  BY <1>4
<1>6. q + step \notin T /\ q + step <= last
  BY <1>5
<1>7. last - (q + step) \in Left /\ last - (q + step) < Min(Left)
  BY <1>5, <1>6
<1> QED
  BY <1>4, <1>5, <1>7

\* The same where a step may be longer: p holds if everything behind it does.
LEMMA FromBehind ==
  ASSUME NEW T \in SUBSET Nat, NEW last \in Nat,
         \A p \in 1 .. last : (\A q \in (p + 1) .. last : q \in T) => p \in T
  PROVE  \A p \in 1 .. last : p \in T
<1> DEFINE Left == {n \in Nat : last - n \in 1 .. last /\ last - n \notin T}
<1>1. SUFFICES ASSUME NEW p \in 1 .. last, p \notin T PROVE FALSE
  OBVIOUS
<1>2. last - p \in Left
  BY <1>1
<1>3. Min(Left) \in Left /\ \A n \in Left : Min(Left) <= n
  BY <1>2, SmallestOf
<1>4. PICK m \in Nat : m = Min(Left) /\ last - m \in 1 .. last /\ last - m \notin T
  BY <1>3
<1>5. PICK q \in ((last - m) + 1) .. last : q \notin T
  BY <1>4
<1>6. last - q \in Left /\ last - q < m
  BY <1>4, <1>5
<1> QED
  BY <1>3, <1>4, <1>6

\* Induction from the start.
LEMMA FromTheStart ==
  ASSUME NEW T, NEW first \in Int, NEW last \in Int, first \in T,
         \A i \in first .. (last - 1) : i \in T => i + 1 \in T
  PROVE  \A i \in first .. last : i \in T
<1> DEFINE Left == {n \in Nat : first + n \in first .. last /\ first + n \notin T}
<1>1. SUFFICES ASSUME NEW i \in first .. last, i \notin T PROVE FALSE
  OBVIOUS
<1>2. i - first \in Left
  BY <1>1
<1>3. Min(Left) \in Left /\ \A n \in Left : Min(Left) <= n
  BY <1>2, SmallestOf
<1>4. PICK m \in Nat : m = Min(Left) /\ first + m \in first .. last /\ first + m \notin T
  BY <1>3
<1>5. m # 0
  BY <1>4
<1>6. m - 1 \in Nat /\ first + (m - 1) \in first .. (last - 1) /\ (first + (m - 1)) + 1 = first + m
  BY <1>4, <1>5
<1>7. first + (m - 1) \notin T
  BY <1>4, <1>6
<1>8. m - 1 \in Left
  BY <1>6, <1>7
<1> QED
  BY <1>3, <1>4, <1>8

\* A function that calls itself further on exists.
GoesOn(f, last, next, base, part) ==
    f = [p \in 1 .. last |-> IF next[p] = 0 THEN base[p] ELSE part[p] \o f[next[p]]]

LEMMA ThereIsOneTowardsTheEnd ==
  ASSUME NEW last \in Nat, NEW next, NEW base, NEW part,
         \A p \in 1 .. last : next[p] # 0 => next[p] \in (p + 1) .. last
  PROVE  \E f : GoesOn(f, last, next, base, part)
<1> DEFINE at(f, p) == IF next[p] = 0 THEN base[p] ELSE part[p] \o f[next[p]]
           Behind(q) == \E f : f = [p \in 1 .. last |-> f[p]]
                               /\ \A p \in 1 .. last : p >= q => f[p] = at(f, p)
           T == {q \in Nat : Behind(q)}
<1>1. ASSUME NEW q \in Nat, q > last PROVE q \in T
  <2> DEFINE e == [p \in 1 .. last |-> 0]
  <2>1. e = [p \in 1 .. last |-> e[p]]
    OBVIOUS
  <2>2. \A p \in 1 .. last : p >= q => e[p] = at(e, p)
    BY <1>1
  <2> HIDE DEF e, at
  <2>3. Behind(q)
    BY <2>1, <2>2
  <2> QED
    BY <2>3
<1>2. ASSUME NEW q \in Nat, q + 1 \in T PROVE q \in T
  <2>1. PICK f : f = [p \in 1 .. last |-> f[p]]
                 /\ \A p \in 1 .. last : p >= q + 1 => f[p] = at(f, p)
    BY <1>2
  <2> DEFINE g == [p \in 1 .. last |-> IF p = q THEN at(f, q) ELSE f[p]]
  <2>2. g = [p \in 1 .. last |-> g[p]]
    OBVIOUS
  <2>3. ASSUME NEW p \in 1 .. last, p >= q PROVE g[p] = at(g, p)
    <3>1. next[p] # 0 => g[next[p]] = f[next[p]]
      BY <2>3
    <3>2. at(g, p) = at(f, p)
      BY <3>1
    <3>3. CASE p = q
      BY <3>2, <3>3
    <3>4. CASE p # q
      <4>1. p >= q + 1
        BY <2>3, <3>4
      <4>2. g[p] = f[p]
        BY <3>4
      <4> HIDE DEF at, g
      <4> QED
        BY <2>1, <3>2, <4>1, <4>2
    <3> QED
      BY <3>3, <3>4
  <2> HIDE DEF g, at
  <2>4. Behind(q)
    BY <2>2, <2>3
  <2> QED
    BY <2>4
<1>3. 1 \in T
  <2>1. T \in SUBSET Nat /\ 1 \in Nat \ {0}
    OBVIOUS
  <2> HIDE DEF T
  <2>2. T = Nat
    BY <1>1, <1>2, <2>1, FromTheEnd
  <2> QED
    BY <2>2
<1>4. PICK f : f = [p \in 1 .. last |-> f[p]] /\ \A p \in 1 .. last : p >= 1 => f[p] = at(f, p)
  <2> HIDE DEF at
  <2> QED
    BY <1>3
<1>5. \A p \in 1 .. last : f[p] = at(f, p)
  <2> HIDE DEF at
  <2> QED
    BY <1>4
<1>6. f = [p \in 1 .. last |-> at(f, p)]
  <2> HIDE DEF at
  <2> QED
    BY <1>4, <1>5
<1> QED
  BY <1>6 DEF GoesOn

\* A function that calls itself one place before exists.
Accumulates(f, first, last, base, part) ==
    f = [i \in first .. last |-> IF i = first THEN base ELSE f[i - 1] \o part[i]]

LEMMA ThereIsOneFromTheStart ==
  ASSUME NEW first \in Int, NEW last \in Int, NEW base, NEW part
  PROVE  \E f : Accumulates(f, first, last, base, part)
<1> DEFINE at(f, i) == IF i = first THEN base ELSE f[i - 1] \o part[i]
           UpTo(q) == \E f : f = [i \in first .. last |-> f[i]]
                             /\ \A i \in first .. last : i <= q => f[i] = at(f, i)
           T == {q \in Int : UpTo(q)}
<1>1. first - 1 \in T
  <2> DEFINE e == [i \in first .. last |-> 0]
  <2>1. e = [i \in first .. last |-> e[i]]
    OBVIOUS
  <2>2. \A i \in first .. last : i <= first - 1 => e[i] = at(e, i)
    OBVIOUS
  <2> HIDE DEF e, at
  <2>3. UpTo(first - 1)
    BY <2>1, <2>2
  <2> QED
    BY <2>3
<1>2. ASSUME NEW q \in (first - 1) .. (last - 1), q \in T PROVE q + 1 \in T
  <2>1. PICK f : f = [i \in first .. last |-> f[i]]
                 /\ \A i \in first .. last : i <= q => f[i] = at(f, i)
    BY <1>2
  <2> DEFINE g == [i \in first .. last |-> IF i = q + 1 THEN at(f, q + 1) ELSE f[i]]
  <2>2. g = [i \in first .. last |-> g[i]]
    OBVIOUS
  <2>3. ASSUME NEW i \in first .. last, i <= q + 1 PROVE g[i] = at(g, i)
    <3>1. i # first => g[i - 1] = f[i - 1]
      BY <2>3
    <3>2. at(g, i) = at(f, i)
      BY <3>1
    <3>3. CASE i = q + 1
      BY <3>2, <3>3
    <3>4. CASE i # q + 1
      <4>1. i <= q
        BY <2>3, <3>4
      <4>2. g[i] = f[i]
        BY <3>4
      <4> HIDE DEF at, g
      <4> QED
        BY <2>1, <3>2, <4>1, <4>2
    <3> QED
      BY <3>3, <3>4
  <2> HIDE DEF g, at
  <2>4. UpTo(q + 1)
    BY <2>2, <2>3
  <2> QED
    BY <2>4
<1>3. CASE first <= last
  <2> HIDE DEF T
  <2>1. last \in T
    <3>1. first - 1 \in Int
      OBVIOUS
    <3>2. \A i \in (first - 1) .. last : i \in T
      BY <1>1, <1>2, <3>1, FromTheStart
    <3> QED
      BY <1>3, <3>2
  <2>2. PICK f : f = [i \in first .. last |-> f[i]]
                 /\ \A i \in first .. last : i <= last => f[i] = at(f, i)
    <3> HIDE DEF at
    <3> QED
      BY <2>1 DEF T
  <2>3. \A i \in first .. last : f[i] = at(f, i)
    <3> HIDE DEF at
    <3> QED
      BY <2>2
  <2>4. f = [i \in first .. last |-> at(f, i)]
    <3> HIDE DEF at
    <3> QED
      BY <2>2, <2>3
  <2> QED
    BY <2>4 DEF Accumulates
<1>4. CASE ~(first <= last)
  <2> DEFINE e == [i \in first .. last |-> 0]
  <2>1. e = [i \in first .. last |-> at(e, i)]
    <3>1. \A i \in first .. last : FALSE
      BY <1>4
    <3> QED
      BY <3>1, Zenon
  <2> HIDE DEF e
  <2> QED
    BY <2>1 DEF Accumulates
<1> QED
  BY <1>3, <1>4

-----------------------------------------------------------------------------
(* find *)

\* find returns the first place, or npos if there is none.
LEMMA FindIs ==
  ASSUME NEW S, NEW s \in Seq(S), NEW d \in Seq(S), NEW start \in Nat \ {0}
  PROVE  \/ /\ Find(s, d, start) = NPos
            /\ \A p \in start .. (Len(s) + 1 - Len(d)) : ~IsAt(s, d, p)
         \/ /\ Find(s, d, start) \in start .. (Len(s) + 1 - Len(d))
            /\ IsAt(s, d, Find(s, d, start))
            /\ \A p \in start .. (Find(s, d, start) - 1) : ~IsAt(s, d, p)
<1> DEFINE places == {p \in start .. (Len(s) + 1 - Len(d)) : IsAt(s, d, p)}
<1>1. Find(s, d, start) = IF places = {} THEN NPos ELSE Min(places)
  BY DEF Find
<1>2. Len(s) \in Nat /\ Len(d) \in Nat
  OBVIOUS
<1>3. CASE places = {}
  BY <1>1, <1>3
<1>4. CASE places # {}
  <2>1. places \in SUBSET Nat
    BY <1>2
  <2>2. Min(places) \in places /\ \A n \in places : Min(places) <= n
    <3> HIDE DEF places
    <3> QED
      BY <1>4, <2>1, SmallestOf
  <2>3. PICK m \in Nat : m = Min(places) /\ m \in places
    BY <2>1, <2>2
  <2>4. ASSUME NEW p \in start .. (m - 1) PROVE ~IsAt(s, d, p)
    <3>1. p \in start .. (Len(s) + 1 - Len(d)) /\ ~(m <= p)
      BY <1>2, <2>3
    <3> QED
      BY <2>2, <2>3, <3>1
  <2>5. Find(s, d, start) = m
    BY <1>1, <1>4, <2>3
  <2> QED
    BY <2>3, <2>4, <2>5
<1> QED
  BY <1>3, <1>4

LEMMA FindIsContains ==
  ASSUME NEW S, NEW s \in Seq(S), NEW d \in Seq(S)
  PROVE  Contains(s, d) <=> Find(s, d, 1) # NPos
<1>1. Len(s) \in Nat /\ Len(d) \in Nat
  OBVIOUS
<1> QED
  BY <1>1, FindIs DEF Contains, NPos

-----------------------------------------------------------------------------
(* split_string *)

IsSplit(f, s, d) ==
    \A p \in 1 .. (Len(s) + 1) :
      f[p] = IF Find(s, d, p) # NPos
             THEN <<SubSeq(s, p, Find(s, d, p) - 1)>> \o f[Find(s, d, p) + Len(d)]
             ELSE IF p <= Len(s) THEN <<SubSeq(s, p, Len(s))>> ELSE <<>>

LEMMA SplitUnfolds ==
  ASSUME NEW S, NEW s \in Seq(S), NEW d \in Seq(S), Len(d) > 0
  PROVE  \E f : IsSplit(f, s, d) /\ SplitString(s, d) = f[1]
<1> DEFINE Is(f) == f = [start \in 1 .. (Len(s) + 1) |->
                           LET pos == Find(s, d, start)
                           IN  IF pos # NPos THEN <<SubSeq(s, start, pos - 1)>> \o f[pos + Len(d)]
                               ELSE IF start <= Len(s) THEN <<SubSeq(s, start, Len(s))>>
                               ELSE <<>>]
           last == Len(s) + 1
           next == [p \in 1 .. last |-> IF Find(s, d, p) # NPos THEN Find(s, d, p) + Len(d) ELSE 0]
           base == [p \in 1 .. last |-> IF p <= Len(s) THEN <<SubSeq(s, p, Len(s))>> ELSE <<>>]
           part == [p \in 1 .. last |-> <<SubSeq(s, p, Find(s, d, p) - 1)>>]
<1>1. last \in Nat /\ Len(s) \in Nat /\ Len(d) \in Nat \ {0}
  OBVIOUS
<1>2. ASSUME NEW p \in 1 .. last, Find(s, d, p) # NPos
      PROVE  Find(s, d, p) + Len(d) \in (p + 1) .. last
  <2>1. p \in Nat \ {0}
    OBVIOUS
  <2>2. Find(s, d, p) \in p .. (Len(s) + 1 - Len(d))
    BY <1>2, <2>1, FindIs
  <2> QED
    BY <1>1, <2>2
<1>3. \A p \in 1 .. last : next[p] # 0 => next[p] \in (p + 1) .. last
  BY <1>2
<1>4. PICK f : GoesOn(f, last, next, base, part)
  <2> HIDE DEF next, base, part, last
  <2> QED
    BY <1>1, <1>3, ThereIsOneTowardsTheEnd
<1>5. ASSUME NEW g, Is(g) PROVE IsSplit(g, s, d)
  BY <1>5, Zenon DEF IsSplit
<1>6. IsSplit(f, s, d) /\ f = [p \in 1 .. last |-> f[p]]
  <2>1. ASSUME NEW p \in 1 .. last
        PROVE  f[p] = IF next[p] = 0 THEN base[p] ELSE part[p] \o f[next[p]]
    <3> HIDE DEF next, base, part, last
    <3> QED
      BY <1>4 DEF GoesOn
  <2>2. ASSUME NEW p \in 1 .. last, Find(s, d, p) # NPos
        PROVE  f[p] = <<SubSeq(s, p, Find(s, d, p) - 1)>> \o f[Find(s, d, p) + Len(d)]
    <3>1. next[p] = Find(s, d, p) + Len(d) /\ part[p] = <<SubSeq(s, p, Find(s, d, p) - 1)>>
      BY <2>2
    <3>2. next[p] # 0
      BY <1>2, <2>2, <3>1
    <3> HIDE DEF next, base, part
    <3> QED
      BY <2>1, <3>1, <3>2
  <2>3. ASSUME NEW p \in 1 .. last, Find(s, d, p) = NPos
        PROVE  f[p] = IF p <= Len(s) THEN <<SubSeq(s, p, Len(s))>> ELSE <<>>
    <3>1. next[p] = 0 /\ base[p] = IF p <= Len(s) THEN <<SubSeq(s, p, Len(s))>> ELSE <<>>
      BY <2>3
    <3> HIDE DEF next, base, part
    <3> QED
      BY <2>1, <3>1
  <2>4. f = [p \in 1 .. last |-> f[p]]
    <3> HIDE DEF next, base, part, last
    <3> QED
      BY <1>4 DEF GoesOn
  <2> QED
    BY <2>2, <2>3, <2>4 DEF IsSplit
<1>7. Is(f)
  BY <1>6, Zenon DEF IsSplit
<1>8. SplitString(s, d) = (CHOOSE g : Is(g))[1]
  BY DEF SplitString
<1> HIDE DEF Is
<1>9. Is(CHOOSE g : Is(g))
  BY <1>7
<1> QED
  BY <1>5, <1>8, <1>9

\* A part lies from place a on, and a delimiter ends at b, the first one from a on.
Cut(s, d, a, b, part) ==
    /\ a <= b - Len(d)
    /\ part = SubSeq(s, a, b - Len(d) - 1)
    /\ IsAt(s, d, b - Len(d))
    /\ \A p \in a .. (b - Len(d) - 1) : ~IsAt(s, d, p)

\* A last part lies from place a on, and no delimiter follows.
Remains(s, d, a, part) ==
    /\ a <= Len(s)
    /\ part = SubSeq(s, a, Len(s))
    /\ \A p \in a .. (Len(s) + 1 - Len(d)) : ~IsAt(s, d, p)

\* The places where the parts of s from "start" on begin, and the end of s.
Lie(places, S, parts, s, d, start) ==
    /\ parts \in Seq(Seq(S))
    /\ places \in Seq(1 .. (Len(s) + 1)) /\ Len(places) = Len(parts) + 1
    /\ places[1] = start /\ places[Len(places)] = Len(s) + 1
    /\ \A i \in 1 .. Len(parts) :
         \/ Cut(s, d, places[i], places[i + 1], parts[i])
         \/ i = Len(parts) /\ Remains(s, d, places[i], parts[i])

LEMMA OneMorePart ==
  ASSUME NEW S, NEW s \in Seq(S), NEW d \in Seq(S), NEW a \in 1 .. (Len(s) + 1), NEW b, NEW x \in Seq(S),
         NEW parts, NEW places, Lie(places, S, parts, s, d, b), Cut(s, d, a, b, x)
  PROVE  Lie(<<a>> \o places, S, <<x>> \o parts, s, d, a)
<1> DEFINE more == <<x>> \o parts
           from == <<a>> \o places
<1>1. /\ parts \in Seq(Seq(S)) /\ places \in Seq(1 .. (Len(s) + 1))
      /\ Len(places) = Len(parts) + 1 /\ places[1] = b /\ places[Len(places)] = Len(s) + 1
  BY DEF Lie
<1>2. /\ more \in Seq(Seq(S)) /\ Len(more) = Len(parts) + 1
      /\ \A i \in 1 .. Len(parts) + 1 : more[i] = IF i = 1 THEN x ELSE parts[i - 1]
  <2>1. <<x>> \in Seq(Seq(S)) /\ Len(<<x>>) = 1 /\ <<x>>[1] = x
    OBVIOUS
  <2> QED
    BY <1>1, <2>1, ConcatProperties
<1>3. /\ from \in Seq(1 .. (Len(s) + 1)) /\ Len(from) = Len(places) + 1
      /\ \A i \in 1 .. Len(places) + 1 : from[i] = IF i = 1 THEN a ELSE places[i - 1]
  <2>1. <<a>> \in Seq(1 .. (Len(s) + 1)) /\ Len(<<a>>) = 1 /\ <<a>>[1] = a
    OBVIOUS
  <2> QED
    BY <1>1, <2>1, ConcatProperties
<1> HIDE DEF more, from
<1>4. PICK n \in Nat : n = Len(parts)
  BY <1>1
<1>5. from[1] = a /\ from[Len(from)] = Len(s) + 1
  <2>1. Len(from) = n + 2 /\ from[n + 2] = places[n + 1]
    BY <1>1, <1>3, <1>4
  <2> QED
    BY <1>1, <1>3, <1>4, <2>1
<1>6. ASSUME NEW i \in 1 .. Len(more)
      PROVE  \/ Cut(s, d, from[i], from[i + 1], more[i])
             \/ i = Len(more) /\ Remains(s, d, from[i], more[i])
  <2>1. CASE i = 1
    <3>1. 1 \in 1 .. Len(parts) + 1 /\ 1 \in 1 .. Len(places) + 1 /\ 2 \in 1 .. Len(places) + 1
          /\ 1 + 1 = 2 /\ 2 - 1 = 1
      BY <1>1, <1>4
    <3>2. from[1] = a /\ from[2] = places[1] /\ more[1] = x
      BY <1>2, <1>3, <3>1
    <3>3. places[1] = b
      BY <1>1
    <3>4. Cut(s, d, from[1], from[2], more[1])
      BY <3>2, <3>3, Zenon
    <3> QED
      BY <2>1, <3>1, <3>4, Zenon
  <2>2. CASE i # 1
    <3>1. i - 1 \in 1 .. n
      BY <1>2, <1>4, <2>2
    <3>2. from[i] = places[i - 1] /\ from[i + 1] = places[(i - 1) + 1] /\ more[i] = parts[i - 1]
      <4>1. /\ i \in 1 .. Len(places) + 1 /\ i + 1 \in 1 .. Len(places) + 1 /\ i \in 1 .. Len(parts) + 1
            /\ i # 1 /\ i + 1 # 1 /\ (i + 1) - 1 = (i - 1) + 1
        <5>1. PICK j \in Nat : j = i /\ j \in 2 .. n + 1
          BY <1>2, <1>4, <2>2
        <5>2. Len(places) = n + 1
          BY <1>1, <1>4
        <5> QED
          BY <1>4, <5>1, <5>2
      <4>2. from[i] = places[i - 1]
        BY <1>3, <4>1
      <4>3. from[i + 1] = places[(i + 1) - 1]
        BY <1>3, <4>1
      <4>4. more[i] = parts[i - 1]
        BY <1>2, <4>1
      <4> QED
        BY <4>1, <4>2, <4>3, <4>4
    <3>3. \/ Cut(s, d, places[i - 1], places[(i - 1) + 1], parts[i - 1])
          \/ i - 1 = Len(parts) /\ Remains(s, d, places[i - 1], parts[i - 1])
      BY <1>4, <3>1 DEF Lie
    <3>4. i - 1 = Len(parts) => i = Len(more)
      BY <1>2, <1>4, <2>2
    <3> QED
      BY <3>2, <3>3, <3>4
  <2> QED
    BY <2>1, <2>2
<1>7. Lie(from, S, more, s, d, a)
  BY <1>1, <1>2, <1>3, <1>5, <1>6 DEF Lie
<1> QED
  BY <1>7 DEF more, from

\* The parts of split_string are what lies between the delimiters.
LEMMA PartsLie ==
  ASSUME NEW S, NEW s \in Seq(S), NEW d \in Seq(S), Len(d) > 0
  PROVE  \E places : Lie(places, S, SplitString(s, d), s, d, 1)
<1>1. PICK f : IsSplit(f, s, d) /\ SplitString(s, d) = f[1]
  BY SplitUnfolds
<1> DEFINE T == {p \in Nat : \E places : Lie(places, S, f[p], s, d, p)}
           last == Len(s) + 1
<1>2. Len(s) \in Nat /\ Len(d) \in Nat \ {0} /\ last \in Nat
  OBVIOUS
<1>3. ASSUME NEW p \in 1 .. last, \A q \in (p + 1) .. last : q \in T PROVE p \in T
  <2>1. \/ /\ Find(s, d, p) = NPos
           /\ \A q \in p .. (Len(s) + 1 - Len(d)) : ~IsAt(s, d, q)
        \/ /\ Find(s, d, p) \in p .. (Len(s) + 1 - Len(d))
           /\ IsAt(s, d, Find(s, d, p))
           /\ \A q \in p .. (Find(s, d, p) - 1) : ~IsAt(s, d, q)
    <3>1. p \in Nat \ {0}
      OBVIOUS
    <3> QED
      BY <3>1, FindIs
  <2>2. f[p] = IF Find(s, d, p) # NPos
               THEN <<SubSeq(s, p, Find(s, d, p) - 1)>> \o f[Find(s, d, p) + Len(d)]
               ELSE IF p <= Len(s) THEN <<SubSeq(s, p, Len(s))>> ELSE <<>>
    BY <1>1 DEF IsSplit
  <2>3. CASE Find(s, d, p) # NPos
    <3>1. PICK pos \in Nat : pos = Find(s, d, p)
      BY <2>1, <2>3
    <3>2. pos + Len(d) \in (p + 1) .. last /\ pos \in p .. Len(s)
      BY <1>2, <2>1, <2>3, <3>1
    <3>3. PICK places : Lie(places, S, f[pos + Len(d)], s, d, pos + Len(d))
      BY <1>3, <3>2
    <3> DEFINE x == SubSeq(s, p, pos - 1)
    <3>4. x \in Seq(S)
      <4>1. \A i \in p .. (pos - 1) : s[i] \in S
        BY <1>2, <3>2, ElementOfSeq
      <4> QED
        BY <4>1, SubSeqProperties
    <3>5. Cut(s, d, p, pos + Len(d), x)
      <4>1. (pos + Len(d)) - Len(d) = pos
        BY <1>2
      <4> QED
        <5>1. p <= pos /\ IsAt(s, d, pos) /\ \A r \in p .. (pos - 1) : ~IsAt(s, d, r)
          BY <2>1, <2>3, <3>1, <3>2
        <5> QED
          BY <4>1, <5>1 DEF Cut
    <3>6. f[p] = <<x>> \o f[pos + Len(d)]
      BY <2>2, <2>3, <3>1
    <3>7. p \in 1 .. (Len(s) + 1)
      OBVIOUS
    <3> HIDE DEF x
    <3>8. Lie(<<p>> \o places, S, <<x>> \o f[pos + Len(d)], s, d, p)
      BY <3>3, <3>4, <3>5, <3>7, OneMorePart
    <3> DEFINE from == <<p>> \o places
    <3>9. Lie(from, S, f[p], s, d, p)
      BY <3>6, <3>8
    <3> HIDE DEF from
    <3> QED
      BY <3>9
  <2>4. CASE Find(s, d, p) = NPos /\ p <= Len(s)
    <3> DEFINE x == SubSeq(s, p, Len(s))
    <3>1. f[p] = <<x>>
      BY <2>2, <2>4
    <3>2. \A q \in p .. (Len(s) + 1 - Len(d)) : ~IsAt(s, d, q)
      BY <1>2, <2>1, <2>4 DEF NPos
    <3>3. x \in Seq(S)
      <4>1. \A i \in p .. Len(s) : s[i] \in S
        BY <1>2, ElementOfSeq
      <4> QED
        BY <4>1, SubSeqProperties
    <3>4. Remains(s, d, p, x)
      BY <2>4, <3>2 DEF Remains
    <3> HIDE DEF x
    <3>5. Lie(<<p, last>>, S, <<x>>, s, d, p)
      <4>1. <<p, last>> \in Seq(1 .. (Len(s) + 1)) /\ <<x>> \in Seq(Seq(S))
        BY <3>3
      <4>2. Len(<<p, last>>) = 2 /\ Len(<<x>>) = 1 /\ <<p, last>>[1] = p /\ <<p, last>>[2] = Len(s) + 1
            /\ <<x>>[1] = x
        OBVIOUS
      <4>3. \A i \in 1 .. 1 : i = 1
        OBVIOUS
      <4> QED
        BY <3>4, <4>1, <4>2, <4>3 DEF Lie
    <3> DEFINE from == <<p, last>>
    <3>6. Lie(from, S, f[p], s, d, p)
      BY <3>1, <3>5
    <3> HIDE DEF from
    <3> QED
      BY <3>6
  <2>5. CASE Find(s, d, p) = NPos /\ p > Len(s)
    <3>1. f[p] = <<>> /\ p = last
      BY <2>2, <2>5
    <3>2. Lie(<<last>>, S, <<>>, s, d, last)
      <4>1. <<last>> \in Seq(1 .. (Len(s) + 1)) /\ <<>> \in Seq(Seq(S)) /\ Len(<<last>>) = 1
            /\ Len(<<>>) = 0 /\ <<last>>[1] = Len(s) + 1
        OBVIOUS
      <4> QED
        BY <4>1 DEF Lie
    <3> QED
      BY <3>1, <3>2
  <2> QED
    BY <2>3, <2>4, <2>5
<1>4. 1 \in T
  <2>1. T \in SUBSET Nat
    OBVIOUS
  <2> HIDE DEF T
  <2>2. \A p \in 1 .. last : p \in T
    BY <1>2, <1>3, <2>1, FromBehind
  <2> QED
    BY <1>2, <2>2
<1> QED
  BY <1>1, <1>4

Assoc(a, b, c) == (a \o b) \o c = a \o (b \o c)

LEMMA Associative ==
  ASSUME NEW S, NEW a \in Seq(S), NEW b \in Seq(S), NEW c \in Seq(S)
  PROVE  Assoc(a, b, c)
  BY ConcatAssociative, SMTT(40) DEF Assoc

\* w is a and then b.
Together(w, a, b, S) ==
    /\ w \in Seq(S) /\ Len(w) = Len(a) + Len(b)
    /\ \A i \in 1 .. Len(a) + Len(b) : w[i] = IF i <= Len(a) THEN a[i] ELSE b[i - Len(a)]

LEMMA PutTogether ==
  ASSUME NEW S, NEW a \in Seq(S), NEW b \in Seq(S)
  PROVE  Together(a \o b, a, b, S)
  BY ConcatProperties DEF Together

\* s is x and then d.
Ahead(s, x, d, S) ==
    /\ s \in Seq(S) /\ Len(s) = Len(d) + 1
    /\ s[1] = x /\ \A k \in 1 .. Len(d) : s[k + 1] = d[k]

LEMMA OneAhead ==
  ASSUME NEW S, NEW x \in S, NEW d \in Seq(S)
  PROVE  Ahead(<<x>> \o d, x, d, S)
<1>1. PICK n \in Nat : n = Len(d)
  OBVIOUS
<1>2. PICK h \in Seq(S) : h = <<x>> /\ Len(h) = 1 /\ h[1] = x
  <2>1. <<x>> \in Seq(S) /\ Len(<<x>>) = 1 /\ <<x>>[1] = x
    OBVIOUS
  <2> QED
    BY <2>1, Zenon
<1>9. Together(h \o d, h, d, S)
  BY PutTogether
<1>3. h \o d \in Seq(S) /\ Len(h \o d) = 1 + n
  BY <1>1, <1>2, <1>9 DEF Together
<1>4. \A k \in 1 .. 1 + n : (h \o d)[k] = IF k <= 1 THEN h[k] ELSE d[k - 1]
  BY <1>1, <1>2, <1>9 DEF Together
<1>5. (h \o d)[1] = x
  BY <1>2, <1>4
<1>6. ASSUME NEW k \in 1 .. n PROVE (h \o d)[k + 1] = d[k]
  <2>1. k + 1 \in 1 .. 1 + n /\ ~(k + 1 <= 1) /\ (k + 1) - 1 = k
    OBVIOUS
  <2> QED
    BY <1>4, <2>1
<1>7. Len(h \o d) = n + 1
  BY <1>3
<1>8. Ahead(h \o d, x, d, S)
  BY <1>1, <1>3, <1>5, <1>6, <1>7 DEF Ahead
<1> QED
  BY <1>2, <1>8, Zenon

\* What lies in a string is a part of it.
LEMMA PieceOf ==
  ASSUME NEW S, NEW s \in Seq(S), NEW a \in Nat \ {0}, NEW b \in Int, b <= Len(s)
  PROVE  /\ SubSeq(s, a, b) \in Seq(S)
         /\ Len(SubSeq(s, a, b)) = IF a <= b THEN b - a + 1 ELSE 0
         /\ \A i \in 1 .. (b - a + 1) : SubSeq(s, a, b)[i] = s[a + i - 1]
<1>1. \A i \in a .. b : s[i] \in S
  BY ElementOfSeq
<1> QED
  BY <1>1, SubSeqProperties

Meets(s, a, m, b) == SubSeq(s, a, m) \o SubSeq(s, m + 1, b) = SubSeq(s, a, b)

LEMMA PiecesMeet ==
  ASSUME NEW S, NEW s \in Seq(S), NEW a \in Nat \ {0}, NEW m \in Int, NEW b \in Int,
         a <= m + 1, m <= b, b <= Len(s)
  PROVE  Meets(s, a, m, b)
<1>1. a \in 1 .. (Len(s) + 1) /\ m \in (a - 1) .. Len(s) /\ b \in m .. Len(s)
  OBVIOUS
<1> QED
  BY <1>1, ConcatAdjacentSubSeq DEF Meets

LEMMA WhatIsAt ==
  ASSUME NEW S, NEW s \in Seq(S), NEW d \in Seq(S), NEW p \in Nat \ {0},
         p + Len(d) <= Len(s) + 1, IsAt(s, d, p)
  PROVE  SubSeq(s, p, p + Len(d) - 1) = d
<1> DEFINE x == SubSeq(s, p, p + Len(d) - 1)
<1>1. PICK n \in Nat : n = Len(d)
  OBVIOUS
<1>2. p + n - 1 \in Int /\ p + n - 1 <= Len(s) /\ (p + n - 1) - p + 1 = n
  BY <1>1
<1>3. /\ x \in Seq(S) /\ Len(x) = n
      /\ \A i \in 1 .. n : x[i] = s[p + i - 1]
  <2>1. x = SubSeq(s, p, p + n - 1)
    BY <1>1
  <2> HIDE DEF x
  <2>2. /\ x \in Seq(S) /\ Len(x) = IF p <= p + n - 1 THEN (p + n - 1) - p + 1 ELSE 0
        /\ \A i \in 1 .. ((p + n - 1) - p + 1) : x[i] = s[p + i - 1]
    BY <1>2, <2>1, PieceOf
  <2> QED
    BY <1>2, <2>2
<1>4. \A i \in 1 .. n : x[i] = d[i]
  <2> HIDE DEF x
  <2>1. \A i \in 1 .. n : s[p + i - 1] = d[i]
    BY <1>1 DEF IsAt
  <2> QED
    BY <1>3, <2>1
<1> HIDE DEF x
<1>5. x = d
  BY <1>1, <1>3, <1>4, SeqEqual
<1> QED
  BY <1>5 DEF x

LEMMA PartsInOrder ==
  ASSUME NEW S, NEW s \in Seq(S), NEW d \in Seq(S), NEW parts, NEW places, NEW start,
         Lie(places, S, parts, s, d, start), NEW i \in 1 .. Len(parts)
  PROVE  /\ places[i] \in 1 .. (Len(s) + 1) /\ places[i + 1] \in 1 .. (Len(s) + 1)
         /\ places[i] <= places[i + 1]
<1>1. /\ places \in Seq(1 .. (Len(s) + 1)) /\ Len(places) = Len(parts) + 1
      /\ parts \in Seq(Seq(S)) /\ places[Len(places)] = Len(s) + 1
  BY DEF Lie
<1>2. PICK n \in Nat : n = Len(parts)
  BY <1>1
<1>3. i \in 1 .. Len(places) /\ i + 1 \in 1 .. Len(places)
  BY <1>1, <1>2
<1>4. places[i] \in 1 .. (Len(s) + 1) /\ places[i + 1] \in 1 .. (Len(s) + 1)
  BY <1>1, <1>3, ElementOfSeq
<1>5. CASE Cut(s, d, places[i], places[i + 1], parts[i])
  <2>1. Len(d) \in Nat
    OBVIOUS
  <2> QED
    BY <1>4, <1>5, <2>1 DEF Cut
<1>6. CASE i = Len(parts)
  BY <1>1, <1>4, <1>6
<1> QED
  BY <1>4, <1>5, <1>6 DEF Lie

\* Where the i-th part ends.
EndOf(places, parts, s, d, i) ==
    IF Cut(s, d, places[i], places[i + 1], parts[i]) THEN places[i + 1] - Len(d) - 1 ELSE Len(s)

LEMMA PartIsPiece ==
  ASSUME NEW S, NEW s \in Seq(S), NEW d \in Seq(S), NEW parts, NEW places, NEW start,
         Lie(places, S, parts, s, d, start), NEW i \in 1 .. Len(parts)
  PROVE  /\ EndOf(places, parts, s, d, i) \in Int
         /\ places[i] - 1 <= EndOf(places, parts, s, d, i)
         /\ EndOf(places, parts, s, d, i) <= Len(s)
         /\ parts[i] = SubSeq(s, places[i], EndOf(places, parts, s, d, i))
<1>1. /\ places[i] \in 1 .. (Len(s) + 1) /\ places[i + 1] \in 1 .. (Len(s) + 1)
  BY PartsInOrder
<1>2. Len(d) \in Nat /\ Len(s) \in Nat
  OBVIOUS
<1>3. PICK a \in Nat, b \in Nat, n \in Nat, l \in Nat :
        /\ a = places[i] /\ b = places[i + 1] /\ n = Len(d) /\ l = Len(s)
        /\ a <= l + 1 /\ b <= l + 1
  BY <1>1, <1>2
<1> DEFINE e == EndOf(places, parts, s, d, i)
<1>4. CASE Cut(s, d, a, b, parts[i])
  <2>1. e = b - n - 1
    BY <1>3, <1>4 DEF EndOf
  <2>2. a <= b - n /\ parts[i] = SubSeq(s, a, b - n - 1)
    BY <1>3, <1>4 DEF Cut
  <2> HIDE DEF e
  <2>3. e \in Int /\ a - 1 <= e /\ e <= l
    <3>1. a <= b - n /\ b <= l + 1
      BY <1>3, <2>2
    <3>2. b - n - 1 \in Int /\ a - 1 <= b - n - 1 /\ b - n - 1 <= l
      BY <3>1
    <3> QED
      BY <2>1, <3>2
  <2> QED
    BY <1>3, <2>1, <2>2, <2>3 DEF e
<1>5. CASE ~Cut(s, d, a, b, parts[i])
  <2>1. Remains(s, d, a, parts[i])
    BY <1>3, <1>5 DEF Lie
  <2>2. e = l
    BY <1>3, <1>5 DEF EndOf
  <2>3. a <= l /\ parts[i] = SubSeq(s, a, l)
    BY <1>3, <2>1 DEF Remains
  <2> HIDE DEF e
  <2>4. e \in Int /\ a - 1 <= e /\ e <= l
    BY <1>3, <2>2, <2>3
  <2> QED
    BY <1>3, <2>2, <2>3, <2>4 DEF e
<1> QED
  BY <1>4, <1>5

\* The parts from the second on, with the delimiters between them, are what lies
\* in the string from the second place to the end of the last one.
Joins(g, parts, d) ==
    \A i \in 2 .. Len(parts) : g[i] = IF i = 2 THEN parts[2] ELSE (g[i - 1] \o d) \o parts[i]

LEMMA JoinedParts ==
  ASSUME NEW S, NEW s \in Seq(S), NEW d \in Seq(S), NEW parts, NEW places, NEW start,
         Lie(places, S, parts, s, d, start), NEW g, Joins(g, parts, d)
  PROVE  \A i \in 2 .. Len(parts) :
           /\ places[2] <= places[i]
           /\ g[i] = SubSeq(s, places[2], EndOf(places, parts, s, d, i))
<1> DEFINE e(i) == EndOf(places, parts, s, d, i)
           T == {i \in Int : places[2] <= places[i] /\ g[i] = SubSeq(s, places[2], e(i))}
<1>1. Len(parts) \in Nat /\ Len(d) \in Nat /\ Len(s) \in Nat
  BY DEF Lie
<1> SUFFICES ASSUME 2 <= Len(parts) PROVE \A i \in 2 .. Len(parts) : i \in T
  BY <1>1
<1>2. \A i \in 1 .. Len(parts) : places[i] \in 1 .. (Len(s) + 1) /\ places[i + 1] \in 1 .. (Len(s) + 1)
  BY PartsInOrder
<1>3. \A i \in 1 .. Len(parts) : /\ e(i) \in Int /\ places[i] - 1 <= e(i) /\ e(i) <= Len(s)
                                 /\ parts[i] = SubSeq(s, places[i], e(i))
  BY PartIsPiece
<1>4. 2 \in T
  <2>1. 2 \in 1 .. Len(parts) /\ 2 \in 2 .. Len(parts)
    BY <1>1
  <2>2. g[2] = parts[2]
    BY <2>1 DEF Joins
  <2>3. places[2] \in 1 .. (Len(s) + 1) /\ parts[2] = SubSeq(s, places[2], e(2))
    <3> HIDE DEF e
    <3> QED
      BY <1>2, <1>3, <2>1
  <2> HIDE DEF e
  <2>4. places[2] <= places[2]
    BY <1>1, <2>3
  <2> QED
    BY <2>2, <2>3, <2>4
<1>5. ASSUME NEW i \in 2 .. (Len(parts) - 1), i \in T PROVE i + 1 \in T
  <2>1. i \in 1 .. Len(parts) /\ i + 1 \in 2 .. Len(parts) /\ i + 1 \in 1 .. Len(parts) /\ i # Len(parts)
    BY <1>1
  <2>2. Cut(s, d, places[i], places[i + 1], parts[i])
    BY <2>1 DEF Lie
  <2>3. PICK a \in Nat \ {0}, b \in Nat \ {0}, c \in Int, n \in Nat :
          a = places[2] /\ b = places[i + 1] /\ c = e(i + 1) /\ n = Len(d)
    <3>1. 2 \in 1 .. Len(parts)
      BY <1>1
    <3>2. e(i + 1) \in Int
      BY <1>3, <2>1
    <3> HIDE DEF e
    <3> QED
      BY <1>1, <1>2, <2>1, <3>1, <3>2
  <2>4. e(i) = b - n - 1
    BY <2>2, <2>3 DEF EndOf
  <2>5. /\ a <= places[i] /\ places[i] <= b - n /\ places[i] \in 1 .. (Len(s) + 1)
        /\ b \in 1 .. (Len(s) + 1) /\ b - 1 <= c /\ c <= Len(s)
    <3>1. places[2] <= places[i]
      BY <1>5
    <3>2. places[i + 1] - 1 <= e(i + 1) /\ e(i + 1) <= Len(s)
      BY <1>3, <2>1
    <3> HIDE DEF e
    <3> QED
      BY <1>2, <2>1, <2>2, <2>3, <3>1, <3>2 DEF Cut
  <2>6. g[i] = SubSeq(s, a, b - n - 1)
    BY <1>5, <2>3, <2>4
  <2>7. d = SubSeq(s, b - n, b - 1)
    <3>1. b - n \in Nat \ {0} /\ (b - n) + n <= Len(s) + 1 /\ (b - n) + n - 1 = b - 1
      BY <1>1, <2>5
    <3>2. IsAt(s, d, b - n)
      BY <2>2, <2>3 DEF Cut
    <3> QED
      BY <2>3, <3>1, <3>2, WhatIsAt
  <2>8. parts[i + 1] = SubSeq(s, b, c)
    BY <1>3, <2>1, <2>3
  <2>9. g[i] \o d = SubSeq(s, a, b - 1)
    <3>1. /\ b - n - 1 \in Int /\ b - 1 \in Int /\ a <= (b - n - 1) + 1 /\ b - n - 1 <= b - 1
          /\ b - 1 <= Len(s) /\ (b - n - 1) + 1 = b - n
      BY <1>1, <2>5
    <3>2. Meets(s, a, b - n - 1, b - 1)
      BY <3>1, PiecesMeet
    <3>3. SubSeq(s, (b - n - 1) + 1, b - 1) = d
      BY <2>7, <3>1, Zenon
    <3> QED
      BY <2>6, <3>2, <3>3, Zenon DEF Meets
  <2>10. (g[i] \o d) \o parts[i + 1] = SubSeq(s, a, c)
    <3>1. b - 1 \in Int /\ a <= (b - 1) + 1 /\ b - 1 <= c /\ c <= Len(s) /\ (b - 1) + 1 = b
      BY <1>1, <2>5
    <3>2. Meets(s, a, b - 1, c)
      BY <3>1, PiecesMeet
    <3>3. SubSeq(s, (b - 1) + 1, c) = parts[i + 1]
      BY <2>8, <3>1, Zenon
    <3> QED
      BY <2>9, <3>2, <3>3, Zenon DEF Meets
  <2>11. g[i + 1] = (g[i] \o d) \o parts[i + 1]
    <3>1. i + 1 # 2 /\ (i + 1) - 1 = i
      OBVIOUS
    <3> QED
      BY <2>1, <3>1 DEF Joins
  <2>12. places[2] <= places[i + 1]
    <3>1. PICK m \in Nat : m = places[i]
      BY <1>1, <2>5
    <3>2. a <= m /\ m <= b - n
      BY <2>5, <3>1
    <3>3. a <= b
      BY <3>2
    <3> QED
      BY <2>3, <3>3
  <2> HIDE DEF e
  <2> QED
    BY <2>3, <2>10, <2>11, <2>12
<1>6. 2 \in Int /\ Len(parts) \in Int
  BY <1>1
<1> HIDE DEF T
<1> QED
  BY <1>4, <1>5, <1>6, FromTheStart

\* p is the first place of d in s.
FirstAt(s, d, p) ==
    /\ p \in Nat \ {0} /\ p + Len(d) <= Len(s) + 1 /\ IsAt(s, d, p)
    /\ \A q \in 1 .. (p - 1) : ~IsAt(s, d, q)

\* The first part ends before the first delimiter.
LEMMA FirstPart ==
  ASSUME NEW S, NEW s \in Seq(S), NEW d \in Seq(S), Len(d) > 0, NEW parts, NEW places,
         Lie(places, S, parts, s, d, 1), NEW p, FirstAt(s, d, p)
  PROVE  /\ Len(parts) >= 1
         /\ Cut(s, d, 1, places[2], parts[1])
         /\ parts[1] = SubSeq(s, 1, p - 1)
         /\ places[2] = p + Len(d)
<1> p \in Nat \ {0} /\ p + Len(d) <= Len(s) + 1 /\ IsAt(s, d, p) /\ \A q \in 1 .. (p - 1) : ~IsAt(s, d, q)
  BY DEF FirstAt
<1>1. PICK n \in Nat, l \in Nat : n = Len(d) /\ l = Len(s) /\ n > 0 /\ p + n <= l + 1
  OBVIOUS
<1>2. PICK m \in Nat : m = Len(parts)
  BY DEF Lie
<1>3. places[1] = 1 /\ places[m + 1] = l + 1
  BY <1>1, <1>2 DEF Lie
<1>4. m >= 1
  <2>1. m # 0
    BY <1>1, <1>3
  <2> QED
    BY <2>1
<1>5. 1 \in 1 .. Len(parts)
  BY <1>2, <1>4
<1>6. ~Remains(s, d, 1, parts[1])
  <2>1. p \in 1 .. (Len(s) + 1 - Len(d))
    BY <1>1
  <2> QED
    BY <2>1 DEF Remains
<1>7. Cut(s, d, 1, places[2], parts[1])
  <2>1. 1 + 1 = 2
    OBVIOUS
  <2> QED
    BY <1>3, <1>5, <1>6, <2>1 DEF Lie
<1>8. PICK b \in Nat : b = places[2]
  <2>1. places[1 + 1] \in 1 .. (Len(s) + 1)
    BY <1>5, PartsInOrder
  <2> QED
    BY <1>1, <2>1
<1>9. /\ 1 <= b - n /\ IsAt(s, d, b - n) /\ parts[1] = SubSeq(s, 1, b - n - 1)
      /\ \A q \in 1 .. (b - n - 1) : ~IsAt(s, d, q)
  BY <1>1, <1>7, <1>8 DEF Cut
<1>10. b - n = p
  <2>1. ~(b - n < p)
    <3>1. b - n < p => b - n \in 1 .. (p - 1)
      BY <1>9
    <3> QED
      BY <1>9, <3>1
  <2>2. ~(p < b - n)
    <3>1. p < b - n => p \in 1 .. (b - n - 1)
      OBVIOUS
    <3> QED
      BY <1>9, <3>1
  <2> QED
    BY <2>1, <2>2
<1>11. b = p + n /\ b - n - 1 = p - 1
  BY <1>10
<1> QED
  BY <1>1, <1>2, <1>4, <1>7, <1>8, <1>9, <1>11

\* Without a delimiter in it, a string that is not empty is the only part.
LEMMA OnlyPart ==
  ASSUME NEW S, NEW s \in Seq(S), NEW d \in Seq(S), Len(d) > 0, s # <<>>, ~Contains(s, d)
  PROVE  SplitString(s, d) = <<s>>
<1> DEFINE parts == SplitString(s, d)
<1>1. PICK places : Lie(places, S, parts, s, d, 1)
  BY PartsLie
<1> HIDE DEF parts
<1>2. PICK n \in Nat, l \in Nat, m \in Nat : n = Len(d) /\ l = Len(s) /\ m = Len(parts) /\ n > 0 /\ l > 0
  <2>1. Len(s) # 0
    BY EmptySeq
  <2> QED
    BY <1>1, <2>1 DEF Lie
<1>3. \A p \in 1 .. (l + 1 - n) : ~IsAt(s, d, p)
  BY <1>2 DEF Contains
<1>4. places[1] = 1 /\ places[m + 1] = l + 1
  BY <1>1, <1>2 DEF Lie
<1>5. m # 0
  BY <1>2, <1>4
<1>6. 1 \in 1 .. Len(parts)
  BY <1>2, <1>5
<1>7. places[1 + 1] \in 1 .. (l + 1)
  BY <1>1, <1>2, <1>6, PartsInOrder
<1>8. ~Cut(s, d, places[1], places[1 + 1], parts[1])
  <2>1. PICK b \in Nat : b = places[1 + 1] /\ b <= l + 1
    BY <1>2, <1>7
  <2>2. 1 <= b - n => b - n \in 1 .. (l + 1 - n)
    BY <2>1
  <2> QED
    BY <1>2, <1>3, <1>4, <2>1, <2>2 DEF Cut
<1>9. 1 = Len(parts) /\ Remains(s, d, 1, parts[1])
  BY <1>1, <1>4, <1>6, <1>8 DEF Lie
<1>10. parts[1] = s
  BY <1>9, SubSeqFull DEF Remains
<1>11. parts \in Seq(Seq(S))
  BY <1>1 DEF Lie
<1>12. parts = <<parts[1]>>
  BY <1>9, <1>11
<1> QED
  BY <1>10, <1>12 DEF parts

LEMMA PartsAreStrings ==
  ASSUME NEW S, NEW s \in Seq(S), NEW d \in Seq(S), Len(d) > 0
  PROVE  /\ SplitString(s, d) \in Seq(Seq(S))
         /\ s # <<>> => SplitString(s, d) # <<>>
<1>1. PICK places : Lie(places, S, SplitString(s, d), s, d, 1)
  BY PartsLie
<1>2. SplitString(s, d) \in Seq(Seq(S))
  BY <1>1 DEF Lie
<1>3. ASSUME SplitString(s, d) = <<>> PROVE s = <<>>
  <2>1. Len(SplitString(s, d)) = 0
    BY <1>3
  <2>2. Len(places) = 1 /\ places[1] = 1 /\ places[Len(places)] = Len(s) + 1
    BY <1>1, <2>1 DEF Lie
  <2>3. Len(s) = 0
    BY <2>2
  <2> QED
    BY <2>3, EmptySeq
<1> QED
  BY <1>2, <1>3

\* The parts can be put together again as a recursive function does it.
LEMMA JoiningExists ==
  ASSUME NEW S, NEW parts \in Seq(Seq(S)), NEW d \in Seq(S)
  PROVE  \E f : /\ f = [i \in 1 .. Len(parts) |-> f[i]]
                /\ \A i \in 1 .. Len(parts) :
                     f[i] = IF i = 1 THEN <<>> ELSE IF i = 2 THEN parts[2]
                            ELSE (f[i - 1] \o d) \o parts[i]
<1> DEFINE part == [i \in 1 .. Len(parts) |-> IF i = 2 THEN parts[2] ELSE d \o parts[i]]
<1>1. PICK n \in Nat : n = Len(parts)
  OBVIOUS
<1>2. PICK f : Accumulates(f, 1, n, <<>>, part)
  <2>1. 1 \in Int /\ n \in Int
    OBVIOUS
  <2> HIDE DEF part
  <2> QED
    BY <2>1, ThereIsOneFromTheStart
<1>3. f = [i \in 1 .. n |-> f[i]]
  BY <1>2 DEF Accumulates
<1>4. ASSUME NEW i \in 1 .. n PROVE f[i] = IF i = 1 THEN <<>> ELSE f[i - 1] \o part[i]
  <2> HIDE DEF part
  <2> QED
    BY <1>2 DEF Accumulates
<1>5. \A i \in 1 .. n : parts[i] \in Seq(S)
  BY <1>1, ElementOfSeq
<1>6. \A i \in 1 .. n : part[i] = IF i = 2 THEN parts[2] ELSE d \o parts[i]
  BY <1>1
<1> HIDE DEF part
<1>7. \A i \in 1 .. n : part[i] \in Seq(S)
  <2>1. ASSUME NEW i \in 1 .. n PROVE d \o parts[i] \in Seq(S)
    <3>1. PICK x \in Seq(S) : x = parts[i]
      BY <1>5
    <3> QED
      BY <3>1, ConcatProperties
  <2> QED
    BY <1>5, <1>6, <2>1, Zenon
<1>8. \A i \in 1 .. n : f[i] \in Seq(S)
  <2> DEFINE T == {i \in Int : f[i] \in Seq(S)}
  <2>1. CASE n = 0
    BY <2>1
  <2>2. CASE n > 0
    <3>1. 1 \in T
      <4>1. 1 \in 1 .. n
        BY <2>2
      <4>2. f[1] = <<>>
        BY <1>4, <4>1
      <4>3. <<>> \in Seq(S)
        OBVIOUS
      <4>4. f[1] \in Seq(S)
        BY <4>2, <4>3
      <4> QED
        BY <4>4
    <3>2. ASSUME NEW i \in 1 .. (n - 1), i \in T PROVE i + 1 \in T
      <4>1. i + 1 \in 1 .. n /\ i + 1 # 1 /\ (i + 1) - 1 = i
        OBVIOUS
      <4>2. f[i + 1] = f[i] \o part[i + 1]
        BY <1>4, <4>1
      <4>3. f[i + 1] \in Seq(S)
        BY <1>7, <3>2, <4>1, <4>2, ConcatProperties
      <4> QED
        BY <4>1, <4>3
    <3>3. 1 \in Int /\ n \in Int
      OBVIOUS
    <3> HIDE DEF T
    <3>4. \A i \in 1 .. n : i \in T
      BY <3>1, <3>2, <3>3, FromTheStart
    <3> QED
      BY <3>4 DEF T
  <2> QED
    BY <2>1, <2>2
<1>9. ASSUME NEW i \in 1 .. n
      PROVE  f[i] = IF i = 1 THEN <<>> ELSE IF i = 2 THEN parts[2] ELSE (f[i - 1] \o d) \o parts[i]
  <2>1. CASE i = 1
    BY <1>4, <2>1
  <2>2. CASE i = 2
    <3>1. f[1] = <<>> /\ f[2] = f[1] \o part[2] /\ part[2] = parts[2] /\ parts[2] \in Seq(S)
      <4>1. 1 \in 1 .. n /\ 2 \in 1 .. n /\ 2 - 1 = 1
        BY <2>2
      <4>2. f[1] = <<>>
        BY <1>4, <4>1
      <4>3. f[2] = f[2 - 1] \o part[2]
        <5>1. 2 \in 1 .. n /\ 2 # 1
          BY <4>1
        <5> QED
          BY <1>4, <5>1
      <4> QED
        BY <1>5, <1>6, <4>1, <4>2, <4>3
    <3>2. <<>> \o parts[2] = parts[2]
      BY <3>1, ConcatEmptySeq
    <3> QED
      BY <2>2, <3>1, <3>2
  <2>3. CASE i > 2
    <3>1. i - 1 \in 1 .. n /\ i # 1 /\ i # 2
      BY <2>3
    <3>2. f[i - 1] \in Seq(S) /\ parts[i] \in Seq(S)
      BY <1>5, <1>8, <3>1
    <3>3. f[i] = f[i - 1] \o (d \o parts[i])
      BY <1>4, <1>6, <3>1
    <3>4. (f[i - 1] \o d) \o parts[i] = f[i - 1] \o (d \o parts[i])
      <4>1. PICK x \in Seq(S), y \in Seq(S) : x = f[i - 1] /\ y = parts[i]
        BY <3>2
      <4>2. (x \o d) \o y = x \o (d \o y)
        <5>1. Assoc(x, d, y)
          BY Associative
        <5> QED
          BY <5>1, Zenon DEF Assoc
      <4> QED
        BY <4>1, <4>2
    <3> QED
      BY <3>1, <3>3, <3>4
  <2> QED
    BY <2>1, <2>2, <2>3
<1> QED
  BY <1>1, <1>3, <1>9

-----------------------------------------------------------------------------
(* A single character *)

\* A set of places in a string that is not empty has a largest one.
LEMMA LargestOf ==
  ASSUME NEW n \in Nat, NEW T \in SUBSET (1 .. n), T # {}
  PROVE  Max(T) \in T /\ \A p \in T : Max(T) >= p
<1> DEFINE Left == {k \in Nat : \E p \in T : k = n - p}
<1>1. PICK q \in T : TRUE
  OBVIOUS
<1>2. n - q \in Left
  BY <1>1
<1>3. Min(Left) \in Left /\ \A k \in Left : Min(Left) <= k
  <2>1. Left \in SUBSET Nat /\ Left # {}
    BY <1>2
  <2> HIDE DEF Left
  <2> QED
    BY <2>1, SmallestOf
<1>4. PICK m \in T : Min(Left) = n - m
  BY <1>3
<1>5. ASSUME NEW p \in T PROVE m >= p
  <2>1. n - p \in Left
    OBVIOUS
  <2> HIDE DEF Left
  <2>2. n - m <= n - p
    BY <1>3, <1>4, <2>1
  <2>3. m \in Nat /\ p \in Nat
    OBVIOUS
  <2> QED
    BY <2>2, <2>3
<1> QED
  BY <1>5 DEF Max

\* find of a single character.
LEMMA FindsOne ==
  ASSUME NEW S, NEW s \in Seq(S), NEW c \in S
  PROVE  \/ /\ Find(s, <<c>>, 1) = NPos
            /\ \A p \in 1 .. Len(s) : s[p] # c
         \/ /\ Find(s, <<c>>, 1) \in 1 .. Len(s) /\ s[Find(s, <<c>>, 1)] = c
            /\ \A p \in 1 .. (Find(s, <<c>>, 1) - 1) : s[p] # c
<1>1. <<c>> \in Seq(S) /\ Len(<<c>>) = 1 /\ <<c>>[1] = c
  OBVIOUS
<1>2. PICK l \in Nat : l = Len(s)
  OBVIOUS
<1>3. ASSUME NEW p \in Nat PROVE IsAt(s, <<c>>, p) <=> s[p] = c
  <2>1. \A k \in 1 .. 1 : k = 1 /\ p + k - 1 = p
    OBVIOUS
  <2> QED
    BY <1>1, <2>1 DEF IsAt
<1>4. PICK f : f = Find(s, <<c>>, 1)
  OBVIOUS
<1>5. \/ /\ f = NPos
         /\ \A p \in 1 .. (l + 1 - 1) : ~IsAt(s, <<c>>, p)
      \/ /\ f \in 1 .. (l + 1 - 1) /\ IsAt(s, <<c>>, f)
         /\ \A p \in 1 .. (f - 1) : ~IsAt(s, <<c>>, p)
  <2>1. 1 \in Nat \ {0}
    OBVIOUS
  <2> QED
    BY <1>1, <1>2, <1>4, <2>1, FindIs
<1>6. l + 1 - 1 = l
  OBVIOUS
<1> QED
  BY <1>2, <1>3, <1>4, <1>5, <1>6

\* find says whether the character is there.
LEMMA ContainsOne ==
  ASSUME NEW S, NEW s \in Seq(S), NEW c \in S
  PROVE  Contains(s, <<c>>) <=> \E p \in 1 .. Len(s) : s[p] = c
<1>1. <<c>> \in Seq(S)
  OBVIOUS
<1>2. Contains(s, <<c>>) <=> Find(s, <<c>>, 1) # NPos
  BY <1>1, FindIsContains
<1>3. Len(s) \in Nat
  OBVIOUS
<1> QED
  BY <1>2, <1>3, FindsOne DEF NPos

-----------------------------------------------------------------------------
(* One string after the other *)

\* What Concat has put together up to a place.
Grows(f, S, strings) ==
    \A i \in 1 .. Len(strings) :
      f[i] \in Seq(S) /\ f[i] = IF i = 1 THEN strings[1] ELSE f[i - 1] \o strings[i]

\* Concat puts string after string to what it has.
LEMMA ConcatUnfolds ==
  ASSUME NEW S, NEW strings \in Seq(Seq(S)), strings # <<>>
  PROVE  \E f : Grows(f, S, strings) /\ Concat(strings) = f[Len(strings)]
<1>1. PICK n \in Nat : n = Len(strings) /\ n >= 1
  <2>1. Len(strings) \in Nat \ {0}
    BY EmptySeq
  <2> QED
    BY <2>1
<1> DEFINE Is(f) == f = [i \in 1 .. Len(strings) |-> IF i = 1 THEN strings[i] ELSE f[i - 1] \o strings[i]]
<1>2. Concat(strings) = (CHOOSE f : Is(f))[Len(strings)]
  BY <1>1 DEF Concat, Ext!FlattenSeq
<1>3. PICK f : Accumulates(f, 1, n, strings[1], strings)
  <2>1. 1 \in Int /\ n \in Int
    OBVIOUS
  <2> HIDE DEF Is
  <2> QED
    BY <2>1, ThereIsOneFromTheStart
<1>4. Is(f)
  BY <1>1, <1>3, Zenon DEF Accumulates
<1>5. PICK g : Is(g) /\ Concat(strings) = g[n]
  <2> HIDE DEF Is
  <2>1. Is(CHOOSE h : Is(h))
    BY <1>4
  <2> QED
    BY <1>1, <1>2, <2>1
<1>6. ASSUME NEW i \in 1 .. n PROVE g[i] = IF i = 1 THEN strings[1] ELSE g[i - 1] \o strings[i]
  <2>1. g[i] = IF i = 1 THEN strings[i] ELSE g[i - 1] \o strings[i]
    BY <1>1, <1>5, Zenon
  <2> QED
    BY <2>1
<1> HIDE DEF Is
<1> DEFINE T == {i \in Int : g[i] \in Seq(S)}
<1>7. 1 \in T
  <2>1. g[1] = strings[1] /\ strings[1] \in Seq(S)
    BY <1>1, <1>6, ElementOfSeq
  <2> QED
    BY <2>1
<1>8. ASSUME NEW i \in 1 .. (n - 1), i \in T PROVE i + 1 \in T
  <2>1. i + 1 \in 1 .. n /\ (i + 1) - 1 = i /\ i + 1 # 1
    BY <1>1
  <2>2. g[i + 1] = g[i] \o strings[i + 1]
    BY <1>6, <2>1
  <2>3. g[i] \in Seq(S) /\ strings[i + 1] \in Seq(S)
    BY <1>1, <1>8, <2>1, ElementOfSeq
  <2>4. g[i] \o strings[i + 1] \in Seq(S)
    BY <2>3, ConcatProperties
  <2>5. g[i + 1] \in Seq(S) /\ i + 1 \in Int
    BY <2>1, <2>2, <2>4
  <2> QED
    BY <2>5
<1>9. \A i \in 1 .. n : i \in T
  <2> HIDE DEF T
  <2>1. 1 \in Int /\ n \in Int
    OBVIOUS
  <2> QED
    BY <1>7, <1>8, <2>1, FromTheStart
<1> QED
  BY <1>1, <1>5, <1>6, <1>9 DEF Grows

LEMMA ConcatOfNone == Concat(<<>>) = <<>>
BY DEF Concat, Ext!FlattenSeq

\* The parts of split_string from the second on, joined, are what lies in the
\* string from where the second begins to where the last ends.
LEMMA RejoinedParts ==
  ASSUME NEW S, NEW s \in Seq(S), NEW d \in Seq(S), NEW parts, NEW places,
         Lie(places, S, parts, s, d, 1), Len(parts) >= 2
  PROVE  Join(Tail(parts), d) = SubSeq(s, places[2], EndOf(places, parts, s, d, Len(parts)))
<1>1. PICK n \in Nat : n = Len(parts) /\ n >= 2
  BY DEF Lie
<1>2. parts \in Seq(Seq(S)) /\ parts # <<>>
  BY <1>1 DEF Lie
<1> DEFINE t == Tail(parts)
           mids == [k \in 1 .. Len(t) - 1 |-> d \o t[k + 1]]
<1>3. t \in Seq(Seq(S)) /\ Len(t) = n - 1 /\ \A i \in 1 .. n - 1 : t[i] = parts[i + 1]
  BY <1>1, <1>2, HeadTailProperties
<1>4. t # <<>> /\ Head(t) = parts[2]
  <2> HIDE DEF t
  <2>1. Len(t) # 0 /\ t[1] = parts[2]
    BY <1>1, <1>3
  <2> QED
    BY <1>3, <2>1
<1>5. Join(t, d) = parts[2] \o Concat(mids)
  <2> HIDE DEF t
  <2> QED
    BY <1>4 DEF Join
<1>6. \A i \in 1 .. n : parts[i] \in Seq(S)
  BY <1>1, <1>2, ElementOfSeq
<1>7. /\ mids \in Seq(Seq(S)) /\ Len(mids) = n - 2
      /\ \A k \in 1 .. n - 2 : mids[k] = d \o parts[k + 2] /\ mids[k] \in Seq(S)
  <2> HIDE DEF t
  <2>1. Len(t) - 1 = n - 2 /\ n - 2 \in Nat
    BY <1>1, <1>3
  <2>2. ASSUME NEW k \in 1 .. n - 2 PROVE d \o t[k + 1] = d \o parts[k + 2] /\ d \o parts[k + 2] \in Seq(S)
    <3>1. k + 1 \in 1 .. n - 1 /\ (k + 1) + 1 = k + 2 /\ k + 2 \in 1 .. n
      BY <1>1
    <3>2. t[k + 1] = parts[k + 2] /\ parts[k + 2] \in Seq(S)
      BY <1>3, <1>6, <3>1
    <3> QED
      BY <3>2, ConcatProperties
  <2>3. mids = [k \in 1 .. n - 2 |-> d \o t[k + 1]]
    BY <2>1
  <2>4. \A k \in 1 .. n - 2 : mids[k] = d \o parts[k + 2] /\ mids[k] \in Seq(S)
    BY <2>2, <2>3
  <2>5. mids = [k \in 1 .. n - 2 |-> mids[k]]
    BY <2>3
  <2>6. PICK m \in Nat : m = n - 2
    BY <2>1
  <2> HIDE DEF mids
  <2>7. mids \in [1 .. m -> Seq(S)]
    BY <2>4, <2>5, <2>6
  <2>8. mids \in Seq(Seq(S)) /\ Len(mids) = m
    BY <2>7
  <2> QED
    BY <2>4, <2>6, <2>8
<1> HIDE DEF t, mids
<1>8. PICK g : Joins(g, parts, d) /\ Join(t, d) = g[n]
  <2>1. CASE n = 2
    <3>1. mids = <<>>
      <4>1. Len(mids) = 0
        BY <1>7, <2>1
      <4> QED
        BY <1>7, <4>1, EmptySeq
    <3>2. Join(t, d) = parts[2]
      <4>1. parts[2] \in Seq(S)
        BY <1>1, <1>6
      <4>2. parts[2] \o <<>> = parts[2]
        BY <4>1, ConcatEmptySeq
      <4> QED
        BY <1>5, <3>1, <4>2, ConcatOfNone
    <3>3. \A i \in 2 .. Len(parts) : i = 2
      BY <1>1, <2>1
    <3> DEFINE g == [i \in {2} |-> parts[2]]
    <3>4. g[2] = parts[2]
      OBVIOUS
    <3>5. Joins(g, parts, d)
      BY <3>3, <3>4, Zenon DEF Joins
    <3> HIDE DEF g
    <3> QED
      BY <2>1, <3>2, <3>4, <3>5
  <2>2. CASE n # 2
    <3>1. n >= 3
      BY <1>1, <2>2
    <3>2. PICK f : Grows(f, S, mids) /\ Concat(mids) = f[Len(mids)]
      <4>1. mids # <<>>
        BY <1>7, <3>1
      <4> QED
        BY <1>7, <4>1, ConcatUnfolds
    <3> DEFINE g == [i \in 2 .. n |-> IF i = 2 THEN parts[2] ELSE parts[2] \o f[i - 2]]
    <3>3. Join(t, d) = g[n]
      <4>1. Len(mids) = n - 2 /\ n \in 2 .. n
        BY <1>1, <1>7
      <4> QED
        BY <1>5, <2>2, <3>2, <4>1
    <3>4. ASSUME NEW i \in 2 .. n, i # 2 PROVE g[i] = (g[i - 1] \o d) \o parts[i]
      <4>1. i - 2 \in 1 .. n - 2 /\ (i - 2) + 2 = i /\ i - 1 \in 2 .. n /\ (i - 1) - 2 = (i - 2) - 1
            /\ i \in 1 .. n /\ 2 \in 1 .. n
        BY <1>1, <3>4
      <4>2. mids[i - 2] = d \o parts[i] /\ parts[i] \in Seq(S) /\ parts[2] \in Seq(S)
        BY <1>6, <1>7, <4>1
      <4>3. g[i] = parts[2] \o f[i - 2]
        BY <3>4
      <4>4. f[i - 2] = IF i - 2 = 1 THEN mids[1] ELSE f[(i - 2) - 1] \o mids[i - 2]
        BY <1>7, <3>2, <4>1 DEF Grows
      <4>5. d \o parts[i] \in Seq(S)
        BY <4>2, ConcatProperties
      <4>6. CASE i = 3
        <5>1. i - 2 = 1 /\ i - 1 = 2
          BY <4>6
        <5>2. f[1] = d \o parts[3] /\ g[2] = parts[2]
          <6>1. f[1] = mids[1]
            BY <4>4, <5>1
          <6>2. mids[1] = d \o parts[3]
            BY <4>2, <5>1, <4>6
          <6>3. g[2] = parts[2]
            BY <4>1, <5>1
          <6> QED
            BY <6>1, <6>2, <6>3
        <5>3. PICK x \in Seq(S), y \in Seq(S) : x = parts[2] /\ y = parts[i]
          BY <4>2
        <5>4. (x \o d) \o y = x \o (d \o y)
          <6>1. Assoc(x, d, y)
            BY Associative
          <6> QED
            BY <6>1, Zenon DEF Assoc
        <5>5. g[i] = x \o f[1]
          BY <4>3, <5>1, <5>3
        <5>6. f[1] = d \o y /\ g[i - 1] = x
          BY <4>6, <5>1, <5>2, <5>3
        <5> HIDE DEF g
        <5> QED
          BY <5>3, <5>4, <5>5, <5>6, Zenon
      <4>7. CASE i # 3
        <5>1. i - 2 # 1 /\ i - 1 # 2 /\ (i - 2) - 1 \in 1 .. n - 2
          BY <3>4, <4>1, <4>7
        <5>2. f[(i - 2) - 1] \in Seq(S)
          BY <1>7, <3>2, <5>1 DEF Grows
        <5>3. PICK x \in Seq(S), y \in Seq(S), b \in Seq(S) :
                x = parts[2] /\ y = parts[i] /\ b = f[(i - 2) - 1]
          BY <4>2, <5>2
        <5>4. f[i - 2] = b \o (d \o y)
          BY <4>2, <4>4, <5>1, <5>3
        <5>5. g[i - 1] = x \o b
          BY <4>1, <5>1, <5>3
        <5>6. PICK u \in Seq(S), v \in Seq(S) : u = x \o b /\ v = d \o y
          BY ConcatProperties
        <5>7. x \o (b \o v) = u \o v
          <6>1. Assoc(x, b, v)
            BY Associative
          <6> QED
            BY <5>6, <6>1, Zenon DEF Assoc
        <5>8. (u \o d) \o y = u \o v
          <6>1. Assoc(u, d, y)
            BY Associative
          <6> QED
            BY <5>6, <6>1, Zenon DEF Assoc
        <5>9. g[i] = x \o f[i - 2]
          BY <4>3, <5>3
        <5> HIDE DEF g
        <5> QED
          BY <5>3, <5>4, <5>5, <5>6, <5>7, <5>8, <5>9, Zenon
      <4> QED
        BY <4>6, <4>7
    <3>5. g[2] = parts[2]
      BY <1>1
    <3> HIDE DEF g
    <3>6. Joins(g, parts, d)
      BY <1>1, <3>4, <3>5, Zenon DEF Joins
    <3> QED
      BY <3>3, <3>6
  <2> QED
    BY <2>1, <2>2
<1>9. n \in 2 .. Len(parts)
  BY <1>1
<1>10. g[n] = SubSeq(s, places[2], EndOf(places, parts, s, d, n))
  BY <1>8, <1>9, JoinedParts
<1> QED
  BY <1>1, <1>8, <1>10 DEF t

-----------------------------------------------------------------------------
(* Where the strings lie that Concat puts together *)

\* The strings lie in s one behind the other, each from its place on.
Laid(places, s, strings) ==
    /\ places[1] = 1 /\ places[Len(strings) + 1] = Len(s) + 1
    /\ \A i \in 1 .. Len(strings) + 1 : places[i] \in 1 .. (Len(s) + 1)
    /\ \A i \in 1 .. Len(strings) :
         places[i + 1] = places[i] + Len(strings[i]) /\ IsAt(s, strings[i], places[i])

\* a is the beginning of b.
BeginsWith(a, b) == Len(a) <= Len(b) /\ \A k \in 1 .. Len(a) : b[k] = a[k]

\* In what Concat returns the strings lie one behind the other.
LEMMA ConcatIsLaid ==
  ASSUME NEW S, NEW strings \in Seq(Seq(S))
  PROVE  Concat(strings) \in Seq(S) /\ \E places : Laid(places, Concat(strings), strings)
<1>1. PICK n \in Nat : n = Len(strings)
  OBVIOUS
<1>2. CASE strings = <<>>
  <2>1. Concat(strings) = <<>> /\ n = 0
    BY <1>1, <1>2, ConcatOfNone
  <2> DEFINE places == [i \in 1 .. 1 |-> 1]
  <2>2. places[1] = 1
    OBVIOUS
  <2> HIDE DEF places
  <2>3. Len(<<>>) = 0 /\ <<>> \in Seq(S)
    OBVIOUS
  <2>4. \A i \in 1 .. 0 + 1 : i = 1
    OBVIOUS
  <2>5. Laid(places, <<>>, strings)
    BY <1>1, <2>1, <2>2, <2>3, <2>4 DEF Laid
  <2> QED
    BY <2>1, <2>3, <2>5
<1>3. CASE strings # <<>>
  <2>1. PICK f : Grows(f, S, strings) /\ Concat(strings) = f[n]
    BY <1>1, <1>3, ConcatUnfolds
  <2>2. n >= 1
    <3>1. n # 0
      BY <1>1, <1>3, EmptySeq
    <3> QED
      BY <3>1
  <2>3. \A i \in 1 .. n : f[i] \in Seq(S) /\ Len(f[i]) \in Nat /\ strings[i] \in Seq(S) /\ Len(strings[i]) \in Nat
    <3>1. ASSUME NEW i \in 1 .. n PROVE f[i] \in Seq(S) /\ strings[i] \in Seq(S)
      <4>1. strings[i] \in Seq(S)
        BY <1>1, ElementOfSeq
      <4> QED
        BY <1>1, <2>1, <4>1 DEF Grows
    <3> QED
      BY <3>1, LenProperties
  <2>4. ASSUME NEW i \in 1 .. (n - 1)
        PROVE  /\ Len(f[i + 1]) = Len(f[i]) + Len(strings[i + 1])
               /\ BeginsWith(f[i], f[i + 1])
               /\ \A k \in 1 .. Len(strings[i + 1]) : f[i + 1][Len(f[i]) + k] = strings[i + 1][k]
    <3>1. i \in 1 .. n /\ i + 1 \in 1 .. n /\ i + 1 # 1 /\ (i + 1) - 1 = i
      BY <2>2
    <3>2. f[i + 1] = f[i] \o strings[i + 1]
      BY <1>1, <2>1, <3>1 DEF Grows
    <3>3. PICK x, y, z : /\ x \in Seq(S) /\ y \in Seq(S)
                         /\ x = f[i] /\ y = strings[i + 1] /\ z = f[i + 1] /\ z = x \o y
      BY <2>3, <3>1, <3>2
    <3>4. /\ Len(z) = Len(x) + Len(y)
          /\ \A k \in 1 .. Len(x) + Len(y) : z[k] = IF k <= Len(x) THEN x[k] ELSE y[k - Len(x)]
      <4>1. /\ Len(x \o y) = Len(x) + Len(y)
            /\ \A k \in 1 .. Len(x) + Len(y) : (x \o y)[k] = IF k <= Len(x) THEN x[k] ELSE y[k - Len(x)]
        BY ConcatProperties
      <4> QED
        BY <3>3, <4>1, Zenon
    <3>5. PICK l \in Nat, m \in Nat : l = Len(x) /\ m = Len(y)
      OBVIOUS
    <3>6. \A k \in 1 .. l : z[k] = x[k]
      BY <3>4, <3>5
    <3>7. ASSUME NEW k \in 1 .. m PROVE z[l + k] = y[k]
      <4>1. l + k \in 1 .. l + m /\ ~(l + k <= l) /\ (l + k) - l = k
        OBVIOUS
      <4> QED
        BY <3>4, <3>5, <4>1
    <3>8. BeginsWith(x, z)
      BY <3>4, <3>5, <3>6 DEF BeginsWith
    <3> QED
      BY <3>3, <3>4, <3>5, <3>7, <3>8
  <2>5. ASSUME NEW j \in 1 .. n PROVE BeginsWith(f[j], f[n])
    <3> DEFINE T == {i \in Int : BeginsWith(f[j], f[i])}
    <3>1. j \in T
      BY <2>3 DEF BeginsWith
    <3>2. ASSUME NEW i \in j .. (n - 1), i \in T PROVE i + 1 \in T
      <4>1. i \in 1 .. (n - 1) /\ i \in 1 .. n /\ i + 1 \in 1 .. n /\ i + 1 \in Int
        OBVIOUS
      <4>2. PICK x \in Seq(S), y \in Seq(S), z \in Seq(S) : x = f[j] /\ y = f[i] /\ z = f[i + 1]
        BY <2>3, <4>1
      <4>3. BeginsWith(x, y) /\ BeginsWith(y, z)
        BY <2>4, <3>2, <4>1, <4>2
      <4>4. BeginsWith(x, z)
        BY <4>2, <4>3 DEF BeginsWith
      <4> QED
        BY <4>1, <4>2, <4>4
    <3>3. \A i \in j .. n : i \in T
      <4>1. j \in Int /\ n \in Int
        OBVIOUS
      <4> HIDE DEF T
      <4> QED
        BY <3>1, <3>2, <4>1, FromTheStart
    <3> QED
      BY <2>2, <3>3
  <2>6. PICK s : s = f[n] /\ s = Concat(strings) /\ s \in Seq(S)
    BY <2>1, <2>2, <2>3
  <2> DEFINE places == [i \in 1 .. n + 1 |-> IF i = 1 THEN 1 ELSE Len(f[i - 1]) + 1]
  <2>7. /\ places[1] = 1
        /\ \A i \in 1 .. n : places[i + 1] = Len(f[i]) + 1
    <3>1. \A i \in 1 .. n : i + 1 \in 1 .. n + 1 /\ i + 1 # 1 /\ (i + 1) - 1 = i
      OBVIOUS
    <3> QED
      BY <3>1
  <2> HIDE DEF places
  <2>8. ASSUME NEW i \in 1 .. n + 1 PROVE places[i] \in 1 .. (Len(s) + 1)
    <3>1. CASE i = 1
      BY <2>6, <2>7, <3>1
    <3>2. CASE i # 1
      <4>1. i - 1 \in 1 .. n /\ (i - 1) + 1 = i
        BY <3>2
      <4>2. places[i] = Len(f[i - 1]) + 1 /\ Len(f[i - 1]) \in Nat
        BY <2>3, <2>7, <4>1
      <4>3. Len(f[i - 1]) <= Len(s)
        BY <2>5, <2>6, <4>1 DEF BeginsWith
      <4> QED
        BY <2>6, <4>2, <4>3
    <3> QED
      BY <3>1, <3>2
  <2>9. ASSUME NEW i \in 1 .. n
        PROVE  places[i + 1] = places[i] + Len(strings[i]) /\ IsAt(s, strings[i], places[i])
    <3>1. \A k \in 1 .. Len(f[i]) : s[k] = f[i][k]
      BY <2>5, <2>6 DEF BeginsWith
    <3>2. places[i + 1] = Len(f[i]) + 1 /\ Len(f[i]) \in Nat
      BY <2>3, <2>7
    <3>3. CASE i = 1
      <4>1. f[1] = strings[1]
        BY <1>1, <2>1, <3>3 DEF Grows
      <4>2. \A k \in 1 .. Len(strings[1]) : s[1 + k - 1] = strings[1][k]
        <5>1. \A k \in 1 .. Len(strings[1]) : 1 + k - 1 = k
          BY <3>2, <3>3, <4>1
        <5> QED
          BY <3>1, <3>3, <4>1, <5>1
      <4>3. places[1] = 1
        BY <2>7
      <4> QED
        BY <3>2, <3>3, <4>1, <4>2, <4>3 DEF IsAt
    <3>4. CASE i # 1
      <4>1. PICK h \in 1 .. (n - 1) : h = i - 1 /\ h + 1 = i /\ h \in 1 .. n
        BY <3>4
      <4>2. PICK a \in Nat, b \in Nat : a = Len(f[h]) /\ b = Len(strings[i])
        BY <2>3, <4>1
      <4>3. Len(f[i]) = a + b /\ \A k \in 1 .. b : f[i][a + k] = strings[i][k]
        BY <2>4, <4>1, <4>2
      <4>4. places[i] = a + 1
        BY <2>7, <4>1, <4>2
      <4>5. \A k \in 1 .. b : s[a + 1 + k - 1] = strings[i][k]
        <5>1. \A k \in 1 .. b : a + 1 + k - 1 = a + k /\ a + k \in 1 .. a + b
          OBVIOUS
        <5> QED
          BY <3>1, <4>3, <5>1
      <4>6. a + b + 1 = (a + 1) + b
        OBVIOUS
      <4> QED
        BY <3>2, <4>2, <4>3, <4>4, <4>5, <4>6 DEF IsAt
    <3> QED
      BY <3>3, <3>4
  <2>10. places[n + 1] = Len(s) + 1
    <3>1. n \in 1 .. n
      BY <2>2
    <3> QED
      BY <2>6, <2>7, <3>1
  <2>11. Laid(places, s, strings)
    BY <1>1, <2>7, <2>8, <2>9, <2>10 DEF Laid
  <2> QED
    BY <2>6, <2>11
<1> QED
  BY <1>2, <1>3

\* Where two strings lie, there lies the first, and the second behind it.
LEMMA IsAtBoth ==
  ASSUME NEW S, NEW a \in Seq(S), NEW b \in Seq(S), NEW s, NEW p \in Int, IsAt(s, a \o b, p)
  PROVE  IsAt(s, a, p) /\ IsAt(s, b, p + Len(a))
<1>1. PICK l \in Nat, m \in Nat : l = Len(a) /\ m = Len(b)
  OBVIOUS
<1> DEFINE c == a \o b
<1>2. /\ Len(c) = l + m
      /\ \A k \in 1 .. l + m : c[k] = IF k <= l THEN a[k] ELSE b[k - l]
  BY <1>1, ConcatProperties
<1> HIDE DEF c
<1>3. \A k \in 1 .. l + m : s[p + k - 1] = c[k]
  BY <1>1, <1>2 DEF IsAt, c
<1>4. \A k \in 1 .. l : s[p + k - 1] = a[k]
  BY <1>2, <1>3
<1>5. ASSUME NEW k \in 1 .. m PROVE s[p + l + k - 1] = b[k]
  <2>1. l + k \in 1 .. l + m /\ ~(l + k <= l) /\ (l + k) - l = k /\ p + (l + k) - 1 = p + l + k - 1
    OBVIOUS
  <2> QED
    BY <1>2, <1>3, <2>1
<1> QED
  BY <1>1, <1>4, <1>5 DEF IsAt

\* As many strings as there may be, each as long as the longest, are too few.
LEMMA ConcatIsBounded ==
  ASSUME NEW S, NEW strings \in Seq(Seq(S)), NEW m \in Nat, Len(strings) <= m, NEW bound \in Nat \ {0},
         \A k \in 1 .. Len(strings) : m * Len(strings[k]) < bound
  PROVE  Len(Concat(strings)) < bound
<1>1. PICK s, places : s \in Seq(S) /\ s = Concat(strings) /\ Laid(places, s, strings)
  BY ConcatIsLaid
<1>2. PICK n \in Nat, l \in Nat : n = Len(strings) /\ l = Len(s) /\ n <= m
  OBVIOUS
<1>3. \A k \in 1 .. n : strings[k] \in Seq(S) /\ Len(strings[k]) \in Nat
  <2>1. \A k \in 1 .. n : strings[k] \in Seq(S)
    BY <1>2, ElementOfSeq
  <2> QED
    BY <2>1
<1>4. CASE l = 0
  BY <1>1, <1>2, <1>4
<1>5. CASE l > 0
  <2> DEFINE Lens == {q \in 1 .. l : \E k \in 1 .. n : Len(strings[k]) = q}
  <2>1. ASSUME NEW k \in 1 .. n PROVE Len(strings[k]) <= l
    <3>1. k \in 1 .. n + 1 /\ k + 1 \in 1 .. n + 1
      OBVIOUS
    <3>2. places[k] \in 1 .. (l + 1) /\ places[k + 1] \in 1 .. (l + 1)
          /\ places[k + 1] = places[k] + Len(strings[k])
      BY <1>1, <1>2, <3>1 DEF Laid
    <3> QED
      BY <1>3, <3>2
  <2>2. PICK most \in Nat : /\ \A k \in 1 .. n : Len(strings[k]) <= most
                            /\ m * most < bound
    <3>1. CASE Lens = {}
      <4>1. \A k \in 1 .. n : Len(strings[k]) <= 0
        <5>1. ASSUME NEW k \in 1 .. n PROVE Len(strings[k]) <= 0
          <6>1. CASE Len(strings[k]) = 0
            BY <6>1
          <6>2. CASE Len(strings[k]) # 0
            <7>1. Len(strings[k]) \in 1 .. l
              BY <1>3, <2>1, <6>2
            <7>2. Len(strings[k]) \in Lens
              BY <7>1
            <7> QED
              BY <3>1, <7>2
          <6> QED
            BY <6>1, <6>2
        <5> QED
          BY <5>1
      <4>2. m * 0 < bound
        OBVIOUS
      <4> QED
        BY <4>1, <4>2
    <3>2. CASE Lens # {}
      <4>1. Lens \in SUBSET (1 .. l)
        OBVIOUS
      <4>2. Max(Lens) \in Lens /\ \A q \in Lens : Max(Lens) >= q
        <5> HIDE DEF Lens
        <5> QED
          BY <3>2, <4>1, LargestOf
      <4>3. PICK most \in 1 .. l : most = Max(Lens) /\ \E k \in 1 .. n : Len(strings[k]) = most
        BY <4>2
      <4>4. ASSUME NEW k \in 1 .. n PROVE Len(strings[k]) <= most
        <5>1. CASE Len(strings[k]) = 0
          BY <5>1
        <5>2. CASE Len(strings[k]) # 0
          <6>1. Len(strings[k]) \in 1 .. l
            BY <1>3, <2>1, <5>2
          <6>2. Len(strings[k]) \in Lens
            BY <6>1
          <6> QED
            BY <4>2, <4>3, <6>1, <6>2
        <5> QED
          BY <5>1, <5>2
      <4>5. m * most < bound
        BY <1>2, <4>3
      <4> QED
        BY <4>4, <4>5
    <3> QED
      BY <3>1, <3>2
  <2> DEFINE T == {i \in Int : places[i] - 1 <= (i - 1) * most}
  <2>3. 1 \in T
    BY <1>1 DEF Laid
  <2>4. ASSUME NEW i \in 1 .. n, i \in T PROVE i + 1 \in T
    <3>1. i \in 1 .. n + 1
      OBVIOUS
    <3>2. PICK p \in Int : p = places[i]
      <4>1. places[i] \in 1 .. (l + 1)
        BY <1>1, <1>2, <3>1 DEF Laid
      <4> QED
        BY <4>1
    <3>3. PICK q \in Nat : q = Len(strings[i]) /\ q <= most
      BY <1>3, <2>2
    <3>4. places[i + 1] = p + q
      BY <1>1, <1>2, <3>2, <3>3 DEF Laid
    <3>5. p - 1 <= (i - 1) * most
      BY <2>4, <3>2
    <3>6. ((i + 1) - 1) * most = (i - 1) * most + most
      OBVIOUS
    <3>7. PICK z \in Int : z = (i - 1) * most
      OBVIOUS
    <3>8. p + q - 1 <= z + most
      BY <3>3, <3>5, <3>7
    <3>9. p + q - 1 <= ((i + 1) - 1) * most /\ i + 1 \in Int
      BY <3>6, <3>7, <3>8
    <3> QED
      BY <3>4, <3>9
  <2>5. n + 1 \in T
    <3> HIDE DEF T
    <3>1. 1 \in Int /\ n + 1 \in Int /\ \A i \in 1 .. ((n + 1) - 1) : i \in 1 .. n
      OBVIOUS
    <3>2. \A i \in 1 .. ((n + 1) - 1) : i \in T => i + 1 \in T
      BY <2>4, <3>1
    <3>3. \A i \in 1 .. (n + 1) : i \in T
      BY <2>3, <3>1, <3>2, FromTheStart
    <3> QED
      BY <3>3
  <2>6. l <= n * most
    <3>1. places[n + 1] = l + 1
      BY <1>1, <1>2 DEF Laid
    <3>2. places[n + 1] - 1 <= ((n + 1) - 1) * most
      BY <2>5
    <3>3. (n + 1) - 1 = n
      OBVIOUS
    <3> QED
      BY <3>1, <3>2, <3>3
  <2>7. PICK c \in Nat : m = n + c
    <3>1. m - n \in Nat /\ m = n + (m - n)
      BY <1>2
    <3> QED
      BY <3>1
  <2>8. PICK x \in Nat, y \in Nat, z \in Nat : x = n * most /\ y = m * most /\ z = c * most
    OBVIOUS
  <2>9. y = x + z
    <3>1. (n + c) * most = n * most + c * most
      OBVIOUS
    <3> QED
      BY <2>7, <2>8, <3>1
  <2>10. l <= x /\ y < bound
    BY <2>2, <2>6, <2>8
  <2>11. l < bound
    BY <2>9, <2>10
  <2> QED
    BY <1>1, <1>2, <2>11
<1> QED
  BY <1>2, <1>4, <1>5

-----------------------------------------------------------------------------
(* Lines that are written one behind the other are the parts of split_string *)

\* A line is its text and then the delimiter, which is nowhere before.
EndsOnly(line, body, d) ==
    /\ Len(line) = Len(body) + Len(d)
    /\ IsAt(line, body, 1)
    /\ FirstAt(line, d, Len(body) + 1)

\* Such a line is cut off where it ends.
LEMMA LineIsCut ==
  ASSUME NEW S, NEW s \in Seq(S), NEW d \in Seq(S), Len(d) > 0, NEW line \in Seq(S), NEW body \in Seq(S),
         EndsOnly(line, body, d), NEW a \in Nat \ {0}, a + Len(line) <= Len(s) + 1, IsAt(s, line, a),
         NEW b \in Nat, NEW part
  PROVE  /\ ~Remains(s, d, a, part)
         /\ Cut(s, d, a, b, part) => b = a + Len(line) /\ part = body
<1>1. PICK n \in Nat, m \in Nat, l \in Nat : n = Len(d) /\ m = Len(body) /\ l = Len(s) /\ n > 0
  OBVIOUS
<1>2. Len(line) = m + n /\ a + m + n <= l + 1
  BY <1>1 DEF EndsOnly
<1>3. \A k \in 1 .. m + n : s[a + k - 1] = line[k]
  BY <1>2 DEF IsAt
<1>4. \A k \in 1 .. m : line[k] = body[k]
  <2>1. IsAt(line, body, 1)
    BY DEF EndsOnly
  <2>2. \A k \in 1 .. m : line[1 + k - 1] = body[k]
    BY <1>1, <2>1 DEF IsAt
  <2>3. \A k \in 1 .. m : 1 + k - 1 = k
    OBVIOUS
  <2> QED
    BY <2>2, <2>3
<1>5. \A k \in 1 .. n : line[m + 1 + k - 1] = d[k]
  <2>1. IsAt(line, d, m + 1)
    BY <1>1 DEF EndsOnly, FirstAt
  <2> QED
    BY <1>1, <2>1 DEF IsAt
<1>6. \A q \in 1 .. m : \E k \in 1 .. n : line[q + k - 1] # d[k]
  <2>1. m + 1 - 1 = m
    OBVIOUS
  <2> QED
    BY <1>1, <2>1 DEF EndsOnly, FirstAt, IsAt
<1>7. IsAt(s, d, a + m)
  <2>1. ASSUME NEW k \in 1 .. n PROVE s[a + m + k - 1] = d[k]
    <3>1. m + k \in 1 .. m + n /\ a + (m + k) - 1 = a + m + k - 1 /\ m + 1 + k - 1 = m + k
      OBVIOUS
    <3> QED
      BY <1>3, <1>5, <3>1
  <2> QED
    BY <1>1, <2>1 DEF IsAt
<1>8. ASSUME NEW p \in a .. (a + m - 1) PROVE ~IsAt(s, d, p)
  <2>1. PICK q \in 1 .. m : p = a + q - 1
    <3>1. p - a + 1 \in 1 .. m /\ p = a + (p - a + 1) - 1
      OBVIOUS
    <3> QED
      BY <3>1
  <2>2. PICK k \in 1 .. n : line[q + k - 1] # d[k]
    BY <1>6
  <2>3. q + k - 1 \in 1 .. m + n /\ a + (q + k - 1) - 1 = p + k - 1
    BY <2>1
  <2>4. s[p + k - 1] = line[q + k - 1]
    BY <1>3, <2>3
  <2> QED
    BY <1>1, <2>2, <2>4 DEF IsAt
<1>9. ~Remains(s, d, a, part)
  <2>1. a + m \in a .. (Len(s) + 1 - Len(d))
    BY <1>1, <1>2
  <2> QED
    BY <1>7, <2>1 DEF Remains
<1>10. ASSUME Cut(s, d, a, b, part) PROVE b = a + m + n /\ part = body
  <2>1. /\ a <= b - n /\ part = SubSeq(s, a, b - n - 1) /\ IsAt(s, d, b - n)
        /\ \A p \in a .. (b - n - 1) : ~IsAt(s, d, p)
    BY <1>1, <1>10 DEF Cut
  <2>2. ~(b - n < a + m)
    <3>1. b - n < a + m => b - n \in a .. (a + m - 1)
      BY <2>1
    <3> QED
      BY <1>8, <2>1, <3>1
  <2>3. ~(a + m < b - n)
    <3>1. a + m < b - n => a + m \in a .. (b - n - 1)
      OBVIOUS
    <3> QED
      BY <1>7, <2>1, <3>1
  <2>4. b = a + m + n /\ b - n - 1 = a + m - 1
    BY <2>1, <2>2, <2>3
  <2>5. SubSeq(s, a, a + m - 1) = body
    <3>1. IsAt(s, body, a)
      <4>1. \A k \in 1 .. m : k \in 1 .. m + n
        OBVIOUS
      <4> QED
        BY <1>1, <1>3, <1>4, <4>1 DEF IsAt
    <3>2. a + Len(body) <= Len(s) + 1
      BY <1>1, <1>2
    <3>3. SubSeq(s, a, a + Len(body) - 1) = body
      BY <3>1, <3>2, WhatIsAt
    <3> QED
      BY <1>1, <3>3
  <2> QED
    BY <2>1, <2>4, <2>5
<1> QED
  BY <1>2, <1>9, <1>10

\* Each line is its text and then the delimiter.
AreLines(lines, bodies, d) ==
    /\ Len(lines) = Len(bodies)
    /\ \A k \in 1 .. Len(bodies) : EndsOnly(lines[k], bodies[k], d)

\* split_string returns the texts of the lines.
LEMMA LinesAreSplit ==
  ASSUME NEW S, NEW s \in Seq(S), NEW d \in Seq(S), Len(d) > 0,
         NEW lines \in Seq(Seq(S)), NEW bodies \in Seq(Seq(S)), AreLines(lines, bodies, d),
         NEW at, Laid(at, s, lines)
  PROVE  SplitString(s, d) = bodies
<1>1. PICK places, parts : parts = SplitString(s, d) /\ Lie(places, S, parts, s, d, 1)
  BY PartsLie
<1>2. PICK n \in Nat, m \in Nat, l \in Nat, w \in Nat :
        n = Len(bodies) /\ m = Len(parts) /\ l = Len(s) /\ w = Len(d) /\ w > 0
  BY <1>1 DEF Lie
<1>3. /\ parts \in Seq(Seq(S)) /\ places[1] = 1 /\ places[m + 1] = l + 1
      /\ \A i \in 1 .. m : \/ Cut(s, d, places[i], places[i + 1], parts[i])
                           \/ i = m /\ Remains(s, d, places[i], parts[i])
  BY <1>1, <1>2 DEF Lie
<1>4. \A i \in 1 .. m : places[i] \in 1 .. (l + 1) /\ places[i + 1] \in 1 .. (l + 1)
  BY <1>1, <1>2, PartsInOrder
<1>5. \A k \in 1 .. n : EndsOnly(lines[k], bodies[k], d) /\ lines[k] \in Seq(S) /\ bodies[k] \in Seq(S)
  <2>1. ASSUME NEW k \in 1 .. n PROVE lines[k] \in Seq(S) /\ bodies[k] \in Seq(S)
    <3>1. k \in 1 .. Len(lines) /\ k \in 1 .. Len(bodies)
      BY <1>2 DEF AreLines
    <3> QED
      BY <3>1, ElementOfSeq
  <2> QED
    BY <1>2, <2>1 DEF AreLines
<1>6. Len(lines) = n
  BY <1>2 DEF AreLines
<1>7. /\ at[1] = 1 /\ at[n + 1] = l + 1
      /\ \A i \in 1 .. n + 1 : at[i] \in 1 .. (l + 1)
      /\ \A i \in 1 .. n : at[i + 1] = at[i] + Len(lines[i]) /\ IsAt(s, lines[i], at[i])
  BY <1>2, <1>6 DEF Laid
<1>8. ASSUME NEW i \in 1 .. n, i <= m + 1, places[i] = at[i]
      PROVE  i <= m /\ places[i + 1] = at[i + 1] /\ parts[i] = bodies[i]
  <2>1. i \in 1 .. n + 1 /\ i + 1 \in 1 .. n + 1
    OBVIOUS
  <2>2. PICK a \in 1 .. (l + 1), z \in 1 .. (l + 1) : a = at[i] /\ z = at[i + 1]
    BY <1>7, <2>1
  <2>3. PICK line \in Seq(S), body \in Seq(S) : line = lines[i] /\ body = bodies[i] /\ EndsOnly(line, body, d)
    BY <1>5
  <2>4. z = a + Len(line) /\ IsAt(s, line, a)
    BY <1>7, <2>2, <2>3
  <2>5. Len(line) > 0 /\ Len(line) \in Nat
    <3>1. Len(body) \in Nat /\ Len(line) = Len(body) + w
      BY <1>2, <2>3 DEF EndsOnly
    <3> QED
      BY <1>2, <3>1
  <2>6. a # l + 1
    BY <2>2, <2>4, <2>5
  <2>7. i <= m
    <3>1. CASE i = m + 1
      BY <1>3, <1>8, <2>2, <2>6, <3>1
    <3> QED
      BY <1>8, <3>1
  <2>8. i \in 1 .. m
    BY <2>7
  <2>9. PICK b \in Nat : b = places[i + 1]
    <3>1. places[i + 1] \in 1 .. (l + 1)
      BY <1>4, <2>8
    <3> QED
      BY <3>1
  <2>10. PICK part : part = parts[i]
    OBVIOUS
  <2>11. /\ ~Remains(s, d, a, part)
         /\ Cut(s, d, a, b, part) => b = a + Len(line) /\ part = body
    <3>1. a \in Nat \ {0} /\ a + Len(line) <= Len(s) + 1
      <4>1. z = a + Len(line) /\ z <= l + 1 /\ Len(s) = l
        BY <1>2, <2>2, <2>4
      <4>2. a \in Nat \ {0}
        BY <2>2
      <4> QED
        BY <4>1, <4>2
    <3>2. Len(d) > 0 /\ EndsOnly(line, body, d) /\ IsAt(s, line, a)
      BY <1>2, <2>3, <2>4
    <3> QED
      BY <3>1, <3>2, LineIsCut
  <2>12. Cut(s, d, a, b, part) \/ Remains(s, d, a, part)
    BY <1>3, <1>8, <2>2, <2>8, <2>9, <2>10
  <2> QED
    BY <2>2, <2>3, <2>4, <2>7, <2>9, <2>10, <2>11, <2>12
<1> DEFINE T == {i \in Int : i <= m + 1 /\ places[i] = at[i]}
<1>9. \A i \in 1 .. n + 1 : i \in T
  <2>1. 1 \in T
    BY <1>3, <1>7
  <2>2. ASSUME NEW i \in 1 .. ((n + 1) - 1), i \in T PROVE i + 1 \in T
    <3>1. i \in 1 .. n /\ i <= m + 1 /\ places[i] = at[i]
      BY <2>2
    <3>2. i <= m /\ places[i + 1] = at[i + 1]
      BY <1>8, <3>1
    <3>3. i + 1 \in Int /\ i + 1 <= m + 1
      BY <3>2
    <3> QED
      BY <3>2, <3>3
  <2>3. 1 \in Int /\ n + 1 \in Int
    OBVIOUS
  <2> HIDE DEF T
  <2> QED
    BY <2>1, <2>2, <2>3, FromTheStart
<1>10. m = n
  <2>1. n + 1 <= m + 1 /\ places[n + 1] = l + 1
    <3>1. n + 1 \in T
      BY <1>9
    <3> QED
      BY <1>7, <3>1
  <2>2. CASE n < m
    <3>1. n + 1 \in 1 .. m
      BY <2>2
    <3>2. PICK b \in 1 .. (l + 1) : b = places[(n + 1) + 1]
      BY <1>4, <3>1
    <3>3. ~Remains(s, d, places[n + 1], parts[n + 1])
      BY <1>2, <2>1 DEF Remains
    <3>4. ~Cut(s, d, places[n + 1], b, parts[n + 1])
      BY <1>2, <2>1, <3>2 DEF Cut
    <3> QED
      BY <1>3, <3>1, <3>2, <3>3, <3>4
  <2> QED
    BY <2>1, <2>2
<1>11. \A i \in 1 .. n : parts[i] = bodies[i]
  <2>1. ASSUME NEW i \in 1 .. n PROVE parts[i] = bodies[i]
    <3>1. i \in T
      BY <1>9
    <3> QED
      BY <1>8, <3>1
  <2> QED
    BY <2>1
<1>12. parts = bodies
  BY <1>2, <1>3, <1>10, <1>11, SeqEqual
<1> QED
  BY <1>1, <1>12

-----------------------------------------------------------------------------
(* Bytes on their way *)

\* What has been received in c and what is on its way are p and then q.
Begins(c, net, p, q) == c \o net = p \o q

\* What is received is taken from the beginning of what was sent.
LEMMA ReceivedIs ==
  ASSUME NEW S, NEW s \in Seq(S), NEW net \in Seq(S), NEW n \in Int,
         NEW longer \in Appended(s, n, net)
  PROVE  /\ longer \in Seq(S) /\ Untaken(s, longer, net) \in Seq(S)
         /\ Begins(longer, Untaken(s, longer, net), s, net)
         /\ Len(longer) > Len(s)
<1>1. PICK l \in Nat, m \in Nat : l = Len(net) /\ m = Len(s)
  OBVIOUS
<1>2. PICK k \in 1 .. Min({n, l}) : longer = s \o SubSeq(net, 1, k)
  BY <1>1 DEF Appended
<1>3. k \in 1 .. l
  <2>1. \E x \in {n, l} : \A y \in {n, l} : x <= y
    OBVIOUS
  <2>2. Min({n, l}) \in {n, l} /\ \A y \in {n, l} : Min({n, l}) <= y
    BY <2>1 DEF Min
  <2>3. PICK x \in Int : x = Min({n, l}) /\ x <= l
    BY <2>2
  <2> QED
    BY <2>3
<1> DEFINE got == SubSeq(net, 1, k)
           rest == SubSeq(net, k + 1, l)
<1>4. got \in Seq(S) /\ Len(got) = k
  <2>1. 1 \in Nat \ {0} /\ k \in Int /\ k <= Len(net) /\ 1 <= k /\ k - 1 + 1 = k
    BY <1>1, <1>3
  <2> QED
    BY <2>1, PieceOf
<1>5. rest \in Seq(S)
  <2>1. k + 1 \in Nat \ {0} /\ l \in Int /\ l <= Len(net)
    BY <1>1, <1>3
  <2> QED
    BY <2>1, PieceOf
<1>6. got \o rest = net
  <2>1. /\ 1 \in Nat \ {0} /\ k \in Int /\ l \in Int /\ 1 <= k + 1 /\ k <= l /\ l <= Len(net)
    BY <1>1, <1>3
  <2>2. Meets(net, 1, k, l)
    BY <2>1, PiecesMeet
  <2>3. got \o rest = SubSeq(net, 1, l)
    BY <2>2, Zenon DEF Meets, got, rest
  <2> QED
    BY <1>1, <2>3, SubSeqFull
<1> HIDE DEF got, rest
<1>7. longer = s \o got
  BY <1>2 DEF got
<1>8. longer \in Seq(S) /\ Len(longer) = m + k
  BY <1>1, <1>4, <1>7, ConcatProperties
<1>9. Untaken(s, longer, net) = rest
  <2>1. Len(longer) - Len(s) + 1 = k + 1
    BY <1>1, <1>8
  <2> QED
    BY <1>1, <2>1 DEF Untaken, From, rest
<1>10. (s \o got) \o rest = s \o (got \o rest)
  <2>1. Assoc(s, got, rest)
    BY <1>4, <1>5, Associative
  <2> QED
    BY <2>1, Zenon DEF Assoc
<1> QED
  BY <1>1, <1>5, <1>6, <1>7, <1>8, <1>9, <1>10 DEF Begins

\* The bytes that are not a head, or one of these heads.
BytesOf(heads) == {b \in Bytes : b[1] = "head" => b[2] \in heads}

LEMMA LineEnds ==
  ASSUME NEW n
  PROVE  /\ CRLF \in Seq(BytesOf(n)) /\ Len(CRLF) = 2
         /\ CRLF[1] = <<"CR", 0>> /\ CRLF[2] = <<"LF", 0>>
         /\ BlankLine \in Seq(BytesOf(n)) /\ Len(BlankLine) = 4
         /\ BlankLine[1] = <<"CR", 0>> /\ BlankLine[2] = <<"LF", 0>>
         /\ BlankLine[3] = <<"CR", 0>> /\ BlankLine[4] = <<"LF", 0>>
<1>1. <<"CR", 0>> \in BytesOf(n) /\ <<"LF", 0>> \in BytesOf(n)
  BY DEF BytesOf, Bytes
<1>2. /\ CRLF \in Seq(BytesOf(n)) /\ Len(CRLF) = 2
      /\ CRLF[1] = <<"CR", 0>> /\ CRLF[2] = <<"LF", 0>>
  BY <1>1 DEF CRLF
<1>3. /\ BlankLine \in Seq(BytesOf(n)) /\ Len(BlankLine) = 2 + 2
      /\ \A i \in 1 .. 4 : BlankLine[i] = IF i <= 2 THEN CRLF[i] ELSE CRLF[i - 2]
  <2>1. PICK c \in Seq(BytesOf(n)) : c = CRLF /\ Len(c) = 2
    BY <1>2, Zenon
  <2>0. Together(c \o c, c, c, BytesOf(n))
    BY PutTogether
  <2>2. c \o c \in Seq(BytesOf(n)) /\ Len(c \o c) = 2 + 2
    BY <2>0, <2>1 DEF Together
  <2>3. \A i \in 1 .. 2 + 2 : (c \o c)[i] = IF i <= 2 THEN c[i] ELSE c[i - 2]
    BY <2>0, <2>1 DEF Together
  <2>4. 2 + 2 = 4
    OBVIOUS
  <2> QED
    BY <2>1, <2>2, <2>3, <2>4, Zenon DEF BlankLine
<1> QED
  BY <1>2, <1>3

LEMMA SizeLineIs ==
  ASSUME NEW n, NEW size \in Nat
  PROVE  /\ SizeLine(size) \in Seq(BytesOf(n)) /\ Len(SizeLine(size)) = 3
         /\ SizeLine(size) = << <<"size", size>>, <<"CR", 0>>, <<"LF", 0>> >>
<1>1. <<"size", size>> \in BytesOf(n) /\ <<"CR", 0>> \in BytesOf(n) /\ <<"LF", 0>> \in BytesOf(n)
  BY DEF BytesOf, Bytes
<1>2. SizeLine(size) = << <<"size", size>>, <<"CR", 0>>, <<"LF", 0>> >>
  <2> DEFINE first == << <<"size", size>> >>
             all == << <<"size", size>>, <<"CR", 0>>, <<"LF", 0>> >>
  <2>1. first \in Seq(BytesOf(n)) /\ Len(first) = 1 /\ first[1] = <<"size", size>>
    BY <1>1
  <2>2. /\ all \in Seq(BytesOf(n)) /\ Len(all) = 3
        /\ all[1] = <<"size", size>> /\ all[2] = <<"CR", 0>> /\ all[3] = <<"LF", 0>>
    BY <1>1
  <2>3. CRLF \in Seq(BytesOf(n)) /\ Len(CRLF) = 2 /\ CRLF[1] = <<"CR", 0>> /\ CRLF[2] = <<"LF", 0>>
    BY LineEnds
  <2>4. SizeLine(size) = first \o CRLF
    BY DEF SizeLine
  <2> HIDE DEF first, all
  <2>5. /\ first \o CRLF \in Seq(BytesOf(n)) /\ Len(first \o CRLF) = Len(first) + Len(CRLF)
        /\ \A i \in 1 .. Len(first) + Len(CRLF) :
             (first \o CRLF)[i] = IF i <= Len(first) THEN first[i] ELSE CRLF[i - Len(first)]
    BY <2>1, <2>3, ConcatProperties
  <2>6. \A i \in 1 .. 3 : (first \o CRLF)[i] = all[i]
    <3>1. \A i \in 1 .. 3 : i = 1 \/ i = 2 \/ i = 3
      OBVIOUS
    <3>2. (first \o CRLF)[1] = all[1] /\ (first \o CRLF)[2] = all[2] /\ (first \o CRLF)[3] = all[3]
      BY <2>1, <2>2, <2>3, <2>5
    <3> QED
      BY <3>1, <3>2
  <2>7. first \o CRLF = all
    <3>1. Len(first \o CRLF) = 3
      BY <2>1, <2>3, <2>5
    <3>2. first \o CRLF \in Seq(BytesOf(n))
      BY <2>5
    <3> QED
      BY <2>2, <2>6, <3>1, <3>2, SeqEqual
  <2> QED
    BY <2>4, <2>7 DEF all
<1> HIDE DEF SizeLine
<1> QED
  BY <1>1, <1>2

\* What begins with p, as far as it has been received.
LEMMA BehindPrefix ==
  ASSUME NEW S, NEW c \in Seq(S), NEW net \in Seq(S), NEW p \in Seq(S), NEW q \in Seq(S),
         Begins(c, net, p, q), Len(c) >= Len(p)
  PROVE  /\ SubSeq(c, 1, Len(p)) = p
         /\ \A k \in 1 .. Len(p) : c[k] = p[k]
         /\ From(c, Len(p) + 1) \in Seq(S)
         /\ From(c, Len(p) + 1) \o net = q
<1> c \o net = p \o q
  BY DEF Begins
<1>1. PICK m \in Nat, l \in Nat, a \in Nat, b \in Nat :
        m = Len(c) /\ l = Len(net) /\ a = Len(p) /\ b = Len(q) /\ m >= a
  OBVIOUS
<1> DEFINE w == c \o net
           r == SubSeq(c, a + 1, m)
           u == SubSeq(c, 1, a)
<1>2. /\ Len(w) = m + l
      /\ \A i \in 1 .. m + l : w[i] = IF i <= m THEN c[i] ELSE net[i - m]
  BY <1>1, ConcatProperties
<1>3. /\ Len(w) = a + b
      /\ \A i \in 1 .. a + b : w[i] = IF i <= a THEN p[i] ELSE q[i - a]
  BY <1>1, ConcatProperties
<1>4. r \in Seq(S) /\ Len(r) = m - a /\ \A i \in 1 .. m - a : r[i] = c[a + i]
  <2>1. a + 1 \in Nat \ {0} /\ m \in Int /\ m <= Len(c) /\ m - (a + 1) + 1 = m - a
        /\ (a + 1 <= m \/ m - a = 0) /\ \A i \in 1 .. m - a : (a + 1) + i - 1 = a + i
    BY <1>1
  <2> HIDE DEF r
  <2>2. /\ r \in Seq(S) /\ Len(r) = IF a + 1 <= m THEN m - (a + 1) + 1 ELSE 0
        /\ \A i \in 1 .. (m - (a + 1) + 1) : r[i] = c[(a + 1) + i - 1]
    BY <2>1, PieceOf DEF r
  <2>3. Len(r) = m - a
    BY <1>1, <2>1, <2>2
  <2>4. ASSUME NEW i \in 1 .. m - a PROVE r[i] = c[a + i]
    <3>1. i \in 1 .. (m - (a + 1) + 1) /\ (a + 1) + i - 1 = a + i
      BY <2>1
    <3> QED
      BY <2>2, <3>1
  <2> QED
    BY <2>2, <2>3, <2>4
<1>5. u \in Seq(S) /\ Len(u) = a /\ \A i \in 1 .. a : u[i] = c[i]
  <2>1. 1 \in Nat \ {0} /\ a \in Int /\ a <= Len(c) /\ a - 1 + 1 = a
        /\ (1 <= a \/ a = 0) /\ \A i \in 1 .. a : 1 + i - 1 = i
    BY <1>1
  <2> HIDE DEF u
  <2>2. /\ u \in Seq(S) /\ Len(u) = IF 1 <= a THEN a - 1 + 1 ELSE 0
        /\ \A i \in 1 .. (a - 1 + 1) : u[i] = c[1 + i - 1]
    BY <2>1, PieceOf DEF u
  <2> QED
    BY <1>1, <2>1, <2>2
<1> HIDE DEF w, r, u
<1>6. m + l = a + b
  BY <1>2, <1>3
<1>7. \A k \in 1 .. a : c[k] = p[k]
  <2> SUFFICES ASSUME NEW k \in 1 .. a PROVE c[k] = p[k]
    OBVIOUS
  <2>1. k \in 1 .. m + l /\ k \in 1 .. a + b /\ k <= m /\ k <= a
    BY <1>1, <1>6
  <2> QED
    BY <1>2, <1>3, <2>1
<1>8. u = p
  <2>1. \A i \in 1 .. a : u[i] = p[i]
    BY <1>5, <1>7
  <2> QED
    BY <1>1, <1>5, <2>1, SeqEqual
<1>9. r \o net = q
  <2>1. /\ r \o net \in Seq(S) /\ Len(r \o net) = (m - a) + l
        /\ \A i \in 1 .. (m - a) + l :
             (r \o net)[i] = IF i <= m - a THEN r[i] ELSE net[i - (m - a)]
    <3>1. PICK e \in Nat : e = m - a
      <4>1. m - a \in Nat
        BY <1>1
      <4> QED
        BY <4>1, Zenon
    <3>2. /\ r \o net \in Seq(S) /\ Len(r \o net) = e + l
          /\ \A i \in 1 .. e + l : (r \o net)[i] = IF i <= e THEN r[i] ELSE net[i - e]
      <4>1. r \in Seq(S) /\ Len(r) = e /\ Len(net) = l
        BY <1>1, <1>4, <3>1
      <4> QED
        BY <4>1, ConcatProperties
    <3> QED
      BY <3>1, <3>2
  <2>2. (m - a) + l = b
    BY <1>6
  <2>3. ASSUME NEW i \in 1 .. b PROVE (r \o net)[i] = q[i]
    <3>1. /\ a + i \in 1 .. m + l /\ a + i \in 1 .. a + b /\ ~(a + i <= a) /\ (a + i) - a = i
          /\ (a + i <= m <=> i <= m - a) /\ (a + i) - m = i - (m - a)
          /\ i \in 1 .. (m - a) + l
      BY <1>1, <1>6
    <3>2. w[a + i] = q[i]
      BY <1>3, <3>1
    <3>3. CASE i <= m - a
      <4>1. (r \o net)[i] = r[i] /\ w[a + i] = c[a + i] /\ i \in 1 .. m - a
        BY <1>1, <1>2, <2>1, <3>1, <3>3
      <4> QED
        BY <1>4, <3>2, <4>1
    <3>4. CASE ~(i <= m - a)
      <4>1. (r \o net)[i] = net[i - (m - a)] /\ w[a + i] = net[(a + i) - m]
        BY <1>2, <2>1, <3>1, <3>4
      <4> QED
        BY <3>1, <3>2, <4>1
    <3> QED
      BY <3>3, <3>4
  <2> QED
    BY <1>1, <2>1, <2>2, <2>3, SeqEqual
<1>10. From(c, Len(p) + 1) = r /\ SubSeq(c, 1, Len(p)) = u
  BY <1>1 DEF From, r, u
<1> QED
  BY <1>1, <1>4, <1>7, <1>8, <1>9, <1>10

\* x is the delimiter behind a byte that does not belong to it.
Follows(x, d) ==
    Len(x) = Len(d) + 1 /\ x[1] # d[1] /\ \A k \in 1 .. Len(d) : x[k + 1] = d[k]

LEMMA BehindFirst ==
  ASSUME NEW S, NEW c \in Seq(S), NEW net \in Seq(S), NEW d \in Seq(S), NEW q \in Seq(S), NEW x \in Seq(S),
         Begins(c, net, x, q), Contains(c, d), Len(d) > 0, Follows(x, d)
  PROVE  /\ Find(c, d, 1) = 2 /\ Len(c) >= Len(x)
         /\ SubSeq(c, 1, 1) = <<x[1]>>
         /\ IsAt(c, d, 2) /\ ~IsAt(c, d, 1)
<1> c \o net = x \o q
  BY DEF Begins
<1> Len(x) = Len(d) + 1 /\ x[1] # d[1] /\ \A k \in 1 .. Len(d) : x[k + 1] = d[k]
  BY DEF Follows
<1>1. PICK m \in Nat, n \in Nat : m = Len(c) /\ n = Len(d) /\ n > 0
  OBVIOUS
<1>2. PICK p \in 1 .. (m + 1 - n) :
        /\ p = Find(c, d, 1) /\ IsAt(c, d, p) /\ \A r \in 1 .. (p - 1) : ~IsAt(c, d, r)
  <2>1. Find(c, d, 1) # NPos /\ 1 \in Nat \ {0}
    BY FindIsContains
  <2> QED
    BY <1>1, <2>1, FindIs
<1>3. p \in Nat /\ p >= 1 /\ p + n <= m + 1
  BY <1>1, <1>2
<1>4. c[1] = x[1] /\ x[1] \in S /\ c[1] \in S
  <2>1. PICK l \in Nat, b \in Nat : l = Len(net) /\ b = Len(q)
    OBVIOUS
  <2>2. \A i \in 1 .. m + l : (c \o net)[i] = IF i <= m THEN c[i] ELSE net[i - m]
    BY <1>1, <2>1, ConcatProperties
  <2>3. \A i \in 1 .. (n + 1) + b : (x \o q)[i] = IF i <= n + 1 THEN x[i] ELSE q[i - (n + 1)]
    BY <1>1, <2>1, ConcatProperties, SMTT(40)
  <2>4. 1 \in 1 .. m + l /\ 1 \in 1 .. (n + 1) + b /\ 1 <= m /\ 1 <= n + 1 /\ 1 \in 1 .. m /\ 1 \in 1 .. n + 1
    BY <1>1, <1>3, <2>1
  <2>5. c[1] = x[1]
    BY <2>2, <2>3, <2>4
  <2>6. x[1] \in S
    BY <1>1, <2>4, ElementOfSeq
  <2> QED
    BY <2>5, <2>6
<1>5. ~IsAt(c, d, 1)
  <2>1. IsAt(c, d, 1) => c[1 + 1 - 1] = d[1]
    BY <1>1 DEF IsAt
  <2> QED
    BY <1>4, <2>1
<1>6. m >= n + 1
  <2>1. p # 1
    BY <1>2, <1>5
  <2> QED
    BY <1>3, <2>1
<1>7. Len(c) >= Len(x)
  BY <1>1, <1>6
<1>8. \A k \in 1 .. n + 1 : c[k] = x[k]
  BY <1>1, <1>7, BehindPrefix
<1>9. IsAt(c, d, 2)
  <2>1. ASSUME NEW k \in 1 .. n PROVE c[2 + k - 1] = d[k]
    <3>1. k + 1 \in 1 .. n + 1 /\ 2 + k - 1 = k + 1
      BY <1>1
    <3> QED
      BY <1>1, <1>8, <3>1
  <2> QED
    BY <1>1, <2>1 DEF IsAt
<1>10. p = 2
  <2>1. p > 2 => 2 \in 1 .. (p - 1)
    BY <1>3
  <2>2. ~(p > 2) /\ p # 1
    BY <1>2, <1>5, <1>9, <2>1
  <2> QED
    BY <1>3, <2>2
<1>11. SubSeq(c, 1, 1) = <<x[1]>>
  <2>1. 1 \in Nat \ {0} /\ 1 \in Int /\ 1 <= Len(c) /\ 1 \in 1 .. 1 /\ 1 - 1 + 1 = 1 /\ 1 + 1 - 1 = 1
    BY <1>1, <1>3
  <2>2. SubSeq(c, 1, 1) \in Seq(S) /\ Len(SubSeq(c, 1, 1)) = 1 /\ SubSeq(c, 1, 1)[1] = c[1]
    <3>1. /\ SubSeq(c, 1, 1) \in Seq(S) /\ Len(SubSeq(c, 1, 1)) = IF 1 <= 1 THEN 1 - 1 + 1 ELSE 0
          /\ \A i \in 1 .. (1 - 1 + 1) : SubSeq(c, 1, 1)[i] = c[1 + i - 1]
      BY <2>1, PieceOf
    <3> QED
      BY <2>1, <3>1
  <2>3. PICK y \in S : y = x[1]
    BY <1>4
  <2>4. PICK u \in Seq(S) : u = <<y>> /\ Len(u) = 1 /\ u[1] = y
    <3>1. <<y>> \in Seq(S) /\ Len(<<y>>) = 1 /\ <<y>>[1] = y
      OBVIOUS
    <3> QED
      BY <3>1, Zenon
  <2>5. PICK v \in Seq(S) : v = SubSeq(c, 1, 1) /\ Len(v) = 1 /\ v[1] = c[1]
    BY <2>2, Zenon
  <2>6. v = u
    <3>1. \A i \in 1 .. 1 : v[i] = u[i]
      BY <1>4, <2>3, <2>4, <2>5
    <3> QED
      BY <2>4, <2>5, <3>1, SeqEqual
  <2> QED
    BY <2>3, <2>4, <2>5, <2>6, Zenon
<1> QED
  BY <1>2, <1>5, <1>7, <1>9, <1>10, <1>11

\* The head of a request with the blank line.
Opening(i) == <<HeadOf(i)>> \o BlankLine

LEMMA OpeningIs ==
  ASSUME NEW n \in SUBSET Nat, NEW i \in n
  PROVE  /\ HeadOf(i) \in BytesOf(n) /\ <<HeadOf(i)>> \in Seq(BytesOf(n))
         /\ Opening(i) \in Seq(BytesOf(n)) /\ Len(Opening(i)) = Len(BlankLine) + 1
         /\ Opening(i)[1] = HeadOf(i) /\ Opening(i)[1] # BlankLine[1]
         /\ \A k \in 1 .. Len(BlankLine) : Opening(i)[k + 1] = BlankLine[k]
<1>1. HeadOf(i) \in BytesOf(n) /\ HeadOf(i) # <<"CR", 0>>
  BY DEF BytesOf, Bytes, HeadOf
<1>2. BlankLine \in Seq(BytesOf(n)) /\ BlankLine[1] = <<"CR", 0>>
  BY LineEnds
<1>3. Ahead(Opening(i), HeadOf(i), BlankLine, BytesOf(n))
  <2>1. Ahead(<<HeadOf(i)>> \o BlankLine, HeadOf(i), BlankLine, BytesOf(n))
    BY <1>1, <1>2, OneAhead
  <2> QED
    BY <2>1, Zenon DEF Opening
<1> QED
  BY <1>1, <1>2, <1>3 DEF Ahead

Regroups(s, b, c, z) == (((s \o b) \o c) \o z) \o c = s \o (b \o (c \o (z \o c)))

LEMMA Regroup ==
  ASSUME NEW S, NEW s \in Seq(S), NEW b \in Seq(S), NEW c \in Seq(S), NEW z \in Seq(S)
  PROVE  Regroups(s, b, c, z)
<1>1. PICK t \in Seq(S), u \in Seq(S), v \in Seq(S), w \in Seq(S) :
        t = s \o b /\ u = t \o c /\ v = z \o c /\ w = c \o v
  <2>1. s \o b \in Seq(S) /\ (s \o b) \o c \in Seq(S) /\ z \o c \in Seq(S) /\ c \o (z \o c) \in Seq(S)
    BY ConcatProperties
  <2> QED
    BY <2>1, Zenon
<1>2. (u \o z) \o c = u \o (z \o c)
  <2>1. Assoc(u, z, c)
    BY Associative
  <2> QED
    BY <2>1, Zenon DEF Assoc
<1>3. (t \o c) \o v = t \o (c \o v)
  <2>1. Assoc(t, c, v)
    BY Associative
  <2> QED
    BY <2>1, Zenon DEF Assoc
<1>4. (s \o b) \o w = s \o (b \o w)
  <2>1. Assoc(s, b, w)
    BY Associative
  <2> QED
    BY <2>1, Zenon DEF Assoc
<1> QED
  BY <1>1, <1>2, <1>3, <1>4, Zenon DEF Regroups

\* Nothing is on its way and nothing has been received.
LEMMA NothingUnread ==
  ASSUME NEW S, NEW c \in Seq(S), NEW net \in Seq(S), c \o net = <<>>
  PROVE  c = <<>> /\ net = <<>>
<1>1. Len(c \o net) = Len(c) + Len(net)
  BY ConcatProperties
<1>2. Len(c) = 0 /\ Len(net) = 0
  BY <1>1
<1> QED
  BY <1>2, EmptySeq

LEMMA NothingBefore ==
  ASSUME NEW S, NEW c \in Seq(S)
  PROVE  <<>> \o c = c /\ c \o <<>> = c
BY ConcatSimplifications

\* What find and substr make of a size that has been received with its line end.
LEMMA SizeRead ==
  ASSUME NEW heads, NEW c \in Seq(BytesOf(heads)), NEW net \in Seq(BytesOf(heads)),
         NEW n \in Nat, NEW q \in Seq(BytesOf(heads)),
         Begins(c, net, SizeLine(n), q), Contains(c, CRLF)
  PROVE  /\ Find(c, CRLF, 1) = 2 /\ SubSeq(c, 1, 1) = << <<"size", n>> >>
         /\ From(c, 4) \in Seq(BytesOf(heads)) /\ From(c, 4) \o net = q
<1>1. /\ CRLF \in Seq(BytesOf(heads)) /\ Len(CRLF) = 2
      /\ CRLF[1] = <<"CR", 0>> /\ CRLF[2] = <<"LF", 0>>
  BY LineEnds
<1>2. /\ SizeLine(n) \in Seq(BytesOf(heads)) /\ Len(SizeLine(n)) = 3
      /\ SizeLine(n) = << <<"size", n>>, <<"CR", 0>>, <<"LF", 0>> >>
  BY SizeLineIs
<1> HIDE DEF SizeLine
<1>3. SizeLine(n)[1] = <<"size", n>> /\ SizeLine(n)[2] = <<"CR", 0>> /\ SizeLine(n)[3] = <<"LF", 0>>
  BY <1>2
<1>4. Follows(SizeLine(n), CRLF) /\ Len(CRLF) > 0
  <2>1. \A k \in 1 .. 2 : k = 1 \/ k = 2
    OBVIOUS
  <2>2. \A k \in 1 .. 2 : SizeLine(n)[k + 1] = CRLF[k]
    <3>1. 1 + 1 = 2 /\ 2 + 1 = 3
      OBVIOUS
    <3>2. SizeLine(n)[1 + 1] = CRLF[1] /\ SizeLine(n)[2 + 1] = CRLF[2]
      BY <1>1, <1>3, <3>1
    <3> QED
      BY <2>1, <3>2
  <2>3. SizeLine(n)[1] # CRLF[1]
    BY <1>1, <1>3
  <2> QED
    BY <1>1, <1>2, <2>2, <2>3 DEF Follows
<1>5. SizeLine(n) \in Seq(BytesOf(heads)) /\ CRLF \in Seq(BytesOf(heads))
  BY <1>1, <1>2
<1>6. Find(c, CRLF, 1) = 2
  BY <1>4, <1>5, BehindFirst
<1>7. Len(c) >= Len(SizeLine(n))
  BY <1>4, <1>5, BehindFirst
<1>8. SubSeq(c, 1, 1) = << <<"size", n>> >>
  <2>1. SubSeq(c, 1, 1) = <<SizeLine(n)[1]>>
    BY <1>4, <1>5, BehindFirst
  <2> QED
    BY <1>3, <2>1
<1>9. From(c, 4) \in Seq(BytesOf(heads)) /\ From(c, 4) \o net = q
  <2>1. From(c, Len(SizeLine(n)) + 1) \in Seq(BytesOf(heads))
    BY <1>5, <1>7, BehindPrefix
  <2>2. From(c, Len(SizeLine(n)) + 1) \o net = q
    BY <1>5, <1>7, BehindPrefix
  <2>3. Len(SizeLine(n)) + 1 = 4
    BY <1>2
  <2> QED
    BY <2>1, <2>2, <2>3
<1> QED
  BY <1>6, <1>8, <1>9

\* A head that has been received with the blank line is the first line of what
\* lies before the first blank line, and is followed by what was sent behind it.
LEMMA HeadIsFirst ==
  ASSUME NEW heads \in SUBSET Nat, NEW i \in heads,
         NEW c \in Seq(BytesOf(heads)), NEW net \in Seq(BytesOf(heads)), NEW q \in Seq(BytesOf(heads)),
         Begins(c, net, Opening(i), q), Contains(c, BlankLine)
  PROVE  /\ Len(c) >= 5 /\ FirstAt(c, BlankLine, 2)
         /\ From(c, 6) \in Seq(BytesOf(heads)) /\ From(c, 6) \o net = q
         /\ SplitString(c, BlankLine)[1] = <<HeadOf(i)>>
         /\ SplitString(<<HeadOf(i)>>, CRLF) = << <<HeadOf(i)>> >>
<1> DEFINE B == BytesOf(heads)
           parts == SplitString(c, BlankLine)
<1>1. /\ BlankLine \in Seq(B) /\ CRLF \in Seq(B)
      /\ Len(BlankLine) = 4 /\ Len(CRLF) = 2 /\ Len(BlankLine) > 0 /\ Len(CRLF) > 0
  BY LineEnds
<1>2. /\ Opening(i) \in Seq(B) /\ Len(Opening(i)) = 5
      /\ Opening(i)[1] = HeadOf(i) /\ <<HeadOf(i)>> \in Seq(B)
      /\ Follows(Opening(i), BlankLine)
  <2>1. /\ Opening(i) \in Seq(B) /\ Len(Opening(i)) = Len(BlankLine) + 1
        /\ Opening(i)[1] = HeadOf(i) /\ Opening(i)[1] # BlankLine[1]
        /\ \A k \in 1 .. Len(BlankLine) : Opening(i)[k + 1] = BlankLine[k]
        /\ <<HeadOf(i)>> \in Seq(B)
    BY OpeningIs
  <2>2. Follows(Opening(i), BlankLine)
    BY <2>1 DEF Follows
  <2>3. Len(Opening(i)) = 5
    BY <1>1, <2>1
  <2> QED
    BY <2>1, <2>2, <2>3
<1> HIDE DEF B, parts
<1>3. c \in Seq(B) /\ net \in Seq(B) /\ q \in Seq(B)
  BY DEF B
<1>4. Len(c) >= Len(Opening(i))
  BY <1>1, <1>2, <1>3, BehindFirst
<1>5. SubSeq(c, 1, 1) = <<HeadOf(i)>>
  <2>1. Follows(Opening(i), BlankLine) /\ Len(BlankLine) > 0
    BY <1>1, <1>2
  <2>2. Opening(i) \in Seq(B) /\ BlankLine \in Seq(B)
    BY <1>1, <1>2
  <2>3. SubSeq(c, 1, 1) = <<Opening(i)[1]>>
    BY <1>3, <2>1, <2>2, BehindFirst
  <2> QED
    BY <1>2, <2>3
<1>6. IsAt(c, BlankLine, 2) /\ ~IsAt(c, BlankLine, 1)
  <2>1. IsAt(c, BlankLine, 2)
    BY <1>1, <1>2, <1>3, BehindFirst
  <2>2. ~IsAt(c, BlankLine, 1)
    BY <1>1, <1>2, <1>3, BehindFirst
  <2> QED
    BY <2>1, <2>2
<1>7. Len(c) >= 5
  BY <1>2, <1>4
<1>8. FirstAt(c, BlankLine, 2)
  <2>1. 2 \in Nat \ {0} /\ 2 + Len(BlankLine) <= Len(c) + 1 /\ \A k \in 1 .. (2 - 1) : k = 1
    BY <1>1, <1>3, <1>7
  <2> QED
    BY <1>6, <2>1 DEF FirstAt
<1>9. From(c, 6) \in Seq(B) /\ From(c, 6) \o net = q
  <2>1. From(c, Len(Opening(i)) + 1) \in Seq(B)
    BY <1>2, <1>3, <1>4, BehindPrefix
  <2>2. From(c, Len(Opening(i)) + 1) \o net = q
    BY <1>2, <1>3, <1>4, BehindPrefix
  <2>3. Len(Opening(i)) + 1 = 6
    BY <1>2
  <2> QED
    BY <2>1, <2>2, <2>3
<1>10. parts[1] = <<HeadOf(i)>>
  <2>1. PICK places : Lie(places, B, parts, c, BlankLine, 1)
    BY <1>1, <1>3, PartsLie DEF parts
  <2>2. ASSUME NEW p, FirstAt(c, BlankLine, p) PROVE parts[1] = SubSeq(c, 1, p - 1)
    <3>1. BlankLine \in Seq(B) /\ Len(BlankLine) > 0
      BY <1>1
    <3> QED
      BY <1>3, <2>1, <2>2, <3>1, FirstPart
  <2>3. parts[1] = SubSeq(c, 1, 2 - 1) /\ 2 - 1 = 1
    BY <1>8, <2>2
  <2> QED
    BY <1>5, <2>3
<1>11. SplitString(<<HeadOf(i)>>, CRLF) = << <<HeadOf(i)>> >>
  <2> DEFINE h == <<HeadOf(i)>>
  <2>1. h \in Seq(B) /\ Len(h) = 1 /\ h # <<>>
    BY <1>2
  <2> HIDE DEF h
  <2>2. ~Contains(h, CRLF)
    BY <1>1, <2>1 DEF Contains
  <2>3. SplitString(h, CRLF) = <<h>>
    BY <1>1, <2>1, <2>2, OnlyPart
  <2> QED
    BY <2>3 DEF h
<1> QED
  BY <1>7, <1>8, <1>9, <1>10, <1>11 DEF B, parts
=============================================================================
