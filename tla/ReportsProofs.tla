---------------------------- MODULE ReportsProofs ----------------------------
(***************************************************************************)
(* Reports: types, no line lost by the parser, every address with its own  *)
(* version, the master addresses that come out of the renderer and the     *)
(* second parser, and the balance that "Max" fills in.                     *)
(*                                                                         *)
(* What FlattenSeq makes of a sequence is found by induction on its length,*)
(* and the induction is one on sets of numbers (SetInduction).  From there *)
(* on the operators of the model are known by what one more element does   *)
(* (OnlyAppend, LinesOfAppend, TextOfAppend), which is all that the steps  *)
(* need: ReportsInv relates what is parsed and collected to the lines      *)
(* printed so far.                                                         *)
(***************************************************************************)
EXTENDS Reports, FiniteSetTheorems, WellFoundedInduction, SequenceTheorems, TLAPS

-----------------------------------------------------------------------------
(* The least number of a set.                                              *)
LEMMA MinIsLeast ==
  ASSUME NEW S \in SUBSET Nat, S # {}
  PROVE  Min(S) \in S /\ \A m \in S : Min(S) <= m
<1> DEFINE T == {0 .. n : n \in S}
<1>1. T \subseteq FiniteSubsetsOf(Nat) /\ T # {}
  <2>1. \A n \in S : IsFiniteSet(0 .. n) /\ 0 .. n \in SUBSET Nat
    BY FS_Interval
  <2>2. QED
    BY <2>1 DEF FiniteSubsetsOf
<1>2. \E x \in T : \A y \in T : ~(<<y, x>> \in StrictSubsetOrdering(Nat))
  BY <1>1, FS_StrictSubsetOrderingWellFounded, WFMin
<1>3. \E x \in S : \A y \in S : ~(<<0 .. y, 0 .. x>> \in StrictSubsetOrdering(Nat))
  BY <1>2
<1>4. PICK x \in S : \A y \in S : ~(<<0 .. y, 0 .. x>> \in StrictSubsetOrdering(Nat))
  BY <1>3
<1>5. ASSUME NEW y \in S, y < x PROVE FALSE
  <2>1. 0 .. y \subseteq 0 .. x /\ 0 .. y # 0 .. x
    BY <1>5
  <2>2. 0 .. y \in SUBSET Nat /\ 0 .. x \in SUBSET Nat
    OBVIOUS
  <2>3. <<0 .. y, 0 .. x>> \in StrictSubsetOrdering(Nat)
    BY <2>1, <2>2 DEF StrictSubsetOrdering
  <2>4. QED
    BY <1>4, <2>3
<1>6. \A y \in S : x <= y
  BY <1>5
<1>7. QED
  BY <1>6 DEF Min

(* Induction on the numbers, in the form of sets.                          *)
LEMMA SetInduction ==
  ASSUME NEW T \in SUBSET Nat, 0 \in T, \A n \in T : n + 1 \in T
  PROVE  T = Nat
<1> DEFINE Rest == Nat \ T
<1>1. SUFFICES ASSUME Rest # {} PROVE FALSE
  OBVIOUS
<1>2. Min(Rest) \in Rest /\ \A m \in Rest : Min(Rest) <= m
  BY <1>1, MinIsLeast
<1>3. PICK r \in Rest : \A m \in Rest : r <= m
  BY <1>2
<1>4. r # 0 /\ r \in Nat
  BY <1>3
<1>5. r - 1 \in Nat /\ r - 1 \notin Rest
  BY <1>3, <1>4
<1>6. QED
  BY <1>3, <1>4, <1>5

-----------------------------------------------------------------------------
(* FlattenSeq takes the last of the functions f with Flattens(f, s, n): the *)
(* first n sequences of s, one after the other.                            *)
Flattens(f, s, n) ==
  f = [i \in 1 .. n |-> IF i = 1 THEN s[i] ELSE f[i - 1] \o s[i]]

LEMMA FlattensAt ==
  ASSUME NEW s, NEW n, NEW f, Flattens(f, s, n), NEW i \in 1 .. n
  PROVE  f[i] = IF i = 1 THEN s[i] ELSE f[i - 1] \o s[i]
<1> DEFINE e == [j \in 1 .. n |-> IF j = 1 THEN s[j] ELSE f[j - 1] \o s[j]]
<1>1. f = e
  BY DEF Flattens
<1>2. f[i] = e[i]
  BY <1>1
<1>3. QED
  BY <1>2

LEMMA FlattensExists ==
  ASSUME NEW s, NEW n \in Nat
  PROVE  \E f : Flattens(f, s, n)
<1> DEFINE T == {k \in Nat : \E f : Flattens(f, s, k)}
<1>1. 0 \in T
  <2>1. Flattens([i \in 1 .. 0 |-> {}], s, 0)
    BY DEF Flattens
  <2>2. QED
    BY <2>1
<1>2. ASSUME NEW k \in T PROVE k + 1 \in T
  <2>1. k \in Nat
    OBVIOUS
  <2>2. PICK f : Flattens(f, s, k)
    OBVIOUS
  <2> DEFINE g == [i \in 1 .. k + 1 |->
                     IF i = 1 THEN s[i] ELSE IF i = k + 1 THEN f[k] \o s[i] ELSE f[i]]
  <2>3. \A i \in 1 .. k : g[i] = f[i]
    BY <2>1, <2>2 DEF Flattens
  <2>4. \A i \in 1 .. k + 1 : g[i] = IF i = 1 THEN s[i] ELSE g[i - 1] \o s[i]
    <3>1. SUFFICES ASSUME NEW i \in 1 .. k + 1, i # 1
                   PROVE  g[i] = g[i - 1] \o s[i]
      BY <2>1
    <3>2. i - 1 \in 1 .. k
      BY <2>1, <3>1
    <3>3. g[i - 1] = f[i - 1]
      <4> HIDE DEF g
      <4>1. QED
        BY <2>3, <3>2
    <3>4. CASE i = k + 1
      <4>1. g[i] = f[k] \o s[i]
        BY <2>1, <3>1, <3>4
      <4>2. i - 1 = k
        BY <2>1, <3>4
      <4> HIDE DEF g
      <4>3. QED
        BY <3>3, <4>1, <4>2
    <3>5. CASE i # k + 1
      <4> HIDE DEF g
      <4>1. i \in 1 .. k
        BY <2>1, <3>5
      <4>2. f[i] = IF i = 1 THEN s[i] ELSE f[i - 1] \o s[i]
        BY <2>2, <4>1, FlattensAt
      <4>3. QED
        BY <2>3, <3>1, <3>3, <4>1, <4>2
    <3>6. QED
      BY <3>4, <3>5
  <2>5. g = [i \in 1 .. k + 1 |-> IF i = 1 THEN s[i] ELSE g[i - 1] \o s[i]]
    <3>1. g = [i \in 1 .. k + 1 |-> g[i]]
      OBVIOUS
    <3> HIDE DEF g
    <3>2. QED
      BY <2>4, <3>1
  <2>6. Flattens(g, s, k + 1)
    BY <2>5 DEF Flattens
  <2> HIDE DEF g
  <2>7. QED
    BY <2>1, <2>6
<1>3. T = Nat
  <2> HIDE DEF T
  <2>1. T \in SUBSET Nat
    BY DEF T
  <2>2. QED
    BY <1>1, <1>2, <2>1, SetInduction
<1>4. QED
  BY <1>3

(* Two of them agree as far as both go, when their sequences do.           *)
LEMMA FlattensAgree ==
  ASSUME NEW n \in Nat, NEW m \in Nat, n <= m, NEW s, NEW f, Flattens(f, s, n),
         NEW t, NEW g, Flattens(g, t, m), \A i \in 1 .. n : s[i] = t[i],
         NEW k \in 1 .. n
  PROVE  f[k] = g[k]
<1> DEFINE T == {i \in Nat : i \in 1 .. n => f[i] = g[i]}
<1>1. 0 \in T
  OBVIOUS
<1>2. ASSUME NEW i \in T PROVE i + 1 \in T
  <2>1. SUFFICES ASSUME i + 1 \in 1 .. n PROVE f[i + 1] = g[i + 1]
    OBVIOUS
  <2>2. i + 1 \in 1 .. m /\ s[i + 1] = t[i + 1] /\ i \in Nat /\ i + 1 - 1 = i
    BY <2>1
  <2>3. f[i + 1] = IF i + 1 = 1 THEN s[i + 1] ELSE f[i + 1 - 1] \o s[i + 1]
    BY <2>1, FlattensAt
  <2>4. g[i + 1] = IF i + 1 = 1 THEN t[i + 1] ELSE g[i + 1 - 1] \o t[i + 1]
    BY <2>2, FlattensAt
  <2>5. CASE i = 0
    BY <2>2, <2>3, <2>4, <2>5
  <2>6. CASE i # 0
    <3>1. f[i] = g[i]
      BY <2>1, <2>2, <2>6
    <3>2. QED
      BY <2>2, <2>3, <2>4, <2>6, <3>1
  <2>7. QED
    BY <2>5, <2>6
<1>3. T = Nat
  <2> HIDE DEF T
  <2>1. T \in SUBSET Nat
    BY DEF T
  <2>2. QED
    BY <1>1, <1>2, <2>1, SetInduction
<1>4. QED
  BY <1>3

LEMMA FlattenIsLast ==
  ASSUME NEW s, Len(s) \in Nat \ {0}
  PROVE  \E f : Flattens(f, s, Len(s)) /\ FlattenSeq(s) = f[Len(s)]
<1>1. PICK f : Flattens(f, s, Len(s))
  BY FlattensExists
<1> DEFINE P(g) == g = [i \in 1 .. Len(s) |-> IF i = 1 THEN s[i] ELSE g[i - 1] \o s[i]]
<1>2. P(CHOOSE g : P(g))
  <2>1. \E g : P(g)
    BY <1>1 DEF Flattens
  <2> HIDE DEF P
  <2>2. QED
    BY <2>1
<1>3. FlattenSeq(s) = (CHOOSE g : P(g))[Len(s)]
  BY DEF FlattenSeq
<1>4. Flattens((CHOOSE g : P(g)), s, Len(s))
  BY <1>2 DEF Flattens
<1>5. QED
  BY <1>3, <1>4

LEMMA FlattenNone == FlattenSeq(<<>>) = <<>>
BY DEF FlattenSeq

LEMMA FlattenAppend ==
  ASSUME NEW S, NEW s \in Seq(Seq(S)), NEW x \in Seq(S)
  PROVE  FlattenSeq(Append(s, x)) = FlattenSeq(s) \o x
<1> DEFINE t == Append(s, x)
<1>1. /\ Len(s) \in Nat /\ Len(t) = Len(s) + 1 /\ t[Len(t)] = x
      /\ \A i \in 1 .. Len(s) : s[i] = t[i]
  OBVIOUS
<1> HIDE DEF t
<1>2. PICK g : Flattens(g, t, Len(t)) /\ FlattenSeq(t) = g[Len(t)]
  BY <1>1, FlattenIsLast
<1>3. CASE Len(s) = 0
  <2>1. g[1] = t[1]
    BY <1>1, <1>2, <1>3 DEF Flattens
  <2>2. s = <<>>
    BY <1>3
  <2>3. FlattenSeq(s) \o x = x
    BY <2>2, FlattenNone, ConcatEmptySeq
  <2>4. QED
    BY <1>1, <1>2, <1>3, <2>1, <2>3 DEF t
<1>4. CASE Len(s) # 0
  <2>1. PICK f : Flattens(f, s, Len(s)) /\ FlattenSeq(s) = f[Len(s)]
    BY <1>1, <1>4, FlattenIsLast
  <2>2. Len(s) <= Len(t) /\ Len(t) \in Nat /\ Len(s) \in 1 .. Len(s)
    BY <1>1, <1>4
  <2>3. f[Len(s)] = g[Len(s)]
    <3> DEFINE n == Len(s)
               m == Len(t)
    <3>1. n \in Nat /\ m \in Nat /\ n <= m /\ n \in 1 .. n
      BY <1>1, <2>2
    <3>2. Flattens(f, s, n) /\ Flattens(g, t, m) /\ \A i \in 1 .. n : s[i] = t[i]
      BY <1>1, <1>2, <2>1
    <3> HIDE DEF n, m
    <3>3. f[n] = g[n]
      BY <3>1, <3>2, FlattensAgree
    <3>4. QED
      BY <3>3 DEF n
  <2>4. Len(t) \in 1 .. Len(t) /\ Len(t) # 1 /\ Len(t) - 1 = Len(s)
    BY <1>1, <1>4
  <2>5. g[Len(t)] = g[Len(s)] \o t[Len(t)]
    <3> DEFINE n == Len(t)
    <3>1. Flattens(g, t, n) /\ n \in 1 .. n
      BY <1>2, <2>4
    <3>2. g[n] = IF n = 1 THEN t[n] ELSE g[n - 1] \o t[n]
      <4> HIDE DEF n
      <4>1. QED
        BY <3>1, FlattensAt
    <3>3. QED
      BY <2>4, <3>2
  <2>6. QED
    BY <1>1, <1>2, <2>1, <2>3, <2>5 DEF t
<1>5. QED
  BY <1>3, <1>4

LEMMA FlattenType ==
  ASSUME NEW S, NEW s \in Seq(Seq(S))
  PROVE  FlattenSeq(s) \in Seq(S)
<1> DEFINE T == {n \in Nat : \A u \in Seq(Seq(S)) : Len(u) = n => FlattenSeq(u) \in Seq(S)}
<1>1. 0 \in T
  <2>1. ASSUME NEW u \in Seq(Seq(S)), Len(u) = 0 PROVE FlattenSeq(u) \in Seq(S)
    <3>1. u = <<>>
      BY <2>1
    <3>2. FlattenSeq(u) = <<>>
      BY <3>1, FlattenNone
    <3>3. QED
      BY <3>2, EmptySeq
  <2>2. QED
    BY <2>1
<1>2. ASSUME NEW n \in T PROVE n + 1 \in T
  <2>1. n \in Nat
    OBVIOUS
  <2>2. SUFFICES ASSUME NEW u \in Seq(Seq(S)), Len(u) = n + 1 PROVE FlattenSeq(u) \in Seq(S)
    BY <2>1
  <2>3. u # <<>>
    BY <2>1, <2>2
  <2>4. PICK v \in Seq(Seq(S)), x \in Seq(S) : u = Append(v, x)
    BY <2>3, SequenceEmptyOrAppend
  <2>5. Len(v) = n
    BY <2>1, <2>2, <2>4
  <2>6. FlattenSeq(v) \in Seq(S)
    BY <2>5
  <2>7. FlattenSeq(u) = FlattenSeq(v) \o x
    BY <2>4, FlattenAppend
  <2>8. QED
    BY <2>6, <2>7
<1>3. T = Nat
  <2> HIDE DEF T
  <2>1. T \in SUBSET Nat
    BY DEF T
  <2>2. QED
    BY <1>1, <1>2, <2>1, SetInduction
<1>4. QED
  BY <1>3

-----------------------------------------------------------------------------
(* The lines of some kinds.                                                *)
LEMMA LinesAssociate ==
  ASSUME NEW s \in Seq(Line), NEW t \in Seq(Line), NEW r \in Seq(Line)
  PROVE  (s \o t) \o r = s \o (t \o r)
BY ConcatAssociative

Chosen(l, kinds) == IF l.kind \in kinds THEN <<l>> ELSE <<>>

LEMMA OnlyEmpty ==
  ASSUME NEW kinds
  PROVE  Only(<<>>, kinds) = <<>>
<1>1. [i \in DOMAIN <<>> |-> IF <<>>[i].kind \in kinds THEN <<<<>>[i]>> ELSE <<>>] = <<>>
  OBVIOUS
<1>2. QED
  BY <1>1, FlattenNone DEF Only

LEMMA ChosenType ==
  ASSUME NEW l \in Line, NEW kinds
  PROVE  Chosen(l, kinds) \in Seq(Line)
<1>1. <<l>> \in Seq(Line) /\ <<>> \in Seq(Line)
  OBVIOUS
<1>2. QED
  BY <1>1 DEF Chosen

(* A function with the elements of a sequence is that sequence.            *)
LEMMA SameElements ==
  ASSUME NEW S, NEW s \in Seq(S), NEW t, t = [i \in 1 .. Len(s) |-> t[i]],
         \A i \in 1 .. Len(s) : t[i] = s[i]
  PROVE  t = s
<1>1. s \in [1 .. Len(s) -> S]
  BY LenProperties
<1>2. s = [i \in 1 .. Len(s) |-> s[i]]
  BY <1>1
<1>3. QED
  BY <1>2

LEMMA OnlyAppend ==
  ASSUME NEW lines \in Seq(Line), NEW l \in Line, NEW kinds
  PROVE  Only(Append(lines, l), kinds) = Only(lines, kinds) \o Chosen(l, kinds)
<1> DEFINE s == [i \in DOMAIN lines |-> Chosen(lines[i], kinds)]
           t == [i \in DOMAIN Append(lines, l) |-> Chosen(Append(lines, l)[i], kinds)]
<1>1. s \in Seq(Seq(Line))
  <2>1. \A i \in DOMAIN lines : Chosen(lines[i], kinds) \in Seq(Line)
    BY ChosenType
  <2>2. QED
    BY <2>1
<1>2. Chosen(l, kinds) \in Seq(Line)
  BY ChosenType
<1>3. t = Append(s, Chosen(l, kinds))
  <2>1. DOMAIN t = 1 .. Len(lines) + 1 /\ DOMAIN s = 1 .. Len(lines) /\ Len(lines) \in Nat
    OBVIOUS
  <2>2. Len(s) = Len(lines)
    BY <1>1, <2>1
  <2>3. \A i \in 1 .. Len(lines) : t[i] = s[i]
    OBVIOUS
  <2>4. t[Len(lines) + 1] = Chosen(l, kinds)
    OBVIOUS
  <2>5. t = [i \in 1 .. Len(lines) + 1 |-> t[i]]
    BY <2>1
  <2> HIDE DEF s, t
  <2>6. Len(Append(s, Chosen(l, kinds))) = Len(lines) + 1
    BY <1>1, <1>2, <2>2
  <2>7. \A i \in 1 .. Len(lines) + 1 : Append(s, Chosen(l, kinds))[i] = t[i]
    BY <1>1, <1>2, <2>1, <2>2, <2>3, <2>4
  <2>8. Append(s, Chosen(l, kinds)) \in Seq(Seq(Line))
    BY <1>1, <1>2
  <2> DEFINE u == Append(s, Chosen(l, kinds))
  <2> HIDE DEF u
  <2>9. /\ u \in Seq(Seq(Line)) /\ t = [i \in 1 .. Len(u) |-> t[i]]
        /\ \A i \in 1 .. Len(u) : t[i] = u[i]
    BY <2>5, <2>6, <2>7, <2>8 DEF u
  <2>10. t = u
    BY <2>9, SameElements
  <2>11. QED
    BY <2>10 DEF u
<1>4. Only(lines, kinds) = FlattenSeq(s)
  BY DEF Only, Chosen
<1>5. Only(Append(lines, l), kinds) = FlattenSeq(t)
  BY DEF Only, Chosen
<1> HIDE DEF s, t
<1>6. QED
  BY <1>1, <1>2, <1>3, <1>4, <1>5, FlattenAppend

LEMMA OnlyType ==
  ASSUME NEW lines \in Seq(Line), NEW kinds
  PROVE  Only(lines, kinds) \in Seq(Line)
<1> DEFINE s == [i \in DOMAIN lines |-> Chosen(lines[i], kinds)]
<1>1. s \in Seq(Seq(Line))
  <2>1. \A i \in DOMAIN lines : Chosen(lines[i], kinds) \in Seq(Line)
    BY ChosenType
  <2>2. QED
    BY <2>1
<1>2. Only(lines, kinds) = FlattenSeq(s)
  BY DEF Only, Chosen
<1> HIDE DEF s
<1>3. QED
  BY <1>1, <1>2, FlattenType

LEMMA OnlyNone ==
  ASSUME NEW lines \in Seq(Line), NEW kinds,
         \A i \in DOMAIN lines : lines[i].kind \notin kinds
  PROVE  Only(lines, kinds) = <<>>
<1> DEFINE T == {n \in Nat : \A u \in Seq(Line) :
                   Len(u) = n /\ (\A i \in DOMAIN u : u[i].kind \notin kinds)
                     => Only(u, kinds) = <<>>}
<1>1. 0 \in T
  <2>1. ASSUME NEW u \in Seq(Line), Len(u) = 0 PROVE Only(u, kinds) = <<>>
    <3>1. u = <<>>
      BY <2>1
    <3>2. QED
      BY <3>1, OnlyEmpty
  <2>2. QED
    BY <2>1
<1>2. ASSUME NEW n \in T PROVE n + 1 \in T
  <2>1. n \in Nat
    OBVIOUS
  <2>2. SUFFICES ASSUME NEW u \in Seq(Line), Len(u) = n + 1,
                        \A i \in DOMAIN u : u[i].kind \notin kinds
                 PROVE  Only(u, kinds) = <<>>
    BY <2>1
  <2>3. PICK v \in Seq(Line), x \in Line : u = Append(v, x)
    <3>1. u # <<>>
      BY <2>1, <2>2
    <3>2. QED
      BY <3>1, SequenceEmptyOrAppend
  <2>4. Len(v) = n /\ (\A i \in DOMAIN v : v[i].kind \notin kinds) /\ x.kind \notin kinds
    <3>1. Len(v) = n /\ u[Len(v) + 1] = x /\ \A i \in DOMAIN v : i \in DOMAIN u /\ u[i] = v[i]
      BY <2>1, <2>2, <2>3
    <3>2. Len(v) + 1 \in DOMAIN u
      BY <2>3
    <3>3. QED
      BY <2>2, <3>1, <3>2
  <2>5. Only(v, kinds) = <<>>
    BY <2>4
  <2>6. Chosen(x, kinds) = <<>>
    BY <2>4 DEF Chosen
  <2>7. Only(u, kinds) = Only(v, kinds) \o Chosen(x, kinds)
    BY <2>3, OnlyAppend
  <2>8. QED
    BY <2>5, <2>6, <2>7
<1>3. T = Nat
  <2> HIDE DEF T
  <2>1. T \in SUBSET Nat
    BY DEF T
  <2>2. QED
    BY <1>1, <1>2, <2>1, SetInduction
<1>4. QED
  BY <1>3

LEMMA OnlyConcat ==
  ASSUME NEW lines \in Seq(Line), NEW more \in Seq(Line), NEW kinds
  PROVE  Only(lines \o more, kinds) = Only(lines, kinds) \o Only(more, kinds)
<1> DEFINE T == {n \in Nat : \A u \in Seq(Line) : Len(u) = n =>
                   Only(lines \o u, kinds) = Only(lines, kinds) \o Only(u, kinds)}
<1>0. Only(lines, kinds) \in Seq(Line)
  BY OnlyType
<1>1. 0 \in T
  <2>1. ASSUME NEW u \in Seq(Line), Len(u) = 0
        PROVE Only(lines \o u, kinds) = Only(lines, kinds) \o Only(u, kinds)
    <3>1. u = <<>> /\ lines \o u = lines
      BY <2>1
    <3>2. Only(u, kinds) = <<>>
      BY <3>1, OnlyEmpty
    <3>3. QED
      BY <1>0, <3>1, <3>2, ConcatEmptySeq
  <2>2. QED
    BY <2>1
<1>2. ASSUME NEW n \in T PROVE n + 1 \in T
  <2>1. n \in Nat
    OBVIOUS
  <2>2. SUFFICES ASSUME NEW u \in Seq(Line), Len(u) = n + 1
                 PROVE  Only(lines \o u, kinds) = Only(lines, kinds) \o Only(u, kinds)
    BY <2>1
  <2>3. PICK v \in Seq(Line), x \in Line : u = Append(v, x)
    <3>1. u # <<>>
      BY <2>1, <2>2
    <3>2. QED
      BY <3>1, SequenceEmptyOrAppend
  <2>4. Len(v) = n
    BY <2>1, <2>2, <2>3
  <2>5. Only(lines \o v, kinds) = Only(lines, kinds) \o Only(v, kinds)
    BY <2>4
  <2>6. lines \o u = Append(lines \o v, x) /\ lines \o v \in Seq(Line)
    BY <2>3
  <2>7. Only(lines \o u, kinds) = Only(lines \o v, kinds) \o Chosen(x, kinds)
    <3> DEFINE w == lines \o v
    <3> HIDE DEF w
    <3>1. w \in Seq(Line) /\ lines \o u = Append(w, x)
      BY <2>6 DEF w
    <3>2. Only(Append(w, x), kinds) = Only(w, kinds) \o Chosen(x, kinds)
      BY <3>1, OnlyAppend
    <3>3. QED
      BY <3>1, <3>2 DEF w
  <2>8. Only(u, kinds) = Only(v, kinds) \o Chosen(x, kinds)
    BY <2>3, OnlyAppend
  <2>9. Only(v, kinds) \in Seq(Line) /\ Chosen(x, kinds) \in Seq(Line)
    BY OnlyType, ChosenType
  <2>10. Only(lines, kinds) \o Only(v, kinds) \o Chosen(x, kinds)
           = Only(lines, kinds) \o (Only(v, kinds) \o Chosen(x, kinds))
    BY <1>0, <2>9, LinesAssociate
  <2>11. QED
    BY <2>5, <2>7, <2>8, <2>10
<1>3. T = Nat
  <2> HIDE DEF T
  <2>1. T \in SUBSET Nat
    BY DEF T
  <2>2. QED
    BY <1>1, <1>2, <2>1, SetInduction
<1>4. QED
  BY <1>3

LEMMA OnlyOne ==
  ASSUME NEW l \in Line, NEW kinds
  PROVE  Only(<<l>>, kinds) = Chosen(l, kinds)
<1>1. <<l>> = Append(<<>>, l) /\ <<>> \in Seq(Line)
  OBVIOUS
<1>2. Only(<<l>>, kinds) = Only(<<>>, kinds) \o Chosen(l, kinds)
  BY <1>1, OnlyAppend
<1>3. QED
  BY <1>2, OnlyEmpty, ChosenType, ConcatEmptySeq

-----------------------------------------------------------------------------
(* Sections, none of them empty, and what they are rendered to.            *)
Solid == {s \in Section : s.lines # <<>>}

LEMMA SolidSections ==
  ASSUME NEW list
  PROVE  (list \in Seq(Section) /\ \A i \in DOMAIN list : list[i].lines # <<>>)
           <=> list \in Seq(Solid)
<1>1. ASSUME list \in Seq(Section), \A i \in DOMAIN list : list[i].lines # <<>>
      PROVE  list \in Seq(Solid)
  <2>1. \A i \in 1 .. Len(list) : list[i] \in Solid
    BY <1>1 DEF Solid
  <2>2. QED
    BY <1>1, <2>1
<1>2. ASSUME list \in Seq(Solid)
      PROVE  list \in Seq(Section) /\ \A i \in DOMAIN list : list[i].lines # <<>>
  <2>1. \A i \in 1 .. Len(list) : list[i] \in Section /\ list[i].lines # <<>>
    BY <1>2 DEF Solid
  <2>2. QED
    BY <1>2, <2>1
<1>3. QED
  BY <1>1, <1>2

LEMMA SectionIsSolid ==
  ASSUME NEW type \in {"heading", "text", "key_value", "table"},
         NEW lines \in Seq(Line), lines # <<>>
  PROVE  /\ SectionOf(type, lines) \in Solid
         /\ SectionOf(type, lines).type = type
         /\ SectionOf(type, lines).lines = lines
BY DEF Solid, Section, SectionOf

LEMMA RenderedType ==
  ASSUME NEW s \in Solid
  PROVE  Rendered(s) \in Seq(Line)
<1>1. s.lines \in Seq(Line) /\ s.lines # <<>>
  BY DEF Solid, Section
<1>2. s.type \in {"heading", "text", "key_value", "table"}
  BY DEF Solid, Section
<1>3. CASE s.type = "heading"
  BY <1>1, <1>3 DEF Rendered
<1>4. CASE s.type = "text"
  <2>1. \A i \in 1 .. Len(s.lines) : [s.lines[i] EXCEPT !.kind = "text"] \in Line
    <3>1. \A l \in Line : [l EXCEPT !.kind = "text"] \in Line
      BY DEF Line, Kinds
    <3>2. \A i \in 1 .. Len(s.lines) : s.lines[i] \in Line
      BY <1>1
    <3>3. QED
      BY <3>1, <3>2
  <2>2. Rendered(s) = [i \in 1 .. Len(s.lines) |-> [s.lines[i] EXCEPT !.kind = "text"]]
    BY <1>1, <1>4 DEF Rendered
  <2>3. QED
    BY <1>1, <2>1, <2>2
<1>5. CASE s.type = "key_value"
  <2>1. s.lines[1] \in Line
    BY <1>1
  <2>2. Rendered(s) = <<s.lines[1]>>
    BY <1>5 DEF Rendered, RenderedPair
  <2>3. QED
    BY <2>1, <2>2
<1>6. CASE s.type = "table"
  <2>1. Head(s.lines) \in Line /\ Tail(s.lines) \in Seq(Line)
    BY <1>1, HeadTailProperties
  <2>2. [kind |-> "rule", n |-> 0] \in Line
    BY ReportsAssumption DEF Line, Kinds
  <2>3. Rendered(s) = <<Head(s.lines), [kind |-> "rule", n |-> 0]>> \o Tail(s.lines)
    BY <1>6 DEF Rendered
  <2>4. <<Head(s.lines), [kind |-> "rule", n |-> 0]>> \in Seq(Line)
    BY <2>1, <2>2
  <2>5. QED
    BY <2>1, <2>3, <2>4
<1>7. QED
  BY <1>2, <1>3, <1>4, <1>5, <1>6

LEMMA TextOfAppend ==
  ASSUME NEW list \in Seq(Solid), NEW s \in Solid
  PROVE  TextOf(Append(list, s)) = TextOf(list) \o Rendered(s)
<1> DEFINE p == [i \in DOMAIN list |-> Rendered(list[i])]
           q == [i \in DOMAIN Append(list, s) |-> Rendered(Append(list, s)[i])]
           t == Append(p, Rendered(s))
<1>1. p \in Seq(Seq(Line)) /\ Rendered(s) \in Seq(Line) /\ Len(p) = Len(list)
  <2>1. \A i \in DOMAIN list : Rendered(list[i]) \in Seq(Line)
    BY RenderedType
  <2>2. p \in Seq(Seq(Line)) /\ Len(p) = Len(list)
    BY <2>1
  <2>3. Rendered(s) \in Seq(Line)
    BY RenderedType
  <2>4. QED
    BY <2>2, <2>3
<1>2. \A i \in 1 .. Len(list) : q[i] = p[i]
  OBVIOUS
<1>3. q[Len(list) + 1] = Rendered(s) /\ Len(list) \in Nat
  OBVIOUS
<1>4. q = [i \in 1 .. Len(list) + 1 |-> q[i]]
  OBVIOUS
<1>5. TextOf(list) = FlattenSeq(p) /\ TextOf(Append(list, s)) = FlattenSeq(q)
  BY DEF TextOf
<1> HIDE DEF p, q
<1>6. t \in Seq(Seq(Line)) /\ Len(t) = Len(list) + 1 /\ \A i \in 1 .. Len(t) : q[i] = t[i]
  BY <1>1, <1>2, <1>3
<1>7. q = [i \in 1 .. Len(t) |-> q[i]]
  BY <1>4, <1>6
<1> HIDE DEF t
<1>8. q = t
  BY <1>6, <1>7, SameElements
<1>9. FlattenSeq(Append(p, Rendered(s))) = FlattenSeq(p) \o Rendered(s)
  BY <1>1, FlattenAppend
<1>10. QED
  BY <1>5, <1>8, <1>9 DEF t

LEMMA LinesOfAppend ==
  ASSUME NEW list \in Seq(Solid), NEW s \in Solid
  PROVE  LinesOf(Append(list, s)) = LinesOf(list) \o s.lines
<1> DEFINE p == [i \in DOMAIN list |-> list[i].lines]
           q == [i \in DOMAIN Append(list, s) |-> Append(list, s)[i].lines]
           t == Append(p, s.lines)
<1>1. p \in Seq(Seq(Line)) /\ s.lines \in Seq(Line) /\ Len(p) = Len(list)
  <2>1. \A i \in DOMAIN list : list[i].lines \in Seq(Line)
    BY DEF Solid, Section
  <2>2. s.lines \in Seq(Line)
    BY DEF Solid, Section
  <2>3. QED
    BY <2>1, <2>2
<1>2. \A i \in 1 .. Len(list) : q[i] = p[i]
  OBVIOUS
<1>3. q[Len(list) + 1] = s.lines /\ Len(list) \in Nat
  OBVIOUS
<1>4. q = [i \in 1 .. Len(list) + 1 |-> q[i]]
  OBVIOUS
<1>5. LinesOf(list) = FlattenSeq(p) /\ LinesOf(Append(list, s)) = FlattenSeq(q)
  BY DEF LinesOf
<1> HIDE DEF p, q
<1>6. t \in Seq(Seq(Line)) /\ Len(t) = Len(list) + 1 /\ \A i \in 1 .. Len(t) : q[i] = t[i]
  BY <1>1, <1>2, <1>3
<1>7. q = [i \in 1 .. Len(t) |-> q[i]]
  BY <1>4, <1>6
<1> HIDE DEF t
<1>8. q = t
  BY <1>6, <1>7, SameElements
<1>9. FlattenSeq(Append(p, s.lines)) = FlattenSeq(p) \o s.lines
  BY <1>1, FlattenAppend
<1>10. QED
  BY <1>5, <1>8, <1>9 DEF t

LEMMA ListTypes ==
  ASSUME NEW list \in Seq(Solid)
  PROVE  TextOf(list) \in Seq(Line) /\ LinesOf(list) \in Seq(Line)
<1>1. TextOf(list) \in Seq(Line)
  <2> DEFINE p == [i \in DOMAIN list |-> Rendered(list[i])]
  <2>1. p \in Seq(Seq(Line))
    <3>1. \A i \in DOMAIN list : Rendered(list[i]) \in Seq(Line)
      BY RenderedType
    <3>2. QED
      BY <3>1
  <2> HIDE DEF p
  <2>2. FlattenSeq(p) \in Seq(Line)
    BY <2>1, FlattenType
  <2>3. QED
    BY <2>2 DEF p, TextOf
<1>2. LinesOf(list) \in Seq(Line)
  <2> DEFINE p == [i \in DOMAIN list |-> list[i].lines]
  <2>1. p \in Seq(Seq(Line))
    <3>1. \A i \in DOMAIN list : list[i].lines \in Seq(Line)
      BY DEF Solid, Section
    <3>2. QED
      BY <3>1
  <2> HIDE DEF p
  <2>2. FlattenSeq(p) \in Seq(Line)
    BY <2>1, FlattenType
  <2>3. QED
    BY <2>2 DEF p, LinesOf
<1>3. QED
  BY <1>1, <1>2

LEMMA NoSections == TextOf(<<>>) = <<>> /\ LinesOf(<<>>) = <<>>
<1>1. [i \in DOMAIN <<>> |-> Rendered(<<>>[i])] = <<>>
  OBVIOUS
<1>2. [i \in DOMAIN <<>> |-> <<>>[i].lines] = <<>>
  OBVIOUS
<1>3. QED
  BY <1>1, <1>2, FlattenNone DEF TextOf, LinesOf

-----------------------------------------------------------------------------
(* What the flushes of the parser do to the lines and to the master rows.  *)
Shown == Kinds \ {"blank", "rule"}
Masters == {"master", "active"}

(* The text buffer holds text lines and the table buffer rows, so neither  *)
(* becomes a master address when it is rendered.                           *)
Buffers ==
  /\ \A i \in DOMAIN text : text[i].kind = "text"
  /\ \A i \in DOMAIN table : table[i].kind = "row"

LEMMA TextFlush ==
  ASSUME NEW list \in Seq(Solid), text \in Seq(Line)
  PROVE  /\ TextFlushed(list) \in Seq(Solid)
         /\ LinesOf(TextFlushed(list)) = LinesOf(list) \o text
<1>1. LinesOf(list) \in Seq(Line)
  BY ListTypes
<1>2. CASE text = <<>>
  BY <1>1, <1>2, ConcatEmptySeq DEF TextFlushed
<1>3. CASE text # <<>>
  <2> DEFINE s == SectionOf("text", text)
  <2>1. s \in Solid /\ s.lines = text
    BY <1>3, SectionIsSolid
  <2>2. TextFlushed(list) = Append(list, s)
    BY <1>3 DEF TextFlushed
  <2> HIDE DEF s
  <2>3. Append(list, s) \in Seq(Solid)
    BY <2>1
  <2>4. LinesOf(Append(list, s)) = LinesOf(list) \o s.lines
    BY <2>1, LinesOfAppend
  <2>5. QED
    BY <2>1, <2>2, <2>3, <2>4
<1>4. QED
  BY <1>2, <1>3

LEMMA TableFlush ==
  ASSUME NEW list \in Seq(Solid), table \in Seq(Line)
  PROVE  /\ TableFlushed(list) \in Seq(Solid)
         /\ LinesOf(TableFlushed(list)) = LinesOf(list) \o table
<1>1. LinesOf(list) \in Seq(Line)
  BY ListTypes
<1>2. CASE table = <<>>
  BY <1>1, <1>2, ConcatEmptySeq DEF TableFlushed
<1>3. CASE table # <<>>
  <2> DEFINE s == SectionOf("table", table)
  <2>1. s \in Solid /\ s.lines = table
    BY <1>3, SectionIsSolid
  <2>2. TableFlushed(list) = Append(list, s)
    BY <1>3 DEF TableFlushed
  <2> HIDE DEF s
  <2>3. Append(list, s) \in Seq(Solid)
    BY <2>1
  <2>4. LinesOf(Append(list, s)) = LinesOf(list) \o s.lines
    BY <2>1, LinesOfAppend
  <2>5. QED
    BY <2>1, <2>2, <2>3, <2>4
<1>4. QED
  BY <1>2, <1>3

(* The master rows of a rendered list that gets one more section.          *)
LEMMA MastersAppend ==
  ASSUME NEW list \in Seq(Solid), NEW s \in Solid
  PROVE  MasterRows(TextOf(Append(list, s))) = MasterRows(TextOf(list)) \o MasterRows(Rendered(s))
<1>1. TextOf(list) \in Seq(Line) /\ Rendered(s) \in Seq(Line)
  BY ListTypes, RenderedType
<1>2. TextOf(Append(list, s)) = TextOf(list) \o Rendered(s)
  BY TextOfAppend
<1>3. Only(TextOf(list) \o Rendered(s), Masters)
        = Only(TextOf(list), Masters) \o Only(Rendered(s), Masters)
  BY <1>1, OnlyConcat
<1>4. QED
  BY <1>2, <1>3 DEF MasterRows, Masters

LEMMA PlainSection ==
  ASSUME NEW list \in Seq(Solid), NEW s \in Solid,
         MasterRows(Rendered(s)) = <<>>
  PROVE  MasterRows(TextOf(Append(list, s))) = MasterRows(TextOf(list))
<1>1. MasterRows(TextOf(list)) \in Seq(Line)
  BY ListTypes, OnlyType DEF MasterRows
<1>2. MasterRows(TextOf(list)) \o <<>> = MasterRows(TextOf(list))
  BY <1>1, ConcatEmptySeq
<1>3. QED
  BY <1>2, MastersAppend

LEMMA TextFlushPlain ==
  ASSUME NEW list \in Seq(Solid), text \in Seq(Line)
  PROVE  MasterRows(TextOf(TextFlushed(list))) = MasterRows(TextOf(list))
<1> DEFINE s == SectionOf("text", text)
<1>1. CASE text = <<>>
  BY <1>1 DEF TextFlushed
<1>2. CASE text # <<>>
  <2>1. s \in Solid /\ s.type = "text" /\ s.lines = text
    BY <1>2, SectionIsSolid
  <2>2. TextFlushed(list) = Append(list, s)
    BY <1>2 DEF TextFlushed
  <2> HIDE DEF s
  <2>3. Rendered(s) = [i \in DOMAIN text |-> [text[i] EXCEPT !.kind = "text"]]
    BY <2>1 DEF Rendered
  <2>4. \A i \in DOMAIN text : [text[i] EXCEPT !.kind = "text"].kind = "text"
    <3>1. \A l \in Line : [l EXCEPT !.kind = "text"].kind = "text"
      BY DEF Line
    <3>2. \A i \in DOMAIN text : text[i] \in Line
      OBVIOUS
    <3>3. QED
      BY <3>1, <3>2
  <2>5. \A i \in DOMAIN Rendered(s) : Rendered(s)[i].kind \notin Masters
    BY <2>3, <2>4 DEF Masters
  <2>6. MasterRows(Rendered(s)) = <<>>
    BY <2>1, <2>5, RenderedType, OnlyNone DEF MasterRows, Masters
  <2>7. QED
    BY <2>1, <2>2, <2>6, PlainSection
<1>3. QED
  BY <1>1, <1>2

(* A table has no master rows.                                             *)
LEMMA TableIsPlain ==
  ASSUME NEW lines \in Seq(Line), lines # <<>>,
         \A i \in DOMAIN lines : lines[i].kind = "row"
  PROVE  /\ SectionOf("table", lines) \in Solid
         /\ MasterRows(Rendered(SectionOf("table", lines))) = <<>>
<1> DEFINE s == SectionOf("table", lines)
           rule == [kind |-> "rule", n |-> 0]
<1>1. s \in Solid /\ s.type = "table" /\ s.lines = lines
  BY SectionIsSolid
<1> HIDE DEF s
<1>3. Rendered(s) = <<Head(lines), rule>> \o Tail(lines)
  BY <1>1 DEF Rendered
<1>4. /\ Head(lines) \in Line /\ Head(lines) = lines[1] /\ 1 \in DOMAIN lines
      /\ Tail(lines) \in Seq(Line) /\ Len(Tail(lines)) = Len(lines) - 1
      /\ \A i \in 1 .. Len(Tail(lines)) : Tail(lines)[i] = lines[i + 1] /\ i + 1 \in DOMAIN lines
  BY HeadTailProperties
<1>5. rule \in Line /\ rule.kind = "rule"
  BY ReportsAssumption DEF Line, Kinds
<1>6. <<Head(lines), rule>> \in Seq(Line) /\ Len(<<Head(lines), rule>>) = 2
  BY <1>4, <1>5
<1> HIDE DEF rule
<1>7. \A i \in 1 .. Len(Tail(lines)) : Tail(lines)[i].kind = "row"
  BY <1>4
<1>8. Head(lines).kind = "row"
  BY <1>4
<1>9. Only(<<Head(lines), rule>>, Masters) = <<>>
  <2> DEFINE two == <<Head(lines), rule>>
  <2>1. \A i \in DOMAIN two : two[i].kind \notin Masters
    BY <1>5, <1>8 DEF Masters
  <2>2. two \in Seq(Line)
    BY <1>6
  <2> HIDE DEF two
  <2>3. Only(two, Masters) = <<>>
    BY <2>1, <2>2, OnlyNone
  <2>4. QED
    BY <2>3 DEF two
<1>10. Only(Tail(lines), Masters) = <<>>
  <2> DEFINE rest == Tail(lines)
  <2>1. rest \in Seq(Line) /\ \A i \in DOMAIN rest : rest[i].kind \notin Masters
    BY <1>4, <1>7 DEF Masters
  <2> HIDE DEF rest
  <2>2. Only(rest, Masters) = <<>>
    BY <2>1, OnlyNone
  <2>3. QED
    BY <2>2 DEF rest
<1>11. MasterRows(Rendered(s)) = <<>>
  <2>1. Only(Rendered(s), Masters)
          = Only(<<Head(lines), rule>>, Masters) \o Only(Tail(lines), Masters)
    <3> DEFINE two == <<Head(lines), rule>>
               rest == Tail(lines)
    <3>1. two \in Seq(Line) /\ rest \in Seq(Line) /\ Rendered(s) = two \o rest
      BY <1>3, <1>4, <1>6
    <3> HIDE DEF two, rest
    <3>2. Only(two \o rest, Masters) = Only(two, Masters) \o Only(rest, Masters)
      BY <3>1, OnlyConcat
    <3>3. QED
      BY <3>1, <3>2 DEF two, rest
  <2>2. QED
    BY <1>9, <1>10, <2>1 DEF MasterRows, Masters
<1>12. QED
  BY <1>1, <1>11 DEF s

LEMMA TableFlushPlain ==
  ASSUME NEW list \in Seq(Solid), table \in Seq(Line), Buffers
  PROVE  MasterRows(TextOf(TableFlushed(list))) = MasterRows(TextOf(list))
<1> DEFINE s == SectionOf("table", table)
<1>1. CASE table = <<>>
  BY <1>1 DEF TableFlushed
<1>2. CASE table # <<>>
  <2>1. \A i \in DOMAIN table : table[i].kind = "row"
    BY DEF Buffers
  <2>2. s \in Solid /\ MasterRows(Rendered(s)) = <<>>
    BY <1>2, <2>1, TableIsPlain
  <2>3. TableFlushed(list) = Append(list, s)
    BY <1>2 DEF TableFlushed
  <2> HIDE DEF s
  <2>4. QED
    BY <2>2, <2>3, PlainSection
<1>3. QED
  BY <1>1, <1>2

(* A line that becomes a section of its own.                               *)
LEMMA OwnSectionAdds ==
  ASSUME NEW list \in Seq(Solid), NEW l \in Line,
         l.kind \in {"blank", "heading"} \cup Bullets
  PROVE  /\ list \o OwnSection(l) \in Seq(Solid)
         /\ LinesOf(list \o OwnSection(l)) = LinesOf(list) \o Chosen(l, Shown)
         /\ MasterRows(TextOf(list \o OwnSection(l))) =
              MasterRows(TextOf(list)) \o Chosen(l, Masters)
<1> DEFINE one == <<l>>
<1>1. one \in Seq(Line) /\ one # <<>> /\ one[1] = l /\ Len(one) = 1 /\ DOMAIN one = {1}
  OBVIOUS
<1>2. CASE l.kind = "blank"
  <2>1. OwnSection(l) = <<>> /\ Chosen(l, Shown) = <<>> /\ Chosen(l, Masters) = <<>>
    BY <1>2 DEF OwnSection, Chosen, Shown, Masters
  <2>2. LinesOf(list) \in Seq(Line) /\ MasterRows(TextOf(list)) \in Seq(Line)
    BY ListTypes, OnlyType DEF MasterRows
  <2>3. QED
    BY <2>1, <2>2, ConcatEmptySeq
<1>3. ASSUME NEW type \in {"heading", "text", "key_value"},
             l.kind # "blank", OwnSection(l) = <<SectionOf(type, one)>>,
             type = "key_value" \/ l.kind \notin Masters
      PROVE  /\ list \o OwnSection(l) \in Seq(Solid)
             /\ LinesOf(list \o OwnSection(l)) = LinesOf(list) \o Chosen(l, Shown)
             /\ MasterRows(TextOf(list \o OwnSection(l))) =
                  MasterRows(TextOf(list)) \o Chosen(l, Masters)
  <2> DEFINE s == SectionOf(type, one)
  <2>1. s \in Solid /\ s.type = type /\ s.lines = one
    <3>1. type \in {"heading", "text", "key_value", "table"}
      OBVIOUS
    <3> HIDE DEF one
    <3>2. QED
      BY <1>1, <3>1, SectionIsSolid
  <2>2. Chosen(l, Shown) = one
    BY <1>3 DEF Chosen, Shown, Bullets, Kinds
  <2> HIDE DEF s, one
  <2>3. list \o OwnSection(l) = Append(list, s)
    BY <1>3, <2>1, AppendIsConcat DEF s
  <2>4. MasterRows(Rendered(s)) = Chosen(l, Masters)
    <3>1. CASE type = "text"
      <4>1. Rendered(s) = [i \in {1} |-> [one[i] EXCEPT !.kind = "text"]]
        BY <1>1, <2>1, <3>1 DEF Rendered
      <4>2. [l EXCEPT !.kind = "text"].kind = "text"
        BY DEF Line
      <4>3. \A i \in DOMAIN Rendered(s) : Rendered(s)[i].kind \notin Masters
        BY <1>1, <4>1, <4>2 DEF Masters
      <4>4. MasterRows(Rendered(s)) = <<>>
        BY <2>1, <4>3, RenderedType, OnlyNone DEF MasterRows, Masters
      <4>5. QED
        BY <1>3, <3>1, <4>4 DEF Chosen
    <3>2. CASE type # "text"
      <4>1. Rendered(s) = <<l>>
        BY <1>1, <1>3, <2>1, <3>2 DEF Rendered, RenderedPair, one
      <4>2. QED
        BY <4>1, OnlyOne DEF MasterRows, Masters
    <3>3. QED
      BY <3>1, <3>2
  <2>5. Append(list, s) \in Seq(Solid)
    BY <2>1
  <2>6. LinesOf(Append(list, s)) = LinesOf(list) \o s.lines
    BY <2>1, LinesOfAppend
  <2>7. MasterRows(TextOf(Append(list, s))) = MasterRows(TextOf(list)) \o MasterRows(Rendered(s))
    BY <2>1, MastersAppend
  <2>8. QED
    BY <2>1, <2>2, <2>3, <2>4, <2>5, <2>6, <2>7
<1>4. CASE l.kind = "heading"
  BY <1>3, <1>4 DEF OwnSection, Masters
<1>5. CASE l.kind = "item"
  BY <1>3, <1>5 DEF OwnSection, Masters
<1>6. CASE l.kind \in Bullets \ {"item"}
  BY <1>3, <1>6 DEF OwnSection, Masters, Bullets
<1>7. QED
  BY <1>2, <1>4, <1>5, <1>6 DEF Bullets

-----------------------------------------------------------------------------
(* The parser.                                                             *)

(* What the sections render to has the master rows of the lines so far.    *)
MastersPassed == MasterRows(TextOf(sections)) = MasterRows(printed)

NewLine(kind) == [kind |-> kind, n |-> Len(printed) + 1]

(* What the three ways to take in a line have in common.                   *)
LEMMA LineTaken ==
  ASSUME TypeOK, NEW kind \in Kinds, KernelPrints(kind)
  PROVE  /\ NewLine(kind) \in Line /\ NewLine(kind).kind = kind
         /\ printed' = Append(printed, NewLine(kind)) /\ printed' \in Seq(Line)
         /\ \A kinds : Only(printed', kinds) = Only(printed, kinds) \o Chosen(NewLine(kind), kinds)
         /\ TableRow(NewLine(kind)) \/ TextLine(NewLine(kind)) \/ OwnLine(NewLine(kind))
<1> DEFINE l == NewLine(kind)
<1>1. printed \in Seq(Line) /\ Len(printed) \in Nat
  BY DEF TypeOK
<1>2. Len(printed) < MaxLines /\ printed' = Append(printed, l)
  BY DEF KernelPrints, NewLine
<1>3. l \in Line /\ l.kind = kind
  BY <1>1, <1>2, ReportsAssumption DEF Line, NewLine
<1>4. TableRow(l) \/ TextLine(l) \/ OwnLine(l)
  BY DEF KernelPrints, NewLine
<1> HIDE DEF l
<1>5. printed' \in Seq(Line)
  BY <1>1, <1>2, <1>3
<1>6. \A kinds : Only(printed', kinds) = Only(printed, kinds) \o Chosen(l, kinds)
  BY <1>1, <1>2, <1>3, OnlyAppend
<1>7. QED
  BY <1>2, <1>3, <1>4, <1>5, <1>6 DEF l

(* A flush moves a buffer behind the sections, whichever of the two it is. *)
LEMMA BuffersInOrder ==
  ASSUME NEW list \in Seq(Line), text \in Seq(Line), table \in Seq(Line),
         text = <<>> \/ table = <<>>
  PROVE  list \o table \o text = list \o text \o table
<1>1. list \o text \in Seq(Line) /\ list \o table \in Seq(Line)
  OBVIOUS
<1>2. /\ (list \o text) \o <<>> = list \o text
      /\ (list \o table) \o <<>> = list \o table
      /\ list \o <<>> = list
  BY <1>1, ConcatEmptySeq
<1>3. CASE text = <<>>
  BY <1>2, <1>3
<1>4. CASE table = <<>>
  BY <1>2, <1>4
<1>5. QED
  BY <1>3, <1>4

LEMMA TableRowStep ==
  ASSUME TypeOK, InLoop, Buffers, MastersPassed, NEW kind \in Kinds, KernelPrints(kind),
         TableRow(NewLine(kind))
  PROVE  /\ sections' \in Seq(Solid) /\ text' \in Seq(Line) /\ table' \in Seq(Line)
         /\ InLoop' /\ Buffers' /\ MastersPassed'
<1> DEFINE l == NewLine(kind)
           L == LinesOf(sections)
           P == Only(printed, Shown)
<1>1. /\ sections \in Seq(Solid) /\ text \in Seq(Line) /\ table \in Seq(Line)
      /\ printed \in Seq(Line)
  BY SolidSections DEF TypeOK
<1>2. /\ l \in Line /\ l.kind = kind
      /\ \A kinds : Only(printed', kinds) = Only(printed, kinds) \o Chosen(l, kinds)
  BY LineTaken
<1>3. /\ l.kind \in {"row", "rule"}
      /\ sections' = TextFlushed(sections) /\ text' = <<>>
      /\ table' = IF l.kind = "row" THEN Append(table, l) ELSE table
  BY DEF TableRow
<1>4. L \in Seq(Line) /\ P \in Seq(Line) /\ L \o text \in Seq(Line)
  BY <1>1, ListTypes, OnlyType
<1>5. (L \o text) \o table = P
  BY DEF InLoop, Shown
<1> HIDE DEF l, L, P
<1>6. sections' \in Seq(Solid) /\ LinesOf(sections') = L \o text
  BY <1>1, <1>3, TextFlush DEF L
<1>7. text' \in Seq(Line) /\ table' \in Seq(Line)
  BY <1>1, <1>2, <1>3
<1>8. LinesOf(sections') \o text' \o table' = Only(printed', Shown)
  <2>1. LinesOf(sections') \o text' = L \o text
    BY <1>3, <1>4, <1>6, ConcatEmptySeq
  <2>2. CASE l.kind = "row"
    <3>1. Chosen(l, Shown) = <<l>> /\ <<l>> \in Seq(Line)
      BY <1>2, <2>2 DEF Chosen, Shown, Kinds
    <3>2. table' = table \o <<l>>
      BY <1>1, <1>2, <1>3, <2>2, AppendIsConcat
    <3>3. (L \o text) \o (table \o <<l>>) = (L \o text \o table) \o <<l>>
      BY <1>1, <1>4, <3>1, LinesAssociate
    <3>4. QED
      BY <1>2, <1>5, <2>1, <3>1, <3>2, <3>3 DEF P
  <2>3. CASE l.kind = "rule"
    <3>1. Chosen(l, Shown) = <<>>
      BY <2>3 DEF Chosen, Shown
    <3>2. P \o <<>> = P
      BY <1>4, ConcatEmptySeq
    <3>3. table' = table
      BY <1>3, <2>3
    <3>4. QED
      BY <1>2, <1>5, <2>1, <3>1, <3>2, <3>3 DEF P
  <2>4. QED
    BY <1>3, <2>2, <2>3
<1>9. Buffers'
  <2>1. \A i \in DOMAIN table' : table'[i].kind = "row"
    BY <1>1, <1>2, <1>3 DEF Buffers
  <2>2. \A i \in DOMAIN text' : text'[i].kind = "text"
    BY <1>3
  <2>3. QED
    BY <2>1, <2>2 DEF Buffers
<1>10. MastersPassed'
  <2>1. Chosen(l, Masters) = <<>>
    BY <1>3 DEF Chosen, Masters
  <2>2. MasterRows(TextOf(sections')) = MasterRows(TextOf(sections))
    BY <1>1, <1>3, TextFlushPlain
  <2>3. MasterRows(printed) \in Seq(Line)
    BY <1>1, OnlyType DEF MasterRows
  <2>4. MasterRows(printed') = MasterRows(printed) \o Chosen(l, Masters)
    BY <1>2 DEF MasterRows, Masters
  <2>5. MasterRows(printed') = MasterRows(printed)
    BY <2>1, <2>3, <2>4, ConcatEmptySeq
  <2>6. QED
    BY <2>2, <2>5 DEF MastersPassed
<1>11. QED
  BY <1>3, <1>6, <1>7, <1>8, <1>9, <1>10 DEF InLoop, Shown

LEMMA TextLineStep ==
  ASSUME TypeOK, InLoop, Buffers, MastersPassed, NEW kind \in Kinds, KernelPrints(kind),
         TextLine(NewLine(kind))
  PROVE  /\ sections' \in Seq(Solid) /\ text' \in Seq(Line) /\ table' \in Seq(Line)
         /\ InLoop' /\ Buffers' /\ MastersPassed'
<1> DEFINE l == NewLine(kind)
           L == LinesOf(sections)
           P == Only(printed, Shown)
<1>1. /\ sections \in Seq(Solid) /\ text \in Seq(Line) /\ table \in Seq(Line)
      /\ printed \in Seq(Line)
  BY SolidSections DEF TypeOK
<1>2. /\ l \in Line /\ l.kind = kind
      /\ \A kinds : Only(printed', kinds) = Only(printed, kinds) \o Chosen(l, kinds)
  BY LineTaken
<1>3. /\ l.kind = "text" /\ sections' = TableFlushed(sections)
      /\ text' = Append(text, l) /\ table' = <<>>
  BY DEF TextLine
<1>4. L \in Seq(Line) /\ P \in Seq(Line) /\ L \o table \in Seq(Line)
  BY <1>1, ListTypes, OnlyType
<1>5. (L \o table) \o text = P
  <2>1. L \o text \o table = P /\ (text = <<>> \/ table = <<>>)
    BY DEF InLoop, Shown
  <2> HIDE DEF L, P
  <2>2. QED
    BY <1>1, <1>4, <2>1, BuffersInOrder
<1> HIDE DEF l, L, P
<1>6. sections' \in Seq(Solid) /\ LinesOf(sections') = L \o table
  BY <1>1, <1>3, TableFlush DEF L
<1>7. text' \in Seq(Line) /\ table' \in Seq(Line)
  BY <1>1, <1>2, <1>3
<1>8. LinesOf(sections') \o text' \o table' = Only(printed', Shown)
  <2>1. Chosen(l, Shown) = <<l>> /\ <<l>> \in Seq(Line)
    BY <1>2, <1>3 DEF Chosen, Shown, Kinds
  <2>2. text' = text \o <<l>>
    BY <1>1, <1>2, <1>3, AppendIsConcat
  <2>3. (L \o table) \o (text \o <<l>>) = (L \o table \o text) \o <<l>>
    BY <1>1, <1>4, <2>1, LinesAssociate
  <2>4. LinesOf(sections') \o text' = Only(printed', Shown)
    BY <1>2, <1>5, <1>6, <2>1, <2>2, <2>3 DEF P
  <2>5. Only(printed', Shown) \in Seq(Line)
    <3>1. Only(printed', Shown) = P \o <<l>>
      BY <1>2, <2>1 DEF P
    <3>2. QED
      BY <1>4, <2>1, <3>1
  <2>6. Only(printed', Shown) \o <<>> = Only(printed', Shown)
    BY <2>5, ConcatEmptySeq
  <2>7. QED
    BY <1>3, <2>4, <2>6
<1>9. Buffers'
  <2>1. \A i \in DOMAIN text' : text'[i].kind = "text"
    BY <1>1, <1>2, <1>3 DEF Buffers
  <2>2. \A i \in DOMAIN table' : table'[i].kind = "row"
    BY <1>3
  <2>3. QED
    BY <2>1, <2>2 DEF Buffers
<1>10. MastersPassed'
  <2>1. Chosen(l, Masters) = <<>>
    BY <1>3 DEF Chosen, Masters
  <2>2. MasterRows(TextOf(sections')) = MasterRows(TextOf(sections))
    BY <1>1, <1>3, TableFlushPlain
  <2>3. MasterRows(printed) \in Seq(Line)
    BY <1>1, OnlyType DEF MasterRows
  <2>4. MasterRows(printed') = MasterRows(printed) \o Chosen(l, Masters)
    BY <1>2 DEF MasterRows, Masters
  <2>5. MasterRows(printed') = MasterRows(printed)
    BY <2>1, <2>3, <2>4, ConcatEmptySeq
  <2>6. QED
    BY <2>2, <2>5 DEF MastersPassed
<1>11. QED
  BY <1>3, <1>6, <1>7, <1>8, <1>9, <1>10 DEF InLoop, Shown

LEMMA OwnLineStep ==
  ASSUME TypeOK, InLoop, Buffers, MastersPassed, NEW kind \in Kinds, KernelPrints(kind),
         OwnLine(NewLine(kind))
  PROVE  /\ sections' \in Seq(Solid) /\ text' \in Seq(Line) /\ table' \in Seq(Line)
         /\ InLoop' /\ Buffers' /\ MastersPassed'
<1> DEFINE l == NewLine(kind)
           L == LinesOf(sections)
           P == Only(printed, Shown)
           one == TableFlushed(sections)
           two == TextFlushed(one)
           s == two \o OwnSection(l)
<1>1. /\ sections \in Seq(Solid) /\ text \in Seq(Line) /\ table \in Seq(Line)
      /\ printed \in Seq(Line)
  BY SolidSections DEF TypeOK
<1>2. /\ l \in Line /\ l.kind = kind
      /\ \A kinds : Only(printed', kinds) = Only(printed, kinds) \o Chosen(l, kinds)
  BY LineTaken
<1>3. l.kind \in {"blank", "heading"} \cup Bullets /\ sections' = s /\ text' = <<>> /\ table' = <<>>
  BY DEF OwnLine
<1>4. L \in Seq(Line) /\ P \in Seq(Line)
  BY <1>1, ListTypes, OnlyType
<1>5. (L \o table) \o text = P
  <2>1. L \o text \o table = P /\ (text = <<>> \/ table = <<>>)
    BY DEF InLoop, Shown
  <2> HIDE DEF L, P
  <2>2. QED
    BY <1>1, <1>4, <2>1, BuffersInOrder
<1>6. /\ one \in Seq(Solid) /\ LinesOf(one) = L \o table
      /\ MasterRows(TextOf(one)) = MasterRows(TextOf(sections))
  BY <1>1, TableFlush, TableFlushPlain
<1> HIDE DEF l, L, P, one
<1>7. /\ two \in Seq(Solid) /\ LinesOf(two) = P
      /\ MasterRows(TextOf(two)) = MasterRows(TextOf(sections))
  <2>1. two \in Seq(Solid) /\ LinesOf(two) = LinesOf(one) \o text
    BY <1>1, <1>6, TextFlush
  <2>2. MasterRows(TextOf(two)) = MasterRows(TextOf(one))
    BY <1>1, <1>6, TextFlushPlain
  <2>3. QED
    BY <1>5, <1>6, <2>1, <2>2
<1> HIDE DEF two
<1>8. /\ s \in Seq(Solid)
      /\ LinesOf(s) = LinesOf(two) \o Chosen(l, Shown)
      /\ MasterRows(TextOf(s)) = MasterRows(TextOf(two)) \o Chosen(l, Masters)
  BY <1>2, <1>3, <1>7, OwnSectionAdds
<1> HIDE DEF s
<1>9. LinesOf(sections') \o text' \o table' = Only(printed', Shown)
  <2>1. LinesOf(s) = Only(printed', Shown)
    BY <1>2, <1>7, <1>8 DEF P
  <2>2. LinesOf(s) \in Seq(Line)
    BY <1>8, ListTypes
  <2>3. LinesOf(s) \o <<>> \o <<>> = LinesOf(s)
    BY <2>2, ConcatEmptySeq
  <2>4. QED
    BY <1>3, <2>1, <2>3
<1>10. MastersPassed'
  <2>1. MasterRows(printed') = MasterRows(printed) \o Chosen(l, Masters)
    BY <1>2 DEF MasterRows, Masters
  <2>2. QED
    BY <1>3, <1>7, <1>8, <2>1 DEF MastersPassed
<1>11. Buffers' /\ text' \in Seq(Line) /\ table' \in Seq(Line)
  BY <1>3 DEF Buffers
<1>12. QED
  BY <1>3, <1>8, <1>9, <1>10, <1>11 DEF InLoop, Shown

LEMMA ParserStep ==
  ASSUME TypeOK, InLoop, Buffers, MastersPassed, NEW kind \in Kinds, KernelPrints(kind)
  PROVE  /\ sections' \in Seq(Solid) /\ text' \in Seq(Line) /\ table' \in Seq(Line)
         /\ InLoop' /\ Buffers' /\ MastersPassed'
<1>1. TableRow(NewLine(kind)) \/ TextLine(NewLine(kind)) \/ OwnLine(NewLine(kind))
  BY LineTaken
<1>2. QED
  BY <1>1, TableRowStep, TextLineStep, OwnLineStep

-----------------------------------------------------------------------------
(* The addresses and their versions.                                       *)

(* OwnVersions and VersionOf, of the lines that hold an address (PA) and   *)
(* those that hold a version (PV).                                         *)
Following(PA, PV, a) == {v \in PV : a < v /\ \A b \in PA : ~(a < b /\ b < v)}
FirstOf(S) == IF S = {} THEN 0 ELSE Min(S)

LEMMA OwnIsFollowing ==
  \A a : /\ OwnVersions(a) = Following(PrintedAt("address"), PrintedAt("version"), a)
         /\ VersionOf(a) = FirstOf(OwnVersions(a))
BY DEF OwnVersions, Following, VersionOf, FirstOf

(* An address printed on the next line takes no version from the others.   *)
LEMMA AddressFollows ==
  ASSUME NEW n \in Nat, NEW PA \in SUBSET (1 .. n), NEW PV \in SUBSET (1 .. n)
  PROVE  /\ \A a \in PA : Following(PA \cup {n + 1}, PV, a) = Following(PA, PV, a)
         /\ Following(PA \cup {n + 1}, PV, n + 1) = {}
<1>1. \A v \in PV : v \in Nat /\ v < n + 1 /\ ~(n + 1 < v)
  OBVIOUS
<1>2. ASSUME NEW a \in PA
      PROVE  Following(PA \cup {n + 1}, PV, a) = Following(PA, PV, a)
  BY <1>1 DEF Following
<1>3. Following(PA \cup {n + 1}, PV, n + 1) = {}
  BY <1>1 DEF Following
<1>4. QED
  BY <1>2, <1>3

(* A version on the next line belongs to the last address alone,           *)
LEMMA VersionFollows ==
  ASSUME NEW n \in Nat, NEW PA \in SUBSET (1 .. n), NEW PV \in SUBSET (1 .. n),
         NEW p \in PA, \A j \in PA \cup PV : j <= p
  PROVE  /\ \A a \in PA : a < p => Following(PA, PV \cup {n + 1}, a) = Following(PA, PV, a)
         /\ Following(PA, PV \cup {n + 1}, p) = {n + 1}
<1>1. ASSUME NEW a \in PA, a < p
      PROVE  Following(PA, PV \cup {n + 1}, a) = Following(PA, PV, a)
  BY <1>1 DEF Following
<1>2. Following(PA, PV \cup {n + 1}, p) = {n + 1}
  <2>1. p \in Nat /\ p < n + 1 /\ (\A v \in PV : ~(p < v)) /\ (\A b \in PA : ~(p < b))
    OBVIOUS
  <2>2. n + 1 \in Following(PA, PV \cup {n + 1}, p)
    BY <2>1 DEF Following
  <2>3. \A v \in Following(PA, PV \cup {n + 1}, p) : v = n + 1
    BY <2>1 DEF Following
  <2>4. QED
    BY <2>2, <2>3
<1>3. QED
  BY <1>1, <1>2

LEMMA FirstIsMin ==
  ASSUME NEW S \in SUBSET Nat, NEW x \in S, \A m \in S : x <= m
  PROVE  FirstOf(S) = x
<1>1. Min(S) \in S /\ \A m \in S : Min(S) <= m
  BY MinIsLeast
<1>2. Min(S) <= x /\ x <= Min(S) /\ Min(S) \in Nat /\ x \in Nat
  BY <1>1
<1>3. Min(S) = x
  BY <1>2
<1>4. QED
  BY <1>3 DEF FirstOf

(* and changes nothing when that has one.                                  *)
LEMMA VersionRepeated ==
  ASSUME NEW n \in Nat, NEW PA \in SUBSET (1 .. n), NEW PV \in SUBSET (1 .. n),
         NEW a \in PA, \E v \in PV : a < v
  PROVE  FirstOf(Following(PA, PV \cup {n + 1}, a)) = FirstOf(Following(PA, PV, a))
<1> DEFINE old == Following(PA, PV, a)
           new == Following(PA, PV \cup {n + 1}, a)
<1>1. old \in SUBSET (1 .. n) /\ old \subseteq new /\ new \subseteq old \cup {n + 1}
  BY DEF Following
<1>2. n + 1 \in new => old # {}
  BY DEF Following
<1> HIDE DEF old, new
<1>3. CASE n + 1 \notin new
  <2>1. new = old
    BY <1>1, <1>3
  <2>2. QED
    BY <2>1 DEF old, new
<1>4. CASE n + 1 \in new
  <2>1. old \in SUBSET Nat /\ new \in SUBSET Nat /\ old # {}
    BY <1>1, <1>2, <1>4
  <2>2. Min(old) \in old /\ \A m \in old : Min(old) <= m
    BY <2>1, MinIsLeast
  <2>3. Min(old) \in new /\ \A m \in new : Min(old) <= m
    <3>1. Min(old) \in 1 .. n
      BY <1>1, <2>2
    <3>2. \A m \in new : m \in old \/ m = n + 1
      BY <1>1
    <3>3. QED
      BY <1>1, <2>2, <3>1, <3>2
  <2>4. FirstOf(new) = Min(old)
    BY <2>1, <2>3, FirstIsMin
  <2>5. QED
    BY <2>1, <2>4 DEF FirstOf, old, new
<1>5. QED
  BY <1>3, <1>4

-----------------------------------------------------------------------------
(* What is collected so far are the rows of the lines so far: an address   *)
(* waits as long as it is the last of these lines, and none waits when     *)
(* every address has a version behind it.                                  *)
Collected ==
  /\ RowsPlusPending = PrintedRows
  /\ \A i \in DOMAIN RowsPlusPending :
       /\ RowsPlusPending[i].address \in PrintedAt("address")
       /\ \A j \in 1 .. i - 1 : RowsPlusPending[j].address < RowsPlusPending[i].address
  /\ pending # NoAddress =>
       \A j \in PrintedAt("address") \cup PrintedAt("version") : j <= pending
  /\ pending = NoAddress =>
       \A a \in PrintedAt("address") : \E v \in PrintedAt("version") : a < v

LEMMA RowsPlusPendingType ==
  ASSUME TypeOK
  PROVE  RowsPlusPending \in Seq(Row)
<1>1. rows \in Seq(Row) /\ pending \in 0 .. MaxLines
  BY DEF TypeOK
<1>2. CASE pending = NoAddress
  BY <1>1, <1>2 DEF RowsPlusPending
<1>3. CASE pending # NoAddress
  <2>1. [address |-> pending, version |-> 0] \in Row
    BY <1>1, <1>3, ReportsAssumption DEF Row, NoAddress
  <2>2. RowsPlusPending = Append(rows, [address |-> pending, version |-> 0])
    BY <1>3 DEF RowsPlusPending
  <2>3. QED
    BY <1>1, <2>1, <2>2
<1>4. QED
  BY <1>2, <1>3

(* The lines of a kind that are there after one more.                      *)
LEMMA PrintedAtStep ==
  ASSUME TypeOK, NEW kind \in Kinds, KernelPrints(kind), NEW k
  PROVE  /\ PrintedAt(k) \in SUBSET (1 .. Len(printed))
         /\ PrintedAt(k)' = IF kind = k THEN PrintedAt(k) \cup {Len(printed) + 1} ELSE PrintedAt(k)
<1> DEFINE l == NewLine(kind)
<1>1. printed \in Seq(Line) /\ printed' = Append(printed, l) /\ l \in Line /\ l.kind = kind
  BY LineTaken DEF TypeOK
<1> HIDE DEF l
<1>2. /\ DOMAIN printed' = 1 .. Len(printed) + 1 /\ Len(printed) \in Nat
      /\ \A i \in 1 .. Len(printed) : printed'[i] = printed[i]
      /\ printed'[Len(printed) + 1] = l
  BY <1>1
<1>3. PrintedAt(k)' = {i \in 1 .. Len(printed) + 1 : printed'[i].kind = k}
  BY <1>2 DEF PrintedAt
<1>4. PrintedAt(k) = {i \in 1 .. Len(printed) : printed[i].kind = k}
  BY <1>1 DEF PrintedAt
<1>5. QED
  BY <1>1, <1>2, <1>3, <1>4

(* The rows of the lines A that hold an address.                           *)
RowFrom(PA, PV, a) == [address |-> a, version |-> FirstOf(Following(PA, PV, a))]
RowsFrom(A, PA, PV) == [i \in DOMAIN A |-> RowFrom(PA, PV, A[i].n)]

LEMMA RowsFromIs ==
  ASSUME NEW A \in Seq(Line), NEW PA, NEW PV, NEW r \in Seq(Row), Len(r) = Len(A),
         \A i \in 1 .. Len(A) : r[i] = RowFrom(PA, PV, A[i].n)
  PROVE  RowsFrom(A, PA, PV) = r
<1> DEFINE t == RowsFrom(A, PA, PV)
<1>1. t = [i \in 1 .. Len(r) |-> RowFrom(PA, PV, A[i].n)]
  BY DEF RowsFrom
<1>2. t = [i \in 1 .. Len(r) |-> t[i]] /\ \A i \in 1 .. Len(r) : t[i] = r[i]
  BY <1>1
<1> HIDE DEF t
<1>3. t = r
  BY <1>2, SameElements
<1>4. QED
  BY <1>3 DEF t

LEMMA PrintedRowsAre ==
  PrintedRows = RowsFrom(Only(printed, {"address"}), PrintedAt("address"), PrintedAt("version"))
BY DEF PrintedRows, RowsFrom, RowFrom, VersionOf, FirstOf, OwnVersions, Following

LEMMA PrintedRowsStep ==
  PrintedRows' = RowsFrom(Only(printed', {"address"}), PrintedAt("address")', PrintedAt("version")')
BY DEF PrintedRows, RowsFrom, RowFrom, VersionOf, FirstOf, OwnVersions, Following

LEMMA CollectedRows ==
  ASSUME TypeOK, Collected
  PROVE  /\ RowsPlusPending \in Seq(Row)
         /\ Only(printed, {"address"}) \in Seq(Line)
         /\ Len(RowsPlusPending) = Len(Only(printed, {"address"}))
         /\ \A i \in 1 .. Len(RowsPlusPending) :
              /\ RowsPlusPending[i].address = Only(printed, {"address"})[i].n
              /\ RowsPlusPending[i].address \in PrintedAt("address")
              /\ RowsPlusPending[i] =
                   RowFrom(PrintedAt("address"), PrintedAt("version"), RowsPlusPending[i].address)
<1> DEFINE A == Only(printed, {"address"})
           R == RowsPlusPending
           PA == PrintedAt("address")
           PV == PrintedAt("version")
<1>1. A \in Seq(Line) /\ R \in Seq(Row)
  BY OnlyType, RowsPlusPendingType DEF TypeOK
<1>2. R = RowsFrom(A, PA, PV)
  BY PrintedRowsAre DEF Collected
<1>3. \A i \in 1 .. Len(R) : R[i].address \in PA
  BY <1>1 DEF Collected
<1> HIDE DEF A, R, PA, PV
<1>4. R = [i \in 1 .. Len(A) |-> RowFrom(PA, PV, A[i].n)]
  BY <1>1, <1>2 DEF RowsFrom
<1>5. Len(R) = Len(A)
  BY <1>1, <1>4
<1>6. \A i \in 1 .. Len(R) : R[i] = RowFrom(PA, PV, A[i].n)
  BY <1>4, <1>5
<1>7. \A i \in 1 .. Len(R) : R[i].address = A[i].n
  <2>1. ASSUME NEW i \in 1 .. Len(R) PROVE R[i].address = A[i].n
    <3>1. R[i] = RowFrom(PA, PV, A[i].n)
      BY <1>6
    <3>2. \A a : RowFrom(PA, PV, a).address = a
      BY DEF RowFrom
    <3>3. QED
      BY <3>1, <3>2
  <2>2. QED
    BY <2>1
<1>8. QED
  BY <1>1, <1>3, <1>5, <1>6, <1>7 DEF A, R, PA, PV

(* A line that is neither an address nor a version.                        *)
LEMMA OtherCollected ==
  ASSUME TypeOK, Collected, NEW kind \in Kinds \ {"address", "version"}, KernelPrints(kind)
  PROVE  Collected'
<1>1. rows' = rows /\ pending' = pending
  BY DEF KernelPrints, Collect
<1>2. RowsPlusPending' = RowsPlusPending
  BY <1>1 DEF RowsPlusPending
<1>3. PrintedAt("address")' = PrintedAt("address") /\ PrintedAt("version")' = PrintedAt("version")
  BY PrintedAtStep
<1>4. Only(printed', {"address"}) = Only(printed, {"address"})
  <2>1. Only(printed', {"address"})
          = Only(printed, {"address"}) \o Chosen(NewLine(kind), {"address"})
    BY LineTaken
  <2>2. Chosen(NewLine(kind), {"address"}) = <<>>
    BY DEF Chosen, NewLine
  <2>3. Only(printed, {"address"}) \in Seq(Line)
    BY OnlyType DEF TypeOK
  <2>4. QED
    BY <2>1, <2>2, <2>3, ConcatEmptySeq
<1>5. PrintedRows' = PrintedRows
  BY <1>3, <1>4, PrintedRowsAre, PrintedRowsStep
<1>6. QED
  BY <1>1, <1>2, <1>3, <1>5 DEF Collected

(* An address: the one that waited is a row with version 0.                *)
LEMMA AddressCollected ==
  ASSUME TypeOK, Collected, KernelPrints("address")
  PROVE  Collected'
<1> DEFINE n == Len(printed)
           A == Only(printed, {"address"})
           R == RowsPlusPending
           PA == PrintedAt("address")
           PV == PrintedAt("version")
           row == [address |-> n + 1, version |-> 0]
           l == NewLine("address")
<1>1. n \in Nat /\ n + 1 # NoAddress /\ n + 1 \in 1 .. MaxLines
  <2>1. n \in Nat
    BY DEF TypeOK
  <2>2. n < MaxLines
    BY DEF KernelPrints
  <2> HIDE DEF n
  <2>3. QED
    BY <2>1, <2>2, ReportsAssumption DEF NoAddress
<1>2. rows' = R /\ pending' = n + 1
  BY DEF KernelPrints, Collect, RowsAtAddress
<1>3. RowsPlusPending' = Append(R, row)
  BY <1>1, <1>2 DEF RowsPlusPending
<1>4. /\ PA \in SUBSET (1 .. n) /\ PV \in SUBSET (1 .. n)
      /\ PrintedAt("address")' = PA \cup {n + 1} /\ PrintedAt("version")' = PV
  <2>1. "address" \in Kinds
    BY DEF Kinds, Bullets
  <2>2. QED
    BY <2>1, PrintedAtStep
<1>5. l \in Line /\ l.n = n + 1 /\ Only(printed', {"address"}) = A \o <<l>>
  <2>1. "address" \in Kinds
    BY DEF Kinds, Bullets
  <2>2. l \in Line /\ Only(printed', {"address"}) = A \o Chosen(l, {"address"})
    BY <2>1, LineTaken
  <2>3. Chosen(l, {"address"}) = <<l>> /\ l.n = n + 1
    BY DEF Chosen, NewLine
  <2>4. QED
    BY <2>2, <2>3
<1>6. /\ R \in Seq(Row) /\ A \in Seq(Line) /\ Len(R) = Len(A)
      /\ \A i \in 1 .. Len(R) :
           R[i].address = A[i].n /\ R[i].address \in PA /\ R[i] = RowFrom(PA, PV, R[i].address)
  BY CollectedRows
<1>7. \A i \in 1 .. Len(R) : \A j \in 1 .. i - 1 : R[j].address < R[i].address
  BY <1>6 DEF Collected
<1>8. row \in Row
  BY <1>1, ReportsAssumption DEF Row
<1> HIDE DEF n, A, R, PA, PV, l
<1>9. RowFrom(PA \cup {n + 1}, PV, n + 1) = row
  BY <1>1, <1>4, AddressFollows DEF RowFrom, FirstOf
<1>10. \A a \in PA : RowFrom(PA \cup {n + 1}, PV, a) = RowFrom(PA, PV, a)
  BY <1>1, <1>4, AddressFollows DEF RowFrom
<1>11. row.address = n + 1
  OBVIOUS
<1> HIDE DEF row
<1> DEFINE r == Append(R, row)
           B == A \o <<l>>
<1>12. /\ r \in Seq(Row) /\ B \in Seq(Line) /\ Len(r) = Len(R) + 1 /\ Len(B) = Len(R) + 1
       /\ Len(R) \in Nat /\ r[Len(R) + 1] = row /\ B[Len(R) + 1] = l
       /\ \A i \in 1 .. Len(R) : r[i] = R[i] /\ B[i] = A[i]
  BY <1>5, <1>6, <1>8
<1> HIDE DEF r, B
<1>13. \A i \in 1 .. Len(B) : r[i] = RowFrom(PA \cup {n + 1}, PV, B[i].n)
  <2>1. ASSUME NEW i \in 1 .. Len(R) PROVE r[i] = RowFrom(PA \cup {n + 1}, PV, B[i].n)
    BY <1>6, <1>10, <1>12
  <2>2. r[Len(R) + 1] = RowFrom(PA \cup {n + 1}, PV, B[Len(R) + 1].n)
    BY <1>5, <1>9, <1>12
  <2>3. \A i \in 1 .. Len(B) : i \in 1 .. Len(R) \/ i = Len(R) + 1
    BY <1>12
  <2>4. QED
    BY <2>1, <2>2, <2>3
<1>14. PrintedRows' = r
  <2>1. RowsFrom(B, PA \cup {n + 1}, PV) = r
    <3> DEFINE QA == PA \cup {n + 1}
    <3>1. Len(r) = Len(B) /\ \A i \in 1 .. Len(B) : r[i] = RowFrom(QA, PV, B[i].n)
      BY <1>12, <1>13
    <3> HIDE DEF QA
    <3>2. RowsFrom(B, QA, PV) = r
      BY <1>12, <3>1, RowsFromIs
    <3>3. QED
      BY <3>2 DEF QA
  <2>2. PrintedRows' = RowsFrom(B, PA \cup {n + 1}, PV)
    BY <1>4, <1>5, PrintedRowsStep DEF B
  <2>3. QED
    BY <2>1, <2>2
<1>15. \A i \in 1 .. Len(r) : /\ r[i].address \in PA \cup {n + 1}
                              /\ \A j \in 1 .. i - 1 : r[j].address < r[i].address
  <2>1. ASSUME NEW i \in 1 .. Len(R)
        PROVE  r[i].address \in PA /\ \A j \in 1 .. i - 1 : r[j].address < r[i].address
    <3>1. r[i] = R[i] /\ R[i].address \in PA
      BY <1>6, <1>12
    <3>2. ASSUME NEW j \in 1 .. i - 1 PROVE r[j].address < r[i].address
      <4>1. j \in 1 .. Len(R)
        BY <1>12
      <4>2. r[j] = R[j] /\ R[j].address < R[i].address
        BY <1>7, <1>12, <4>1
      <4>3. QED
        BY <3>1, <4>2
    <3>3. QED
      BY <3>1, <3>2
  <2>2. \A j \in 1 .. Len(R) : r[j].address < n + 1
    <3>1. \A a \in PA : a < n + 1
      BY <1>1, <1>4
    <3>2. QED
      BY <2>1, <3>1
  <2>3. r[Len(R) + 1].address = n + 1
    BY <1>11, <1>12
  <2>4. \A i \in 1 .. Len(r) : i \in 1 .. Len(R) \/ i = Len(R) + 1
    BY <1>12
  <2>5. Len(R) + 1 - 1 = Len(R)
    BY <1>12
  <2>6. QED
    BY <2>1, <2>2, <2>3, <2>4, <2>5
<1>16. RowsPlusPending' = r
  BY <1>3 DEF r
<1>17. DOMAIN r = 1 .. Len(r)
  BY <1>12
<1>18. \A j \in PrintedAt("address")' \cup PrintedAt("version")' : j <= pending'
  <2>1. \A j \in PA \cup {n + 1} \cup PV : j <= n + 1
    BY <1>1, <1>4
  <2>2. QED
    BY <1>2, <1>4, <2>1
<1>19. QED
  BY <1>1, <1>2, <1>4, <1>14, <1>15, <1>16, <1>17, <1>18 DEF Collected

(* What both cases of a printed version have in common.                    *)
LEMMA VersionPrinted ==
  ASSUME TypeOK, Collected, KernelPrints("version")
  PROVE  /\ Len(printed) \in Nat /\ Len(printed) + 1 \in 1 .. MaxLines
         /\ PrintedAt("address") \in SUBSET (1 .. Len(printed))
         /\ PrintedAt("version") \in SUBSET (1 .. Len(printed))
         /\ PrintedAt("address")' = PrintedAt("address")
         /\ PrintedAt("version")' = PrintedAt("version") \cup {Len(printed) + 1}
         /\ Only(printed', {"address"}) = Only(printed, {"address"})
<1>1. "version" \in Kinds
  BY DEF Kinds, Bullets
<1>2. Len(printed) \in Nat /\ Len(printed) < MaxLines
  BY DEF TypeOK, KernelPrints
<1>3. Only(printed', {"address"})
        = Only(printed, {"address"}) \o Chosen(NewLine("version"), {"address"})
  BY <1>1, LineTaken
<1>4. Chosen(NewLine("version"), {"address"}) = <<>>
  BY DEF Chosen, NewLine
<1>5. Only(printed, {"address"}) \in Seq(Line)
  BY OnlyType DEF TypeOK
<1>6. Only(printed', {"address"}) = Only(printed, {"address"})
  BY <1>3, <1>4, <1>5, ConcatEmptySeq
<1>7. Len(printed) + 1 \in 1 .. MaxLines
  BY <1>2, ReportsAssumption
<1>8. QED
  BY <1>1, <1>2, <1>6, <1>7, PrintedAtStep

(* A version while no address waits.                                       *)
LEMMA StrayCollected ==
  ASSUME TypeOK, Collected, KernelPrints("version"), pending = NoAddress
  PROVE  Collected'
<1> DEFINE n == Len(printed)
           A == Only(printed, {"address"})
           R == RowsPlusPending
           PA == PrintedAt("address")
           PV == PrintedAt("version")
           QV == PV \cup {n + 1}
<1>1. rows' = rows /\ pending' = pending
  BY DEF KernelPrints, Collect
<1>2. RowsPlusPending' = R
  BY <1>1 DEF RowsPlusPending
<1>3. /\ n \in Nat /\ PA \in SUBSET (1 .. n) /\ PV \in SUBSET (1 .. n)
      /\ PrintedAt("address")' = PA /\ PrintedAt("version")' = QV
      /\ Only(printed', {"address"}) = A
  BY VersionPrinted
<1>4. \A a \in PA : \E v \in PV : a < v
  BY DEF Collected
<1>5. /\ R \in Seq(Row) /\ A \in Seq(Line) /\ Len(R) = Len(A)
      /\ \A i \in 1 .. Len(R) :
           R[i].address = A[i].n /\ R[i].address \in PA /\ R[i] = RowFrom(PA, PV, R[i].address)
  BY CollectedRows
<1>6. \A i \in DOMAIN R : \A j \in 1 .. i - 1 : R[j].address < R[i].address
  BY DEF Collected
<1> HIDE DEF n, A, R, PA, PV
<1>7. \A a \in PA : RowFrom(PA, QV, a) = RowFrom(PA, PV, a)
  BY <1>3, <1>4, VersionRepeated DEF RowFrom
<1>9. \A a \in PA : \E v \in QV : a < v
  BY <1>4
<1> HIDE DEF QV
<1>10. \A i \in 1 .. Len(A) : R[i] = RowFrom(PA, QV, A[i].n)
  BY <1>5, <1>7
<1>11. RowsFrom(A, PA, QV) = R
  BY <1>5, <1>10, RowsFromIs
<1>12. PrintedRows' = R
  BY <1>3, <1>11, PrintedRowsStep
<1>13. \A i \in DOMAIN R : R[i].address \in PA
  BY <1>5
<1>14. QED
  BY <1>1, <1>2, <1>3, <1>6, <1>9, <1>12, <1>13 DEF Collected

(* A version while an address waits.                                       *)
LEMMA VersionCollected ==
  ASSUME TypeOK, Collected, KernelPrints("version"), pending # NoAddress
  PROVE  Collected'
<1> DEFINE n == Len(printed)
           A == Only(printed, {"address"})
           R == RowsPlusPending
           PA == PrintedAt("address")
           PV == PrintedAt("version")
           QV == PV \cup {n + 1}
           last == [address |-> pending, version |-> 0]
           row == [address |-> pending, version |-> n + 1]
           r == Append(rows, row)
<1>1. rows' = r /\ pending' = NoAddress
  BY DEF KernelPrints, Collect
<1>2. RowsPlusPending' = r
  BY <1>1 DEF RowsPlusPending
<1>3. /\ n \in Nat /\ n + 1 \in 1 .. MaxLines
      /\ PA \in SUBSET (1 .. n) /\ PV \in SUBSET (1 .. n)
      /\ PrintedAt("address")' = PA /\ PrintedAt("version")' = QV
      /\ Only(printed', {"address"}) = A
  BY VersionPrinted
<1>4. /\ R \in Seq(Row) /\ A \in Seq(Line) /\ Len(R) = Len(A)
      /\ \A i \in 1 .. Len(R) :
           R[i].address = A[i].n /\ R[i].address \in PA /\ R[i] = RowFrom(PA, PV, R[i].address)
  BY CollectedRows
<1>5. \A i \in 1 .. Len(R) : \A j \in 1 .. i - 1 : R[j].address < R[i].address
  BY <1>4 DEF Collected
<1>6. \A j \in PA \cup PV : j <= pending
  BY DEF Collected
<1>7. R = Append(rows, last) /\ rows \in Seq(Row) /\ pending \in 1 .. MaxLines
  BY DEF RowsPlusPending, TypeOK, NoAddress
<1>8. last.address = pending /\ row.address = pending
  OBVIOUS
<1>9. last \in Row /\ row \in Row
  BY <1>3, <1>7, ReportsAssumption DEF Row
<1> HIDE DEF n, A, R, PA, PV, last
<1>10. /\ r \in Seq(Row) /\ Len(R) = Len(rows) + 1 /\ Len(r) = Len(R) /\ Len(rows) \in Nat
       /\ R[Len(R)] = last /\ r[Len(R)] = row /\ Len(R) \in 1 .. Len(R)
       /\ \A i \in 1 .. Len(rows) : R[i] = rows[i] /\ r[i] = rows[i]
  BY <1>7, <1>9
<1> HIDE DEF r
<1>11. pending \in PA
  BY <1>4, <1>8, <1>10
<1>12. /\ \A a \in PA : a < pending => RowFrom(PA, QV, a) = RowFrom(PA, PV, a)
       /\ RowFrom(PA, QV, pending) = row
  <2>1. /\ \A a \in PA : a < pending => Following(PA, QV, a) = Following(PA, PV, a)
        /\ Following(PA, QV, pending) = {n + 1}
    BY <1>3, <1>6, <1>11, VersionFollows
  <2>2. FirstOf({n + 1}) = n + 1
    BY <1>3, FirstIsMin
  <2>3. QED
    BY <2>1, <2>2 DEF RowFrom
<1> HIDE DEF row
<1>13. ASSUME NEW i \in 1 .. Len(R)
       PROVE  r[i] = RowFrom(PA, QV, A[i].n) /\ r[i].address = R[i].address
  <2>1. CASE i = Len(R)
    BY <1>4, <1>8, <1>10, <1>12, <2>1
  <2>2. CASE i # Len(R)
    <3>1. i \in 1 .. Len(rows) /\ i \in 1 .. Len(R) - 1
      BY <1>10, <2>2
    <3>2. R[i].address < pending
      BY <1>5, <1>8, <1>10, <3>1
    <3>3. r[i] = R[i]
      BY <1>10, <3>1
    <3>4. QED
      BY <1>4, <1>12, <3>2, <3>3
  <2>3. QED
    BY <2>1, <2>2
<1>14. PrintedRows' = r
  <2> HIDE DEF QV
  <2>1. Len(r) = Len(A) /\ \A i \in 1 .. Len(A) : r[i] = RowFrom(PA, QV, A[i].n)
    BY <1>4, <1>10, <1>13
  <2>2. RowsFrom(A, PA, QV) = r
    BY <1>4, <1>10, <2>1, RowsFromIs
  <2>3. QED
    BY <1>3, <2>2, PrintedRowsStep
<1>15. \A i \in DOMAIN r : /\ r[i].address \in PA
                           /\ \A j \in 1 .. i - 1 : r[j].address < r[i].address
  <2>1. ASSUME NEW i \in 1 .. Len(R)
        PROVE  r[i].address \in PA /\ \A j \in 1 .. i - 1 : r[j].address < r[i].address
    <3>1. r[i].address = R[i].address /\ R[i].address \in PA
      BY <1>4, <1>13
    <3>2. \A j \in 1 .. i - 1 : r[j].address = R[j].address
      BY <1>10, <1>13
    <3>3. QED
      BY <1>5, <3>1, <3>2
  <2>2. DOMAIN r = 1 .. Len(R)
    BY <1>10
  <2>3. QED
    BY <2>1, <2>2
<1>16. \A a \in PA : \E v \in QV : a < v
  <2>1. \A a \in PA : a < n + 1
    BY <1>3
  <2>2. QED
    BY <2>1
<1>17. QED
  BY <1>1, <1>2, <1>3, <1>14, <1>15, <1>16 DEF Collected

LEMMA CollectedStep ==
  ASSUME TypeOK, Collected, NEW kind \in Kinds, KernelPrints(kind)
  PROVE  Collected'
<1>1. CASE kind = "address"
  BY <1>1, AddressCollected
<1>2. CASE kind = "version"
  BY <1>2, StrayCollected, VersionCollected
<1>3. CASE kind \notin {"address", "version"}
  BY <1>3, OtherCollected
<1>4. QED
  BY <1>1, <1>2, <1>3

-----------------------------------------------------------------------------
(* What the server makes of the events.                                    *)

(* No address line is printed by list-master-addresses, so nothing is      *)
(* synthesized for it.                                                     *)
NoMasterRows == cmd = "list-master-addresses" => rows = <<>> /\ pending = NoAddress

EventsFor(late, own) == Augmented(late \o own)

LEMMA EventTypes ==
  /\ Pair \in Line /\ Pair.kind = "pair"
  /\ Other \in Event /\ Other.kind = "other"
  /\ \A b \in 0 .. MaxBalance : Balance(b) \in Event /\ Balance(b).kind = "balance"
  /\ \A list \in Seq(Row) :
       /\ AddressList(list) \in Event /\ AddressList(list).kind = "address_list"
       /\ AddressList(list).rows = list
  /\ <<[address |-> 1, version |-> 1]>> \in Seq(Row)
<1>1. Pair \in Line /\ Pair.kind = "pair"
  BY ReportsAssumption DEF Pair, Line, Kinds, Bullets
<1>2. <<>> \in Seq(Row) /\ 0 \in 0 .. MaxBalance
  BY ReportsAssumption
<1>3. Other \in Event /\ Other.kind = "other"
  BY <1>2 DEF Other, Event
<1>4. \A b \in 0 .. MaxBalance : Balance(b) \in Event /\ Balance(b).kind = "balance"
  BY <1>2 DEF Balance, Event
<1>5. \A list \in Seq(Row) :
        /\ AddressList(list) \in Event /\ AddressList(list).kind = "address_list"
        /\ AddressList(list).rows = list
  BY <1>2 DEF AddressList, Event
<1>6. [address |-> 1, version |-> 1] \in Row
  BY ReportsAssumption DEF Row
<1>7. <<[address |-> 1, version |-> 1]>> \in Seq(Row)
  BY <1>6
<1>8. QED
  BY <1>1, <1>3, <1>4, <1>5, <1>7

LEMMA LateType ==
  ASSUME NEW late \in LateEvents, NEW own \in OwnEvents
  PROVE  late \in Seq(Event) /\ own \in Seq(Event)
<1>1. MaxBalance \in 0 .. MaxBalance
  BY ReportsAssumption
<1>2. /\ <<Other>> \in Seq(Event) /\ <<Balance(MaxBalance)>> \in Seq(Event)
      /\ <<AddressList(<<[address |-> 1, version |-> 1]>>)>> \in Seq(Event)
      /\ <<>> \in Seq(Event)
  <2>1. \A e \in Event : <<e>> \in Seq(Event)
    OBVIOUS
  <2>2. AddressList(<<[address |-> 1, version |-> 1]>>) \in Event
    BY EventTypes
  <2>3. Other \in Event /\ Balance(MaxBalance) \in Event
    BY <1>1, EventTypes
  <2>4. QED
    BY <2>1, <2>2, <2>3
<1>3. late \in Seq(Event)
  BY <1>2 DEF LateEvents
<1>4. \A b \in 0 .. MaxBalance : <<Balance(b)>> \in Seq(Event)
  BY EventTypes
<1>5. own \in Seq(Event)
  BY <1>2, <1>4 DEF OwnEvents
<1>6. QED
  BY <1>3, <1>5

LEMMA AugmentedType ==
  ASSUME TypeOK, NEW events \in Seq(Event)
  PROVE  Augmented(events) \in Seq(Event)
<1>1. AddressList(RowsPlusPending) \in Event
  BY RowsPlusPendingType, EventTypes
<1>2. Append(events, AddressList(RowsPlusPending)) \in Seq(Event)
  BY <1>1
<1>3. QED
  BY <1>2 DEF Augmented

LEMMA PairSection ==
  ASSUME NEW l \in Line
  PROVE  /\ SectionOf("key_value", <<l>>) \in Solid
         /\ Rendered(SectionOf("key_value", <<l>>)) = <<l>>
<1> DEFINE one == <<l>>
           s == SectionOf("key_value", one)
<1>1. one \in Seq(Line) /\ one # <<>> /\ one[1] = l
  OBVIOUS
<1>2. s \in Solid /\ s.type = "key_value" /\ s.lines = one
  <2> HIDE DEF one
  <2>1. QED
    BY <1>1, SectionIsSolid
<1> HIDE DEF s
<1>3. Rendered(s) = <<l>>
  BY <1>1, <1>2 DEF Rendered, RenderedPair
<1>4. QED
  BY <1>2, <1>3 DEF s

Row0 == [kind |-> "row", n |-> 0]

LEMMA TwoRows ==
  /\ SectionOf("table", <<Row0, Row0>>) \in Solid
  /\ MasterRows(Rendered(SectionOf("table", <<Row0, Row0>>))) = <<>>
<1> DEFINE two == <<Row0, Row0>>
<1>1. Row0 \in Line /\ Row0.kind = "row"
  BY ReportsAssumption DEF Line, Kinds, Row0
<1>2. two \in Seq(Line) /\ two # <<>> /\ \A i \in DOMAIN two : two[i].kind = "row"
  BY <1>1
<1> HIDE DEF two
<1>3. SectionOf("table", two) \in Solid /\ MasterRows(Rendered(SectionOf("table", two))) = <<>>
  BY <1>2, TableIsPlain
<1>4. QED
  BY <1>3 DEF two

LEMMA ReportType ==
  ASSUME NEW e \in Event
  PROVE  ReportOf(e) \in Seq(Solid)
<1>1. e.kind \in {"address_list", "balance", "other"} /\ e.rows \in Seq(Row)
  BY DEF Event
<1>2. SectionOf("key_value", <<Pair>>) \in Solid
  BY EventTypes, PairSection
<1>3. CASE e.kind = "address_list"
  <2> DEFINE list == [i \in DOMAIN e.rows |->
                        SectionOf("key_value", <<[kind |-> "master", n |-> e.rows[i].address]>>)]
  <2>1. \A i \in DOMAIN e.rows :
          SectionOf("key_value", <<[kind |-> "master", n |-> e.rows[i].address]>>) \in Solid
    <3>1. \A r \in Row : [kind |-> "master", n |-> r.address] \in Line
      BY ReportsAssumption DEF Row, Line, Kinds, Bullets
    <3>2. \A i \in DOMAIN e.rows : e.rows[i] \in Row
      BY <1>1
    <3>3. QED
      BY <3>1, <3>2, PairSection
  <2>2. list \in Seq(Solid)
    <3>1. DOMAIN e.rows = 1 .. Len(e.rows) /\ Len(e.rows) \in Nat
      BY <1>1
    <3>2. DOMAIN list = 1 .. Len(e.rows) /\ list = [i \in DOMAIN list |-> list[i]]
      BY <3>1
    <3>3. \A i \in 1 .. Len(e.rows) : list[i] \in Solid
      BY <2>1, <3>1
    <3> HIDE DEF list
    <3>4. list \in [1 .. Len(e.rows) -> Solid]
      BY <3>2, <3>3
    <3>5. QED
      BY <3>1, <3>4
  <2>3. ReportOf(e) = <<SectionOf("key_value", <<Pair>>)>> \o list
    BY <1>3 DEF ReportOf
  <2> HIDE DEF list
  <2>4. <<SectionOf("key_value", <<Pair>>)>> \in Seq(Solid)
    BY <1>2
  <2>5. QED
    BY <2>2, <2>3, <2>4
<1>4. CASE e.kind = "balance"
  <2>1. ReportOf(e) = [i \in 1 .. 5 |-> SectionOf("key_value", <<Pair>>)]
    BY <1>4 DEF ReportOf
  <2>2. QED
    BY <1>2, <2>1
<1>5. CASE e.kind = "other"
  <2>1. ReportOf(e) = <<SectionOf("key_value", <<Pair>>), SectionOf("table", <<Row0, Row0>>)>>
    BY <1>5 DEF ReportOf, Row0
  <2>2. QED
    BY <1>2, <2>1, TwoRows
<1>6. QED
  BY <1>1, <1>3, <1>4, <1>5

LEMMA ParsedType ==
  ASSUME TypeOK
  PROVE  Parsed \in Seq(Solid)
<1>1. sections \in Seq(Solid) /\ text \in Seq(Line) /\ table \in Seq(Line)
  BY SolidSections DEF TypeOK
<1>2. TextFlushed(sections) \in Seq(Solid)
  BY <1>1, TextFlush
<1>3. TableFlushed(TextFlushed(sections)) \in Seq(Solid)
  BY <1>1, <1>2, TableFlush
<1>4. QED
  BY <1>3 DEF Parsed

LEMMA NormalizedType ==
  ASSUME TypeOK, NEW events \in Seq(Event)
  PROVE  Normalized(events) \in Seq(Solid)
<1> DEFINE p == [i \in DOMAIN events |-> ReportOf(events[i])]
<1>1. p \in Seq(Seq(Solid))
  <2>1. \A i \in DOMAIN events : ReportOf(events[i]) \in Seq(Solid)
    BY ReportType
  <2>2. QED
    BY <2>1
<1>2. Normalized(events) = IF events # <<>> THEN FlattenSeq(p) ELSE Parsed
  BY DEF Normalized
<1> HIDE DEF p
<1>3. FlattenSeq(p) \in Seq(Solid)
  BY <1>1, FlattenType
<1>4. QED
  BY <1>2, <1>3, ParsedType

(* The answer to a command.                                                *)
LEMMA ReturnType ==
  ASSUME TypeOK, NEW late \in LateEvents, NEW own \in OwnEvents
  PROVE  [state |-> "ok", events |-> EventsFor(late, own),
          text |-> TextOf(Normalized(EventsFor(late, own))), late |-> late, own |-> own] \in Reply
<1>1. late \in Seq(Event) /\ own \in Seq(Event)
  BY LateType
<1>2. late \o own \in Seq(Event)
  BY <1>1
<1>3. EventsFor(late, own) \in Seq(Event)
  BY <1>2, AugmentedType DEF EventsFor
<1>4. TextOf(Normalized(EventsFor(late, own))) \in Seq(Line)
  BY <1>3, NormalizedType, ListTypes
<1>5. QED
  BY <1>1, <1>3, <1>4 DEF Reply

-----------------------------------------------------------------------------
(* The master rows of a report without key "v1".                           *)
LEMMA PlainReport ==
  ASSUME NEW list \in Seq(Solid), \A i \in DOMAIN list : MasterRows(Rendered(list[i])) = <<>>
  PROVE  MasterRows(TextOf(list)) = <<>>
<1> DEFINE T == {n \in Nat : \A u \in Seq(Solid) :
                   Len(u) = n /\ (\A i \in DOMAIN u : MasterRows(Rendered(u[i])) = <<>>)
                     => MasterRows(TextOf(u)) = <<>>}
<1>1. 0 \in T
  <2>1. ASSUME NEW u \in Seq(Solid), Len(u) = 0 PROVE MasterRows(TextOf(u)) = <<>>
    <3>1. u = <<>>
      BY <2>1
    <3>2. TextOf(u) = <<>>
      BY <3>1, NoSections
    <3>3. QED
      BY <3>2, OnlyEmpty DEF MasterRows
  <2>2. QED
    BY <2>1
<1>2. ASSUME NEW n \in T PROVE n + 1 \in T
  <2>1. n \in Nat
    OBVIOUS
  <2>2. SUFFICES ASSUME NEW u \in Seq(Solid), Len(u) = n + 1,
                        \A i \in DOMAIN u : MasterRows(Rendered(u[i])) = <<>>
                 PROVE  MasterRows(TextOf(u)) = <<>>
    BY <2>1
  <2>3. PICK v \in Seq(Solid), x \in Solid : u = Append(v, x)
    <3>1. u # <<>>
      BY <2>1, <2>2
    <3>2. QED
      BY <3>1, SequenceEmptyOrAppend
  <2>4. /\ Len(v) = n /\ (\A i \in DOMAIN v : i \in DOMAIN u /\ u[i] = v[i])
        /\ Len(v) + 1 \in DOMAIN u /\ u[Len(v) + 1] = x
    BY <2>1, <2>2, <2>3
  <2>5. (\A i \in DOMAIN v : MasterRows(Rendered(v[i])) = <<>>) /\ MasterRows(Rendered(x)) = <<>>
    BY <2>2, <2>4
  <2>6. MasterRows(TextOf(v)) = <<>>
    BY <2>4, <2>5
  <2>7. MasterRows(TextOf(Append(v, x))) = MasterRows(TextOf(v))
    BY <2>5, PlainSection
  <2>8. QED
    BY <2>3, <2>6, <2>7
<1>3. T = Nat
  <2> HIDE DEF T
  <2>1. T \in SUBSET Nat
    BY DEF T
  <2>2. QED
    BY <1>1, <1>2, <2>1, SetInduction
<1>4. QED
  BY <1>3

LEMMA FlattenOne ==
  ASSUME NEW S, NEW x \in Seq(S)
  PROVE  FlattenSeq(<<x>>) = x
<1>1. <<>> \in Seq(Seq(S)) /\ <<x>> = Append(<<>>, x)
  OBVIOUS
<1>2. FlattenSeq(Append(<<>>, x)) = FlattenSeq(<<>>) \o x
  BY <1>1, FlattenAppend
<1>3. <<>> \o x = x
  BY ConcatEmptySeq
<1>4. QED
  BY <1>1, <1>2, <1>3, FlattenNone

LEMMA OneEvent ==
  ASSUME NEW e \in Event
  PROVE  Normalized(<<e>>) = ReportOf(e)
<1>1. ReportOf(e) \in Seq(Solid)
  BY ReportType
<1>2. [i \in DOMAIN <<e>> |-> ReportOf(<<e>>[i])] = <<ReportOf(e)>>
  OBVIOUS
<1>3. <<e>> # <<>>
  OBVIOUS
<1>4. FlattenSeq(<<ReportOf(e)>>) = ReportOf(e)
  BY <1>1, FlattenOne
<1>5. QED
  BY <1>2, <1>3, <1>4 DEF Normalized

LEMMA PairIsPlain ==
  /\ SectionOf("key_value", <<Pair>>) \in Solid
  /\ MasterRows(Rendered(SectionOf("key_value", <<Pair>>))) = <<>>
<1>1. Pair \in Line /\ Pair.kind = "pair"
  BY EventTypes
<1>2. /\ SectionOf("key_value", <<Pair>>) \in Solid
      /\ Rendered(SectionOf("key_value", <<Pair>>)) = <<Pair>>
  BY <1>1, PairSection
<1>3. MasterRows(<<Pair>>) = Chosen(Pair, Masters)
  BY <1>1, OnlyOne DEF MasterRows, Masters
<1>4. Chosen(Pair, Masters) = <<>>
  BY <1>1 DEF Chosen, Masters
<1>5. QED
  BY <1>2, <1>3, <1>4

(* The picker gets nothing from an event that is not an address list, and  *)
(* the address of one that is.                                             *)
LEMMA LateMasters ==
  /\ MasterRows(TextOf(Normalized(<<Other>>))) = <<>>
  /\ MasterRows(TextOf(Normalized(<<Balance(MaxBalance)>>))) = <<>>
  /\ MasterRows(TextOf(Normalized(<<AddressList(<<[address |-> 1, version |-> 1]>>)>>)))
       = <<[kind |-> "master", n |-> 1]>>
<1> DEFINE pair == SectionOf("key_value", <<Pair>>)
           rows2 == SectionOf("table", <<Row0, Row0>>)
           one == <<[address |-> 1, version |-> 1]>>
           l == [kind |-> "master", n |-> 1]
           master == SectionOf("key_value", <<l>>)
<1>1. pair \in Solid /\ MasterRows(Rendered(pair)) = <<>>
  BY PairIsPlain
<1>2. rows2 \in Solid /\ MasterRows(Rendered(rows2)) = <<>>
  BY TwoRows
<1>3. MaxBalance \in 0 .. MaxBalance
  BY ReportsAssumption
<1>4. ASSUME NEW list \in Seq(Solid), \A i \in DOMAIN list : list[i] = pair \/ list[i] = rows2
      PROVE  MasterRows(TextOf(list)) = <<>>
  <2>1. \A i \in DOMAIN list : MasterRows(Rendered(list[i])) = <<>>
    BY <1>1, <1>2, <1>4
  <2>2. QED
    BY <2>1, PlainReport
<1>5. MasterRows(TextOf(Normalized(<<Other>>))) = <<>>
  <2>1. Other \in Event /\ Other.kind = "other"
    BY EventTypes
  <2>2. Normalized(<<Other>>) = <<pair, rows2>>
    BY <2>1, OneEvent DEF ReportOf, Row0
  <2> HIDE DEF pair, rows2
  <2>3. <<pair, rows2>> \in Seq(Solid)
    BY <1>1, <1>2
  <2>4. \A i \in DOMAIN <<pair, rows2>> : <<pair, rows2>>[i] = pair \/ <<pair, rows2>>[i] = rows2
    OBVIOUS
  <2>5. QED
    BY <1>4, <2>2, <2>3, <2>4
<1>6. MasterRows(TextOf(Normalized(<<Balance(MaxBalance)>>))) = <<>>
  <2>1. Balance(MaxBalance) \in Event /\ Balance(MaxBalance).kind = "balance"
    BY <1>3, EventTypes
  <2> DEFINE list == [i \in 1 .. 5 |-> pair]
  <2>2. Normalized(<<Balance(MaxBalance)>>) = list
    BY <2>1, OneEvent DEF ReportOf
  <2> HIDE DEF pair
  <2>3. list \in Seq(Solid) /\ \A i \in DOMAIN list : list[i] = pair \/ list[i] = rows2
    BY <1>1
  <2> HIDE DEF list
  <2>4. QED
    BY <1>4, <2>2, <2>3
<1>7. MasterRows(TextOf(Normalized(<<AddressList(one)>>))) = <<l>>
  <2>1. /\ AddressList(one) \in Event /\ AddressList(one).kind = "address_list"
        /\ AddressList(one).rows = one
    BY EventTypes
  <2>2. l \in Line /\ l.kind = "master"
    BY ReportsAssumption DEF Line, Kinds, Bullets
  <2>3. [i \in DOMAIN one |->
           SectionOf("key_value", <<[kind |-> "master", n |-> one[i].address]>>)] = <<master>>
    OBVIOUS
  <2>4. Normalized(<<AddressList(one)>>) = <<pair>> \o <<master>>
    BY <2>1, <2>3, OneEvent DEF ReportOf
  <2> HIDE DEF one
  <2>5. master \in Solid /\ Rendered(master) = <<l>>
    BY <2>2, PairSection
  <2> HIDE DEF pair, master
  <2>6. <<pair>> \in Seq(Solid) /\ <<pair>> \o <<master>> = Append(<<pair>>, master)
    BY <1>1, <2>5
  <2>7. MasterRows(TextOf(<<pair>>)) = <<>>
    <3> DEFINE list == <<pair>>
    <3>1. list \in Seq(Solid) /\ \A i \in DOMAIN list : list[i] = pair
      BY <2>6
    <3> HIDE DEF list
    <3>2. MasterRows(TextOf(list)) = <<>>
      BY <1>4, <3>1
    <3>3. QED
      BY <3>2 DEF list
  <2>8. MasterRows(<<l>>) = Chosen(l, Masters)
    BY <2>2, OnlyOne DEF MasterRows, Masters
  <2>9. Chosen(l, Masters) = <<l>>
    BY <2>2 DEF Chosen, Masters
  <2>10. MasterRows(TextOf(Append(<<pair>>, master))) =
           MasterRows(TextOf(<<pair>>)) \o MasterRows(Rendered(master))
    BY <2>5, <2>6, MastersAppend
  <2>11. <<>> \o <<l>> = <<l>>
    OBVIOUS
  <2>12. QED
    BY <2>4, <2>5, <2>6, <2>7, <2>8, <2>9, <2>10, <2>11
<1>8. QED
  BY <1>5, <1>6, <1>7

LEMMA ParsedMasters ==
  ASSUME TypeOK, Buffers, MastersPassed
  PROVE  MasterRows(TextOf(Parsed)) = MasterRows(printed)
<1>1. sections \in Seq(Solid) /\ text \in Seq(Line) /\ table \in Seq(Line)
  BY SolidSections DEF TypeOK
<1> DEFINE s == TextFlushed(sections)
<1>2. s \in Seq(Solid)
  BY <1>1, TextFlush
<1>3. MasterRows(TextOf(s)) = MasterRows(TextOf(sections))
  BY <1>1, TextFlushPlain
<1> HIDE DEF s
<1>4. MasterRows(TextOf(TableFlushed(s))) = MasterRows(TextOf(s))
  BY <1>1, <1>2, TableFlushPlain
<1>5. QED
  BY <1>3, <1>4 DEF s, Parsed, MastersPassed

LEMMA ListAnswered ==
  ASSUME TypeOK, cmd = "list-active-addresses", NEW late \in Seq(Event), ~HasList(late)
  PROVE  FirstList(Augmented(late)) = RowsPlusPending
<1> DEFINE R == RowsPlusPending
           e == AddressList(R)
           lists(events) == {i \in DOMAIN events : events[i].kind = "address_list"}
<1>1. R \in Seq(Row) /\ e \in Event /\ e.kind = "address_list" /\ e.rows = R
  BY RowsPlusPendingType, EventTypes
<1>2. lists(late) = {}
  BY DEF HasList
<1> HIDE DEF R, e
<1>3. CASE R = <<>>
  <2>1. Augmented(late) = late
    BY <1>3 DEF Augmented, R
  <2>2. FirstList(late) = <<>>
    BY <1>2 DEF FirstList
  <2>3. QED
    BY <1>3, <2>1, <2>2 DEF R
<1>4. CASE R # <<>>
  <2> DEFINE events == Append(late, e)
             n == Len(late) + 1
  <2>1. Augmented(late) = events
    BY <1>4 DEF Augmented, R, e
  <2>2. /\ DOMAIN events = 1 .. n /\ n \in Nat \ {0} /\ events[n] = e
        /\ \A i \in 1 .. n : i = n \/ (i \in DOMAIN late /\ events[i] = late[i])
    BY <1>1
  <2> HIDE DEF events, n
  <2>3. lists(events) = {n}
    <3>1. n \in lists(events)
      BY <1>1, <2>2
    <3>2. \A i \in lists(events) : i = n
      BY <1>2, <2>2
    <3> HIDE DEF lists
    <3>3. QED
      BY <3>1, <3>2
  <2>4. Min({n}) = n
    <3>1. {n} \in SUBSET Nat /\ {n} # {}
      BY <2>2
    <3>2. Min({n}) \in {n}
      BY <3>1, MinIsLeast
    <3>3. QED
      BY <3>2
  <2>5. FirstList(events) = events[n].rows
    BY <2>3, <2>4 DEF FirstList
  <2>6. QED
    BY <1>1, <2>1, <2>2, <2>5 DEF R
<1>5. QED
  BY <1>3, <1>4

-----------------------------------------------------------------------------
(* Amounts.                                                                *)
LEMMA LessTimes ==
  ASSUME NEW s \in Nat \ {0}, NEW a \in Int, NEW b \in Int, s * a < s * b
  PROVE  a < b
<1>1. SUFFICES ASSUME b <= a PROVE FALSE
  OBVIOUS
<1>2. PICK d \in Nat : a = b + d
  <2>1. a - b \in Nat /\ a = b + (a - b)
    BY <1>1
  <2>2. QED
    BY <2>1
<1>3. s * a = s * b + s * d /\ s * d >= 0
  BY <1>2
<1>4. QED
  BY <1>3

LEMMA AtMostTimes ==
  ASSUME NEW s \in Nat \ {0}, NEW a \in Int, NEW b \in Int, s * a <= s * b
  PROVE  a <= b
<1>1. SUFFICES ASSUME b + 1 <= a PROVE FALSE
  OBVIOUS
<1>2. PICK d \in Nat : a = b + 1 + d
  <2>1. a - b - 1 \in Nat /\ a = b + 1 + (a - b - 1)
    BY <1>1
  <2>2. QED
    BY <2>1
<1>3. s * a = s * b + s + s * d /\ s * d >= 0
  BY <1>2
<1>4. QED
  BY <1>3

LEMMA DivBounds ==
  ASSUME NEW a \in Nat, NEW d \in Nat \ {0}
  PROVE  /\ a \div d \in Nat /\ a % d \in 0 .. d - 1
         /\ a % d = a - d * (a \div d)
<1>1. a % d \in 0 .. d - 1
  OBVIOUS
<1>2. a \div d \in Nat
  OBVIOUS
<1>3. a % d = a - d * (a \div d)
  OBVIOUS
<1>4. QED
  BY <1>1, <1>2, <1>3

LEMMA DivIs ==
  ASSUME NEW a \in Nat, NEW d \in Nat \ {0}, NEW n \in Nat, d * n <= a, a < d * n + d
  PROVE  a \div d = n
OBVIOUS

(* The recursive definition of Scale has a solution.                       *)
Scales(f, n) == f = [p \in 0 .. n |-> IF p = 0 THEN 1 ELSE 10 * f[p - 1]]

LEMMA ScalesExists ==
  ASSUME NEW n \in Nat
  PROVE  \E f : Scales(f, n)
<1> DEFINE T == {k \in Nat : \E f : Scales(f, k)}
<1>1. 0 \in T
  <2> DEFINE g == [p \in 0 .. 0 |-> 1]
  <2>1. g = [p \in 0 .. 0 |-> IF p = 0 THEN 1 ELSE 10 * g[p - 1]]
    OBVIOUS
  <2>2. Scales(g, 0)
    BY <2>1 DEF Scales
  <2> HIDE DEF g
  <2>3. QED
    BY <2>2
<1>2. ASSUME NEW k \in T PROVE k + 1 \in T
  <2>1. k \in Nat
    OBVIOUS
  <2>2. PICK f : Scales(f, k)
    OBVIOUS
  <2> DEFINE g == [p \in 0 .. k + 1 |-> IF p = k + 1 THEN 10 * f[k] ELSE f[p]]
  <2>3. /\ \A p \in 0 .. k : g[p] = f[p]
        /\ g[k + 1] = 10 * f[k]
        /\ g = [p \in 0 .. k + 1 |-> g[p]]
    BY <2>1
  <2>4. \A p \in 0 .. k : f[p] = IF p = 0 THEN 1 ELSE 10 * f[p - 1]
    <3> DEFINE h == [p \in 0 .. k |-> IF p = 0 THEN 1 ELSE 10 * f[p - 1]]
    <3>1. f = h
      BY <2>2 DEF Scales
    <3>2. \A p \in 0 .. k : h[p] = IF p = 0 THEN 1 ELSE 10 * f[p - 1]
      OBVIOUS
    <3> HIDE DEF h
    <3>3. QED
      BY <3>1, <3>2
  <2> HIDE DEF g
  <2>5. ASSUME NEW p \in 0 .. k + 1 PROVE g[p] = IF p = 0 THEN 1 ELSE 10 * g[p - 1]
    <3>1. CASE p = k + 1
      <4>1. p # 0 /\ p - 1 = k /\ k \in 0 .. k
        BY <2>1, <3>1
      <4>2. QED
        BY <2>3, <3>1, <4>1
    <3>2. CASE p # k + 1
      <4>1. p \in 0 .. k
        BY <2>1, <3>2
      <4>2. CASE p = 0
        BY <2>3, <2>4, <4>1, <4>2
      <4>3. CASE p # 0
        <5>1. p - 1 \in 0 .. k
          BY <4>1, <4>3
        <5>2. QED
          BY <2>3, <2>4, <4>1, <4>3, <5>1
      <4>4. QED
        BY <4>2, <4>3
    <3>3. QED
      BY <3>1, <3>2
  <2>6. Scales(g, k + 1)
    BY <2>3, <2>5 DEF Scales
  <2>7. QED
    BY <2>1, <2>6
<1>3. T = Nat
  <2> HIDE DEF T
  <2>1. T \in SUBSET Nat
    BY DEF T
  <2>2. QED
    BY <1>1, <1>2, <2>1, SetInduction
<1>4. QED
  BY <1>3

LEMMA ScaleAt ==
  ASSUME NEW p \in 0 .. Decimals
  PROVE  Scale[p] = IF p = 0 THEN 1 ELSE 10 * Scale[p - 1]
<1> DEFINE P(f) == f = [q \in 0 .. Decimals |-> IF q = 0 THEN 1 ELSE 10 * f[q - 1]]
<1>1. P(CHOOSE f : P(f))
  <2>1. \E f : P(f)
    BY ScalesExists, AmountsAssumption DEF Scales
  <2> HIDE DEF P
  <2>2. QED
    BY <2>1
<1>2. Scale = (CHOOSE f : P(f))
  BY DEF Scale
<1>3. P(Scale)
  <2> HIDE DEF P
  <2>1. QED
    BY <1>1, <1>2
<1> DEFINE h == [q \in 0 .. Decimals |-> IF q = 0 THEN 1 ELSE 10 * Scale[q - 1]]
<1>4. Scale = h
  BY <1>3
<1>5. h[p] = IF p = 0 THEN 1 ELSE 10 * Scale[p - 1]
  OBVIOUS
<1> HIDE DEF h
<1>6. QED
  BY <1>4, <1>5

LEMMA ScaleType ==
  ASSUME NEW p \in 0 .. Decimals
  PROVE  Scale[p] \in Nat \ {0}
<1> DEFINE T == {k \in Nat : k \in 0 .. Decimals => Scale[k] \in Nat \ {0}}
<1>1. 0 \in T
  <2>1. 0 \in 0 .. Decimals => Scale[0] = 1
    BY ScaleAt
  <2>2. QED
    BY <2>1
<1>2. ASSUME NEW k \in T PROVE k + 1 \in T
  <2>1. SUFFICES ASSUME k + 1 \in 0 .. Decimals PROVE Scale[k + 1] \in Nat \ {0}
    OBVIOUS
  <2>2. k \in 0 .. Decimals /\ k + 1 # 0 /\ k + 1 - 1 = k
    BY <2>1, AmountsAssumption
  <2>3. Scale[k] \in Nat \ {0}
    BY <2>2
  <2>4. Scale[k + 1] = IF k + 1 = 0 THEN 1 ELSE 10 * Scale[k + 1 - 1]
    BY <2>1, ScaleAt
  <2>5. Scale[k + 1] = 10 * Scale[k]
    BY <2>2, <2>4
  <2>6. QED
    BY <2>3, <2>5
<1>3. T = Nat
  <2> HIDE DEF T
  <2>1. T \in SUBSET Nat
    BY DEF T
  <2>2. QED
    BY <1>1, <1>2, <2>1, SetInduction
<1>4. QED
  BY <1>3, AmountsAssumption

LEMMA ScaleSum ==
  ASSUME NEW p \in 0 .. Decimals
  PROVE  Scale[p] * Scale[Decimals - p] = Scale[Decimals]
<1> DEFINE T == {k \in Nat : k \in 0 .. Decimals => Scale[k] * Scale[Decimals - k] = Scale[Decimals]}
<1>1. 0 \in T
  <2>1. 0 \in 0 .. Decimals /\ Decimals \in 0 .. Decimals /\ Decimals - 0 = Decimals
    BY AmountsAssumption
  <2>2. Scale[0] = 1 /\ Scale[Decimals] \in Nat
    BY <2>1, ScaleAt, ScaleType
  <2>3. QED
    BY <2>1, <2>2
<1>2. ASSUME NEW k \in T PROVE k + 1 \in T
  <2>1. SUFFICES ASSUME k + 1 \in 0 .. Decimals
                 PROVE  Scale[k + 1] * Scale[Decimals - (k + 1)] = Scale[Decimals]
    OBVIOUS
  <2> DEFINE q == Decimals - k
  <2>2. /\ k \in 0 .. Decimals /\ k + 1 # 0 /\ k + 1 - 1 = k
        /\ q \in 0 .. Decimals /\ q # 0 /\ q - 1 \in 0 .. Decimals /\ Decimals - (k + 1) = q - 1
    BY <2>1, AmountsAssumption
  <2>3. Scale[k] * Scale[q] = Scale[Decimals]
    BY <2>2
  <2> HIDE DEF q
  <2>4. Scale[k + 1] = 10 * Scale[k]
    <3>1. Scale[k + 1] = IF k + 1 = 0 THEN 1 ELSE 10 * Scale[k + 1 - 1]
      BY <2>1, ScaleAt
    <3>2. QED
      BY <2>2, <3>1
  <2>5. Scale[q] = 10 * Scale[q - 1]
    <3>1. Scale[q] = IF q = 0 THEN 1 ELSE 10 * Scale[q - 1]
      BY <2>2, ScaleAt
    <3>2. QED
      BY <2>2, <3>1
  <2>6. Scale[k] \in Nat /\ Scale[q - 1] \in Nat
    BY <2>2, ScaleType
  <2>7. (10 * Scale[k]) * Scale[q - 1] = Scale[k] * (10 * Scale[q - 1])
    BY <2>6
  <2>8. QED
    BY <2>2, <2>3, <2>4, <2>5, <2>7
<1>3. T = Nat
  <2> HIDE DEF T
  <2>1. T \in SUBSET Nat
    BY DEF T
  <2>2. QED
    BY <1>1, <1>2, <2>1, SetInduction
<1>4. p \in Nat /\ p \in T
  <2>1. p \in Nat
    BY AmountsAssumption
  <2> HIDE DEF T
  <2>2. QED
    BY <1>3, <2>1
<1>5. QED
  BY <1>4

(* What is rounded is within half a unit.                                  *)
LEMMA RoundEvenBounds ==
  ASSUME NEW x \in Nat, NEW d \in Nat \ {0}
  PROVE  /\ RoundEven(x, d) \in Nat
         /\ 2 * x - d <= 2 * d * RoundEven(x, d)
         /\ 2 * d * RoundEven(x, d) <= 2 * x + d
<1> DEFINE a == 2 * x + d
           c == 2 * d
           up == RoundUp(x, d)
<1>1. a \in Nat /\ c \in Nat \ {0} /\ up = a \div c
  BY DEF RoundUp
<1>2. up \in Nat /\ a % c \in 0 .. c - 1 /\ a % c = a - c * up
  <2> HIDE DEF a, c, up
  <2>1. QED
    BY <1>1, DivBounds
<1>3. RoundEven(x, d) = IF a % c = 0 /\ up % 2 = 1 THEN up - 1 ELSE up
  BY DEF RoundEven
<1> DEFINE r == RoundEven(x, d)
<1> HIDE DEF r
<1>4. c * up <= a /\ a < c * up + c
  <2> HIDE DEF a, c, up
  <2>1. QED
    BY <1>1, <1>2
<1>5. CASE a % c = 0 /\ up % 2 = 1
  <2>1. r = up - 1 /\ c * up = a
    <3>1. r = up - 1
      BY <1>3, <1>5 DEF r
    <3> HIDE DEF a, c, up
    <3>2. QED
      BY <1>1, <1>2, <1>5, <3>1
  <2>2. up # 0
    <3> HIDE DEF up
    <3>1. QED
      BY <1>2, <2>1
  <2> HIDE DEF up
  <2>3. r \in Nat /\ c * r = a - c
    BY <1>2, <2>1, <2>2
  <2>4. QED
    BY <2>3 DEF r
<1>6. CASE ~(a % c = 0 /\ up % 2 = 1)
  <2>1. r = up
    BY <1>3, <1>6 DEF r
  <2> HIDE DEF up
  <2>2. QED
    BY <1>2, <1>4, <2>1 DEF r
<1>7. QED
  BY <1>5, <1>6

(* Trimming takes off zeros alone.                                         *)
LEMMA TrimKeeps ==
  ASSUME NEW num \in Nat
  PROVE  LET t == Trim([num |-> num, places |-> Decimals])
         IN  /\ t.num \in Nat /\ t.places \in 0 .. Decimals
             /\ t.num * Scale[Decimals - t.places] = num
<1> DEFINE exact == {p \in 0 .. Decimals : num % Scale[Decimals - p] = 0}
           p == Min(exact)
           s == Scale[Decimals - p]
           t == Trim([num |-> num, places |-> Decimals])
<1>1. t = [num |-> num \div s, places |-> p]
  BY DEF Trim
<1>2. Decimals \in exact
  <2>1. 0 \in 0 .. Decimals /\ Decimals \in 0 .. Decimals /\ Decimals - Decimals = 0
    BY AmountsAssumption
  <2>2. Scale[0] = 1
    BY <2>1, ScaleAt
  <2>3. num % 1 = 0
    OBVIOUS
  <2>4. QED
    BY <2>1, <2>2, <2>3
<1>3. p \in exact
  <2>1. exact \in SUBSET Nat /\ exact # {}
    BY <1>2, AmountsAssumption
  <2> HIDE DEF exact
  <2>2. QED
    BY <2>1, MinIsLeast
<1>4. p \in 0 .. Decimals /\ num % s = 0
  BY <1>3
<1> HIDE DEF exact, p
<1>5. s \in Nat \ {0}
  <2>1. Decimals - p \in 0 .. Decimals
    BY <1>4, AmountsAssumption
  <2>2. QED
    BY <2>1, ScaleType
<1> HIDE DEF s
<1>6. num \div s \in Nat /\ num % s = num - s * (num \div s)
  BY <1>5, DivBounds
<1>7. (num \div s) * s = num
  BY <1>4, <1>5, <1>6
<1> HIDE DEF t
<1>8. t.num = num \div s /\ t.places = p
  BY <1>1
<1>9. QED
  BY <1>4, <1>6, <1>7, <1>8 DEF s, t

(* What a formatted amount is read as is the amount.                       *)
LEMMA RoundTrip ==
  ASSUME NEW nicks \in 0 .. MaxNicks
  PROVE  ParseNock(FormatNock(nicks)) = nicks
<1> DEFINE K == NicksPerNock
           D == Scale[Decimals]
           num == RoundEven(nicks * D, K)
           t == FormatNock(nicks)
           m == t.num
           S == Scale[t.places]
           R == Scale[Decimals - t.places]
<1>1. nicks \in Nat /\ K \in Nat \ {0} /\ D \in Nat \ {0} /\ K < D
  <2>1. Decimals \in 0 .. Decimals
    BY AmountsAssumption
  <2>2. QED
    BY <2>1, AmountsAssumption, ScaleType
<1>2. nicks * D \in Nat
  <2> HIDE DEF D
  <2>1. QED
    BY <1>1
<1>3. /\ num \in Nat
      /\ 2 * (nicks * D) - K <= 2 * K * num /\ 2 * K * num <= 2 * (nicks * D) + K
  <2> HIDE DEF D, K
  <2>1. QED
    BY <1>1, <1>2, RoundEvenBounds
<1>4. t = Trim([num |-> num, places |-> Decimals])
  BY DEF FormatNock
<1> HIDE DEF num, t
<1>5. m \in Nat /\ t.places \in 0 .. Decimals /\ m * R = num
  BY <1>3, <1>4, TrimKeeps
<1>6. S \in Nat \ {0} /\ R \in Nat \ {0} /\ S * R = D
  <2>1. Decimals - t.places \in 0 .. Decimals
    BY <1>5, AmountsAssumption
  <2>2. QED
    BY <1>5, <2>1, ScaleType, ScaleSum
<1>7. ParseNock(t) =
        LET n == RoundUp(m * K, S) IN IF n > MaxNicks THEN MaxNicks ELSE n
  BY DEF ParseNock
<1> HIDE DEF K, D, m, S, R
<1> DEFINE a == 2 * (m * K) + S
           d == 2 * S
<1>8. a \in Nat /\ d \in Nat \ {0} /\ m * K \in Nat
  BY <1>1, <1>5, <1>6
<1>9. R * a = 2 * K * num + D
  <2>1. R * a = 2 * K * (m * R) + S * R
    BY <1>1, <1>5, <1>6
  <2>2. QED
    BY <1>5, <1>6, <2>1
<1>10. R * (d * nicks) = 2 * (nicks * D) /\ R * (d * nicks + d) = 2 * (nicks * D) + 2 * D
  <2>1. R * (d * nicks) = 2 * (nicks * (S * R)) /\ R * (d * nicks + d) = 2 * (nicks * (S * R)) + 2 * (S * R)
    BY <1>1, <1>6
  <2>2. QED
    BY <1>6, <2>1
<1>11. R * (d * nicks) <= R * a /\ R * a < R * (d * nicks + d)
  <2> HIDE DEF a, d
  <2>1. 2 * K * num \in Nat /\ nicks * D \in Nat
    BY <1>1, <1>2, <1>3
  <2>2. QED
    BY <1>1, <1>3, <1>9, <1>10, <2>1
<1>12. d * nicks \in Nat
  BY <1>1, <1>8
<1> HIDE DEF a, d
<1>13. d * nicks <= a /\ a < d * nicks + d
  BY <1>6, <1>8, <1>11, <1>12, LessTimes, AtMostTimes
<1>14. a \div d = nicks
  BY <1>1, <1>8, <1>13, DivIs
<1>15. RoundUp(m * K, S) = nicks
  BY <1>14 DEF RoundUp, a, d
<1>16. ParseNock(t) = nicks
  <2>1. ~(nicks > MaxNicks)
    BY <1>1, AmountsAssumption
  <2>2. QED
    BY <1>7, <1>15, <2>1
<1>17. QED
  BY <1>16 DEF t

(* The balance of the home view is one that can be sent.                   *)

-----------------------------------------------------------------------------
(* The total is that of the first balance in the sink.                     *)
TotalTold ==
  cmd = "show-balance" /\ reply.state = "ok" =>
    /\ Told(reply.late, reply.own) \in 0 .. MaxNicks
    /\ TotalAssets(reply.events) = Told(reply.late, reply.own)

LEMMA ToldTotal ==
  ASSUME NEW late \in LateEvents, NEW own \in OwnEvents, cmd = "show-balance"
  PROVE  /\ Told(late, own) \in 0 .. MaxNicks
         /\ TotalAssets(EventsFor(late, own)) = Told(late, own)
<1>1. late \in Seq(Event) /\ own \in Seq(Event)
  BY LateType
<1>2. PICK b \in 0 .. MaxBalance : own = <<Balance(b)>>
  BY DEF OwnEvents
<1> DEFINE events == late \o own
           first == IF HasBalance(late) THEN 1 ELSE Len(late) + 1
           told == IF HasBalance(late) THEN MaxBalance ELSE b
           all == {i \in DOMAIN events : events[i].kind = "balance"}
<1>3. EventsFor(late, own) = events
  BY DEF EventsFor, Augmented
<1>4. /\ Balance(b).kind = "balance" /\ Balance(b).nicks = b
      /\ Balance(MaxBalance).kind = "balance" /\ Balance(MaxBalance).nicks = MaxBalance
      /\ Other.kind # "balance"
      /\ \A list : AddressList(list).kind # "balance"
  BY DEF Balance, Other, AddressList
<1>5. HasBalance(late) => late = <<Balance(MaxBalance)>>
  <2>1. \A e : HasBalance(<<e>>) => e.kind = "balance"
    BY DEF HasBalance
  <2>2. ~HasBalance(<<>>)
    BY DEF HasBalance
  <2>3. QED
    BY <1>4, <2>1, <2>2 DEF LateEvents
<1>6. /\ first \in DOMAIN events /\ first \in Nat /\ DOMAIN events \subseteq Nat
      /\ events[first].kind = "balance" /\ events[first].nicks = told
  BY <1>1, <1>2, <1>4, <1>5
<1>7. \A i \in DOMAIN events : i < first => events[i].kind # "balance"
  BY <1>1, <1>2, <1>5 DEF HasBalance
<1> HIDE DEF events, first
<1>8. Min(all) = first
  <2>1. all \in SUBSET Nat /\ first \in all
    BY <1>6
  <2>2. Min(all) \in all /\ Min(all) <= first
    BY <2>1, MinIsLeast
  <2>3. ~(Min(all) < first)
    BY <1>7, <2>2
  <2>4. QED
    BY <1>6, <2>1, <2>2, <2>3
<1>9. TotalAssets(events) = told
  <2>1. all # {}
    BY <1>6
  <2>2. QED
    BY <1>6, <1>8, <2>1 DEF TotalAssets
<1>10. Told(late, own) = told
  BY <1>2, <1>4, <1>5 DEF Told
<1>11. told \in 0 .. MaxNicks
  BY AmountsAssumption, ReportsAssumption
<1> HIDE DEF told
<1>12. QED
  BY <1>3, <1>9, <1>10, <1>11

-----------------------------------------------------------------------------
(* The inductive invariant.                                                *)
Parsing == InLoop /\ Buffers /\ MastersPassed
Collecting == NoMasterRows /\ Collected
Answered == MasterListArrives /\ AddressesPaired /\ TotalTold
ReportsInv == TypeOK /\ Parsing /\ Collecting /\ Answered

LEMMA InitInv == Init => ReportsInv
<1> SUFFICES ASSUME Init PROVE ReportsInv
  OBVIOUS
<1>1. /\ printed = <<>> /\ sections = <<>> /\ text = <<>> /\ table = <<>> /\ rows = <<>>
      /\ pending = 0 /\ reply = NoReply /\ cmd \in Commands
  BY DEF Init, NoAddress
<1>2. TypeOK
  <2>1. <<>> \in Seq(Line) /\ <<>> \in Seq(Section) /\ <<>> \in Seq(Row) /\ <<>> \in Seq(Event)
    OBVIOUS
  <2>2. NoReply \in Reply
    BY <2>1 DEF NoReply, Reply
  <2>3. 0 \in 0 .. MaxLines
    BY ReportsAssumption
  <2>4. \A i \in DOMAIN <<>> : FALSE
    OBVIOUS
  <2>5. QED
    BY <1>1, <2>1, <2>2, <2>3, <2>4 DEF TypeOK
<1>3. Parsing
  <2>1. Only(printed, Shown) = <<>> /\ MasterRows(printed) = <<>>
    BY <1>1, OnlyEmpty DEF MasterRows
  <2>2. LinesOf(sections) = <<>> /\ MasterRows(TextOf(sections)) = <<>>
    BY <1>1, NoSections, OnlyEmpty DEF MasterRows
  <2>3. <<>> \o <<>> \o <<>> = <<>>
    OBVIOUS
  <2>4. QED
    BY <1>1, <2>1, <2>2, <2>3 DEF Parsing, InLoop, Shown, Buffers, MastersPassed
<1>4. Collecting
  <2>1. RowsPlusPending = <<>>
    BY <1>1 DEF RowsPlusPending, NoAddress
  <2>2. Only(printed, {"address"}) = <<>>
    BY <1>1, OnlyEmpty
  <2>3. PrintedRows = <<>>
    BY <2>2 DEF PrintedRows
  <2>4. PrintedAt("address") = {} /\ PrintedAt("version") = {}
    BY <1>1 DEF PrintedAt
  <2>5. QED
    BY <1>1, <2>1, <2>3, <2>4 DEF Collecting, NoMasterRows, Collected, NoAddress
<1>5. Answered
  BY <1>1 DEF Answered, MasterListArrives, AddressesPaired, TotalTold, NoReply
<1>6. QED
  BY <1>2, <1>3, <1>4, <1>5 DEF ReportsInv

LEMMA PrintInv ==
  ASSUME ReportsInv, NEW kind \in Kinds, KernelPrints(kind)
  PROVE  ReportsInv'
<1>1. TypeOK /\ InLoop /\ Buffers /\ MastersPassed /\ NoMasterRows /\ Collected
  BY DEF ReportsInv, Parsing, Collecting
<1>2. /\ sections' \in Seq(Solid) /\ text' \in Seq(Line) /\ table' \in Seq(Line)
      /\ InLoop' /\ Buffers' /\ MastersPassed'
  BY <1>1, ParserStep
<1>3. cmd' = cmd /\ reply' = reply /\ reply = NoReply /\ kind \in Printable(cmd)
  BY DEF KernelPrints
<1>4. TypeOK'
  <2>1. sections' \in Seq(Section) /\ \A i \in DOMAIN sections' : sections'[i].lines # <<>>
    BY <1>2, SolidSections
  <2>2. printed' \in Seq(Line)
    BY <1>1, LineTaken
  <2>3. rows' \in Seq(Row) /\ pending' \in 0 .. MaxLines
    <3>1. rows \in Seq(Row) /\ pending \in 0 .. MaxLines
      BY <1>1 DEF TypeOK
    <3>2. Len(printed) + 1 \in 1 .. MaxLines
      <4>1. Len(printed) \in Nat /\ Len(printed) < MaxLines
        BY <1>1 DEF TypeOK, KernelPrints
      <4>2. QED
        BY <4>1, ReportsAssumption
    <3>3. CASE kind = "address"
      <4>1. rows' = RowsPlusPending /\ pending' = Len(printed) + 1
        BY <3>3 DEF KernelPrints, Collect, RowsAtAddress
      <4>2. QED
        BY <1>1, <3>2, <4>1, RowsPlusPendingType
    <3>4. CASE kind = "version" /\ pending # NoAddress
      <4>1. /\ rows' = Append(rows, [address |-> pending, version |-> Len(printed) + 1])
            /\ pending' = 0
        BY <3>4 DEF KernelPrints, Collect, NoAddress
      <4>2. [address |-> pending, version |-> Len(printed) + 1] \in Row
        BY <3>1, <3>2, <3>4 DEF Row, NoAddress
      <4>3. QED
        BY <3>1, <4>1, <4>2, ReportsAssumption
    <3>5. CASE kind # "address" /\ ~(kind = "version" /\ pending # NoAddress)
      <4>1. rows' = rows /\ pending' = pending
        BY <3>5 DEF KernelPrints, Collect
      <4>2. QED
        BY <3>1, <4>1
    <3>6. QED
      BY <3>3, <3>4, <3>5
  <2>4. cmd' \in Commands /\ reply' \in Reply
    BY <1>1, <1>3 DEF TypeOK
  <2>5. QED
    BY <1>2, <2>1, <2>2, <2>3, <2>4 DEF TypeOK
<1>5. NoMasterRows'
  <2>1. SUFFICES ASSUME cmd = "list-master-addresses"
                 PROVE  rows' = <<>> /\ pending' = NoAddress
    BY <1>3 DEF NoMasterRows
  <2>2. kind \notin {"address", "version"}
    BY <1>3, <2>1 DEF Printable
  <2>3. rows' = rows /\ pending' = pending
    BY <2>2 DEF KernelPrints, Collect
  <2>4. QED
    BY <1>1, <2>1, <2>3 DEF NoMasterRows
<1>6. Collected'
  BY <1>1, CollectedStep
<1>7. Answered'
  <2>1. reply'.state # "ok"
    BY <1>3 DEF NoReply
  <2>2. QED
    BY <2>1 DEF Answered, MasterListArrives, AddressesPaired, TotalTold
<1>8. QED
  BY <1>2, <1>4, <1>5, <1>6, <1>7 DEF ReportsInv, Parsing, Collecting

(* What does not depend on the answer.                                     *)
LEMMA ParserUnchanged ==
  ASSUME ReportsInv, UNCHANGED <<cmd, printed, parser_vars, rows, pending>>, reply' \in Reply
  PROVE  TypeOK' /\ Parsing' /\ Collecting' /\ PrintedRows' = PrintedRows
<1>1. /\ cmd' = cmd /\ printed' = printed /\ sections' = sections /\ text' = text
      /\ table' = table /\ rows' = rows /\ pending' = pending
  BY DEF parser_vars
<1>2. TypeOK'
  BY <1>1 DEF ReportsInv, TypeOK
<1>3. Parsing'
  BY <1>1 DEF ReportsInv, Parsing, InLoop, LinesOf, Buffers, MastersPassed
<1>4. PrintedRows' = PrintedRows
  BY <1>1 DEF PrintedRows, VersionOf, OwnVersions, PrintedAt
<1>5. Collecting'
  <2>1. NoMasterRows'
    BY <1>1 DEF ReportsInv, Collecting, NoMasterRows
  <2>2. RowsPlusPending' = RowsPlusPending
    BY <1>1 DEF RowsPlusPending
  <2>3. PrintedAt("address")' = PrintedAt("address") /\ PrintedAt("version")' = PrintedAt("version")
    BY <1>1 DEF PrintedAt
  <2>4. Collected'
    BY <1>1, <1>4, <2>2, <2>3 DEF ReportsInv, Collecting, Collected
  <2>5. QED
    BY <2>1, <2>4 DEF Collecting
<1>6. QED
  BY <1>2, <1>3, <1>4, <1>5

LEMMA ReturnInv ==
  ASSUME ReportsInv, Return
  PROVE  ReportsInv'
<1>1. TypeOK /\ Buffers /\ MastersPassed /\ NoMasterRows /\ Collected
  BY DEF ReportsInv, Parsing, Collecting
<1>2. UNCHANGED <<cmd, printed, parser_vars, rows, pending>> /\ cmd' = cmd /\ printed' = printed
  BY DEF Return
<1>3. PICK late \in LateEvents, own \in OwnEvents :
        reply' = [state |-> "ok", events |-> EventsFor(late, own),
                  text |-> TextOf(Normalized(EventsFor(late, own))), late |-> late, own |-> own]
  BY DEF Return, EventsFor
<1>4. reply' \in Reply
  BY <1>1, <1>3, ReturnType
<1>5. TypeOK' /\ Parsing' /\ Collecting' /\ PrintedRows' = PrintedRows
  BY <1>2, <1>4, ParserUnchanged
<1>6. late \in Seq(Event)
  BY LateType
<1>7. ASSUME cmd # "show-balance" PROVE EventsFor(late, own) = Augmented(late)
  <2>1. own = <<>>
    BY <1>7 DEF OwnEvents
  <2>2. late \o <<>> = late
    BY <1>6, ConcatEmptySeq
  <2>3. QED
    BY <2>1, <2>2 DEF EventsFor
<1>8. MasterListArrives'
  <2>1. SUFFICES ASSUME cmd = "list-master-addresses"
                 PROVE  MasterRows(reply'.text) =
                          IF reply'.late = <<>> THEN MasterRows(printed)
                          ELSE IF HasList(reply'.late) THEN <<[kind |-> "master", n |-> 1]>>
                          ELSE <<>>
    BY <1>2 DEF MasterListArrives
  <2>2. EventsFor(late, own) = late
    <3>1. RowsPlusPending = <<>>
      BY <1>1, <2>1 DEF NoMasterRows, RowsPlusPending
    <3>2. Augmented(late) = late
      BY <3>1 DEF Augmented
    <3>3. QED
      BY <1>7, <2>1, <3>2
  <2>3. reply'.text = TextOf(Normalized(late)) /\ reply'.late = late
    BY <1>3, <2>2
  <2>4. CASE late = <<>>
    <3>1. Normalized(late) = Parsed
      BY <2>4 DEF Normalized
    <3>2. QED
      BY <1>1, <2>3, <2>4, <3>1, ParsedMasters
  <2>5. CASE late = <<Other>>
    <3>1. late # <<>> /\ ~HasList(late)
      BY <2>5, EventTypes DEF HasList
    <3>2. QED
      BY <2>3, <2>5, <3>1, LateMasters
  <2>6. CASE late = <<Balance(MaxBalance)>>
    <3>1. Balance(MaxBalance).kind = "balance"
      BY EventTypes, ReportsAssumption
    <3>2. late # <<>> /\ ~HasList(late)
      BY <2>6, <3>1 DEF HasList
    <3>3. QED
      BY <2>3, <2>6, <3>2, LateMasters
  <2>7. CASE late = <<AddressList(<<[address |-> 1, version |-> 1]>>)>>
    <3> DEFINE e == AddressList(<<[address |-> 1, version |-> 1]>>)
    <3>1. e.kind = "address_list"
      BY EventTypes
    <3> HIDE DEF e
    <3>2. late # <<>> /\ late[1] = e /\ 1 \in DOMAIN late
      BY <2>7 DEF e
    <3>3. HasList(late)
      BY <3>1, <3>2 DEF HasList
    <3>4. QED
      BY <2>3, <2>7, <3>2, <3>3, LateMasters
  <2>8. QED
    BY <2>4, <2>5, <2>6, <2>7 DEF LateEvents
<1>9. AddressesPaired'
  <2>1. SUFFICES ASSUME cmd = "list-active-addresses", ~HasList(reply'.late)
                 PROVE  FirstList(reply'.events) = PrintedRows
    BY <1>2, <1>5 DEF AddressesPaired
  <2>2. reply'.late = late /\ reply'.events = Augmented(late)
    BY <1>3, <1>7, <2>1
  <2>3. FirstList(Augmented(late)) = RowsPlusPending
    BY <1>1, <1>6, <2>1, <2>2, ListAnswered
  <2>4. QED
    BY <1>1, <2>2, <2>3 DEF Collected
<1>10. TotalTold'
  <2>1. reply'.events = EventsFor(late, own) /\ reply'.late = late /\ reply'.own = own
    BY <1>3
  <2>2. QED
    BY <1>2, <2>1, ToldTotal DEF TotalTold
<1>11. QED
  BY <1>5, <1>8, <1>9, <1>10 DEF ReportsInv, Answered

LEMMA FailInv ==
  ASSUME ReportsInv, Fail
  PROVE  ReportsInv'
<1>1. /\ UNCHANGED <<cmd, printed, parser_vars, rows, pending>>
      /\ reply' = [state |-> "error", events |-> <<>>, text |-> <<>>, late |-> <<>>,
                    own |-> <<>>]
  BY DEF Fail, NoReply
<1>2. <<>> \in Seq(Event) /\ <<>> \in Seq(Line)
  OBVIOUS
<1>3. reply' \in Reply /\ reply'.state = "error"
  BY <1>1, <1>2 DEF Reply
<1>4. TypeOK' /\ Parsing' /\ Collecting'
  BY <1>1, <1>3, ParserUnchanged
<1>5. Answered'
  BY <1>3 DEF Answered, MasterListArrives, AddressesPaired, TotalTold
<1>6. QED
  BY <1>4, <1>5 DEF ReportsInv

LEMMA StutterInv ==
  ASSUME ReportsInv, UNCHANGED vars
  PROVE  ReportsInv'
<1>1. UNCHANGED <<cmd, printed, parser_vars, rows, pending>> /\ reply' = reply /\ cmd' = cmd
      /\ printed' = printed
  BY DEF vars
<1>2. reply' \in Reply
  BY <1>1 DEF ReportsInv, TypeOK
<1>3. TypeOK' /\ Parsing' /\ Collecting' /\ PrintedRows' = PrintedRows
  BY <1>1, <1>2, ParserUnchanged
<1>4. Answered'
  BY <1>1, <1>3 DEF ReportsInv, Answered, MasterListArrives, AddressesPaired, TotalTold
<1>5. QED
  BY <1>3, <1>4 DEF ReportsInv

LEMMA StepInv == ReportsInv /\ [Next]_vars => ReportsInv'
<1> SUFFICES ASSUME ReportsInv, [Next]_vars PROVE ReportsInv'
  OBVIOUS
<1>1. ASSUME NEW kind \in Kinds, KernelPrints(kind) PROVE ReportsInv'
  BY <1>1, PrintInv
<1>2. CASE Return
  BY <1>2, ReturnInv
<1>3. CASE Fail
  BY <1>3, FailInv
<1>4. CASE UNCHANGED vars
  BY <1>4, StutterInv
<1>5. QED
  BY <1>1, <1>2, <1>3, <1>4 DEF Next

LEMMA Invariance == Spec => []ReportsInv
BY InitInv, StepInv, PTL DEF Spec

(* Every line, buffer, section, row and answer is of its type, and no      *)
(* flush makes an empty section: neither the parser nor the renderer of    *)
(* the client meets one it takes the first line of in vain.                *)
THEOREM TypeCorrect == Spec => []TypeOK
<1>1. ReportsInv => TypeOK
  BY DEF ReportsInv
<1>2. QED
  BY Invariance, <1>1, PTL

(* parse_markdown_to_sections neither loses nor doubles nor moves a line,  *)
(* however many the kernel prints.                                         *)
THEOREM LinesCorrect == Spec => []LinesKept
<1>1. ReportsInv => LinesKept
  <2> SUFFICES ASSUME ReportsInv PROVE LinesKept
    OBVIOUS
  <2>1. InLoop /\ sections \in Seq(Solid) /\ text \in Seq(Line) /\ table \in Seq(Line)
    BY SolidSections DEF ReportsInv, Parsing, TypeOK
  <2>2. /\ TextFlushed(sections) \in Seq(Solid)
        /\ LinesOf(TextFlushed(sections)) = LinesOf(sections) \o text
    BY <2>1, TextFlush
  <2>3. LinesOf(Parsed) = LinesOf(sections) \o text \o table
    BY <2>1, <2>2, TableFlush DEF Parsed
  <2>4. QED
    BY <2>1, <2>3 DEF LinesKept, InLoop
<1>2. QED
  BY Invariance, <1>1, PTL

(* synthesize_address_list pairs every address with its own version, and   *)
(* the home view finds the list in the answer.                             *)
THEOREM PairsCorrect == Spec => []AddressesPaired
<1>1. ReportsInv => AddressesPaired
  BY DEF ReportsInv, Answered
<1>2. QED
  BY Invariance, <1>1, PTL

(* The master addresses survive the parser, the renderer and the second    *)
(* parser of the wallet picker.                                            *)
THEOREM MastersCorrect == Spec => []MasterListArrives
<1>1. ReportsInv => MasterListArrives
  BY DEF ReportsInv, Answered
<1>2. QED
  BY Invariance, <1>1, PTL

(* "Max" fills in all of the balance a reply tells, whatever the balance,  *)
(* the worth of a NOCK and the number of decimals: two roundings and the   *)
(* trimmed zeros between them lose nothing as long as a nick is more than  *)
(* a last decimal.                                                         *)
THEOREM MaxCorrect == Spec => []MaxSendsAll
<1>1. ReportsInv => MaxSendsAll
  <2> DEFINE n == Told(reply.late, reply.own)
  <2> SUFFICES ASSUME ReportsInv, cmd = "show-balance", reply.state = "ok"
               PROVE  ParseNock(FormatNock(TotalAssets(reply.events))) = n
    BY DEF MaxSendsAll, Refused
  <2>1. n \in 0 .. MaxNicks /\ TotalAssets(reply.events) = n
    BY DEF ReportsInv, Answered, TotalTold
  <2>2. QED
    BY <2>1, RoundTrip
<1>2. QED
  BY Invariance, <1>1, PTL
=============================================================================
