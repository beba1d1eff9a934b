---------------------------- MODULE SequenceFacts ----------------------------
(***************************************************************************)
(* Facts about numbers and sequences that the proofs share, for all sets   *)
(* and sequences: in place of an induction, a least counterexample.        *)
(***************************************************************************)
EXTENDS SequencesExt, SequenceTheorems, WellFoundedInduction, TLAPS

\* A set of naturals that is not empty has a least member.
LEMMA LeastNatural ==
  ASSUME NEW T \in SUBSET Nat, T # {}
  PROVE  \E n \in T : \A m \in T : n <= m
<1> DEFINE R == OpToRel(<, Nat)
<1>1. IsWellFoundedOn(R, Nat)
  BY NatLessThanWellFounded
<1>2. \A x, y \in Nat : x < y => <<x, y>> \in R
  BY DEF OpToRel
<1> HIDE DEF R
<1>3. T \subseteq Nat
  OBVIOUS
<1>4. \E n \in T : \A m \in T : ~(<<m, n>> \in R)
  BY <1>1, <1>3, WFMin, Zenon
<1>5. PICK n \in T : \A m \in T : ~(<<m, n>> \in R)
  BY <1>4, Zenon
<1>6. ASSUME NEW m \in T
      PROVE  n <= m
  <2>1. ~(<<m, n>> \in R) /\ m \in Nat /\ n \in Nat
    BY <1>5
  <2>2. ~(m < n)
    BY <1>2, <2>1, Zenon
  <2> QED
    BY <2>1, <2>2
<1> QED
  BY <1>6

\* A sequence without its last element.
LEMMA FrontFacts ==
  ASSUME NEW S, NEW s \in Seq(S), s # <<>>
  PROVE  /\ Len(s) \in Nat \ {0}
         /\ Front(s) \in Seq(S) /\ Len(Front(s)) = Len(s) - 1
         /\ \A k \in 1..(Len(s) - 1) : Front(s)[k] = s[k]
<1>1. Len(s) \in Nat \ {0}
  BY EmptySeq
<1>2. ASSUME NEW n \in Nat, n = Len(s) - 1
      PROVE  /\ SubSeq(s, 1, n) \in Seq(S) /\ Len(SubSeq(s, 1, n)) = n
             /\ \A k \in 1..n : SubSeq(s, 1, n)[k] = s[k]
  BY <1>1, <1>2, SubSeqProperties
<1>3. Len(s) - 1 \in Nat
  BY <1>1
<1> QED
  BY <1>1, <1>2, <1>3 DEF Front

\* A sequence with one element more.
LEMMA AppendFacts ==
  ASSUME NEW S, NEW s \in Seq(S), NEW e \in S
  PROVE  /\ Append(s, e) \in Seq(S) /\ Len(Append(s, e)) = Len(s) + 1
         /\ \A k \in 1..Len(s) : Append(s, e)[k] = s[k]
         /\ Append(s, e)[Len(s) + 1] = e
BY AppendProperties

\* A sequence with another last element.
LEMMA RestFacts ==
  ASSUME NEW S, NEW s \in Seq(S), s # <<>>, NEW e \in S
  PROVE  /\ Front(s) \o <<e>> \in Seq(S) /\ Len(Front(s) \o <<e>>) = Len(s)
         /\ \A k \in 1..(Len(s) - 1) : (Front(s) \o <<e>>)[k] = s[k]
         /\ (Front(s) \o <<e>>)[Len(s)] = e
<1>1. /\ Len(s) \in Nat \ {0} /\ Front(s) \in Seq(S) /\ Len(Front(s)) = Len(s) - 1
      /\ \A k \in 1..(Len(s) - 1) : Front(s)[k] = s[k]
  BY FrontFacts
<1>2. Front(s) \o <<e>> = Append(Front(s), e)
  BY <1>1, AppendIsConcat
<1> QED
  BY <1>1, <1>2, AppendFacts

\* The members of a sequence, of a prefix of it, and of it with one more.
LEMMA ToSetFacts ==
  ASSUME NEW S, NEW s \in Seq(S)
  PROVE  /\ ToSet(s) = {s[i] : i \in 1..Len(s)}
         /\ \A i \in 1..(Len(s) + 1) : ToSet(SubSeq(s, 1, i - 1)) = {s[j] : j \in 1..(i - 1)}
         /\ \A e \in S : ToSet(Append(s, e)) = ToSet(s) \cup {e}
<1>1. Len(s) \in Nat /\ DOMAIN s = 1..Len(s)
  BY LenProperties
<1>2. ToSet(s) = {s[i] : i \in 1..Len(s)}
  BY <1>1 DEF ToSet
<1>3. ASSUME NEW i \in 1..(Len(s) + 1)
      PROVE  ToSet(SubSeq(s, 1, i - 1)) = {s[j] : j \in 1..(i - 1)}
  <2> DEFINE t == SubSeq(s, 1, i - 1)
  <2>1. /\ t \in Seq(S) /\ Len(t) = i - 1
        /\ \A j \in 1..(i - 1) : t[j] = s[j]
    BY <1>1, SubSeqProperties
  <2>2. DOMAIN t = 1..(i - 1)
    BY <2>1, LenProperties
  <2> HIDE DEF t
  <2>3. ToSet(t) = {s[j] : j \in 1..(i - 1)}
    BY <2>1, <2>2 DEF ToSet
  <2> QED
    BY <2>3 DEF t
<1>4. ASSUME NEW e \in S
      PROVE  ToSet(Append(s, e)) = ToSet(s) \cup {e}
  <2> DEFINE t == Append(s, e)
  <2>1. /\ t \in Seq(S) /\ Len(t) = Len(s) + 1
        /\ \A k \in 1..Len(s) : t[k] = s[k]
        /\ t[Len(s) + 1] = e
    BY AppendFacts
  <2>2. DOMAIN t = 1..(Len(s) + 1)
    BY <2>1, LenProperties
  <2> HIDE DEF t
  <2>3. ToSet(t) = ToSet(s) \cup {e}
    BY <1>1, <2>1, <2>2 DEF ToSet
  <2> QED
    BY <2>3 DEF t
<1> QED
  BY <1>2, <1>3, <1>4

\* Concatenation: the members are those of both parts.
LEMMA ConcatFacts ==
  ASSUME NEW S, NEW a \in Seq(S), NEW b \in Seq(S)
  PROVE  /\ a \o b \in Seq(S)
         /\ ToSet(a \o b) = ToSet(a) \cup ToSet(b)
<1>1. /\ a \o b \in Seq(S) /\ Len(a \o b) = Len(a) + Len(b)
      /\ Len(a) \in Nat /\ Len(b) \in Nat
      /\ DOMAIN a = 1..Len(a) /\ DOMAIN b = 1..Len(b) /\ DOMAIN (a \o b) = 1..(Len(a) + Len(b))
      /\ \A i \in 1..(Len(a) + Len(b)) : (a \o b)[i] = IF i <= Len(a) THEN a[i] ELSE b[i - Len(a)]
  BY ConcatProperties, LenProperties
<1> DEFINE m == Len(a)  n == Len(b)  c == a \o b
<1> HIDE DEF m, n, c
<1>2. ASSUME NEW i \in 1..(m + n)
      PROVE  (i \in 1..m /\ c[i] = a[i]) \/ (i - m \in 1..n /\ c[i] = b[i - m])
  BY <1>1 DEF m, n, c
<1>3. ASSUME NEW i \in 1..m
      PROVE  i \in 1..(m + n) /\ c[i] = a[i]
  BY <1>1 DEF m, n, c
<1>4. ASSUME NEW i \in 1..n
      PROVE  i + m \in 1..(m + n) /\ c[i + m] = b[i]
  <2>1. i + m \in 1..(m + n) /\ ~(i + m <= m) /\ (i + m) - m = i
    BY <1>1 DEF m, n
  <2> QED
    BY <1>1, <2>1 DEF m, n, c
<1>5. DOMAIN a = 1..m /\ DOMAIN b = 1..n /\ DOMAIN c = 1..(m + n)
  BY <1>1 DEF m, n, c
<1>6. ToSet(c) = ToSet(a) \cup ToSet(b)
  <2>1. ASSUME NEW x \in ToSet(c) PROVE x \in ToSet(a) \cup ToSet(b)
    BY <1>2, <1>5 DEF ToSet
  <2>2. ASSUME NEW x \in ToSet(a) PROVE x \in ToSet(c)
    BY <1>3, <1>5 DEF ToSet
  <2>3. ASSUME NEW x \in ToSet(b) PROVE x \in ToSet(c)
    BY <1>4, <1>5 DEF ToSet
  <2> QED
    BY <2>1, <2>2, <2>3
<1> QED
  BY <1>1, <1>6 DEF c

\* A sequence is empty when it has no members.
LEMMA EmptyToSet ==
  ASSUME NEW S, NEW s \in Seq(S)
  PROVE  s = <<>> <=> ToSet(s) = {}
<1>1. Len(s) \in Nat /\ DOMAIN s = 1..Len(s)
  BY LenProperties
<1>2. s = <<>> <=> Len(s) = 0
  BY EmptySeq
<1>3. CASE Len(s) = 0
  <2>1. DOMAIN s = {}
    BY <1>1, <1>3
  <2> QED
    BY <1>2, <1>3, <2>1 DEF ToSet
<1>4. CASE Len(s) # 0
  <2>1. s[1] \in ToSet(s)
    BY <1>1, <1>4 DEF ToSet
  <2> QED
    BY <1>2, <1>4, <2>1
<1> QED
  BY <1>3, <1>4

-----------------------------------------------------------------------------
(* FlattenSeq *)

\* Appending up to index m, as a function of the index.
Joins(g, s, m) == g = [i \in 1..m |-> IF i = 1 THEN s[i] ELSE g[i-1] \o s[i]]

\* The recursion of FlattenSeq has a solution: the shortest prefix without one would
\* be one step longer than a prefix with one.
LEMMA JoinsExists ==
  ASSUME NEW s, NEW n \in Nat
  PROVE  \E g : Joins(g, s, n)
<1> DEFINE Bad == {m \in Nat : ~\E g : Joins(g, s, m)}
<1> SUFFICES Bad = {}
  OBVIOUS
<1> SUFFICES ASSUME Bad # {} PROVE FALSE
  OBVIOUS
<1>1. PICK m \in Bad : \A k \in Bad : m <= k
  BY LeastNatural
<1>2. m \in Nat /\ ~\E g : Joins(g, s, m)
  BY <1>1
<1>3. m # 0
  <2>1. Joins([i \in 1..0 |-> <<>>], s, 0)
    BY DEF Joins
  <2> QED
    BY <1>2, <2>1
<1>4. m - 1 \in Nat /\ m - 1 \notin Bad
  BY <1>1, <1>2, <1>3
<1>5. PICK g : Joins(g, s, m - 1)
  BY <1>4
<1> DEFINE h == [i \in 1..m |-> IF i = m THEN IF m = 1 THEN s[m] ELSE g[m - 1] \o s[m] ELSE g[i]]
<1>6. ASSUME NEW i \in 1..m
      PROVE  h[i] = IF i = 1 THEN s[i] ELSE h[i-1] \o s[i]
  <2>1. CASE i = m
    BY <1>2, <2>1
  <2>2. CASE i # m
    <3>1. i \in 1..(m - 1) /\ (i # 1 => i - 1 \in 1..m /\ i - 1 # m)
      BY <1>2, <2>2
    <3>2. g[i] = IF i = 1 THEN s[i] ELSE g[i-1] \o s[i]
      BY <1>5, <3>1 DEF Joins
    <3>3. h[i] = g[i] /\ (i # 1 => h[i-1] = g[i-1])
      BY <2>2, <3>1
    <3> QED
      BY <3>2, <3>3
  <2> QED
    BY <2>1, <2>2
<1>7. Joins(h, s, m)
  <2> HIDE DEF h
  <2>1. h = [i \in 1..m |-> h[i]]
    BY DEF h
  <2> QED
    BY <1>6, <2>1, Zenon DEF Joins
<1> QED
  BY <1>2, <1>7

\* FlattenSeq is the last value of that recursion.
LEMMA FlattenUnfolds ==
  ASSUME NEW s, Len(s) \in Nat, Len(s) # 0
  PROVE  \E g : Joins(g, s, Len(s)) /\ FlattenSeq(s) = g[Len(s)]
<1> DEFINE J == CHOOSE g : g = [i \in 1..Len(s) |-> IF i = 1 THEN s[i] ELSE g[i-1] \o s[i]]
<1>1. \E g : g = [i \in 1..Len(s) |-> IF i = 1 THEN s[i] ELSE g[i-1] \o s[i]]
  BY JoinsExists, Zenon DEF Joins
<1>2. Joins(J, s, Len(s))
  BY <1>1, Zenon DEF Joins
<1>3. FlattenSeq(s) = J[Len(s)]
  BY Zenon DEF FlattenSeq
<1> QED
  BY <1>2, <1>3, Zenon


\* FlattenSeq: the members of the parts.  The shortest prefix for which this fails
\* would be one step longer than one for which it holds.
LEMMA FlattenFacts ==
  ASSUME NEW S, NEW s \in Seq(Seq(S))
  PROVE  /\ FlattenSeq(s) \in Seq(S)
         /\ \A x : x \in ToSet(FlattenSeq(s)) <=> \E i \in DOMAIN s : x \in ToSet(s[i])
<1>1. /\ Len(s) \in Nat /\ DOMAIN s = 1..Len(s)
      /\ \A i \in 1..Len(s) : s[i] \in Seq(S)
  BY LenProperties, ElementOfSeq
<1>2. CASE Len(s) = 0
  <2>1. s = <<>> /\ FlattenSeq(s) = s
    BY <1>2, EmptySeq DEF FlattenSeq
  <2>2. DOMAIN s = {} /\ FlattenSeq(s) = <<>>
    BY <1>1, <1>2, <2>1
  <2>3. ToSet(FlattenSeq(s)) = {} /\ FlattenSeq(s) \in Seq(S)
    BY <2>2, EmptySeq DEF ToSet
  <2> QED
    BY <2>2, <2>3
<1>3. CASE Len(s) # 0
  <2>1. PICK g : Joins(g, s, Len(s)) /\ FlattenSeq(s) = g[Len(s)]
    BY <1>1, <1>3, FlattenUnfolds
  <2> DEFINE n == Len(s)
             Good(k) == /\ g[k] \in Seq(S)
                        /\ \A x : x \in ToSet(g[k]) <=> \E i \in 1..k : x \in ToSet(s[i])
             Bad == {k \in 1..n : ~Good(k)}
  <2>2. Bad = {}
    <3> SUFFICES ASSUME Bad # {} PROVE FALSE
      OBVIOUS
    <3>1. Bad \in SUBSET Nat
      BY <1>1
    <3>2. PICK k \in Bad : \A l \in Bad : k <= l
      <4> HIDE DEF Bad
      <4> QED
        BY <3>1, LeastNatural
    <3>3. k \in 1..n /\ ~Good(k)
      BY <3>2
    <3>4. g[k] = IF k = 1 THEN s[k] ELSE g[k-1] \o s[k]
      BY <2>1, <3>3 DEF Joins
    <3>5. s[k] \in Seq(S)
      BY <1>1, <3>3
    <3>6. CASE k = 1
      BY <3>3, <3>4, <3>5, <3>6
    <3>7. CASE k # 1
      <4>1. k - 1 \in 1..n /\ ~(k <= k - 1)
        BY <1>1, <3>3, <3>7
      <4>2. Good(k - 1)
        BY <3>2, <4>1
      <4>3. /\ g[k] \in Seq(S) /\ ToSet(g[k]) = ToSet(g[k - 1]) \cup ToSet(s[k])
        BY <3>4, <3>5, <3>7, <4>2, ConcatFacts
      <4>4. \A i : i \in 1..k <=> i \in 1..(k - 1) \/ i = k
        BY <1>1, <3>3, <3>7
      <4>5. ASSUME NEW x
            PROVE  x \in ToSet(g[k]) <=> \E i \in 1..k : x \in ToSet(s[i])
        <5>1. x \in ToSet(g[k]) <=> x \in ToSet(g[k - 1]) \/ x \in ToSet(s[k])
          BY <4>3
        <5>2. x \in ToSet(g[k - 1]) <=> \E i \in 1..(k - 1) : x \in ToSet(s[i])
          BY <4>2
        <5> QED
          BY <4>4, <5>1, <5>2, Zenon
      <4> QED
        BY <3>3, <4>3, <4>5
    <3> QED
      BY <3>6, <3>7
  <2>3. n \in 1..n
    BY <1>1, <1>3
  <2>4. Good(n)
    BY <2>2, <2>3
  <2> HIDE DEF Bad
  <2> QED
    BY <1>1, <2>1, <2>4
<1> QED
  BY <1>2, <1>3
=============================================================================
