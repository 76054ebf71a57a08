----------------------------- MODULE ListLemmas ------------------------------
(***************************************************************************)
(* Induction over the natural numbers, what it shows of Filter, and what   *)
(* RemoveAt does.                                                          *)
(*                                                                         *)
(* The induction theorems of the library have an operator as parameter;    *)
(* here the numbers for which a formula holds are a set.                   *)
(***************************************************************************)
EXTENDS Lists, FiniteSets, SequencesExt, NaturalsInduction, WellFoundedInduction, SequenceTheorems, TLAPS

-----------------------------------------------------------------------------
\* Every set of natural numbers has a least element.
LEMMA LeastElement ==
  ASSUME NEW T \in SUBSET Nat, T # {}
  PROVE  \E n \in T : \A m \in T : n <= m
<1>1. T \subseteq Nat
  OBVIOUS
<1>2. PICK x \in T : \A y \in T : <<y, x>> \notin OpToRel(<, Nat)
  BY <1>1, WFMin, NatLessThanWellFounded, Zenon
<1>3. \A y \in T : ~ (y < x)
  BY <1>1, <1>2, Zenon DEF OpToRel
<1> QED BY <1>3

\* Induction over the natural numbers, as a fact about a set of them.
LEMMA Induction ==
  ASSUME NEW S, 0 \in S, \A n \in Nat : n \in S => n + 1 \in S
  PROVE  \A n \in Nat : n \in S
<1> SUFFICES ASSUME {n \in Nat : n \notin S} # {} PROVE FALSE
  OBVIOUS
<1>1. PICK n \in {k \in Nat : k \notin S} : \A m \in {k \in Nat : k \notin S} : n <= m
  BY LeastElement
<1>2. n - 1 \in Nat /\ n - 1 \notin {k \in Nat : k \notin S}
  BY <1>1
<1> QED BY <1>1, <1>2

\* Max of a bounded set of natural numbers.
LEMMA MaxElement ==
  ASSUME NEW n \in Nat, NEW T \in SUBSET (1..n), T # {}
  PROVE  Max(T) \in T /\ \A x \in T : x <= Max(T)
<1> DEFINE D == {n - x : x \in T}
<1>1. D \in SUBSET Nat /\ D # {}
  <2>1. \A x \in T : n - x \in Nat
    OBVIOUS
  <2> QED BY <2>1
<1>2. PICK d \in D : \A e \in D : d <= e
  <2> HIDE DEF D
  <2> QED BY <1>1, LeastElement
<1>3. PICK m \in T : d = n - m
  BY <1>2
<1>4. \A x \in T : x <= m
  <2> SUFFICES ASSUME NEW x \in T PROVE x <= m
    OBVIOUS
  <2>1. d <= n - x
    BY <1>2
  <2> QED BY <1>3, <2>1
<1>5. \E k \in T : \A x \in T : k >= x
  BY <1>4
<1>6. Max(T) \in T /\ \A x \in T : Max(T) >= x
  BY <1>5 DEF Max
<1> QED BY <1>6

-----------------------------------------------------------------------------
\* The elements of a sequence, by their places.
LEMMA InRange ==
  ASSUME NEW T, NEW s \in Seq(T), NEW x
  PROVE  x \in Range(s) <=> \E i \in 1..Len(s) : s[i] = x
<1>1. DOMAIN s = 1..Len(s)
  OBVIOUS
<1>2. ASSUME NEW i \in 1..Len(s), s[i] = x PROVE x \in Range(s)
  BY <1>1, <1>2 DEF Range
<1>3. ASSUME x \in Range(s) PROVE \E i \in 1..Len(s) : s[i] = x
  BY <1>1, <1>3 DEF Range
<1> QED BY <1>2, <1>3

LEMMA RangeIn ==
  ASSUME NEW T, NEW s \in Seq(T)
  PROVE  Range(s) \subseteq T
<1> SUFFICES ASSUME NEW x \in Range(s) PROVE x \in T
  OBVIOUS
<1>1. PICK i \in 1..Len(s) : s[i] = x
  BY InRange
<1> QED BY <1>1, ElementOfSeq

\* What Filter computes, entry by entry.
LEMMA FilterTable ==
  ASSUME NEW T, NEW s \in Seq(T), NEW S
  PROVE  \E kept : /\ kept[0] = <<>>
                   /\ \A n \in 1..Len(s) :
                        kept[n] = IF s[n] \in S THEN Append(kept[n - 1], s[n]) ELSE kept[n - 1]
                   /\ Filter(s, S) = kept[Len(s)]
<1> DEFINE Is(kept, n) ==
             kept = [i \in 0..n |->
                       IF i = 0 THEN <<>>
                       ELSE IF s[i] \in S THEN Append(kept[i - 1], s[i]) ELSE kept[i - 1]]
           N == {n \in Nat : \E kept : Is(kept, n)}
<1>1. 0 \in N
  <2> DEFINE k == [i \in 0..0 |-> <<>>]
  <2>1. Is(k, 0)
    OBVIOUS
  <2> QED BY <2>1
<1>2. ASSUME NEW n \in Nat, n \in N PROVE n + 1 \in N
  <2>1. PICK kept : Is(kept, n)
    BY <1>2
  <2> DEFINE k == [i \in 0..(n + 1) |->
                     IF i = n + 1
                       THEN IF s[i] \in S THEN Append(kept[n], s[i]) ELSE kept[n]
                       ELSE kept[i]]
           next(g, i) == IF i = 0 THEN <<>>
                         ELSE IF s[i] \in S THEN Append(g[i - 1], s[i]) ELSE g[i - 1]
  <2>2. \A i \in 0..n : kept[i] = next(kept, i)
    BY <2>1
  <2>3. \A i \in 0..n : k[i] = kept[i]
    OBVIOUS
  <2>4. \A i \in 0..n : k[i] = next(k, i)
    BY <2>2, <2>3
  <2>5. k[n + 1] = next(k, n + 1)
    BY <2>3
  <2>6. k = [i \in 0..(n + 1) |-> k[i]]
    OBVIOUS
  <2> HIDE DEF k, next
  <2>7. \A i \in 0..(n + 1) : k[i] = next(k, i)
    BY <2>4, <2>5
  <2>8. Is(k, n + 1)
    BY <2>6, <2>7 DEF next
  <2> QED BY <2>8
<1>3. Len(s) \in Nat
  OBVIOUS
<1>4. \E kept : Is(kept, Len(s))
  <2> HIDE DEF N
  <2>1. Len(s) \in N
    BY <1>1, <1>2, <1>3, Induction
  <2> QED BY <2>1 DEF N
<1> DEFINE f == CHOOSE kept : Is(kept, Len(s))
<1>5. Is(f, Len(s))
  BY <1>4
<1>6. Filter(s, S) = f[Len(s)]
  BY DEF Filter
<1>7. ASSUME NEW g, g = [i \in 0..Len(s) |-> IF i = 0 THEN <<>>
                         ELSE IF s[i] \in S THEN Append(g[i - 1], s[i]) ELSE g[i - 1]]
      PROVE  /\ g[0] = <<>>
             /\ \A n \in 1..Len(s) : g[n] = IF s[n] \in S THEN Append(g[n - 1], s[n]) ELSE g[n - 1]
  <2> DEFINE e(i) == IF i = 0 THEN <<>>
                     ELSE IF s[i] \in S THEN Append(g[i - 1], s[i]) ELSE g[i - 1]
  <2>1. g = [i \in 0..Len(s) |-> e(i)]
    BY <1>7
  <2>2. \A i \in 0..Len(s) : g[i] = e(i)
    <3> HIDE DEF e
    <3> QED BY <2>1
  <2> QED BY <1>3, <2>2
<1> QED BY <1>5, <1>6, <1>7

\* A filtered sequence has the elements that are in the set and no others.
LEMMA FilterRange ==
  ASSUME NEW T, NEW s \in Seq(T), NEW S
  PROVE  Filter(s, S) \in Seq(T \cap S) /\ Range(Filter(s, S)) = Range(s) \cap S
<1>1. PICK kept : /\ kept[0] = <<>>
                  /\ \A n \in 1..Len(s) :
                       kept[n] = IF s[n] \in S THEN Append(kept[n - 1], s[n]) ELSE kept[n - 1]
                  /\ Filter(s, S) = kept[Len(s)]
  BY FilterTable
<1>2. /\ kept[0] = <<>>
      /\ \A n \in Nat : n + 1 <= Len(s) =>
           kept[n + 1] = IF s[n + 1] \in S THEN Append(kept[n], s[n + 1]) ELSE kept[n]
  BY <1>1
<1> DEFINE U == {x \in T \cap S : \E j \in DOMAIN s : x = s[j]}
           Has(n) == /\ kept[n] \in Seq(U)
                     /\ \A i \in 1..n : s[i] \in S => \E j \in 1..Len(kept[n]) : kept[n][j] = s[i]
           N == {n \in Nat : n <= Len(s) => Has(n)}
<1>3. 0 \in N
  <2> HIDE DEF U
  <2>1. kept[0] \in Seq(U) /\ 1..0 = {}
    BY <1>2, EmptySeq
  <2> QED BY <2>1
<1>4. ASSUME NEW n \in Nat, n \in N PROVE n + 1 \in N
  <2> SUFFICES ASSUME n + 1 <= Len(s) PROVE Has(n + 1)
    OBVIOUS
  <2>1. Has(n) /\ s[n + 1] \in T /\ n + 1 \in DOMAIN s
    BY <1>4
  <2>2. CASE s[n + 1] \notin S
    <3>1. kept[n + 1] = kept[n]
      BY <1>2, <2>2
    <3>2. \A i \in 1..(n + 1) : s[i] \in S => i \in 1..n
      BY <2>2
    <3> HIDE DEF U
    <3> QED BY <2>1, <3>1, <3>2
  <2>3. CASE s[n + 1] \in S
    <3>1. s[n + 1] \in U
      BY <2>1, <2>3
    <3>2. kept[n + 1] = Append(kept[n], s[n + 1]) /\ kept[n] \in Seq(U)
      BY <1>2, <2>1, <2>3
    <3> HIDE DEF U
    <3>3. /\ kept[n + 1] \in Seq(U) /\ Len(kept[n + 1]) = Len(kept[n]) + 1
          /\ kept[n + 1][Len(kept[n]) + 1] = s[n + 1]
          /\ \A j \in 1..Len(kept[n]) : kept[n + 1][j] = kept[n][j]
      BY <3>1, <3>2, AppendProperties
    <3>4. Len(kept[n]) \in Nat
      BY <3>2
    <3>5. ASSUME NEW i \in 1..(n + 1), s[i] \in S
          PROVE  \E j \in 1..Len(kept[n + 1]) : kept[n + 1][j] = s[i]
      <4>1. CASE i = n + 1
        BY <3>3, <3>4, <4>1
      <4>2. CASE i \in 1..n
        <5>1. PICK j \in 1..Len(kept[n]) : kept[n][j] = s[i]
          BY <2>1, <3>5, <4>2
        <5> QED BY <3>3, <3>4, <5>1
      <4> QED BY <4>1, <4>2
    <3> QED BY <3>3, <3>5
  <2> QED BY <2>2, <2>3
<1>5. Has(Len(s))
  <2> HIDE DEF N, Has
  <2>1. Len(s) \in Nat
    OBVIOUS
  <2>2. Len(s) \in N
    BY <1>3, <1>4, <2>1, Induction
  <2> QED BY <2>1, <2>2 DEF N
<1> HIDE DEF U
<1>6. Filter(s, S) \in Seq(U) /\ DOMAIN s = 1..Len(s)
  BY <1>1, <1>5
<1>7. \A i \in 1..Len(Filter(s, S)) : Filter(s, S)[i] \in U
  BY <1>6
<1>8. Filter(s, S) \in Seq(T \cap S)
  BY <1>6, SeqMonotonic DEF U
<1>9. \A j \in 1..Len(Filter(s, S)) :
        Filter(s, S)[j] \in S /\ \E i \in 1..Len(s) : Filter(s, S)[j] = s[i]
  BY <1>6, <1>7 DEF U
<1>10. \A i \in 1..Len(s) : s[i] \in S => \E j \in 1..Len(Filter(s, S)) : Filter(s, S)[j] = s[i]
  BY <1>1, <1>5
<1>11. DOMAIN Filter(s, S) = 1..Len(Filter(s, S)) /\ DOMAIN s = 1..Len(s)
  BY <1>6
<1>12. \A x : x \in Range(Filter(s, S)) <=> x \in Range(s) /\ x \in S
  <2> PICK f : f = Filter(s, S)
    OBVIOUS
  <2>1. /\ \A j \in DOMAIN f : f[j] \in S /\ \E i \in DOMAIN s : f[j] = s[i]
        /\ \A i \in DOMAIN s : s[i] \in S => \E j \in DOMAIN f : f[j] = s[i]
    BY <1>9, <1>10, <1>11
  <2>2. ASSUME NEW x \in Range(f) PROVE x \in Range(s) /\ x \in S
    BY <2>1 DEF Range
  <2>3. ASSUME NEW x \in Range(s), x \in S PROVE x \in Range(f)
    BY <2>1, <2>3 DEF Range
  <2> QED BY <2>2, <2>3
<1>13. Range(Filter(s, S)) = Range(s) \cap S
  BY <1>12
<1> QED BY <1>8, <1>13

-----------------------------------------------------------------------------
\* The elements behind the one that is removed move up.
LEMMA RemoveAtEntries ==
  ASSUME NEW T, NEW s \in Seq(T), NEW i \in 1..Len(s)
  PROVE  /\ RemoveAt(s, i) \in Seq(T) /\ Len(RemoveAt(s, i)) = Len(s) - 1
         /\ \A j \in 1..Len(s) - 1 : RemoveAt(s, i)[j] = IF j < i THEN s[j] ELSE s[j + 1]
<1> DEFINE f == SubSeq(s, 1, i - 1)
           b == SubSeq(s, i + 1, Len(s))
<1>1. Len(s) \in Nat /\ i \in Nat /\ 1 <= i /\ i <= Len(s)
  OBVIOUS
<1>2. f \in Seq(T) /\ Len(f) = i - 1 /\ \A j \in 1..i - 1 : f[j] = s[j]
  <2>1. CASE i = 1
    BY <2>1, SubSeqEmpty, EmptySeq
  <2>2. CASE i # 1
    BY <1>1, <2>2, SubSeqProperties
  <2> QED  BY <2>1, <2>2
<1>3. b \in Seq(T) /\ Len(b) = Len(s) - i /\ \A j \in 1..Len(s) - i : b[j] = s[i + j]
  <2>1. CASE i = Len(s)
    BY <1>1, <2>1, SubSeqEmpty, EmptySeq
  <2>2. CASE i # Len(s)
    BY <1>1, <2>2, SubSeqProperties
  <2> QED  BY <2>1, <2>2
<1>4. RemoveAt(s, i) = f \o b
  BY DEF RemoveAt
<1> HIDE DEF f, b
<1>5. /\ f \o b \in Seq(T) /\ Len(f \o b) = Len(s) - 1
      /\ \A j \in 1..Len(s) - 1 : (f \o b)[j] = IF j <= i - 1 THEN f[j] ELSE b[j - (i - 1)]
  <2>1. Len(f \o b) = Len(f) + Len(b) /\ f \o b \in Seq(T)
        /\ \A j \in 1..Len(f) + Len(b) : (f \o b)[j] = IF j <= Len(f) THEN f[j] ELSE b[j - Len(f)]
    BY <1>2, <1>3, ConcatProperties
  <2>2. Len(f) + Len(b) = Len(s) - 1
    BY <1>1, <1>2, <1>3
  <2> QED  BY <1>2, <2>1, <2>2
<1>6. ASSUME NEW j \in 1..Len(s) - 1
      PROVE  (f \o b)[j] = IF j < i THEN s[j] ELSE s[j + 1]
  <2>1. CASE j < i
    BY <1>1, <1>2, <1>5, <2>1
  <2>2. CASE ~(j < i)
    <3>1. j - (i - 1) \in 1..Len(s) - i /\ i + (j - (i - 1)) = j + 1
      BY <1>1, <2>2
    <3> QED  BY <1>1, <1>3, <1>5, <2>2, <3>1
  <2> QED  BY <2>1, <2>2
<1> QED  BY <1>4, <1>5, <1>6
=============================================================================
