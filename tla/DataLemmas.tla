----------------------------- MODULE DataLemmas -----------------------------
(***************************************************************************)
(* Least and greatest elements and induction, for sets of natural numbers, *)
(* and what taking an element out of a list or putting one in makes of it. *)
(* The facts are stated about sets, not about operators, so that a proof   *)
(* can use them for the set of all numbers of which something is true.     *)
(***************************************************************************)
EXTENDS Integers, SequencesExt, TLAPS, WellFoundedInduction, SequenceTheorems

\* A set of natural numbers that is not empty has a least element.
LEMMA NatLeast ==
  ASSUME NEW S, S \subseteq Nat, S # {}
  PROVE  \E m \in S : \A n \in S : m <= n
<1>1. PICK m \in S : \A n \in S : ~(<<n, m>> \in OpToRel(<, Nat))
  BY WFMin, NatLessThanWellFounded
<1>2. \A n \in S : ~(n < m)
  BY <1>1 DEF OpToRel
<1> QED BY <1>2

\* A set of natural numbers that is not empty and bounded has a greatest element.
LEMMA NatGreatest ==
  ASSUME NEW S, NEW k \in Nat, S \subseteq 0..k, S # {}
  PROVE  \E m \in S : \A n \in S : n <= m
<1> DEFINE T == { k - n : n \in S }
<1>1. T \subseteq Nat /\ T # {}
  <2>1. \A n \in S : k - n \in Nat
    OBVIOUS
  <2>2. PICK s \in S : TRUE
    OBVIOUS
  <2>3. k - s \in T
    BY <2>2
  <2> QED BY <2>1, <2>3
<1>2. PICK t \in T : \A n \in T : t <= n
  BY <1>1, NatLeast
<1>3. PICK m \in S : t = k - m
  BY <1>2
<1>4. \A n \in S : k - m <= k - n
  BY <1>2, <1>3
<1> QED BY <1>3, <1>4

\* Min and Max are what their names say.
LEMMA MinIsLeast ==
  ASSUME NEW S, S \subseteq Nat, S # {}
  PROVE  Min(S) \in S /\ \A n \in S : Min(S) <= n
  BY NatLeast DEF Min

\* The greatest one, if there is a bound.
LEMMA MaxIsGreatest ==
  ASSUME NEW S, NEW k \in Nat, S \subseteq 0..k, S # {}
  PROVE  Max(S) \in S /\ \A n \in S : n <= Max(S)
<1>1. PICK m \in S : \A n \in S : m >= n
  BY NatGreatest
<1> QED BY <1>1 DEF Max

\* Induction: a set with 0 and the successor of each of its members has them all.
LEMMA SetInduction ==
  ASSUME NEW S, 0 \in S, \A n \in Nat : n \in S => n + 1 \in S
  PROVE  \A n \in Nat : n \in S
<1> SUFFICES ASSUME Nat \ S # {} PROVE FALSE
  OBVIOUS
<1>1. PICK m \in Nat \ S : \A n \in Nat \ S : m <= n
  BY NatLeast
<1>2. m - 1 \in Nat /\ m - 1 \in S
  BY <1>1
<1> QED BY <1>1, <1>2

\* A loop of n turns, the j-th of which takes x to G[<<j, x>>], all of them in S.
\* The recursive function exists, and every value of it is in S.
Loop(f, n, d, G) == f = [j \in 0..n |-> IF j = 0 THEN d ELSE G[<<j, f[j - 1]>>]]

\* Such a function exists.
LEMMA LoopExists ==
  ASSUME NEW n \in Nat, NEW S, NEW d \in S, NEW G,
         \A j \in 1..n, x \in S : G[<<j, x>>] \in S
  PROVE  \E f : Loop(f, n, d, G) /\ \A j \in 0..n : f[j] \in S
<1> DEFINE Fits(m, f) == Loop(f, m, d, G) /\ \A j \in 0..m : f[j] \in S
           M == { m \in Nat : m <= n => \E f : Fits(m, f) }
<1>1. 0 \in M
  <2>1. PICK f : f = [j \in 0..0 |-> d]
    OBVIOUS
  <2>2. Loop(f, 0, d, G)
    BY <2>1 DEF Loop
  <2>3. \A j \in 0..0 : f[j] \in S
    BY <2>1
  <2> QED BY <2>2, <2>3
<1>2. ASSUME NEW m \in Nat, m \in M PROVE m + 1 \in M
  <2> SUFFICES ASSUME m + 1 <= n PROVE \E f : Fits(m + 1, f)
    OBVIOUS
  <2>1. PICK f : Fits(m, f)
    BY <1>2
  <2>2. PICK g : g = [j \in 0..(m + 1) |-> IF j = m + 1 THEN G[<<m + 1, f[m]>>] ELSE f[j]]
    OBVIOUS
  <2>3. \A j \in 0..m : g[j] = f[j]
    BY <2>2
  <2>4. f[m] \in S /\ G[<<m + 1, f[m]>>] \in S /\ g[m + 1] = G[<<m + 1, f[m]>>]
    BY <2>1, <2>2
  <2>5. \A j \in 0..(m + 1) : g[j] \in S
    <3> SUFFICES ASSUME NEW j \in 0..(m + 1) PROVE g[j] \in S
      OBVIOUS
    <3>1. j = m + 1 \/ j \in 0..m
      OBVIOUS
    <3> QED BY <2>1, <2>3, <2>4, <3>1
  <2>6. ASSUME NEW j \in 0..(m + 1)
        PROVE  g[j] = IF j = 0 THEN d ELSE G[<<j, g[j - 1]>>]
    <3>1. CASE j = m + 1
      <4>1. j - 1 = m /\ j # 0 /\ m \in 0..m
        BY <3>1
      <4> QED BY <2>3, <2>4, <3>1, <4>1
    <3>2. CASE j # m + 1
      <4>1. j \in 0..m
        BY <3>2
      <4>2. f[j] = IF j = 0 THEN d ELSE G[<<j, f[j - 1]>>]
        BY <2>1, <4>1 DEF Loop
      <4>3. j # 0 => j - 1 \in 0..m
        BY <4>1
      <4> QED BY <2>3, <4>1, <4>2, <4>3
    <3> QED BY <3>1, <3>2
  <2>7. Loop(g, m + 1, d, G)
    <3>1. g = [j \in 0..(m + 1) |-> g[j]]
      BY <2>2
    <3> QED BY <2>6, <3>1 DEF Loop
  <2> QED BY <2>5, <2>7
<1> HIDE DEF M
<1>3. \A m \in Nat : m \in M
  BY <1>1, <1>2, SetInduction
<1> QED BY <1>3 DEF M

-----------------------------------------------------------------------------
\* What is left of a list when one element is taken out.
LEMMA RemoveAtFacts ==
  ASSUME NEW S, NEW s \in Seq(S), NEW p \in 1..Len(s)
  PROVE  /\ RemoveAt(s, p) \in Seq(S)
         /\ Len(RemoveAt(s, p)) = Len(s) - 1
         /\ \A i \in 1..(Len(s) - 1) : RemoveAt(s, p)[i] = IF i < p THEN s[i] ELSE s[i + 1]
<1> DEFINE a == SubSeq(s, 1, p - 1)
           b == SubSeq(s, p + 1, Len(s))
<1>1. a \in Seq(S) /\ Len(a) = p - 1 /\ \A i \in 1..(p - 1) : a[i] = s[i]
  OBVIOUS
<1>2. b \in Seq(S) /\ Len(b) = Len(s) - p /\ \A i \in 1..(Len(s) - p) : b[i] = s[i + p]
  OBVIOUS
<1>3. RemoveAt(s, p) = a \o b
  BY DEF RemoveAt
<1> HIDE DEF a, b
<1>4. a \o b \in Seq(S) /\ Len(a \o b) = Len(s) - 1
  <2>1. a \o b \in Seq(S) /\ Len(a \o b) = Len(a) + Len(b)
    BY <1>1, <1>2, ConcatProperties
  <2> QED BY <1>1, <1>2, <2>1
<1>5. ASSUME NEW i \in 1..(Len(s) - 1)
      PROVE  (a \o b)[i] = IF i < p THEN s[i] ELSE s[i + 1]
  BY <1>1, <1>2
<1> QED BY <1>3, <1>4, <1>5

\* A list with one element more.
LEMMA InsertAtFacts ==
  ASSUME NEW S, NEW s \in Seq(S), NEW p \in 1..(Len(s) + 1), NEW e \in S
  PROVE  /\ InsertAt(s, p, e) \in Seq(S)
         /\ Len(InsertAt(s, p, e)) = Len(s) + 1
         /\ \A i \in 1..(Len(s) + 1) :
              InsertAt(s, p, e)[i] = IF i < p THEN s[i] ELSE IF i = p THEN e ELSE s[i - 1]
<1> DEFINE a == SubSeq(s, 1, p - 1)
           b == SubSeq(s, p, Len(s))
           c == a \o <<e>>
<1>1. a \in Seq(S) /\ Len(a) = p - 1 /\ \A i \in 1..(p - 1) : a[i] = s[i]
  OBVIOUS
<1>2. b \in Seq(S) /\ Len(b) = Len(s) + 1 - p /\ \A i \in 1..(Len(s) + 1 - p) : b[i] = s[i + p - 1]
  OBVIOUS
<1>3. InsertAt(s, p, e) = c \o b
  BY DEF InsertAt
<1> HIDE DEF a, b
<1>4. c \in Seq(S) /\ Len(c) = p /\ \A i \in 1..p : c[i] = IF i < p THEN s[i] ELSE e
  <2>1. <<e>> \in Seq(S) /\ Len(<<e>>) = 1 /\ <<e>>[1] = e
    OBVIOUS
  <2>2. c \in Seq(S) /\ Len(c) = Len(a) + 1
        /\ \A i \in 1..(Len(a) + 1) : c[i] = IF i <= Len(a) THEN a[i] ELSE <<e>>[i - Len(a)]
    BY <1>1, <2>1, ConcatProperties
  <2> HIDE DEF c
  <2> QED BY <1>1, <2>1, <2>2
<1> HIDE DEF c
<1>5. c \o b \in Seq(S) /\ Len(c \o b) = Len(s) + 1
  <2>1. c \o b \in Seq(S) /\ Len(c \o b) = Len(c) + Len(b)
    BY <1>2, <1>4, ConcatProperties
  <2> QED BY <1>2, <1>4, <2>1
<1>6. ASSUME NEW i \in 1..(Len(s) + 1)
      PROVE  (c \o b)[i] = IF i < p THEN s[i] ELSE IF i = p THEN e ELSE s[i - 1]
  BY <1>2, <1>4
<1> QED BY <1>3, <1>5, <1>6
=============================================================================
