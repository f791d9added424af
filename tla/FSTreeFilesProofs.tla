------------------------- MODULE FSTreeFilesProofs -------------------------
(***************************************************************************)
(* The accounting of the files of a tree, for any number of files, block   *)
(* sizes, buffers, volumes and sequences of calls.  The list operations do *)
(* to the sets of blocks what their names say and keep the lists well      *)
(* formed, and no list ever names a block past the end of its file.  With  *)
(* the bytes left out, every step of append, write, truncate and add_gap,  *)
(* the failing ones included, is a step of FileLayout or leaves the layout *)
(* alone.  The last part is about where a block of a file is in its run,   *)
(* what the operations of the volume do to the blocks, and that a file     *)
(* moved behind the others takes its blocks along; FSTreeContentsProofs    *)
(* goes on from there to the bytes of files.                               *)
(***************************************************************************)
EXTENDS FSTreeFiles, TLAPS, FiniteSetTheorems, SequenceTheorems, DataLemmas

\* The numbers of a region.
LEMMA RegionNumbers ==
  ASSUME NEW r \in Region
  PROVE  /\ r.index \in Nat /\ r.count \in Nat /\ RegionEnd(r) \in Nat
         /\ RegionEnd(r) = r.index + r.count
  BY DEF Region, RegionEnd

\* The blocks of a list are those in its regions.
LEMMA BlocksAre ==
  ASSUME NEW s \in Seq(Region), NEW x
  PROVE  x \in Blocks(s) <=> x \in Nat /\ IsSparse(s, x)
<1>1. ASSUME NEW k \in 1..Len(s)
      PROVE  x \in s[k].index .. RegionEnd(s[k]) - 1 <=> x \in Nat /\ Covers(s[k], x)
  BY RegionNumbers DEF Covers
<1> QED BY <1>1 DEF Blocks, IsSparse

\* t is s with region k replaced by r, with region k taken out, and with r put in
\* as region k.
Replaced(s, t, k, r) ==
  /\ t \in Seq(Region) /\ Len(t) = Len(s) /\ t[k] = r
  /\ \A j \in 1..Len(s) : j # k => t[j] = s[j]
  /\ \A x \in Nat : IsSparse(t, x) <=> \/ Covers(r, x)
                                       \/ \E j \in 1..Len(s) : j # k /\ Covers(s[j], x)

Removed(s, t, k) ==
  /\ t \in Seq(Region) /\ Len(t) = Len(s) - 1
  /\ \A j \in 1..(Len(s) - 1) : t[j] = IF j < k THEN s[j] ELSE s[j + 1]
  /\ \A x \in Nat : IsSparse(t, x) <=> \E j \in 1..Len(s) : j # k /\ Covers(s[j], x)

Inserted(s, t, k, r) ==
  /\ t \in Seq(Region) /\ Len(t) = Len(s) + 1
  /\ \A j \in 1..(Len(s) + 1) : t[j] = IF j < k THEN s[j] ELSE IF j = k THEN r ELSE s[j - 1]
  /\ \A x \in Nat : IsSparse(t, x) <=> Covers(r, x) \/ IsSparse(s, x)

\* One region of a list is replaced.
LEMMA ReplacedFacts ==
  ASSUME NEW s \in Seq(Region), NEW k \in 1..Len(s), NEW r \in Region
  PROVE  Replaced(s, [s EXCEPT ![k] = r], k, r)
<1>1. PICK t : t = [s EXCEPT ![k] = r]
  OBVIOUS
<1>2. t \in Seq(Region) /\ Len(t) = Len(s) /\ t[k] = r
      /\ \A j \in 1..Len(s) : j # k => t[j] = s[j]
  BY <1>1
<1>3. ASSUME NEW x \in Nat
      PROVE  IsSparse(t, x) <=> \/ Covers(r, x)
                                \/ \E j \in 1..Len(s) : j # k /\ Covers(s[j], x)
  BY <1>2 DEF IsSparse
<1>4. Replaced(s, t, k, r)
  BY <1>2, <1>3 DEF Replaced
<1> QED BY <1>1, <1>4

\* A region is taken out of a list.
LEMMA RemovedFacts ==
  ASSUME NEW s \in Seq(Region), NEW k \in 1..Len(s)
  PROVE  Removed(s, RemoveAt(s, k), k)
<1>1. PICK t : t = RemoveAt(s, k)
  OBVIOUS
<1>2. t \in Seq(Region) /\ Len(t) = Len(s) - 1
      /\ \A j \in 1..(Len(s) - 1) : t[j] = IF j < k THEN s[j] ELSE s[j + 1]
  BY <1>1, RemoveAtFacts
<1>3. PICK n \in Nat : n = Len(s)
  OBVIOUS
<1>4. ASSUME NEW x \in Nat, IsSparse(t, x)
      PROVE  \E j \in 1..Len(s) : j # k /\ Covers(s[j], x)
  <2>1. PICK j \in 1..(n - 1) : Covers(t[j], x)
    BY <1>2, <1>3, <1>4 DEF IsSparse
  <2>2. CASE j < k
    BY <1>2, <1>3, <2>1, <2>2
  <2>3. CASE ~(j < k)
    <3>1. j + 1 \in 1..n /\ j + 1 # k /\ t[j] = s[j + 1]
      BY <1>2, <1>3, <2>1, <2>3
    <3> QED BY <1>3, <2>1, <3>1
  <2> QED BY <2>2, <2>3
<1>5. ASSUME NEW x \in Nat, NEW j \in 1..Len(s), j # k, Covers(s[j], x)
      PROVE  IsSparse(t, x)
  <2>1. CASE j < k
    <3>1. j \in 1..Len(t) /\ t[j] = s[j]
      BY <1>2, <1>3, <2>1
    <3> QED BY <1>5, <3>1 DEF IsSparse
  <2>2. CASE ~(j < k)
    <3>1. PICK i \in 1..Len(t) : i = j - 1
      BY <1>2, <1>3, <1>5, <2>2
    <3>2. t[i] = s[j]
      BY <1>2, <1>3, <1>5, <2>2, <3>1
    <3> QED BY <1>5, <3>2 DEF IsSparse
  <2> QED BY <2>1, <2>2
<1>6. Removed(s, t, k)
  BY <1>2, <1>4, <1>5 DEF Removed
<1> QED BY <1>1, <1>6

\* A region is put into a list.
LEMMA InsertedFacts ==
  ASSUME NEW s \in Seq(Region), NEW k \in 1..(Len(s) + 1), NEW r \in Region
  PROVE  Inserted(s, InsertAt(s, k, r), k, r)
<1>1. PICK t : t = InsertAt(s, k, r)
  OBVIOUS
<1>2. t \in Seq(Region) /\ Len(t) = Len(s) + 1
      /\ \A j \in 1..(Len(s) + 1) : t[j] = IF j < k THEN s[j] ELSE IF j = k THEN r ELSE s[j - 1]
  BY <1>1, InsertAtFacts
<1>3. PICK n \in Nat : n = Len(s)
  OBVIOUS
<1>4. ASSUME NEW x \in Nat, IsSparse(t, x), ~Covers(r, x) PROVE IsSparse(s, x)
  <2>1. PICK j \in 1..(n + 1) : Covers(t[j], x)
    BY <1>2, <1>3, <1>4 DEF IsSparse
  <2>2. CASE j < k
    <3>1. j \in 1..n /\ t[j] = s[j]
      BY <1>2, <1>3, <2>2
    <3> QED BY <1>3, <2>1, <3>1 DEF IsSparse
  <2>3. CASE j > k
    <3>1. PICK i \in 1..n : i = j - 1
      BY <1>3, <2>3
    <3>2. t[j] = s[i]
      BY <1>2, <1>3, <2>3, <3>1
    <3> QED BY <1>3, <2>1, <3>1, <3>2 DEF IsSparse
  <2>4. CASE j = k
    BY <1>2, <1>3, <1>4, <2>1, <2>4
  <2> QED BY <2>2, <2>3, <2>4
<1>5. ASSUME NEW x \in Nat, NEW j \in 1..Len(s), Covers(s[j], x)
      PROVE  IsSparse(t, x)
  <2>1. CASE j < k
    <3>1. j \in 1..Len(t) /\ t[j] = s[j]
      BY <1>2, <1>3, <2>1
    <3> QED BY <1>5, <3>1 DEF IsSparse
  <2>2. CASE ~(j < k)
    <3>1. PICK i \in 1..Len(t) : i = j + 1
      BY <1>2, <1>3
    <3>2. t[i] = s[j]
      BY <1>2, <1>3, <2>2, <3>1
    <3> QED BY <1>5, <3>2 DEF IsSparse
  <2> QED BY <2>1, <2>2
<1>6. ASSUME NEW x \in Nat, Covers(r, x) PROVE IsSparse(t, x)
  <2>1. k \in 1..Len(t) /\ t[k] = r
    BY <1>2, <1>3
  <2> QED BY <1>6, <2>1 DEF IsSparse
<1>7. ASSUME NEW x \in Nat, IsSparse(s, x) PROVE IsSparse(t, x)
  BY <1>5, <1>7 DEF IsSparse
<1>8. Inserted(s, t, k, r)
  BY <1>2, <1>4, <1>6, <1>7 DEF Inserted
<1> QED BY <1>1, <1>8

-----------------------------------------------------------------------------
\* What the list operations take and give back.
ListOK(s) == s \in Seq(Region) /\ WellFormed(s)

Reg(i, c) == [index |-> i, count |-> c]

\* A region from its two numbers.
LEMMA RegFacts ==
  ASSUME NEW i \in Nat, NEW c \in Nat
  PROVE  /\ Reg(i, c) \in Region /\ Reg(i, c).index = i /\ Reg(i, c).count = c
         /\ RegionEnd(Reg(i, c)) = i + c
         /\ \A x \in Nat : Covers(Reg(i, c), x) <=> i <= x /\ x < i + c
  BY DEF Reg, Region, RegionEnd, Covers

\* A region gets another length.
Recount(s, k, c) == [s EXCEPT ![k].count = c]

\* That is a region of the list replaced.
LEMMA Recounted ==
  ASSUME NEW s \in Seq(Region), NEW k \in 1..Len(s), NEW c
  PROVE  Recount(s, k, c) = [s EXCEPT ![k] = Reg(s[k].index, c)]
<1>1. s[k] \in Region
  OBVIOUS
<1>2. [s[k] EXCEPT !.count = c] = Reg(s[k].index, c)
  BY <1>1 DEF Region, Reg
<1>3. Recount(s, k, c) = [s EXCEPT ![k] = [s[k] EXCEPT !.count = c]]
  BY DEF Recount
<1> QED BY <1>2, <1>3

\* A list in which region k was replaced is well formed if the new region fits
\* between its neighbours.
LEMMA ReplacedOK ==
  ASSUME NEW s, ListOK(s), NEW k \in 1..Len(s), NEW i \in Nat, NEW c \in Nat \ {0},
         k > 1 => RegionEnd(s[k - 1]) < i,
         k < Len(s) => i + c < s[k + 1].index,
         NEW t, Replaced(s, t, k, Reg(i, c))
  PROVE  ListOK(t)
<1>1. s \in Seq(Region) /\ WellFormed(s)
  BY DEF ListOK
<1>2. Reg(i, c) \in Region /\ Reg(i, c).index = i /\ Reg(i, c).count = c /\ RegionEnd(Reg(i, c)) = i + c
  BY RegFacts
<1>3. t \in Seq(Region) /\ Len(t) = Len(s) /\ t[k] = Reg(i, c)
      /\ \A j \in 1..Len(s) : j # k => t[j] = s[j]
  BY DEF Replaced
<1>4. PICK n \in Nat : n = Len(s)
  BY <1>1
<1>5. \A j \in 1..n : t[j].count > 0
  BY <1>1, <1>2, <1>3, <1>4 DEF WellFormed
<1>6. ASSUME NEW j \in 1..(n - 1) PROVE RegionEnd(t[j]) < t[j + 1].index
  <2>1. j \in 1..n /\ j + 1 \in 1..n
    OBVIOUS
  <2>2. CASE j = k
    BY <1>2, <1>3, <1>4, <2>1, <2>2
  <2>3. CASE j + 1 = k
    <3>1. j = k - 1 /\ k > 1
      BY <2>3
    <3> QED BY <1>2, <1>3, <1>4, <2>1, <2>3, <3>1
  <2>4. CASE j # k /\ j + 1 # k
    BY <1>1, <1>3, <1>4, <2>1, <2>4 DEF WellFormed
  <2> QED BY <2>2, <2>3, <2>4
<1> QED BY <1>3, <1>4, <1>5, <1>6 DEF ListOK, WellFormed

\* A list without one of its regions is well formed.
LEMMA RemovedOK ==
  ASSUME NEW s, ListOK(s), NEW k \in 1..Len(s), NEW t, Removed(s, t, k)
  PROVE  ListOK(t)
<1>1. s \in Seq(Region) /\ WellFormed(s)
  BY DEF ListOK
<1>2. PICK n \in Nat : n = Len(s)
  BY <1>1
<1>3. \A j \in 1..n : s[j] \in Region /\ s[j].index \in Nat /\ RegionEnd(s[j]) \in Nat
                      /\ s[j].index <= RegionEnd(s[j])
  BY <1>1, <1>2, RegionNumbers
<1>4. t \in Seq(Region) /\ Len(t) = n - 1
      /\ \A j \in 1..(n - 1) : t[j] = IF j < k THEN s[j] ELSE s[j + 1]
  BY <1>2 DEF Removed
<1>5. ASSUME NEW j \in 1..(n - 1) PROVE t[j].count > 0
  <2>1. j \in 1..n /\ j + 1 \in 1..n
    OBVIOUS
  <2> QED BY <1>1, <1>2, <1>4, <2>1 DEF WellFormed
<1>6. ASSUME NEW j \in 1..((n - 1) - 1) PROVE RegionEnd(t[j]) < t[j + 1].index
  <2>1. j \in 1..(n - 1) /\ j + 1 \in 1..(n - 1) /\ j + 2 \in 1..n /\ (j + 1) + 1 = j + 2
    OBVIOUS
  <2>2. /\ RegionEnd(s[j]) < s[j + 1].index
        /\ RegionEnd(s[j + 1]) < s[j + 2].index
    BY <1>1, <1>2, <2>1 DEF WellFormed
  <2>3. s[j + 1].index <= RegionEnd(s[j + 1]) /\ s[j + 1].index \in Nat /\ s[j + 2].index \in Nat
        /\ RegionEnd(s[j]) \in Nat /\ RegionEnd(s[j + 1]) \in Nat
    BY <1>3, <2>1
  <2>4. RegionEnd(s[j]) < s[j + 2].index
    BY <2>2, <2>3
  <2>5. CASE j + 1 < k
    BY <1>4, <2>1, <2>2, <2>5
  <2>6. CASE j + 1 = k
    BY <1>4, <2>1, <2>4, <2>6
  <2>7. CASE j >= k
    <3>1. ~(j < k) /\ ~(j + 1 < k)
      BY <2>7
    <3> QED BY <1>4, <2>1, <2>2, <3>1
  <2> QED BY <2>5, <2>6, <2>7
<1> QED BY <1>4, <1>5, <1>6 DEF ListOK, WellFormed

\* A list with one more region is well formed if that fits between its neighbours.
LEMMA InsertedOK ==
  ASSUME NEW s, ListOK(s), NEW k \in 1..(Len(s) + 1), NEW i \in Nat, NEW c \in Nat \ {0},
         k > 1 => RegionEnd(s[k - 1]) < i,
         k <= Len(s) => i + c < s[k].index,
         NEW t, Inserted(s, t, k, Reg(i, c))
  PROVE  ListOK(t)
<1>1. s \in Seq(Region) /\ WellFormed(s)
  BY DEF ListOK
<1>2. Reg(i, c) \in Region /\ Reg(i, c).index = i /\ Reg(i, c).count = c /\ RegionEnd(Reg(i, c)) = i + c
  BY RegFacts
<1>3. PICK n \in Nat : n = Len(s)
  BY <1>1
<1>4. t \in Seq(Region) /\ Len(t) = n + 1
      /\ \A j \in 1..(n + 1) : t[j] = IF j < k THEN s[j] ELSE IF j = k THEN Reg(i, c) ELSE s[j - 1]
  BY <1>3 DEF Inserted
<1>5. ASSUME NEW j \in 1..(n + 1) PROVE t[j].count > 0
  <2>1. CASE j < k
    <3>1. j \in 1..n
      BY <1>3, <2>1
    <3> QED BY <1>1, <1>3, <1>4, <2>1, <3>1 DEF WellFormed
  <2>2. CASE j = k
    BY <1>2, <1>4, <2>2
  <2>3. CASE j > k
    <3>1. j - 1 \in 1..n /\ t[j] = s[j - 1]
      BY <1>3, <1>4, <2>3
    <3> QED BY <1>1, <1>3, <3>1 DEF WellFormed
  <2> QED BY <2>1, <2>2, <2>3
<1>6. ASSUME NEW j \in 1..((n + 1) - 1) PROVE RegionEnd(t[j]) < t[j + 1].index
  <2>1. j \in 1..(n + 1) /\ j + 1 \in 1..(n + 1) /\ j \in 1..n /\ (j + 1) - 1 = j
    OBVIOUS
  <2>2. CASE j + 1 < k
    <3>1. j \in 1..(n - 1) /\ t[j] = s[j] /\ t[j + 1] = s[j + 1]
      BY <1>3, <1>4, <2>1, <2>2
    <3> QED BY <1>1, <1>3, <3>1 DEF WellFormed
  <2>3. CASE j + 1 = k
    <3>1. t[j] = s[k - 1] /\ t[j + 1] = Reg(i, c) /\ k > 1
      BY <1>4, <2>1, <2>3
    <3> QED BY <1>2, <3>1
  <2>4. CASE j = k
    <3>1. t[j] = Reg(i, c) /\ t[j + 1] = s[k] /\ k <= Len(s)
      BY <1>3, <1>4, <2>1, <2>4
    <3> QED BY <1>2, <3>1
  <2>5. CASE j > k
    <3>1. PICK h \in 1..(n - 1) : h = j - 1
      BY <2>5
    <3>2. t[j] = s[h] /\ t[j + 1] = s[h + 1]
      BY <1>4, <2>1, <2>5, <3>1
    <3> QED BY <1>1, <1>3, <3>1, <3>2 DEF WellFormed
  <2> QED BY <2>2, <2>3, <2>4, <2>5
<1> QED BY <1>4, <1>5, <1>6 DEF ListOK, WellFormed

-----------------------------------------------------------------------------
\* t is s with block i in it, s without block i, and s up to block n.
WithBlock(s, t, i) == ListOK(t) /\ \A x \in Nat : IsSparse(t, x) <=> IsSparse(s, x) \/ x = i
WithoutBlock(s, t, i) == ListOK(t) /\ \A x \in Nat : IsSparse(t, x) <=> IsSparse(s, x) /\ x # i
UpToBlock(s, t, n) == ListOK(t) /\ \A x \in Nat : IsSparse(t, x) <=> IsSparse(s, x) /\ x < n

\* The numbers in a well formed list.
LEMMA ListNumbers ==
  ASSUME NEW s, ListOK(s), NEW k \in 1..Len(s)
  PROVE  /\ s \in Seq(Region) /\ Len(s) \in Nat /\ s[k] \in Region
         /\ s[k].index \in Nat /\ s[k].count \in Nat \ {0}
         /\ RegionEnd(s[k]) \in Nat /\ RegionEnd(s[k]) = s[k].index + s[k].count
         /\ \A x \in Nat : Covers(s[k], x) <=> s[k].index <= x /\ x < s[k].index + s[k].count
         /\ k < Len(s) => /\ k + 1 \in 1..Len(s) /\ RegionEnd(s[k]) < s[k + 1].index
                          /\ s[k + 1].index \in Nat /\ s[k + 1].count \in Nat \ {0}
         /\ k > 1 => /\ k - 1 \in 1..Len(s) /\ RegionEnd(s[k - 1]) < s[k].index
                     /\ RegionEnd(s[k - 1]) \in Nat
<1>1. s \in Seq(Region) /\ WellFormed(s) /\ Len(s) \in Nat
  BY DEF ListOK
<1>2. \A j \in 1..Len(s) : s[j] \in Region /\ s[j].count > 0
  BY <1>1 DEF WellFormed
<1>3. \A j \in 1..Len(s) : s[j].index \in Nat /\ s[j].count \in Nat \ {0}
                           /\ RegionEnd(s[j]) \in Nat /\ RegionEnd(s[j]) = s[j].index + s[j].count
  BY <1>2, RegionNumbers
<1>4. \A x \in Nat : Covers(s[k], x) <=> s[k].index <= x /\ x < s[k].index + s[k].count
  BY <1>3 DEF Covers
<1>5. k < Len(s) => k + 1 \in 1..Len(s) /\ RegionEnd(s[k]) < s[k + 1].index
  BY <1>1 DEF WellFormed
<1>6. k > 1 => k - 1 \in 1..Len(s) /\ RegionEnd(s[k - 1]) < s[k].index
  <2> SUFFICES ASSUME k > 1 PROVE k - 1 \in 1..Len(s) /\ RegionEnd(s[k - 1]) < s[k].index
    OBVIOUS
  <2>1. PICK j \in 1..(Len(s) - 1) : j = k - 1
    BY <1>1
  <2>2. RegionEnd(s[j]) < s[j + 1].index /\ j + 1 = k
    BY <1>1, <2>1 DEF WellFormed
  <2> QED BY <1>1, <2>1, <2>2
<1> QED BY <1>1, <1>2, <1>3, <1>4, <1>5, <1>6

\* Region k of s is c blocks at a, the next one d blocks, with block i
\* between them; e blocks in all.
OneApart(s, k, a, c, d, i, e) ==
  /\ a = s[k].index /\ c = s[k].count
  /\ d = s[k + 1].count /\ s[k + 1].index = i + 1
  /\ i = a + c /\ e = c + 1 + d

\* Two regions with one block between them become one.
LEMMA MergedFacts ==
  ASSUME NEW s, ListOK(s), NEW k \in 1..Len(s), NEW n \in Nat, n = Len(s), k + 1 \in 1..n,
         NEW a \in Nat, NEW c \in Nat \ {0}, NEW d \in Nat \ {0}, NEW i \in Nat, NEW e \in Nat \ {0},
         OneApart(s, k, a, c, d, i, e)
  PROVE  WithBlock(s, RemoveAt([s EXCEPT ![k] = Reg(a, e)], k + 1), i)
<1>1. /\ i + 1 + d = a + e
      /\ \A x \in Nat : (a <= x /\ x < a + e) <=> \/ a <= x /\ x < a + c
                                                  \/ x = i
                                                  \/ i + 1 <= x /\ x < i + 1 + d
  <2>1. i = a + c /\ e = c + 1 + d
    BY DEF OneApart
  <2>2. c \in Nat /\ d \in Nat
    OBVIOUS
  <2>3. i + 1 + d = a + e
    BY <2>1, <2>2
  <2>4. ASSUME NEW x \in Nat
        PROVE  (a <= x /\ x < a + e) <=> \/ a <= x /\ x < a + c
                                         \/ x = i
                                         \/ i + 1 <= x /\ x < i + 1 + d
    BY <2>1, <2>2
  <2> QED BY <2>3, <2>4
<1>2. s \in Seq(Region)
  BY DEF ListOK
<1>3. /\ \A x \in Nat : Covers(s[k], x) <=> a <= x /\ x < a + c
      /\ \A x \in Nat : Covers(s[k + 1], x) <=> i + 1 <= x /\ x < i + 1 + d
      /\ RegionEnd(s[k + 1]) = i + 1 + d
      /\ k > 1 => RegionEnd(s[k - 1]) < a
  <2>1. /\ \A x \in Nat : Covers(s[k], x) <=> a <= x /\ x < a + c
        /\ k > 1 => RegionEnd(s[k - 1]) < a
    BY ListNumbers DEF OneApart
  <2>2. PICK j \in 1..Len(s) : j = k + 1
    OBVIOUS
  <2>3. /\ \A x \in Nat : Covers(s[j], x) <=> s[j].index <= x /\ x < s[j].index + s[j].count
        /\ RegionEnd(s[j]) = s[j].index + s[j].count
    BY ListNumbers
  <2>4. s[j].index = i + 1 /\ s[j].count = d
    BY <2>2 DEF OneApart
  <2> QED BY <2>1, <2>2, <2>3, <2>4
<1>4. PICK t : t = [s EXCEPT ![k] = Reg(a, e)]
  OBVIOUS
<1>5. Reg(a, e) \in Region /\ \A x \in Nat : Covers(Reg(a, e), x) <=> a <= x /\ x < a + e
  BY RegFacts
<1>6. Replaced(s, t, k, Reg(a, e))
  BY <1>2, <1>4, <1>5, ReplacedFacts
<1>7. t \in Seq(Region) /\ Len(t) = n /\ t[k] = Reg(a, e) /\ \A j \in 1..n : j # k => t[j] = s[j]
  BY <1>6 DEF Replaced
<1>8. PICK w : w = RemoveAt(t, k + 1)
  OBVIOUS
<1>9. Removed(t, w, k + 1)
  BY <1>7, <1>8, RemovedFacts
<1>10. /\ w \in Seq(Region) /\ Len(w) = n - 1
       /\ \A j \in 1..(n - 1) : w[j] = IF j < k + 1 THEN t[j] ELSE t[j + 1]
  BY <1>7, <1>9 DEF Removed
<1>11. \A x \in Nat : IsSparse(w, x) <=> \E j \in 1..n : j # k + 1 /\ Covers(t[j], x)
  BY <1>7, <1>9 DEF Removed
<1>12. PICK u : u = RemoveAt(s, k + 1)
  OBVIOUS
<1>13. Removed(s, u, k + 1)
  BY <1>2, <1>12, RemovedFacts
<1>14. ListOK(u)
  BY <1>13, RemovedOK
<1>15. /\ u \in Seq(Region) /\ Len(u) = n - 1
       /\ \A j \in 1..(n - 1) : u[j] = IF j < k + 1 THEN s[j] ELSE s[j + 1]
  BY <1>13 DEF Removed
<1>16. k \in 1..(n - 1)
  OBVIOUS
<1>17. ListOK(w)
  <2>1. k > 1 => RegionEnd(u[k - 1]) < a
    <3> SUFFICES ASSUME k > 1 PROVE RegionEnd(u[k - 1]) < a
      OBVIOUS
    <3>1. k - 1 \in 1..(n - 1) /\ k - 1 < k + 1
      BY <1>16
    <3>2. u[k - 1] = s[k - 1]
      BY <1>15, <3>1
    <3> QED BY <1>3, <3>2
  <2>2. k < Len(u) => a + e < u[k + 1].index
    <3> SUFFICES ASSUME k < n - 1 PROVE a + e < u[k + 1].index
      BY <1>15
    <3>1. PICK j \in 1..Len(s) : j = k + 1
      OBVIOUS
    <3>2. u[k + 1] = s[j + 1]
      BY <1>15, <3>1
    <3>3. RegionEnd(s[j]) < s[j + 1].index /\ s[j + 1].index \in Nat
      <4>1. j < Len(s)
        BY <3>1
      <4> QED BY <4>1, ListNumbers
    <3>4. RegionEnd(s[j]) = i + 1 + d
      BY <1>3, <3>1
    <3>5. i + 1 + d = a + e
      BY <1>1
    <3> QED BY <3>2, <3>3, <3>4, <3>5
  <2>3. ASSUME NEW j \in 1..(n - 1), j # k PROVE w[j] = u[j]
    <3>1. CASE j < k + 1
      BY <1>7, <1>10, <1>15, <2>3, <3>1
    <3>2. CASE ~(j < k + 1)
      <4>1. j + 1 \in 1..n /\ j + 1 # k
        BY <3>2
      <4> QED BY <1>7, <1>10, <1>15, <2>3, <3>2, <4>1
    <3> QED BY <3>1, <3>2
  <2>4. w[k] = Reg(a, e)
    BY <1>7, <1>10, <1>16
  <2>5. PICK v : v = [u EXCEPT ![k] = Reg(a, e)]
    OBVIOUS
  <2>6. k \in 1..Len(u)
    BY <1>15, <1>16
  <2>7. Replaced(u, v, k, Reg(a, e))
    BY <1>5, <1>15, <2>5, <2>6, ReplacedFacts
  <2>8. ListOK(v)
    BY <1>14, <2>1, <2>2, <2>6, <2>7, ReplacedOK
  <2>9. v \in Seq(Region) /\ Len(v) = n - 1 /\ v[k] = Reg(a, e) /\ \A j \in 1..(n - 1) : j # k => v[j] = u[j]
    BY <1>15, <2>7 DEF Replaced
  <2>10. v = w
    <3>1. ASSUME NEW j \in 1..(n - 1) PROVE v[j] = w[j]
      BY <2>3, <2>4, <2>9
    <3> QED BY <1>10, <2>9, <3>1, SeqEqual
  <2> QED BY <2>8, <2>10
<1>18. ASSUME NEW x \in Nat PROVE IsSparse(w, x) <=> IsSparse(s, x) \/ x = i
  <2>1. Covers(Reg(a, e), x) <=> Covers(s[k], x) \/ x = i \/ Covers(s[k + 1], x)
    <3>1. (a <= x /\ x < a + e) <=> \/ a <= x /\ x < a + c
                                    \/ x = i
                                    \/ i + 1 <= x /\ x < i + 1 + d
      BY <1>1
    <3> QED BY <1>3, <1>5, <3>1
  <2>2. IsSparse(s, x) <=> \E j \in 1..n : Covers(s[j], x)
    BY DEF IsSparse
  <2>3. IsSparse(w, x) <=> \E j \in 1..n : j # k + 1 /\ Covers(t[j], x)
    BY <1>11
  <2>4. k # k + 1 /\ k \in 1..n
    OBVIOUS
  <2>5. ASSUME IsSparse(w, x) PROVE IsSparse(s, x) \/ x = i
    <3>1. PICK j \in 1..n : j # k + 1 /\ Covers(t[j], x)
      BY <2>3, <2>5
    <3> QED BY <1>7, <2>1, <2>2, <2>4, <3>1
  <2>6. ASSUME IsSparse(s, x) \/ x = i PROVE IsSparse(w, x)
    <3>1. CASE x = i \/ Covers(s[k], x) \/ Covers(s[k + 1], x)
      BY <1>7, <2>1, <2>3, <2>4, <3>1
    <3>2. CASE ~(x = i \/ Covers(s[k], x) \/ Covers(s[k + 1], x))
      <4>1. PICK j \in 1..n : Covers(s[j], x)
        BY <2>2, <2>6, <3>2
      <4>2. j # k /\ j # k + 1
        BY <3>2, <4>1
      <4> QED BY <1>7, <2>3, <4>1, <4>2
    <3> QED BY <3>1, <3>2
  <2> QED BY <2>5, <2>6
<1> QED BY <1>4, <1>8, <1>17, <1>18 DEF WithBlock

\* Region k of s is c blocks at a.
At(s, k, a, c) == a = s[k].index /\ c = s[k].count

\* The region of a list as two numbers.
LEMMA AtFacts ==
  ASSUME NEW s, ListOK(s), NEW k \in 1..Len(s)
  PROVE  \E a \in Nat, c \in Nat \ {0} : At(s, k, a, c)
  BY ListNumbers DEF At

\* What these numbers say about the blocks and the neighbours.
LEMMA AtNumbers ==
  ASSUME NEW s, ListOK(s), NEW k \in 1..Len(s), NEW a \in Nat, NEW c \in Nat \ {0}, At(s, k, a, c)
  PROVE  /\ RegionEnd(s[k]) = a + c
         /\ \A x \in Nat : Covers(s[k], x) <=> a <= x /\ x < a + c
         /\ k < Len(s) => k + 1 \in 1..Len(s) /\ a + c < s[k + 1].index /\ s[k + 1].index \in Nat
         /\ k > 1 => k - 1 \in 1..Len(s) /\ RegionEnd(s[k - 1]) < a /\ RegionEnd(s[k - 1]) \in Nat
<1>1. a = s[k].index /\ c = s[k].count
  BY DEF At
<1>2. /\ RegionEnd(s[k]) = a + c
      /\ \A x \in Nat : Covers(s[k], x) <=> a <= x /\ x < a + c
  BY <1>1, ListNumbers
<1>3. k < Len(s) => k + 1 \in 1..Len(s) /\ RegionEnd(s[k]) < s[k + 1].index /\ s[k + 1].index \in Nat
  BY ListNumbers
<1>4. k > 1 => k - 1 \in 1..Len(s) /\ RegionEnd(s[k - 1]) < a /\ RegionEnd(s[k - 1]) \in Nat
  BY <1>1, ListNumbers
<1> QED BY <1>2, <1>3, <1>4

\* One region is replaced by another; a block is in the new list if it is in the new
\* region or in another one.
LEMMA RegionReplaced ==
  ASSUME NEW s, ListOK(s), NEW k \in 1..Len(s), NEW i \in Nat, NEW c \in Nat \ {0},
         k > 1 => RegionEnd(s[k - 1]) < i,
         k < Len(s) => i + c < s[k + 1].index
  PROVE  /\ ListOK([s EXCEPT ![k] = Reg(i, c)])
         /\ \A x \in Nat : IsSparse([s EXCEPT ![k] = Reg(i, c)], x) <=>
                             \/ i <= x /\ x < i + c
                             \/ \E j \in 1..Len(s) : j # k /\ Covers(s[j], x)
<1>1. PICK t : t = [s EXCEPT ![k] = Reg(i, c)]
  OBVIOUS
<1>2. Reg(i, c) \in Region /\ \A x \in Nat : Covers(Reg(i, c), x) <=> i <= x /\ x < i + c
  BY RegFacts
<1>3. Replaced(s, t, k, Reg(i, c))
  BY <1>1, <1>2, ReplacedFacts DEF ListOK
<1>4. ListOK(t)
  BY <1>3, ReplacedOK
<1>5. \A x \in Nat : IsSparse(t, x) <=> \/ Covers(Reg(i, c), x)
                                        \/ \E j \in 1..Len(s) : j # k /\ Covers(s[j], x)
  BY <1>3 DEF Replaced
<1>6. \A x \in Nat : IsSparse(t, x) <=> \/ i <= x /\ x < i + c
                                        \/ \E j \in 1..Len(s) : j # k /\ Covers(s[j], x)
  BY <1>2, <1>5
<1> QED BY <1>1, <1>4, <1>6

\* A block is in a list if it is in region k or in another one.
LEMMA InRegion ==
  ASSUME NEW s, NEW k \in 1..Len(s), NEW x
  PROVE  IsSparse(s, x) <=> Covers(s[k], x) \/ \E j \in 1..Len(s) : j # k /\ Covers(s[j], x)
  BY DEF IsSparse

\* try_merge, the block is right behind region k.
LEMMA GrowUpFacts ==
  ASSUME NEW s, ListOK(s), NEW i \in Nat, NEW k \in 1..Len(s), i = RegionEnd(s[k])
  PROVE  WithBlock(s, GrowUp(s, k), i)
<1>1. PICK a \in Nat, c \in Nat \ {0} : At(s, k, a, c)
  BY AtFacts
<1>2. s \in Seq(Region)
  BY DEF ListOK
<1>3. /\ RegionEnd(s[k]) = a + c
      /\ \A x \in Nat : Covers(s[k], x) <=> a <= x /\ x < a + c
      /\ k < Len(s) => k + 1 \in 1..Len(s) /\ a + c < s[k + 1].index /\ s[k + 1].index \in Nat
      /\ k > 1 => RegionEnd(s[k - 1]) < a
  BY <1>1, AtNumbers
<1>4. PICK n \in Nat : n = Len(s)
  BY <1>2
<1>5. CASE k < n /\ s[k + 1].index = RegionEnd(s[k]) + 1
  <2>1. k + 1 \in 1..n
    BY <1>5
  <2>2. PICK b \in Nat, d \in Nat \ {0} : At(s, k + 1, b, d)
    BY <1>4, <2>1, AtFacts
  <2>3. PICK e \in Nat \ {0} : e = c + 1 + d
    OBVIOUS
  <2>4. i = a + c
    BY <1>3
  <2>5. OneApart(s, k, a, c, d, i, e)
    BY <1>1, <1>3, <1>5, <2>2, <2>3, <2>4 DEF OneApart, At
  <2>6. WithBlock(s, RemoveAt([s EXCEPT ![k] = Reg(a, e)], k + 1), i)
    BY <1>4, <2>1, <2>5, MergedFacts
  <2>7. s[k].count + 1 + s[k + 1].count = e /\ s[k].index = a
    BY <1>1, <2>2, <2>3 DEF At
  <2>8. GrowUp(s, k) = RemoveAt([s EXCEPT ![k].count = s[k].count + 1 + s[k + 1].count], k + 1)
    BY <1>4, <1>5 DEF GrowUp
  <2>9. [s EXCEPT ![k].count = e] = [s EXCEPT ![k] = Reg(s[k].index, e)]
    <3>1. Recount(s, k, e) = [s EXCEPT ![k] = Reg(s[k].index, e)]
      BY <1>2, Recounted
    <3> QED BY <3>1 DEF Recount
  <2> QED BY <2>6, <2>7, <2>8, <2>9
<1>6. CASE ~(k < n /\ s[k + 1].index = RegionEnd(s[k]) + 1)
  <2>1. PICK e \in Nat \ {0} : e = c + 1
    OBVIOUS
  <2>2. k < Len(s) => a + e < s[k + 1].index
    BY <1>3, <1>4, <1>6, <2>1
  <2>3. PICK t : t = [s EXCEPT ![k] = Reg(a, e)]
    OBVIOUS
  <2>4. ListOK(t)
    BY <1>3, <2>2, <2>3, RegionReplaced
  <2>5. \A x \in Nat : IsSparse(t, x) <=> \/ a <= x /\ x < a + e
                                          \/ \E j \in 1..Len(s) : j # k /\ Covers(s[j], x)
    BY <1>3, <2>2, <2>3, RegionReplaced
  <2>6. ASSUME NEW x \in Nat PROVE IsSparse(t, x) <=> IsSparse(s, x) \/ x = i
    <3>1. i = a + c
      BY <1>3
    <3>2. a <= x /\ x < a + e <=> (a <= x /\ x < a + c) \/ x = i
      BY <2>1, <3>1
    <3>3. a <= x /\ x < a + e <=> Covers(s[k], x) \/ x = i
      BY <1>3, <3>2
    <3>4. IsSparse(s, x) <=> Covers(s[k], x) \/ \E j \in 1..Len(s) : j # k /\ Covers(s[j], x)
      BY InRegion
    <3> QED BY <2>5, <3>3, <3>4
  <2>7. s[k].count + 1 = e /\ s[k].index = a
    BY <1>1, <2>1 DEF At
  <2>8. GrowUp(s, k) = [s EXCEPT ![k].count = s[k].count + 1]
    BY <1>4, <1>6 DEF GrowUp
  <2>9. [s EXCEPT ![k].count = e] = [s EXCEPT ![k] = Reg(s[k].index, e)]
    <3>1. Recount(s, k, e) = [s EXCEPT ![k] = Reg(s[k].index, e)]
      BY <1>2, Recounted
    <3> QED BY <3>1 DEF Recount
  <2>10. WithBlock(s, t, i)
    BY <2>4, <2>6 DEF WithBlock
  <2> QED BY <2>3, <2>7, <2>8, <2>9, <2>10
<1> QED BY <1>5, <1>6

\* try_merge, the block is right before region k.
LEMMA GrowDownFacts ==
  ASSUME NEW s, ListOK(s), NEW i \in Nat, NEW k \in 1..Len(s), i + 1 = s[k].index
  PROVE  WithBlock(s, GrowDown(s, k), i)
<1>1. PICK a \in Nat, c \in Nat \ {0} : At(s, k, a, c)
  BY AtFacts
<1>2. s \in Seq(Region) /\ i + 1 = a
  BY <1>1 DEF ListOK, At
<1>3. /\ RegionEnd(s[k]) = a + c
      /\ \A x \in Nat : Covers(s[k], x) <=> a <= x /\ x < a + c
      /\ k < Len(s) => k + 1 \in 1..Len(s) /\ a + c < s[k + 1].index /\ s[k + 1].index \in Nat
      /\ k > 1 => k - 1 \in 1..Len(s) /\ RegionEnd(s[k - 1]) < a /\ RegionEnd(s[k - 1]) \in Nat
  BY <1>1, AtNumbers
<1>4. PICK n \in Nat : n = Len(s)
  BY <1>2
<1>5. CASE k > 1 /\ s[k].index - 1 = RegionEnd(s[k - 1])
  <2>1. PICK j \in 1..Len(s) : j = k - 1
    BY <1>3, <1>5
  <2>2. j + 1 = k /\ j < Len(s)
    BY <1>4, <2>1
  <2>3. s[j + 1].index = RegionEnd(s[j]) + 1 /\ RegionEnd(s[j]) = i
    BY <1>2, <1>3, <1>5, <2>1, <2>2
  <2>4. GrowUp(s, j) = RemoveAt([s EXCEPT ![j].count = s[j].count + 1 + s[j + 1].count], j + 1)
    BY <2>2, <2>3 DEF GrowUp
  <2>5. GrowDown(s, k) = RemoveAt([s EXCEPT ![k - 1].count = s[k - 1].count + 1 + s[k].count], k)
    BY <1>5 DEF GrowDown
  <2>6. WithBlock(s, GrowUp(s, j), i)
    BY <2>3, GrowUpFacts
  <2> QED BY <2>1, <2>2, <2>4, <2>5, <2>6
<1>6. CASE ~(k > 1 /\ s[k].index - 1 = RegionEnd(s[k - 1]))
  <2>1. PICK e \in Nat \ {0} : e = c + 1
    OBVIOUS
  <2>2. k < Len(s) => i + e < s[k + 1].index
    <3>1. i + e = a + c
      BY <1>2, <2>1
    <3> QED BY <1>3, <3>1
  <2>3. k > 1 => RegionEnd(s[k - 1]) < i
    BY <1>2, <1>3, <1>6
  <2>4. PICK t : t = [s EXCEPT ![k] = Reg(i, e)]
    OBVIOUS
  <2>5. ListOK(t)
    BY <2>2, <2>3, <2>4, RegionReplaced
  <2>6. \A x \in Nat : IsSparse(t, x) <=> \/ i <= x /\ x < i + e
                                          \/ \E j \in 1..Len(s) : j # k /\ Covers(s[j], x)
    BY <2>2, <2>3, <2>4, RegionReplaced
  <2>7. ASSUME NEW x \in Nat PROVE IsSparse(t, x) <=> IsSparse(s, x) \/ x = i
    <3>1. i <= x /\ x < i + e <=> (a <= x /\ x < a + c) \/ x = i
      BY <1>2, <2>1
    <3>2. i <= x /\ x < i + e <=> Covers(s[k], x) \/ x = i
      BY <1>3, <3>1
    <3>3. IsSparse(s, x) <=> Covers(s[k], x) \/ \E j \in 1..Len(s) : j # k /\ Covers(s[j], x)
      BY InRegion
    <3> QED BY <2>6, <3>2, <3>3
  <2>8. s[k].index - 1 = i /\ s[k].count + 1 = e
    BY <1>1, <1>2, <2>1 DEF At
  <2>9. GrowDown(s, k) = [s EXCEPT ![k] = [index |-> s[k].index - 1, count |-> s[k].count + 1]]
    BY <1>6 DEF GrowDown
  <2>10. WithBlock(s, t, i)
    BY <2>5, <2>7 DEF WithBlock
  <2> QED BY <2>4, <2>8, <2>9, <2>10 DEF Reg
<1> QED BY <1>5, <1>6

-----------------------------------------------------------------------------
\* The first number of a set of positions, 0 if there is none.
FirstOf(I) == IF I # {} THEN Min(I) ELSE 0

\* What a search for the first position finds.
LEMMA FirstFacts ==
  ASSUME NEW n \in Nat, NEW I, I \subseteq 1..n
  PROVE  /\ FirstOf(I) # 0 => FirstOf(I) \in I
         /\ FirstOf(I) = 0 => I = {}
         /\ \A j \in 1..n : j < FirstOf(I) => j \notin I
         /\ FirstOf(I) \in 0..n
<1>1. CASE I = {}
  BY <1>1 DEF FirstOf
<1>2. CASE I # {}
  <2>1. PICK m : m = Min(I)
    OBVIOUS
  <2>2. m \in I /\ \A j \in I : m <= j
    <3>1. I \subseteq Nat
      OBVIOUS
    <3> QED BY <1>2, <2>1, <3>1, MinIsLeast
  <2>3. FirstOf(I) = m
    BY <1>2, <2>1 DEF FirstOf
  <2>4. m \in 1..n
    BY <2>2
  <2> QED BY <2>2, <2>3, <2>4
<1> QED BY <1>1, <1>2

\* A new region for a block that touches no other region.
LEMMA NewRegionFacts ==
  ASSUME NEW s, ListOK(s), NEW i \in Nat,
         \A k \in 1..Len(s) : ~(i <= RegionEnd(s[k]) /\ i + 1 >= s[k].index)
  PROVE  WithBlock(s, insert_new_region(s, i), i)
<1>1. s \in Seq(Region)
  BY DEF ListOK
<1>2. PICK n \in Nat : n = Len(s)
  BY <1>1
<1>3. PICK I : I = { k \in 1..n : s[k].index >= i }
  OBVIOUS
<1>4. PICK p : p = FirstOf(I)
  OBVIOUS
<1>5. /\ p # 0 => p \in I
      /\ p = 0 => I = {}
      /\ \A j \in 1..n : j < p => j \notin I
      /\ p \in 0..n
  BY <1>3, <1>4, FirstFacts
<1>6. PICK k \in 1..(n + 1) : k = (IF p = 0 THEN n + 1 ELSE p)
  BY <1>5
<1>7. insert_new_region(s, i) = InsertAt(s, k, Reg(i, 1))
  BY <1>2, <1>3, <1>4, <1>6 DEF insert_new_region, SelectInSeq, FirstOf, Reg
<1>8. \A j \in 1..n : s[j].index \in Nat /\ RegionEnd(s[j]) \in Nat
  BY <1>2, ListNumbers
<1>9. k > 1 => RegionEnd(s[k - 1]) < i
  <2> SUFFICES ASSUME k > 1 PROVE RegionEnd(s[k - 1]) < i
    OBVIOUS
  <2>1. PICK j \in 1..n : j = k - 1
    OBVIOUS
  <2>2. j \notin I
    BY <1>5, <1>6, <2>1
  <2>3. ~(s[j].index >= i)
    BY <1>3, <2>2
  <2>4. ~(i <= RegionEnd(s[j]) /\ i + 1 >= s[j].index)
    BY <1>2
  <2>5. RegionEnd(s[j]) < i
    BY <1>8, <2>3, <2>4
  <2> QED BY <2>1, <2>5
<1>10. k <= Len(s) => i + 1 < s[k].index
  <2> SUFFICES ASSUME k <= n PROVE i + 1 < s[k].index
    BY <1>2
  <2>1. k = p /\ k \in 1..n
    BY <1>6
  <2>2. k \in I
    BY <1>5, <2>1
  <2>3. s[k].index >= i
    BY <1>3, <2>2
  <2>4. ~(i <= RegionEnd(s[k]) /\ i + 1 >= s[k].index)
    BY <1>2, <2>1
  <2>5. s[k].index <= RegionEnd(s[k])
    BY <1>2, <2>1, ListNumbers
  <2> QED BY <1>8, <2>1, <2>3, <2>4, <2>5
<1>11. Reg(i, 1) \in Region /\ \A x \in Nat : Covers(Reg(i, 1), x) <=> i <= x /\ x < i + 1
  BY RegFacts
<1>12. PICK t : t = InsertAt(s, k, Reg(i, 1))
  OBVIOUS
<1>13. k \in 1..(Len(s) + 1)
  BY <1>2
<1>14. Inserted(s, t, k, Reg(i, 1))
  BY <1>1, <1>11, <1>12, <1>13, InsertedFacts
<1>15. ListOK(t)
  BY <1>9, <1>10, <1>13, <1>14, InsertedOK
<1>16. \A x \in Nat : IsSparse(t, x) <=> Covers(Reg(i, 1), x) \/ IsSparse(s, x)
  BY <1>14 DEF Inserted
<1>17. \A x \in Nat : Covers(Reg(i, 1), x) <=> x = i
  BY <1>11
<1> QED BY <1>7, <1>12, <1>15, <1>16, <1>17 DEF WithBlock

\* fstree_file_mark_sparse adds the block to the list and does nothing else.
LEMMA MarkSparseFacts ==
  ASSUME NEW s, ListOK(s), NEW i \in Nat
  PROVE  WithBlock(s, MarkSparse(s, i), i)
<1>1. PICK n \in Nat : n = Len(s)
  BY DEF ListOK
<1>2. PICK I : I = { k \in 1..n : i <= RegionEnd(s[k]) /\ i + 1 >= s[k].index }
  OBVIOUS
<1>3. PICK k : k = FirstOf(I)
  OBVIOUS
<1>4. (k # 0 => k \in I) /\ (k = 0 => I = {})
  BY <1>2, <1>3, FirstFacts
<1>5. MergeIndex(s, i) = k
  BY <1>1, <1>2, <1>3 DEF MergeIndex, SelectInSeq, FirstOf
<1>6. CASE k = 0
  <2>1. \A j \in 1..Len(s) : ~(i <= RegionEnd(s[j]) /\ i + 1 >= s[j].index)
    BY <1>1, <1>2, <1>4, <1>6
  <2>2. WithBlock(s, insert_new_region(s, i), i)
    BY <2>1, NewRegionFacts
  <2> QED BY <1>5, <1>6, <2>2 DEF MarkSparse
<1>7. CASE k # 0
  <2>1. k \in 1..Len(s) /\ i <= RegionEnd(s[k]) /\ i + 1 >= s[k].index
    BY <1>1, <1>2, <1>4, <1>7
  <2>2. MarkSparse(s, i) = try_merge(s, k, i)
    BY <1>5, <1>7 DEF MarkSparse
  <2>3. s[k].index \in Nat /\ s[k].count \in Nat \ {0} /\ RegionEnd(s[k]) = s[k].index + s[k].count
        /\ (Covers(s[k], i) <=> s[k].index <= i /\ i < s[k].index + s[k].count)
    BY <2>1, ListNumbers
  <2>4. CASE Covers(s[k], i)
    <3>1. i # RegionEnd(s[k]) /\ i + 1 # s[k].index
      BY <2>3, <2>4
    <3>2. try_merge(s, k, i) = s
      BY <2>4, <3>1 DEF try_merge
    <3>3. IsSparse(s, i)
      BY <2>1, <2>4 DEF IsSparse
    <3> QED BY <2>2, <3>2, <3>3 DEF WithBlock
  <2>5. CASE i = RegionEnd(s[k])
    <3>1. ~Covers(s[k], i) /\ i + 1 # s[k].index
      BY <2>3, <2>5
    <3>2. try_merge(s, k, i) = GrowUp(s, k)
      BY <2>5, <3>1 DEF try_merge
    <3> QED BY <2>1, <2>2, <2>5, <3>2, GrowUpFacts
  <2>6. CASE i + 1 = s[k].index
    <3>1. ~Covers(s[k], i) /\ i # RegionEnd(s[k])
      BY <2>3, <2>6
    <3>2. try_merge(s, k, i) = GrowDown(s, k)
      BY <2>6, <3>1 DEF try_merge
    <3> QED BY <2>1, <2>2, <2>6, <3>2, GrowDownFacts
  <2>7. Covers(s[k], i) \/ i = RegionEnd(s[k]) \/ i + 1 = s[k].index
    BY <2>1, <2>3
  <2> QED BY <2>4, <2>5, <2>6, <2>7
<1> QED BY <1>6, <1>7

-----------------------------------------------------------------------------
\* The regions of a list are in order, not only the neighbours.
LEMMA InOrder ==
  ASSUME NEW s, ListOK(s), NEW j \in 1..Len(s), NEW k \in 1..Len(s), j < k
  PROVE  RegionEnd(s[j]) < s[k].index
<1>1. PICK n \in Nat : n = Len(s)
  BY DEF ListOK
<1> DEFINE M == { d \in Nat : j + d + 1 \in 1..n => RegionEnd(s[j]) < s[j + d + 1].index }
<1>2. 0 \in M
  <2>1. j + 0 + 1 \in 1..n => RegionEnd(s[j]) < s[j + 0 + 1].index
    <3> SUFFICES ASSUME j + 0 + 1 \in 1..n PROVE RegionEnd(s[j]) < s[j + 0 + 1].index
      OBVIOUS
    <3>1. j < Len(s) /\ j + 0 + 1 = j + 1
      BY <1>1
    <3> QED BY <3>1, ListNumbers
  <2> QED BY <2>1
<1>3. ASSUME NEW d \in Nat, d \in M PROVE d + 1 \in M
  <2> SUFFICES ASSUME j + (d + 1) + 1 \in 1..n PROVE RegionEnd(s[j]) < s[j + (d + 1) + 1].index
    OBVIOUS
  <2>1. PICK h \in 1..Len(s) : h = j + d + 1
    BY <1>1
  <2>2. RegionEnd(s[j]) < s[h].index
    BY <1>1, <1>3, <2>1
  <2>3. h < Len(s) /\ h + 1 = j + (d + 1) + 1
    BY <1>1, <2>1
  <2>4. RegionEnd(s[h]) < s[h + 1].index /\ s[h + 1].index \in Nat
        /\ RegionEnd(s[h]) = s[h].index + s[h].count /\ s[h].index \in Nat /\ s[h].count \in Nat
    BY <2>3, ListNumbers
  <2>5. RegionEnd(s[j]) \in Nat
    BY ListNumbers
  <2>6. RegionEnd(s[j]) < s[h + 1].index
    BY <2>2, <2>4, <2>5
  <2> QED BY <2>3, <2>6
<1> HIDE DEF M
<1>4. \A d \in Nat : d \in M
  BY <1>2, <1>3, SetInduction
<1>5. PICK d \in Nat : j + d + 1 = k
  <2>1. k - j - 1 \in Nat /\ j + (k - j - 1) + 1 = k
    BY <1>1
  <2> QED BY <2>1
<1> QED BY <1>1, <1>4, <1>5 DEF M

\* A block is in one region only.
LEMMA Disjoint ==
  ASSUME NEW s, ListOK(s), NEW j \in 1..Len(s), NEW k \in 1..Len(s), j # k, NEW x \in Nat,
         Covers(s[k], x)
  PROVE  ~Covers(s[j], x)
<1>1. \A h \in 1..Len(s) : /\ s[h].index \in Nat /\ RegionEnd(s[h]) \in Nat
                           /\ Covers(s[h], x) => s[h].index <= x /\ x < RegionEnd(s[h])
  BY ListNumbers DEF Covers
<1>2. j < k \/ k < j
  OBVIOUS
<1>3. CASE j < k
  <2>1. RegionEnd(s[j]) < s[k].index
    BY <1>3, InOrder
  <2> QED BY <1>1, <2>1
<1>4. CASE k < j
  <2>1. RegionEnd(s[k]) < s[j].index
    BY <1>4, InOrder
  <2> QED BY <1>1, <2>1
<1> QED BY <1>2, <1>3, <1>4

\* fstree_file_mark_not_sparse, for a block in region k.
LEMMA TakeOutFacts ==
  ASSUME NEW s, ListOK(s), NEW i \in Nat, NEW k \in 1..Len(s), Covers(s[k], i)
  PROVE  WithoutBlock(s, TakeOut(s, k, i), i)
<1>1. PICK a \in Nat, c \in Nat \ {0} : At(s, k, a, c)
  BY AtFacts
<1>2. s \in Seq(Region) /\ s[k].index = a /\ s[k].count = c
  BY <1>1 DEF ListOK, At
<1>3. /\ RegionEnd(s[k]) = a + c
      /\ \A x \in Nat : Covers(s[k], x) <=> a <= x /\ x < a + c
      /\ k < Len(s) => k + 1 \in 1..Len(s) /\ a + c < s[k + 1].index /\ s[k + 1].index \in Nat
      /\ k > 1 => RegionEnd(s[k - 1]) < a /\ RegionEnd(s[k - 1]) \in Nat
  BY <1>1, AtNumbers
<1>4. PICK n \in Nat : n = Len(s)
  BY <1>2
<1>5. a <= i /\ i < a + c
  BY <1>3
<1>6. ASSUME NEW x \in Nat
      PROVE  /\ IsSparse(s, x) <=> \/ a <= x /\ x < a + c
                                   \/ \E j \in 1..Len(s) : j # k /\ Covers(s[j], x)
             /\ (\E j \in 1..Len(s) : j # k /\ Covers(s[j], x)) => x # i
  <2>1. IsSparse(s, x) <=> Covers(s[k], x) \/ \E j \in 1..Len(s) : j # k /\ Covers(s[j], x)
    BY InRegion
  <2>2. \A j \in 1..Len(s) : j # k => ~Covers(s[j], i)
    BY Disjoint
  <2> QED BY <1>3, <2>1, <2>2
<1>7. PICK rel \in Nat : rel = i - a
  BY <1>5
<1>8. CASE c = 1
  <2>1. TakeOut(s, k, i) = RemoveAt(s, k)
    BY <1>2, <1>8 DEF TakeOut
  <2>2. PICK t : t = RemoveAt(s, k)
    OBVIOUS
  <2>3. Removed(s, t, k)
    BY <1>2, <2>2, RemovedFacts
  <2>4. ListOK(t)
    BY <2>3, RemovedOK
  <2>5. \A x \in Nat : IsSparse(t, x) <=> \E j \in 1..Len(s) : j # k /\ Covers(s[j], x)
    BY <2>3 DEF Removed
  <2>6. ASSUME NEW x \in Nat PROVE a <= x /\ x < a + c <=> x = i
    BY <1>5, <1>8
  <2>7. \A x \in Nat : IsSparse(t, x) <=> IsSparse(s, x) /\ x # i
    BY <1>6, <2>5, <2>6
  <2> QED BY <2>1, <2>2, <2>4, <2>7 DEF WithoutBlock
<1>9. CASE c > 1 /\ rel = 0
  <2>1. PICK b \in Nat, e \in Nat \ {0} : b = i + 1 /\ e = c - 1
    BY <1>9
  <2>2. a = i /\ b + e = a + c
    BY <1>5, <1>7, <1>9, <2>1
  <2>3. TakeOut(s, k, i) = [s EXCEPT ![k] = Reg(b, e)]
    BY <1>2, <1>7, <1>9, <2>1 DEF TakeOut, Reg
  <2>4. (k > 1 => RegionEnd(s[k - 1]) < b) /\ (k < Len(s) => b + e < s[k + 1].index)
    BY <1>3, <2>1, <2>2
  <2>5. PICK t : t = [s EXCEPT ![k] = Reg(b, e)]
    OBVIOUS
  <2>6. ListOK(t)
    BY <2>4, <2>5, RegionReplaced
  <2>7. \A x \in Nat : IsSparse(t, x) <=> \/ b <= x /\ x < b + e
                                          \/ \E j \in 1..Len(s) : j # k /\ Covers(s[j], x)
    BY <2>4, <2>5, RegionReplaced
  <2>8. ASSUME NEW x \in Nat PROVE b <= x /\ x < b + e <=> a <= x /\ x < a + c /\ x # i
    BY <2>1, <2>2
  <2>9. \A x \in Nat : IsSparse(t, x) <=> IsSparse(s, x) /\ x # i
    BY <1>6, <2>7, <2>8
  <2> QED BY <2>3, <2>5, <2>6, <2>9 DEF WithoutBlock
<1>10. CASE c > 1 /\ rel # 0 /\ rel = c - 1
  <2>1. PICK e \in Nat \ {0} : e = c - 1
    BY <1>10
  <2>2. i = a + e /\ e # c
    BY <1>7, <1>10, <2>1
  <2>3. TakeOut(s, k, i) = Recount(s, k, e)
    BY <1>2, <1>7, <1>10, <2>1 DEF TakeOut, Recount
  <2>4. Recount(s, k, e) = [s EXCEPT ![k] = Reg(s[k].index, e)]
    BY <1>2, Recounted
  <2>5. (k > 1 => RegionEnd(s[k - 1]) < a) /\ (k < Len(s) => a + e < s[k + 1].index)
    BY <1>3, <2>1
  <2>6. PICK t : t = [s EXCEPT ![k] = Reg(a, e)]
    OBVIOUS
  <2>7. ListOK(t)
    BY <2>5, <2>6, RegionReplaced
  <2>8. \A x \in Nat : IsSparse(t, x) <=> \/ a <= x /\ x < a + e
                                          \/ \E j \in 1..Len(s) : j # k /\ Covers(s[j], x)
    BY <2>5, <2>6, RegionReplaced
  <2>9. ASSUME NEW x \in Nat PROVE a <= x /\ x < a + e <=> a <= x /\ x < a + c /\ x # i
    BY <2>1, <2>2
  <2>10. \A x \in Nat : IsSparse(t, x) <=> IsSparse(s, x) /\ x # i
    BY <1>6, <2>8, <2>9
  <2>11. TakeOut(s, k, i) = t
    BY <1>2, <2>3, <2>4, <2>6
  <2> QED BY <2>7, <2>10, <2>11 DEF WithoutBlock
<1>11. CASE c > 1 /\ rel # 0 /\ rel # c - 1
  <2>1. PICK e \in Nat \ {0}, b \in Nat, d \in Nat \ {0} : e = rel /\ b = i + 1 /\ d = c - rel - 1
    BY <1>5, <1>7, <1>11
  <2>2. i = a + e /\ b + d = a + c
    BY <1>7, <2>1
  <2>3. TakeOut(s, k, i) = InsertAt(Recount(s, k, e), k + 1, Reg(b, d))
    <3>1. rel = i - s[k].index /\ s[k].count = c /\ s[k].count - rel - 1 = d
      BY <1>2, <1>7, <2>1
    <3> QED BY <1>11, <2>1, <3>1 DEF TakeOut, Recount, Reg
  <2>4. Recount(s, k, e) = [s EXCEPT ![k] = Reg(s[k].index, e)]
    BY <1>2, Recounted
  <2>5. (k > 1 => RegionEnd(s[k - 1]) < a) /\ (k < Len(s) => a + e < s[k + 1].index)
    BY <1>3, <1>5, <2>2
  <2>6. PICK t : t = [s EXCEPT ![k] = Reg(a, e)]
    OBVIOUS
  <2>7. ListOK(t)
    BY <2>5, <2>6, RegionReplaced
  <2>8. \A x \in Nat : IsSparse(t, x) <=> \/ a <= x /\ x < a + e
                                          \/ \E j \in 1..Len(s) : j # k /\ Covers(s[j], x)
    BY <2>5, <2>6, RegionReplaced
  <2>9. Reg(a, e) \in Region /\ Reg(b, d) \in Region /\ RegionEnd(Reg(a, e)) = a + e
        /\ \A x \in Nat : Covers(Reg(b, d), x) <=> b <= x /\ x < b + d
    BY RegFacts
  <2>10. Replaced(s, t, k, Reg(a, e))
    BY <1>2, <2>6, <2>9, ReplacedFacts
  <2>11. t \in Seq(Region) /\ Len(t) = n /\ t[k] = Reg(a, e) /\ \A j \in 1..n : j # k => t[j] = s[j]
    BY <1>4, <2>10 DEF Replaced
  <2>12. PICK u : u = InsertAt(t, k + 1, Reg(b, d))
    OBVIOUS
  <2>13. PICK h \in 1..(Len(t) + 1) : h = k + 1
    BY <1>4, <2>11
  <2>14. Inserted(t, u, h, Reg(b, d))
    BY <2>9, <2>11, <2>12, <2>13, InsertedFacts
  <2>15. ListOK(u)
    <3>1. h > 1 => RegionEnd(t[h - 1]) < b
      <4>1. t[h - 1] = Reg(a, e)
        BY <1>4, <2>11, <2>13
      <4>2. a + e < b
        BY <2>1, <2>2
      <4> QED BY <2>9, <4>1, <4>2
    <3>2. h <= Len(t) => b + d < t[h].index
      <4> SUFFICES ASSUME h <= n PROVE b + d < t[h].index
        BY <2>11
      <4>1. k < Len(s) /\ h \in 1..n /\ h # k
        BY <1>4, <2>11, <2>13
      <4>2. t[h] = s[k + 1]
        BY <2>11, <2>13, <4>1
      <4> QED BY <1>3, <2>2, <4>1, <4>2
    <3> QED BY <2>7, <2>14, <3>1, <3>2, InsertedOK
  <2>16. \A x \in Nat : IsSparse(u, x) <=> Covers(Reg(b, d), x) \/ IsSparse(t, x)
    BY <2>14 DEF Inserted
  <2>17. ASSUME NEW x \in Nat
         PROVE  ((a <= x /\ x < a + e) \/ (b <= x /\ x < b + d)) <=> a <= x /\ x < a + c /\ x # i
    BY <2>1, <2>2
  <2>18. ASSUME NEW x \in Nat PROVE IsSparse(u, x) <=> IsSparse(s, x) /\ x # i
    <3>1. IsSparse(u, x) <=> \/ b <= x /\ x < b + d
                             \/ a <= x /\ x < a + e
                             \/ \E j \in 1..Len(s) : j # k /\ Covers(s[j], x)
      BY <2>8, <2>9, <2>16
    <3>2. /\ IsSparse(s, x) <=> \/ a <= x /\ x < a + c
                                \/ \E j \in 1..Len(s) : j # k /\ Covers(s[j], x)
          /\ (\E j \in 1..Len(s) : j # k /\ Covers(s[j], x)) => x # i
      BY <1>6
    <3>3. ((a <= x /\ x < a + e) \/ (b <= x /\ x < b + d)) <=> a <= x /\ x < a + c /\ x # i
      BY <2>17
    <3> DEFINE E == \E j \in 1..Len(s) : j # k /\ Covers(s[j], x)
               X == a <= x /\ x < a + c
               P == a <= x /\ x < a + e
               Q == b <= x /\ x < b + d
    <3>4. (IsSparse(u, x) <=> Q \/ P \/ E) /\ (IsSparse(s, x) <=> X \/ E) /\ (E => x # i)
          /\ ((P \/ Q) <=> (X /\ x # i))
      BY <3>1, <3>2, <3>3
    <3> HIDE DEF E, X, P, Q
    <3> QED BY <3>4
  <2>19. TakeOut(s, k, i) = u
    BY <1>2, <2>3, <2>4, <2>6, <2>12
  <2> QED BY <2>15, <2>18, <2>19 DEF WithoutBlock
<1>12. c = 1 \/ c > 1
  OBVIOUS
<1> QED BY <1>8, <1>9, <1>10, <1>11, <1>12

\* fstree_file_mark_not_sparse takes the block out of the list and does nothing else.
LEMMA MarkNotSparseFacts ==
  ASSUME NEW s, ListOK(s), NEW i \in Nat
  PROVE  WithoutBlock(s, MarkNotSparse(s, i), i)
<1>1. PICK n \in Nat : n = Len(s)
  BY DEF ListOK
<1>2. PICK I : I = { k \in 1..n : Covers(s[k], i) }
  OBVIOUS
<1>3. PICK k : k = FirstOf(I)
  OBVIOUS
<1>4. (k # 0 => k \in I) /\ (k = 0 => I = {})
  BY <1>2, <1>3, FirstFacts
<1>5. MarkNotSparse(s, i) = IF k = 0 THEN s ELSE TakeOut(s, k, i)
  BY <1>1, <1>2, <1>3 DEF MarkNotSparse, RegionOf, SelectInSeq, FirstOf
<1>6. CASE k = 0
  <2>1. ~IsSparse(s, i)
    BY <1>1, <1>2, <1>4, <1>6 DEF IsSparse
  <2> QED BY <1>5, <1>6, <2>1 DEF WithoutBlock
<1>7. CASE k # 0
  <2>1. k \in 1..Len(s) /\ Covers(s[k], i)
    BY <1>1, <1>2, <1>4, <1>7
  <2> QED BY <1>5, <1>7, <2>1, TakeOutFacts
<1> QED BY <1>6, <1>7

-----------------------------------------------------------------------------
\* A region is put at the end of a list.
LEMMA AppendedFacts ==
  ASSUME NEW s \in Seq(Region), NEW r \in Region
  PROVE  Inserted(s, Append(s, r), Len(s) + 1, r)
<1>1. PICK n \in Nat : n = Len(s)
  OBVIOUS
<1>2. PICK t : t = Append(s, r)
  OBVIOUS
<1>3. t \in Seq(Region) /\ Len(t) = n + 1 /\ t[n + 1] = r /\ \A j \in 1..n : t[j] = s[j]
  BY <1>1, <1>2
<1>4. ASSUME NEW j \in 1..(n + 1)
      PROVE  t[j] = IF j < n + 1 THEN s[j] ELSE IF j = n + 1 THEN r ELSE s[j - 1]
  BY <1>3
<1>5. ASSUME NEW x \in Nat PROVE IsSparse(t, x) <=> Covers(r, x) \/ IsSparse(s, x)
  <2>1. IsSparse(t, x) <=> \E j \in 1..(n + 1) : Covers(t[j], x)
    BY <1>3 DEF IsSparse
  <2>2. IsSparse(s, x) <=> \E j \in 1..n : Covers(s[j], x)
    BY <1>1 DEF IsSparse
  <2>3. ASSUME NEW j \in 1..(n + 1), Covers(t[j], x) PROVE Covers(r, x) \/ IsSparse(s, x)
    <3>1. j = n + 1 \/ j \in 1..n
      OBVIOUS
    <3> QED BY <1>3, <2>2, <2>3, <3>1
  <2>4. n + 1 \in 1..(n + 1) /\ \A j \in 1..n : j \in 1..(n + 1)
    OBVIOUS
  <2> QED BY <1>3, <2>1, <2>2, <2>3, <2>4
<1>6. Inserted(s, t, n + 1, r)
  BY <1>1, <1>3, <1>4, <1>5 DEF Inserted
<1> QED BY <1>1, <1>2, <1>6

\* t is what the first m regions of s are, cut off at block n; the other regions
\* of s lie behind it.
CutTo(s, t, m, n) ==
  /\ ListOK(t)
  /\ \A j \in 1..Len(s) : j > m /\ Len(t) > 0 => RegionEnd(t[Len(t)]) < s[j].index
  /\ \A x \in Nat : IsSparse(t, x) <=> x < n /\ \E j \in 1..Len(s) : j <= m /\ Covers(s[j], x)

\* One turn of the loop of truncate_sparse.
CutNext(s, t, m, n) == IF s[m].index >= n THEN t ELSE Append(t, Clip(s[m], n))

\* Region k of s, c blocks at a, is e blocks long when it is cut off at block n.
Clipped(s, k, n, a, c, e) ==
  /\ At(s, k, a, c) /\ Clip(s[k], n) = Reg(a, e) /\ e <= c
  /\ \A x \in Nat : a <= x /\ x < a + e <=> a <= x /\ x < a + c /\ x < n

\* The region that is cut.
LEMMA ClipFacts ==
  ASSUME NEW s, ListOK(s), NEW k \in 1..Len(s), NEW n \in Nat, s[k].index < n
  PROVE  \E a \in Nat, c \in Nat \ {0}, e \in Nat \ {0} : Clipped(s, k, n, a, c, e)
<1>1. PICK a \in Nat, c \in Nat \ {0} : At(s, k, a, c)
  BY AtFacts
<1>2. s[k] \in Region /\ s[k].index = a /\ s[k].count = c
  BY <1>1 DEF ListOK, At
<1>3. PICK e \in Nat \ {0} : e = IF c >= n - a THEN n - a ELSE c
  <2>1. a < n
    BY <1>2
  <2>2. n - a \in Nat \ {0}
    BY <2>1
  <2> QED BY <2>2
<1>4. Clip(s[k], n) = Reg(a, e)
  <2>1. Clip(s[k], n) = [s[k] EXCEPT !.count = e]
    BY <1>2, <1>3 DEF Clip
  <2>2. [s[k] EXCEPT !.count = e] = Reg(s[k].index, e)
    BY <1>2 DEF Region, Reg
  <2> QED BY <1>2, <2>1, <2>2
<1>5. e <= c
  BY <1>3
<1>6. ASSUME NEW x \in Nat PROVE a <= x /\ x < a + e <=> a <= x /\ x < a + c /\ x < n
  BY <1>3
<1> QED BY <1>1, <1>4, <1>5, <1>6 DEF Clipped

\* One more region is cut.
LEMMA CutStep ==
  ASSUME NEW s, ListOK(s), NEW n \in Nat, NEW k \in 1..Len(s),
         NEW t, CutTo(s, t, k - 1, n)
  PROVE  CutTo(s, CutNext(s, t, k, n), k, n)
<1>1. PICK a \in Nat, c \in Nat \ {0} : At(s, k, a, c)
  BY AtFacts
<1>2. /\ s[k].index = a
      /\ RegionEnd(s[k]) = a + c
      /\ \A x \in Nat : Covers(s[k], x) <=> a <= x /\ x < a + c
  <2>1. s[k].index = a
    BY <1>1 DEF At
  <2>2. /\ RegionEnd(s[k]) = a + c
        /\ \A x \in Nat : Covers(s[k], x) <=> a <= x /\ x < a + c
    BY <1>1, AtNumbers
  <2> QED BY <2>1, <2>2
<1>3. /\ ListOK(t)
      /\ \A j \in 1..Len(s) : j > k - 1 /\ Len(t) > 0 => RegionEnd(t[Len(t)]) < s[j].index
      /\ \A x \in Nat : IsSparse(t, x) <=> x < n /\ \E j \in 1..Len(s) : j <= k - 1 /\ Covers(s[j], x)
  BY DEF CutTo
<1>4. ASSUME NEW x \in Nat
      PROVE  (\E j \in 1..Len(s) : j <= k /\ Covers(s[j], x))
               <=> Covers(s[k], x) \/ \E j \in 1..Len(s) : j <= k - 1 /\ Covers(s[j], x)
  <2>1. ASSUME NEW j \in 1..Len(s) PROVE j <= k <=> j = k \/ j <= k - 1
    OBVIOUS
  <2> QED BY <2>1
<1>5. CASE a >= n
  <2>1. CutNext(s, t, k, n) = t
    BY <1>2, <1>5 DEF CutNext
  <2>2. \A j \in 1..Len(s) : j > k => j > k - 1
    OBVIOUS
  <2>3. ASSUME NEW x \in Nat, x < n PROVE ~Covers(s[k], x)
    BY <1>2, <1>5, <2>3
  <2>4. \A x \in Nat : IsSparse(t, x) <=> x < n /\ \E j \in 1..Len(s) : j <= k /\ Covers(s[j], x)
    BY <1>3, <1>4, <2>3
  <2>5. CutTo(s, t, k, n)
    BY <1>3, <2>2, <2>4 DEF CutTo
  <2> QED BY <2>1, <2>5
<1>6. CASE a < n
  <2>1. PICK b \in Nat, d \in Nat \ {0}, e \in Nat \ {0} : Clipped(s, k, n, b, d, e)
    BY <1>2, <1>6, ClipFacts
  <2>2. /\ At(s, k, b, d) /\ Clip(s[k], n) = Reg(b, e) /\ e <= d
        /\ \A x \in Nat : b <= x /\ x < b + e <=> b <= x /\ x < b + d /\ x < n
    BY <2>1 DEF Clipped
  <2>3. b = a /\ d = c
    BY <1>1, <2>2 DEF At
  <2>4. PICK u : u = Append(t, Reg(b, e))
    OBVIOUS
  <2>5. CutNext(s, t, k, n) = u
    BY <1>2, <1>6, <2>2, <2>4 DEF CutNext
  <2>6. Reg(b, e) \in Region /\ RegionEnd(Reg(b, e)) = b + e
        /\ \A x \in Nat : Covers(Reg(b, e), x) <=> b <= x /\ x < b + e
    BY RegFacts
  <2>7. t \in Seq(Region) /\ Len(t) \in Nat
    BY <1>3 DEF ListOK
  <2>8. Inserted(t, u, Len(t) + 1, Reg(b, e))
    BY <2>4, <2>6, <2>7, AppendedFacts
  <2>9. PICK h \in 1..(Len(t) + 1) : h = Len(t) + 1
    BY <2>7
  <2>10. ListOK(u)
    <3>1. h > 1 => RegionEnd(t[h - 1]) < b
      <4> SUFFICES ASSUME h > 1 PROVE RegionEnd(t[h - 1]) < b
        OBVIOUS
      <4>1. Len(t) > 0 /\ h - 1 = Len(t) /\ k > k - 1
        BY <2>7, <2>9
      <4> QED BY <1>2, <1>3, <2>3, <4>1
    <3>2. h <= Len(t) => b + e < t[h].index
      BY <2>7, <2>9
    <3>3. Inserted(t, u, h, Reg(b, e))
      BY <2>8, <2>9
    <3> QED BY <1>3, <3>1, <3>2, <3>3, InsertedOK
  <2>11. Len(u) = Len(t) + 1 /\ u[Len(u)] = Reg(b, e)
    BY <2>4, <2>7
  <2>12. ASSUME NEW j \in 1..Len(s), j > k PROVE RegionEnd(u[Len(u)]) < s[j].index
    <3>1. RegionEnd(s[k]) < s[j].index /\ s[j].index \in Nat
      BY <2>12, InOrder, ListNumbers
    <3>2. b + e <= a + c
      BY <2>2, <2>3
    <3> QED BY <1>2, <2>6, <2>11, <3>1, <3>2
  <2>13. ASSUME NEW x \in Nat
         PROVE  IsSparse(u, x) <=> x < n /\ \E j \in 1..Len(s) : j <= k /\ Covers(s[j], x)
    <3>1. IsSparse(u, x) <=> Covers(Reg(b, e), x) \/ IsSparse(t, x)
      BY <2>8 DEF Inserted
    <3>2. Covers(Reg(b, e), x) <=> Covers(s[k], x) /\ x < n
      BY <1>2, <2>2, <2>3, <2>6
    <3>3. IsSparse(t, x) <=> x < n /\ \E j \in 1..Len(s) : j <= k - 1 /\ Covers(s[j], x)
      BY <1>3
    <3>4. (\E j \in 1..Len(s) : j <= k /\ Covers(s[j], x))
               <=> Covers(s[k], x) \/ \E j \in 1..Len(s) : j <= k - 1 /\ Covers(s[j], x)
      BY <1>4
    <3> QED BY <3>1, <3>2, <3>3, <3>4, Zenon
  <2>14. CutTo(s, u, k, n)
    BY <2>10, <2>12, <2>13 DEF CutTo
  <2> QED BY <2>5, <2>14
<1>7. a >= n \/ a < n
  OBVIOUS
<1> QED BY <1>5, <1>6, <1>7

\* truncate_sparse forgets the blocks from n on and does nothing else.
LEMMA TruncateSparseFacts ==
  ASSUME NEW s, ListOK(s), NEW n \in Nat
  PROVE  UpToBlock(s, TruncateSparse(s, n), n)
<1>1. PICK l \in Nat : l = Len(s)
  BY DEF ListOK
<1> DEFINE S == Seq(Region)
           G == [p \in (1..l) \X S |-> CutNext(s, p[2], p[1], n)]
<1>2. ASSUME NEW j \in 1..l, NEW x \in S
      PROVE  G[<<j, x>>] = CutNext(s, x, j, n) /\ G[<<j, x>>] \in S
  <2>1. G[<<j, x>>] = CutNext(s, x, j, n)
    OBVIOUS
  <2> HIDE DEF G
  <2>2. CutNext(s, x, j, n) \in S
    <3>1. s[j] \in Region /\ s[j].index \in Nat
      BY <1>1, ListNumbers
    <3>2. CASE s[j].index >= n
      BY <3>2 DEF CutNext
    <3>3. CASE s[j].index < n
      <4>1. Clip(s[j], n) \in Region
        <5>1. PICK a \in Nat, e \in Nat \ {0} : Clip(s[j], n) = Reg(a, e)
          <6>1. PICK a \in Nat, c \in Nat \ {0}, e \in Nat \ {0} : Clipped(s, j, n, a, c, e)
            BY <1>1, <3>3, ClipFacts
          <6> QED BY <6>1 DEF Clipped
        <5> QED BY <5>1, RegFacts
      <4>2. ~(s[j].index >= n)
        BY <3>1, <3>3
      <4> QED BY <4>1, <4>2 DEF CutNext
    <3> QED BY <3>1, <3>2, <3>3
  <2> QED BY <2>1, <2>2
<1> HIDE DEF G
<1>3. <<>> \in S
  OBVIOUS
<1> HIDE DEF S
<1>4. PICK f : Loop(f, l, <<>>, G) /\ \A j \in 0..l : f[j] \in S
  BY <1>2, <1>3, LoopExists
<1> DEFINE Eq(cut) == cut = [k \in 0..l |->
             IF k = 0 THEN <<>> ELSE CutNext(s, cut[k - 1], k, n)]
<1>5. Eq(f)
  <2>1. ASSUME NEW j \in 0..l
        PROVE  (IF j = 0 THEN <<>> ELSE G[<<j, f[j - 1]>>])
                 = IF j = 0 THEN <<>> ELSE CutNext(s, f[j - 1], j, n)
    <3>1. j # 0 => j \in 1..l /\ f[j - 1] \in S
      BY <1>4
    <3> QED BY <1>2, <3>1
  <2> QED BY <1>4, <2>1 DEF Loop
<1>6. PICK cut : Eq(cut) /\ TruncateSparse(s, n) = cut[l]
  <2>1. TruncateSparse(s, n) = (CHOOSE cut : Eq(cut))[l]
    BY <1>1 DEF TruncateSparse, CutNext
  <2>2. Eq(CHOOSE cut : Eq(cut))
    BY <1>5
  <2> QED BY <2>1, <2>2
<1> DEFINE M == { m \in Nat : m <= l => CutTo(s, cut[m], m, n) }
<1>7. 0 \in M
  <2>1. cut[0] = <<>>
    BY <1>6
  <2>2. ListOK(<<>>)
    BY DEF ListOK, WellFormed
  <2>3. Len(<<>>) = 0 /\ \A x : ~IsSparse(<<>>, x)
    BY DEF IsSparse
  <2>4. \A j \in 1..Len(s) : ~(j <= 0)
    OBVIOUS
  <2>5. CutTo(s, <<>>, 0, n)
    BY <2>2, <2>3, <2>4 DEF CutTo
  <2> QED BY <2>1, <2>5
<1>8. ASSUME NEW m \in Nat, m \in M PROVE m + 1 \in M
  <2> SUFFICES ASSUME m + 1 <= l PROVE CutTo(s, cut[m + 1], m + 1, n)
    OBVIOUS
  <2>1. PICK k \in 1..Len(s) : k = m + 1
    BY <1>1
  <2>2. CutTo(s, cut[m], m, n)
    BY <1>8
  <2>3. cut[k] = CutNext(s, cut[m], k, n)
    BY <1>1, <1>6, <2>1
  <2>4. CutTo(s, CutNext(s, cut[m], k, n), k, n)
    <3>1. CutTo(s, cut[m], k - 1, n)
      BY <2>1, <2>2
    <3> QED BY <3>1, CutStep
  <2> QED BY <2>1, <2>3, <2>4
<1> HIDE DEF M
<1>9. l \in M
  BY <1>7, <1>8, SetInduction
<1>10. CutTo(s, TruncateSparse(s, n), l, n)
  BY <1>6, <1>9 DEF M
<1>11. ASSUME NEW x \in Nat
       PROVE  (\E j \in 1..Len(s) : j <= l /\ Covers(s[j], x)) <=> IsSparse(s, x)
  <2>1. \A j \in 1..Len(s) : j <= l
    BY <1>1
  <2> QED BY <2>1 DEF IsSparse
<1>12. /\ ListOK(TruncateSparse(s, n))
       /\ \A x \in Nat : IsSparse(TruncateSparse(s, n), x)
                           <=> x < n /\ \E j \in 1..Len(s) : j <= l /\ Covers(s[j], x)
  BY <1>10 DEF CutTo
<1> QED BY <1>11, <1>12 DEF UpToBlock

-----------------------------------------------------------------------------
\* Division by the size of a block.
LEMMA DivFacts ==
  ASSUME NEW x \in Nat, NEW d \in Nat \ {0}
  PROVE  \E q \in Nat : q = x \div d /\ d * q \in Nat /\ d * q <= x /\ x < d * q + d
<1>1. PICK q \in Nat : q = x \div d
  OBVIOUS
<1>2. x = d * (x \div d) + (x % d) /\ x % d \in 0..(d - 1)
  OBVIOUS
<1>3. PICK m \in Nat : m = d * q
  OBVIOUS
<1>4. m <= x /\ x < m + d
  BY <1>1, <1>2, <1>3
<1> QED BY <1>1, <1>3, <1>4

\* Of two multiples less than one block apart the quotients are in order.
LEMMA Below ==
  ASSUME NEW q \in Nat, NEW r \in Nat, NEW d \in Nat \ {0}, d * q < d * r + d
  PROVE  q <= r
<1> SUFFICES ASSUME r + 1 <= q PROVE FALSE
  OBVIOUS
<1>1. PICK e \in Nat : q = r + 1 + e
  OBVIOUS
<1>2. d * q = d * r + d + d * e
  BY <1>1
<1>3. d * e \in Nat /\ d * r \in Nat
  OBVIOUS
<1> QED BY <1>2, <1>3

\* Rounding up to d, and the multiple of d below a number below.
LEMMA CeilFacts ==
  ASSUME NEW d \in Nat \ {0}, NEW x \in Nat
  PROVE  /\ (x + d - 1) \div d \in Nat
         /\ \A y \in Nat : y < x => y \div d \in Nat /\ y \div d < (x + d - 1) \div d
<1>1. PICK q \in Nat : q = (x + d - 1) \div d /\ d * q \in Nat /\ d * q <= x + d - 1 /\ x + d - 1 < d * q + d
  <2>1. PICK z \in Nat : z = x + d - 1
    OBVIOUS
  <2>2. PICK q \in Nat : q = z \div d /\ d * q \in Nat /\ d * q <= z /\ z < d * q + d
    BY DivFacts
  <2> QED BY <2>1, <2>2
<1>2. ASSUME NEW y \in Nat, y < x PROVE y \div d \in Nat /\ y \div d < q
  <2>1. PICK p \in Nat : p = y \div d /\ d * p \in Nat /\ d * p <= y /\ y < d * p + d
    BY DivFacts
  <2>2. d * (p + 1) = d * p + d
    OBVIOUS
  <2>3. d * (p + 1) < d * q + d
    BY <1>1, <1>2, <2>1, <2>2
  <2>4. p + 1 <= q
    BY <2>3, Below
  <2> QED BY <2>1, <2>4
<1> QED BY <1>1, <1>2

\* The blocks a file of some size has.
LEMMA BlocksForFacts ==
  ASSUME NEW x \in Nat
  PROVE  /\ BlocksFor(x) \in Nat
         /\ \A y \in Nat : y < x => y \div BlockSize \in Nat /\ y \div BlockSize < BlocksFor(x)
<1>1. BlockSize \in Nat \ {0}
  BY FSTreeAssumption
<1> QED BY <1>1, CeilFacts DEF BlocksFor

\* A longer file does not have fewer blocks.
LEMMA BlocksForGrows ==
  ASSUME NEW x \in Nat, NEW y \in Nat, x <= y
  PROVE  BlocksFor(x) <= BlocksFor(y)
<1>1. PICK d \in Nat \ {0} : d = BlockSize
  BY FSTreeAssumption
<1>2. PICK u \in Nat, v \in Nat : u = x + d - 1 /\ v = y + d - 1
  OBVIOUS
<1>3. PICK q \in Nat : q = u \div d /\ d * q \in Nat /\ d * q <= u /\ u < d * q + d
  BY DivFacts
<1>4. PICK r \in Nat : r = v \div d /\ d * r \in Nat /\ d * r <= v /\ v < d * r + d
  BY DivFacts
<1>5. d * q < d * r + d
  BY <1>2, <1>3, <1>4
<1>6. q <= r
  BY <1>5, Below
<1> QED BY <1>1, <1>2, <1>3, <1>4, <1>6 DEF BlocksFor

\* A file that does not fill r blocks of d bytes.
LEMMA FewerBytes ==
  ASSUME NEW x \in Nat, NEW d \in Nat \ {0}, NEW r \in Nat, ~((x + d - 1) \div d >= r)
  PROVE  r * d - x \in Nat \ {0}
<1>1. PICK z \in Nat : z = x + d - 1
  OBVIOUS
<1>2. PICK q \in Nat : q = z \div d /\ d * q \in Nat /\ d * q <= z /\ z < d * q + d
  BY DivFacts
<1>3. PICK e \in Nat : r = q + 1 + e
  <2>1. q + 1 <= r
    BY <1>1, <1>2
  <2>2. r - (q + 1) \in Nat /\ r = q + 1 + (r - (q + 1))
    BY <2>1
  <2> QED BY <2>2
<1>4. r * d = d * q + d + d * e /\ d * e \in Nat
  BY <1>3
<1>5. PICK a \in Nat, b \in Nat, c \in Nat : a = r * d /\ b = d * q /\ c = d * e
  BY <1>2, <1>4
<1>6. a = b + d + c /\ x + d - 1 < b + d
  BY <1>1, <1>2, <1>4, <1>5
<1>7. a - x \in Nat \ {0}
  BY <1>6
<1> QED BY <1>5, <1>7

-----------------------------------------------------------------------------
\* The records of the model: a tree and a file.
TreeOf(d, o, g, f) == [disk |-> d, data_offset |-> o, gap |-> g, file |-> f]
FileOf(n, i, l) == [size |-> n, start_index |-> i, sparse |-> l]

Shape(s) ==
  /\ s = TreeOf(s.disk, s.data_offset, s.gap, s.file)
  /\ s.file = [f \in Files |-> s.file[f]]
  /\ \A f \in Files : s.file[f] = FileOf(s.file[f].size, s.file[f].start_index, s.file[f].sparse)

\* a has the files of s, of the same sizes and with the same holes.
SameLists(a, s) ==
  /\ Shape(a)
  /\ \A f \in Files : a.file[f].size = s.file[f].size /\ a.file[f].sparse = s.file[f].sparse

\* Trees that differ in other things than the files.
LEMMA OtherFields ==
  ASSUME NEW s, Shape(s), NEW d, NEW o, NEW g
  PROVE  /\ SameLists([s EXCEPT !.disk = d], s)
         /\ [s EXCEPT !.disk = d].data_offset = s.data_offset
         /\ [s EXCEPT !.disk = d].file = s.file
         /\ SameLists([s EXCEPT !.data_offset = o], s)
         /\ [s EXCEPT !.data_offset = o].file = s.file
         /\ SameLists([s EXCEPT !.gap = g], s)
         /\ [s EXCEPT !.gap = g].file = s.file
<1>1. s = TreeOf(s.disk, s.data_offset, s.gap, s.file)
  BY DEF Shape
<1>2. [s EXCEPT !.disk = d] = TreeOf(d, s.data_offset, s.gap, s.file)
  BY <1>1 DEF TreeOf
<1>3. [s EXCEPT !.data_offset = o] = TreeOf(s.disk, o, s.gap, s.file)
  BY <1>1 DEF TreeOf
<1>4. [s EXCEPT !.gap = g] = TreeOf(s.disk, s.data_offset, g, s.file)
  BY <1>1 DEF TreeOf
<1>5. ASSUME NEW d1, NEW o1, NEW g1, NEW a, a = TreeOf(d1, o1, g1, s.file)
      PROVE  SameLists(a, s) /\ a.file = s.file
  <2>1. a.disk = d1 /\ a.data_offset = o1 /\ a.gap = g1 /\ a.file = s.file
    BY <1>5 DEF TreeOf
  <2>2. Shape(a)
    BY <1>5, <2>1 DEF Shape
  <2> QED BY <2>1, <2>2 DEF SameLists
<1>6. TreeOf(d, s.data_offset, s.gap, s.file).data_offset = s.data_offset
  BY DEF TreeOf
<1> QED BY <1>2, <1>3, <1>4, <1>5, <1>6

\* A tree with other file records.
LEMMA OtherFiles ==
  ASSUME NEW s, Shape(s), NEW F, F = [f \in Files |-> F[f]],
         \A f \in Files : F[f] = FileOf(F[f].size, F[f].start_index, F[f].sparse)
  PROVE  /\ Shape([s EXCEPT !.file = F])
         /\ [s EXCEPT !.file = F].file = F
         /\ [s EXCEPT !.file = F].data_offset = s.data_offset
<1>1. s = TreeOf(s.disk, s.data_offset, s.gap, s.file)
  BY DEF Shape
<1>2. PICK a : a = [s EXCEPT !.file = F]
  OBVIOUS
<1>3. a = TreeOf(s.disk, s.data_offset, s.gap, F)
  BY <1>1, <1>2 DEF TreeOf
<1>4. a.disk = s.disk /\ a.data_offset = s.data_offset /\ a.gap = s.gap /\ a.file = F
  BY <1>3 DEF TreeOf
<1>5. Shape(a)
  BY <1>3, <1>4 DEF Shape
<1> QED BY <1>2, <1>4, <1>5

\* A file record with one field changed.
LEMMA OtherFileFields ==
  ASSUME NEW r, r = FileOf(r.size, r.start_index, r.sparse), NEW n, NEW i, NEW l
  PROVE  /\ [r EXCEPT !.size = n] = FileOf(n, r.start_index, r.sparse)
         /\ [r EXCEPT !.start_index = i] = FileOf(r.size, i, r.sparse)
         /\ [r EXCEPT !.sparse = l] = FileOf(r.size, r.start_index, l)
  BY DEF FileOf

\* The fields of a file record.
LEMMA FileFields ==
  ASSUME NEW n, NEW i, NEW l
  PROVE  FileOf(n, i, l).size = n /\ FileOf(n, i, l).start_index = i /\ FileOf(n, i, l).sparse = l
  BY DEF FileOf

\* The record of file n is replaced.
LEMMA FileReplaced ==
  ASSUME NEW s, Shape(s), NEW n \in Files, NEW r, r = FileOf(r.size, r.start_index, r.sparse)
  PROVE  /\ Shape([s EXCEPT !.file[n] = r])
         /\ [s EXCEPT !.file[n] = r].data_offset = s.data_offset
         /\ \A f \in Files : [s EXCEPT !.file[n] = r].file[f] = IF f = n THEN r ELSE s.file[f]
<1>1. PICK F : F = [s.file EXCEPT ![n] = r]
  OBVIOUS
<1>2. s.file = [f \in Files |-> s.file[f]]
      /\ \A f \in Files : s.file[f] = FileOf(s.file[f].size, s.file[f].start_index, s.file[f].sparse)
  BY DEF Shape
<1>3. F = [f \in Files |-> F[f]] /\ \A f \in Files : F[f] = IF f = n THEN r ELSE s.file[f]
  BY <1>1, <1>2
<1>4. \A f \in Files : F[f] = FileOf(F[f].size, F[f].start_index, F[f].sparse)
  BY <1>2, <1>3
<1>5. PICK a : a = [s EXCEPT !.file = F]
  OBVIOUS
<1>6. Shape(a) /\ a.file = F /\ a.data_offset = s.data_offset
  BY <1>3, <1>4, <1>5, OtherFiles
<1>7. [s EXCEPT !.file[n] = r] = a
  BY <1>1, <1>5
<1> QED BY <1>3, <1>6, <1>7

\* Two changes that leave the lists alone.
LEMMA SameTwice ==
  ASSUME NEW a, NEW b, NEW s, SameLists(a, b), SameLists(b, s)
  PROVE  SameLists(a, s)
  BY DEF SameLists

\* SameLists is about trees.
LEMMA SameShape ==
  ASSUME NEW a, NEW s, SameLists(a, s)
  PROVE  Shape(a)
  BY DEF SameLists

\* Every tree is the same as itself.
LEMMA SameSelf ==
  ASSUME NEW s, Shape(s)
  PROVE  SameLists(s, s)
  BY DEF SameLists

\* The calls to the volume leave the files of the tree alone.
LEMMA VolumeCalls ==
  ASSUME NEW s, Shape(s), NEW b, NEW m, NEW data, NEW dst, NEW src
  PROVE  /\ SameLists(WritePartial(s, b, m, data).fs, s)
         /\ SameLists(Discard(s, b, m), s)
         /\ SameLists(MemMove(s, dst, src, m).fs, s)
<1>1. SameLists(WritePartial(s, b, m, data).fs, s)
  <2>1. CASE b \notin Disk
    <3>1. WritePartial(s, b, m, data).fs = s
      BY <2>1 DEF WritePartial, Err
    <3> QED BY <3>1, SameSelf
  <2>2. CASE b \in Disk
    <3>1. PICK e : e = [j \in InBlk |-> IF j >= m /\ j < m + Len(data)
                                        THEN data[j - m + 1] ELSE s.disk[b][j]]
      OBVIOUS
    <3>2. PICK d : d = [s.disk EXCEPT ![b] = e]
      OBVIOUS
    <3>3. PICK a : a = [s EXCEPT !.disk = d]
      OBVIOUS
    <3>4. WritePartial(s, b, m, data) = Ok([s EXCEPT !.disk[b] = e])
      BY <2>2, <3>1 DEF WritePartial
    <3>5. [s EXCEPT !.disk[b] = e] = a
      BY <3>2, <3>3
    <3>6. WritePartial(s, b, m, data).fs = a
      BY <3>4, <3>5 DEF Ok
    <3>7. SameLists(a, s)
      BY <3>3, OtherFields
    <3> QED BY <3>6, <3>7
  <2> QED BY <2>1, <2>2
<1>2. SameLists(Discard(s, b, m), s)
  BY OtherFields DEF Discard
<1>3. SameLists(MemMove(s, dst, src, m).fs, s)
  <2>1. PICK a : SameLists(a, s) /\ MemMove(s, dst, src, m).fs = a
    BY OtherFields DEF MemMove, Ok, Err
  <2> QED BY <2>1
<1> QED BY <1>1, <1>2, <1>3

\* So does moving runs of blocks around.
LEMMA ShiftDownSame ==
  ASSUME NEW s, Shape(s), NEW from, NEW n
  PROVE  SameLists(ShiftDown(s, from, n), s)
<1>1. PICK F : F = [f \in Files |-> Lowered(s.file[f], from, n)]
  OBVIOUS
<1>2. PICK g : g = { IF b >= from THEN b - n ELSE b : b \in s.gap }
  OBVIOUS
<1>3. PICK a : a = [s EXCEPT !.file = F]
  OBVIOUS
<1>4. PICK c : c = [a EXCEPT !.gap = g]
  OBVIOUS
<1>5. ASSUME NEW f \in Files
      PROVE  /\ F[f] = FileOf(F[f].size, F[f].start_index, F[f].sparse)
             /\ F[f].size = s.file[f].size /\ F[f].sparse = s.file[f].sparse
  <2>1. PICK r : r = s.file[f]
    OBVIOUS
  <2>2. r = FileOf(r.size, r.start_index, r.sparse)
    BY <2>1 DEF Shape
  <2>3. PICK i : i = r.start_index - n
    OBVIOUS
  <2>4. F[f] = [r EXCEPT !.start_index = i] \/ F[f] = r
    BY <1>1, <2>1, <2>3 DEF Lowered
  <2>5. [r EXCEPT !.start_index = i] = FileOf(r.size, i, r.sparse)
    BY <2>2, OtherFileFields
  <2>6. F[f] = FileOf(r.size, i, r.sparse) \/ F[f] = FileOf(r.size, r.start_index, r.sparse)
    BY <2>2, <2>4, <2>5
  <2> QED BY <2>1, <2>6, FileFields
<1>6. F = [f \in Files |-> F[f]]
  BY <1>1
<1>7. Shape(a) /\ a.file = F
  BY <1>3, <1>5, <1>6, OtherFiles
<1>8. SameLists(a, s)
  BY <1>5, <1>7 DEF SameLists
<1>9. SameLists(c, a)
  BY <1>4, <1>7, OtherFields
<1>10. ShiftDown(s, from, n) = c
  <2>1. ShiftDown(s, from, n) = [s EXCEPT !.file = F, !.gap = g]
    BY <1>1, <1>2 DEF ShiftDown
  <2>2. [s EXCEPT !.file = F, !.gap = g] = [[s EXCEPT !.file = F] EXCEPT !.gap = g]
    <3>1. s = TreeOf(s.disk, s.data_offset, s.gap, s.file)
      BY DEF Shape
    <3> QED BY <3>1 DEF TreeOf
  <2> QED BY <1>3, <1>4, <2>1, <2>2
<1>11. SameLists(c, s)
  BY <1>8, <1>9, SameTwice
<1> QED BY <1>10, <1>11

\* The start of a file.
LEMMA StartMoved ==
  ASSUME NEW s, Shape(s), NEW n \in Files, NEW i
  PROVE  SameLists([s EXCEPT !.file[n].start_index = i], s)
<1>1. PICK r : r = s.file[n]
  OBVIOUS
<1>2. r = FileOf(r.size, r.start_index, r.sparse)
  BY <1>1 DEF Shape
<1>3. PICK q : q = [r EXCEPT !.start_index = i]
  OBVIOUS
<1>4. q = FileOf(r.size, i, r.sparse)
  BY <1>2, <1>3, OtherFileFields
<1>5. q.size = r.size /\ q.start_index = i /\ q.sparse = r.sparse
  BY <1>4, FileFields
<1>6. PICK a : a = [s EXCEPT !.file[n] = q]
  OBVIOUS
<1>7. q = FileOf(q.size, q.start_index, q.sparse)
  BY <1>4, <1>5
<1>8. Shape(a) /\ \A f \in Files : a.file[f] = IF f = n THEN q ELSE s.file[f]
  BY <1>6, <1>7, FileReplaced
<1>9. SameLists(a, s)
  BY <1>1, <1>5, <1>8 DEF SameLists
<1>10. [s EXCEPT !.file[n].start_index = i] = a
  BY <1>1, <1>3, <1>6
<1> QED BY <1>9, <1>10

\* fstree_file_move_to_end.
LEMMA MoveToEndSame ==
  ASSUME NEW s, Shape(s), NEW n \in Files
  PROVE  SameLists(MoveToEnd(s, n).fs, s)
<1>1. PICK blk, src, end : blk = PhysBlocks(s.file[n]) /\ src = s.file[n].start_index /\ end = s.data_offset
  OBVIOUS
<1>2. PICK a : a = MemMove(s, end, src, blk)
  OBVIOUS
<1>3. SameLists(a.fs, s)
  BY <1>2, VolumeCalls
<1>4. PICK b : b = MemMove(a.fs, src, src + blk, end - src)
  OBVIOUS
<1>5. SameLists(b.fs, a.fs)
  BY <1>3, <1>4, VolumeCalls, SameShape
<1>6. PICK c : c = Discard(b.fs, end, blk)
  OBVIOUS
<1>7. SameLists(c, b.fs)
  BY <1>5, <1>6, VolumeCalls, SameShape
<1>8. PICK d : d = [c EXCEPT !.file[n].start_index = end]
  OBVIOUS
<1>9. SameLists(d, c)
  BY <1>7, <1>8, StartMoved, SameShape
<1>10. PICK e : e = ShiftDown(d, src, blk)
  OBVIOUS
<1>11. SameLists(e, d)
  BY <1>9, <1>10, ShiftDownSame, SameShape
<1>12. SameLists(b.fs, s) /\ SameLists(e, s)
  BY <1>3, <1>5, <1>7, <1>9, <1>11, SameTwice
<1>13. PICK z : z = [s EXCEPT !.file[n].start_index = end]
  OBVIOUS
<1>14. SameLists(z, s) /\ SameLists(s, s)
  BY <1>13, StartMoved, SameSelf
<1>15. MoveToEnd(s, n).fs \in {z, s, a.fs, b.fs, e}
  <2>1. MoveToEnd(s, n) = IF blk = 0 THEN Ok(z)
                          ELSE IF blk >= end - src THEN Ok(s)
                          ELSE IF a.ok THEN (IF b.ok THEN Ok(e) ELSE b) ELSE a
    BY <1>1, <1>2, <1>4, <1>6, <1>8, <1>10, <1>13 DEF MoveToEnd, Then
  <2> QED BY <2>1 DEF Ok
<1> QED BY <1>3, <1>12, <1>14, <1>15

\* fstree_add_gap.
LEMMA AddGapSame ==
  ASSUME NEW s, Shape(s), NEW index, NEW n
  PROVE  SameLists(AddGap(s, index, n).fs, s)
<1>1. PICK a : a = MemMove(s, index + n, index, s.data_offset - index)
  OBVIOUS
<1>2. SameLists(a.fs, s)
  BY <1>1, VolumeCalls
<1>3. Shape(a.fs)
  BY <1>2, SameShape
<1>4. PICK o : o = a.fs.data_offset + n
  OBVIOUS
<1>5. PICK g : g = { IF b >= index THEN b + n ELSE b : b \in a.fs.gap } \cup index..(index + n - 1)
  OBVIOUS
<1>6. PICK F : F = [f \in Files |-> Raised(a.fs.file[f], index, n)]
  OBVIOUS
<1>7. PICK b : b = [a.fs EXCEPT !.data_offset = o]
  OBVIOUS
<1>8. PICK c : c = [b EXCEPT !.gap = g]
  OBVIOUS
<1>9. PICK d : d = [c EXCEPT !.file = F]
  OBVIOUS
<1>10. SameLists(b, a.fs) /\ b.file = a.fs.file /\ Shape(b)
  BY <1>3, <1>7, OtherFields, SameShape
<1>11. SameLists(c, b) /\ c.file = a.fs.file /\ Shape(c)
  BY <1>8, <1>10, OtherFields, SameShape
<1>12. ASSUME NEW f \in Files
       PROVE  /\ F[f] = FileOf(F[f].size, F[f].start_index, F[f].sparse)
              /\ F[f].size = a.fs.file[f].size /\ F[f].sparse = a.fs.file[f].sparse
  <2>1. PICK r : r = a.fs.file[f]
    OBVIOUS
  <2>2. r = FileOf(r.size, r.start_index, r.sparse)
    BY <1>3, <2>1 DEF Shape
  <2>3. PICK i : i = r.start_index + n
    OBVIOUS
  <2>4. F[f] = [r EXCEPT !.start_index = i] \/ F[f] = r
    BY <1>6, <2>1, <2>3 DEF Raised
  <2>5. [r EXCEPT !.start_index = i] = FileOf(r.size, i, r.sparse)
    BY <2>2, OtherFileFields
  <2>6. F[f] = FileOf(r.size, i, r.sparse) \/ F[f] = FileOf(r.size, r.start_index, r.sparse)
    BY <2>2, <2>4, <2>5
  <2> QED BY <2>1, <2>6, FileFields
<1>13. F = [f \in Files |-> F[f]]
  BY <1>6
<1>14. Shape(d) /\ d.file = F
  BY <1>9, <1>11, <1>12, <1>13, OtherFiles
<1>15. SameLists(d, s)
  <2>1. \A f \in Files : d.file[f].size = a.fs.file[f].size /\ d.file[f].sparse = a.fs.file[f].sparse
    BY <1>12, <1>14
  <2>2. \A f \in Files : a.fs.file[f].size = s.file[f].size /\ a.fs.file[f].sparse = s.file[f].sparse
    BY <1>2 DEF SameLists
  <2> QED BY <1>14, <2>1, <2>2 DEF SameLists
<1>16. PICK e : e = Discard(d, index, n)
  OBVIOUS
<1>17. SameLists(e, s)
  BY <1>14, <1>15, <1>16, VolumeCalls, SameTwice
<1>18. [a.fs EXCEPT !.data_offset = o, !.gap = g, !.file = F] = d
  <2>1. PICK z : z = a.fs
    OBVIOUS
  <2>2. z = TreeOf(z.disk, z.data_offset, z.gap, z.file)
    BY <1>3, <2>1 DEF Shape
  <2>3. [z EXCEPT !.data_offset = o, !.gap = g, !.file = F]
          = [[[z EXCEPT !.data_offset = o] EXCEPT !.gap = g] EXCEPT !.file = F]
    BY <2>2 DEF TreeOf
  <2> QED BY <1>7, <1>8, <1>9, <2>1, <2>3
<1>19. PICK o2, g2 : o2 = index + n /\ g2 = s.gap \cup index..(index + n - 1)
  OBVIOUS
<1>20. PICK p : p = [s EXCEPT !.data_offset = o2]
  OBVIOUS
<1>21. PICK q : q = [p EXCEPT !.gap = g2]
  OBVIOUS
<1>22. SameLists(p, s) /\ Shape(p)
  BY <1>20, OtherFields, SameShape
<1>23. SameLists(q, p) /\ Shape(q)
  BY <1>21, <1>22, OtherFields, SameShape
<1>24. PICK r : r = Discard(q, index, n)
  OBVIOUS
<1>25. SameLists(r, s)
  BY <1>22, <1>23, <1>24, VolumeCalls, SameTwice
<1>26. [s EXCEPT !.data_offset = o2, !.gap = g2] = q
  <2>1. s = TreeOf(s.disk, s.data_offset, s.gap, s.file)
    BY DEF Shape
  <2>2. [s EXCEPT !.data_offset = o2, !.gap = g2] = [[s EXCEPT !.data_offset = o2] EXCEPT !.gap = g2]
    BY <2>1 DEF TreeOf
  <2> QED BY <1>20, <1>21, <2>2
<1>27. AddGap(s, index, n).fs \in {a.fs, e, r}
  <2>1. AddGap(s, index, n) = IF index < s.data_offset THEN (IF a.ok THEN Ok(e) ELSE a) ELSE Ok(r)
    BY <1>1, <1>4, <1>5, <1>6, <1>16, <1>18, <1>19, <1>24, <1>26 DEF AddGap, Then
  <2> QED BY <2>1 DEF Ok
<1> QED BY <1>2, <1>17, <1>25, <1>27

-----------------------------------------------------------------------------
\* A file of some size with a list of holes: the list is well formed and names no
\* block past the end of the file.
FileGood(size, l) ==
  /\ size \in Nat /\ ListOK(l)
  /\ \A x \in Nat : IsSparse(l, x) => x < BlocksFor(size)

TreeGood(s) == Shape(s) /\ \A f \in Files : FileGood(s.file[f].size, s.file[f].sparse)

\* The sizes of the files in a are those in s, or greater.
SameSizes(a, s) == \A f \in Files : a.file[f].size = s.file[f].size
NotShorter(a, s) == \A f \in Files : a.file[f].size >= s.file[f].size

\* What the operations that only move blocks do to that.
LEMMA SameGood ==
  ASSUME NEW a, NEW s, TreeGood(s), SameLists(a, s)
  PROVE  TreeGood(a) /\ SameSizes(a, s) /\ Shape(a)
  BY DEF TreeGood, SameLists, SameSizes

\* SetSparse.
LEMMA SetSparseFacts ==
  ASSUME NEW s, Shape(s), NEW n \in Files, NEW l
  PROVE  /\ Shape(SetSparse(s, n, l))
         /\ SameSizes(SetSparse(s, n, l), s)
         /\ \A f \in Files : SetSparse(s, n, l).file[f].sparse = IF f = n THEN l ELSE s.file[f].sparse
<1>1. PICK r : r = s.file[n]
  OBVIOUS
<1>2. r = FileOf(r.size, r.start_index, r.sparse)
  BY <1>1 DEF Shape
<1>3. PICK q : q = [r EXCEPT !.sparse = l]
  OBVIOUS
<1>4. q = FileOf(r.size, r.start_index, l)
  BY <1>2, <1>3, OtherFileFields
<1>5. q.size = r.size /\ q.start_index = r.start_index /\ q.sparse = l
  BY <1>4, FileFields
<1>6. PICK a : a = [s EXCEPT !.file[n] = q]
  OBVIOUS
<1>7. q = FileOf(q.size, q.start_index, q.sparse)
  BY <1>4, <1>5
<1>8. Shape(a) /\ \A f \in Files : a.file[f] = IF f = n THEN q ELSE s.file[f]
  BY <1>6, <1>7, FileReplaced
<1>9. SetSparse(s, n, l) = a
  BY <1>1, <1>3, <1>6 DEF SetSparse
<1>10. \A f \in Files : a.file[f].size = s.file[f].size
                        /\ a.file[f].sparse = IF f = n THEN l ELSE s.file[f].sparse
  BY <1>1, <1>5, <1>8
<1> QED BY <1>8, <1>9, <1>10 DEF SameSizes

\* With a list that is good for the file the tree stays good.
LEMMA SetSparseGood ==
  ASSUME NEW s, TreeGood(s), NEW n \in Files, NEW l, FileGood(s.file[n].size, l)
  PROVE  TreeGood(SetSparse(s, n, l)) /\ SameSizes(SetSparse(s, n, l), s)
<1>1. PICK a : a = SetSparse(s, n, l)
  OBVIOUS
<1>2. Shape(s)
  BY DEF TreeGood
<1>3. Shape(a) /\ SameSizes(a, s)
      /\ \A f \in Files : a.file[f].sparse = IF f = n THEN l ELSE s.file[f].sparse
  BY <1>1, <1>2, SetSparseFacts
<1>4. ASSUME NEW f \in Files PROVE FileGood(a.file[f].size, a.file[f].sparse)
  <2>1. a.file[f].size = s.file[f].size /\ FileGood(s.file[f].size, s.file[f].sparse)
    BY <1>3 DEF SameSizes, TreeGood
  <2> QED BY <1>3, <2>1
<1> QED BY <1>1, <1>3, <1>4 DEF TreeGood

\* The used area gets longer.
LEMMA UsedSame ==
  ASSUME NEW s, Shape(s), NEW n
  PROVE  SameLists(Used(s, n), s)
<1>1. PICK o : o = s.data_offset + n
  OBVIOUS
<1>2. Used(s, n) = [s EXCEPT !.data_offset = o]
  BY <1>1 DEF Used
<1> QED BY <1>2, OtherFields

\* A file gets longer.
SetSize(s, n, z) == [s EXCEPT !.file[n].size = z]

\* Nothing else changes.
LEMMA SizeChanged ==
  ASSUME NEW s, Shape(s), NEW n \in Files, NEW z
  PROVE  /\ Shape(SetSize(s, n, z))
         /\ \A f \in Files : /\ SetSize(s, n, z).file[f].sparse = s.file[f].sparse
                             /\ SetSize(s, n, z).file[f].size = IF f = n THEN z ELSE s.file[f].size
<1>1. PICK r : r = s.file[n]
  OBVIOUS
<1>2. r = FileOf(r.size, r.start_index, r.sparse)
  BY <1>1 DEF Shape
<1>3. PICK q : q = [r EXCEPT !.size = z]
  OBVIOUS
<1>4. q = FileOf(z, r.start_index, r.sparse)
  BY <1>2, <1>3, OtherFileFields
<1>5. q.size = z /\ q.start_index = r.start_index /\ q.sparse = r.sparse
  BY <1>4, FileFields
<1>6. PICK a : a = [s EXCEPT !.file[n] = q]
  OBVIOUS
<1>7. q = FileOf(q.size, q.start_index, q.sparse)
  BY <1>4, <1>5
<1>8. Shape(a) /\ \A f \in Files : a.file[f] = IF f = n THEN q ELSE s.file[f]
  BY <1>6, <1>7, FileReplaced
<1>9. SetSize(s, n, z) = a
  BY <1>1, <1>3, <1>6 DEF SetSize
<1>10. \A f \in Files : a.file[f].sparse = s.file[f].sparse
                        /\ a.file[f].size = IF f = n THEN z ELSE s.file[f].size
  BY <1>1, <1>5, <1>8
<1> QED BY <1>8, <1>9, <1>10

\* A longer file with the same list, or with one that is short enough for it.
LEMMA FileGrows ==
  ASSUME NEW x, NEW l, FileGood(x, l), NEW y \in Nat, x <= y
  PROVE  FileGood(y, l)
<1>1. x \in Nat
  BY DEF FileGood
<1>2. BlocksFor(x) <= BlocksFor(y) /\ BlocksFor(x) \in Nat /\ BlocksFor(y) \in Nat
  BY <1>1, BlocksForGrows, BlocksForFacts
<1> QED BY <1>2 DEF FileGood

\* fstree_file_mark_sparse and _mark_not_sparse for a block of the file.
LEMMA MarkedGood ==
  ASSUME NEW x, NEW l, FileGood(x, l), NEW i \in Nat
  PROVE  /\ i < BlocksFor(x) => FileGood(x, MarkSparse(l, i))
         /\ FileGood(x, MarkNotSparse(l, i))
<1>1. ListOK(l) /\ x \in Nat /\ \A y \in Nat : IsSparse(l, y) => y < BlocksFor(x)
  BY DEF FileGood
<1>2. WithBlock(l, MarkSparse(l, i), i)
  BY <1>1, MarkSparseFacts
<1>3. WithoutBlock(l, MarkNotSparse(l, i), i)
  BY <1>1, MarkNotSparseFacts
<1>4. i < BlocksFor(x) => FileGood(x, MarkSparse(l, i))
  BY <1>1, <1>2 DEF WithBlock, FileGood
<1>5. FileGood(x, MarkNotSparse(l, i))
  BY <1>1, <1>3 DEF WithoutBlock, FileGood
<1> QED BY <1>4, <1>5

\* append_to_tail shortens a region by its last block.
LEMMA DropLastGood ==
  ASSUME NEW x, NEW l, FileGood(x, l), NEW k \in 1..Len(l)
  PROVE  FileGood(x, DropLastOf(l, k))
<1>1. ListOK(l) /\ x \in Nat /\ \A y \in Nat : IsSparse(l, y) => y < BlocksFor(x)
  BY DEF FileGood
<1>2. l \in Seq(Region)
  BY <1>1 DEF ListOK
<1>3. PICK a \in Nat, c \in Nat \ {0} : At(l, k, a, c)
  BY <1>1, AtFacts
<1>4. l[k].index = a /\ l[k].count = c
  BY <1>3 DEF At
<1>5. /\ \A y \in Nat : Covers(l[k], y) <=> a <= y /\ y < a + c
      /\ k < Len(l) => a + c < l[k + 1].index /\ l[k + 1].index \in Nat
      /\ k > 1 => RegionEnd(l[k - 1]) < a
  BY <1>1, <1>3, AtNumbers
<1>6. CASE c = 1
  <2>1. PICK t : t = RemoveAt(l, k)
    OBVIOUS
  <2>2. DropLastOf(l, k) = t
    BY <1>4, <1>6, <2>1 DEF DropLastOf
  <2>3. Removed(l, t, k)
    BY <1>2, <2>1, RemovedFacts
  <2>4. ListOK(t)
    BY <1>1, <2>3, RemovedOK
  <2>5. \A y \in Nat : IsSparse(t, y) => IsSparse(l, y)
    BY <2>3 DEF Removed, IsSparse
  <2> QED BY <1>1, <2>2, <2>4, <2>5 DEF FileGood
<1>7. CASE c # 1
  <2>1. PICK e \in Nat \ {0} : e = c - 1
    BY <1>7
  <2>2. DropLastOf(l, k) = Recount(l, k, e)
    BY <1>4, <1>7, <2>1 DEF DropLastOf, Recount
  <2>3. PICK t : t = [l EXCEPT ![k] = Reg(a, e)]
    OBVIOUS
  <2>4. Recount(l, k, e) = t
    BY <1>2, <1>4, <2>3, Recounted
  <2>5. (k > 1 => RegionEnd(l[k - 1]) < a) /\ (k < Len(l) => a + e < l[k + 1].index)
    BY <1>5, <2>1
  <2>6. ListOK(t)
    BY <1>1, <2>3, <2>5, RegionReplaced
  <2>7. \A y \in Nat : IsSparse(t, y) <=> \/ a <= y /\ y < a + e
                                          \/ \E j \in 1..Len(l) : j # k /\ Covers(l[j], y)
    BY <1>1, <2>3, <2>5, RegionReplaced
  <2>8. ASSUME NEW y \in Nat, a <= y /\ y < a + e PROVE Covers(l[k], y)
    BY <1>5, <2>1, <2>8
  <2>9. \A y \in Nat : IsSparse(t, y) => IsSparse(l, y)
    BY <2>7, <2>8 DEF IsSparse
  <2> QED BY <1>1, <2>2, <2>4, <2>6, <2>9 DEF FileGood
<1> QED BY <1>6, <1>7

-----------------------------------------------------------------------------
\* A call leaves a good tree with the same file sizes behind, whether it fails or not.
Keeps(a, s) == TreeGood(a) /\ SameSizes(a, s)

\* Two such calls.
LEMMA KeepsTwice ==
  ASSUME NEW a, NEW b, NEW s, Keeps(a, b), Keeps(b, s)
  PROVE  Keeps(a, s)
  BY DEF Keeps, SameSizes

\* The calls that only move blocks are of this kind.
LEMMA KeepsLists ==
  ASSUME NEW a, NEW s, TreeGood(s), SameLists(a, s)
  PROVE  Keeps(a, s)
  BY SameGood DEF Keeps

\* A good tree is a tree.
LEMMA GoodShape ==
  ASSUME NEW s, TreeGood(s)
  PROVE  Shape(s) /\ Keeps(s, s)
  BY DEF TreeGood, Keeps, SameSizes

\* So is what the operations of the tree and of the volume do.
LEMMA KeepsCalls ==
  ASSUME NEW s, TreeGood(s), NEW b, NEW m, NEW data, NEW dst, NEW src, NEW n \in Files
  PROVE  /\ Keeps(WritePartial(s, b, m, data).fs, s)
         /\ Keeps(Discard(s, b, m), s)
         /\ Keeps(MemMove(s, dst, src, m).fs, s)
         /\ Keeps(Used(s, m), s)
         /\ Keeps(MoveToEnd(s, n).fs, s)
         /\ Keeps(ShiftDown(s, b, m), s)
<1>1. Shape(s)
  BY GoodShape
<1>2. /\ SameLists(WritePartial(s, b, m, data).fs, s)
      /\ SameLists(Discard(s, b, m), s)
      /\ SameLists(MemMove(s, dst, src, m).fs, s)
  BY <1>1, VolumeCalls
<1>3. SameLists(Used(s, m), s) /\ SameLists(MoveToEnd(s, n).fs, s) /\ SameLists(ShiftDown(s, b, m), s)
  BY <1>1, UsedSame, MoveToEndSame, ShiftDownSame
<1> QED BY <1>2, <1>3, KeepsLists

\* What Keeps is about.
LEMMA KeepsGood ==
  ASSUME NEW a, NEW s, Keeps(a, s)
  PROVE  TreeGood(a)
  BY DEF Keeps

\* append_to_tail.
LEMMA TailGood ==
  ASSUME NEW s, TreeGood(s), NEW n \in Files, NEW i, NEW z, NEW data
  PROVE  Keeps(append_to_tail(s, n, i, z, data).fs, s)
<1>1. PICK l : l = s.file[n].sparse
  OBVIOUS
<1>2. FileGood(s.file[n].size, l) /\ ListOK(l) /\ Len(l) \in Nat
  BY <1>1 DEF TreeGood, FileGood, ListOK
<1>3. PICK k : k = TailRegion(s.file[n], i)
  OBVIOUS
<1>4. k # 0 => k \in 1..Len(l)
  <2>1. PICK I : I = { j \in 1..Len(l) : l[j].count >= i - l[j].index }
    OBVIOUS
  <2>2. k = FirstOf(I)
    BY <1>1, <1>3, <2>1 DEF TailRegion, SelectInSeq, FirstOf
  <2>3. k # 0 => k \in I
    BY <1>2, <2>1, <2>2, FirstFacts
  <2> QED BY <2>1, <2>3
<1>5. PICK w : w = WritePartial(s, s.file[n].start_index + i - CountWhere(l, LAMBDA r : TRUE), z, data)
  OBVIOUS
<1>6. Keeps(w.fs, s)
  BY <1>5, KeepsCalls
<1>7. PICK a : a = MoveToEnd(s, n)
  OBVIOUS
<1>8. Keeps(a.fs, s) /\ TreeGood(a.fs)
  BY <1>7, KeepsCalls, KeepsGood
<1>9. PICK b : b = WritePartial(a.fs, a.fs.data_offset, 0, Zeros(z))
  OBVIOUS
<1>10. Keeps(b.fs, a.fs) /\ TreeGood(b.fs)
  BY <1>8, <1>9, KeepsCalls, KeepsGood
<1>11. PICK c : c = SetSparse(b.fs, n, DropLastOf(b.fs.file[n].sparse, k))
  OBVIOUS
<1>12. k # 0 => Keeps(c, b.fs) /\ TreeGood(c)
  <2> SUFFICES ASSUME k # 0 PROVE Keeps(c, b.fs) /\ TreeGood(c)
    OBVIOUS
  <2>1. b.fs.file[n].sparse = l
    <3>1. Shape(s)
      BY GoodShape
    <3>2. SameLists(a.fs, s) /\ Shape(a.fs)
      BY <1>7, <3>1, MoveToEndSame, SameShape
    <3>3. SameLists(b.fs, a.fs)
      BY <1>9, <3>2, VolumeCalls
    <3> QED BY <1>1, <3>2, <3>3 DEF SameLists
  <2>2. FileGood(b.fs.file[n].size, l)
    BY <1>10, <2>1 DEF TreeGood
  <2>3. FileGood(b.fs.file[n].size, DropLastOf(l, k))
    BY <1>4, <2>2, DropLastGood
  <2>4. TreeGood(c) /\ SameSizes(c, b.fs)
    BY <1>10, <1>11, <2>1, <2>3, SetSparseGood
  <2> QED BY <2>4 DEF Keeps
<1>13. PICK d : d = Used(c, 1)
  OBVIOUS
<1>14. PICK e : e = WritePartial(d, b.fs.data_offset, z, data)
  OBVIOUS
<1>15. k # 0 => Keeps(e.fs, s)
  <2> SUFFICES ASSUME k # 0 PROVE Keeps(e.fs, s)
    OBVIOUS
  <2>1. Keeps(d, c) /\ TreeGood(d)
    BY <1>12, <1>13, KeepsCalls, KeepsGood
  <2>2. Keeps(e.fs, d)
    BY <1>14, <2>1, KeepsCalls
  <2> QED BY <1>8, <1>10, <1>12, <2>1, <2>2, KeepsTwice
<1>16. append_to_tail(s, n, i, z, data) =
         IF k = 0 THEN w
         ELSE IF is_memory_zero(data) THEN Ok(s)
         ELSE IF a.ok THEN (IF b.ok THEN e ELSE b) ELSE a
  BY <1>1, <1>3, <1>5, <1>7, <1>9, <1>11, <1>13, <1>14 DEF append_to_tail, Then
<1>17. Keeps(b.fs, s) /\ Keeps(s, s) /\ Ok(s).fs = s
  BY <1>8, <1>10, KeepsTwice, GoodShape DEF Ok
<1> QED BY <1>6, <1>8, <1>15, <1>16, <1>17

\* append_block.
LEMMA BlockGood ==
  ASSUME NEW s, TreeGood(s), NEW n \in Files, NEW data
  PROVE  Keeps(append_block(s, n, data).fs, s)
<1>1. PICK a : a = MoveToEnd(s, n)
  OBVIOUS
<1>2. Keeps(a.fs, s) /\ TreeGood(a.fs)
  BY <1>1, KeepsCalls, KeepsGood
<1>3. PICK b : b = WritePartial(a.fs, a.fs.data_offset, 0, data \o Zeros(BlockSize - Len(data)))
  OBVIOUS
<1>4. Keeps(b.fs, a.fs) /\ TreeGood(b.fs)
  BY <1>2, <1>3, KeepsCalls, KeepsGood
<1>5. PICK c : c = Used(b.fs, 1)
  OBVIOUS
<1>6. Keeps(c, b.fs)
  BY <1>4, <1>5, KeepsCalls
<1>7. append_block(s, n, data) = IF a.ok THEN (IF b.ok THEN Ok(c) ELSE b) ELSE a
  BY <1>1, <1>3, <1>5 DEF append_block, Then
<1>8. Keeps(b.fs, s) /\ Keeps(c, s) /\ Ok(c).fs = c
  BY <1>2, <1>4, <1>6, KeepsTwice DEF Ok
<1> QED BY <1>2, <1>7, <1>8

\* One turn of fstree_file_append: the list of the file still ends within it, also
\* when the block that is appended is a hole.
LEMMA AppendStepGood ==
  ASSUME NEW s, TreeGood(s), NEW n \in Files, NEW data, Len(data) \in Nat \ {0}
  PROVE  TreeGood(AppendStep(s, n, data).fs) /\ NotShorter(AppendStep(s, n, data).fs, s)
<1>1. PICK z \in Nat : z = s.file[n].size
  BY DEF TreeGood, FileGood
<1>2. PICK y \in Nat : y = z + Len(data)
  OBVIOUS
<1>3. PICK i : i = z \div BlockSize
  OBVIOUS
<1>4. i \in Nat /\ i < BlocksFor(y)
  BY <1>2, <1>3, BlocksForFacts
<1>5. PICK l : l = s.file[n].sparse
  OBVIOUS
<1>6. FileGood(z, l)
  BY <1>1, <1>5 DEF TreeGood
<1>7. PICK c : c = SetSparse(s, n, MarkSparse(l, i))
  OBVIOUS
<1>8. Shape(c) /\ SameSizes(c, s)
      /\ \A f \in Files : c.file[f].sparse = IF f = n THEN MarkSparse(l, i) ELSE s.file[f].sparse
  BY <1>7, GoodShape, SetSparseFacts
<1>9. FileGood(y, MarkSparse(l, i))
  <2>1. FileGood(y, l)
    BY <1>2, <1>6, FileGrows
  <2> QED BY <1>4, <2>1, MarkedGood
<1> DEFINE Grown(a) == SetSize(a, n, y)
           Nearly(a) == /\ Shape(a) /\ SameSizes(a, s) /\ FileGood(y, a.file[n].sparse)
                        /\ \A f \in Files : f # n => FileGood(s.file[f].size, a.file[f].sparse)
<1>10. ASSUME NEW a, Nearly(a) PROVE TreeGood(Grown(a)) /\ NotShorter(Grown(a), s)
  <2>1. PICK g : g = Grown(a)
    OBVIOUS
  <2>2. /\ Shape(g)
        /\ \A f \in Files : g.file[f].sparse = a.file[f].sparse
                            /\ g.file[f].size = IF f = n THEN y ELSE a.file[f].size
    BY <1>10, <2>1, SizeChanged
  <2>3. \A f \in Files : a.file[f].size = s.file[f].size /\ s.file[f].size \in Nat
    BY <1>10 DEF SameSizes, TreeGood, FileGood
  <2>4. ASSUME NEW f \in Files
        PROVE  FileGood(g.file[f].size, g.file[f].sparse) /\ g.file[f].size >= s.file[f].size
    <3>1. CASE f = n
      BY <1>1, <1>2, <1>10, <2>2, <2>3, <3>1
    <3>2. CASE f # n
      <4>1. g.file[f].size = s.file[f].size /\ s.file[f].size \in Nat
        BY <2>2, <2>3, <3>2
      <4>2. FileGood(g.file[f].size, g.file[f].sparse)
        BY <1>10, <2>2, <3>2, <4>1
      <4> QED BY <4>1, <4>2
    <3> QED BY <3>1, <3>2
  <2> QED BY <2>1, <2>2, <2>4 DEF TreeGood, NotShorter
<1>11. Nearly(c)
  <2>1. \A f \in Files : f # n => FileGood(s.file[f].size, c.file[f].sparse)
    BY <1>8 DEF TreeGood
  <2> QED BY <1>8, <1>9, <2>1
<1>12. ASSUME NEW a, Keeps(a, s) PROVE Nearly(a)
  <2>1. TreeGood(a) /\ SameSizes(a, s)
    BY <1>12 DEF Keeps
  <2>2. \A f \in Files : FileGood(s.file[f].size, a.file[f].sparse)
    BY <2>1 DEF TreeGood, SameSizes
  <2>3. FileGood(y, a.file[n].sparse)
    <3>1. FileGood(z, a.file[n].sparse)
      BY <1>1, <2>2
    <3> QED BY <1>2, <3>1, FileGrows
  <2> QED BY <2>1, <2>2, <2>3 DEF TreeGood
<1>13. ASSUME NEW a, Keeps(a, s) PROVE TreeGood(a) /\ NotShorter(a, s)
  <2>1. \A f \in Files : a.file[f].size = s.file[f].size /\ s.file[f].size \in Nat
    BY <1>13 DEF Keeps, SameSizes, TreeGood, FileGood
  <2> QED BY <1>13, <2>1 DEF Keeps, NotShorter
<1>14. PICK t, b : t = append_to_tail(s, n, i, z % BlockSize, data) /\ b = append_block(s, n, data)
  OBVIOUS
<1>15. Keeps(t.fs, s) /\ Keeps(b.fs, s)
  BY <1>14, TailGood, BlockGood
<1>16. PICK o : o = IF z % BlockSize > 0 THEN t
                    ELSE IF ~NoSparse /\ is_memory_zero(data) THEN Ok(c) ELSE b
  OBVIOUS
<1>17. AppendStep(s, n, data) = IF o.ok THEN Ok([o.fs EXCEPT !.file[n].size = o.fs.file[n].size + Len(data)])
                                ELSE o
  BY <1>1, <1>3, <1>5, <1>7, <1>14, <1>16 DEF AppendStep, Then
<1>18. Ok(c).ok /\ Ok(c).fs = c
  BY DEF Ok
<1>19. Nearly(o.fs) /\ (~o.ok => Keeps(o.fs, s))
  <2>1. o = t \/ o = b \/ o = Ok(c)
    BY <1>16
  <2>2. Nearly(t.fs) /\ Nearly(b.fs)
    BY <1>12, <1>15
  <2> HIDE DEF Nearly
  <2> QED BY <1>11, <1>15, <1>18, <2>1, <2>2
<1>20. o.fs.file[n].size + Len(data) = y
  BY <1>1, <1>2, <1>19 DEF SameSizes
<1>21. AppendStep(s, n, data) = IF o.ok THEN Ok(Grown(o.fs)) ELSE o
  BY <1>17, <1>20 DEF SetSize
<1>22. CASE o.ok
  <2>1. AppendStep(s, n, data).fs = Grown(o.fs)
    BY <1>21, <1>22 DEF Ok
  <2> HIDE DEF Nearly, Grown
  <2> QED BY <1>10, <1>19, <2>1
<1>23. CASE ~o.ok
  BY <1>13, <1>19, <1>21, <1>23
<1> QED BY <1>22, <1>23

\* insert_sparse_block and remove_file_block.
LEMMA HoleGood ==
  ASSUME NEW s, TreeGood(s), NEW n \in Files, NEW real, NEW i \in Nat
  PROVE  /\ Keeps(insert_sparse_block(s, n, real, i).fs, s)
         /\ i < BlocksFor(s.file[n].size) => Keeps(remove_file_block(s, n, real, i).fs, s)
<1>1. ASSUME NEW a, Keeps(a, s)
      PROVE  /\ Keeps(SetSparse(a, n, MarkNotSparse(a.file[n].sparse, i)), s)
             /\ i < BlocksFor(s.file[n].size) =>
                  Keeps(SetSparse(a, n, MarkSparse(a.file[n].sparse, i)), s)
  <2>1. TreeGood(a) /\ a.file[n].size = s.file[n].size
    BY <1>1 DEF Keeps, SameSizes
  <2>2. FileGood(a.file[n].size, a.file[n].sparse)
    BY <2>1 DEF TreeGood
  <2>3. PICK p, q : p = MarkNotSparse(a.file[n].sparse, i) /\ q = MarkSparse(a.file[n].sparse, i)
    OBVIOUS
  <2>4. FileGood(a.file[n].size, p) /\ (i < BlocksFor(a.file[n].size) => FileGood(a.file[n].size, q))
    BY <2>2, <2>3, MarkedGood
  <2>5. Keeps(SetSparse(a, n, p), a)
    BY <2>1, <2>4, SetSparseGood DEF Keeps
  <2>6. i < BlocksFor(a.file[n].size) => Keeps(SetSparse(a, n, q), a)
    BY <2>1, <2>4, SetSparseGood DEF Keeps
  <2> QED BY <1>1, <2>1, <2>3, <2>5, <2>6, KeepsTwice
<1>2. ASSUME NEW c, Keeps(c, s), NEW d, NEW b, NEW m PROVE Keeps(Discard(Used(c, d), b, m), s)
  <2>1. TreeGood(c)
    BY <1>2, KeepsGood
  <2>2. Keeps(Used(c, d), c) /\ TreeGood(Used(c, d))
    BY <2>1, KeepsCalls, KeepsGood
  <2>3. Keeps(Discard(Used(c, d), b, m), Used(c, d))
    BY <2>2, KeepsCalls
  <2> QED BY <1>2, <2>2, <2>3, KeepsTwice
<1>3. Keeps(insert_sparse_block(s, n, real, i).fs, s)
  <2>1. PICK a : a = MemMove(s, real + 1, real, s.data_offset - real)
    OBVIOUS
  <2>2. Keeps(a.fs, s)
    BY <2>1, KeepsCalls
  <2>3. PICK c : c = SetSparse(a.fs, n, MarkNotSparse(a.fs.file[n].sparse, i))
    OBVIOUS
  <2>4. PICK e : e = Discard(Used(c, 1), real, 1)
    OBVIOUS
  <2>5. Keeps(e, s)
    BY <1>1, <1>2, <2>2, <2>3, <2>4
  <2>6. insert_sparse_block(s, n, real, i) = IF a.ok THEN Ok(e) ELSE a
    BY <2>1, <2>3, <2>4 DEF insert_sparse_block, Then
  <2>7. Ok(e).fs = e
    BY DEF Ok
  <2> QED BY <2>2, <2>5, <2>6, <2>7
<1>4. ASSUME i < BlocksFor(s.file[n].size) PROVE Keeps(remove_file_block(s, n, real, i).fs, s)
  <2>1. PICK a : a = MemMove(s, real, real + 1, s.data_offset - real - 1)
    OBVIOUS
  <2>2. Keeps(a.fs, s)
    BY <2>1, KeepsCalls
  <2>3. PICK c : c = SetSparse(a.fs, n, MarkSparse(a.fs.file[n].sparse, i))
    OBVIOUS
  <2>4. PICK e : e = Discard(Used(c, -1), a.fs.data_offset - 1, 1)
    OBVIOUS
  <2>5. Keeps(e, s)
    BY <1>1, <1>2, <1>4, <2>2, <2>3, <2>4
  <2>6. remove_file_block(s, n, real, i) = IF a.ok THEN Ok(e) ELSE a
    BY <2>1, <2>3, <2>4 DEF remove_file_block, Then
  <2>7. Ok(e).fs = e
    BY DEF Ok
  <2> QED BY <2>2, <2>5, <2>6, <2>7
<1> QED BY <1>3, <1>4

\* One turn of fstree_file_write, within the file.
LEMMA WriteStepGood ==
  ASSUME NEW s, TreeGood(s), NEW n \in Files, NEW i \in Nat, i < BlocksFor(s.file[n].size),
         NEW m, NEW data
  PROVE  Keeps(WriteStep(s, n, i, m, data).fs, s)
<1>1. PICK f, k, rel : f = s.file[n] /\ k = RegionOf(f.sparse, i)
                       /\ rel = i - Skipped(f, i)
  OBVIOUS
<1>2. PICK a : a = MoveToEnd(s, n)
  OBVIOUS
<1>3. Keeps(a.fs, s) /\ TreeGood(a.fs)
  BY <1>2, KeepsCalls, KeepsGood
<1>4. PICK h : h = (a.fs.file[n].start_index + rel) - (i - f.sparse[k].index)
  OBVIOUS
<1>5. PICK b : b = insert_sparse_block(a.fs, n, h, i)
  OBVIOUS
<1>6. Keeps(b.fs, a.fs) /\ TreeGood(b.fs)
  BY <1>3, <1>5, HoleGood, KeepsGood
<1>7. PICK c : c = WritePartial(b.fs, h, m, data)
  OBVIOUS
<1>8. Keeps(c.fs, b.fs)
  BY <1>6, <1>7, KeepsCalls
<1>9. PICK d : d = remove_file_block(a.fs, n, a.fs.file[n].start_index + rel, i)
  OBVIOUS
<1>10. Keeps(d.fs, a.fs)
  <2>1. a.fs.file[n].size = s.file[n].size
    BY <1>3 DEF Keeps, SameSizes
  <2> QED BY <1>3, <1>9, <2>1, HoleGood
<1>11. PICK e : e = WritePartial(s, s.file[n].start_index + rel, m, data)
  OBVIOUS
<1>12. Keeps(e.fs, s) /\ Keeps(s, s) /\ Ok(s).fs = s
  BY <1>11, KeepsCalls, GoodShape DEF Ok
<1>13. Keeps(b.fs, s) /\ Keeps(c.fs, s) /\ Keeps(d.fs, s)
  BY <1>3, <1>6, <1>8, <1>10, KeepsTwice
<1>14. CASE k # 0 /\ is_memory_zero(data)
  <2>1. WriteStep(s, n, i, m, data) = Ok(s)
    BY <1>1, <1>14 DEF WriteStep
  <2> QED BY <1>12, <2>1
<1>15. CASE k # 0 /\ ~is_memory_zero(data)
  <2>1. FillHole(a.fs, n, h, i, m, data) = IF b.ok THEN c ELSE b
    BY <1>5, <1>7 DEF FillHole, Then
  <2>2. WriteStep(s, n, i, m, data) = IF a.ok THEN FillHole(a.fs, n, h, i, m, data) ELSE a
    BY <1>1, <1>2, <1>4, <1>15 DEF WriteStep, Then
  <2> QED BY <1>3, <1>13, <2>1, <2>2
<1>16. CASE k = 0 /\ ~NoSparse /\ is_memory_zero(data) /\ CoversBlock(f, i, m, data)
  <2>1. WriteStep(s, n, i, m, data) = IF a.ok THEN d ELSE a
    BY <1>1, <1>2, <1>9, <1>16 DEF WriteStep, Then
  <2> QED BY <1>3, <1>13, <2>1
<1>17. CASE k = 0 /\ ~(~NoSparse /\ is_memory_zero(data) /\ CoversBlock(f, i, m, data))
  <2>1. WriteStep(s, n, i, m, data) = e
    BY <1>1, <1>11, <1>17 DEF WriteStep
  <2> QED BY <1>12, <2>1
<1> QED BY <1>14, <1>15, <1>16, <1>17

\* The blocks behind a file that got shorter move down.
LEMMA CloseUpGood ==
  ASSUME NEW s, TreeGood(s), NEW new_end, NEW old_end, NEW start, Files # {}
  PROVE  TreeGood(CloseUp(s, new_end, old_end, start).fs)
<1>1. PICK n \in Files : TRUE
  OBVIOUS
<1>2. PICK diff : diff = old_end - new_end
  OBVIOUS
<1>3. PICK a : a = MemMove(s, new_end, old_end, s.data_offset - old_end)
  OBVIOUS
<1>4. TreeGood(a.fs)
  BY <1>1, <1>3, KeepsCalls, KeepsGood
<1>5. PICK b : b = Discard(a.fs, a.fs.data_offset - diff, diff)
  OBVIOUS
<1>6. PICK c : c = Used(b, -diff)
  OBVIOUS
<1>7. PICK d : d = ShiftDown(c, start + 1, diff)
  OBVIOUS
<1>8. TreeGood(b)
  BY <1>1, <1>4, <1>5, KeepsCalls, KeepsGood
<1>9. TreeGood(c)
  BY <1>1, <1>6, <1>8, KeepsCalls, KeepsGood
<1>10. TreeGood(d)
  BY <1>1, <1>7, <1>9, KeepsCalls, KeepsGood
<1>11. CloseUp(s, new_end, old_end, start) = IF a.ok THEN Ok(d) ELSE a
  BY <1>2, <1>3, <1>5, <1>6, <1>7 DEF CloseUp, Then
<1>12. Ok(d).fs = d
  BY DEF Ok
<1> QED BY <1>4, <1>10, <1>11, <1>12

\* fstree_file_truncate to a smaller size.
LEMMA ShrinkGood ==
  ASSUME NEW s, TreeGood(s), NEW n \in Files, NEW z \in Nat
  PROVE  TreeGood(Shrink(s, n, z).fs)
<1>1. PICK f, l : f = s.file[n] /\ l = TruncateSparse(f.sparse, BlocksFor(z))
  OBVIOUS
<1>2. PICK cut : cut = CutFile(f, z)
  OBVIOUS
<1>3. cut = FileOf(z, f.start_index, l)
  BY <1>1, <1>2 DEF CutFile, FileOf
<1>4. cut.size = z /\ cut.start_index = f.start_index /\ cut.sparse = l
  BY <1>3, FileFields
<1>5. FileGood(z, l)
  <2>1. ListOK(f.sparse) /\ BlocksFor(z) \in Nat
    BY <1>1, BlocksForFacts DEF TreeGood, FileGood
  <2>2. UpToBlock(f.sparse, l, BlocksFor(z))
    BY <1>1, <2>1, TruncateSparseFacts
  <2> QED BY <2>2 DEF UpToBlock, FileGood
<1>6. PICK s1 : s1 = [s EXCEPT !.file[n] = cut]
  OBVIOUS
<1>7. TreeGood(s1)
  <2>1. Shape(s)
    BY GoodShape
  <2>2. cut = FileOf(cut.size, cut.start_index, cut.sparse)
    BY <1>3, <1>4
  <2>3. Shape(s1) /\ \A g \in Files : s1.file[g] = IF g = n THEN cut ELSE s.file[g]
    BY <1>6, <2>1, <2>2, FileReplaced
  <2>4. \A g \in Files : FileGood(s1.file[g].size, s1.file[g].sparse)
    BY <1>4, <1>5, <2>3 DEF TreeGood
  <2> QED BY <2>3, <2>4 DEF TreeGood
<1>8. PICK new, old : new = PhysBlocks(cut) /\ old = PhysBlocks(f)
  OBVIOUS
<1>9. PICK tail : tail = PhysicalSize(cut) % BlockSize
  OBVIOUS
<1>10. PICK c : c = CloseUp(s1, f.start_index + new, f.start_index + old, f.start_index)
  OBVIOUS
<1>11. TreeGood(c.fs)
  BY <1>7, <1>10, CloseUpGood
<1>12. PICK o : o = IF new < old THEN c ELSE Ok(s1)
  OBVIOUS
<1>13. TreeGood(o.fs)
  BY <1>7, <1>11, <1>12 DEF Ok
<1>14. PICK w : w = WritePartial(o.fs, f.start_index + new - 1, tail, Zeros(BlockSize - tail))
  OBVIOUS
<1>15. TreeGood(w.fs)
  BY <1>13, <1>14, KeepsCalls, KeepsGood
<1>16. Shrink(s, n, z) = IF o.ok THEN (IF tail > 0 THEN w ELSE Ok(o.fs)) ELSE o
  BY <1>1, <1>2, <1>6, <1>8, <1>9, <1>10, <1>12, <1>14 DEF Shrink, Then
<1>17. Ok(o.fs).fs = o.fs
  BY DEF Ok
<1> QED BY <1>13, <1>15, <1>16, <1>17

-----------------------------------------------------------------------------
\* The calls in progress: at most two buffers to append, none of them empty, and
\* what is overwritten lies in the file.
Buf(d) == (\E S : d \in Seq(S)) /\ Len(d) \in Nat \ {0}

Apps(a) ==
  \/ a = <<>>
  \/ \E d : Buf(d) /\ a = <<d>>
  \/ \E d, e : Buf(d) /\ Buf(e) /\ a = <<d, e>>

JobOf(n, a, o, v) == [file |-> n, apps |-> a, off |-> o, over |-> v]

JobGood(j, s) ==
  /\ j = JobOf(j.file, j.apps, j.off, j.over)
  /\ Apps(j.apps) /\ (\E S : j.over \in Seq(S)) /\ j.off \in Nat
  /\ j.apps # <<>> \/ j.over # <<>> => j.file \in Files
  /\ j.over # <<>> => j.off + Len(j.over) <= s.file[j.file].size

\* The smaller of two numbers.
LEMMA MinTwo ==
  ASSUME NEW a \in Nat, NEW b \in Nat
  PROVE  Min({a, b}) \in Nat /\ Min({a, b}) <= a /\ Min({a, b}) <= b /\ Min({a, b}) \in {a, b}
<1> DEFINE E == {a, b}
<1>1. E \subseteq Nat /\ E # {} /\ a \in E /\ b \in E
  OBVIOUS
<1>2. E = {a, b}
  OBVIOUS
<1> HIDE DEF E
<1>3. Min(E) \in E /\ Min(E) <= a /\ Min(E) <= b
  BY <1>1, MinIsLeast
<1> QED BY <1>1, <1>2, <1>3

\* Zero bytes.
LEMMA ZerosBuf ==
  ASSUME NEW n \in Nat \ {0}
  PROVE  Buf(Zeros(n))
<1>1. Zeros(n) \in Seq({0}) /\ Len(Zeros(n)) = n
  BY DEF Zeros
<1> QED BY <1>1 DEF Buf

\* Cutting a buffer in two.
LEMMA CutBuf ==
  ASSUME NEW S, NEW d \in Seq(S), NEW m \in Nat, m <= Len(d)
  PROVE  /\ SubSeq(d, 1, m) \in Seq(S) /\ Len(SubSeq(d, 1, m)) = m
         /\ SubSeq(d, m + 1, Len(d)) \in Seq(S) /\ Len(SubSeq(d, m + 1, Len(d))) = Len(d) - m
         /\ m < Len(d) => Buf(SubSeq(d, m + 1, Len(d)))
<1>1. SubSeq(d, 1, m) \in Seq(S) /\ Len(SubSeq(d, 1, m)) = m
  OBVIOUS
<1>2. SubSeq(d, m + 1, Len(d)) \in Seq(S) /\ Len(SubSeq(d, m + 1, Len(d))) = Len(d) - m
  OBVIOUS
<1>3. m < Len(d) => Len(SubSeq(d, m + 1, Len(d))) \in Nat \ {0}
  BY <1>2
<1> QED BY <1>1, <1>2, <1>3 DEF Buf

\* The fields of a job.
LEMMA JobFields ==
  ASSUME NEW n, NEW a, NEW o, NEW v, NEW j, j = JobOf(n, a, o, v)
  PROVE  j.file = n /\ j.apps = a /\ j.off = o /\ j.over = v /\ j = JobOf(j.file, j.apps, j.off, j.over)
  BY DEF JobOf

\* No call, and a call that failed.
LEMMA NoJob ==
  ASSUME NEW s
  PROVE  /\ JobGood(Idle, s) /\ JobGood(GaveUp, s)
         /\ Idle = JobOf(NoFile, <<>>, 0, <<>>) /\ GaveUp = JobOf(Failed, <<>>, 0, <<>>)
<1>1. <<>> \in Seq({0})
  OBVIOUS
<1>2. ASSUME NEW j, NEW f, j = JobOf(f, <<>>, 0, <<>>) PROVE JobGood(j, s)
  <2>1. j.file = f /\ j.apps = <<>> /\ j.off = 0 /\ j.over = <<>> /\ j = JobOf(j.file, j.apps, j.off, j.over)
    BY <1>2, JobFields
  <2>2. Apps(<<>>)
    BY DEF Apps
  <2> QED BY <1>1, <2>1, <2>2 DEF JobGood
<1>3. Idle = JobOf(NoFile, <<>>, 0, <<>>) /\ GaveUp = JobOf(Failed, <<>>, 0, <<>>)
  BY DEF Idle, GaveUp, JobOf
<1> QED BY <1>2, <1>3

\* A call that appends one buffer.
LEMMA AppendJob ==
  ASSUME NEW s, NEW n \in Files, NEW d, Buf(d)
  PROVE  JobGood([Idle EXCEPT !.file = n, !.apps = <<d>>], s)
<1>1. <<>> \in Seq({0})
  OBVIOUS
<1>2. Idle = JobOf(NoFile, <<>>, 0, <<>>)
  BY NoJob
<1>3. PICK i, t : i = Idle /\ t = <<d>>
  OBVIOUS
<1>4. [i EXCEPT !.file = n, !.apps = t] = JobOf(n, t, 0, <<>>)
  <2>1. i = JobOf(NoFile, <<>>, 0, <<>>)
    BY <1>2, <1>3
  <2>2. PICK q : q = [i EXCEPT !.file = n]
    OBVIOUS
  <2>3. q = JobOf(n, <<>>, 0, <<>>)
    BY <2>1, <2>2 DEF JobOf
  <2>4. [q EXCEPT !.apps = t] = JobOf(n, t, 0, <<>>)
    BY <2>3 DEF JobOf
  <2>5. [i EXCEPT !.file = n, !.apps = t] = [[i EXCEPT !.file = n] EXCEPT !.apps = t]
    BY <2>1 DEF JobOf
  <2> QED BY <2>2, <2>4, <2>5
<1>5. ASSUME NEW j, j = JobOf(n, <<d>>, 0, <<>>) PROVE JobGood(j, s)
  <2>1. j.file = n /\ j.apps = <<d>> /\ j.off = 0 /\ j.over = <<>> /\ j = JobOf(j.file, j.apps, j.off, j.over)
    BY <1>5, JobFields
  <2>2. Apps(<<d>>)
    BY DEF Apps
  <2> QED BY <1>1, <2>1, <2>2 DEF JobGood
<1> QED BY <1>2, <1>3, <1>4, <1>5

\* Lists of one or two buffers.
LEMMA Joined ==
  ASSUME NEW z, NEW t
  PROVE  /\ <<>> \o <<>> = <<>> /\ <<>> \o <<t>> = <<t>> /\ <<z>> \o <<>> = <<z>>
         /\ <<z>> \o <<t>> = <<z, t>>
<1>1. <<z>> \in Seq({z, t}) /\ <<t>> \in Seq({z, t}) /\ <<z, t>> \in Seq({z, t}) /\ <<>> \in Seq({z, t})
  OBVIOUS
<1>2. <<>> \o <<>> = <<>> /\ <<>> \o <<t>> = <<t>> /\ <<z>> \o <<>> = <<z>>
  BY <1>1, ConcatEmptySeq
<1>3. PICK a, b, c : a = <<z>> /\ b = <<t>> /\ c = <<z, t>>
  OBVIOUS
<1>4. /\ a \in Seq({z, t}) /\ b \in Seq({z, t}) /\ c \in Seq({z, t})
      /\ Len(a) = 1 /\ a[1] = z /\ Len(b) = 1 /\ b[1] = t /\ Len(c) = 2 /\ c[1] = z /\ c[2] = t
  BY <1>1, <1>3
<1>5. /\ a \o b \in Seq({z, t}) /\ Len(a \o b) = Len(a) + Len(b)
      /\ \A i \in 1..(Len(a) + Len(b)) : (a \o b)[i] = IF i <= Len(a) THEN a[i] ELSE b[i - Len(a)]
  BY <1>4, ConcatProperties
<1>6. ASSUME NEW i \in 1..2 PROVE (a \o b)[i] = c[i]
  <2>1. i = 1 \/ i = 2
    OBVIOUS
  <2>2. (a \o b)[1] = z /\ (a \o b)[2] = t
    BY <1>4, <1>5
  <2> QED BY <1>4, <2>1, <2>2
<1>7. Len(a \o b) = 2
  BY <1>4, <1>5
<1>8. a \o b = c
  BY <1>4, <1>5, <1>6, <1>7, SeqEqual
<1> QED BY <1>2, <1>3, <1>8

\* fstree_file_write: what it pads, appends and overwrites.
WriteParts(s, n, offset, data, size, avail, pad, tail) ==
  /\ size = s.file[n].size
  /\ avail = IF offset > size THEN 0 ELSE Min({size - offset, Len(data)})
  /\ pad = IF offset > size THEN <<Zeros(offset - size)>> ELSE <<>>
  /\ tail = IF avail < Len(data) THEN <<SubSeq(data, avail + 1, Len(data))>> ELSE <<>>

\* The bytes that are overwritten are in the file.
LEMMA WriteJob ==
  ASSUME NEW s, NEW n \in Files, NEW offset \in Nat, NEW S, NEW data \in Seq(S), data # <<>>,
         NEW size \in Nat, NEW avail, NEW pad, NEW tail,
         WriteParts(s, n, offset, data, size, avail, pad, tail)
  PROVE  JobGood(JobOf(n, pad \o tail, offset, SubSeq(data, 1, avail)), s)
<1>1. PICK l \in Nat : l = Len(data)
  OBVIOUS
<1>2. avail \in Nat /\ avail <= l /\ (avail # 0 => offset + avail <= size)
  <2>1. CASE offset > size
    <3>1. avail = 0
      BY <2>1 DEF WriteParts
    <3> QED BY <3>1
  <2>2. CASE ~(offset > size)
    <3>1. PICK g \in Nat : g = size - offset
      BY <2>2
    <3>2. avail = Min({g, l})
      BY <1>1, <2>2, <3>1 DEF WriteParts
    <3>3. avail \in Nat /\ avail <= g /\ avail <= l
      BY <3>2, MinTwo
    <3> QED BY <3>1, <3>3
  <2> QED BY <2>1, <2>2
<1>3. PICK v : v = SubSeq(data, 1, avail)
  OBVIOUS
<1>4. v \in Seq(S) /\ Len(v) = avail
  BY <1>1, <1>2, <1>3, CutBuf
<1>5. PICK a : a = pad \o tail
  OBVIOUS
<1>6. Apps(a)
  <2>1. PICK z, t : z = Zeros(offset - size) /\ t = SubSeq(data, avail + 1, Len(data))
    OBVIOUS
  <2>2. offset > size => Buf(z)
    <3> SUFFICES ASSUME offset > size PROVE Buf(z)
      OBVIOUS
    <3>1. PICK g \in Nat \ {0} : g = offset - size
      OBVIOUS
    <3>2. Buf(Zeros(g))
      BY ZerosBuf
    <3> QED BY <2>1, <3>1, <3>2
  <2>3. avail < Len(data) => Buf(t)
    BY <1>1, <1>2, <2>1, CutBuf
  <2>4. (pad = <<>> \/ (pad = <<z>> /\ Buf(z))) /\ (tail = <<>> \/ (tail = <<t>> /\ Buf(t)))
    BY <2>1, <2>2, <2>3 DEF WriteParts
  <2>5. <<>> \o <<>> = <<>> /\ <<>> \o <<t>> = <<t>> /\ <<z>> \o <<>> = <<z>> /\ <<z>> \o <<t>> = <<z, t>>
    BY Joined
  <2>6. a = <<>> \/ (a = <<t>> /\ Buf(t)) \/ (a = <<z>> /\ Buf(z)) \/ (a = <<z, t>> /\ Buf(z) /\ Buf(t))
    BY <1>5, <2>4, <2>5
  <2> QED BY <2>6 DEF Apps
<1>7. PICK j : j = JobOf(n, a, offset, v)
  OBVIOUS
<1>8. j.file = n /\ j.apps = a /\ j.off = offset /\ j.over = v /\ j = JobOf(j.file, j.apps, j.off, j.over)
  BY <1>7, JobFields
<1>9. v # <<>> => offset + Len(v) <= s.file[n].size
  <2>1. v # <<>> => avail # 0
    BY <1>4
  <2>2. size = s.file[n].size
    BY DEF WriteParts
  <2> QED BY <1>2, <1>4, <2>1, <2>2
<1>10. JobGood(j, s)
  BY <1>4, <1>6, <1>8, <1>9 DEF JobGood
<1> QED BY <1>3, <1>5, <1>7, <1>10

-----------------------------------------------------------------------------
\* The inductive invariant.
FilesInv == TreeGood(fs) /\ JobGood(job, fs) /\ use \in Uses

\* What a use of the tree hands in.
LEMMA UseNumbers ==
  ASSUME use \in Uses
  PROVE  /\ use.buffers \subseteq Seq(Nat) /\ <<>> \notin use.buffers
         /\ use.sizes \subseteq Nat /\ use.blk \in Nat /\ use.min \in Nat /\ use.max \in Nat
  BY FSTreeAssumption DEF UseRecord

\* A buffer of the caller.
LEMMA BufferGood ==
  ASSUME use \in Uses, NEW d \in use.buffers
  PROVE  d \in Seq(Nat) /\ d # <<>> /\ Buf(d)
<1>1. d \in Seq(Nat) /\ d # <<>>
  BY UseNumbers
<1>2. Len(d) \in Nat \ {0}
  BY <1>1
<1> QED BY <1>1, <1>2 DEF Buf

\* A sequence is a buffer if it is not empty.
LEMMA SeqBuf ==
  ASSUME NEW d, Buf(d)
  PROVE  \E S : d \in Seq(S) /\ d # <<>>
<1>1. PICK S : d \in Seq(S)
  BY DEF Buf
<1>2. Len(d) # 0
  BY DEF Buf
<1> QED BY <1>1, <1>2

\* In the states the tree is in all files have a size.
LEMMA SizeNat ==
  ASSUME TreeGood(fs), NEW n \in Files
  PROVE  fs.file[n].size \in Nat
  BY DEF TreeGood, FileGood

\* The calls that only start something.
LEMMA AppendCall ==
  ASSUME FilesInv, NEW n \in Files, NEW d, Buf(d), fs' = fs,
         job' = [Idle EXCEPT !.file = n, !.apps = <<d>>]
  PROVE  TreeGood(fs') /\ JobGood(job', fs')
<1>1. JobGood([Idle EXCEPT !.file = n, !.apps = <<d>>], fs)
  BY AppendJob
<1> QED BY <1>1 DEF FilesInv

\* fstree_file_write.
LEMMA WriteCall ==
  ASSUME FilesInv, NEW n \in Files, NEW offset \in Nat, NEW data, Buf(data),
         fstree_file_write(n, offset, data)
  PROVE  TreeGood(fs') /\ JobGood(job', fs')
<1>1. PICK S : data \in Seq(S) /\ data # <<>>
  BY SeqBuf
<1>2. PICK size \in Nat : size = fs.file[n].size
  BY SizeNat DEF FilesInv
<1>3. PICK avail : avail = IF offset > size THEN 0 ELSE Min({size - offset, Len(data)})
  OBVIOUS
<1>4. PICK pad : pad = IF offset > size THEN <<Zeros(offset - size)>> ELSE <<>>
  OBVIOUS
<1>5. PICK tail : tail = IF avail < Len(data) THEN <<SubSeq(data, avail + 1, Len(data))>> ELSE <<>>
  OBVIOUS
<1>6. job' = JobOf(n, pad \o tail, offset, SubSeq(data, 1, avail)) /\ fs' = fs
  BY <1>2, <1>3, <1>4, <1>5 DEF fstree_file_write, JobOf
<1>7. WriteParts(fs, n, offset, data, size, avail, pad, tail)
  BY <1>2, <1>3, <1>4, <1>5 DEF WriteParts
<1>8. JobGood(JobOf(n, pad \o tail, offset, SubSeq(data, 1, avail)), fs)
  BY <1>1, <1>7, WriteJob
<1> QED BY <1>6, <1>8 DEF FilesInv

\* fstree_file_truncate.
LEMMA TruncateCall ==
  ASSUME FilesInv, NEW n \in Files, NEW z \in Nat, fstree_file_truncate(n, z)
  PROVE  TreeGood(fs') /\ JobGood(job', fs')
<1>1. PICK size \in Nat : size = fs.file[n].size
  BY SizeNat DEF FilesInv
<1>2. CASE z > size /\ fs' = fs /\ job' = [Idle EXCEPT !.file = n, !.apps = <<Zeros(z - size)>>]
  <2>1. PICK g \in Nat \ {0} : g = z - size
    BY <1>2
  <2>2. Buf(Zeros(g))
    BY ZerosBuf
  <2>3. job' = [Idle EXCEPT !.file = n, !.apps = <<Zeros(g)>>]
    BY <1>2, <2>1
  <2> QED BY <1>2, <2>2, <2>3, AppendCall
<1>3. CASE /\ fs' = Shrink(fs, n, z).fs
           /\ job' = IF Shrink(fs, n, z).ok THEN Idle ELSE GaveUp
  <2>1. TreeGood(fs')
    BY <1>3, ShrinkGood DEF FilesInv
  <2>2. JobGood(Idle, fs') /\ JobGood(GaveUp, fs')
    BY NoJob
  <2> QED BY <1>3, <2>1, <2>2
<1> QED BY <1>1, <1>2, <1>3 DEF fstree_file_truncate

\* fstree_add_gap.
LEMMA GapCall ==
  ASSUME FilesInv, NEW i, NEW c, fstree_add_gap(i, c)
  PROVE  TreeGood(fs') /\ JobGood(job', fs')
<1>1. TreeGood(fs')
  <2>1. fs' = AddGap(fs, i, c).fs
    BY DEF fstree_add_gap
  <2>2. SameLists(AddGap(fs, i, c).fs, fs)
    BY GoodShape, AddGapSame DEF FilesInv
  <2> QED BY <2>1, <2>2, SameGood DEF FilesInv
<1>2. job' = Idle \/ job' = GaveUp
  BY DEF fstree_add_gap
<1> QED BY <1>1, <1>2, NoJob

\* fstree_file_volume_create.
LEMMA CreateCall ==
  ASSUME FilesInv, NEW n \in Files, fstree_file_volume_create(n)
  PROVE  TreeGood(fs') /\ JobGood(job', fs')
<1>1. PICK x \in Nat : x = fs.file[n].size
  BY SizeNat DEF FilesInv
<1>2. use.blk \in Nat \ {0} /\ use.min \in Nat
  BY UseNumbers DEF FilesInv, fstree_file_volume_create, IsVolume
<1>3. ~((x + use.blk - 1) \div use.blk >= use.min)
  BY <1>1 DEF fstree_file_volume_create, Opened, BlkCount
<1>4. use.min * use.blk - x \in Nat \ {0}
  BY <1>2, <1>3, FewerBytes
<1>5. Buf(Zeros(use.min * use.blk - x))
  BY <1>4, ZerosBuf
<1>6. fs' = fs /\ job' = [Idle EXCEPT !.file = n, !.apps = <<Zeros(use.min * use.blk - x)>>]
  BY <1>1 DEF fstree_file_volume_create
<1> QED BY <1>5, <1>6, AppendCall

\* Positions in a file that is a volume.
LEMMA VolumeOffsets ==
  ASSUME use \in Uses, NEW i \in Nat, NEW o \in Nat
  PROVE  i * use.blk \in Nat /\ i * use.blk + o \in Nat
<1>1. use.blk \in Nat
  BY UseNumbers
<1>2. i * use.blk \in Nat
  BY <1>1
<1> QED BY <1>2

\* fsvol_write_partial_block.
LEMMA VolumeWriteCall ==
  ASSUME FilesInv, NEW n \in Files, NEW i \in Nat, NEW o \in Nat, NEW d \in use.buffers,
         fsvol_write_partial_block(n, i, o, d)
  PROVE  TreeGood(fs') /\ JobGood(job', fs')
<1>1. PICK p \in Nat : p = i * use.blk + o
  BY VolumeOffsets DEF FilesInv
<1>2. fstree_file_write(n, p, d)
  BY <1>1 DEF fsvol_write_partial_block
<1>3. Buf(d)
  BY BufferGood DEF FilesInv
<1> QED BY <1>2, <1>3, WriteCall

\* fsvol_move_block_partial.
LEMMA VolumeMoveCall ==
  ASSUME FilesInv, NEW n \in Files, NEW src \in Nat, NEW dst \in Nat, NEW so \in Nat, NEW do \in Nat,
         NEW z \in Nat \ {0}, fsvol_move_block_partial(n, src, dst, so, do, z)
  PROVE  TreeGood(fs') /\ JobGood(job', fs')
<1>1. PICK p \in Nat : p = dst * use.blk + do
  BY VolumeOffsets DEF FilesInv
<1>2. PICK d : d = fsvol_read_partial_block(n, src, so, z)
  OBVIOUS
<1>3. fstree_file_write(n, p, d)
  BY <1>1, <1>2 DEF fsvol_move_block_partial
<1>4. Buf(d)
  <2> DEFINE B(x) == IF src * use.blk + so + x <= Len(Read(fs, n))
                     THEN Read(fs, n)[src * use.blk + so + x] ELSE 0
             S == { B(x) : x \in 1..z }
  <2>1. d = [x \in 1..z |-> B(x)]
    BY <1>2 DEF fsvol_read_partial_block
  <2>2. \A x \in 1..z : B(x) \in S
    OBVIOUS
  <2> HIDE DEF B, S
  <2>3. d \in Seq(S) /\ Len(d) = z
    BY <2>1, <2>2
  <2> QED BY <2>3 DEF Buf
<1> QED BY <1>3, <1>4, WriteCall

\* fsvol_discard_blocks.
LEMMA VolumeDiscardCall ==
  ASSUME FilesInv, NEW n \in Files, NEW i \in Nat, NEW c \in Nat \ {0}, fsvol_discard_blocks(n, i, c)
  PROVE  TreeGood(fs') /\ JobGood(job', fs')
<1>1. use.blk \in Nat \ {0} /\ use.min \in Nat
  BY UseNumbers DEF FilesInv, fsvol_discard_blocks, Opened, IsVolume
<1>2. PICK p \in Nat : p = i * use.blk
  BY <1>1
<1>3. ASSUME NEW m \in Nat \ {0} PROVE Buf(Zeros(m * use.blk)) /\ Zeros(m * use.blk) # <<>>
  <2>1. m * use.blk \in Nat \ {0}
    BY <1>1
  <2>2. Buf(Zeros(m * use.blk))
    BY <2>1, ZerosBuf
  <2>3. Len(<<>>) = 0
    OBVIOUS
  <2> QED BY <2>2, <2>3 DEF Buf
<1>4. CASE c < BlkCount(n) - i /\ fstree_file_write(n, p, Zeros(c * use.blk))
  BY <1>3, <1>4, WriteCall
<1>5. CASE c >= BlkCount(n) - i /\ ~(c < BlkCount(n) - i /\ fstree_file_write(n, p, Zeros(c * use.blk)))
  <2>1. PICK o : o = Shrink(fs, n, p)
    OBVIOUS
  <2>2. PICK g : g = IF i < use.min THEN Zeros((use.min - i) * use.blk) ELSE <<>>
    OBVIOUS
  <2>3. /\ fs' = o.fs
        /\ job' = IF ~o.ok THEN GaveUp ELSE IF g = <<>> THEN Idle
                  ELSE [Idle EXCEPT !.file = n, !.apps = <<g>>]
    BY <1>2, <1>5, <2>1, <2>2 DEF fsvol_discard_blocks
  <2>4. TreeGood(o.fs)
    BY <2>1, ShrinkGood DEF FilesInv
  <2>5. g # <<>> => Buf(g)
    <3>1. i < use.min => use.min - i \in Nat \ {0}
      BY <1>1
    <3> QED BY <1>3, <2>2, <3>1
  <2>6. g # <<>> => JobGood([Idle EXCEPT !.file = n, !.apps = <<g>>], o.fs)
    BY <2>5, AppendJob
  <2>7. JobGood(Idle, o.fs) /\ JobGood(GaveUp, o.fs)
    BY NoJob
  <2> QED BY <2>3, <2>4, <2>6, <2>7
<1>6. \/ c < BlkCount(n) - i /\ fstree_file_write(n, p, Zeros(c * use.blk))
      \/ c >= BlkCount(n) - i
  BY <1>2 DEF fsvol_discard_blocks
<1> QED BY <1>4, <1>5, <1>6

\* The calls of a nested filesystem.
LEMMA VolumeGood ==
  ASSUME FilesInv, NEW n \in Files, Volume(n)
  PROVE  TreeGood(fs') /\ JobGood(job', fs')
<1>1. use.sizes \subseteq Nat /\ use.max \in Nat /\ use.blk \in Nat
  BY UseNumbers DEF FilesInv
<1>2. 0..use.max - 1 \subseteq Nat /\ 0..use.blk - 1 \subseteq Nat /\ 1..use.max \subseteq Nat \ {0}
  BY <1>1
<1>3. CASE fstree_file_volume_create(n)
  BY <1>3, CreateCall
<1>4. ASSUME NEW i \in 0..use.max - 1, NEW o \in 0..use.blk - 1, NEW d \in use.buffers,
             fsvol_write_partial_block(n, i, o, d)
      PROVE  TreeGood(fs') /\ JobGood(job', fs')
  BY <1>2, <1>4, VolumeWriteCall
<1>5. ASSUME NEW i \in 0..use.max - 1, NEW j \in 0..use.max - 1,
             NEW o \in 0..use.blk - 1, NEW p \in 0..use.blk - 1, NEW z \in use.sizes \ {0},
             fsvol_move_block_partial(n, i, j, o, p, z)
      PROVE  TreeGood(fs') /\ JobGood(job', fs')
  <2>1. i \in Nat /\ j \in Nat /\ o \in Nat /\ p \in Nat /\ z \in Nat \ {0}
    BY <1>1, <1>2
  <2> QED BY <1>5, <2>1, VolumeMoveCall
<1>6. ASSUME NEW i \in 0..use.max - 1, NEW c \in 1..use.max, fsvol_discard_blocks(n, i, c)
      PROVE  TreeGood(fs') /\ JobGood(job', fs')
  BY <1>2, <1>6, VolumeDiscardCall
<1>7. ASSUME NEW z \in 1..use.max * use.blk, fsvol_truncate(n, z)
      PROVE  TreeGood(fs') /\ JobGood(job', fs')
  <2>1. z \in Nat
    OBVIOUS
  <2>2. fstree_file_truncate(n, z)
    BY <1>7 DEF fsvol_truncate
  <2> QED BY <2>1, <2>2, TruncateCall
<1> QED BY <1>3, <1>4, <1>5, <1>6, <1>7 DEF Volume

\* The calls for an ordinary file.
LEMMA CallsGood ==
  ASSUME FilesInv, NEW n \in Files, Calls(n)
  PROVE  TreeGood(fs') /\ JobGood(job', fs')
<1>1. use.sizes \subseteq Nat
  BY UseNumbers DEF FilesInv
<1>2. ASSUME NEW d \in use.buffers, fstree_file_append(n, d) PROVE TreeGood(fs') /\ JobGood(job', fs')
  <2>1. fs' = fs /\ job' = [Idle EXCEPT !.file = n, !.apps = <<d>>]
    BY <1>2 DEF fstree_file_append
  <2>2. Buf(d)
    BY BufferGood DEF FilesInv
  <2> QED BY <2>1, <2>2, AppendCall
<1>3. ASSUME NEW o \in use.sizes, NEW d \in use.buffers, fstree_file_write(n, o, d)
      PROVE  TreeGood(fs') /\ JobGood(job', fs')
  <2>1. Buf(d) /\ o \in Nat
    BY <1>1, BufferGood DEF FilesInv
  <2> QED BY <1>3, <2>1, WriteCall
<1>4. ASSUME NEW z \in use.sizes, fstree_file_truncate(n, z) PROVE TreeGood(fs') /\ JobGood(job', fs')
  <2>1. z \in Nat
    BY <1>1
  <2> QED BY <1>4, <2>1, TruncateCall
<1> QED BY <1>2, <1>3, <1>4 DEF Calls

\* What a turn of a loop leaves.
LEMMA OutcomeGood ==
  ASSUME NEW o, TreeGood(o.fs), NEW n, NEW next, JobGood(next, o.fs), Outcome(o, n, next)
  PROVE  TreeGood(fs') /\ JobGood(job', fs')
<1>1. fs' = o.fs
  BY DEF Outcome
<1>2. job' = GaveUp \/ job' = Idle \/ job' = next
  BY DEF Outcome
<1>3. JobGood(GaveUp, o.fs) /\ JobGood(Idle, o.fs)
  BY NoJob
<1> QED BY <1>1, <1>2, <1>3

\* The first of the buffers that are left.
LEMMA FirstBuf ==
  ASSUME NEW a, Apps(a), a # <<>>
  PROVE  /\ Buf(Head(a))
         /\ Apps(Tail(a)) /\ (\A r : Buf(r) => Apps(<<r>> \o Tail(a)))
<1>1. ASSUME NEW d, Buf(d), a = <<d>> PROVE Head(a) = d /\ Tail(a) = <<>>
  BY <1>1
<1>2. ASSUME NEW d, NEW e, Buf(d), Buf(e), a = <<d, e>> PROVE Head(a) = d /\ Tail(a) = <<e>>
  <2>1. a \in Seq({d, e}) /\ Len(a) = 2 /\ a[1] = d /\ a[2] = e
    BY <1>2
  <2>2. Head(a) = d
    BY <2>1
  <2>3. Tail(a) \in Seq({d, e}) /\ Len(Tail(a)) = 1 /\ Tail(a)[1] = e
    BY <2>1
  <2>4. PICK t : t = <<e>>
    OBVIOUS
  <2>5. t \in Seq({d, e}) /\ Len(t) = 1 /\ t[1] = e
    BY <2>4
  <2>6. Tail(a) = t
    <3>1. \A x \in 1..Len(t) : Tail(a)[x] = t[x]
      BY <2>3, <2>5
    <3> QED BY <2>3, <2>5, <3>1, SeqEqual
  <2> QED BY <2>2, <2>4, <2>6
<1>3. CASE \E d : Buf(d) /\ a = <<d>>
  <2>1. Buf(Head(a)) /\ Tail(a) = <<>>
    BY <1>1, <1>3
  <2>2. \A r : <<r>> \o <<>> = <<r>>
    BY Joined
  <2> QED BY <2>1, <2>2 DEF Apps
<1>4. CASE \E d, e : Buf(d) /\ Buf(e) /\ a = <<d, e>>
  <2>1. PICK d, e : Buf(d) /\ Buf(e) /\ a = <<d, e>>
    BY <1>4
  <2>2. Head(a) = d /\ Tail(a) = <<e>>
    BY <1>2, <2>1
  <2>3. \A r : <<r>> \o <<e>> = <<r, e>>
    BY Joined
  <2> QED BY <2>1, <2>2, <2>3 DEF Apps
<1> QED BY <1>3, <1>4 DEF Apps

\* Another list of buffers for a job, in a tree whose files are not shorter.
LEMMA JobGoesOn ==
  ASSUME NEW j, NEW s, NEW a, NEW t, JobGood(j, s), j.file \in Files, Apps(a),
         TreeGood(s), TreeGood(t), NotShorter(t, s)
  PROVE  JobGood([j EXCEPT !.apps = a], t)
<1>1. j.off \in Nat
  BY DEF JobGood
<1>2. PICK n \in Files, p \in Nat : n = j.file /\ p = j.off
  BY <1>1
<1>3. PICK b, v : b = j.apps /\ v = j.over
  OBVIOUS
<1>4. j = JobOf(n, b, p, v)
  BY <1>2, <1>3 DEF JobGood
<1>5. PICK k : k = [j EXCEPT !.apps = a]
  OBVIOUS
<1>6. k = JobOf(n, a, p, v)
  BY <1>4, <1>5 DEF JobOf
<1>7. k.file = n /\ k.apps = a /\ k.off = p /\ k.over = v /\ k = JobOf(k.file, k.apps, k.off, k.over)
  BY <1>6, JobFields
<1>8. (\E S : v \in Seq(S)) /\ (v # <<>> => p + Len(v) <= s.file[n].size)
  BY <1>2, <1>3 DEF JobGood
<1>9. v # <<>> => p + Len(v) <= t.file[n].size
  <2>1. PICK x \in Nat, y \in Nat : x = s.file[n].size /\ y = t.file[n].size
    BY DEF TreeGood, FileGood
  <2>2. x <= y
    BY <2>1 DEF NotShorter
  <2>3. PICK l \in Nat : l = Len(v)
    BY <1>8
  <2> QED BY <1>8, <2>1, <2>2, <2>3
<1>10. JobGood(k, t)
  BY <1>7, <1>8, <1>9 DEF JobGood
<1> QED BY <1>5, <1>10

\* One turn of the loop of fstree_file_append.
LEMMA AppendGood ==
  ASSUME FilesInv, AppendIteration
  PROVE  TreeGood(fs') /\ JobGood(job', fs')
<1>1. TreeGood(fs) /\ JobGood(job, fs) /\ job.apps # <<>>
  BY DEF FilesInv, AppendIteration
<1>2. PICK n \in Files : n = job.file
  BY <1>1 DEF JobGood
<1>3. Apps(job.apps)
  BY <1>1 DEF JobGood
<1>4. PICK data : data = Head(job.apps)
  OBVIOUS
<1>5. Buf(data)
  BY <1>1, <1>3, <1>4, FirstBuf
<1>6. PICK S : data \in Seq(S)
  BY <1>5 DEF Buf
<1>7. PICK z \in Nat : z = fs.file[n].size
  BY <1>1, SizeNat
<1>8. PICK room \in Nat \ {0} : room = BlockSize - (z % BlockSize)
  <2>1. z % BlockSize \in Nat /\ z % BlockSize < BlockSize
    BY FSTreeAssumption
  <2>2. BlockSize - (z % BlockSize) \in Nat \ {0}
    BY <2>1, FSTreeAssumption
  <2> QED BY <2>2
<1>9. PICK l \in Nat \ {0} : l = Len(data)
  BY <1>5 DEF Buf
<1>10. PICK diff : diff = Min({room, l})
  OBVIOUS
<1>11. diff \in Nat \ {0} /\ diff <= l
  BY <1>10, MinTwo
<1>12. PICK part, rest : part = SubSeq(data, 1, diff) /\ rest = SubSeq(data, diff + 1, l)
  OBVIOUS
<1>13. Len(part) \in Nat \ {0} /\ (rest = <<>> \/ Buf(rest))
  <2>1. /\ Len(SubSeq(data, 1, diff)) = diff
        /\ SubSeq(data, diff + 1, l) \in Seq(S) /\ Len(SubSeq(data, diff + 1, l)) = l - diff
        /\ diff < l => Buf(SubSeq(data, diff + 1, l))
    BY <1>6, <1>9, <1>11, CutBuf
  <2>2. Len(part) = diff
    BY <1>12, <2>1
  <2>3. ~(diff < l) => rest \in Seq(S) /\ Len(rest) = 0
    BY <1>11, <1>12, <2>1
  <2>4. ~(diff < l) => rest = <<>>
    BY <2>3
  <2> QED BY <1>11, <1>12, <2>1, <2>2, <2>4
<1>14. PICK a : a = IF rest = <<>> THEN Tail(job.apps) ELSE <<rest>> \o Tail(job.apps)
  OBVIOUS
<1>15. Apps(a)
  BY <1>1, <1>3, <1>13, <1>14, FirstBuf
<1>16. PICK o : o = AppendStep(fs, n, part)
  OBVIOUS
<1>17. TreeGood(o.fs) /\ NotShorter(o.fs, fs)
  BY <1>1, <1>13, <1>16, AppendStepGood
<1>18. JobGood([job EXCEPT !.apps = a], o.fs)
  BY <1>1, <1>2, <1>15, <1>17, JobGoesOn
<1>19. Outcome(o, n, [job EXCEPT !.apps = a])
  BY <1>2, <1>4, <1>7, <1>8, <1>9, <1>10, <1>12, <1>14, <1>16 DEF AppendIteration
<1> QED BY <1>17, <1>18, <1>19, OutcomeGood

\* Where the rest of what is overwritten starts.
LEMMA OverGoesOn ==
  ASSUME NEW j, NEW s, NEW t, JobGood(j, s), j.file \in Files, SameSizes(t, s),
         NEW p, NEW v, NEW S, v \in Seq(S), p \in Nat,
         v # <<>> => p + Len(v) <= s.file[j.file].size
  PROVE  JobGood([j EXCEPT !.off = p, !.over = v], t)
<1>1. PICK n \in Files : n = j.file
  OBVIOUS
<1>2. PICK a, q, w : a = j.apps /\ q = j.off /\ w = j.over
  OBVIOUS
<1>3. j = JobOf(n, a, q, w) /\ Apps(a)
  BY <1>1, <1>2 DEF JobGood
<1>4. PICK h : h = [j EXCEPT !.off = p]
  OBVIOUS
<1>5. h = JobOf(n, a, p, w)
  BY <1>3, <1>4 DEF JobOf
<1>6. PICK k : k = [h EXCEPT !.over = v]
  OBVIOUS
<1>7. k = JobOf(n, a, p, v)
  BY <1>5, <1>6 DEF JobOf
<1>8. [j EXCEPT !.off = p, !.over = v] = [[j EXCEPT !.off = p] EXCEPT !.over = v]
  BY <1>3 DEF JobOf
<1>9. k.file = n /\ k.apps = a /\ k.off = p /\ k.over = v /\ k = JobOf(k.file, k.apps, k.off, k.over)
  BY <1>7, JobFields
<1>10. v # <<>> => p + Len(v) <= t.file[n].size
  BY <1>1 DEF SameSizes
<1>11. JobGood(k, t)
  BY <1>3, <1>9, <1>10 DEF JobGood
<1> QED BY <1>4, <1>6, <1>8, <1>11

\* One turn of the loop of fstree_file_write.
LEMMA WriteGood ==
  ASSUME FilesInv, WriteIteration
  PROVE  TreeGood(fs') /\ JobGood(job', fs')
<1>1. TreeGood(fs) /\ JobGood(job, fs) /\ job.over # <<>>
  BY DEF FilesInv, WriteIteration
<1>2. PICK n \in Files : n = job.file
  BY <1>1 DEF JobGood
<1>3. PICK p \in Nat : p = job.off
  BY <1>1 DEF JobGood
<1>4. PICK w : w = job.over
  OBVIOUS
<1>5. PICK S : w \in Seq(S)
  BY <1>1, <1>4 DEF JobGood
<1>6. PICK l \in Nat \ {0} : l = Len(w)
  BY <1>1, <1>4, <1>5
<1>7. PICK z \in Nat : z = fs.file[n].size
  BY <1>1, SizeNat
<1>8. p + l <= z
  BY <1>1, <1>2, <1>3, <1>4, <1>6, <1>7 DEF JobGood
<1>9. PICK i, m : i = p \div BlockSize /\ m = p % BlockSize
  OBVIOUS
<1>10. i \in Nat /\ i < BlocksFor(z)
  <2>1. \A y \in Nat : y > p => p \div BlockSize \in Nat /\ p \div BlockSize < BlocksFor(y)
    BY BlocksForFacts
  <2> QED BY <1>8, <1>9, <2>1
<1>11. PICK diff : diff = Min({BlockSize - m, l})
  OBVIOUS
<1>12. diff \in Nat /\ diff <= l
  <2>1. m \in Nat /\ m < BlockSize
    BY <1>9, FSTreeAssumption
  <2>2. BlockSize - m \in Nat
    BY <2>1, FSTreeAssumption
  <2> QED BY <1>11, <2>2, MinTwo
<1>13. PICK v : v = SubSeq(w, diff + 1, l)
  OBVIOUS
<1>14. v \in Seq(S) /\ Len(v) = l - diff
  BY <1>5, <1>6, <1>12, <1>13, CutBuf
<1>15. p + diff \in Nat /\ (p + diff) + Len(v) <= z
  BY <1>8, <1>12, <1>14
<1>16. PICK o : o = WriteStep(fs, n, i, m, SubSeq(w, 1, diff))
  OBVIOUS
<1>17. Keeps(o.fs, fs)
  BY <1>1, <1>7, <1>10, <1>16, WriteStepGood
<1>18. TreeGood(o.fs) /\ SameSizes(o.fs, fs)
  BY <1>17 DEF Keeps
<1>19. JobGood([job EXCEPT !.off = p + diff, !.over = v], o.fs)
  BY <1>1, <1>2, <1>7, <1>14, <1>15, <1>18, OverGoesOn
<1>20. Outcome(o, n, [job EXCEPT !.off = p + diff, !.over = v])
  BY <1>2, <1>3, <1>4, <1>6, <1>9, <1>11, <1>13, <1>16 DEF WriteIteration
<1> QED BY <1>18, <1>19, <1>20, OutcomeGood

\* A tree that was just created.
LEMMA InitGood ==
  ASSUME Init
  PROVE  FilesInv
<1>1. PICK d, g, f : d = [b \in Disk |-> ZeroBlock] /\ g = {} /\ f = fs.file
  OBVIOUS
<1>2. PICK e : e = FileOf(0, 0, <<>>)
  OBVIOUS
<1>3. e.size = 0 /\ e.start_index = 0 /\ e.sparse = <<>> /\ e = FileOf(e.size, e.start_index, e.sparse)
  BY <1>2 DEF FileOf
<1>4. PICK h : h = [x \in Files |-> e]
  OBVIOUS
<1>5. fs = TreeOf(d, 0, g, h)
  BY <1>1, <1>2, <1>4 DEF Init, TreeOf, FileOf
<1>6. fs.file = h /\ fs = TreeOf(fs.disk, fs.data_offset, fs.gap, fs.file)
  BY <1>5 DEF TreeOf
<1>7. h = [x \in Files |-> h[x]] /\ \A x \in Files : h[x] = e
  BY <1>4
<1>8. Shape(fs)
  BY <1>3, <1>6, <1>7 DEF Shape
<1>9. FileGood(0, <<>>)
  <2>1. ListOK(<<>>)
    BY DEF ListOK, WellFormed
  <2>2. \A x \in Nat : ~IsSparse(<<>>, x)
    BY DEF IsSparse
  <2> QED BY <2>1, <2>2 DEF FileGood
<1>10. TreeGood(fs)
  BY <1>3, <1>6, <1>7, <1>8, <1>9 DEF TreeGood
<1>11. JobGood(job, fs) /\ use \in Uses
  BY NoJob DEF Init
<1> QED BY <1>10, <1>11 DEF FilesInv

\* Every step of the calls.
LEMMA NextGood ==
  ASSUME FilesInv, Next
  PROVE  FilesInv'
<1>1. CASE \E n \in Files : Calls(n)
  BY <1>1, CallsGood DEF FilesInv, Next
<1>2. CASE \E n \in Files : Volume(n)
  BY <1>2, VolumeGood DEF FilesInv, Next
<1>3. CASE \E i \in 0..MaxBlocks, c \in 1..MaxGaps : fstree_add_gap(i, c)
  BY <1>3, GapCall DEF FilesInv, Next
<1>4. CASE AppendIteration
  BY <1>4, AppendGood DEF FilesInv, Next
<1>5. CASE WriteIteration
  BY <1>5, WriteGood DEF FilesInv, Next
<1> QED BY <1>1, <1>2, <1>3, <1>4, <1>5 DEF Next, Step

\* What the invariant says of the lists.
LEMMA GoodLists ==
  ASSUME TreeGood(fs)
  PROVE  SparseListsOK
<1>1. ASSUME NEW f \in Files
      PROVE  /\ WellFormed(fs.file[f].sparse)
             /\ \A i \in Blocks(fs.file[f].sparse) : i < BlocksFor(fs.file[f].size)
  <2>1. PICK l, z : l = fs.file[f].sparse /\ z = fs.file[f].size
    OBVIOUS
  <2>2. FileGood(z, l)
    BY <2>1 DEF TreeGood
  <2>3. l \in Seq(Region) /\ WellFormed(l)
    BY <2>2 DEF FileGood, ListOK
  <2>4. ASSUME NEW i \in Blocks(l) PROVE i < BlocksFor(z)
    <3>1. i \in Nat /\ IsSparse(l, i)
      BY <2>3, BlocksAre
    <3> QED BY <2>2, <3>1 DEF FileGood
  <2> QED BY <2>1, <2>3, <2>4
<1> QED BY <1>1 DEF SparseListsOK

\* The files of a tree and the call in progress fit together at every step of
\* fstree_file_append, _write and _truncate, of fstree_add_gap and of the calls of
\* file_volume.c: what is still to be overwritten lies in the file.
THEOREM FilesInvariant == Spec => []FilesInv
<1>1. Init => FilesInv
  BY InitGood
<1>2. FilesInv /\ [Next]_vars => FilesInv'
  <2> SUFFICES ASSUME FilesInv, [Next]_vars PROVE FilesInv'
    OBVIOUS
  <2>1. CASE Next
    BY <2>1, NextGood
  <2>2. CASE UNCHANGED vars
    BY <2>2 DEF vars, FilesInv
  <2> QED BY <2>1, <2>2
<1> QED BY <1>1, <1>2, PTL DEF Spec

\* The sparse lists stay sorted, without empty or touching regions, and name no
\* block past the end of the file, whatever the files, the block size, the
\* volume, the buffers and the order of the calls are, and also after a failed
\* call (append_to_tail of file_append.c subtracts their indices without a check).
THEOREM FilesSparseListsOK == Spec => []SparseListsOK
<1>1. FilesInv => SparseListsOK
  BY GoodLists DEF FilesInv
<1> QED BY <1>1, FilesInvariant, PTL

-----------------------------------------------------------------------------
(***************************************************************************)
(* The layout: which blocks of the volume a file owns.                     *)
(***************************************************************************)
\* The partial sums of v.
Sums(sum, v, n) ==
  /\ sum[0] = 0
  /\ \A k \in 1..n : sum[k] = sum[k - 1] + v[k]
  /\ \A k \in 0..n : sum[k] \in Int

\* A walk over a list adds up what the list has.
LEMMA TotalFacts ==
  ASSUME NEW v \in Seq(Int), NEW n \in Nat, n = Len(v)
  PROVE  \E sum : Sums(sum, v, n) /\ Total(v) = sum[n]
<1> DEFINE G == [p \in (1..n) \X Int |-> p[2] + v[p[1]]]
<1>1. ASSUME NEW j \in 1..n, NEW x \in Int
      PROVE  G[<<j, x>>] = x + v[j] /\ G[<<j, x>>] \in Int
  OBVIOUS
<1> HIDE DEF G
<1>2. PICK f : Loop(f, n, 0, G) /\ \A j \in 0..n : f[j] \in Int
  <2>1. 0 \in Int
    OBVIOUS
  <2> QED BY <1>1, <2>1, LoopExists
<1> DEFINE Eq(sum) == sum = [k \in 0..n |-> IF k = 0 THEN 0 ELSE sum[k - 1] + v[k]]
<1>3. Eq(f)
  <2>1. ASSUME NEW j \in 0..n
        PROVE  (IF j = 0 THEN 0 ELSE G[<<j, f[j - 1]>>]) = IF j = 0 THEN 0 ELSE f[j - 1] + v[j]
    <3>1. j # 0 => j \in 1..n /\ f[j - 1] \in Int
      BY <1>2
    <3> QED BY <1>1, <3>1
  <2> QED BY <1>2, <2>1 DEF Loop
<1>4. PICK sum : Eq(sum) /\ Total(v) = sum[n]
  <2>1. Total(v) = (CHOOSE sum : Eq(sum))[n]
    BY DEF Total
  <2>2. Eq(CHOOSE sum : Eq(sum))
    BY <1>3
  <2> QED BY <2>1, <2>2
<1>5. sum[0] = 0 /\ \A k \in 1..n : sum[k] = sum[k - 1] + v[k]
  <2>1. ASSUME NEW k \in 0..n PROVE sum[k] = IF k = 0 THEN 0 ELSE sum[k - 1] + v[k]
    BY <1>4
  <2> QED BY <2>1
<1> HIDE DEF Eq
<1> DEFINE M == { m \in Nat : m <= n => sum[m] \in Int }
<1>6. 0 \in M
  BY <1>5
<1>7. ASSUME NEW m \in Nat, m \in M PROVE m + 1 \in M
  <2> SUFFICES ASSUME m + 1 <= n PROVE sum[m + 1] \in Int
    OBVIOUS
  <2>1. PICK k \in 1..n : k = m + 1
    OBVIOUS
  <2>2. sum[m] \in Int /\ v[k] \in Int
    BY <1>7
  <2>3. sum[k] = sum[k - 1] + v[k] /\ k - 1 = m
    BY <1>5, <2>1
  <2> QED BY <2>1, <2>2, <2>3
<1> HIDE DEF M
<1>8. \A m \in Nat : m \in M
  BY <1>6, <1>7, SetInduction
<1>9. \A k \in 0..n : sum[k] \in Int
  BY <1>8 DEF M
<1> QED BY <1>4, <1>5, <1>9 DEF Sums

\* The blocks before block i that are not stored are a number.
LEMMA SkippedInt ==
  ASSUME NEW f, ListOK(f.sparse), NEW i \in Nat
  PROVE  Skipped(f, i) \in Int
<1>1. PICK l : l = f.sparse
  OBVIOUS
<1>2. PICK n \in Nat : n = Len(l)
  BY <1>1 DEF ListOK
<1>3. PICK v : v = [k \in 1..n |-> IF l[k].index < i /\ ~Covers(l[k], i) THEN l[k].count ELSE 0]
  OBVIOUS
<1>4. \A k \in 1..n : v[k] \in Int
  <2>1. ASSUME NEW k \in 1..n PROVE v[k] \in Int
    <3>1. l[k].count \in Nat
      BY <1>1, <1>2, ListNumbers
    <3> QED BY <1>3, <3>1
  <2> QED BY <2>1
<1>5. v \in Seq(Int) /\ Len(v) = n
  BY <1>3, <1>4
<1>6. Total(v) \in Int
  <2>1. PICK sum : Sums(sum, v, n) /\ Total(v) = sum[n]
    BY <1>5, TotalFacts
  <2> QED BY <2>1 DEF Sums
<1>7. Skipped(f, i) = Total(v)
  BY <1>1, <1>2, <1>3 DEF Skipped, CountWhere
<1> QED BY <1>6, <1>7

-----------------------------------------------------------------------------
\* The last block of a file is less than full by Over bytes.
Over(size) == BlockSize * BlocksFor(size) - size

\* The bytes in the blocks of a file.
LEMMA BlocksForBounds ==
  ASSUME NEW size \in Nat
  PROVE  /\ BlocksFor(size) \in Nat /\ BlockSize * BlocksFor(size) \in Nat
         /\ size <= BlockSize * BlocksFor(size) /\ BlockSize * BlocksFor(size) < size + BlockSize
         /\ Over(size) \in Nat /\ Over(size) < BlockSize
         /\ size = 0 => BlocksFor(size) = 0
<1>1. PICK d \in Nat \ {0} : d = BlockSize
  BY FSTreeAssumption
<1>2. PICK z \in Nat : z = size + d - 1
  OBVIOUS
<1>3. PICK q \in Nat : q = z \div d /\ d * q \in Nat /\ d * q <= z /\ z < d * q + d
  BY DivFacts
<1>4. BlocksFor(size) = q
  BY <1>1, <1>2, <1>3 DEF BlocksFor
<1>5. PICK e \in Nat : e = d * q
  BY <1>3
<1>6. size <= e /\ e < size + d
  BY <1>2, <1>3, <1>5
<1>7. Over(size) = e - size
  BY <1>1, <1>4, <1>5 DEF Over
<1>8. size = 0 => q = 0
  <2> SUFFICES ASSUME size = 0, q # 0 PROVE FALSE
    OBVIOUS
  <2>1. e < d
    BY <1>6
  <2>2. PICK p \in Nat : q = p + 1
    <3>1. q - 1 \in Nat /\ q = (q - 1) + 1
      OBVIOUS
    <3> QED BY <3>1
  <2>3. e = d * p + d /\ d * p \in Nat
    BY <1>5, <2>2
  <2> QED BY <2>1, <2>3
<1> QED BY <1>1, <1>4, <1>5, <1>6, <1>7, <1>8

\* A number of blocks is the number of blocks that many bytes take.
LEMMA BlocksForIs ==
  ASSUME NEW q \in Nat, NEW x \in Nat, x <= BlockSize * q, BlockSize * q < x + BlockSize
  PROVE  BlocksFor(x) = q
<1>1. PICK d \in Nat \ {0} : d = BlockSize
  BY FSTreeAssumption
<1>2. PICK r \in Nat : r = BlocksFor(x) /\ d * r \in Nat /\ x <= d * r /\ d * r < x + d
  BY <1>1, BlocksForBounds
<1>3. PICK e \in Nat : e = d * q
  OBVIOUS
<1>4. x <= e /\ e < x + d
  BY <1>1, <1>3
<1>5. d * q < d * r + d /\ d * r < d * q + d
  BY <1>2, <1>3, <1>4
<1>6. q <= r /\ r <= q
  BY <1>5, Below
<1> QED BY <1>2, <1>6

\* The bytes of a file that lie in a region of its list.
LEMMA BytesInFacts ==
  ASSUME NEW size \in Nat, NEW a \in Nat, NEW c \in Nat \ {0}, a + c <= BlocksFor(size),
         NEW r, r.index = a, r.count = c
  PROVE  BytesIn(r, size) = IF a + c < BlocksFor(size) THEN BlockSize * c
                            ELSE BlockSize * c - Over(size)
<1>1. PICK d \in Nat \ {0} : d = BlockSize
  BY FSTreeAssumption
<1>2. PICK q \in Nat : q = BlocksFor(size) /\ d * q \in Nat /\ size <= d * q /\ d * q < size + d
  BY <1>1, BlocksForBounds
<1>3. PICK e \in Nat : q = a + c + e
  <2>1. q - (a + c) \in Nat /\ q = a + c + (q - (a + c))
    BY <1>2
  <2> QED BY <2>1
<1>4. PICK ad \in Nat, cd \in Nat, ed \in Nat : ad = d * a /\ cd = d * c /\ ed = d * e
  OBVIOUS
<1>5. d * q = ad + cd + ed
  BY <1>3, <1>4
<1>6. cd >= d
  <2>1. PICK p \in Nat : c = p + 1
    <3>1. c - 1 \in Nat /\ c = (c - 1) + 1
      OBVIOUS
    <3> QED BY <3>1
  <2>2. cd = d * p + d /\ d * p \in Nat
    BY <1>4, <2>1
  <2> QED BY <2>2
<1>7. e # 0 => ed >= d
  <2> SUFFICES ASSUME e # 0 PROVE ed >= d
    OBVIOUS
  <2>1. PICK p \in Nat : e = p + 1
    <3>1. e - 1 \in Nat /\ e = (e - 1) + 1
      OBVIOUS
    <3> QED BY <3>1
  <2>2. ed = d * p + d /\ d * p \in Nat
    BY <1>4, <2>1
  <2> QED BY <2>2
<1>8. ad < size
  BY <1>2, <1>5, <1>6
<1>9. PICK rest \in Nat : rest = size - ad
  BY <1>8
<1>10. r.index * BlockSize = ad /\ r.count * BlockSize = cd
  BY <1>1, <1>4
<1>11. BytesIn(r, size) = Min({cd, rest})
  BY <1>8, <1>9, <1>10 DEF BytesIn
<1>12. Min({cd, rest}) \in Nat /\ Min({cd, rest}) <= cd /\ Min({cd, rest}) <= rest /\ Min({cd, rest}) \in {cd, rest}
  BY MinTwo
<1>13. CASE e # 0
  <2>1. cd <= rest
    BY <1>2, <1>5, <1>7, <1>9, <1>13
  <2>2. Min({cd, rest}) = cd
    BY <1>12, <2>1
  <2>3. a + c < BlocksFor(size)
    BY <1>2, <1>3, <1>13
  <2> QED BY <1>1, <1>4, <1>11, <2>2, <2>3
<1>14. CASE e = 0
  <2>1. ed = 0
    BY <1>4, <1>14
  <2>2. rest <= cd
    BY <1>2, <1>5, <1>9, <2>1
  <2>3. Min({cd, rest}) = rest
    BY <1>12, <2>2
  <2>4. PICK qd \in Nat : qd = d * q
    BY <1>2
  <2>5. Over(size) = qd - size
    BY <1>1, <1>2, <2>4 DEF Over
  <2>6. rest = cd - Over(size)
    BY <1>5, <1>9, <2>1, <2>4, <2>5
  <2>7. ~(a + c < BlocksFor(size))
    BY <1>2, <1>3, <1>14
  <2> QED BY <1>1, <1>4, <1>11, <2>3, <2>6, <2>7
<1> QED BY <1>13, <1>14

-----------------------------------------------------------------------------
\* The blocks a list names, how many they are, and those in its first m regions.
Holes(l) == { x \in Nat : IsSparse(l, x) }
Held(l) == Cardinality(Holes(l))
HolesTo(l, m) == { x \in Nat : \E j \in 1..m : Covers(l[j], x) }

\* One more region.
LEMMA HolesNext ==
  ASSUME NEW l, ListOK(l), NEW k \in 1..Len(l),
         IsFiniteSet(HolesTo(l, k - 1))
  PROVE  /\ IsFiniteSet(HolesTo(l, k))
         /\ Cardinality(HolesTo(l, k)) = Cardinality(HolesTo(l, k - 1)) + l[k].count
<1>1. PICK n \in Nat : n = Len(l)
  BY DEF ListOK
<1>2. PICK a \in Nat, c \in Nat \ {0} : a = l[k].index /\ c = l[k].count
  BY ListNumbers
<1>3. \A x \in Nat : Covers(l[k], x) <=> a <= x /\ x < a + c
  BY <1>2, ListNumbers
<1> DEFINE S == HolesTo(l, k - 1)
           T == a..(a + c - 1)
<1>4. HolesTo(l, k) = S \cup T
  <2>1. ASSUME NEW x \in Nat
        PROVE  x \in HolesTo(l, k) <=> x \in S \/ x \in T
    <3>1. \A j \in 1..k : j \in 1..(k - 1) \/ j = k
      OBVIOUS
    <3>2. k \in 1..k /\ \A j \in 1..(k - 1) : j \in 1..k
      OBVIOUS
    <3>3. x \in T <=> Covers(l[k], x)
      BY <1>3
    <3> QED BY <3>1, <3>2, <3>3 DEF HolesTo
  <2>2. HolesTo(l, k) \subseteq Nat /\ S \subseteq Nat /\ T \subseteq Nat
    BY DEF HolesTo
  <2> QED BY <2>1, <2>2
<1>5. S \cap T = {}
  <2> SUFFICES ASSUME NEW x \in S, x \in T PROVE FALSE
    OBVIOUS
  <2>1. x \in Nat /\ Covers(l[k], x)
    BY <1>3
  <2>2. PICK j \in 1..(k - 1) : Covers(l[j], x)
    BY DEF HolesTo
  <2>3. j \in 1..Len(l) /\ j # k
    BY <1>1
  <2> QED BY <2>1, <2>2, <2>3, Disjoint
<1>6. IsFiniteSet(T) /\ Cardinality(T) = c
  <2>1. PICK e \in Int : e = a + c - 1
    OBVIOUS
  <2>2. IsFiniteSet(a..e) /\ Cardinality(a..e) = IF a > e THEN 0 ELSE e - a + 1
    <3>1. a \in Int
      OBVIOUS
    <3> QED BY <3>1, FS_Interval
  <2>3. (e - a) + 1 = c /\ ~(a > e)
    BY <2>1
  <2> QED BY <2>1, <2>2, <2>3
<1> HIDE DEF S, T
<1>7. IsFiniteSet(S)
  BY DEF S
<1>8. Cardinality(S) \in Nat
  BY <1>7, FS_CardinalityType
<1>9. IsFiniteSet(S \cup T) /\ Cardinality(S \cup T) = Cardinality(S) + Cardinality(T) - Cardinality(S \cap T)
  BY <1>6, <1>7, FS_Union
<1>10. Cardinality(S \cap T) = 0
  BY <1>5, FS_EmptySet
<1>11. Cardinality(S \cup T) = Cardinality(S) + c
  BY <1>6, <1>8, <1>9, <1>10
<1> QED BY <1>2, <1>4, <1>9, <1>11 DEF S

\* The sparse bytes of a file up to region m: whole blocks, but for the last block
\* of the file.
SparseTo(l, size, m, bytes) ==
  /\ IsFiniteSet(HolesTo(l, m))
  /\ \/ bytes = BlockSize * Cardinality(HolesTo(l, m))
     \/ /\ bytes = BlockSize * Cardinality(HolesTo(l, m)) - Over(size)
        /\ m > 0 /\ RegionEnd(l[m]) = BlocksFor(size)

\* One more region.
LEMMA SparseNext ==
  ASSUME NEW size, NEW l, FileGood(size, l), NEW k \in 1..Len(l), NEW bytes \in Int,
         SparseTo(l, size, k - 1, bytes)
  PROVE  SparseTo(l, size, k, bytes + BytesIn(l[k], size))
<1>1. size \in Nat /\ ListOK(l) /\ \A x \in Nat : IsSparse(l, x) => x < BlocksFor(size)
  BY DEF FileGood
<1>2. PICK q \in Nat : q = BlocksFor(size)
  BY <1>1, BlocksForBounds
<1>3. PICK a \in Nat, c \in Nat \ {0} : a = l[k].index /\ c = l[k].count
  BY <1>1, ListNumbers
<1>4. RegionEnd(l[k]) = a + c
  BY <1>1, <1>3, ListNumbers
<1>5. a + c <= q
  <2>1. PICK x \in Nat : x = a + c - 1
    OBVIOUS
  <2>2. Covers(l[k], x)
    <3>1. Covers(l[k], x) <=> a <= x /\ x < a + c
      BY <1>1, <1>3, ListNumbers
    <3> QED BY <2>1, <3>1
  <2>3. x < q
    BY <1>1, <1>2, <2>2 DEF IsSparse
  <2> QED BY <2>1, <2>3
<1>6. IsFiniteSet(HolesTo(l, k - 1))
  BY DEF SparseTo
<1>7. /\ IsFiniteSet(HolesTo(l, k))
      /\ Cardinality(HolesTo(l, k)) = Cardinality(HolesTo(l, k - 1)) + c
  BY <1>1, <1>3, <1>6, HolesNext
<1>8. PICK m \in Nat : m = Cardinality(HolesTo(l, k - 1))
  BY <1>6, FS_CardinalityType
<1>9. PICK d \in Nat \ {0} : d = BlockSize
  BY FSTreeAssumption
<1>10. bytes = d * m
  <2> SUFFICES ASSUME k - 1 > 0, RegionEnd(l[k - 1]) = BlocksFor(size) PROVE FALSE
    BY <1>8, <1>9 DEF SparseTo
  <2>1. k > 1
    OBVIOUS
  <2>2. RegionEnd(l[k - 1]) < l[k].index
    BY <1>1, <2>1, ListNumbers
  <2> QED BY <1>2, <1>3, <1>5, <2>2
<1>11. PICK x \in Nat : x = Over(size)
  BY <1>1, BlocksForBounds
<1>12. BytesIn(l[k], size) = IF a + c < q THEN d * c ELSE d * c - x
  BY <1>1, <1>2, <1>3, <1>5, <1>9, <1>11, BytesInFacts
<1>13. PICK u \in Nat, v \in Nat : u = d * m /\ v = d * c
  OBVIOUS
<1>14. d * (m + c) = u + v
  BY <1>13
<1>15. Cardinality(HolesTo(l, k)) = m + c
  BY <1>7, <1>8
<1>16. CASE a + c < q
  <2>1. bytes + BytesIn(l[k], size) = u + v
    BY <1>10, <1>12, <1>13, <1>16
  <2> QED BY <1>7, <1>9, <1>14, <1>15, <2>1 DEF SparseTo
<1>17. CASE ~(a + c < q)
  <2>1. bytes + BytesIn(l[k], size) = (u + v) - x
    BY <1>10, <1>12, <1>13, <1>17
  <2>2. RegionEnd(l[k]) = BlocksFor(size) /\ k > 0
    BY <1>2, <1>4, <1>5, <1>17
  <2> QED BY <1>7, <1>9, <1>11, <1>14, <1>15, <2>1, <2>2 DEF SparseTo
<1> QED BY <1>16, <1>17

\* fstree_file_sparse_bytes counts whole blocks, but for the last block of a file.
LEMMA SparseBytesAre ==
  ASSUME NEW f, FileGood(f.size, f.sparse)
  PROVE  /\ IsFiniteSet(Holes(f.sparse))
         /\ \/ SparseBytes(f) = BlockSize * Held(f.sparse)
            \/ SparseBytes(f) = BlockSize * Held(f.sparse) - Over(f.size)
<1>1. PICK l, size : l = f.sparse /\ size = f.size
  OBVIOUS
<1>2. FileGood(size, l) /\ size \in Nat /\ ListOK(l) /\ l \in Seq(Region)
  BY <1>1 DEF FileGood, ListOK
<1>3. PICK n \in Nat : n = Len(l)
  BY <1>2
<1>4. PICK v : v = [k \in 1..n |-> BytesIn(l[k], size)]
  OBVIOUS
<1>5. ASSUME NEW k \in 1..n PROVE v[k] \in Int
  <2>1. PICK a \in Nat, c \in Nat \ {0} : a = l[k].index /\ c = l[k].count
    BY <1>2, <1>3, ListNumbers
  <2>2. PICK d \in Nat \ {0} : d = BlockSize
    BY FSTreeAssumption
  <2>3. PICK ad \in Nat, cd \in Nat : ad = a * d /\ cd = c * d
    OBVIOUS
  <2>4. BytesIn(l[k], size) = IF ad >= size THEN 0 ELSE Min({cd, size - ad})
    BY <2>1, <2>2, <2>3 DEF BytesIn
  <2>5. CASE ad >= size
    BY <1>4, <2>4, <2>5
  <2>6. CASE ad < size
    <3>1. PICK rest \in Nat : rest = size - ad
      BY <1>2, <2>6
    <3>2. Min({cd, rest}) \in Nat
      BY MinTwo
    <3> QED BY <1>2, <1>4, <2>4, <2>6, <3>1, <3>2
  <2> QED BY <1>2, <2>5, <2>6
<1>6. v \in Seq(Int) /\ Len(v) = n
  BY <1>4, <1>5
<1>7. PICK sum : Sums(sum, v, n) /\ Total(v) = sum[n]
  BY <1>6, TotalFacts
<1> DEFINE M == { m \in Nat : m <= n => SparseTo(l, size, m, sum[m]) }
<1>8. 0 \in M
  <2>1. HolesTo(l, 0) = {}
    BY DEF HolesTo
  <2>2. IsFiniteSet(HolesTo(l, 0)) /\ Cardinality(HolesTo(l, 0)) = 0
    BY <2>1, FS_EmptySet
  <2>3. sum[0] = BlockSize * 0
    BY <1>7, FSTreeAssumption DEF Sums
  <2> QED BY <2>2, <2>3 DEF SparseTo
<1>9. ASSUME NEW m \in Nat, m \in M PROVE m + 1 \in M
  <2> SUFFICES ASSUME m + 1 <= n PROVE SparseTo(l, size, m + 1, sum[m + 1])
    OBVIOUS
  <2>1. PICK k \in 1..Len(l) : k = m + 1
    BY <1>3
  <2>2. SparseTo(l, size, k - 1, sum[m])
    BY <1>9, <2>1
  <2>3. sum[k] = sum[m] + BytesIn(l[k], size) /\ sum[m] \in Int
    BY <1>3, <1>4, <1>7, <2>1 DEF Sums
  <2>4. SparseTo(l, size, k, sum[m] + BytesIn(l[k], size))
    BY <1>2, <2>2, <2>3, SparseNext
  <2> QED BY <2>1, <2>3, <2>4
<1> HIDE DEF M
<1>10. n \in M
  BY <1>8, <1>9, SetInduction
<1>11. SparseTo(l, size, n, sum[n])
  BY <1>10 DEF M
<1>12. HolesTo(l, n) = Holes(l)
  BY <1>3 DEF HolesTo, Holes, IsSparse
<1>13. SparseBytes(f) = sum[n]
  BY <1>1, <1>3, <1>4, <1>7 DEF SparseBytes
<1> QED BY <1>1, <1>11, <1>12, <1>13 DEF SparseTo, Held

\* fstree_file_physical_size: a file has the blocks on the volume that its list
\* does not name.
LEMMA PhysBlocksAre ==
  ASSUME NEW f, FileGood(f.size, f.sparse)
  PROVE  /\ IsFiniteSet(Holes(f.sparse)) /\ Held(f.sparse) \in Nat
         /\ Held(f.sparse) <= BlocksFor(f.size)
         /\ PhysBlocks(f) = BlocksFor(f.size) - Held(f.sparse)
         /\ PhysBlocks(f) \in Nat
         /\ PhysicalSize(f) # 0 <=> PhysBlocks(f) # 0
<1>1. PICK size : size = f.size
  OBVIOUS
<1>2. size \in Nat /\ \A x \in Nat : IsSparse(f.sparse, x) => x < BlocksFor(size)
  BY <1>1 DEF FileGood
<1>3. PICK d \in Nat \ {0} : d = BlockSize
  BY FSTreeAssumption
<1>4. PICK q \in Nat : q = BlocksFor(size)
  BY <1>2, BlocksForBounds
<1>5. PICK qd \in Nat, x \in Nat : qd = d * q /\ x = Over(size) /\ x = qd - size /\ x < d
  BY <1>2, <1>3, <1>4, BlocksForBounds DEF Over
<1>6. IsFiniteSet(Holes(f.sparse))
  BY SparseBytesAre
<1>7. PICK h \in Nat : h = Held(f.sparse)
  BY <1>6, FS_CardinalityType DEF Held
<1>8. h <= q
  <2>1. PICK e \in Int : e = q - 1
    OBVIOUS
  <2>2. IsFiniteSet(0..e) /\ Cardinality(0..e) = IF 0 > e THEN 0 ELSE e - 0 + 1
    <3>1. 0 \in Int
      OBVIOUS
    <3> QED BY <3>1, FS_Interval
  <2>3. (IF 0 > e THEN 0 ELSE e - 0 + 1) = q
    BY <2>1
  <2>4. Holes(f.sparse) \in SUBSET (0..e)
    BY <1>2, <1>4, <2>1 DEF Holes
  <2>5. Held(f.sparse) <= Cardinality(0..e)
    BY <2>2, <2>4, FS_Subset DEF Held
  <2> QED BY <1>7, <2>2, <2>3, <2>5
<1>9. PICK e \in Nat : q = h + e
  <2>1. q - h \in Nat /\ q = h + (q - h)
    BY <1>8
  <2> QED BY <2>1
<1>10. PICK hd \in Nat, ed \in Nat : hd = d * h /\ ed = d * e
  OBVIOUS
<1>11. qd = hd + ed
  BY <1>5, <1>9, <1>10
<1>12. e # 0 => ed >= d
  <2> SUFFICES ASSUME e # 0 PROVE ed >= d
    OBVIOUS
  <2>1. PICK p \in Nat : e = p + 1
    <3>1. e - 1 \in Nat /\ e = (e - 1) + 1
      OBVIOUS
    <3> QED BY <3>1
  <2>2. ed = d * p + d /\ d * p \in Nat
    BY <1>10, <2>1
  <2> QED BY <2>2
<1>13. e = 0 => ed = 0
  BY <1>10
<1>14. PICK b \in Int : b = SparseBytes(f) /\ (b = hd \/ b = hd - x)
  <2>1. \/ SparseBytes(f) = hd
        \/ SparseBytes(f) = hd - x
    BY <1>1, <1>3, <1>5, <1>7, <1>10, SparseBytesAre
  <2> QED BY <2>1
<1>15. PICK p : p = PhysicalSize(f)
  OBVIOUS
<1>16. p = IF b >= size THEN 0 ELSE size - b
  BY <1>1, <1>14, <1>15 DEF PhysicalSize
<1>17. CASE e = 0
  <2>1. b >= size
    BY <1>2, <1>5, <1>11, <1>13, <1>14, <1>17
  <2>2. p = 0
    BY <1>16, <2>1
  <2>3. PhysBlocks(f) = 0
    BY <1>15, <2>2, BlocksForBounds DEF PhysBlocks
  <2>4. PhysBlocks(f) = q - h
    BY <1>9, <1>17, <2>3
  <2> QED BY <1>1, <1>4, <1>6, <1>7, <1>8, <1>15, <2>2, <2>3, <2>4
<1>18. CASE e # 0
  <2>1. b < size /\ size - b <= ed /\ ed < (size - b) + d
    BY <1>2, <1>5, <1>11, <1>12, <1>14, <1>18
  <2>2. p = size - b /\ p \in Nat \ {0}
    BY <1>2, <1>16, <2>1
  <2>3. p <= BlockSize * e /\ BlockSize * e < p + BlockSize
    BY <1>3, <1>10, <2>1, <2>2
  <2>4. BlocksFor(p) = e
    BY <2>2, <2>3, BlocksForIs
  <2>5. PhysBlocks(f) = q - h /\ PhysBlocks(f) \in Nat \ {0}
    BY <1>9, <1>15, <1>18, <2>4 DEF PhysBlocks
  <2> QED BY <1>1, <1>4, <1>6, <1>7, <1>8, <1>15, <2>2, <2>5
<1> QED BY <1>17, <1>18

\* What the list operations do to the number of blocks.
LEMMA HeldChanges ==
  ASSUME NEW l, IsFiniteSet(Holes(l)), NEW t, NEW i \in Nat
  PROVE  /\ WithBlock(l, t, i) /\ ~IsSparse(l, i) => Held(t) = Held(l) + 1
         /\ WithoutBlock(l, t, i) /\ IsSparse(l, i) => Held(t) = Held(l) - 1
<1>1. i \in Holes(l) <=> IsSparse(l, i)
  BY DEF Holes
<1>2. ASSUME WithBlock(l, t, i), ~IsSparse(l, i) PROVE Held(t) = Held(l) + 1
  <2>1. Holes(t) = Holes(l) \cup {i}
    BY <1>2 DEF WithBlock, Holes
  <2>2. Cardinality(Holes(l) \cup {i}) = Cardinality(Holes(l)) + 1
    BY <1>1, <1>2, FS_AddElement
  <2> QED BY <2>1, <2>2 DEF Held
<1>3. ASSUME WithoutBlock(l, t, i), IsSparse(l, i) PROVE Held(t) = Held(l) - 1
  <2>1. Holes(t) = Holes(l) \ {i}
    BY <1>3 DEF WithoutBlock, Holes
  <2>2. Cardinality(Holes(l) \ {i}) = Cardinality(Holes(l)) - 1
    BY <1>1, <1>3, FS_RemoveElement
  <2> QED BY <2>1, <2>2 DEF Held
<1> QED BY <1>2, <1>3

\* A file that is cut off does not get more blocks on the volume.
LEMMA HeldUpTo ==
  ASSUME NEW x, NEW l, FileGood(x, l), NEW n \in Nat, n <= BlocksFor(x), NEW t, UpToBlock(l, t, n),
         IsFiniteSet(Holes(l)), IsFiniteSet(Holes(t))
  PROVE  n - Held(t) <= BlocksFor(x) - Held(l)
<1>1. PICK q \in Nat : q = BlocksFor(x)
  BY BlocksForBounds DEF FileGood
<1>2. PICK e \in Int : e = q - 1
  OBVIOUS
<1>3. IsFiniteSet(n..e) /\ Cardinality(n..e) = IF n > e THEN 0 ELSE e - n + 1
  <2>1. n \in Int
    OBVIOUS
  <2> QED BY <2>1, FS_Interval
<1>4. Cardinality(n..e) = q - n
  BY <1>1, <1>2, <1>3
<1> DEFINE T == Holes(t)
           I == n..e
<1>5. Holes(l) \in SUBSET (T \cup I)
  <2> SUFFICES ASSUME NEW y \in Holes(l) PROVE y \in T \/ y \in I
    OBVIOUS
  <2>1. y \in Nat /\ IsSparse(l, y) /\ y < q
    BY <1>1 DEF Holes, FileGood
  <2>2. y < n => y \in T
    BY <2>1 DEF Holes, UpToBlock
  <2> QED BY <1>2, <2>1, <2>2
<1> HIDE DEF T, I
<1>6. IsFiniteSet(T) /\ IsFiniteSet(I)
  BY <1>3 DEF T, I
<1>7. IsFiniteSet(T \cup I) /\ Cardinality(T \cup I) = Cardinality(T) + Cardinality(I) - Cardinality(T \cap I)
  BY <1>6, FS_Union
<1>8. PICK a \in Nat, b \in Nat, c \in Nat, m \in Nat :
        a = Cardinality(T) /\ b = Cardinality(I) /\ c = Cardinality(T \cap I) /\ m = Cardinality(Holes(l))
  <2>1. T \cap I \in SUBSET T
    OBVIOUS
  <2>2. IsFiniteSet(T \cap I)
    BY <1>6, <2>1, FS_Subset
  <2> QED BY <1>6, <2>2, FS_CardinalityType
<1>9. m <= Cardinality(T \cup I)
  BY <1>5, <1>7, <1>8, FS_Subset
<1>10. m <= a + b
  BY <1>7, <1>8, <1>9
<1>11. b = q - n
  BY <1>4, <1>8 DEF I
<1>12. n - a <= q - m
  BY <1>10, <1>11
<1> QED BY <1>1, <1>8, <1>12 DEF Held, T

\* append_to_tail takes the last block out of a region.
LEMMA DropLastFacts ==
  ASSUME NEW l, ListOK(l), NEW k \in 1..Len(l)
  PROVE  \E i \in Nat : IsSparse(l, i) /\ WithoutBlock(l, DropLastOf(l, k), i)
<1>1. PICK a \in Nat, c \in Nat \ {0} : a = l[k].index /\ c = l[k].count
  BY ListNumbers
<1>2. PICK i \in Nat : i = a + c - 1
  OBVIOUS
<1>3. Covers(l[k], i)
  <2>1. Covers(l[k], i) <=> a <= i /\ i < a + c
    BY <1>1, ListNumbers
  <2> QED BY <1>2, <2>1
<1>4. WithoutBlock(l, TakeOut(l, k, i), i)
  BY <1>3, TakeOutFacts
<1>5. DropLastOf(l, k) = TakeOut(l, k, i)
  <2>1. PICK rel \in Nat : rel = i - l[k].index /\ rel = c - 1
    BY <1>1, <1>2
  <2>2. CASE c = 1
    BY <1>1, <2>2 DEF DropLastOf, TakeOut
  <2>3. CASE c > 1
    <3>1. l[k].count > 1 /\ l[k].count # 1 /\ rel # 0 /\ rel = l[k].count - 1
      BY <1>1, <2>1, <2>3
    <3> QED BY <2>1, <3>1 DEF DropLastOf, TakeOut
  <2> QED BY <2>2, <2>3
<1>6. IsSparse(l, i)
  BY <1>3 DEF IsSparse
<1> QED BY <1>4, <1>5, <1>6

-----------------------------------------------------------------------------
\* A tree with one field changed.
LEMMA TreeUpdates ==
  ASSUME NEW s, Shape(s), NEW d, NEW o, NEW g, NEW F
  PROVE  /\ [s EXCEPT !.disk = d] = TreeOf(d, s.data_offset, s.gap, s.file)
         /\ [s EXCEPT !.data_offset = o] = TreeOf(s.disk, o, s.gap, s.file)
         /\ [s EXCEPT !.gap = g] = TreeOf(s.disk, s.data_offset, g, s.file)
         /\ [s EXCEPT !.file = F] = TreeOf(s.disk, s.data_offset, s.gap, F)
<1>1. s = TreeOf(s.disk, s.data_offset, s.gap, s.file)
  BY DEF Shape
<1> QED BY <1>1 DEF TreeOf

\* The fields of a tree.
LEMMA TreeFields ==
  ASSUME NEW d, NEW o, NEW g, NEW F
  PROVE  /\ TreeOf(d, o, g, F).disk = d /\ TreeOf(d, o, g, F).data_offset = o
         /\ TreeOf(d, o, g, F).gap = g /\ TreeOf(d, o, g, F).file = F
  BY DEF TreeOf

\* a differs from s in the contents of blocks only.
SameAccount(a, s) ==
  Shape(a) /\ a.data_offset = s.data_offset /\ a.gap = s.gap /\ a.file = s.file

\* Two such changes.
LEMMA AccountTwice ==
  ASSUME NEW a, NEW b, NEW s, SameAccount(a, b), SameAccount(b, s)
  PROVE  SameAccount(a, s)
  BY DEF SameAccount

\* SameAccount is about trees.
LEMMA AccountShape ==
  ASSUME NEW a, NEW s, SameAccount(a, s)
  PROVE  Shape(a)
  BY DEF SameAccount

\* The volume knows nothing of the accounting.
LEMMA OtherDisk ==
  ASSUME NEW s, Shape(s), NEW d
  PROVE  SameAccount([s EXCEPT !.disk = d], s)
<1>1. PICK a : a = [s EXCEPT !.disk = d]
  OBVIOUS
<1>2. Shape(a)
  BY <1>1, OtherFields, SameShape
<1>3. a = TreeOf(d, s.data_offset, s.gap, s.file)
  BY <1>1, TreeUpdates
<1>4. a.data_offset = s.data_offset /\ a.gap = s.gap /\ a.file = s.file
  BY <1>3, TreeFields
<1> QED BY <1>1, <1>2, <1>4 DEF SameAccount

\* A write fails exactly if its block is not on the volume.
LEMMA WriteAccount ==
  ASSUME NEW s, Shape(s), NEW b, NEW m, NEW data
  PROVE  /\ SameAccount(WritePartial(s, b, m, data).fs, s)
         /\ WritePartial(s, b, m, data).ok <=> b \in Disk
<1>1. CASE b \notin Disk
  <2>1. WritePartial(s, b, m, data).fs = s /\ ~WritePartial(s, b, m, data).ok
    BY <1>1 DEF WritePartial, Err
  <2>2. SameAccount(s, s)
    BY DEF SameAccount
  <2> QED BY <1>1, <2>1, <2>2
<1>2. CASE b \in Disk
  <2>1. PICK e : e = [j \in InBlk |-> IF j >= m /\ j < m + Len(data)
                                      THEN data[j - m + 1] ELSE s.disk[b][j]]
    OBVIOUS
  <2>2. PICK d : d = [s.disk EXCEPT ![b] = e]
    OBVIOUS
  <2>3. PICK a : a = [s EXCEPT !.disk = d]
    OBVIOUS
  <2>4. WritePartial(s, b, m, data) = Ok([s EXCEPT !.disk[b] = e])
    BY <1>2, <2>1 DEF WritePartial
  <2>5. [s EXCEPT !.disk[b] = e] = a
    BY <2>2, <2>3
  <2>6. WritePartial(s, b, m, data).fs = a /\ WritePartial(s, b, m, data).ok
    BY <2>4, <2>5 DEF Ok
  <2>7. SameAccount(a, s)
    BY <2>3, OtherDisk
  <2> QED BY <1>2, <2>6, <2>7
<1> QED BY <1>1, <1>2

\* A discard never fails.
LEMMA DiscardAccount ==
  ASSUME NEW s, Shape(s), NEW b, NEW m
  PROVE  SameAccount(Discard(s, b, m), s)
  BY OtherDisk DEF Discard

\* A move of blocks fails exactly if it leaves the volume.
LEMMA MemMoveAccount ==
  ASSUME NEW s, Shape(s), NEW dst, NEW src, NEW m
  PROVE  /\ SameAccount(MemMove(s, dst, src, m).fs, s)
         /\ MemMove(s, dst, src, m).ok
              <=> (m = 0 \/ dst = src \/ m <= MaxBlocks - Max({dst, src}))
<1>1. PICK room : room = MaxBlocks - Max({dst, src})
  OBVIOUS
<1>2. PICK d : MemMove(s, dst, src, m) = IF m = 0 \/ dst = src \/ m <= room
                                         THEN Ok([s EXCEPT !.disk = d])
                                         ELSE Err([s EXCEPT !.disk = d])
  BY <1>1 DEF MemMove
<1>3. PICK a : a = [s EXCEPT !.disk = d]
  OBVIOUS
<1>4. SameAccount(a, s)
  BY <1>3, OtherDisk
<1>5. Ok(a).fs = a /\ Ok(a).ok /\ Err(a).fs = a /\ ~Err(a).ok
  BY DEF Ok, Err
<1>6. CASE m = 0 \/ dst = src \/ m <= room
  BY <1>1, <1>2, <1>3, <1>4, <1>5, <1>6
<1>7. CASE ~(m = 0 \/ dst = src \/ m <= room)
  BY <1>1, <1>2, <1>3, <1>4, <1>5, <1>7
<1> QED BY <1>6, <1>7

\* The larger of two numbers.
LEMMA MaxTwo ==
  ASSUME NEW a \in Int, NEW b \in Int
  PROVE  a <= b => Max({a, b}) = b /\ Max({b, a}) = b
<1> SUFFICES ASSUME a <= b PROVE Max({a, b}) = b /\ Max({b, a}) = b
  OBVIOUS
<1>1. {a, b} = {b, a}
  OBVIOUS
<1>2. Max({a, b}) = CHOOSE x \in {a, b} : \A y \in {a, b} : x >= y
  BY DEF Max
<1>3. b \in {a, b} /\ \A y \in {a, b} : b >= y
  OBVIOUS
<1>4. Max({a, b}) \in {a, b} /\ \A y \in {a, b} : Max({a, b}) >= y
  BY <1>2, <1>3
<1>5. Max({a, b}) = b
  BY <1>4
<1> QED BY <1>1, <1>5

-----------------------------------------------------------------------------
\* Where a file's run of blocks starts, and its length.
Start(s, f) == s.file[f].start_index
Run(s, f) == PhysBlocks(s.file[f])

\* The runs and the gaps lie in the used area, and no gap in a run.
Spots(s) ==
  /\ s.data_offset \in Nat /\ s.gap \in SUBSET Nat
  /\ \A f \in Files : Start(s, f) \in Nat
  /\ \A f \in Files : Run(s, f) # 0 => Start(s, f) + Run(s, f) <= s.data_offset
  /\ \A b \in s.gap : b < s.data_offset
  /\ \A b \in s.gap : \A f \in Files : b < Start(s, f) \/ b >= Start(s, f) + Run(s, f)

\* Of a good tree every run has a length.
LEMMA RunFacts ==
  ASSUME NEW s, TreeGood(s), NEW f \in Files
  PROVE  /\ Run(s, f) \in Nat
         /\ Run(s, f) = BlocksFor(s.file[f].size) - Held(s.file[f].sparse)
         /\ PhysicalSize(s.file[f]) # 0 <=> Run(s, f) # 0
<1>1. FileGood(s.file[f].size, s.file[f].sparse)
  BY DEF TreeGood
<1> QED BY <1>1, PhysBlocksAre DEF Run

\* Moving runs does not change their lengths.
LEMMA RunSame ==
  ASSUME NEW s, TreeGood(s), NEW a, SameLists(a, s), NEW f \in Files
  PROVE  Run(a, f) = Run(s, f) /\ (PhysicalSize(a.file[f]) # 0 <=> Run(s, f) # 0)
<1>1. TreeGood(a)
  BY SameGood
<1>2. a.file[f].size = s.file[f].size /\ a.file[f].sparse = s.file[f].sparse
  BY DEF SameLists
<1> QED BY <1>1, <1>2, RunFacts

\* FileLayout: where a move to the end puts the runs and the gaps.
AtLast(s, n) == Run(s, n) >= s.data_offset - Start(s, n)

NewStart(s, n, g) ==
  IF Run(s, n) = 0 THEN IF g = n THEN s.data_offset ELSE Start(s, g)
  ELSE IF AtLast(s, n) THEN Start(s, g)
  ELSE IF g = n THEN s.data_offset - Run(s, n)
  ELSE IF Run(s, g) # 0 /\ Start(s, g) >= Start(s, n)
       THEN Start(s, g) - Run(s, n) ELSE Start(s, g)

Down(s, from, n) == { b \in 0..s.data_offset : \/ b < from /\ b \in s.gap
                                               \/ b + n >= from /\ b + n \in s.gap }

NewGap(s, n) ==
  IF Run(s, n) = 0 \/ AtLast(s, n) THEN s.gap ELSE Down(s, Start(s, n), Run(s, n))

Moved(s, a, n) ==
  /\ TreeGood(a) /\ SameLists(a, s) /\ a.data_offset = s.data_offset
  /\ \A g \in Files : Start(a, g) = NewStart(s, n, g)
  /\ a.gap = NewGap(s, n)

\* ShiftDown moves the gaps the way FileLayout does if none of them is in between.
LEMMA GapsDown ==
  ASSUME NEW s, Spots(s), NEW at \in Nat, NEW from \in Nat, NEW n \in Nat,
         \A b \in s.gap : (b < at /\ b < from) \/ (b >= at + n /\ b >= from)
  PROVE  { IF b >= from THEN b - n ELSE b : b \in s.gap } = Down(s, at, n)
<1>1. PICK o \in Nat : o = s.data_offset
  BY DEF Spots
<1>2. PICK G \in SUBSET Nat : G = s.gap
  BY DEF Spots
<1>3. \A b \in G : b \in Nat /\ b < o /\ ((b < at /\ b < from) \/ (b >= at + n /\ b >= from))
  BY <1>1, <1>2 DEF Spots
<1> DEFINE L == { IF b >= from THEN b - n ELSE b : b \in G }
           R == { b \in 0..o : \/ b < at /\ b \in G
                               \/ b + n >= at /\ b + n \in G }
<1>4. ASSUME NEW b \in G PROVE (IF b >= from THEN b - n ELSE b) \in R
  <2>1. CASE b < at /\ b < from
    <3>1. ~(b >= from) /\ b \in 0..o
      BY <1>3, <2>1
    <3> QED BY <2>1, <3>1
  <2>2. CASE b >= at + n /\ b >= from
    <3>1. PICK x \in 0..o : x = b - n
      BY <1>3, <2>2
    <3>2. x + n = b /\ x + n >= at
      BY <1>3, <2>2, <3>1
    <3> QED BY <2>2, <3>1, <3>2
  <2> QED BY <1>3, <2>1, <2>2
<1>5. ASSUME NEW x \in R PROVE x \in L
  <2>1. x \in Nat
    OBVIOUS
  <2>2. CASE x < at /\ x \in G
    <3>1. ~(x >= from)
      BY <1>3, <2>1, <2>2
    <3>2. (IF x >= from THEN x - n ELSE x) = x
      BY <3>1
    <3> QED BY <2>2, <3>2
  <2>3. CASE x + n >= at /\ x + n \in G
    <3>1. PICK b \in G : b = x + n
      BY <2>3
    <3>2. b >= from
      BY <1>3, <2>1, <2>3, <3>1
    <3>3. (IF b >= from THEN b - n ELSE b) = x
      BY <2>1, <3>1, <3>2
    <3> QED BY <3>3
  <2> QED BY <2>2, <2>3
<1>6. L = R
  BY <1>4, <1>5
<1> QED BY <1>1, <1>2, <1>6 DEF Down

\* What ShiftDown does to the accounting.
LEMMA ShiftDownFields ==
  ASSUME NEW s, Shape(s), NEW from, NEW n
  PROVE  /\ SameLists(ShiftDown(s, from, n), s)
         /\ ShiftDown(s, from, n).data_offset = s.data_offset
         /\ ShiftDown(s, from, n).gap = { IF b >= from THEN b - n ELSE b : b \in s.gap }
         /\ \A f \in Files : Start(ShiftDown(s, from, n), f) =
              IF PhysicalSize(s.file[f]) # 0 /\ Start(s, f) >= from
              THEN Start(s, f) - n ELSE Start(s, f)
<1>1. SameLists(ShiftDown(s, from, n), s)
  BY ShiftDownSame
<1>2. PICK F : F = [f \in Files |-> Lowered(s.file[f], from, n)]
  OBVIOUS
<1>3. PICK g : g = { IF b >= from THEN b - n ELSE b : b \in s.gap }
  OBVIOUS
<1>4. PICK a : a = TreeOf(s.disk, s.data_offset, g, F)
  OBVIOUS
<1>5. ShiftDown(s, from, n) = a
  <2>1. ShiftDown(s, from, n) = [s EXCEPT !.file = F, !.gap = g]
    BY <1>2, <1>3 DEF ShiftDown
  <2>2. s = TreeOf(s.disk, s.data_offset, s.gap, s.file)
    BY DEF Shape
  <2>3. [s EXCEPT !.file = F, !.gap = g] = [[s EXCEPT !.file = F] EXCEPT !.gap = g]
    BY <2>2 DEF TreeOf
  <2>4. [s EXCEPT !.file = F] = TreeOf(s.disk, s.data_offset, s.gap, F)
    BY TreeUpdates
  <2>5. [TreeOf(s.disk, s.data_offset, s.gap, F) EXCEPT !.gap = g] = a
    BY <1>4 DEF TreeOf
  <2> QED BY <2>1, <2>3, <2>4, <2>5
<1>6. a.data_offset = s.data_offset /\ a.gap = g /\ a.file = F
  BY <1>4, TreeFields
<1>7. ASSUME NEW f \in Files
      PROVE  Start(a, f) = IF PhysicalSize(s.file[f]) # 0 /\ Start(s, f) >= from
                           THEN Start(s, f) - n ELSE Start(s, f)
  <2>1. PICK r : r = s.file[f]
    OBVIOUS
  <2>2. r = FileOf(r.size, r.start_index, r.sparse)
    BY <2>1 DEF Shape
  <2>3. PICK i : i = r.start_index - n
    OBVIOUS
  <2>4. [r EXCEPT !.start_index = i].start_index = i
    BY <2>2, OtherFileFields, FileFields
  <2>5. a.file[f] = IF PhysicalSize(r) # 0 /\ r.start_index >= from
                    THEN [r EXCEPT !.start_index = i] ELSE r
    BY <1>2, <1>6, <2>1, <2>3 DEF Lowered
  <2> QED BY <2>1, <2>3, <2>4, <2>5 DEF Start
<1> QED BY <1>1, <1>3, <1>5, <1>6, <1>7

\* A new start of one file, and what that does to the accounting.
SetStart(s, n, i) == [s EXCEPT !.file[n].start_index = i]

\* Nothing but the start of the file changes.
LEMMA StartFields ==
  ASSUME NEW s, Shape(s), NEW n \in Files, NEW i
  PROVE  /\ SameLists(SetStart(s, n, i), s)
         /\ SetStart(s, n, i).data_offset = s.data_offset
         /\ SetStart(s, n, i).gap = s.gap
         /\ \A f \in Files : Start(SetStart(s, n, i), f) = IF f = n THEN i ELSE Start(s, f)
<1>1. SameLists(SetStart(s, n, i), s)
  BY StartMoved DEF SetStart
<1>2. PICK r : r = s.file[n]
  OBVIOUS
<1>3. r = FileOf(r.size, r.start_index, r.sparse)
  BY <1>2 DEF Shape
<1>4. PICK q : q = [r EXCEPT !.start_index = i]
  OBVIOUS
<1>5. q.start_index = i
  BY <1>3, <1>4, OtherFileFields, FileFields
<1>6. PICK F : F = [s.file EXCEPT ![n] = q]
  OBVIOUS
<1>7. PICK a : a = [s EXCEPT !.file = F]
  OBVIOUS
<1>8. SetStart(s, n, i) = a
  BY <1>2, <1>4, <1>6, <1>7 DEF SetStart
<1>9. a = TreeOf(s.disk, s.data_offset, s.gap, F)
  BY <1>7, TreeUpdates
<1>10. a.data_offset = s.data_offset /\ a.gap = s.gap /\ a.file = F
  BY <1>9, TreeFields
<1>11. s.file = [f \in Files |-> s.file[f]]
  BY DEF Shape
<1>12. \A f \in Files : F[f] = IF f = n THEN q ELSE s.file[f]
  BY <1>6, <1>11
<1>13. \A f \in Files : Start(a, f) = IF f = n THEN i ELSE Start(s, f)
  BY <1>5, <1>10, <1>12 DEF Start
<1> QED BY <1>1, <1>8, <1>10, <1>13

\* fstree_file_move_to_end is the move of FileLayout; if it fails only contents
\* of blocks have changed.
LEMMA MoveToEndMoves ==
  ASSUME NEW s, TreeGood(s), Spots(s), NEW n \in Files
  PROVE  IF MoveToEnd(s, n).ok THEN Moved(s, MoveToEnd(s, n).fs, n)
         ELSE SameAccount(MoveToEnd(s, n).fs, s)
<1>1. Shape(s)
  BY GoodShape
<1>2. PICK blk \in Nat : blk = Run(s, n)
  BY RunFacts
<1>3. PICK src \in Nat, end \in Nat : src = Start(s, n) /\ end = s.data_offset
  BY DEF Spots
<1>4. PICK a : a = MemMove(s, end, src, blk)
  OBVIOUS
<1>5. SameAccount(a.fs, s) /\ Shape(a.fs)
  BY <1>1, <1>4, MemMoveAccount, AccountShape
<1>6. PICK b : b = MemMove(a.fs, src, src + blk, end - src)
  OBVIOUS
<1>7. SameAccount(b.fs, s) /\ Shape(b.fs)
  <2>1. SameAccount(b.fs, a.fs)
    BY <1>5, <1>6, MemMoveAccount
  <2> QED BY <1>5, <2>1, AccountTwice, AccountShape
<1>8. PICK c : c = Discard(b.fs, end, blk)
  OBVIOUS
<1>9. SameAccount(c, s) /\ Shape(c)
  <2>1. SameAccount(c, b.fs)
    BY <1>7, <1>8, DiscardAccount
  <2> QED BY <1>7, <2>1, AccountTwice, AccountShape
<1>10. PICK d : d = SetStart(c, n, end)
  OBVIOUS
<1>11. PICK e : e = ShiftDown(d, src, blk)
  OBVIOUS
<1>12. PICK z : z = SetStart(s, n, end)
  OBVIOUS
<1>13. MoveToEnd(s, n) = IF blk = 0 THEN Ok(z)
                         ELSE IF blk >= end - src THEN Ok(s)
                         ELSE IF a.ok THEN (IF b.ok THEN Ok(e) ELSE b) ELSE a
  BY <1>2, <1>3, <1>4, <1>6, <1>8, <1>10, <1>11, <1>12 DEF MoveToEnd, Then, Run, Start, SetStart
<1>14. Ok(z).ok /\ Ok(z).fs = z /\ Ok(s).ok /\ Ok(s).fs = s /\ Ok(e).ok /\ Ok(e).fs = e
  BY DEF Ok
<1>15. CASE blk = 0
  <2>1. /\ SameLists(z, s) /\ z.data_offset = s.data_offset /\ z.gap = s.gap
        /\ \A f \in Files : Start(z, f) = IF f = n THEN end ELSE Start(s, f)
    BY <1>1, <1>12, StartFields
  <2>2. TreeGood(z)
    BY <2>1, SameGood
  <2>3. z.gap = NewGap(s, n)
    BY <1>2, <1>15, <2>1 DEF NewGap
  <2>4. \A g \in Files : Start(z, g) = NewStart(s, n, g)
    BY <1>2, <1>3, <1>15, <2>1 DEF NewStart
  <2>5. Moved(s, z, n)
    BY <2>1, <2>2, <2>3, <2>4 DEF Moved
  <2> QED BY <1>13, <1>14, <1>15, <2>5
<1>16. CASE blk # 0 /\ blk >= end - src
  <2>1. AtLast(s, n) /\ Run(s, n) # 0
    BY <1>2, <1>3, <1>16 DEF AtLast
  <2>2. SameLists(s, s)
    BY <1>1, SameSelf
  <2>3. s.gap = NewGap(s, n)
    BY <2>1 DEF NewGap
  <2>4. \A g \in Files : Start(s, g) = NewStart(s, n, g)
    BY <2>1 DEF NewStart
  <2>5. Moved(s, s, n)
    BY <2>2, <2>3, <2>4 DEF Moved
  <2> QED BY <1>13, <1>14, <1>16, <2>5
<1>17. CASE blk # 0 /\ ~(blk >= end - src) /\ a.ok /\ b.ok
  <2>1. Run(s, n) # 0 /\ ~AtLast(s, n)
    BY <1>2, <1>3, <1>17 DEF AtLast
  <2>2. /\ SameLists(d, c) /\ d.data_offset = c.data_offset /\ d.gap = c.gap
        /\ \A f \in Files : Start(d, f) = IF f = n THEN end ELSE Start(c, f)
    BY <1>9, <1>10, StartFields
  <2>3. Shape(d)
    BY <2>2, SameShape
  <2>4. /\ SameLists(e, d) /\ e.data_offset = d.data_offset
        /\ e.gap = { IF x >= src THEN x - blk ELSE x : x \in d.gap }
        /\ \A f \in Files : Start(e, f) =
             IF PhysicalSize(d.file[f]) # 0 /\ Start(d, f) >= src
             THEN Start(d, f) - blk ELSE Start(d, f)
    BY <1>11, <2>3, ShiftDownFields
  <2>5. SameLists(c, s) /\ c.data_offset = s.data_offset /\ c.gap = s.gap
        /\ \A f \in Files : Start(c, f) = Start(s, f)
    BY <1>9 DEF SameAccount, SameLists, Start
  <2>6. SameLists(d, s) /\ SameLists(e, s)
    BY <2>2, <2>4, <2>5, SameTwice
  <2>7. TreeGood(e)
    BY <2>6, SameGood
  <2>8. e.gap = NewGap(s, n)
    <3>1. \A x \in s.gap : (x < src /\ x < src) \/ (x >= src + blk /\ x >= src)
      <4> SUFFICES ASSUME NEW x \in s.gap PROVE x < src \/ (x >= src + blk /\ x >= src)
        OBVIOUS
      <4>1. x \in Nat /\ (x < src \/ x >= src + blk)
        BY <1>2, <1>3 DEF Spots
      <4> QED BY <4>1
    <3>2. { IF x >= src THEN x - blk ELSE x : x \in s.gap } = Down(s, src, blk)
      BY <3>1, GapsDown
    <3>3. NewGap(s, n) = Down(s, src, blk)
      BY <1>2, <1>3, <2>1 DEF NewGap
    <3> QED BY <2>2, <2>4, <2>5, <3>2, <3>3
  <2>9. ASSUME NEW g \in Files PROVE Start(e, g) = NewStart(s, n, g)
    <3>1. PhysicalSize(d.file[g]) # 0 <=> Run(s, g) # 0
      BY <2>6, RunSame
    <3>2. NewStart(s, n, g) = IF g = n THEN end - blk
                              ELSE IF Run(s, g) # 0 /\ Start(s, g) >= src
                                   THEN Start(s, g) - blk ELSE Start(s, g)
      BY <1>2, <1>3, <2>1 DEF NewStart
    <3>3. CASE g = n
      <4>1. Start(d, g) = end
        BY <2>2, <3>3
      <4>2. end >= src
        <5>1. Start(s, n) + Run(s, n) <= s.data_offset
          BY <2>1 DEF Spots
        <5> QED BY <1>2, <1>3, <5>1
      <4> QED BY <2>1, <2>4, <3>1, <3>2, <3>3, <4>1, <4>2
    <3>4. CASE g # n
      <4>1. Start(d, g) = Start(s, g)
        BY <2>2, <2>5, <3>4
      <4> QED BY <2>4, <3>1, <3>2, <3>4, <4>1
    <3> QED BY <3>3, <3>4
  <2>10. Moved(s, e, n)
    BY <2>2, <2>4, <2>5, <2>6, <2>7, <2>8, <2>9 DEF Moved
  <2>11. MoveToEnd(s, n) = Ok(e)
    BY <1>13, <1>17
  <2> QED BY <1>14, <2>10, <2>11
<1>18. CASE blk # 0 /\ ~(blk >= end - src) /\ a.ok /\ ~b.ok
  <2>1. MoveToEnd(s, n) = b
    BY <1>13, <1>18
  <2> QED BY <1>7, <1>18, <2>1
<1>19. CASE blk # 0 /\ ~(blk >= end - src) /\ ~a.ok
  <2>1. MoveToEnd(s, n) = a
    BY <1>13, <1>19
  <2> QED BY <1>5, <1>19, <2>1
<1> QED BY <1>15, <1>16, <1>17, <1>18, <1>19

-----------------------------------------------------------------------------
\* t is s with the layout unchanged; with n moved to the end and d blocks longer;
\* and with n, where it is, d blocks longer.
SameLayout(s, t) ==
  /\ t.data_offset = s.data_offset /\ t.gap = s.gap
  /\ \A f \in Files : Start(t, f) = Start(s, f) /\ Run(t, f) = Run(s, f)

Shifted(s, t, n, d) ==
  /\ t.data_offset = s.data_offset + d /\ t.gap = NewGap(s, n)
  /\ \A f \in Files : /\ Start(t, f) = NewStart(s, n, f)
                      /\ Run(t, f) = IF f = n THEN Run(s, f) + d ELSE Run(s, f)

Adds(a, t, n, d) ==
  /\ t.data_offset = a.data_offset + d /\ t.gap = a.gap
  /\ \A f \in Files : /\ Start(t, f) = Start(a, f)
                      /\ Run(t, f) = IF f = n THEN Run(a, f) + d ELSE Run(a, f)

\* The used area ends on the volume, unless there is nothing but a gap.
Room(s) ==
  \/ s.data_offset <= MaxBlocks
  \/ s.data_offset <= MaxGaps /\ \A f \in Files : Run(s, f) = 0

\* What an iteration of append or write on file n may do to the layout, and that
\* the used area ends on the volume if it succeeds.
Iterates(s, o, n) ==
  /\ \/ SameLayout(s, o.fs)
     \/ \E d \in {-1, 0, 1} : Shifted(s, o.fs, n, d)
  /\ o.ok => Room(o.fs)

\* A change of the contents of blocks.
LEMMA AccountLayout ==
  ASSUME NEW a, NEW t, SameAccount(t, a)
  PROVE  SameLayout(a, t)
  BY DEF SameAccount, SameLayout, Start, Run

\* A move, and more blocks.
LEMMA MovedAdds ==
  ASSUME NEW s, TreeGood(s), NEW a, NEW n \in Files, Moved(s, a, n), NEW t, NEW d, Adds(a, t, n, d)
  PROVE  Shifted(s, t, n, d)
<1>1. SameLists(a, s) /\ a.data_offset = s.data_offset /\ a.gap = NewGap(s, n)
      /\ \A g \in Files : Start(a, g) = NewStart(s, n, g)
  BY DEF Moved
<1>2. \A f \in Files : Run(a, f) = Run(s, f)
  BY <1>1, RunSame
<1> QED BY <1>1, <1>2 DEF Adds, Shifted

\* A move, and other contents.
LEMMA MovedLayout ==
  ASSUME NEW s, TreeGood(s), Spots(s), NEW a, NEW n \in Files, Moved(s, a, n), NEW t, SameLayout(a, t)
  PROVE  Shifted(s, t, n, 0)
<1>1. SameLists(a, s) /\ a.data_offset = s.data_offset
  BY DEF Moved
<1>2. ASSUME NEW f \in Files PROVE Run(a, f) = Run(s, f) /\ Run(s, f) \in Nat
  BY <1>1, RunSame, RunFacts
<1>3. s.data_offset \in Nat
  BY DEF Spots
<1>4. Adds(a, t, n, 0)
  BY <1>1, <1>2, <1>3 DEF Adds, SameLayout
<1> QED BY <1>4, MovedAdds

\* Room is about the layout.
LEMMA RoomKept ==
  ASSUME NEW s, TreeGood(s), Spots(s), Room(s), NEW t
  PROVE  /\ SameLayout(s, t) => Room(t)
         /\ \A n \in Files : Shifted(s, t, n, 0) => Room(t)
         /\ \A n \in Files : Shifted(s, t, n, -1) /\ Run(t, n) \in Nat => Room(t)
         /\ t.data_offset <= MaxBlocks => Room(t)
<1>1. s.data_offset \in Nat /\ \A f \in Files : Run(s, f) \in Nat
  BY RunFacts DEF Spots
<1>2. MaxBlocks \in Nat /\ MaxGaps \in Nat
  BY FSTreeAssumption
<1>3. ASSUME SameLayout(s, t) PROVE Room(t)
  BY <1>3 DEF SameLayout, Room
<1>4. ASSUME NEW n \in Files, Shifted(s, t, n, 0) PROVE Room(t)
  <2>1. t.data_offset = s.data_offset /\ \A f \in Files : Run(t, f) = Run(s, f)
    BY <1>1, <1>4 DEF Shifted
  <2> QED BY <2>1 DEF Room
<1>5. ASSUME NEW n \in Files, Shifted(s, t, n, -1), Run(t, n) \in Nat PROVE Room(t)
  <2>1. Run(t, n) = Run(s, n) + (-1) /\ t.data_offset = s.data_offset + (-1)
    BY <1>5 DEF Shifted
  <2>2. Run(s, n) # 0
    BY <1>1, <1>5, <2>1
  <2>3. s.data_offset <= MaxBlocks
    BY <2>2 DEF Room
  <2>4. t.data_offset <= MaxBlocks
    BY <1>1, <1>2, <2>1, <2>3
  <2> QED BY <2>4 DEF Room
<1> QED BY <1>3, <1>4, <1>5 DEF Room

\* A used area with room can grow by one block.
LEMMA RoomBound ==
  ASSUME NEW s, s.data_offset \in Nat, Room(s)
  PROVE  MaxOffset \in Nat /\ s.data_offset < MaxOffset
<1>1. PICK a \in Nat, b \in Nat : a = MaxBlocks /\ b = MaxGaps
  BY FSTreeAssumption
<1>2. PICK o \in Nat : o = s.data_offset
  OBVIOUS
<1>3. o <= a \/ o <= b
  BY <1>1, <1>2 DEF Room
<1>4. a \in Int /\ b \in Int
  OBVIOUS
<1>5. CASE a <= b
  <2>1. Max({a, b}) = b
    BY <1>4, <1>5, MaxTwo
  <2> QED BY <1>1, <1>2, <1>3, <1>5, <2>1 DEF MaxOffset
<1>6. CASE b <= a
  <2>1. Max({a, b}) = a
    BY <1>4, <1>6, MaxTwo
  <2> QED BY <1>1, <1>2, <1>3, <1>6, <2>1 DEF MaxOffset
<1> QED BY <1>5, <1>6

\* Other sizes and lists of one file leave the rest of the accounting alone.
LEMMA ListFields ==
  ASSUME NEW s, Shape(s), NEW n \in Files, NEW l, NEW z
  PROVE  /\ SetSparse(s, n, l).data_offset = s.data_offset /\ SetSparse(s, n, l).gap = s.gap
         /\ SetSize(s, n, z).data_offset = s.data_offset /\ SetSize(s, n, z).gap = s.gap
         /\ \A f \in Files : /\ Start(SetSparse(s, n, l), f) = Start(s, f)
                             /\ Start(SetSize(s, n, z), f) = Start(s, f)
<1>1. PICK r : r = s.file[n]
  OBVIOUS
<1>2. r = FileOf(r.size, r.start_index, r.sparse)
  BY <1>1 DEF Shape
<1>3. s.file = [f \in Files |-> s.file[f]]
  BY DEF Shape
<1>4. ASSUME NEW q, q.start_index = r.start_index, NEW a, a = [s EXCEPT !.file[n] = q]
      PROVE  /\ a.data_offset = s.data_offset /\ a.gap = s.gap
             /\ \A f \in Files : Start(a, f) = Start(s, f)
  <2>1. PICK F : F = [s.file EXCEPT ![n] = q]
    OBVIOUS
  <2>2. PICK b : b = [s EXCEPT !.file = F]
    OBVIOUS
  <2>3. a = b
    BY <1>4, <2>1, <2>2
  <2>4. b = TreeOf(s.disk, s.data_offset, s.gap, F)
    BY <2>2, TreeUpdates
  <2>5. b.data_offset = s.data_offset /\ b.gap = s.gap /\ b.file = F
    BY <2>4, TreeFields
  <2>6. \A f \in Files : F[f] = IF f = n THEN q ELSE s.file[f]
    BY <1>3, <2>1
  <2>7. \A f \in Files : Start(b, f) = Start(s, f)
    BY <1>1, <1>4, <2>5, <2>6 DEF Start
  <2> QED BY <2>3, <2>5, <2>7
<1>5. PICK q : q = [r EXCEPT !.sparse = l]
  OBVIOUS
<1>6. PICK p : p = [r EXCEPT !.size = z]
  OBVIOUS
<1>7. q.start_index = r.start_index
  BY <1>2, <1>5, OtherFileFields, FileFields
<1>8. p.start_index = r.start_index
  BY <1>2, <1>6, OtherFileFields, FileFields
<1>9. PICK a : a = [s EXCEPT !.file[n] = q]
  OBVIOUS
<1>10. PICK b : b = [s EXCEPT !.file[n] = p]
  OBVIOUS
<1>11. SetSparse(s, n, l) = a
  BY <1>1, <1>5, <1>9 DEF SetSparse
<1>12. SetSize(s, n, z) = b
  BY <1>1, <1>6, <1>10 DEF SetSize
<1>13. /\ a.data_offset = s.data_offset /\ a.gap = s.gap
       /\ \A f \in Files : Start(a, f) = Start(s, f)
  BY <1>4, <1>7, <1>9
<1>14. /\ b.data_offset = s.data_offset /\ b.gap = s.gap
       /\ \A f \in Files : Start(b, f) = Start(s, f)
  BY <1>4, <1>8, <1>10
<1> QED BY <1>11, <1>12, <1>13, <1>14

\* A longer used area.
LEMMA UsedFields ==
  ASSUME NEW s, Shape(s), NEW m
  PROVE  /\ Used(s, m).data_offset = s.data_offset + m
         /\ Used(s, m).gap = s.gap /\ Used(s, m).file = s.file
<1>1. PICK o : o = s.data_offset + m
  OBVIOUS
<1>2. Used(s, m) = [s EXCEPT !.data_offset = o]
  BY <1>1 DEF Used
<1>3. [s EXCEPT !.data_offset = o] = TreeOf(s.disk, o, s.gap, s.file)
  BY TreeUpdates
<1> QED BY <1>1, <1>2, <1>3, TreeFields

-----------------------------------------------------------------------------
\* The blocks of a file that grows within its last block or by one block.
LEMMA TailBlocks ==
  ASSUME NEW z \in Nat, NEW m \in Nat \ {0}, m <= BlockSize - (z % BlockSize)
  PROVE  /\ z % BlockSize > 0 => BlocksFor(z + m) = BlocksFor(z)
         /\ ~(z % BlockSize > 0) => /\ z \div BlockSize = BlocksFor(z)
                                    /\ BlocksFor(z + m) = BlocksFor(z) + 1
<1>1. PICK d \in Nat \ {0} : d = BlockSize
  BY FSTreeAssumption
<1>2. PICK i \in Nat, r \in 0..(d - 1) : i = z \div d /\ r = z % d /\ z = d * i + r
  <2>1. z = d * (z \div d) + (z % d) /\ z % d \in 0..(d - 1) /\ z \div d \in Nat
    OBVIOUS
  <2> QED BY <2>1
<1>3. PICK e \in Nat : e = d * i
  OBVIOUS
<1>4. z = e + r /\ m <= d - r
  BY <1>1, <1>2, <1>3
<1>5. d * (i + 1) = e + d
  BY <1>3
<1>6. PICK y \in Nat, j \in Nat : y = z + m /\ j = i + 1
  OBVIOUS
<1>7. BlockSize * i = e /\ BlockSize * j = e + d
  BY <1>1, <1>3, <1>5, <1>6
<1>8. BlocksFor(y) = j
  <2>1. y <= e + d /\ e + d < y + d
    BY <1>4, <1>6
  <2> QED BY <1>1, <1>7, <2>1, BlocksForIs
<1>9. CASE r > 0
  <2>1. z <= e + d /\ e + d < z + d
    BY <1>4, <1>9
  <2>2. BlocksFor(z) = j
    BY <1>1, <1>7, <2>1, BlocksForIs
  <2> QED BY <1>1, <1>2, <1>6, <1>8, <1>9, <2>2
<1>10. CASE ~(r > 0)
  <2>1. z <= e /\ e < z + d
    BY <1>4, <1>10
  <2>2. BlocksFor(z) = i
    BY <1>1, <1>7, <2>1, BlocksForIs
  <2> QED BY <1>1, <1>2, <1>6, <1>8, <1>10, <2>2
<1> QED BY <1>9, <1>10

\* One file of a tree gets another list.
LEMMA RelistRun ==
  ASSUME NEW s, TreeGood(s), NEW n \in Files, NEW l, FileGood(s.file[n].size, l)
  PROVE  /\ TreeGood(SetSparse(s, n, l))
         /\ \A f \in Files : Run(SetSparse(s, n, l), f) =
              IF f = n THEN BlocksFor(s.file[n].size) - Held(l) ELSE Run(s, f)
<1>1. PICK a : a = SetSparse(s, n, l)
  OBVIOUS
<1>2. TreeGood(a) /\ SameSizes(a, s)
  BY <1>1, SetSparseGood
<1>3. \A f \in Files : a.file[f].sparse = IF f = n THEN l ELSE s.file[f].sparse
  BY <1>1, GoodShape, SetSparseFacts
<1>4. ASSUME NEW f \in Files
      PROVE  Run(a, f) = IF f = n THEN BlocksFor(s.file[n].size) - Held(l) ELSE Run(s, f)
  <2>1. Run(a, f) = BlocksFor(a.file[f].size) - Held(a.file[f].sparse)
    BY <1>2, RunFacts
  <2>2. Run(s, f) = BlocksFor(s.file[f].size) - Held(s.file[f].sparse)
    BY RunFacts
  <2>3. a.file[f].size = s.file[f].size
    BY <1>2 DEF SameSizes
  <2> QED BY <1>3, <2>1, <2>2, <2>3
<1> QED BY <1>1, <1>2, <1>4

\* One file of a tree gets longer.  Its list may already name the new block.
LEMMA ResizeRun ==
  ASSUME NEW s, Shape(s), NEW n \in Files, NEW y, FileGood(y, s.file[n].sparse),
         \A f \in Files : f # n => FileGood(s.file[f].size, s.file[f].sparse)
  PROVE  /\ TreeGood(SetSize(s, n, y))
         /\ Run(SetSize(s, n, y), n) = BlocksFor(y) - Held(s.file[n].sparse)
         /\ \A f \in Files : f # n => Run(SetSize(s, n, y), f) = Run(s, f)
<1>1. PICK a : a = SetSize(s, n, y)
  OBVIOUS
<1>2. /\ Shape(a)
      /\ \A f \in Files : /\ a.file[f].sparse = s.file[f].sparse
                          /\ a.file[f].size = IF f = n THEN y ELSE s.file[f].size
  BY <1>1, SizeChanged
<1>3. \A f \in Files : FileGood(a.file[f].size, a.file[f].sparse)
  BY <1>2
<1>4. TreeGood(a)
  BY <1>2, <1>3 DEF TreeGood
<1>5. Run(a, n) = BlocksFor(y) - Held(s.file[n].sparse)
  BY <1>2, <1>4, RunFacts
<1>6. ASSUME NEW f \in Files, f # n PROVE Run(a, f) = Run(s, f)
  <2>1. Run(a, f) = BlocksFor(s.file[f].size) - Held(s.file[f].sparse)
    BY <1>2, <1>4, <1>6, RunFacts
  <2>2. FileGood(s.file[f].size, s.file[f].sparse)
    BY <1>6
  <2>3. Run(s, f) = BlocksFor(s.file[f].size) - Held(s.file[f].sparse)
    BY <2>2, PhysBlocksAre DEF Run
  <2> QED BY <2>1, <2>3
<1> QED BY <1>1, <1>4, <1>5, <1>6

\* A used area that is longer by d blocks, and another list with d blocks less.
LEMMA RelistAdds ==
  ASSUME NEW s, TreeGood(s), NEW n \in Files, NEW l, FileGood(s.file[n].size, l), NEW d \in Int,
         Held(l) \in Nat, Held(s.file[n].sparse) \in Nat, Held(l) = Held(s.file[n].sparse) - d
  PROVE  /\ TreeGood(Used(SetSparse(s, n, l), d))
         /\ Adds(s, Used(SetSparse(s, n, l), d), n, d)
<1>1. Shape(s)
  BY GoodShape
<1>2. PICK a : a = SetSparse(s, n, l)
  OBVIOUS
<1>3. /\ TreeGood(a) /\ Shape(a)
      /\ \A f \in Files : Run(a, f) =
           IF f = n THEN BlocksFor(s.file[n].size) - Held(l) ELSE Run(s, f)
  BY <1>2, RelistRun, GoodShape
<1>4. a.data_offset = s.data_offset /\ a.gap = s.gap /\ \A f \in Files : Start(a, f) = Start(s, f)
  BY <1>1, <1>2, ListFields
<1>5. PICK b : b = Used(a, d)
  OBVIOUS
<1>6. b.data_offset = a.data_offset + d /\ b.gap = a.gap /\ b.file = a.file
  BY <1>3, <1>5, UsedFields
<1>7. SameLists(b, a)
  BY <1>3, <1>5, UsedSame
<1>8. TreeGood(b)
  BY <1>3, <1>7, SameGood
<1>9. Run(s, n) = BlocksFor(s.file[n].size) - Held(s.file[n].sparse) /\ BlocksFor(s.file[n].size) \in Nat
  BY RunFacts, BlocksForBounds DEF TreeGood, FileGood
<1>10. ASSUME NEW f \in Files
      PROVE  Start(b, f) = Start(s, f) /\ Run(b, f) = IF f = n THEN Run(s, f) + d ELSE Run(s, f)
  <2>1. Start(b, f) = Start(s, f) /\ Run(b, f) = Run(a, f)
    BY <1>4, <1>6 DEF Start, Run
  <2>2. PICK q \in Nat, h \in Nat : q = BlocksFor(s.file[n].size) /\ h = Held(s.file[n].sparse)
    BY <1>9
  <2>3. Run(a, n) = q - (h - d) /\ Run(s, n) = q - h
    BY <1>3, <1>9, <2>2
  <2>4. f = n => Run(b, f) = Run(s, f) + d
    BY <2>1, <2>2, <2>3
  <2> QED BY <1>3, <2>1, <2>4
<1>11. Adds(s, b, n, d)
  BY <1>4, <1>6, <1>10 DEF Adds
<1> QED BY <1>2, <1>5, <1>8, <1>11

\* A block within the volume is one of its blocks.
LEMMA DiskBlocks ==
  ASSUME NEW b \in Int
  PROVE  b \in Disk <=> 0 <= b /\ b < MaxBlocks
  BY FSTreeAssumption DEF Disk

\* A tree with other contents of blocks has the same lists.
LEMMA AccountLists ==
  ASSUME NEW s, TreeGood(s), NEW a, SameAccount(a, s)
  PROVE  SameLists(a, s) /\ TreeGood(a) /\ Shape(a)
<1>1. SameLists(a, s)
  BY DEF SameAccount, SameLists
<1> QED BY <1>1, SameGood, GoodShape

\* The blocks of the lists of a tree can be counted.
LEMMA HeldNat ==
  ASSUME NEW x, NEW l, FileGood(x, l)
  PROVE  IsFiniteSet(Holes(l)) /\ Held(l) \in Nat
<1>1. PICK f : f = FileOf(x, 0, l)
  OBVIOUS
<1>2. f.size = x /\ f.sparse = l
  BY <1>1, FileFields
<1> QED BY <1>2, PhysBlocksAre

\* The file is moved to the end and gets a list that names d blocks less, the
\* used area grows by d blocks, and contents of blocks change before and after.
LEMMA RelistShifts ==
  ASSUME NEW s, TreeGood(s), Spots(s), NEW n \in Files, NEW a, Moved(s, a, n),
         NEW b, SameAccount(b, a), NEW l, FileGood(s.file[n].size, l), NEW d \in Int,
         Held(l) = Held(s.file[n].sparse) - d,
         NEW t, SameAccount(t, Used(SetSparse(b, n, l), d))
  PROVE  Shifted(s, t, n, d)
<1>1. TreeGood(a) /\ SameLists(a, s)
  BY DEF Moved
<1>2. SameLists(b, a) /\ TreeGood(b) /\ Shape(b)
  BY <1>1, AccountLists
<1>3. b.file[n].size = s.file[n].size /\ b.file[n].sparse = s.file[n].sparse
  BY <1>1, <1>2 DEF SameLists
<1>4. Held(l) \in Nat /\ Held(s.file[n].sparse) \in Nat
  BY HeldNat DEF TreeGood
<1>5. PICK u : u = Used(SetSparse(b, n, l), d)
  OBVIOUS
<1>6. TreeGood(u) /\ Adds(b, u, n, d)
  BY <1>2, <1>3, <1>4, <1>5, RelistAdds
<1>7. SameLayout(a, b) /\ SameLayout(u, t)
  BY <1>5, AccountLayout
<1>8. Adds(a, t, n, d)
  BY <1>6, <1>7 DEF SameLayout, Adds
<1> QED BY <1>8, MovedAdds

\* append_to_tail: the tail is written where it is, or it takes the last block of
\* a hole.
LEMMA TailIterates ==
  ASSUME NEW s, TreeGood(s), Spots(s), Room(s), NEW n \in Files, NEW i, NEW z, NEW data
  PROVE  Iterates(s, append_to_tail(s, n, i, z, data), n)
<1>1. Shape(s)
  BY GoodShape
<1>2. PICK l : l = s.file[n].sparse
  OBVIOUS
<1>3. FileGood(s.file[n].size, l) /\ ListOK(l) /\ Len(l) \in Nat
  BY <1>2 DEF TreeGood, FileGood, ListOK
<1>4. PICK k : k = TailRegion(s.file[n], i)
  OBVIOUS
<1>5. k # 0 => k \in 1..Len(l)
  <2>1. PICK I : I = { j \in 1..Len(l) : l[j].count >= i - l[j].index }
    OBVIOUS
  <2>2. k = FirstOf(I)
    BY <1>2, <1>4, <2>1 DEF TailRegion, SelectInSeq, FirstOf
  <2>3. k # 0 => k \in I
    BY <1>3, <2>1, <2>2, FirstFacts
  <2> QED BY <2>1, <2>3
<1>6. PICK w : w = WritePartial(s, s.file[n].start_index + i - CountWhere(l, LAMBDA r : TRUE), z, data)
  OBVIOUS
<1>7. SameLayout(s, w.fs)
  BY <1>1, <1>6, WriteAccount, AccountLayout
<1>8. PICK a : a = MoveToEnd(s, n)
  OBVIOUS
<1>9. IF a.ok THEN Moved(s, a.fs, n) ELSE SameAccount(a.fs, s)
  BY <1>8, MoveToEndMoves
<1>10. PICK b : b = WritePartial(a.fs, a.fs.data_offset, 0, Zeros(z))
  OBVIOUS
<1>11. PICK t : t = DropLastOf(b.fs.file[n].sparse, k)
  OBVIOUS
<1>12. PICK u : u = Used(SetSparse(b.fs, n, t), 1)
  OBVIOUS
<1>13. PICK e : e = WritePartial(u, b.fs.data_offset, z, data)
  OBVIOUS
<1>14. append_to_tail(s, n, i, z, data) =
         IF k = 0 THEN w
         ELSE IF is_memory_zero(data) THEN Ok(s)
         ELSE IF a.ok THEN (IF b.ok THEN e ELSE b) ELSE a
  BY <1>2, <1>4, <1>6, <1>8, <1>10, <1>11, <1>12, <1>13 DEF append_to_tail, Then
<1>15. Iterates(s, w, n)
  BY <1>7, RoomKept DEF Iterates
<1>16. Iterates(s, Ok(s), n)
  <2>1. SameLayout(s, s)
    BY DEF SameLayout
  <2>2. Ok(s).fs = s
    BY DEF Ok
  <2> QED BY <2>1, <2>2 DEF Iterates
<1>17. ~a.ok => Iterates(s, a, n)
  BY <1>9, AccountLayout DEF Iterates
<1>18. ASSUME a.ok PROVE ~b.ok => Iterates(s, b, n)
  <2>1. Moved(s, a.fs, n) /\ TreeGood(a.fs) /\ Shape(a.fs)
    BY <1>9, <1>18, GoodShape DEF Moved
  <2>2. SameLayout(a.fs, b.fs)
    BY <1>10, <2>1, WriteAccount, AccountLayout
  <2>3. Shifted(s, b.fs, n, 0)
    BY <2>1, <2>2, MovedLayout
  <2> QED BY <2>3 DEF Iterates
<1>19. ASSUME a.ok, b.ok, k # 0 PROVE Iterates(s, e, n)
  <2>1. Moved(s, a.fs, n) /\ TreeGood(a.fs) /\ Shape(a.fs)
    BY <1>9, <1>19, GoodShape DEF Moved
  <2>2. SameAccount(b.fs, a.fs) /\ (b.ok <=> a.fs.data_offset \in Disk)
    BY <1>10, <2>1, WriteAccount
  <2>3. b.fs.file[n].sparse = l /\ b.fs.data_offset = s.data_offset /\ a.fs.data_offset = s.data_offset
    BY <1>2, <2>1, <2>2 DEF SameAccount, Moved, SameLists
  <2>4. k \in 1..Len(l) /\ t = DropLastOf(l, k)
    BY <1>5, <1>11, <1>19, <2>3
  <2>5. FileGood(s.file[n].size, t)
    BY <1>3, <2>4, DropLastGood
  <2>6. PICK j \in Nat : IsSparse(l, j) /\ WithoutBlock(l, t, j)
    BY <1>3, <2>4, DropLastFacts
  <2>7. Held(t) = Held(l) - 1
    <3>1. IsFiniteSet(Holes(l))
      BY <1>3, HeldNat
    <3> QED BY <2>6, <3>1, HeldChanges
  <2>8. SameAccount(e.fs, u)
    <3>1. TreeGood(b.fs)
      BY <2>1, <2>2, AccountLists
    <3>2. FileGood(b.fs.file[n].size, t)
      BY <2>1, <2>2, <2>5 DEF SameAccount, Moved, SameLists
    <3>3. TreeGood(SetSparse(b.fs, n, t))
      BY <3>1, <3>2, RelistRun
    <3>4. Shape(u)
      BY <1>12, <3>3, GoodShape, UsedSame, SameShape
    <3> QED BY <1>13, <3>4, WriteAccount
  <2>9. Shifted(s, e.fs, n, 1)
    BY <1>2, <1>12, <2>1, <2>2, <2>5, <2>7, <2>8, RelistShifts
  <2>10. e.fs.data_offset <= MaxBlocks
    <3>1. s.data_offset \in Nat /\ s.data_offset < MaxBlocks
      BY <1>19, <2>2, <2>3, DiskBlocks DEF Spots
    <3>2. e.fs.data_offset = s.data_offset + 1
      BY <2>9 DEF Shifted
    <3> QED BY <3>1, <3>2, FSTreeAssumption
  <2> QED BY <2>9, <2>10 DEF Iterates, Room
<1>20. CASE k = 0
  BY <1>14, <1>15, <1>20
<1>21. CASE k # 0 /\ is_memory_zero(data)
  <2>1. append_to_tail(s, n, i, z, data) = Ok(s)
    BY <1>14, <1>21
  <2> QED BY <1>16, <2>1
<1>22. CASE k # 0 /\ ~is_memory_zero(data)
  <2>1. append_to_tail(s, n, i, z, data) = IF a.ok THEN (IF b.ok THEN e ELSE b) ELSE a
    BY <1>14, <1>22
  <2> QED BY <1>17, <1>18, <1>19, <1>22, <2>1
<1> QED BY <1>20, <1>21, <1>22

\* An iteration that succeeds, and something that leaves the layout alone.
LEMMA IteratesOn ==
  ASSUME NEW s, NEW o, NEW n \in Files, Iterates(s, o, n), o.ok, NEW t, SameLayout(o.fs, t)
  PROVE  Iterates(s, Ok(t), n)
<1>1. Room(t)
  BY DEF Iterates, SameLayout, Room
<1>2. SameLayout(s, o.fs) => SameLayout(s, t)
  BY DEF SameLayout
<1>3. ASSUME NEW d PROVE Shifted(s, o.fs, n, d) => Shifted(s, t, n, d)
  BY DEF SameLayout, Shifted
<1>4. Ok(t).fs = t
  BY DEF Ok
<1> QED BY <1>1, <1>2, <1>3, <1>4 DEF Iterates

\* A file that grows within its last block.
LEMMA ResizeSame ==
  ASSUME NEW s, TreeGood(s), NEW n \in Files, NEW y \in Nat, y >= s.file[n].size,
         BlocksFor(y) = BlocksFor(s.file[n].size)
  PROVE  SameLayout(s, SetSize(s, n, y))
<1>1. PICK l : l = s.file[n].sparse
  OBVIOUS
<1>2. FileGood(s.file[n].size, l)
  BY <1>1 DEF TreeGood
<1>3. FileGood(y, l)
  BY <1>2 DEF FileGood
<1>4. PICK t : t = SetSize(s, n, y)
  OBVIOUS
<1>5. Run(t, n) = BlocksFor(y) - Held(l) /\ \A f \in Files : f # n => Run(t, f) = Run(s, f)
  BY <1>1, <1>3, <1>4, ResizeRun DEF TreeGood
<1>6. Run(s, n) = BlocksFor(s.file[n].size) - Held(l)
  BY <1>1, RunFacts
<1>7. t.data_offset = s.data_offset /\ t.gap = s.gap /\ \A f \in Files : Start(t, f) = Start(s, f)
  BY <1>4, ListFields, GoodShape
<1>8. \A f \in Files : Run(t, f) = Run(s, f)
  BY <1>5, <1>6
<1> QED BY <1>4, <1>7, <1>8 DEF SameLayout

\* A file that grows by a block that is a hole.
LEMMA HoleAppended ==
  ASSUME NEW s, TreeGood(s), NEW n \in Files, NEW y \in Nat,
         BlocksFor(y) = BlocksFor(s.file[n].size) + 1, y >= s.file[n].size,
         NEW i \in Nat, i = BlocksFor(s.file[n].size)
  PROVE  SameLayout(s, SetSize(SetSparse(s, n, MarkSparse(s.file[n].sparse, i)), n, y))
<1>1. Shape(s)
  BY GoodShape
<1>2. PICK l, m : l = s.file[n].sparse /\ m = MarkSparse(l, i)
  OBVIOUS
<1>3. FileGood(s.file[n].size, l) /\ ListOK(l)
  BY <1>2 DEF TreeGood, FileGood
<1>4. ~IsSparse(l, i) /\ IsFiniteSet(Holes(l)) /\ Held(l) \in Nat
  <2>1. IsFiniteSet(Holes(l)) /\ Held(l) \in Nat
    BY <1>3, HeldNat
  <2>2. ~(i < i)
    OBVIOUS
  <2> QED BY <1>3, <2>1, <2>2 DEF FileGood
<1>5. WithBlock(l, m, i)
  BY <1>2, <1>3, MarkSparseFacts
<1>6. Held(m) = Held(l) + 1
  BY <1>4, <1>5, HeldChanges
<1>7. FileGood(y, l) /\ FileGood(y, m)
  <2>1. FileGood(y, l)
    BY <1>3, FileGrows
  <2>2. i < BlocksFor(y)
    OBVIOUS
  <2> QED BY <1>2, <2>1, <2>2, MarkedGood
<1>8. PICK a : a = SetSparse(s, n, m)
  OBVIOUS
<1>9. Shape(a) /\ SameSizes(a, s)
      /\ \A f \in Files : a.file[f].sparse = IF f = n THEN m ELSE s.file[f].sparse
  BY <1>1, <1>8, SetSparseFacts
<1>10. \A f \in Files : f # n => /\ FileGood(a.file[f].size, a.file[f].sparse)
                                 /\ Run(a, f) = Run(s, f)
  <2> SUFFICES ASSUME NEW f \in Files, f # n
               PROVE  FileGood(a.file[f].size, a.file[f].sparse) /\ Run(a, f) = Run(s, f)
    OBVIOUS
  <2>1. a.file[f].sparse = s.file[f].sparse /\ a.file[f].size = s.file[f].size
    BY <1>9 DEF SameSizes
  <2>2. FileGood(s.file[f].size, s.file[f].sparse)
    BY DEF TreeGood
  <2>3. FileGood(a.file[f].size, a.file[f].sparse)
    BY <2>1, <2>2
  <2> QED BY <2>1, <2>2, <2>3, PhysBlocksAre DEF Run
<1>11. a.file[n].sparse = m
  BY <1>9
<1>12. PICK t : t = SetSize(a, n, y)
  OBVIOUS
<1>13. Run(t, n) = BlocksFor(y) - Held(m) /\ \A f \in Files : f # n => Run(t, f) = Run(a, f)
  BY <1>7, <1>9, <1>10, <1>11, <1>12, ResizeRun
<1>14. Run(s, n) = BlocksFor(s.file[n].size) - Held(l)
  BY <1>2, RunFacts
<1>15. Run(t, n) = Run(s, n)
  BY <1>4, <1>6, <1>13, <1>14
<1>16. a.data_offset = s.data_offset /\ a.gap = s.gap /\ \A f \in Files : Start(a, f) = Start(s, f)
  BY <1>1, <1>8, ListFields
<1>17. t.data_offset = a.data_offset /\ t.gap = a.gap /\ \A f \in Files : Start(t, f) = Start(a, f)
  BY <1>9, <1>12, ListFields
<1>18. SameLayout(s, t)
  BY <1>10, <1>13, <1>15, <1>16, <1>17 DEF SameLayout
<1> QED BY <1>2, <1>8, <1>12, <1>18

\* append_block: the file is moved to the end and gets one block more once its
\* size is set.
LEMMA BlockIterates ==
  ASSUME NEW s, TreeGood(s), Spots(s), NEW n \in Files, NEW data, NEW y \in Nat,
         y >= s.file[n].size, BlocksFor(y) = BlocksFor(s.file[n].size) + 1,
         NEW o, o = append_block(s, n, data)
  PROVE  IF o.ok THEN Iterates(s, Ok(SetSize(o.fs, n, y)), n) ELSE Iterates(s, o, n)
<1>1. PICK a : a = MoveToEnd(s, n)
  OBVIOUS
<1>2. IF a.ok THEN Moved(s, a.fs, n) ELSE SameAccount(a.fs, s)
  BY <1>1, MoveToEndMoves
<1>3. PICK b : b = WritePartial(a.fs, a.fs.data_offset, 0, data \o Zeros(BlockSize - Len(data)))
  OBVIOUS
<1>4. PICK c : c = Used(b.fs, 1)
  OBVIOUS
<1>5. o = IF a.ok THEN (IF b.ok THEN Ok(c) ELSE b) ELSE a
  BY <1>1, <1>3, <1>4 DEF append_block, Then
<1>6. Ok(c).ok /\ Ok(c).fs = c
  BY DEF Ok
<1>7. CASE ~a.ok
  BY <1>2, <1>5, <1>7, AccountLayout DEF Iterates
<1>8. ASSUME a.ok PROVE /\ Moved(s, a.fs, n) /\ TreeGood(a.fs) /\ SameAccount(b.fs, a.fs)
                        /\ (b.ok <=> a.fs.data_offset \in Disk)
  <2>1. Moved(s, a.fs, n) /\ TreeGood(a.fs) /\ Shape(a.fs)
    BY <1>2, <1>8, GoodShape DEF Moved
  <2> QED BY <1>3, <2>1, WriteAccount
<1>9. CASE a.ok /\ ~b.ok
  <2>1. SameLayout(a.fs, b.fs)
    BY <1>8, <1>9, AccountLayout
  <2>2. Shifted(s, b.fs, n, 0)
    BY <1>8, <1>9, <2>1, MovedLayout
  <2>3. o = b
    BY <1>5, <1>9
  <2> QED BY <1>9, <2>2, <2>3 DEF Iterates
<1>10. CASE a.ok /\ b.ok
  <2>1. o = Ok(c)
    BY <1>5, <1>10
  <2>2. TreeGood(b.fs) /\ SameLists(b.fs, a.fs) /\ Shape(b.fs)
    BY <1>8, <1>10, AccountLists
  <2>3. SameLists(c, b.fs) /\ TreeGood(c) /\ Shape(c)
    BY <1>4, <2>2, UsedSame, SameGood
  <2>4. c.data_offset = b.fs.data_offset + 1 /\ c.gap = b.fs.gap /\ c.file = b.fs.file
    BY <1>4, <2>2, UsedFields
  <2>5. PICK l : l = s.file[n].sparse
    OBVIOUS
  <2>6. a.fs.file[n].sparse = l /\ a.fs.file[n].size = s.file[n].size /\ c.file[n].sparse = l
    BY <1>8, <1>10, <2>2, <2>3, <2>5 DEF Moved, SameLists
  <2>7. FileGood(y, l)
    BY <2>5, FileGrows DEF TreeGood
  <2>8. PICK t : t = SetSize(c, n, y)
    OBVIOUS
  <2>9. Run(t, n) = BlocksFor(y) - Held(l) /\ \A f \in Files : f # n => Run(t, f) = Run(c, f)
    BY <2>3, <2>6, <2>7, <2>8, ResizeRun DEF TreeGood
  <2>10. Run(a.fs, n) = BlocksFor(s.file[n].size) - Held(l)
    BY <1>8, <1>10, <2>6, RunFacts
  <2>11. Run(t, n) = Run(a.fs, n) + 1
    <3>1. BlocksFor(s.file[n].size) \in Nat /\ Held(l) \in Nat
      BY <2>5, BlocksForBounds, HeldNat DEF TreeGood, FileGood
    <3> QED BY <2>9, <2>10, <3>1
  <2>12. t.data_offset = c.data_offset /\ t.gap = c.gap /\ \A f \in Files : Start(t, f) = Start(c, f)
    BY <2>3, <2>8, ListFields
  <2>13. \A f \in Files : Run(c, f) = Run(a.fs, f) /\ Start(c, f) = Start(a.fs, f)
    BY <1>8, <1>10, <2>4 DEF SameAccount, Start, Run
  <2>14. b.fs.data_offset = a.fs.data_offset /\ b.fs.gap = a.fs.gap
    BY <1>8, <1>10 DEF SameAccount
  <2>15. Adds(a.fs, t, n, 1)
    BY <2>4, <2>9, <2>11, <2>12, <2>13, <2>14 DEF Adds
  <2>16. Shifted(s, t, n, 1)
    BY <1>8, <1>10, <2>15, MovedAdds
  <2>17. t.data_offset <= MaxBlocks
    <3>1. a.fs.data_offset = s.data_offset /\ s.data_offset \in Nat
      BY <1>8, <1>10 DEF Moved, Spots
    <3>2. s.data_offset < MaxBlocks
      BY <1>8, <1>10, <3>1, DiskBlocks
    <3>3. t.data_offset = s.data_offset + 1
      BY <2>16 DEF Shifted
    <3> QED BY <3>1, <3>2, <3>3, FSTreeAssumption
  <2>18. Ok(t).fs = t
    BY DEF Ok
  <2>19. Iterates(s, Ok(t), n)
    BY <2>16, <2>17, <2>18 DEF Iterates, Room
  <2> QED BY <1>6, <2>1, <2>8, <2>19
<1> QED BY <1>7, <1>9, <1>10

\* One turn of fstree_file_append.
LEMMA AppendStepIterates ==
  ASSUME NEW s, TreeGood(s), Spots(s), Room(s), NEW n \in Files, NEW data, Len(data) \in Nat \ {0},
         Len(data) <= BlockSize - (s.file[n].size % BlockSize)
  PROVE  Iterates(s, AppendStep(s, n, data), n)
<1>1. PICK z \in Nat : z = s.file[n].size
  BY DEF TreeGood, FileGood
<1>2. PICK y \in Nat : y = z + Len(data) /\ y >= z
  OBVIOUS
<1>3. PICK i : i = z \div BlockSize
  OBVIOUS
<1>4. PICK l : l = s.file[n].sparse
  OBVIOUS
<1>5. PICK c : c = SetSparse(s, n, MarkSparse(l, i))
  OBVIOUS
<1>6. PICK t, b : t = append_to_tail(s, n, i, z % BlockSize, data) /\ b = append_block(s, n, data)
  OBVIOUS
<1>7. Keeps(t.fs, s) /\ Keeps(b.fs, s)
  BY <1>6, TailGood, BlockGood
<1>8. PICK o : o = IF z % BlockSize > 0 THEN t
                   ELSE IF ~NoSparse /\ is_memory_zero(data) THEN Ok(c) ELSE b
  OBVIOUS
<1>9. AppendStep(s, n, data) = IF o.ok THEN Ok([o.fs EXCEPT !.file[n].size = o.fs.file[n].size + Len(data)])
                               ELSE o
  BY <1>1, <1>3, <1>4, <1>5, <1>6, <1>8 DEF AppendStep, Then
<1>10. Ok(c).ok /\ Ok(c).fs = c
  BY DEF Ok
<1>11. SameSizes(o.fs, s)
  <2>1. SameSizes(c, s)
    BY <1>5, GoodShape, SetSparseFacts
  <2>2. o = t \/ o = b \/ o = Ok(c)
    BY <1>8
  <2> QED BY <1>7, <1>10, <2>1, <2>2 DEF Keeps
<1>12. o.fs.file[n].size + Len(data) = y
  BY <1>1, <1>2, <1>11 DEF SameSizes
<1>13. AppendStep(s, n, data) = IF o.ok THEN Ok(SetSize(o.fs, n, y)) ELSE o
  BY <1>9, <1>12 DEF SetSize
<1>14. /\ z % BlockSize > 0 => BlocksFor(y) = BlocksFor(z)
       /\ ~(z % BlockSize > 0) => i = BlocksFor(z) /\ BlocksFor(y) = BlocksFor(z) + 1
  BY <1>1, <1>2, <1>3, TailBlocks
<1>15. CASE z % BlockSize > 0
  <2>1. o = t /\ Iterates(s, o, n)
    BY <1>6, <1>8, <1>15, TailIterates
  <2>2. TreeGood(t.fs) /\ t.fs.file[n].size = z
    BY <1>1, <1>7 DEF Keeps, SameSizes
  <2>3. SameLayout(t.fs, SetSize(t.fs, n, y))
    BY <1>2, <1>14, <1>15, <2>2, ResizeSame
  <2>4. o.ok => Iterates(s, Ok(SetSize(o.fs, n, y)), n)
    BY <2>1, <2>3, IteratesOn
  <2> QED BY <1>13, <2>1, <2>4
<1>16. CASE ~(z % BlockSize > 0) /\ ~NoSparse /\ is_memory_zero(data)
  <2>1. o = Ok(c)
    BY <1>8, <1>16
  <2>2. AppendStep(s, n, data) = Ok(SetSize(c, n, y))
    BY <1>10, <1>13, <2>1
  <2>3. i \in Nat /\ i = BlocksFor(z) /\ BlocksFor(y) = BlocksFor(z) + 1
    BY <1>14, <1>16, BlocksForBounds
  <2>4. SameLayout(s, SetSize(c, n, y))
    BY <1>1, <1>2, <1>4, <1>5, <2>3, HoleAppended
  <2>5. Room(SetSize(c, n, y))
    BY <2>4, RoomKept
  <2>6. Ok(SetSize(c, n, y)).fs = SetSize(c, n, y)
    BY DEF Ok
  <2> QED BY <2>2, <2>4, <2>5, <2>6 DEF Iterates
<1>17. CASE ~(z % BlockSize > 0) /\ ~(~NoSparse /\ is_memory_zero(data))
  <2>1. o = b
    BY <1>8, <1>17
  <2>2. BlocksFor(y) = BlocksFor(s.file[n].size) + 1 /\ y >= s.file[n].size
    BY <1>1, <1>2, <1>14, <1>17
  <2>3. IF o.ok THEN Iterates(s, Ok(SetSize(o.fs, n, y)), n) ELSE Iterates(s, o, n)
    BY <1>6, <2>1, <2>2, BlockIterates
  <2> QED BY <1>13, <2>3
<1> QED BY <1>15, <1>16, <1>17

-----------------------------------------------------------------------------
\* The region that holds block i.
LEMMA RegionFacts ==
  ASSUME NEW l, ListOK(l), NEW i \in Nat
  PROVE  /\ RegionOf(l, i) # 0 <=> IsSparse(l, i)
         /\ RegionOf(l, i) # 0 => RegionOf(l, i) \in 1..Len(l) /\ l[RegionOf(l, i)].index \in Nat
<1>1. PICK I : I = { j \in 1..Len(l) : Covers(l[j], i) }
  OBVIOUS
<1>2. PICK k : k = RegionOf(l, i)
  OBVIOUS
<1>3. k = FirstOf(I)
  BY <1>1, <1>2 DEF RegionOf, SelectInSeq, FirstOf
<1>4. Len(l) \in Nat
  BY DEF ListOK
<1>5. k # 0 => k \in I
  BY <1>1, <1>3, <1>4, FirstFacts
<1>6. k = 0 => I = {}
  BY <1>1, <1>3, <1>4, FirstFacts
<1>7. k # 0 <=> IsSparse(l, i)
  BY <1>1, <1>5, <1>6 DEF IsSparse
<1>8. k # 0 => k \in 1..Len(l)
  BY <1>1, <1>5
<1>9. k # 0 => l[k].index \in Nat
  BY <1>8, ListNumbers
<1> QED BY <1>2, <1>7, <1>8, <1>9

\* A hole of a file at the end of the used area is filled.
LEMMA FillIterates ==
  ASSUME NEW s, TreeGood(s), Spots(s), NEW n \in Files, NEW a, Moved(s, a, n),
         NEW real \in Int, NEW i \in Nat, IsSparse(s.file[n].sparse, i), NEW m, NEW data
  PROVE  Iterates(s, FillHole(a, n, real, i, m, data), n)
<1>1. TreeGood(a) /\ Shape(a) /\ SameLists(a, s) /\ a.data_offset = s.data_offset
  BY GoodShape DEF Moved
<1>2. PICK off \in Nat : off = s.data_offset
  BY DEF Spots
<1>3. PICK b : b = MemMove(a, real + 1, real, a.data_offset - real)
  OBVIOUS
<1>4. SameAccount(b.fs, a)
  BY <1>1, <1>3, MemMoveAccount
<1>5. PICK l, q : l = s.file[n].sparse /\ q = MarkNotSparse(l, i)
  OBVIOUS
<1>6. b.fs.file[n].sparse = l /\ b.fs.file[n].size = s.file[n].size
  BY <1>1, <1>4, <1>5 DEF SameAccount, SameLists
<1>7. PICK u : u = Used(SetSparse(b.fs, n, q), 1)
  OBVIOUS
<1>8. PICK e : e = Discard(u, real, 1)
  OBVIOUS
<1>9. PICK w : w = WritePartial(e, real, m, data)
  OBVIOUS
<1>10. FillHole(a, n, real, i, m, data) = IF b.ok THEN w ELSE b
  <2>1. insert_sparse_block(a, n, real, i) = IF b.ok THEN Ok(e) ELSE b
    BY <1>3, <1>5, <1>6, <1>7, <1>8 DEF insert_sparse_block, Then
  <2>2. Ok(e).ok /\ Ok(e).fs = e
    BY DEF Ok
  <2> QED BY <1>9, <2>1, <2>2 DEF FillHole, Then
<1>11. CASE ~b.ok
  <2>1. SameLayout(a, b.fs)
    BY <1>4, AccountLayout
  <2>2. Shifted(s, b.fs, n, 0)
    BY <2>1, MovedLayout
  <2> QED BY <1>10, <1>11, <2>2 DEF Iterates
<1>12. CASE b.ok
  <2>1. FileGood(s.file[n].size, l) /\ ListOK(l)
    BY <1>5 DEF TreeGood, FileGood
  <2>2. FileGood(s.file[n].size, q)
    BY <1>5, <2>1, MarkedGood
  <2>3. WithoutBlock(l, q, i)
    BY <1>5, <2>1, MarkNotSparseFacts
  <2>4. Held(q) = Held(l) - 1
    BY <1>5, <2>1, <2>3, HeldNat, HeldChanges
  <2>5. TreeGood(b.fs)
    BY <1>1, <1>4, AccountLists
  <2>6. TreeGood(SetSparse(b.fs, n, q))
    BY <1>6, <2>2, <2>5, RelistRun
  <2>7. Shape(u)
    BY <1>7, <2>6, GoodShape, UsedSame, SameShape
  <2>8. SameAccount(e, u) /\ Shape(e)
    BY <1>8, <2>7, DiscardAccount, AccountShape
  <2>9. SameAccount(w.fs, e) /\ (w.ok <=> real \in Disk)
    BY <1>9, <2>8, WriteAccount
  <2>10. SameAccount(w.fs, u)
    BY <2>8, <2>9, AccountTwice
  <2>11. Shifted(s, w.fs, n, 1)
    BY <1>4, <1>5, <1>7, <2>2, <2>4, <2>10, RelistShifts
  <2>12. w.ok => w.fs.data_offset <= MaxBlocks
    <3> SUFFICES ASSUME w.ok PROVE w.fs.data_offset <= MaxBlocks
      OBVIOUS
    <3>1. w.fs.data_offset = off + 1
      BY <1>2, <2>11 DEF Shifted
    <3>2. 0 <= real /\ real < MaxBlocks
      BY <2>9, DiskBlocks
    <3>3. PICK r1 \in Int : r1 = real + 1
      OBVIOUS
    <3>4. Max({r1, real}) = r1
      <4>1. real <= r1
        BY <3>3
      <4> QED BY <4>1, MaxTwo
    <3>5. off - real = 0 \/ off - real <= MaxBlocks - r1
      <4>1. b.ok <=> off - real = 0 \/ r1 = real \/ off - real <= MaxBlocks - Max({r1, real})
        BY <1>1, <1>2, <1>3, <3>3, MemMoveAccount
      <4>2. r1 # real
        BY <3>3
      <4> QED BY <1>12, <3>4, <4>1, <4>2
    <3> QED BY <3>1, <3>2, <3>3, <3>5, FSTreeAssumption
  <2> QED BY <1>10, <1>12, <2>11, <2>12 DEF Iterates, Room
<1> QED BY <1>11, <1>12

\* A block of a file at the end of the used area is punched out.
LEMMA RemoveIterates ==
  ASSUME NEW s, TreeGood(s), Spots(s), Room(s), NEW n \in Files, NEW a, Moved(s, a, n),
         NEW real, NEW i \in Nat, ~IsSparse(s.file[n].sparse, i), i < BlocksFor(s.file[n].size)
  PROVE  Iterates(s, remove_file_block(a, n, real, i), n)
<1>1. TreeGood(a) /\ Shape(a) /\ SameLists(a, s) /\ a.data_offset = s.data_offset
  BY GoodShape DEF Moved
<1>2. PICK b : b = MemMove(a, real, real + 1, a.data_offset - real - 1)
  OBVIOUS
<1>3. SameAccount(b.fs, a)
  BY <1>1, <1>2, MemMoveAccount
<1>4. PICK l, q : l = s.file[n].sparse /\ q = MarkSparse(l, i)
  OBVIOUS
<1>5. b.fs.file[n].sparse = l /\ b.fs.file[n].size = s.file[n].size
  BY <1>1, <1>3, <1>4 DEF SameAccount, SameLists
<1>6. PICK u : u = Used(SetSparse(b.fs, n, q), -1)
  OBVIOUS
<1>7. PICK e : e = Discard(u, b.fs.data_offset - 1, 1)
  OBVIOUS
<1>8. remove_file_block(a, n, real, i) = IF b.ok THEN Ok(e) ELSE b
  BY <1>2, <1>4, <1>5, <1>6, <1>7 DEF remove_file_block, Then
<1>9. CASE ~b.ok
  <2>1. SameLayout(a, b.fs)
    BY <1>3, AccountLayout
  <2>2. Shifted(s, b.fs, n, 0)
    BY <2>1, MovedLayout
  <2> QED BY <1>8, <1>9, <2>2 DEF Iterates
<1>10. CASE b.ok
  <2>1. FileGood(s.file[n].size, l) /\ ListOK(l)
    BY <1>4 DEF TreeGood, FileGood
  <2>2. FileGood(s.file[n].size, q)
    BY <1>4, <2>1, MarkedGood
  <2>3. WithBlock(l, q, i)
    BY <1>4, <2>1, MarkSparseFacts
  <2>4. Held(q) = Held(l) - (-1)
    <3>1. Held(q) = Held(l) + 1 /\ Held(l) \in Nat
      BY <1>4, <2>1, <2>3, HeldNat, HeldChanges
    <3> QED BY <3>1
  <2>5. TreeGood(b.fs)
    BY <1>1, <1>3, AccountLists
  <2>6. TreeGood(SetSparse(b.fs, n, q)) /\ Shape(SetSparse(b.fs, n, q))
    BY <1>5, <2>2, <2>5, RelistRun, GoodShape
  <2>7. SameLists(u, SetSparse(b.fs, n, q)) /\ Shape(u)
    BY <1>6, <2>6, UsedSame, SameShape
  <2>8. TreeGood(u)
    BY <2>6, <2>7, SameGood
  <2>9. SameAccount(e, u)
    BY <1>7, <2>7, DiscardAccount
  <2>10. TreeGood(e)
    BY <2>8, <2>9, AccountLists
  <2>11. Shifted(s, e, n, -1)
    <3>1. -1 \in Int
      OBVIOUS
    <3> QED BY <1>3, <1>4, <1>6, <2>2, <2>4, <2>9, <3>1, RelistShifts
  <2>12. Room(e)
    <3>1. Run(e, n) \in Nat
      BY <2>10, RunFacts
    <3> QED BY <2>11, <3>1, RoomKept
  <2>13. Ok(e).fs = e
    BY DEF Ok
  <2> QED BY <1>8, <1>10, <2>11, <2>12, <2>13 DEF Iterates
<1> QED BY <1>9, <1>10

\* One turn of fstree_file_write, within the file.
LEMMA WriteStepIterates ==
  ASSUME NEW s, TreeGood(s), Spots(s), Room(s), NEW n \in Files, NEW i \in Nat,
         i < BlocksFor(s.file[n].size), NEW m, NEW data
  PROVE  Iterates(s, WriteStep(s, n, i, m, data), n)
<1>1. PICK f, k, rel : f = s.file[n] /\ k = RegionOf(f.sparse, i)
                       /\ rel = i - Skipped(f, i)
  OBVIOUS
<1>2. ListOK(f.sparse)
  BY <1>1 DEF TreeGood, FileGood
<1>3. /\ k # 0 <=> IsSparse(f.sparse, i)
      /\ k # 0 => f.sparse[k].index \in Nat
  BY <1>1, <1>2, RegionFacts
<1>4. PICK a : a = MoveToEnd(s, n)
  OBVIOUS
<1>5. IF a.ok THEN Moved(s, a.fs, n) ELSE SameAccount(a.fs, s)
  BY <1>4, MoveToEndMoves
<1>6. ~a.ok => Iterates(s, a, n)
  BY <1>5, AccountLayout DEF Iterates
<1>7. rel \in Int
  BY <1>1, <1>2, SkippedInt
<1>8. CASE k # 0 /\ is_memory_zero(data)
  <2>1. WriteStep(s, n, i, m, data) = Ok(s)
    BY <1>1, <1>8 DEF WriteStep
  <2>2. SameLayout(s, s)
    BY DEF SameLayout
  <2>3. Ok(s).fs = s
    BY DEF Ok
  <2> QED BY <2>1, <2>2, <2>3 DEF Iterates
<1>9. CASE k # 0 /\ ~is_memory_zero(data)
  <2>1. PICK h : h = (a.fs.file[n].start_index + rel) - (i - f.sparse[k].index)
    OBVIOUS
  <2>2. WriteStep(s, n, i, m, data) = IF a.ok THEN FillHole(a.fs, n, h, i, m, data) ELSE a
    BY <1>1, <1>4, <1>9, <2>1 DEF WriteStep, Then
  <2>3. CASE ~a.ok
    BY <1>6, <2>2, <2>3
  <2>4. CASE a.ok
    <3>1. Moved(s, a.fs, n)
      BY <1>5, <2>4
    <3>2. a.fs.file[n].start_index \in Int
      <4>1. a.fs.file[n].start_index = NewStart(s, n, n)
        BY <3>1 DEF Moved, Start
      <4>2. Start(s, n) \in Nat /\ s.data_offset \in Nat /\ Run(s, n) \in Nat
        BY RunFacts DEF Spots
      <4> QED BY <4>1, <4>2 DEF NewStart
    <3>3. h \in Int
      BY <1>3, <1>7, <1>9, <2>1, <3>2
    <3>4. Iterates(s, FillHole(a.fs, n, h, i, m, data), n)
      BY <1>1, <1>3, <1>9, <3>1, <3>3, FillIterates
    <3> QED BY <2>2, <2>4, <3>4
  <2> QED BY <2>3, <2>4
<1>10. CASE k = 0 /\ ~NoSparse /\ is_memory_zero(data) /\ CoversBlock(f, i, m, data)
  <2>1. PICK d : d = remove_file_block(a.fs, n, a.fs.file[n].start_index + rel, i)
    OBVIOUS
  <2>2. WriteStep(s, n, i, m, data) = IF a.ok THEN d ELSE a
    BY <1>1, <1>4, <1>10, <2>1 DEF WriteStep, Then
  <2>3. a.ok => Iterates(s, d, n)
    BY <1>1, <1>3, <1>5, <1>10, <2>1, RemoveIterates
  <2> QED BY <1>6, <2>2, <2>3
<1>11. CASE k = 0 /\ ~(~NoSparse /\ is_memory_zero(data) /\ CoversBlock(f, i, m, data))
  <2>1. PICK e : e = WritePartial(s, s.file[n].start_index + rel, m, data)
    OBVIOUS
  <2>2. WriteStep(s, n, i, m, data) = e
    BY <1>1, <1>11, <2>1 DEF WriteStep
  <2>3. SameLayout(s, e.fs)
    BY <2>1, GoodShape, WriteAccount, AccountLayout
  <2> QED BY <2>2, <2>3, RoomKept DEF Iterates
<1> QED BY <1>8, <1>9, <1>10, <1>11

-----------------------------------------------------------------------------
\* FileLayout: n keeps the first m blocks of its run and what follows moves down.
CutDown(s, t, n, m) ==
  /\ m < Run(s, n)
  /\ t.data_offset = s.data_offset - (Run(s, n) - m)
  /\ t.gap = Down(s, Start(s, n), Run(s, n) - m)
  /\ \A f \in Files : /\ Run(t, f) = IF f = n THEN m ELSE Run(s, f)
                      /\ Start(t, f) = IF Run(t, f) # 0 /\ Start(s, f) > Start(s, n)
                                       THEN Start(s, f) - (Run(s, n) - m) ELSE Start(s, f)

\* The accounting of a file that was cut off, before the blocks are given back.
CutTree(s, n, z) == [s EXCEPT !.file[n] = CutFile(s.file[n], z)]

\* The file is not longer on the volume, and nothing else has changed.
LEMMA CutFields ==
  ASSUME NEW s, TreeGood(s), NEW n \in Files, NEW z \in Nat, z <= s.file[n].size,
         NEW t, t = CutTree(s, n, z)
  PROVE  /\ TreeGood(t) /\ t.data_offset = s.data_offset /\ t.gap = s.gap
         /\ \A f \in Files : Start(t, f) = Start(s, f) /\ (f # n => Run(t, f) = Run(s, f))
         /\ Run(t, n) = PhysBlocks(CutFile(s.file[n], z))
         /\ Run(t, n) <= Run(s, n)
<1>1. Shape(s)
  BY GoodShape
<1>2. PICK f, l, q : f = s.file[n] /\ q = f.sparse /\ l = TruncateSparse(q, BlocksFor(z))
  OBVIOUS
<1>3. PICK cut : cut = CutFile(f, z)
  OBVIOUS
<1>4. cut = FileOf(z, f.start_index, l)
  BY <1>2, <1>3 DEF CutFile, FileOf
<1>5. cut.size = z /\ cut.start_index = f.start_index /\ cut.sparse = l
  BY <1>4, FileFields
<1>6. FileGood(f.size, q) /\ ListOK(q) /\ f.size \in Nat /\ BlocksFor(z) \in Nat
  BY <1>2, BlocksForFacts DEF TreeGood, FileGood
<1>7. UpToBlock(q, l, BlocksFor(z))
  BY <1>2, <1>6, TruncateSparseFacts
<1>8. FileGood(z, l)
  BY <1>7 DEF UpToBlock, FileGood
<1>9. cut = FileOf(cut.size, cut.start_index, cut.sparse)
  BY <1>4, <1>5
<1>10. t = [s EXCEPT !.file[n] = cut]
  BY <1>2, <1>3 DEF CutTree
<1>11. Shape(t) /\ \A g \in Files : t.file[g] = IF g = n THEN cut ELSE s.file[g]
  BY <1>1, <1>9, <1>10, FileReplaced
<1>12. \A g \in Files : FileGood(t.file[g].size, t.file[g].sparse)
  BY <1>5, <1>8, <1>11 DEF TreeGood
<1>13. TreeGood(t)
  BY <1>11, <1>12 DEF TreeGood
<1>14. t.data_offset = s.data_offset /\ t.gap = s.gap
  <2>1. PICK F : F = [s.file EXCEPT ![n] = cut]
    OBVIOUS
  <2>2. PICK b : b = [s EXCEPT !.file = F]
    OBVIOUS
  <2>3. t = b
    BY <1>10, <2>1, <2>2
  <2>4. b = TreeOf(s.disk, s.data_offset, s.gap, F)
    BY <1>1, <2>2, TreeUpdates
  <2> QED BY <2>3, <2>4, TreeFields
<1>15. \A g \in Files : Start(t, g) = Start(s, g) /\ (g # n => Run(t, g) = Run(s, g))
  BY <1>2, <1>5, <1>11 DEF Start, Run
<1>16. Run(t, n) = PhysBlocks(CutFile(s.file[n], z))
  BY <1>2, <1>3, <1>11 DEF Run
<1>17. Run(t, n) <= Run(s, n)
  <2>1. Run(s, n) = BlocksFor(f.size) - Held(q)
    BY <1>2, RunFacts
  <2>2. Run(t, n) = BlocksFor(z) - Held(l)
    BY <1>5, <1>11, <1>13, RunFacts
  <2>3. BlocksFor(z) <= BlocksFor(f.size)
    BY <1>2, <1>6, BlocksForGrows
  <2>4. IsFiniteSet(Holes(q)) /\ IsFiniteSet(Holes(l))
    BY <1>6, <1>8, HeldNat
  <2>5. BlocksFor(z) - Held(l) <= BlocksFor(f.size) - Held(q)
    BY <1>6, <1>7, <2>3, <2>4, HeldUpTo
  <2> QED BY <2>1, <2>2, <2>5
<1> QED BY <1>13, <1>14, <1>15, <1>16, <1>17

\* The blocks behind the part that is left move down.  That cannot fail: a file
\* that has blocks is on the volume, and all that follows as well.
LEMMA CloseUpCuts ==
  ASSUME NEW s, TreeGood(s), Spots(s), Room(s), NEW n \in Files, NEW t, TreeGood(t),
         t.data_offset = s.data_offset, t.gap = s.gap,
         \A f \in Files : Start(t, f) = Start(s, f) /\ (f # n => Run(t, f) = Run(s, f)),
         NEW new \in Nat, NEW old \in Nat, NEW start \in Nat, new < old,
         new = Run(t, n), old = Run(s, n), start = Start(s, n),
         NEW o, o = CloseUp(t, start + new, start + old, start)
  PROVE  o.ok /\ TreeGood(o.fs) /\ CutDown(s, o.fs, n, new) /\ Room(o.fs)
<1>1. Shape(t)
  BY GoodShape
<1>2. PICK off \in Nat : off = s.data_offset
  BY DEF Spots
<1>3. start + old <= off /\ off <= MaxBlocks
  <2>1. Run(s, n) # 0
    OBVIOUS
  <2>2. Start(s, n) + Run(s, n) <= s.data_offset
    BY <2>1 DEF Spots
  <2>3. s.data_offset <= MaxBlocks
    BY <2>1 DEF Room
  <2> QED BY <1>2, <2>2, <2>3
<1>4. PICK ne \in Nat, oe \in Nat, diff \in Nat \ {0} :
        ne = start + new /\ oe = start + old /\ diff = oe - ne /\ diff = old - new
  <2>1. start + new \in Nat /\ start + old \in Nat /\ old - new \in Nat \ {0}
        /\ (start + old) - (start + new) = old - new
    OBVIOUS
  <2> QED BY <2>1
<1>5. PICK a : a = MemMove(t, ne, oe, off - oe)
  OBVIOUS
<1>6. SameAccount(a.fs, t)
  BY <1>1, <1>5, MemMoveAccount
<1>7. a.ok
  <2>1. Max({ne, oe}) = oe
    <3>1. ne <= oe
      BY <1>4
    <3> QED BY <3>1, MaxTwo
  <2>2. off - oe <= MaxBlocks - oe
    BY <1>2, <1>3, <1>4, FSTreeAssumption
  <2>3. off - oe <= MaxBlocks - Max({ne, oe})
    BY <2>1, <2>2
  <2> QED BY <1>1, <1>5, <2>3, MemMoveAccount
<1>8. TreeGood(a.fs) /\ Shape(a.fs)
  BY <1>6, AccountLists
<1>9. PICK b : b = Discard(a.fs, a.fs.data_offset - diff, diff)
  OBVIOUS
<1>10. SameAccount(b, t)
  <2>1. SameAccount(b, a.fs)
    BY <1>8, <1>9, DiscardAccount
  <2> QED BY <1>6, <2>1, AccountTwice
<1>11. SameLists(b, t) /\ TreeGood(b) /\ Shape(b)
  BY <1>10, AccountLists
<1>12. PICK c : c = Used(b, -diff)
  OBVIOUS
<1>13. SameLists(c, b) /\ TreeGood(c) /\ Shape(c)
  BY <1>11, <1>12, UsedSame, SameGood
<1>14. c.data_offset = b.data_offset + (-diff) /\ c.gap = b.gap /\ c.file = b.file
  BY <1>11, <1>12, UsedFields
<1>15. PICK d : d = ShiftDown(c, start + 1, diff)
  OBVIOUS
<1>16. /\ SameLists(d, c) /\ d.data_offset = c.data_offset
       /\ d.gap = { IF x >= start + 1 THEN x - diff ELSE x : x \in c.gap }
       /\ \A f \in Files : Start(d, f) =
            IF PhysicalSize(c.file[f]) # 0 /\ Start(c, f) >= start + 1
            THEN Start(c, f) - diff ELSE Start(c, f)
  BY <1>13, <1>15, ShiftDownFields
<1>17. TreeGood(d)
  BY <1>13, <1>16, SameGood
<1>18. o = Ok(d)
  <2>1. o = IF a.ok THEN Ok(d) ELSE a
    BY <1>2, <1>4, <1>5, <1>9, <1>12, <1>15 DEF CloseUp, Then
  <2> QED BY <1>7, <2>1
<1>19. d.data_offset = off - diff
  <2>1. b.data_offset = off
    BY <1>2, <1>10 DEF SameAccount
  <2> QED BY <1>14, <1>16, <2>1
<1>20. d.gap = Down(s, start, diff)
  <2>1. c.gap = s.gap
    BY <1>10, <1>14 DEF SameAccount
  <2>2. PICK from \in Nat : from = start + 1
    OBVIOUS
  <2>3. ASSUME NEW x \in s.gap PROVE (x < start /\ x < from) \/ (x >= start + diff /\ x >= from)
    <3>1. x \in Nat /\ (x < start \/ x >= start + old)
      BY DEF Spots
    <3> QED BY <1>4, <2>2, <3>1
  <2>4. { IF x >= from THEN x - diff ELSE x : x \in s.gap } = Down(s, start, diff)
    BY <2>3, GapsDown
  <2> QED BY <1>16, <2>1, <2>2, <2>4
<1>21. ASSUME NEW f \in Files
       PROVE  /\ Run(d, f) = IF f = n THEN new ELSE Run(s, f)
              /\ Start(d, f) = IF Run(d, f) # 0 /\ Start(s, f) > start
                               THEN Start(s, f) - diff ELSE Start(s, f)
  <2>1. SameLists(c, t)
    BY <1>11, <1>13, SameTwice
  <2>2. Run(c, f) = Run(t, f) /\ (PhysicalSize(c.file[f]) # 0 <=> Run(t, f) # 0)
    BY <2>1, RunSame
  <2>3. Run(d, f) = Run(c, f)
    BY <1>13, <1>16, RunSame
  <2>4. Start(c, f) = Start(s, f)
    BY <1>10, <1>14 DEF SameAccount, Start
  <2>5. Start(s, f) \in Nat
    BY DEF Spots
  <2>6. Start(s, f) >= start + 1 <=> Start(s, f) > start
    BY <2>5
  <2>7. Run(d, f) = IF f = n THEN new ELSE Run(s, f)
    BY <2>2, <2>3
  <2> QED BY <1>16, <2>2, <2>3, <2>4, <2>6, <2>7
<1>22. CutDown(s, d, n, new)
  BY <1>2, <1>4, <1>19, <1>20, <1>21 DEF CutDown
<1>23. Room(d)
  <2>1. d.data_offset <= MaxBlocks
    BY <1>3, <1>19, FSTreeAssumption
  <2> QED BY <2>1 DEF Room
<1> QED BY <1>17, <1>18, <1>22, <1>23 DEF Ok

\* fstree_file_truncate to a smaller size.
LEMMA ShrinkCuts ==
  ASSUME NEW s, TreeGood(s), Spots(s), Room(s), NEW n \in Files, NEW z \in Nat, z <= s.file[n].size,
         NEW r, r = Shrink(s, n, z)
  PROVE  /\ SameLayout(s, r.fs) \/ \E m \in 0..Run(s, n) : CutDown(s, r.fs, n, m)
         /\ Room(r.fs)
<1>1. PICK f : f = s.file[n]
  OBVIOUS
<1>2. PICK cut : cut = CutFile(f, z)
  OBVIOUS
<1>3. PICK t : t = [s EXCEPT !.file[n] = cut]
  OBVIOUS
<1>4. /\ TreeGood(t) /\ t.data_offset = s.data_offset /\ t.gap = s.gap
      /\ \A g \in Files : Start(t, g) = Start(s, g) /\ (g # n => Run(t, g) = Run(s, g))
      /\ Run(t, n) = PhysBlocks(cut)
      /\ Run(t, n) <= Run(s, n)
  <2>1. t = CutTree(s, n, z)
    BY <1>1, <1>2, <1>3 DEF CutTree
  <2> QED BY <1>1, <1>2, <2>1, CutFields
<1>5. PICK new \in Nat, old \in Nat, start \in Nat :
        new = Run(t, n) /\ old = Run(s, n) /\ start = Start(s, n) /\ new <= old
  BY <1>4, RunFacts DEF Spots
<1>6. PICK c : c = CloseUp(t, start + new, start + old, start)
  OBVIOUS
<1>7. PICK o : o = IF new < old THEN c ELSE Ok(t)
  OBVIOUS
<1>8. PICK tail : tail = PhysicalSize(cut) % BlockSize
  OBVIOUS
<1>9. PICK w : w = WritePartial(o.fs, start + new - 1, tail, Zeros(BlockSize - tail))
  OBVIOUS
<1>10. r = IF o.ok THEN (IF tail > 0 THEN w ELSE Ok(o.fs)) ELSE o
  <2>1. start = f.start_index /\ new = PhysBlocks(cut) /\ old = PhysBlocks(f)
    BY <1>1, <1>4, <1>5 DEF Start, Run
  <2> QED BY <1>1, <1>2, <1>3, <1>6, <1>7, <1>8, <1>9, <2>1 DEF Shrink, Then
<1>11. Ok(t).ok /\ Ok(t).fs = t /\ Ok(o.fs).fs = o.fs
  BY DEF Ok
<1>12. ASSUME new < old PROVE o.ok /\ TreeGood(o.fs) /\ CutDown(s, o.fs, n, new) /\ Room(o.fs)
  BY <1>4, <1>5, <1>6, <1>7, <1>12, CloseUpCuts
<1>13. ASSUME ~(new < old) PROVE o.ok /\ TreeGood(o.fs) /\ SameLayout(s, o.fs) /\ Room(o.fs)
  <2>1. o = Ok(t) /\ new = old
    BY <1>5, <1>7, <1>13
  <2>2. SameLayout(s, t)
    BY <1>4, <1>5, <2>1 DEF SameLayout
  <2>3. Room(t)
    BY <2>2, RoomKept
  <2> QED BY <1>4, <1>11, <2>1, <2>2, <2>3
<1>14. o.ok /\ TreeGood(o.fs) /\ Room(o.fs)
  BY <1>12, <1>13
<1>15. SameLayout(o.fs, r.fs)
  <2>1. SameLayout(o.fs, w.fs)
    BY <1>9, <1>14, GoodShape, WriteAccount, AccountLayout
  <2>2. SameLayout(o.fs, o.fs)
    BY DEF SameLayout
  <2> QED BY <1>10, <1>11, <1>14, <2>1, <2>2
<1>16. Room(r.fs)
  BY <1>14, <1>15 DEF SameLayout, Room
<1>17. CASE new < old
  <2>1. CutDown(s, r.fs, n, new)
    BY <1>12, <1>15, <1>17 DEF CutDown, SameLayout
  <2>2. new \in 0..Run(s, n)
    BY <1>5
  <2> QED BY <1>16, <2>1, <2>2
<1>18. CASE ~(new < old)
  <2>1. SameLayout(s, r.fs)
    BY <1>13, <1>15, <1>18 DEF SameLayout
  <2> QED BY <1>16, <2>1
<1> QED BY <1>17, <1>18

-----------------------------------------------------------------------------
\* FileLayout: n blocks are inserted at block i.
GapSpot(s, i) == i = 0 \/ \E f \in Files : Run(s, f) # 0 /\ i = Start(s, f)

WithGap(s, i, n) ==
  { b \in 0..(s.data_offset + n - 1) : \/ b < i /\ b \in s.gap
                                       \/ b >= i /\ b < i + n
                                       \/ b - n >= i /\ b - n \in s.gap }

GapAt(s, t, i, n) ==
  /\ t.data_offset = s.data_offset + n
  /\ t.gap = WithGap(s, i, n)
  /\ \A f \in Files : /\ Run(t, f) = Run(s, f)
                      /\ Start(t, f) = IF i >= s.data_offset THEN Start(s, f)
                                       ELSE IF Start(s, f) >= i
                                       THEN Start(s, f) + n ELSE Start(s, f)

\* The gaps behind the new one move up.
LEMMA GapsUp ==
  ASSUME NEW s, Spots(s), NEW i \in Nat, NEW n \in Nat \ {0}, i <= s.data_offset
  PROVE  { IF b >= i THEN b + n ELSE b : b \in s.gap } \cup i..(i + n - 1) = WithGap(s, i, n)
<1>1. PICK o \in Nat : o = s.data_offset
  BY DEF Spots
<1>2. PICK G \in SUBSET Nat : G = s.gap
  BY DEF Spots
<1>3. \A b \in G : b \in Nat /\ b < o
  BY <1>1, <1>2 DEF Spots
<1> DEFINE L == { IF b >= i THEN b + n ELSE b : b \in G }
           I == i..(i + n - 1)
           R == { b \in 0..(o + n - 1) : \/ b < i /\ b \in G
                                         \/ b >= i /\ b < i + n
                                         \/ b - n >= i /\ b - n \in G }
<1>4. ASSUME NEW b \in G PROVE (IF b >= i THEN b + n ELSE b) \in R
  <2>1. CASE b >= i
    <3>1. PICK x \in 0..(o + n - 1) : x = b + n
      BY <1>3
    <3>2. x - n = b /\ x - n >= i
      BY <1>3, <2>1, <3>1
    <3> QED BY <2>1, <3>1, <3>2
  <2>2. CASE ~(b >= i)
    <3>1. b \in 0..(o + n - 1) /\ b < i
      BY <1>3, <2>2
    <3> QED BY <2>2, <3>1
  <2> QED BY <2>1, <2>2
<1>5. ASSUME NEW b \in I PROVE b \in R
  BY <1>1
<1>6. ASSUME NEW x \in R PROVE x \in L \/ x \in I
  <2>1. x \in Nat
    OBVIOUS
  <2>2. CASE x < i /\ x \in G
    <3>1. (IF x >= i THEN x + n ELSE x) = x
      BY <2>1, <2>2
    <3> QED BY <2>2, <3>1
  <2>3. CASE x >= i /\ x < i + n
    BY <2>1, <2>3
  <2>4. CASE x - n >= i /\ x - n \in G
    <3>1. PICK b \in G : b = x - n
      BY <2>4
    <3>2. (IF b >= i THEN b + n ELSE b) = x
      BY <2>1, <2>4, <3>1
    <3> QED BY <3>2
  <2> QED BY <2>2, <2>3, <2>4
<1>7. L \cup I = R
  BY <1>4, <1>5, <1>6
<1> QED BY <1>1, <1>2, <1>7 DEF WithGap

\* Several fields of a tree at once.
SetTwo(s, o, g) == [s EXCEPT !.data_offset = o, !.gap = g]
SetThree(s, o, g, F) == [s EXCEPT !.data_offset = o, !.gap = g, !.file = F]

\* What that makes of the tree.
LEMMA TreeTwoThree ==
  ASSUME NEW s, Shape(s), NEW o, NEW g, NEW F
  PROVE  /\ SetTwo(s, o, g) = TreeOf(s.disk, o, g, s.file)
         /\ SetThree(s, o, g, F) = TreeOf(s.disk, o, g, F)
<1>1. s = TreeOf(s.disk, s.data_offset, s.gap, s.file)
  BY DEF Shape
<1>2. [s EXCEPT !.data_offset = o, !.gap = g] = [[s EXCEPT !.data_offset = o] EXCEPT !.gap = g]
  BY <1>1 DEF TreeOf
<1>3. [s EXCEPT !.data_offset = o, !.gap = g, !.file = F]
        = [[[s EXCEPT !.data_offset = o] EXCEPT !.gap = g] EXCEPT !.file = F]
  BY <1>1 DEF TreeOf
<1>4. [s EXCEPT !.data_offset = o] = TreeOf(s.disk, o, s.gap, s.file)
  BY TreeUpdates
<1>5. [TreeOf(s.disk, o, s.gap, s.file) EXCEPT !.gap = g] = TreeOf(s.disk, o, g, s.file)
  BY DEF TreeOf
<1>6. [TreeOf(s.disk, o, g, s.file) EXCEPT !.file = F] = TreeOf(s.disk, o, g, F)
  BY DEF TreeOf
<1> QED BY <1>2, <1>3, <1>4, <1>5, <1>6 DEF SetTwo, SetThree

\* The runs behind the gap move up.
LEMMA RaisedStart ==
  ASSUME NEW s, Shape(s), NEW i, NEW n, NEW f \in Files
  PROVE  Raised(s.file[f], i, n).start_index =
           IF Start(s, f) >= i THEN Start(s, f) + n ELSE Start(s, f)
<1>1. PICK r : r = s.file[f]
  OBVIOUS
<1>2. r = FileOf(r.size, r.start_index, r.sparse)
  BY <1>1 DEF Shape
<1>3. PICK j : j = r.start_index + n
  OBVIOUS
<1>4. [r EXCEPT !.start_index = j].start_index = j
  BY <1>2, OtherFileFields, FileFields
<1>5. Raised(r, i, n) = IF r.start_index >= i THEN [r EXCEPT !.start_index = j] ELSE r
  BY <1>3 DEF Raised
<1> QED BY <1>1, <1>3, <1>4, <1>5 DEF Start

\* fstree_add_gap: with data behind the gap the move is checked against the volume,
\* without there is no file on the volume.
LEMMA GapLayout ==
  ASSUME NEW s, TreeGood(s), Spots(s), Room(s), NEW i \in Nat, NEW n \in Nat \ {0}, n <= MaxGaps,
         GapSpot(s, i), NEW r, r = AddGap(s, i, n)
  PROVE  IF r.ok THEN GapAt(s, r.fs, i, n) /\ Room(r.fs) /\ i <= s.data_offset
         ELSE SameLayout(s, r.fs)
<1>1. Shape(s)
  BY GoodShape
<1>2. PICK off \in Nat : off = s.data_offset
  BY DEF Spots
<1>3. MaxBlocks \in Nat /\ MaxGaps \in Nat
  BY FSTreeAssumption
<1>4. ASSUME NEW f \in Files, Run(s, f) # 0 PROVE Start(s, f) < off
  <2>1. Start(s, f) + Run(s, f) <= s.data_offset /\ Start(s, f) \in Nat /\ Run(s, f) \in Nat
    BY <1>4, RunFacts DEF Spots
  <2> QED BY <1>2, <1>4, <2>1
<1>5. i < off \/ (i = 0 /\ off = 0)
  BY <1>2, <1>4 DEF GapSpot
<1>6. SameLists(r.fs, s)
  BY <1>1, AddGapSame
<1>7. \A f \in Files : Run(r.fs, f) = Run(s, f)
  BY <1>6, RunSame
<1>8. i <= s.data_offset
  BY <1>2, <1>5
<1>9. PICK g : g = { IF b >= i THEN b + n ELSE b : b \in s.gap } \cup i..(i + n - 1)
  OBVIOUS
<1>10. g = WithGap(s, i, n)
  BY <1>8, <1>9, GapsUp
<1>11. CASE i < off
  <2>1. PICK a : a = MemMove(s, i + n, i, off - i)
    OBVIOUS
  <2>2. SameAccount(a.fs, s) /\ Shape(a.fs)
    BY <1>1, <2>1, MemMoveAccount, AccountShape
  <2>3. a.fs.data_offset = off /\ a.fs.gap = s.gap /\ a.fs.file = s.file
    BY <1>2, <2>2 DEF SameAccount
  <2>4. PICK F : F = [f \in Files |-> Raised(s.file[f], i, n)]
    OBVIOUS
  <2>5. PICK d : d = [a.fs EXCEPT !.data_offset = off + n, !.gap = g, !.file = F]
    OBVIOUS
  <2>6. d.data_offset = off + n /\ d.gap = g /\ d.file = F
    <3>1. PICK z, o : z = a.fs /\ o = off + n
      OBVIOUS
    <3>2. d = SetThree(z, o, g, F) /\ Shape(z)
      BY <2>2, <2>5, <3>1 DEF SetThree
    <3>3. d = TreeOf(z.disk, o, g, F)
      BY <3>2, TreeTwoThree
    <3> QED BY <3>1, <3>3, TreeFields
  <2>7. PICK e : e = Discard(d, i, n)
    OBVIOUS
  <2>8. r = IF a.ok THEN Ok(e) ELSE a
    BY <1>2, <1>9, <1>11, <2>1, <2>3, <2>4, <2>5, <2>7 DEF AddGap, Then
  <2>9. CASE ~a.ok
    <3>1. SameLayout(s, a.fs)
      BY <2>2, AccountLayout
    <3> QED BY <2>8, <2>9, <3>1
  <2>10. CASE a.ok
    <3>1. r.ok /\ r.fs = e
      BY <2>8, <2>10 DEF Ok
    <3>2. e.data_offset = d.data_offset /\ e.gap = d.gap /\ e.file = d.file
      <4>1. PICK y : y = [x \in Disk |-> IF x >= i /\ x < i + n THEN ZeroBlock ELSE d.disk[x]]
        OBVIOUS
      <4>2. e = [d EXCEPT !.disk = y]
        BY <2>7, <4>1 DEF Discard
      <4>3. PICK z, o : z = a.fs /\ o = off + n
        OBVIOUS
      <4>4. d = SetThree(z, o, g, F) /\ Shape(z)
        BY <2>2, <2>5, <4>3 DEF SetThree
      <4>5. d = TreeOf(z.disk, o, g, F)
        BY <4>4, TreeTwoThree
      <4>6. [TreeOf(z.disk, o, g, F) EXCEPT !.disk = y] = TreeOf(y, o, g, F)
        BY DEF TreeOf
      <4> QED BY <2>6, <4>2, <4>3, <4>5, <4>6, TreeFields
    <3>3. ASSUME NEW f \in Files
          PROVE  Start(e, f) = IF Start(s, f) >= i THEN Start(s, f) + n ELSE Start(s, f)
      BY <1>1, <2>4, <2>6, <3>2, RaisedStart DEF Start
    <3>4. e.data_offset = off + n /\ e.gap = g
      BY <2>6, <3>2
    <3>5. ~(i >= off)
      BY <1>11
    <3>6. \A f \in Files : Run(e, f) = Run(s, f)
      BY <1>7, <3>1
    <3>7. GapAt(s, e, i, n)
      BY <1>2, <1>10, <3>3, <3>4, <3>5, <3>6 DEF GapAt
    <3>8. off + n <= MaxBlocks
      <4>1. PICK k \in Int : k = i + n
        OBVIOUS
      <4>2. Max({k, i}) = k
        <5>1. i <= k
          BY <4>1
        <5> QED BY <5>1, MaxTwo
      <4>3. a.ok <=> off - i = 0 \/ k = i \/ off - i <= MaxBlocks - Max({k, i})
        BY <1>1, <2>1, <4>1, MemMoveAccount
      <4>4. off - i # 0 /\ k # i
        BY <1>11, <4>1
      <4>5. off - i <= MaxBlocks - k
        BY <2>10, <4>2, <4>3, <4>4
      <4> QED BY <1>3, <4>1, <4>5
    <3>9. Room(e)
      BY <3>4, <3>8 DEF Room
    <3> QED BY <1>8, <3>1, <3>7, <3>9
  <2> QED BY <2>9, <2>10
<1>12. CASE i = 0 /\ off = 0
  <2>1. s.gap = {}
    <3> SUFFICES ASSUME NEW b \in s.gap PROVE FALSE
      OBVIOUS
    <3>1. b \in Nat /\ b < off
      BY <1>2 DEF Spots
    <3> QED BY <1>12, <3>1
  <2>2. PICK h : h = s.gap \cup i..(i + n - 1)
    OBVIOUS
  <2>3. h = g
    BY <1>9, <2>1, <2>2
  <2>4. PICK d : d = [s EXCEPT !.data_offset = i + n, !.gap = h]
    OBVIOUS
  <2>5. d = TreeOf(s.disk, i + n, h, s.file)
    BY <1>1, <2>4, TreeTwoThree DEF SetTwo
  <2>6. PICK e : e = Discard(d, i, n)
    OBVIOUS
  <2>7. r = Ok(e)
    BY <1>2, <1>12, <2>2, <2>4, <2>6 DEF AddGap
  <2>8. e.data_offset = i + n /\ e.gap = h /\ e.file = s.file
    <3>1. PICK y : y = [x \in Disk |-> IF x >= i /\ x < i + n THEN ZeroBlock ELSE d.disk[x]]
      OBVIOUS
    <3>2. e = [d EXCEPT !.disk = y]
      BY <2>6, <3>1 DEF Discard
    <3>3. [TreeOf(s.disk, i + n, h, s.file) EXCEPT !.disk = y] = TreeOf(y, i + n, h, s.file)
      BY DEF TreeOf
    <3> QED BY <2>5, <3>2, <3>3, TreeFields
  <2>9. r.ok /\ r.fs = e
    BY <2>7 DEF Ok
  <2>10. \A f \in Files : Start(e, f) = Start(s, f) /\ Run(e, f) = Run(s, f)
    BY <1>7, <2>8, <2>9 DEF Start
  <2>11. e.data_offset = off + n /\ i >= off
    BY <1>12, <2>8
  <2>12. GapAt(s, e, i, n)
    BY <1>2, <1>10, <2>3, <2>8, <2>10, <2>11 DEF GapAt
  <2>13. \A f \in Files : Run(e, f) = 0
    <3> SUFFICES ASSUME NEW f \in Files, Run(s, f) # 0 PROVE FALSE
      BY <2>10
    <3>1. Start(s, f) < off /\ Start(s, f) \in Nat
      BY <1>4 DEF Spots
    <3> QED BY <1>12, <3>1
  <2>14. e.data_offset <= MaxGaps
    BY <1>3, <1>12, <2>11
  <2> QED BY <1>8, <2>9, <2>12, <2>13, <2>14 DEF Room
<1> QED BY <1>5, <1>11, <1>12

-----------------------------------------------------------------------------
\* What a step may do to the layout.
LStep(s, t) ==
  \/ SameLayout(s, t)
  \/ \E n \in Files : \E d \in {-1, 0, 1} : Shifted(s, t, n, d)
  \/ \E n \in Files : \E m \in 0..Run(s, n) : CutDown(s, t, n, m)
  \/ \E i \in 0..s.data_offset, n \in 1..MaxOffset :
       GapSpot(s, i) /\ s.data_offset + n <= MaxOffset /\ GapAt(s, t, i, n)

\* There is a call in progress, or another may be made: no call has failed.
Going == job.file # Failed \/ job.apps # <<>> \/ job.over # <<>>

\* What every step of the calls does: it may be taken only while the used area ends
\* on the volume, and after it that is so unless the call has failed.
Stepped == Room(fs) /\ LStep(fs, fs') /\ (Going' => Room(fs'))

\* The two ways a call ends.
LEMMA EndsOfCalls ==
  /\ Idle.apps = <<>> /\ Idle.over = <<>> /\ Idle.file = NoFile
  /\ GaveUp.apps = <<>> /\ GaveUp.over = <<>> /\ GaveUp.file = Failed
  BY DEF Idle, GaveUp

\* A call that only starts something.
LEMMA StartSteps ==
  ASSUME Going => Room(fs), CanCall, fs' = fs
  PROVE  Stepped
<1>1. Room(fs)
  BY DEF CanCall, Going
<1>2. SameLayout(fs, fs)
  BY DEF SameLayout
<1> QED BY <1>1, <1>2 DEF Stepped, LStep

\* One turn of a loop.
LEMMA TurnSteps ==
  ASSUME Room(fs), NEW n \in Files, NEW o, Iterates(fs, o, n), NEW next, Outcome(o, n, next)
  PROVE  Stepped
<1>1. fs' = o.fs /\ (~o.ok => job' = GaveUp)
  BY DEF Outcome
<1>2. LStep(fs, o.fs) /\ (o.ok => Room(o.fs))
  BY DEF Iterates, LStep
<1>3. ~o.ok => ~Going'
  BY <1>1, EndsOfCalls DEF Going
<1> QED BY <1>1, <1>2, <1>3 DEF Stepped

\* The loop of fstree_file_append.
LEMMA AppendTurn ==
  ASSUME FilesInv, Spots(fs), Going => Room(fs), AppendIteration
  PROVE  Stepped
<1>1. TreeGood(fs) /\ JobGood(job, fs) /\ job.apps # <<>>
  BY DEF FilesInv, AppendIteration
<1>2. PICK n \in Files : n = job.file
  BY <1>1 DEF JobGood
<1>3. Apps(job.apps) /\ Room(fs)
  BY <1>1 DEF JobGood, Going
<1>4. PICK data : data = Head(job.apps)
  OBVIOUS
<1>5. Buf(data)
  BY <1>1, <1>3, <1>4, FirstBuf
<1>6. PICK S : data \in Seq(S)
  BY <1>5 DEF Buf
<1>7. PICK z \in Nat : z = fs.file[n].size
  BY <1>1, SizeNat
<1>8. PICK room \in Nat \ {0} : room = BlockSize - (z % BlockSize)
  <2>1. z % BlockSize \in Nat /\ z % BlockSize < BlockSize
    BY FSTreeAssumption
  <2>2. BlockSize - (z % BlockSize) \in Nat \ {0}
    BY <2>1, FSTreeAssumption
  <2> QED BY <2>2
<1>9. PICK l \in Nat \ {0} : l = Len(data)
  BY <1>5 DEF Buf
<1>10. PICK diff : diff = Min({room, l})
  OBVIOUS
<1>11. diff \in Nat \ {0} /\ diff <= l /\ diff <= room
  BY <1>10, MinTwo
<1>12. PICK part, rest : part = SubSeq(data, 1, diff) /\ rest = SubSeq(data, diff + 1, l)
  OBVIOUS
<1>13. Len(part) = diff
  BY <1>6, <1>9, <1>11, <1>12, CutBuf
<1>14. PICK a : a = IF rest = <<>> THEN Tail(job.apps) ELSE <<rest>> \o Tail(job.apps)
  OBVIOUS
<1>15. PICK o : o = AppendStep(fs, n, part)
  OBVIOUS
<1>16. Len(part) \in Nat \ {0} /\ Len(part) <= BlockSize - (fs.file[n].size % BlockSize)
  BY <1>7, <1>8, <1>11, <1>13
<1>17. Iterates(fs, o, n)
  BY <1>1, <1>3, <1>15, <1>16, AppendStepIterates
<1>18. Outcome(o, n, [job EXCEPT !.apps = a])
  BY <1>2, <1>4, <1>7, <1>8, <1>9, <1>10, <1>12, <1>14, <1>15 DEF AppendIteration
<1> QED BY <1>3, <1>17, <1>18, TurnSteps

\* The loop of fstree_file_write.
LEMMA WriteTurn ==
  ASSUME FilesInv, Spots(fs), Going => Room(fs), WriteIteration
  PROVE  Stepped
<1>1. TreeGood(fs) /\ JobGood(job, fs) /\ job.over # <<>> /\ Room(fs)
  BY DEF FilesInv, WriteIteration, Going
<1>2. PICK n \in Files : n = job.file
  BY <1>1 DEF JobGood
<1>3. PICK p \in Nat : p = job.off
  BY <1>1 DEF JobGood
<1>4. PICK w : w = job.over
  OBVIOUS
<1>5. PICK S : w \in Seq(S)
  BY <1>1, <1>4 DEF JobGood
<1>6. PICK l \in Nat \ {0} : l = Len(w)
  BY <1>1, <1>4, <1>5
<1>7. PICK z \in Nat : z = fs.file[n].size
  BY <1>1, SizeNat
<1>8. p + l <= z
  BY <1>1, <1>2, <1>3, <1>4, <1>6, <1>7 DEF JobGood
<1>9. PICK i, m : i = p \div BlockSize /\ m = p % BlockSize
  OBVIOUS
<1>10. i \in Nat /\ i < BlocksFor(z)
  <2>1. \A y \in Nat : y > p => p \div BlockSize \in Nat /\ p \div BlockSize < BlocksFor(y)
    BY BlocksForFacts
  <2> QED BY <1>8, <1>9, <2>1
<1>11. PICK diff : diff = Min({BlockSize - m, l})
  OBVIOUS
<1>12. PICK v : v = SubSeq(w, diff + 1, l)
  OBVIOUS
<1>13. PICK o : o = WriteStep(fs, n, i, m, SubSeq(w, 1, diff))
  OBVIOUS
<1>14. Iterates(fs, o, n)
  BY <1>1, <1>7, <1>10, <1>13, WriteStepIterates
<1>15. Outcome(o, n, [job EXCEPT !.off = p + diff, !.over = v])
  BY <1>2, <1>3, <1>4, <1>6, <1>9, <1>11, <1>12, <1>13 DEF WriteIteration
<1> QED BY <1>1, <1>14, <1>15, TurnSteps

\* A file is cut off; whatever the call does then, its blocks are on the volume.
LEMMA ShrinkSteps ==
  ASSUME FilesInv, Spots(fs), Room(fs), NEW n \in Files, NEW z \in Nat, z <= fs.file[n].size,
         fs' = Shrink(fs, n, z).fs
  PROVE  Stepped
<1>1. PICK r : r = Shrink(fs, n, z)
  OBVIOUS
<1>2. /\ SameLayout(fs, r.fs) \/ \E m \in 0..Run(fs, n) : CutDown(fs, r.fs, n, m)
      /\ Room(r.fs)
  BY <1>1, ShrinkCuts DEF FilesInv
<1> QED BY <1>1, <1>2 DEF Stepped, LStep

\* fstree_file_truncate.
LEMMA TruncateSteps ==
  ASSUME FilesInv, Spots(fs), Going => Room(fs), NEW n \in Files, NEW z \in Nat,
         fstree_file_truncate(n, z)
  PROVE  Stepped
<1>1. PICK size \in Nat : size = fs.file[n].size
  BY SizeNat DEF FilesInv
<1>2. CanCall /\ (fs' = fs \/ (z < size /\ fs' = Shrink(fs, n, z).fs))
  BY <1>1 DEF fstree_file_truncate
<1>3. Room(fs)
  BY <1>2 DEF CanCall, Going
<1>4. CASE fs' = fs
  BY <1>2, <1>4, StartSteps
<1>5. CASE z < size /\ fs' = Shrink(fs, n, z).fs
  <2>1. z <= fs.file[n].size
    BY <1>1, <1>5
  <2> QED BY <1>3, <1>5, <2>1, ShrinkSteps
<1> QED BY <1>2, <1>4, <1>5

\* fstree_add_gap.
LEMMA GapSteps ==
  ASSUME FilesInv, Spots(fs), Going => Room(fs), NEW i \in Nat, NEW c \in 1..MaxGaps,
         fstree_add_gap(i, c)
  PROVE  Stepped
<1>1. TreeGood(fs) /\ CanCall /\ Room(fs)
  BY DEF FilesInv, fstree_add_gap, CanCall, Going
<1>2. PICK r : r = AddGap(fs, i, c)
  OBVIOUS
<1>3. fs' = r.fs /\ (~r.ok => job' = GaveUp)
  BY <1>2 DEF fstree_add_gap
<1>4. GapSpot(fs, i)
  <2>1. i = 0 \/ \E f \in Files : PhysicalSize(fs.file[f]) # 0 /\ i = fs.file[f].start_index
    BY DEF fstree_add_gap
  <2>2. \A f \in Files : PhysicalSize(fs.file[f]) # 0 <=> Run(fs, f) # 0
    BY <1>1, RunFacts
  <2> QED BY <2>1, <2>2 DEF GapSpot, Start
<1>5. c \in Nat \ {0} /\ c <= MaxGaps
  BY FSTreeAssumption
<1>6. IF r.ok THEN GapAt(fs, r.fs, i, c) /\ Room(r.fs) /\ i <= fs.data_offset
      ELSE SameLayout(fs, r.fs)
  BY <1>1, <1>2, <1>4, <1>5, GapLayout
<1>7. CASE ~r.ok
  <2>1. ~Going'
    BY <1>3, <1>7, EndsOfCalls DEF Going
  <2> QED BY <1>1, <1>3, <1>6, <1>7, <2>1 DEF Stepped, LStep
<1>8. CASE r.ok
  <2>1. PICK off \in Nat : off = fs.data_offset
    BY DEF Spots
  <2>2. r.fs.data_offset = off + c
    BY <1>6, <1>8, <2>1 DEF GapAt
  <2>3. MaxOffset \in Nat /\ off + c < MaxOffset
    <3>1. r.fs.data_offset \in Nat
      BY <1>5, <2>2
    <3> QED BY <1>6, <1>8, <2>2, <3>1, RoomBound
  <2>4. c \in 1..MaxOffset /\ fs.data_offset + c <= MaxOffset /\ i \in 0..fs.data_offset
    BY <1>5, <1>6, <1>8, <2>1, <2>3
  <2>5. LStep(fs, r.fs)
    BY <1>4, <1>6, <1>8, <2>4 DEF LStep
  <2> QED BY <1>1, <1>3, <1>6, <1>8, <2>5 DEF Stepped
<1> QED BY <1>7, <1>8

\* The blocks of a volume that are still in the file.
LEMMA BeforeEnd ==
  ASSUME NEW x \in Nat, NEW d \in Nat \ {0}, NEW i \in Nat, i < (x + d - 1) \div d
  PROVE  i * d \in Nat /\ i * d <= x
<1>1. PICK z \in Nat : z = x + d - 1
  OBVIOUS
<1>2. PICK q \in Nat : q = z \div d /\ d * q \in Nat /\ d * q <= z /\ z < d * q + d
  BY DivFacts
<1>3. PICK e \in Nat : q = i + 1 + e
  <2>1. i < q
    BY <1>1, <1>2
  <2>2. q - (i + 1) \in Nat /\ q = i + 1 + (q - (i + 1))
    BY <2>1
  <2> QED BY <2>2
<1>4. PICK id \in Nat, ed \in Nat : id = i * d /\ ed = d * e
  OBVIOUS
<1>5. d * q = id + d + ed
  BY <1>3, <1>4
<1> QED BY <1>1, <1>2, <1>4, <1>5

\* fsvol_discard_blocks.
LEMMA DiscardSteps ==
  ASSUME FilesInv, Spots(fs), Going => Room(fs), NEW n \in Files, NEW i \in Nat, NEW c \in Nat \ {0},
         fsvol_discard_blocks(n, i, c)
  PROVE  Stepped
<1>1. CanCall /\ Room(fs)
  BY DEF fsvol_discard_blocks, CanCall, Going
<1>2. PICK d \in Nat \ {0} : d = use.blk
  BY UseNumbers DEF FilesInv, fsvol_discard_blocks, Opened, IsVolume
<1>3. PICK x \in Nat : x = fs.file[n].size
  BY SizeNat DEF FilesInv
<1>4. i < (x + d - 1) \div d
  BY <1>2, <1>3 DEF fsvol_discard_blocks, BlkCount
<1>5. PICK z \in Nat : z = i * d /\ z <= x
  BY <1>4, BeforeEnd
<1>6. fs' = fs \/ fs' = Shrink(fs, n, z).fs
  BY <1>2, <1>5 DEF fsvol_discard_blocks, fstree_file_write
<1>7. CASE fs' = fs
  BY <1>1, <1>7, StartSteps
<1>8. CASE fs' = Shrink(fs, n, z).fs
  BY <1>1, <1>3, <1>5, <1>8, ShrinkSteps
<1> QED BY <1>6, <1>7, <1>8

\* Every step.
LEMMA NextSteps ==
  ASSUME FilesInv, Spots(fs), Going => Room(fs), Next
  PROVE  Stepped
<1>1. use.sizes \subseteq Nat /\ use.max \in Nat /\ use.blk \in Nat
  BY UseNumbers DEF FilesInv
<1>2. 0..use.max - 1 \subseteq Nat /\ 1..use.max \subseteq Nat \ {0}
  BY <1>1
<1>3. ASSUME NEW n \in Files, Calls(n) PROVE Stepped
  <2>1. CASE \E d \in use.buffers : fstree_file_append(n, d)
    BY <2>1, StartSteps DEF fstree_file_append
  <2>2. CASE \E o \in use.sizes, d \in use.buffers : fstree_file_write(n, o, d)
    BY <2>2, StartSteps DEF fstree_file_write
  <2>3. CASE \E z \in use.sizes : fstree_file_truncate(n, z)
    BY <1>1, <2>3, TruncateSteps
  <2> QED BY <1>3, <2>1, <2>2, <2>3 DEF Calls
<1>4. ASSUME NEW n \in Files, Volume(n) PROVE Stepped
  <2>1. CASE fstree_file_volume_create(n)
    BY <2>1, StartSteps DEF fstree_file_volume_create
  <2>2. CASE \E i \in 0..use.max - 1, o \in 0..use.blk - 1, d \in use.buffers :
               fsvol_write_partial_block(n, i, o, d)
    BY <2>2, StartSteps DEF fsvol_write_partial_block, fstree_file_write
  <2>3. CASE \E i, j \in 0..use.max - 1, o, p \in 0..use.blk - 1, z \in use.sizes \ {0} :
               fsvol_move_block_partial(n, i, j, o, p, z)
    BY <2>3, StartSteps DEF fsvol_move_block_partial, fstree_file_write
  <2>4. CASE \E i \in 0..use.max - 1, c \in 1..use.max : fsvol_discard_blocks(n, i, c)
    BY <1>2, <2>4, DiscardSteps
  <2>5. CASE \E z \in 1..use.max * use.blk : fsvol_truncate(n, z)
    <3>1. PICK z \in 1..use.max * use.blk : fsvol_truncate(n, z)
      BY <2>5
    <3>2. z \in Nat /\ fstree_file_truncate(n, z)
      BY <3>1 DEF fsvol_truncate
    <3> QED BY <3>2, TruncateSteps
  <2> QED BY <1>4, <2>1, <2>2, <2>3, <2>4, <2>5 DEF Volume
<1>5. CASE \E i \in 0..MaxBlocks, c \in 1..MaxGaps : fstree_add_gap(i, c)
  BY <1>5, GapSteps
<1>6. CASE AppendIteration
  BY <1>6, AppendTurn
<1>7. CASE WriteIteration
  BY <1>7, WriteTurn
<1> QED BY <1>3, <1>4, <1>5, <1>6, <1>7 DEF Next, Step

-----------------------------------------------------------------------------
(***************************************************************************)
(* The step of FileLayout that a step of the tree is.                      *)
(***************************************************************************)
LP == INSTANCE FileLayoutProofs
  WITH MaxOffset   <- MaxOffset,
       data_offset <- fs.data_offset,
       gap         <- fs.gap,
       start_index <- [f \in Files |-> fs.file[f].start_index],
       count       <- [f \in Files |-> PhysBlocks(fs.file[f])]

\* The bound of FileLayout is a number.
LEMMA MaxOffsetNat == MaxOffset \in Nat
<1>1. PICK a \in Nat, b \in Nat : a = MaxBlocks /\ b = MaxGaps
  BY FSTreeAssumption
<1>2. a \in Int /\ b \in Int
  OBVIOUS
<1>3. Max({a, b}) \in Nat
  <2>1. CASE a <= b
    BY <1>2, <2>1, MaxTwo
  <2>2. CASE b <= a
    BY <1>2, <2>2, MaxTwo
  <2> QED BY <2>1, <2>2
<1> QED BY <1>1, <1>3 DEF MaxOffset

\* Where FileLayout moves the runs and the gaps.
LEMMA MapMoved ==
  ASSUME NEW n \in Files
  PROVE  /\ Layout!MovedStart(n) = [g \in Files |-> NewStart(fs, n, g)]
         /\ Layout!MovedGap(n) = NewGap(fs, n)
<1>1. Layout!MovedStart(n) = [g \in Files |-> NewStart(fs, n, g)]
  BY DEF Layout!MovedStart, Layout!AtEnd, NewStart, AtLast, Start, Run
<1>2. Layout!MovedGap(n) = NewGap(fs, n)
  BY DEF Layout!MovedGap, Layout!GapDown, Layout!AtEnd, NewGap, Down, AtLast, Start, Run
<1> QED BY <1>1, <1>2

\* Nothing happens to the layout.
LEMMA MapSame ==
  ASSUME SameLayout(fs, fs')
  PROVE  UNCHANGED Layout!layout
  BY DEF SameLayout, Layout!layout, Start, Run

\* A file is moved to the end, with one block more, one block less or as it is.
LEMMA MapShifted ==
  ASSUME TreeGood(fs), TreeGood(fs'), Spots(fs), Room(fs), NEW n \in Files, NEW d \in {-1, 0, 1},
         Shifted(fs, fs', n, d)
  PROVE  Layout!Next
<1>1. [g \in Files |-> fs'.file[g].start_index] = Layout!MovedStart(n)
  BY MapMoved DEF Shifted, Start
<1>2. fs'.gap = Layout!MovedGap(n)
  BY MapMoved DEF Shifted
<1>3. PICK ct : ct = [g \in Files |-> PhysBlocks(fs.file[g])]
  OBVIOUS
<1>4. \A g \in Files : ct[g] = Run(fs, g) /\ Run(fs, g) \in Nat
  BY <1>3, RunFacts DEF Run
<1>5. [g \in Files |-> PhysBlocks(fs'.file[g])] = [ct EXCEPT ![n] = @ + d]
  <2>1. \A g \in Files : PhysBlocks(fs'.file[g]) = IF g = n THEN ct[g] + d ELSE ct[g]
    BY <1>4 DEF Shifted, Run
  <2> QED BY <1>3, <2>1
<1>6. fs.data_offset \in Nat /\ fs'.data_offset = fs.data_offset + d
  BY DEF Spots, Shifted
<1>7. CASE d = 0
  <2>1. [ct EXCEPT ![n] = @ + d] = ct
    BY <1>3, <1>4, <1>7
  <2>2. fs'.data_offset = fs.data_offset
    BY <1>6, <1>7
  <2>3. Layout!Move(n)
    BY <1>1, <1>2, <1>3, <1>5, <2>1, <2>2 DEF Layout!Move
  <2> QED BY <2>3 DEF Layout!Next
<1>8. CASE d = 1
  <2>1. fs.data_offset < MaxOffset
    BY <1>6, RoomBound
  <2>2. Layout!Grow(n)
    BY <1>1, <1>2, <1>3, <1>5, <1>6, <1>8, <2>1 DEF Layout!Grow
  <2> QED BY <2>2 DEF Layout!Next
<1>9. CASE d = -1
  <2>1. [ct EXCEPT ![n] = @ + d] = [ct EXCEPT ![n] = @ - 1]
    BY <1>3, <1>4, <1>9
  <2>2. fs'.data_offset = fs.data_offset - 1
    BY <1>6, <1>9
  <2>3. ct[n] > 0
    <3>1. Run(fs', n) \in Nat
      BY RunFacts
    <3>2. Run(fs', n) = Run(fs, n) + d
      BY DEF Shifted
    <3> QED BY <1>4, <1>9, <3>1, <3>2
  <2>4. Layout!Release(n)
    BY <1>1, <1>2, <1>3, <1>5, <2>1, <2>2, <2>3 DEF Layout!Release
  <2> QED BY <2>4 DEF Layout!Next
<1> QED BY <1>7, <1>8, <1>9

\* A file is cut off.
LEMMA MapCut ==
  ASSUME TreeGood(fs), NEW n \in Files, NEW m \in 0..Run(fs, n), CutDown(fs, fs', n, m)
  PROVE  Layout!Next
<1>1. PICK ct : ct = [g \in Files |-> PhysBlocks(fs.file[g])]
  OBVIOUS
<1>2. \A g \in Files : ct[g] = Run(fs, g) /\ Run(fs, g) \in Nat
  BY <1>1, RunFacts DEF Run
<1>3. PICK st : st = [g \in Files |-> fs.file[g].start_index]
  OBVIOUS
<1>4. \A g \in Files : st[g] = Start(fs, g)
  BY <1>3 DEF Start
<1>5. PICK ct2 : ct2 = [g \in Files |-> PhysBlocks(fs'.file[g])]
  OBVIOUS
<1>6. \A g \in Files : ct2[g] = Run(fs', g)
  BY <1>5 DEF Run
<1>7. ct2 = [ct EXCEPT ![n] = m]
  <2>1. \A g \in Files : PhysBlocks(fs'.file[g]) = IF g = n THEN m ELSE ct[g]
    BY <1>2 DEF CutDown, Run
  <2> QED BY <1>1, <1>5, <2>1
<1>8. [g \in Files |-> fs'.file[g].start_index] =
        [g \in Files |-> IF ct2[g] # 0 /\ st[g] > st[n] THEN st[g] - (ct[n] - m) ELSE st[g]]
  <2>1. ASSUME NEW g \in Files
        PROVE  fs'.file[g].start_index = IF ct2[g] # 0 /\ st[g] > st[n] THEN st[g] - (ct[n] - m) ELSE st[g]
    BY <1>2, <1>4, <1>6 DEF CutDown, Start
  <2> QED BY <2>1
<1>9. fs'.data_offset = fs.data_offset - (ct[n] - m) /\ m < ct[n]
  BY <1>2 DEF CutDown
<1>10. fs'.gap = { b \in 0..fs.data_offset : \/ b < st[n] /\ b \in fs.gap
                                             \/ b + (ct[n] - m) >= st[n] /\ b + (ct[n] - m) \in fs.gap }
  BY <1>2, <1>4 DEF CutDown, Down
<1>11. Layout!Truncate(n, m)
  BY <1>1, <1>3, <1>5, <1>7, <1>8, <1>9, <1>10 DEF Layout!Truncate, Layout!GapDown
<1>12. m \in 0..ct[n]
  BY <1>2
<1> QED BY <1>1, <1>11, <1>12 DEF Layout!Next

\* A gap is inserted.
LEMMA MapGap ==
  ASSUME NEW i \in 0..fs.data_offset, NEW n \in 1..MaxOffset, GapSpot(fs, i),
         fs.data_offset + n <= MaxOffset, GapAt(fs, fs', i, n)
  PROVE  Layout!Next
<1>1. PICK ct : ct = [g \in Files |-> PhysBlocks(fs.file[g])]
  OBVIOUS
<1>2. \A g \in Files : ct[g] = Run(fs, g)
  BY <1>1 DEF Run
<1>3. PICK st : st = [g \in Files |-> fs.file[g].start_index]
  OBVIOUS
<1>4. \A g \in Files : st[g] = Start(fs, g)
  BY <1>3 DEF Start
<1>5. [g \in Files |-> PhysBlocks(fs'.file[g])] = ct
  BY <1>1 DEF GapAt, Run
<1>6. [g \in Files |-> fs'.file[g].start_index] =
        IF i >= fs.data_offset THEN st
        ELSE [g \in Files |-> IF st[g] >= i THEN st[g] + n ELSE st[g]]
  <2>1. ASSUME NEW g \in Files
        PROVE  fs'.file[g].start_index = IF i >= fs.data_offset THEN st[g]
                                         ELSE IF st[g] >= i THEN st[g] + n ELSE st[g]
    BY <1>4 DEF GapAt, Start
  <2> QED BY <1>3, <2>1
<1>7. i = 0 \/ \E f \in Files : ct[f] # 0 /\ i = st[f]
  BY <1>2, <1>4 DEF GapSpot
<1>8. /\ fs'.data_offset = fs.data_offset + n
      /\ fs'.gap = { b \in 0..(fs.data_offset + n - 1) : \/ b < i /\ b \in fs.gap
                                                         \/ b >= i /\ b < i + n
                                                         \/ b - n >= i /\ b - n \in fs.gap }
  BY DEF GapAt, WithGap
<1>9. Layout!AddGap(i, n)
  BY <1>1, <1>3, <1>5, <1>6, <1>7, <1>8 DEF Layout!AddGap
<1> QED BY <1>9 DEF Layout!Next

\* Every step of the calls is a step of FileLayout.
LEMMA MapStep ==
  ASSUME FilesInv, FilesInv', Spots(fs), Stepped
  PROVE  [Layout!Next]_(Layout!layout)
<1>1. TreeGood(fs) /\ TreeGood(fs') /\ Room(fs) /\ LStep(fs, fs')
  BY DEF FilesInv, Stepped
<1>2. CASE SameLayout(fs, fs')
  BY <1>2, MapSame
<1>3. CASE \E n \in Files : \E d \in {-1, 0, 1} : Shifted(fs, fs', n, d)
  BY <1>1, <1>3, MapShifted
<1>4. CASE \E n \in Files : \E m \in 0..Run(fs, n) : CutDown(fs, fs', n, m)
  BY <1>1, <1>4, MapCut
<1>5. CASE \E i \in 0..fs.data_offset, n \in 1..MaxOffset :
             GapSpot(fs, i) /\ fs.data_offset + n <= MaxOffset /\ GapAt(fs, fs', i, n)
  BY <1>5, MapGap
<1> QED BY <1>1, <1>2, <1>3, <1>4, <1>5 DEF LStep

-----------------------------------------------------------------------------
\* FileLayout keeps its tiling in the tree's steps.
LEMMA TilingKept ==
  ASSUME LP!LayoutInv, [Layout!Next]_(Layout!layout)
  PROVE  LP!LayoutInv'
<1>1. [LP!Next]_(LP!layout)
  BY DEF Layout!Next, Layout!Move, Layout!Grow, Layout!Release, Layout!Truncate, Layout!AddGap,
         Layout!MovedStart, Layout!MovedGap, Layout!GapDown, Layout!AtEnd, Layout!layout,
         LP!Next, LP!Move, LP!Grow, LP!Release, LP!Truncate, LP!AddGap,
         LP!MovedStart, LP!MovedGap, LP!GapDown, LP!AtEnd, LP!layout
<1> QED BY <1>1, MaxOffsetNat, LP!LayoutStep

\* The tiling says where the runs and the gaps are.
LEMMA TilingSpots ==
  ASSUME LP!LayoutInv
  PROVE  Spots(fs)
<1>1. PICK ct : ct = [g \in Files |-> PhysBlocks(fs.file[g])]
  OBVIOUS
<1>2. PICK st : st = [g \in Files |-> fs.file[g].start_index]
  OBVIOUS
<1>3. \A g \in Files : ct[g] = Run(fs, g) /\ st[g] = Start(fs, g)
  BY <1>1, <1>2 DEF Run, Start
<1>4. /\ fs.data_offset \in Nat /\ st \in [Files -> Nat] /\ ct \in [Files -> Nat] /\ fs.gap \in SUBSET Nat
      /\ \A f \in Files : ct[f] # 0 => st[f] + ct[f] <= fs.data_offset
      /\ \A b \in fs.gap : b < fs.data_offset /\ \A f \in Files : ~(st[f] <= b /\ b < st[f] + ct[f])
  BY <1>1, <1>2, MaxOffsetNat DEF LP!LayoutInv, LP!TypeOK, LP!NoOverlap, LP!Owns
<1>5. ASSUME NEW b \in fs.gap, NEW f \in Files PROVE b < Start(fs, f) \/ b >= Start(fs, f) + Run(fs, f)
  BY <1>3, <1>4
<1> QED BY <1>3, <1>4, <1>5 DEF Spots

\* The tree just created.
LEMMA LayoutStarts ==
  ASSUME Init
  PROVE  Layout!Init /\ LP!LayoutInv /\ Room(fs)
<1>1. FilesInv
  BY InitGood
<1>2. /\ fs.data_offset = 0 /\ fs.gap = {}
      /\ \A f \in Files : fs.file[f].start_index = 0 /\ fs.file[f].size = 0
  BY DEF Init
<1>3. ASSUME NEW f \in Files PROVE PhysBlocks(fs.file[f]) = 0
  <2>1. FileGood(fs.file[f].size, fs.file[f].sparse)
    BY <1>1 DEF FilesInv, TreeGood
  <2>2. /\ Held(fs.file[f].sparse) \in Nat /\ Held(fs.file[f].sparse) <= BlocksFor(fs.file[f].size)
        /\ PhysBlocks(fs.file[f]) = BlocksFor(fs.file[f].size) - Held(fs.file[f].sparse)
    BY <2>1, PhysBlocksAre
  <2>3. BlocksFor(fs.file[f].size) = 0
    BY <1>2, BlocksForBounds
  <2> QED BY <2>2, <2>3
<1>4. Layout!Init
  BY <1>2, <1>3 DEF Layout!Init
<1>5. LP!Init
  BY <1>2, <1>3 DEF LP!Init
<1>6. LP!LayoutInv
  BY <1>5, MaxOffsetNat, LP!LayoutInit
<1>7. Room(fs)
  BY <1>2, FSTreeAssumption DEF Room
<1> QED BY <1>4, <1>6, <1>7

(***************************************************************************)
(* The inductive invariant: good lists and jobs, the runs and gaps tile    *)
(* the used area, and unless a call has failed the used area ends on the   *)
(* volume.                                                                 *)
(***************************************************************************)
TreeInv == FilesInv /\ LP!LayoutInv /\ (Going => Room(fs))

\* A step keeps it and is a step of FileLayout.
LEMMA TreeSteps ==
  ASSUME TreeInv, [Next]_vars
  PROVE  TreeInv' /\ [Layout!Next]_(Layout!layout)
<1>1. FilesInv /\ LP!LayoutInv /\ (Going => Room(fs)) /\ Spots(fs)
  BY TilingSpots DEF TreeInv
<1>2. CASE Next
  <2>1. FilesInv'
    BY <1>1, <1>2, NextGood
  <2>2. Stepped
    BY <1>1, <1>2, NextSteps
  <2>3. [Layout!Next]_(Layout!layout)
    BY <1>1, <2>1, <2>2, MapStep
  <2>4. LP!LayoutInv'
    BY <1>1, <2>3, TilingKept
  <2>5. (Going => Room(fs))'
    BY <2>2 DEF Stepped
  <2> QED BY <2>1, <2>3, <2>4, <2>5 DEF TreeInv
<1>3. CASE UNCHANGED vars
  <2>1. fs' = fs /\ job' = job /\ use' = use
    BY <1>3 DEF vars
  <2>2. UNCHANGED Layout!layout
    BY <2>1 DEF Layout!layout
  <2>3. LP!LayoutInv'
    BY <1>1, <2>2, TilingKept
  <2>4. FilesInv' /\ (Going => Room(fs))'
    BY <1>1, <2>1 DEF FilesInv, Going
  <2> QED BY <2>2, <2>3, <2>4 DEF TreeInv
<1> QED BY <1>2, <1>3

\* In every reachable state the files and gaps tile the used area, and the used
\* area ends on the volume unless a call has failed or there is only a gap.
THEOREM TreeInvariant == Spec => []TreeInv
<1>1. Init => TreeInv
  BY InitGood, LayoutStarts DEF TreeInv
<1>2. TreeInv /\ [Next]_vars => TreeInv'
  BY TreeSteps
<1> QED BY <1>1, <1>2, PTL DEF Spec

\* The file data functions implement FileLayout: for any files, block sizes,
\* volumes, buffers and sequences of calls, every step of append, write, truncate
\* and add_gap, also one that fails half way, is with the bytes left out a step of
\* FileLayout or leaves the layout alone.
THEOREM FilesImplementLayout == Spec => ImplementsLayout
<1>1. Init => Layout!Init
  BY LayoutStarts
<1>2. TreeInv /\ [Next]_vars => [Layout!Next]_(Layout!layout)
  BY TreeSteps
<1> QED BY <1>1, <1>2, TreeInvariant, PTL DEF Spec, ImplementsLayout, Layout!Spec

\* No block belongs to two files of the tree or to a file and a gap, and none below
\* data_offset is lost, in the tree itself and at every step of its calls.
THEOREM TreeTilesVolume == Spec => [](Layout!NoOverlap /\ Layout!NoLeak)
<1>1. TreeInv => Layout!NoOverlap /\ Layout!NoLeak
  BY DEF TreeInv, LP!LayoutInv, LP!NoOverlap, LP!NoLeak, LP!Owns,
         Layout!NoOverlap, Layout!NoLeak, Layout!Owns
<1> QED BY <1>1, TreeInvariant, PTL

-----------------------------------------------------------------------------
(***************************************************************************)
(* Where a block of a file is in its run: the number of the blocks before  *)
(* it that are stored.                                                     *)
(***************************************************************************)
HolesBelow(l, i) == { x \in Nat : x < i /\ IsSparse(l, x) }
Rank(l, i) == i - Cardinality(HolesBelow(l, i))

\* There are only so many of them.
LEMMA BelowFacts ==
  ASSUME NEW l, NEW i \in Nat
  PROVE  /\ IsFiniteSet(HolesBelow(l, i)) /\ Cardinality(HolesBelow(l, i)) \in Nat
         /\ Cardinality(HolesBelow(l, i)) <= i
         /\ Rank(l, i) \in Nat /\ Rank(l, i) <= i
<1>1. PICK e \in Int : e = i - 1
  OBVIOUS
<1>2. IsFiniteSet(0..e) /\ Cardinality(0..e) = IF 0 > e THEN 0 ELSE e - 0 + 1
  <2>1. 0 \in Int
    OBVIOUS
  <2> QED BY <2>1, FS_Interval
<1>3. (IF 0 > e THEN 0 ELSE e - 0 + 1) = i
  BY <1>1
<1>4. HolesBelow(l, i) \in SUBSET (0..e)
  BY <1>1 DEF HolesBelow
<1>5. IsFiniteSet(HolesBelow(l, i)) /\ Cardinality(HolesBelow(l, i)) <= i
  BY <1>2, <1>3, <1>4, FS_Subset
<1>6. Cardinality(HolesBelow(l, i)) \in Nat
  BY <1>5, FS_CardinalityType
<1> QED BY <1>5, <1>6 DEF Rank

\* From one block to the next.
LEMMA RankNext ==
  ASSUME NEW l, NEW i \in Nat
  PROVE  Rank(l, i + 1) = IF IsSparse(l, i) THEN Rank(l, i) ELSE Rank(l, i) + 1
<1>1. PICK c \in Nat : c = Cardinality(HolesBelow(l, i))
  BY BelowFacts
<1>2. Rank(l, i) = i - c
  BY <1>1 DEF Rank
<1>3. CASE IsSparse(l, i)
  <2>1. HolesBelow(l, i + 1) = HolesBelow(l, i) \cup {i}
    BY <1>3 DEF HolesBelow
  <2>2. i \notin HolesBelow(l, i)
    BY DEF HolesBelow
  <2>3. Cardinality(HolesBelow(l, i) \cup {i}) = c + 1
    BY <1>1, <2>2, BelowFacts, FS_AddElement
  <2>4. Rank(l, i + 1) = (i + 1) - (c + 1)
    BY <2>1, <2>3 DEF Rank
  <2> QED BY <1>2, <1>3, <2>4
<1>4. CASE ~IsSparse(l, i)
  <2>1. HolesBelow(l, i + 1) = HolesBelow(l, i)
    BY <1>4 DEF HolesBelow
  <2>2. Rank(l, i + 1) = (i + 1) - c
    BY <1>1, <2>1 DEF Rank
  <2> QED BY <1>2, <1>4, <2>2
<1> QED BY <1>3, <1>4

\* A later block is not in front of an earlier one.
LEMMA RankGrows ==
  ASSUME NEW l, NEW i \in Nat, NEW j \in Nat, i <= j
  PROVE  Rank(l, i) <= Rank(l, j)
<1> DEFINE M == { m \in Nat : Rank(l, i) <= Rank(l, i + m) }
<1>1. 0 \in M
  <2>1. i + 0 = i /\ Rank(l, i) \in Nat
    BY BelowFacts
  <2> QED BY <2>1
<1>2. ASSUME NEW m \in Nat, m \in M PROVE m + 1 \in M
  <2>1. PICK k \in Nat : k = i + m /\ i + (m + 1) = k + 1
    OBVIOUS
  <2>2. Rank(l, i) \in Nat /\ Rank(l, k) \in Nat /\ Rank(l, i) <= Rank(l, k)
    BY <1>2, <2>1, BelowFacts
  <2>3. Rank(l, k + 1) = IF IsSparse(l, k) THEN Rank(l, k) ELSE Rank(l, k) + 1
    BY RankNext
  <2>4. Rank(l, i) <= Rank(l, k + 1)
    BY <2>2, <2>3
  <2> QED BY <2>1, <2>4
<1> HIDE DEF M
<1>3. PICK m \in Nat : j = i + m
  <2>1. j - i \in Nat /\ j = i + (j - i)
    OBVIOUS
  <2> QED BY <2>1
<1>4. m \in M
  BY <1>1, <1>2, SetInduction
<1> QED BY <1>3, <1>4 DEF M

\* Two blocks that are stored are not at the same place.
LEMMA RankOrder ==
  ASSUME NEW l, NEW i \in Nat, ~IsSparse(l, i), NEW j \in Nat, i < j
  PROVE  Rank(l, i) < Rank(l, j)
<1>1. Rank(l, i + 1) = Rank(l, i) + 1
  BY RankNext
<1>2. Rank(l, i + 1) <= Rank(l, j)
  BY RankGrows
<1>3. Rank(l, i) \in Nat /\ Rank(l, j) \in Nat
  BY BelowFacts
<1> QED BY <1>1, <1>2, <1>3

\* The blocks of a region are all at the place of its first block.
LEMMA RankInRegion ==
  ASSUME NEW l, NEW a \in Nat, NEW i \in Nat, a <= i, \A x \in Nat : a <= x /\ x < i => IsSparse(l, x)
  PROVE  Rank(l, i) = Rank(l, a)
<1> DEFINE M == { m \in Nat : a + m <= i => Rank(l, a + m) = Rank(l, a) }
<1>1. 0 \in M
  OBVIOUS
<1>2. ASSUME NEW m \in Nat, m \in M PROVE m + 1 \in M
  <2> SUFFICES ASSUME a + (m + 1) <= i PROVE Rank(l, a + (m + 1)) = Rank(l, a)
    OBVIOUS
  <2>1. PICK k \in Nat : k = a + m /\ a + (m + 1) = k + 1
    OBVIOUS
  <2>2. k < i /\ a <= k /\ Rank(l, k) = Rank(l, a)
    BY <1>2, <2>1
  <2>3. Rank(l, k + 1) = Rank(l, k)
    BY <2>2, RankNext
  <2> QED BY <2>1, <2>2, <2>3
<1> HIDE DEF M
<1>3. PICK m \in Nat : i = a + m
  <2>1. i - a \in Nat /\ i = a + (i - a)
    OBVIOUS
  <2> QED BY <2>1
<1>4. m \in M
  BY <1>1, <1>2, SetInduction
<1> QED BY <1>3, <1>4 DEF M

\* Every place in the run is that of a block.
LEMMA RankOnto ==
  ASSUME NEW l, NEW m \in Nat, NEW k \in Nat, k < Rank(l, m)
  PROVE  \E i \in Nat : i < m /\ ~IsSparse(l, i) /\ Rank(l, i) = k
<1> DEFINE S == { x \in Nat : k < Rank(l, x) }
<1>1. m \in S /\ S \subseteq Nat
  OBVIOUS
<1>2. PICK e \in S : \A x \in S : e <= x
  BY <1>1, NatLeast
<1>3. e \in Nat /\ k < Rank(l, e) /\ e <= m
  BY <1>1, <1>2
<1>4. e # 0
  <2>1. Rank(l, 0) <= 0 /\ Rank(l, 0) \in Nat
    BY BelowFacts
  <2> QED BY <1>3, <2>1
<1>5. PICK i \in Nat : e = i + 1
  <2>1. e - 1 \in Nat /\ e = (e - 1) + 1
    BY <1>3, <1>4
  <2> QED BY <2>1
<1>6. i \notin S
  <2>1. ~(e <= i)
    BY <1>5
  <2> QED BY <1>2, <2>1
<1>7. Rank(l, i) \in Nat /\ ~(k < Rank(l, i))
  BY <1>6, BelowFacts
<1>8. Rank(l, e) = IF IsSparse(l, i) THEN Rank(l, i) ELSE Rank(l, i) + 1
  BY <1>5, RankNext
<1>9. ~IsSparse(l, i) /\ Rank(l, i) = k /\ i < m
  BY <1>3, <1>5, <1>7, <1>8
<1> QED BY <1>9

\* A block that gets a hole moves the later ones down, one that gets stored up.
LEMMA RankChanges ==
  ASSUME NEW l, NEW t, NEW i \in Nat, NEW j \in Nat
  PROVE  /\ WithBlock(l, t, i) /\ ~IsSparse(l, i) =>
              Rank(t, j) = IF i < j THEN Rank(l, j) - 1 ELSE Rank(l, j)
         /\ WithoutBlock(l, t, i) /\ IsSparse(l, i) =>
              Rank(t, j) = IF i < j THEN Rank(l, j) + 1 ELSE Rank(l, j)
<1>1. PICK c \in Nat : c = Cardinality(HolesBelow(l, j)) /\ IsFiniteSet(HolesBelow(l, j))
  BY BelowFacts
<1>2. Rank(l, j) = j - c
  BY <1>1 DEF Rank
<1>3. ASSUME WithBlock(l, t, i), ~IsSparse(l, i)
      PROVE  Rank(t, j) = IF i < j THEN Rank(l, j) - 1 ELSE Rank(l, j)
  <2>1. CASE i < j
    <3>1. HolesBelow(t, j) = HolesBelow(l, j) \cup {i} /\ i \notin HolesBelow(l, j)
      BY <1>3, <2>1 DEF WithBlock, HolesBelow
    <3>2. Cardinality(HolesBelow(l, j) \cup {i}) = c + 1
      BY <1>1, <3>1, FS_AddElement
    <3>3. Rank(t, j) = j - (c + 1)
      BY <3>1, <3>2 DEF Rank
    <3> QED BY <1>2, <2>1, <3>3
  <2>2. CASE ~(i < j)
    <3>1. HolesBelow(t, j) = HolesBelow(l, j)
      BY <1>3, <2>2 DEF WithBlock, HolesBelow
    <3> QED BY <2>2, <3>1 DEF Rank
  <2> QED BY <2>1, <2>2
<1>4. ASSUME WithoutBlock(l, t, i), IsSparse(l, i)
      PROVE  Rank(t, j) = IF i < j THEN Rank(l, j) + 1 ELSE Rank(l, j)
  <2>1. CASE i < j
    <3>1. HolesBelow(t, j) = HolesBelow(l, j) \ {i} /\ i \in HolesBelow(l, j)
      BY <1>4, <2>1 DEF WithoutBlock, HolesBelow
    <3>2. Cardinality(HolesBelow(l, j) \ {i}) = c - 1
      BY <1>1, <3>1, FS_RemoveElement
    <3>3. Rank(t, j) = j - (c - 1)
      BY <3>1, <3>2 DEF Rank
    <3> QED BY <1>2, <2>1, <3>3
  <2>2. CASE ~(i < j)
    <3>1. HolesBelow(t, j) = HolesBelow(l, j)
      BY <1>4, <2>2 DEF WithoutBlock, HolesBelow
    <3> QED BY <2>2, <3>1 DEF Rank
  <2> QED BY <2>1, <2>2
<1> QED BY <1>3, <1>4

\* Cutting off a list does not move the blocks that are left.
LEMMA RankCut ==
  ASSUME NEW l, NEW t, NEW n \in Nat, UpToBlock(l, t, n), NEW j \in Nat, j <= n
  PROVE  Rank(t, j) = Rank(l, j)
<1>1. HolesBelow(t, j) = HolesBelow(l, j)
  BY DEF UpToBlock, HolesBelow
<1> QED BY <1>1 DEF Rank

\* A list without regions.
LEMMA RankEmpty ==
  ASSUME NEW i \in Nat
  PROVE  Rank(<<>>, i) = i /\ ~IsSparse(<<>>, i)
<1>1. \A x \in Nat : ~IsSparse(<<>>, x)
  BY DEF IsSparse
<1>2. HolesBelow(<<>>, i) = {}
  BY <1>1 DEF HolesBelow
<1>3. Cardinality(HolesBelow(<<>>, i)) = 0
  BY <1>2, FS_EmptySet
<1>4. Rank(<<>>, i) = i - 0
  BY <1>3 DEF Rank
<1> QED BY <1>1, <1>4

\* The end of the file is the end of its run.
LEMMA RankEnd ==
  ASSUME NEW s, TreeGood(s), NEW n \in Files, NEW q, q = BlocksFor(s.file[n].size)
  PROVE  /\ q \in Nat /\ Rank(s.file[n].sparse, q) = Run(s, n) /\ Run(s, n) \in Nat
         /\ \A i \in Nat : i < q /\ ~IsSparse(s.file[n].sparse, i) =>
              Rank(s.file[n].sparse, i) \in Nat /\ Rank(s.file[n].sparse, i) < Run(s, n)
<1>1. PICK l : l = s.file[n].sparse
  OBVIOUS
<1>2. FileGood(s.file[n].size, l) /\ s.file[n].size \in Nat
  BY <1>1 DEF TreeGood, FileGood
<1>3. q \in Nat
  BY <1>2, BlocksForFacts
<1>4. HolesBelow(l, q) = Holes(l)
  BY <1>2 DEF HolesBelow, Holes, FileGood
<1>5. Run(s, n) = q - Held(l) /\ Run(s, n) \in Nat
  BY <1>1, RunFacts
<1>6. Rank(l, q) = Run(s, n)
  BY <1>4, <1>5 DEF Rank, Held
<1>7. ASSUME NEW i \in Nat, i < q, ~IsSparse(l, i) PROVE Rank(l, i) \in Nat /\ Rank(l, i) < Run(s, n)
  BY <1>3, <1>6, <1>7, BelowFacts, RankOrder
<1> QED BY <1>1, <1>3, <1>5, <1>6, <1>7

-----------------------------------------------------------------------------
\* The region that is found holds the block.
LEMMA RegionCovers ==
  ASSUME NEW l, ListOK(l), NEW i \in Nat, RegionOf(l, i) # 0
  PROVE  Covers(l[RegionOf(l, i)], i) /\ RegionOf(l, i) \in 1..Len(l)
<1>1. PICK I : I = { j \in 1..Len(l) : Covers(l[j], i) }
  OBVIOUS
<1>2. PICK k : k = RegionOf(l, i)
  OBVIOUS
<1>3. k = FirstOf(I)
  BY <1>1, <1>2 DEF RegionOf, SelectInSeq, FirstOf
<1>4. Len(l) \in Nat
  BY DEF ListOK
<1>5. k \in I
  BY <1>1, <1>2, <1>3, <1>4, FirstFacts
<1> QED BY <1>1, <1>2, <1>5

\* The regions that Skipped counts: those in front of block i that do not hold it.
InFront(r, i) == r.index < i /\ ~Covers(r, i)
CountedTo(l, m, i) == { x \in Nat : \E j \in 1..m : Covers(l[j], x) /\ InFront(l[j], i) }

\* A set gets c numbers more.
LEMMA MoreNumbers ==
  ASSUME NEW S, IsFiniteSet(S), NEW a \in Nat, NEW c \in Nat, S \cap (a..(a + c - 1)) = {}
  PROVE  /\ IsFiniteSet(S \cup (a..(a + c - 1)))
         /\ Cardinality(S \cup (a..(a + c - 1))) = Cardinality(S) + c
<1> DEFINE T == a..(a + c - 1)
<1>1. IsFiniteSet(T) /\ Cardinality(T) = c
  <2>1. PICK e \in Int : e = a + c - 1
    OBVIOUS
  <2>2. IsFiniteSet(a..e) /\ Cardinality(a..e) = IF a > e THEN 0 ELSE e - a + 1
    <3>1. a \in Int
      OBVIOUS
    <3> QED BY <3>1, FS_Interval
  <2>3. (IF a > e THEN 0 ELSE e - a + 1) = c
    BY <2>1
  <2> QED BY <2>1, <2>2, <2>3
<1>2. S \cap T = {}
  OBVIOUS
<1> HIDE DEF T
<1>3. Cardinality(S) \in Nat
  BY FS_CardinalityType
<1>4. IsFiniteSet(S \cup T) /\ Cardinality(S \cup T) = Cardinality(S) + Cardinality(T) - Cardinality(S \cap T)
  BY <1>1, FS_Union
<1>5. Cardinality(S \cap T) = 0
  BY <1>2, FS_EmptySet
<1>6. Cardinality(S \cup T) = Cardinality(S) + c
  BY <1>1, <1>3, <1>4, <1>5
<1> QED BY <1>4, <1>6 DEF T

\* One more region.
LEMMA CountedNext ==
  ASSUME NEW l, ListOK(l), NEW k \in 1..Len(l), NEW i \in Nat,
         IsFiniteSet(CountedTo(l, k - 1, i))
  PROVE  /\ IsFiniteSet(CountedTo(l, k, i))
         /\ Cardinality(CountedTo(l, k, i)) =
              Cardinality(CountedTo(l, k - 1, i)) + (IF InFront(l[k], i) THEN l[k].count ELSE 0)
<1>1. PICK n \in Nat : n = Len(l)
  BY DEF ListOK
<1>2. PICK a \in Nat, c \in Nat \ {0} : a = l[k].index /\ c = l[k].count
  BY ListNumbers
<1>3. \A x \in Nat : Covers(l[k], x) <=> a <= x /\ x < a + c
  BY <1>2, ListNumbers
<1> DEFINE S == CountedTo(l, k - 1, i)
           T == a..(a + c - 1)
<1>4. \A j \in 1..k : j \in 1..(k - 1) \/ j = k
  OBVIOUS
<1>5. k \in 1..k /\ \A j \in 1..(k - 1) : j \in 1..k
  OBVIOUS
<1>6. CASE InFront(l[k], i)
  <2>1. CountedTo(l, k, i) = S \cup T
    <3>1. ASSUME NEW x \in Nat
          PROVE  x \in CountedTo(l, k, i) <=> x \in S \/ x \in T
      <4>1. x \in T <=> Covers(l[k], x)
        BY <1>3
      <4> QED BY <1>4, <1>5, <1>6, <4>1 DEF CountedTo
    <3>2. CountedTo(l, k, i) \subseteq Nat /\ S \subseteq Nat /\ T \subseteq Nat
      BY DEF CountedTo
    <3> QED BY <3>1, <3>2
  <2>2. S \cap T = {}
    <3> SUFFICES ASSUME NEW x \in S, x \in T PROVE FALSE
      OBVIOUS
    <3>1. x \in Nat /\ Covers(l[k], x)
      BY <1>3
    <3>2. PICK j \in 1..(k - 1) : Covers(l[j], x)
      BY DEF CountedTo
    <3>3. j \in 1..Len(l) /\ j # k
      BY <1>1
    <3> QED BY <3>1, <3>2, <3>3, Disjoint
  <2>3. IsFiniteSet(S \cup T) /\ Cardinality(S \cup T) = Cardinality(S) + c
    BY <2>2, MoreNumbers
  <2> QED BY <1>2, <1>6, <2>1, <2>3
<1>7. CASE ~InFront(l[k], i)
  <2>1. CountedTo(l, k, i) = S
    BY <1>4, <1>5, <1>7 DEF CountedTo
  <2>2. Cardinality(S) \in Nat
    BY FS_CardinalityType
  <2> QED BY <1>7, <2>1, <2>2
<1> QED BY <1>6, <1>7

\* What Skipped counts.
LEMMA SkippedCounts ==
  ASSUME NEW f, ListOK(f.sparse), NEW i \in Nat
  PROVE  Skipped(f, i) = Cardinality(CountedTo(f.sparse, Len(f.sparse), i))
<1>1. PICK l : l = f.sparse
  OBVIOUS
<1>2. PICK n \in Nat : n = Len(l)
  BY <1>1 DEF ListOK
<1>3. PICK v : v = [k \in 1..n |-> IF l[k].index < i /\ ~Covers(l[k], i) THEN l[k].count ELSE 0]
  OBVIOUS
<1>4. ASSUME NEW k \in 1..n
      PROVE  v[k] = (IF InFront(l[k], i) THEN l[k].count ELSE 0) /\ v[k] \in Int
  <2>1. l[k].count \in Nat
    BY <1>1, <1>2, ListNumbers
  <2> QED BY <1>3, <2>1 DEF InFront
<1>5. v \in Seq(Int) /\ Len(v) = n
  BY <1>3, <1>4
<1>6. PICK sum : Sums(sum, v, n) /\ Total(v) = sum[n]
  BY <1>5, TotalFacts
<1> DEFINE M == { m \in Nat : m <= n => /\ IsFiniteSet(CountedTo(l, m, i))
                                        /\ sum[m] = Cardinality(CountedTo(l, m, i)) }
<1>7. 0 \in M
  <2>1. CountedTo(l, 0, i) = {}
    BY DEF CountedTo
  <2> QED BY <1>6, <2>1, FS_EmptySet DEF Sums
<1>8. ASSUME NEW m \in Nat, m \in M PROVE m + 1 \in M
  <2> SUFFICES ASSUME m + 1 <= n
               PROVE  /\ IsFiniteSet(CountedTo(l, m + 1, i))
                      /\ sum[m + 1] = Cardinality(CountedTo(l, m + 1, i))
    OBVIOUS
  <2>1. PICK k \in 1..Len(l) : k = m + 1 /\ k - 1 = m
    BY <1>2
  <2>2. IsFiniteSet(CountedTo(l, k - 1, i)) /\ sum[m] = Cardinality(CountedTo(l, k - 1, i))
    BY <1>8, <2>1
  <2>3. sum[k] = sum[m] + (IF InFront(l[k], i) THEN l[k].count ELSE 0)
    <3>1. k \in 1..n
      BY <1>2, <2>1
    <3> QED BY <1>4, <1>6, <2>1, <3>1 DEF Sums
  <2>4. /\ IsFiniteSet(CountedTo(l, k, i))
        /\ Cardinality(CountedTo(l, k, i)) =
             Cardinality(CountedTo(l, k - 1, i)) + (IF InFront(l[k], i) THEN l[k].count ELSE 0)
    BY <1>1, <2>2, CountedNext
  <2> QED BY <2>1, <2>2, <2>3, <2>4
<1> HIDE DEF M
<1>9. n \in M
  BY <1>7, <1>8, SetInduction
<1>10. sum[n] = Cardinality(CountedTo(l, n, i))
  BY <1>9 DEF M
<1>11. Skipped(f, i) = Total(v)
  BY <1>1, <1>2, <1>3 DEF Skipped, CountWhere
<1> QED BY <1>1, <1>2, <1>6, <1>10, <1>11

\* If block e is not behind block i, and every region lies in front of e or not in
\* front of i, Skipped counts the holes in front of e.
LEMMA CountedBelow ==
  ASSUME NEW l, ListOK(l), NEW i \in Nat, NEW e \in Nat, e <= i,
         \A k \in 1..Len(l) : IF InFront(l[k], i) THEN RegionEnd(l[k]) <= e ELSE l[k].index >= e
  PROVE  CountedTo(l, Len(l), i) = HolesBelow(l, e)
<1>1. ASSUME NEW x \in Nat, x \in CountedTo(l, Len(l), i) PROVE x \in HolesBelow(l, e)
  <2>1. PICK j \in 1..Len(l) : Covers(l[j], x) /\ InFront(l[j], i)
    BY <1>1 DEF CountedTo
  <2>2. x < RegionEnd(l[j]) /\ RegionEnd(l[j]) \in Nat /\ RegionEnd(l[j]) <= e
    BY <2>1, ListNumbers DEF Covers
  <2>3. x < e
    BY <2>2
  <2> QED BY <2>1, <2>3 DEF HolesBelow, IsSparse
<1>2. ASSUME NEW x \in Nat, x \in HolesBelow(l, e) PROVE x \in CountedTo(l, Len(l), i)
  <2>1. PICK j \in 1..Len(l) : Covers(l[j], x)
    BY <1>2 DEF HolesBelow, IsSparse
  <2>2. l[j].index <= x /\ l[j].index \in Nat /\ x < e
    BY <1>2, <2>1, ListNumbers DEF Covers, HolesBelow
  <2>3. ~(l[j].index >= e)
    BY <2>2
  <2>4. InFront(l[j], i)
    BY <2>3
  <2> QED BY <2>1, <2>4 DEF CountedTo
<1>3. CountedTo(l, Len(l), i) \subseteq Nat /\ HolesBelow(l, e) \subseteq Nat
  BY DEF CountedTo, HolesBelow
<1> QED BY <1>1, <1>2, <1>3

\* The index of a block in the file, less the blocks skipped, is where it is in the
\* run; if the block is in a hole, that is where the hole is.
LEMMA SkippedRank ==
  ASSUME NEW f, NEW l, l = f.sparse, ListOK(l), NEW i \in Nat
  PROVE  /\ ~IsSparse(l, i) => i - Skipped(f, i) = Rank(l, i)
         /\ IsSparse(l, i) =>
              (i - Skipped(f, i)) - (i - l[RegionOf(l, i)].index) = Rank(l, i)
<1>1. Skipped(f, i) = Cardinality(CountedTo(l, Len(l), i))
  BY SkippedCounts
<1>2. CASE ~IsSparse(l, i)
  <2>1. ASSUME NEW k \in 1..Len(l)
        PROVE  IF InFront(l[k], i) THEN RegionEnd(l[k]) <= i ELSE l[k].index >= i
    <3>1. ~Covers(l[k], i)
      BY <1>2 DEF IsSparse
    <3> QED BY <3>1, ListNumbers DEF InFront
  <2>2. CountedTo(l, Len(l), i) = HolesBelow(l, i)
    BY <2>1, CountedBelow
  <2> QED BY <1>1, <1>2, <2>2 DEF Rank
<1>3. CASE IsSparse(l, i)
  <2>1. PICK k : k = RegionOf(l, i)
    OBVIOUS
  <2>2. k \in 1..Len(l) /\ Covers(l[k], i)
    BY <1>3, <2>1, RegionFacts, RegionCovers
  <2>3. PICK e \in Nat : e = l[k].index /\ e <= i /\ i < RegionEnd(l[k])
    BY <2>2, ListNumbers DEF Covers
  <2>4. ASSUME NEW j \in 1..Len(l)
        PROVE  IF InFront(l[j], i) THEN RegionEnd(l[j]) <= e ELSE l[j].index >= e
    <3>1. CASE j = k
      BY <2>2, <2>3, <3>1 DEF InFront
    <3>2. CASE j # k
      <4>1. ~Covers(l[j], i) /\ ~Covers(l[j], e)
        <5>1. Covers(l[k], e)
          BY <2>2, <2>3, ListNumbers DEF Covers
        <5> QED BY <2>2, <3>2, <5>1, Disjoint
      <4>2. PICK a \in Nat, c \in Nat \ {0} : a = l[j].index /\ c = l[j].count /\ RegionEnd(l[j]) = a + c
        BY ListNumbers
      <4>3. \A x \in Nat : Covers(l[j], x) <=> a <= x /\ x < a + c
        BY <4>2, ListNumbers
      <4>4. (i < a \/ i >= a + c) /\ (e < a \/ e >= a + c)
        BY <4>1, <4>3
      <4>5. ~(a <= i /\ a >= e)
        <5> SUFFICES ASSUME a <= i, a >= e PROVE FALSE
          OBVIOUS
        <5>1. Covers(l[k], a)
          BY <2>2, <2>3, ListNumbers DEF Covers
        <5>2. Covers(l[j], a)
          BY <4>3
        <5> QED BY <2>2, <3>2, <5>1, <5>2, Disjoint
      <4> QED BY <2>3, <4>1, <4>2, <4>4, <4>5 DEF InFront
    <3> QED BY <3>1, <3>2
  <2>5. CountedTo(l, Len(l), i) = HolesBelow(l, e)
    BY <2>3, <2>4, CountedBelow
  <2>6. Rank(l, e) = e - Skipped(f, i)
    BY <1>1, <2>5 DEF Rank
  <2>7. ASSUME NEW x \in Nat, e <= x, x < i PROVE IsSparse(l, x)
    <3>1. Covers(l[k], x)
      BY <2>2, <2>3, <2>7, ListNumbers DEF Covers
    <3> QED BY <2>2, <3>1 DEF IsSparse
  <2>8. Rank(l, i) = Rank(l, e)
    BY <2>3, <2>7, RankInRegion
  <2>9. Skipped(f, i) \in Int
    BY SkippedInt
  <2>10. (i - Skipped(f, i)) - (i - e) = e - Skipped(f, i)
    BY <2>9
  <2> QED BY <1>3, <2>1, <2>3, <2>6, <2>8, <2>10
<1> QED BY <1>2, <1>3

-----------------------------------------------------------------------------
(***************************************************************************)
(* What the calls to the volume do to the blocks.                          *)
(***************************************************************************)
BlockType == [InBlk -> Int]
DiskOK(s) == s.disk \in [Disk -> BlockType]

\* The blocks of a volume with other contents.
LEMMA DiskField ==
  ASSUME NEW s, Shape(s), NEW d
  PROVE  [s EXCEPT !.disk = d].disk = d
<1>1. PICK a : a = [s EXCEPT !.disk = d]
  OBVIOUS
<1>2. a = TreeOf(d, s.data_offset, s.gap, s.file)
  BY <1>1, TreeUpdates
<1>3. a.disk = d
  BY <1>2, TreeFields
<1> QED BY <1>1, <1>3

\* The calls that do not touch the volume.
LEMMA DiskSame ==
  ASSUME NEW s, Shape(s), NEW m, NEW n \in Files, NEW l, NEW z, NEW from
  PROVE  /\ Used(s, m).disk = s.disk /\ SetSparse(s, n, l).disk = s.disk
         /\ SetSize(s, n, z).disk = s.disk /\ SetStart(s, n, z).disk = s.disk
         /\ ShiftDown(s, from, m).disk = s.disk
  BY DEF Shape, TreeOf, Used, SetSparse, SetSize, SetStart, ShiftDown

\* Block c of the volume after data was written to it from byte m on.
Patched(c, m, data) ==
  [j \in InBlk |-> IF j >= m /\ j < m + Len(data) THEN data[j - m + 1] ELSE c[j]]

\* write_partial_block.
LEMMA WriteDisk ==
  ASSUME NEW s, Shape(s), DiskOK(s), NEW b, NEW m \in Nat, NEW data \in Seq(Int),
         NEW o, o = WritePartial(s, b, m, data)
  PROVE  /\ DiskOK(o.fs) /\ (o.ok <=> b \in Disk)
         /\ \A x \in Disk : x # b => o.fs.disk[x] = s.disk[x]
         /\ b \in Disk => o.fs.disk[b] = Patched(s.disk[b], m, data)
<1>1. CASE b \notin Disk
  <2>1. o.fs = s /\ ~o.ok
    BY <1>1 DEF WritePartial, Err
  <2> QED BY <1>1, <2>1
<1>2. CASE b \in Disk
  <2>1. PICK e : e = Patched(s.disk[b], m, data)
    OBVIOUS
  <2>2. PICK d : d = [s.disk EXCEPT ![b] = e]
    OBVIOUS
  <2>3. PICK a : a = [s EXCEPT !.disk = d]
    OBVIOUS
  <2>4. o = Ok([s EXCEPT !.disk[b] = e])
    BY <1>2, <2>1 DEF WritePartial, Patched
  <2>5. [s EXCEPT !.disk[b] = e] = a
    BY <2>2, <2>3
  <2>6. o.fs = a /\ o.ok
    BY <2>4, <2>5 DEF Ok
  <2>7. a.disk = d
    BY <2>3, DiskField
  <2>8. s.disk \in [Disk -> BlockType]
    BY DEF DiskOK
  <2>9. e \in BlockType
    <3>1. PICK c \in BlockType : c = s.disk[b]
      BY <1>2, <2>8
    <3>2. ASSUME NEW j \in InBlk PROVE (IF j >= m /\ j < m + Len(data) THEN data[j - m + 1] ELSE c[j]) \in Int
      <4>1. c[j] \in Int
        BY <3>1 DEF BlockType
      <4>2. j \in Nat
        BY FSTreeAssumption DEF InBlk
      <4>3. j >= m /\ j < m + Len(data) => data[j - m + 1] \in Int
        BY <4>2
      <4> QED BY <4>1, <4>3
    <3> QED BY <2>1, <3>1, <3>2 DEF Patched, BlockType
  <2>10. d \in [Disk -> BlockType] /\ d[b] = e /\ \A x \in Disk : x # b => d[x] = s.disk[x]
    BY <1>2, <2>2, <2>8, <2>9
  <2> QED BY <1>2, <2>1, <2>6, <2>7, <2>10 DEF DiskOK
<1> QED BY <1>1, <1>2

\* A block without contents.
LEMMA ZeroBlockType == ZeroBlock \in BlockType /\ \A j \in InBlk : ZeroBlock[j] = 0
  BY DEF ZeroBlock, BlockType

\* discard_blocks.
LEMMA DiscardDisk ==
  ASSUME NEW s, Shape(s), DiskOK(s), NEW b \in Int, NEW n \in Int, NEW t, t = Discard(s, b, n)
  PROVE  /\ DiskOK(t)
         /\ \A x \in Disk : t.disk[x] = IF x >= b /\ x < b + n THEN ZeroBlock ELSE s.disk[x]
<1>1. PICK d : d = [x \in Disk |-> IF x >= b /\ x < b + n THEN ZeroBlock ELSE s.disk[x]]
  OBVIOUS
<1>2. PICK a : a = [s EXCEPT !.disk = d]
  OBVIOUS
<1>3. t = a
  BY <1>1, <1>2 DEF Discard
<1>4. a.disk = d
  BY <1>2, DiskField
<1>5. d \in [Disk -> BlockType]
  BY <1>1, ZeroBlockType DEF DiskOK
<1> QED BY <1>1, <1>3, <1>4, <1>5 DEF DiskOK

\* What a volume_memmove does to the blocks.
Copied(s, o, dst, src, n) ==
  /\ DiskOK(o.fs)
  /\ o.ok => \A x \in Disk : o.fs.disk[x] = IF x >= dst /\ x < dst + n
                                            THEN s.disk[x - dst + src] ELSE s.disk[x]
  /\ \A x \in Disk : x < dst \/ x >= dst + n => o.fs.disk[x] = s.disk[x]

\* volume_memmove: all or nothing if it copies backward, blocks in order if not.
LEMMA MoveDisk ==
  ASSUME NEW s, Shape(s), DiskOK(s), NEW dst \in Nat, NEW src \in Nat, NEW n \in Nat,
         NEW o, o = MemMove(s, dst, src, n)
  PROVE  /\ Copied(s, o, dst, src, n)
         /\ ~o.ok /\ src < dst /\ src + n - 1 >= dst => o.fs.disk = s.disk
<1>1. PICK room \in Int : /\ room = MaxBlocks - Max({dst, src})
                          /\ room <= MaxBlocks - dst /\ room <= MaxBlocks - src
  <2>1. MaxBlocks \in Nat
    BY FSTreeAssumption
  <2>2. CASE dst <= src
    <3>1. Max({dst, src}) = src
      BY <2>2, MaxTwo
    <3>2. MaxBlocks - src \in Int /\ MaxBlocks - src <= MaxBlocks - dst
      BY <2>1, <2>2
    <3> QED BY <3>1, <3>2
  <2>3. CASE src <= dst
    <3>1. Max({dst, src}) = dst
      BY <2>3, MaxTwo
    <3>2. MaxBlocks - dst \in Int /\ MaxBlocks - dst <= MaxBlocks - src
      BY <2>1, <2>3
    <3> QED BY <3>1, <3>2
  <2> QED BY <2>2, <2>3
<1> DEFINE fits == n = 0 \/ dst = src \/ n <= room
           backward == src < dst /\ src + n - 1 >= dst
<1>2. PICK moved : moved = IF fits THEN n ELSE IF backward \/ room < 0 THEN 0 ELSE room
  OBVIOUS
<1>3. moved \in Nat /\ moved <= n
  BY <1>2
<1>4. PICK d : d = [x \in Disk |-> IF x >= dst /\ x < dst + moved THEN s.disk[x - dst + src] ELSE s.disk[x]]
  OBVIOUS
<1>5. PICK a : a = [s EXCEPT !.disk = d]
  OBVIOUS
<1>6. o = IF fits THEN Ok(a) ELSE Err(a)
  BY <1>1, <1>2, <1>4, <1>5 DEF MemMove
<1>7. o.fs = a /\ (o.ok <=> fits)
  BY <1>6 DEF Ok, Err
<1>8. a.disk = d
  BY <1>5, DiskField
<1>9. s.disk \in [Disk -> BlockType]
  BY DEF DiskOK
<1>10. d \in [Disk -> BlockType]
  <2>1. ASSUME NEW x \in Disk, x >= dst, x < dst + moved PROVE x - dst + src \in Disk
    <3>1. x \in Nat /\ x < MaxBlocks /\ MaxBlocks \in Nat
      BY <2>1, FSTreeAssumption DEF Disk
    <3>2. moved = 0 \/ dst = src \/ moved <= room
      BY <1>2
    <3>3. x - dst + src \in Nat /\ x - dst + src < MaxBlocks
      BY <1>1, <1>3, <2>1, <3>1, <3>2
    <3> QED BY <3>1, <3>3 DEF Disk
  <2> QED BY <1>4, <1>9, <2>1
<1>11. DiskOK(o.fs)
  BY <1>7, <1>8, <1>10 DEF DiskOK
<1>12. ASSUME NEW x \in Disk, x < dst \/ x >= dst + n PROVE d[x] = s.disk[x]
  <2>1. x \in Int
    BY <1>12 DEF Disk
  <2>2. ~(x >= dst /\ x < dst + moved)
    BY <1>3, <1>12, <2>1
  <2> QED BY <1>4, <2>2
<1>13. fits => moved = n
  BY <1>2
<1>14. ASSUME ~fits, backward PROVE d = s.disk
  <2>1. moved = 0
    BY <1>2, <1>14
  <2>2. ASSUME NEW x \in Disk PROVE d[x] = s.disk[x]
    <3>1. x \in Int /\ ~(x >= dst /\ x < dst + moved)
      BY <2>1 DEF Disk
    <3> QED BY <1>4, <3>1
  <2> QED BY <1>9, <1>10, <2>2
<1>15. Copied(s, o, dst, src, n)
  BY <1>4, <1>7, <1>8, <1>11, <1>12, <1>13 DEF Copied
<1> QED BY <1>7, <1>8, <1>14, <1>15

-----------------------------------------------------------------------------
\* No two runs have a block in common.
Apart(s) ==
  \A f, g \in Files : f # g /\ Run(s, f) # 0 /\ Run(s, g) # 0 =>
    \/ Start(s, f) + Run(s, f) <= Start(s, g)
    \/ Start(s, g) + Run(s, g) <= Start(s, f)

\* A tree as the calls find it.
Sound(s) == TreeGood(s) /\ Spots(s) /\ Apart(s) /\ Room(s) /\ DiskOK(s)

\* Its numbers.
LEMMA SoundNumbers ==
  ASSUME NEW s, Sound(s), NEW f \in Files
  PROVE  /\ Shape(s) /\ s.data_offset \in Nat /\ Start(s, f) \in Nat /\ Run(s, f) \in Nat
         /\ Run(s, f) # 0 => /\ Start(s, f) + Run(s, f) <= s.data_offset
                             /\ s.data_offset <= MaxBlocks
  BY RunFacts, GoodShape DEF Sound, Spots, Room

\* Block numbers of the volume.
LEMMA OnDisk ==
  ASSUME NEW x
  PROVE  x \in Disk <=> x \in Nat /\ x < MaxBlocks
  BY FSTreeAssumption DEF Disk

\* File f has the contents in t that it has in s, its blocks may have moved.
Carries(s, t, f) ==
  /\ t.file[f].size = s.file[f].size /\ t.file[f].sparse = s.file[f].sparse
  /\ \A k \in Nat : k < Run(s, f) => /\ Start(t, f) + k \in Disk
                                     /\ t.disk[Start(t, f) + k] = s.disk[Start(s, f) + k]

\* There are zeros in the gaps and behind the used area.
Clean(s) == \A b \in Disk : b >= s.data_offset \/ b \in s.gap => s.disk[b] = ZeroBlock

\* A run that is carried has its length.
LEMMA CarriesRun ==
  ASSUME NEW s, TreeGood(s), NEW t, NEW f \in Files, Carries(s, t, f)
  PROVE  Run(t, f) = Run(s, f)
<1>1. FileGood(s.file[f].size, s.file[f].sparse) /\ FileGood(t.file[f].size, t.file[f].sparse)
  BY DEF TreeGood, Carries
<1>2. /\ PhysBlocks(s.file[f]) = BlocksFor(s.file[f].size) - Held(s.file[f].sparse)
      /\ PhysBlocks(t.file[f]) = BlocksFor(t.file[f].size) - Held(t.file[f].sparse)
  BY <1>1, PhysBlocksAre
<1> QED BY <1>2 DEF Run, Carries

\* Two calls.
LEMMA CarriesTwice ==
  ASSUME NEW s, TreeGood(s), NEW a, NEW t, NEW f \in Files, Carries(s, a, f), Carries(a, t, f)
  PROVE  Carries(s, t, f)
<1>1. Run(a, f) = Run(s, f)
  BY CarriesRun
<1> QED BY <1>1 DEF Carries

\* A call that leaves the blocks of the file alone.
LEMMA CarriesThere ==
  ASSUME NEW s, Sound(s), NEW t, NEW f \in Files,
         t.file[f].size = s.file[f].size, t.file[f].sparse = s.file[f].sparse,
         Run(s, f) # 0 => Start(t, f) = Start(s, f),
         \A x \in Disk : x >= Start(s, f) /\ x < Start(s, f) + Run(s, f) => t.disk[x] = s.disk[x]
  PROVE  Carries(s, t, f)
<1>1. PICK st \in Nat, run \in Nat, off \in Nat, top \in Nat :
        /\ st = Start(s, f) /\ run = Run(s, f) /\ off = s.data_offset /\ top = MaxBlocks
        /\ run # 0 => st + run <= off /\ off <= top
  BY SoundNumbers, FSTreeAssumption
<1>2. ASSUME NEW k \in Nat, k < Run(s, f)
      PROVE  Start(t, f) + k \in Disk /\ t.disk[Start(t, f) + k] = s.disk[Start(s, f) + k]
  <2>1. PICK x \in Nat : x = st + k
    OBVIOUS
  <2>2. x < top /\ x >= st /\ x < st + run /\ run # 0
    BY <1>1, <1>2, <2>1
  <2>3. x \in Disk
    BY <1>1, <2>2, OnDisk
  <2> QED BY <1>1, <2>1, <2>2, <2>3
<1> QED BY <1>2 DEF Carries

\* A call that writes behind the used area only.
LEMMA CarriesUsed ==
  ASSUME NEW s, Sound(s), NEW t, SameAccount(t, s),
         \A x \in Disk : x < s.data_offset => t.disk[x] = s.disk[x]
  PROVE  \A f \in Files : Carries(s, t, f)
<1> SUFFICES ASSUME NEW f \in Files PROVE Carries(s, t, f)
  OBVIOUS
<1>1. t.file[f].size = s.file[f].size /\ t.file[f].sparse = s.file[f].sparse /\ Start(t, f) = Start(s, f)
  BY DEF SameAccount, Start
<1>2. PICK st \in Nat, run \in Nat, off \in Nat :
        /\ st = Start(s, f) /\ run = Run(s, f) /\ off = s.data_offset
        /\ run # 0 => st + run <= off
  BY SoundNumbers
<1>3. ASSUME NEW x \in Disk, x >= st, x < st + run PROVE t.disk[x] = s.disk[x]
  <2>1. x \in Nat /\ x < off
    BY <1>2, <1>3, OnDisk
  <2> QED BY <1>2, <2>1
<1> QED BY <1>1, <1>2, <1>3, CarriesThere

\* File n is the last one in the used area.
RunLast(a, n) ==
  /\ Start(a, n) + Run(a, n) = a.data_offset
  /\ \A g \in Files : g # n /\ Run(a, g) # 0 => Start(a, g) + Run(a, g) <= Start(a, n)
  /\ \A b \in a.gap : b < Start(a, n)

\* That is what a move to the end makes it.
LEMMA MovedLast ==
  ASSUME NEW s, Sound(s), NEW n \in Files, NEW a, Moved(s, a, n)
  PROVE  RunLast(a, n)
<1>1. PICK st \in Nat, run \in Nat, off \in Nat :
        /\ st = Start(s, n) /\ run = Run(s, n) /\ off = s.data_offset
        /\ run # 0 => st + run <= off
  BY SoundNumbers
<1>2. TreeGood(s) /\ SameLists(a, s) /\ a.data_offset = off /\ a.gap = NewGap(s, n)
      /\ \A g \in Files : Start(a, g) = NewStart(s, n, g)
  BY <1>1 DEF Sound, Moved
<1>3. \A g \in Files : Run(a, g) = Run(s, g)
  BY <1>2, RunSame
<1>4. Start(a, n) + Run(a, n) = a.data_offset
  BY <1>1, <1>2, <1>3 DEF NewStart, AtLast
<1>5. Start(a, n) = off - run
  BY <1>1, <1>2, <1>3 DEF NewStart, AtLast
<1>6. ASSUME NEW g \in Files, g # n, Run(a, g) # 0
      PROVE  Start(a, g) + Run(a, g) <= Start(a, n)
  <2>1. PICK sg \in Nat, rg \in Nat : /\ sg = Start(s, g) /\ rg = Run(s, g) /\ rg # 0
                                      /\ sg + rg <= off
    BY <1>1, <1>3, <1>6, SoundNumbers
  <2>2. run # 0 => st + run <= sg \/ sg + rg <= st
    BY <1>1, <1>6, <2>1 DEF Sound, Apart
  <2>3. NewStart(s, n, g) = IF run = 0 THEN sg ELSE IF run >= off - st THEN sg
                            ELSE IF sg >= st THEN sg - run ELSE sg
    BY <1>1, <1>6, <2>1 DEF NewStart, AtLast
  <2>4. Start(a, g) + rg <= off - run
    BY <1>1, <1>2, <2>1, <2>2, <2>3
  <2> QED BY <1>3, <1>5, <2>1, <2>4
<1>7. ASSUME NEW b \in a.gap PROVE b < Start(a, n)
  <2>1. \A x \in s.gap : x \in Nat /\ x < off /\ (x < st \/ x >= st + run)
    BY <1>1 DEF Sound, Spots
  <2>2. CASE run = 0 \/ run >= off - st
    <3>1. b \in s.gap
      BY <1>1, <1>2, <1>7, <2>2 DEF NewGap, AtLast
    <3> QED BY <1>1, <1>5, <2>1, <2>2, <3>1
  <2>3. CASE ~(run = 0 \/ run >= off - st)
    <3>1. b \in Down(s, st, run)
      BY <1>1, <1>2, <1>7, <2>3 DEF NewGap, AtLast
    <3>2. b \in Nat /\ (b < st \/ b + run \in s.gap)
      BY <1>1, <3>1 DEF Down
    <3> QED BY <1>1, <1>5, <2>1, <2>3, <3>2
  <2> QED BY <2>2, <2>3
<1> QED BY <1>4, <1>6, <1>7 DEF RunLast

\* volume_memmove does that to the blocks of the volume.
LEMMA MoveCopies ==
  ASSUME NEW s, Shape(s), DiskOK(s), NEW dst \in Nat, NEW src \in Nat, NEW n \in Nat,
         NEW o, o = MemMove(s, dst, src, n)
  PROVE  Copied(s, o, dst, src, n)
BY MoveDisk

\* The blocks of the volume after a run of blk blocks at src went behind the others,
\* which end at end.
Rotated(s, t, src, blk, end) ==
  \A x \in Disk :
    /\ x < src => t.disk[x] = s.disk[x]
    /\ x >= src /\ x < end - blk => t.disk[x] = s.disk[x + blk]
    /\ x >= end - blk /\ x < end => t.disk[x] = s.disk[x - end + blk + src]
    /\ x >= end /\ x < end + blk => t.disk[x] = ZeroBlock
    /\ x >= end + blk => t.disk[x] = s.disk[x]

\* The steps of fstree_file_move_to_end: a copy behind the used area, the others down,
\* and the copy in their place.  Only the first can fail.
LEMMA Rotates ==
  ASSUME NEW s, Shape(s), DiskOK(s), NEW src \in Nat, NEW blk \in Nat, NEW end \in Nat, src + blk < end,
         blk # 0, NEW a, a = MemMove(s, end, src, blk),
         NEW b, b = MemMove(a.fs, src, src + blk, end - src),
         NEW c, c = Discard(b.fs, end, blk)
  PROVE  /\ a.ok => b.ok /\ DiskOK(c) /\ Rotated(s, c, src, blk, end)
         /\ DiskOK(a.fs) /\ \A x \in Disk : x < end => a.fs.disk[x] = s.disk[x]
<1>1. PICK top \in Nat : top = MaxBlocks
  BY FSTreeAssumption
<1>2. SameAccount(a.fs, s) /\ Shape(a.fs)
  BY MemMoveAccount, AccountShape
<1>3. /\ DiskOK(a.fs)
      /\ a.ok => \A x \in Disk : a.fs.disk[x] = IF x >= end /\ x < end + blk
                                                THEN s.disk[x - end + src] ELSE s.disk[x]
      /\ \A x \in Disk : x < end \/ x >= end + blk => a.fs.disk[x] = s.disk[x]
  <2>1. Copied(s, a, end, src, blk)
    BY MoveCopies
  <2> QED BY <2>1 DEF Copied
<1>4. ASSUME a.ok PROVE b.ok /\ DiskOK(c) /\ Rotated(s, c, src, blk, end)
  <2>1. end + blk <= top
    <3>1. Max({end, src}) = end
      BY MaxTwo
    <3>2. blk <= MaxBlocks - end
      BY <1>4, <3>1, MemMoveAccount
    <3> QED BY <1>1, <3>2
  <2>2. PICK len \in Nat : len = end - src
    OBVIOUS
  <2>3. b.ok
    <3>1. Max({src, src + blk}) = src + blk
      BY MaxTwo
    <3>2. len <= MaxBlocks - (src + blk)
      BY <1>1, <2>1, <2>2
    <3> QED BY <1>2, <2>2, <3>1, <3>2, MemMoveAccount
  <2>4. PICK hi \in Nat : hi = src + blk
    OBVIOUS
  <2>5. /\ DiskOK(b.fs)
        /\ \A x \in Disk : b.fs.disk[x] = IF x >= src /\ x < src + len
                                          THEN a.fs.disk[x - src + hi] ELSE a.fs.disk[x]
    <3>1. PICK A : A = a.fs
      OBVIOUS
    <3>2. b = MemMove(A, src, hi, len) /\ Shape(A) /\ DiskOK(A)
      BY <1>2, <1>3, <2>2, <2>4, <3>1
    <3>3. Copied(A, b, src, hi, len)
      BY <3>2, MoveCopies
    <3> QED BY <2>3, <3>1, <3>3 DEF Copied
  <2>6. Shape(b.fs)
    BY <1>2, MemMoveAccount, AccountShape
  <2>7. /\ DiskOK(c)
        /\ \A x \in Disk : c.disk[x] = IF x >= end /\ x < end + blk THEN ZeroBlock ELSE b.fs.disk[x]
    BY <2>5, <2>6, DiscardDisk
  <2>8. ASSUME NEW x \in Disk
        PROVE  /\ x < src => c.disk[x] = s.disk[x]
               /\ x >= src /\ x < end - blk => c.disk[x] = s.disk[x + blk]
               /\ x >= end - blk /\ x < end => c.disk[x] = s.disk[x - end + blk + src]
               /\ x >= end /\ x < end + blk => c.disk[x] = ZeroBlock
               /\ x >= end + blk => c.disk[x] = s.disk[x]
    <3>1. x \in Nat /\ x < top
      BY <1>1, OnDisk
    <3>2. /\ b.fs.disk[x] = IF x >= src /\ x < src + len THEN a.fs.disk[x - src + hi] ELSE a.fs.disk[x]
          /\ c.disk[x] = IF x >= end /\ x < end + blk THEN ZeroBlock ELSE b.fs.disk[x]
      BY <2>5, <2>7
    <3>3. CASE x < src
      BY <1>3, <3>1, <3>2, <3>3
    <3>4. CASE x >= src /\ x < end
      <4>1. PICK y \in Nat : y = x + blk /\ y = x - src + hi
        BY <2>4, <3>1
      <4>2. y \in Disk
        BY <1>1, <2>1, <3>4, <4>1, OnDisk
      <4>3. x < src + len /\ ~(x >= end /\ x < end + blk)
        BY <2>2, <3>1, <3>4
      <4>4. c.disk[x] = a.fs.disk[y]
        BY <3>2, <3>4, <4>1, <4>3
      <4>5. a.fs.disk[y] = IF y >= end /\ y < end + blk THEN s.disk[y - end + src] ELSE s.disk[y]
        BY <1>3, <1>4, <4>2
      <4>6. CASE x < end - blk
        BY <3>1, <3>4, <4>1, <4>4, <4>5, <4>6
      <4>7. CASE x >= end - blk
        <5>1. y >= end /\ y < end + blk /\ y - end + src = x - end + blk + src
          BY <3>1, <3>4, <4>1, <4>7
        <5>2. c.disk[x] = s.disk[x - end + blk + src]
          BY <4>4, <4>5, <5>1
        <5> QED BY <3>1, <3>4, <4>7, <5>2
      <4> QED BY <3>1, <4>6, <4>7
    <3>5. CASE x >= end
      <4>1. ~(x < src + len)
        BY <2>2, <3>1, <3>5
      <4>2. x >= end + blk => c.disk[x] = s.disk[x]
        BY <1>3, <3>1, <3>2, <3>5, <4>1
      <4> QED BY <3>1, <3>2, <3>5, <4>1, <4>2
    <3> QED BY <3>1, <3>3, <3>4, <3>5
  <2> QED BY <2>3, <2>7, <2>8 DEF Rotated
<1>5. ASSUME NEW x \in Disk, x < end PROVE a.fs.disk[x] = s.disk[x]
  BY <1>3, <1>5
<1> QED BY <1>3, <1>4, <1>5

\* Turned around like that, every file has its contents.
LEMMA RotatedCarries ==
  ASSUME NEW s, Sound(s), NEW n \in Files, NEW t, Moved(s, t, n),
         Run(s, n) # 0, ~AtLast(s, n), Rotated(s, t, Start(s, n), Run(s, n), s.data_offset)
  PROVE  /\ \A f \in Files : Carries(s, t, f)
         /\ Clean(s) => Clean(t)
<1>1. PICK src \in Nat, blk \in Nat, end \in Nat, top \in Nat :
        /\ src = Start(s, n) /\ blk = Run(s, n) /\ end = s.data_offset /\ top = MaxBlocks
        /\ blk # 0 /\ src + blk <= end /\ end <= top /\ ~(blk >= end - src)
  BY SoundNumbers, FSTreeAssumption DEF AtLast
<1>2. Rotated(s, t, src, blk, end)
  BY <1>1
<1>3. /\ t.data_offset = end /\ t.gap = Down(s, src, blk)
      /\ \A g \in Files : Start(t, g) = NewStart(s, n, g)
      /\ \A g \in Files : t.file[g].size = s.file[g].size /\ t.file[g].sparse = s.file[g].sparse
  BY <1>1 DEF Moved, NewGap, AtLast, SameLists
<1>4. ASSUME NEW f \in Files, NEW k \in Nat, k < Run(s, f)
      PROVE  Start(t, f) + k \in Disk /\ t.disk[Start(t, f) + k] = s.disk[Start(s, f) + k]
  <2>1. PICK st \in Nat, run \in Nat : /\ st = Start(s, f) /\ run = Run(s, f) /\ k < run
                                       /\ st + run <= end
    BY <1>1, <1>4, SoundNumbers
  <2>2. f # n => src + blk <= st \/ st + run <= src
    BY <1>1, <1>4, <2>1 DEF Sound, Apart
  <2>3. Start(t, f) = IF f = n THEN end - blk ELSE IF st >= src THEN st - blk ELSE st
    BY <1>1, <1>3, <1>4, <2>1 DEF NewStart, AtLast
  <2>4. CASE f = n
    <3>1. PICK x \in Nat : x = end - blk + k
      BY <1>1
    <3>2. x \in Disk /\ x >= end - blk /\ x < end /\ x - end + blk + src = src + k
      BY <1>1, <2>1, <2>4, <3>1, OnDisk
    <3>3. t.disk[x] = s.disk[x - end + blk + src]
      BY <1>2, <3>2 DEF Rotated
    <3> QED BY <1>1, <2>1, <2>3, <2>4, <3>1, <3>2, <3>3
  <2>5. CASE f # n /\ st >= src
    <3>1. src + blk <= st
      BY <1>1, <2>1, <2>2, <2>5
    <3>2. PICK x \in Nat : x = st - blk + k
      BY <1>1, <3>1
    <3>3. x \in Disk /\ x >= src /\ x < end - blk /\ x + blk = st + k
      BY <1>1, <2>1, <3>1, <3>2, OnDisk
    <3>4. t.disk[x] = s.disk[x + blk]
      BY <1>2, <3>3 DEF Rotated
    <3> QED BY <2>1, <2>3, <2>5, <3>2, <3>3, <3>4
  <2>6. CASE f # n /\ ~(st >= src)
    <3>1. PICK x \in Nat : x = st + k
      OBVIOUS
    <3>2. x \in Disk /\ x < src
      BY <1>1, <2>1, <2>2, <2>6, <3>1, OnDisk
    <3>3. t.disk[x] = s.disk[x]
      BY <1>2, <3>2 DEF Rotated
    <3> QED BY <2>1, <2>3, <2>6, <3>1, <3>2, <3>3
  <2> QED BY <2>4, <2>5, <2>6
<1>5. ASSUME Clean(s), NEW b \in Disk, b >= t.data_offset \/ b \in t.gap PROVE t.disk[b] = ZeroBlock
  <2>1. b \in Nat /\ b < top
    BY <1>1, <1>5, OnDisk
  <2>2. CASE b >= end
    <3>1. b >= end + blk => s.disk[b] = ZeroBlock
      BY <1>1, <1>5, <2>2 DEF Clean
    <3>2. /\ b >= end /\ b < end + blk => t.disk[b] = ZeroBlock
          /\ b >= end + blk => t.disk[b] = s.disk[b]
      BY <1>2, <1>5 DEF Rotated
    <3> QED BY <1>1, <2>1, <2>2, <3>1, <3>2
  <2>3. CASE ~(b >= end)
    <3>1. \/ b < src /\ b \in s.gap
          \/ b + blk >= src /\ b + blk \in s.gap
      BY <1>3, <1>5, <2>3 DEF Down
    <3>2. \A x \in s.gap : x \in Nat /\ x < end /\ (x < src \/ x >= src + blk)
      BY <1>1 DEF Sound, Spots
    <3>3. CASE b < src /\ b \in s.gap
      <4>1. s.disk[b] = ZeroBlock
        BY <1>5, <3>3 DEF Clean
      <4>2. t.disk[b] = s.disk[b]
        BY <1>2, <1>5, <3>3 DEF Rotated
      <4> QED BY <4>1, <4>2
    <3>4. CASE b + blk >= src /\ b + blk \in s.gap
      <4>1. PICK y \in Nat : y = b + blk /\ y \in s.gap
        BY <2>1, <3>4
      <4>2. y < end /\ y >= src + blk
        BY <3>2, <3>4, <4>1
      <4>3. b >= src /\ b < end - blk /\ y \in Disk
        BY <1>1, <2>1, <4>1, <4>2, OnDisk
      <4>4. s.disk[y] = ZeroBlock
        BY <1>5, <4>1, <4>3 DEF Clean
      <4>5. t.disk[b] = s.disk[b + blk]
        BY <1>2, <1>5, <4>3 DEF Rotated
      <4> QED BY <4>1, <4>4, <4>5
    <3> QED BY <3>1, <3>3, <3>4
  <2> QED BY <1>3, <2>2, <2>3
<1> QED BY <1>3, <1>4, <1>5 DEF Carries, Clean

\* fstree_file_move_to_end: all files have their contents, also if it fails.
LEMMA MoveCarries ==
  ASSUME NEW s, Sound(s), NEW n \in Files, NEW o, o = MoveToEnd(s, n)
  PROVE  /\ DiskOK(o.fs) /\ \A f \in Files : Carries(s, o.fs, f)
         /\ o.ok => Moved(s, o.fs, n) /\ RunLast(o.fs, n) /\ (Clean(s) => Clean(o.fs))
<1>1. TreeGood(s) /\ Spots(s) /\ DiskOK(s) /\ Shape(s)
  BY GoodShape DEF Sound
<1>2. PICK blk \in Nat, src \in Nat, end \in Nat :
        /\ blk = Run(s, n) /\ src = Start(s, n) /\ end = s.data_offset
        /\ blk # 0 => src + blk <= end
  BY SoundNumbers
<1>3. IF o.ok THEN Moved(s, o.fs, n) ELSE SameAccount(o.fs, s)
  BY <1>1, MoveToEndMoves
<1>4. o.ok => RunLast(o.fs, n)
  BY <1>3, MovedLast
<1>5. PICK a : a = MemMove(s, end, src, blk)
  OBVIOUS
<1>6. PICK b : b = MemMove(a.fs, src, src + blk, end - src)
  OBVIOUS
<1>7. PICK c : c = Discard(b.fs, end, blk)
  OBVIOUS
<1>8. PICK d : d = SetStart(c, n, end)
  OBVIOUS
<1>9. PICK e : e = ShiftDown(d, src, blk)
  OBVIOUS
<1>10. PICK z : z = SetStart(s, n, end)
  OBVIOUS
<1>11. o = IF blk = 0 THEN Ok(z)
           ELSE IF blk >= end - src THEN Ok(s)
           ELSE IF a.ok THEN (IF b.ok THEN Ok(e) ELSE b) ELSE a
  BY <1>2, <1>5, <1>6, <1>7, <1>8, <1>9, <1>10 DEF MoveToEnd, Then, Run, Start, SetStart
<1>12. Ok(z).ok /\ Ok(z).fs = z /\ Ok(s).ok /\ Ok(s).fs = s /\ Ok(e).ok /\ Ok(e).fs = e
  BY DEF Ok
<1>13. CASE blk = 0
  <2>1. o.ok /\ o.fs = z /\ z.disk = s.disk
    BY <1>1, <1>10, <1>11, <1>12, <1>13, DiskSame
  <2>2. /\ z.data_offset = s.data_offset /\ z.gap = s.gap
        /\ \A f \in Files : Start(z, f) = IF f = n THEN end ELSE Start(s, f)
        /\ \A f \in Files : z.file[f].size = s.file[f].size /\ z.file[f].sparse = s.file[f].sparse
    BY <1>1, <1>10, StartFields DEF SameLists
  <2>3. ASSUME NEW f \in Files PROVE Carries(s, z, f)
    BY <1>2, <1>13, <2>1, <2>2, CarriesThere
  <2>4. DiskOK(z) /\ (Clean(s) => Clean(z))
    BY <1>1, <2>1, <2>2 DEF DiskOK, Clean
  <2> QED BY <1>3, <1>4, <2>1, <2>3, <2>4
<1>14. CASE blk # 0 /\ blk >= end - src
  <2>1. o.ok /\ o.fs = s
    BY <1>11, <1>12, <1>14
  <2>2. ASSUME NEW f \in Files PROVE Carries(s, s, f)
    BY CarriesThere
  <2> QED BY <1>1, <1>3, <1>4, <2>1, <2>2
<1>15. CASE blk # 0 /\ ~(blk >= end - src)
  <2>1. src + blk < end /\ ~AtLast(s, n)
    BY <1>2, <1>15 DEF AtLast
  <2>2. /\ a.ok => b.ok /\ DiskOK(c) /\ Rotated(s, c, src, blk, end)
        /\ DiskOK(a.fs) /\ \A x \in Disk : x < end => a.fs.disk[x] = s.disk[x]
    BY <1>1, <1>5, <1>6, <1>7, <1>15, <2>1, Rotates
  <2>3. CASE a.ok
    <3>1. o.ok /\ o.fs = e
      BY <1>11, <1>12, <1>15, <2>2, <2>3
    <3>2. Shape(c)
      <4>1. Shape(a.fs)
        BY <1>1, <1>5, MemMoveAccount, AccountShape
      <4>2. Shape(b.fs)
        BY <1>6, <4>1, MemMoveAccount, AccountShape
      <4> QED BY <1>7, <4>2, DiscardAccount, AccountShape
    <3>3. d.disk = c.disk /\ Shape(d)
      BY <1>8, <3>2, DiskSame, StartFields, SameShape
    <3>4. e.disk = c.disk
      BY <1>9, <3>3, DiskSame
    <3>5. DiskOK(e) /\ Rotated(s, e, src, blk, end)
      BY <2>2, <2>3, <3>4 DEF DiskOK, Rotated
    <3>6. Moved(s, e, n)
      BY <1>3, <3>1
    <3>7. (\A f \in Files : Carries(s, e, f)) /\ (Clean(s) => Clean(e))
      BY <1>2, <1>15, <2>1, <3>5, <3>6, RotatedCarries
    <3> QED BY <1>4, <3>1, <3>5, <3>6, <3>7
  <2>4. CASE ~a.ok
    <3>1. o = a
      BY <1>11, <1>15, <2>4
    <3>2. SameAccount(a.fs, s)
      BY <1>1, <1>5, MemMoveAccount
    <3>3. \A f \in Files : Carries(s, a.fs, f)
      BY <1>2, <2>2, <3>2, CarriesUsed
    <3> QED BY <2>2, <2>4, <3>1, <3>3
  <2> QED BY <2>3, <2>4
<1> QED BY <1>13, <1>14, <1>15
=============================================================================
