---------------------------- MODULE MbrDiskProofs ----------------------------
(***************************************************************************)
(* The partition table, for any number of partitions, any alignment and    *)
(* any disk: it stays packed whatever is grown, cut down or expanded, the  *)
(* block count a partition promises to its filesystem can be written, and  *)
(* a call on one partition does not change what the others hold.           *)
(***************************************************************************)
EXTENDS MbrDisk, TLAPS, SequenceTheorems, DataLemmas

\* A multiple of the alignment.
Aligned(n) == n % Align = 0

PartRec == [index : Nat, count : Nat, min : Nat, used : Nat, grow : BOOLEAN, fill : BOOLEAN]
MbrType == [part : Seq(PartRec), disk : [Disk -> Nat]]

\* Each partition starts where the one in front of it ends.
Chained(P) ==
  \A k \in 1..Len(P) : P[k].index = IF k = 1 THEN Align ELSE End(P[k - 1])

\* Sizes are whole multiples of the alignment, and not below the minimum.
Sized(P) ==
  \A k \in 1..Len(P) :
    Aligned(P[k].count) /\ Aligned(P[k].min) /\ Align <= P[k].min /\ P[k].min <= P[k].count

OneFill(P) == \A j, k \in 1..Len(P) : P[j].fill /\ P[k].fill => j = k

Table(d) == d \in MbrType /\ Chained(d.part) /\ Sized(d.part) /\ OneFill(d.part)

UsedOK(P) == \A k \in 1..Len(P) : P[k].used <= P[k].count

\* The inductive invariant, of the table at a time.
Good(d) == Table(d) /\ UsedOK(d.part)

\* The table e is d with n more sectors in partition k.
Resized(e, d, k, n) ==
  /\ e \in MbrType
  /\ Len(e.part) = Len(d.part)
  /\ e.part[k] = Longer(d.part[k], n)
  /\ \A j \in 1..Len(d.part) :
       /\ j < k => e.part[j] = d.part[j]
       /\ j > k => e.part[j] = Shifted(d.part[j], n)

-----------------------------------------------------------------------------
\* Sums and differences of aligned numbers are aligned, and what lies below an
\* aligned number is at least the alignment below it.
LEMMA AlignedSum ==
  ASSUME NEW a \in Int, NEW b \in Int, Aligned(a), Aligned(b)
  PROVE  /\ Aligned(a + b) /\ Aligned(a - b) /\ Aligned(Align) /\ Aligned(0) /\ Aligned(-a)
         /\ a < b => a + Align <= b
<1> USE MbrAssumption
<1>1. PICK q \in Int : a = q * Align
  BY DEF Aligned
<1>2. PICK r \in Int : b = r * Align
  BY DEF Aligned
<1>3. a + b = (q + r) * Align /\ a - b = (q - r) * Align /\ -a = (-q) * Align
  BY <1>1, <1>2
<1>4. \A n \in Int : (n * Align) % Align = 0
  OBVIOUS
<1>5. Aligned(a + b) /\ Aligned(a - b) /\ Aligned(-a)
  BY <1>3, <1>4 DEF Aligned
<1>6. Aligned(Align) /\ Aligned(0)
  BY DEF Aligned
<1>7. a < b => a + Align <= b
  <2> HAVE a < b
  <2>1. q < r
    BY <1>1, <1>2
  <2>2. (q + 1) * Align <= r * Align /\ (q + 1) * Align = q * Align + Align
    BY <2>1
  <2> QED BY <1>1, <1>2, <2>2
<1> QED BY <1>5, <1>6, <1>7

\* Rounding up.
LEMMA AlignUpFacts ==
  ASSUME NEW n \in Nat
  PROVE  /\ AlignUp(n) \in Nat /\ Aligned(AlignUp(n)) /\ n <= AlignUp(n)
         /\ Aligned(n) => AlignUp(n) = n
         /\ n > 0 => AlignUp(n) >= Align
         /\ \A m \in Int : Aligned(m) /\ n <= m => AlignUp(n) <= m
<1> USE MbrAssumption
<1> DEFINE q == (n + Align - 1) \div Align
<1>1. q \in Int /\ q * Align <= n + Align - 1 /\ n + Align - 1 < q * Align + Align
  OBVIOUS
<1>2. AlignUp(n) = q * Align
  BY DEF AlignUp
<1> HIDE DEF q
<1>3. AlignUp(n) \in Int /\ n <= AlignUp(n) /\ AlignUp(n) < n + Align
  BY <1>1, <1>2
<1>4. Aligned(AlignUp(n))
  BY <1>1, <1>2 DEF Aligned
<1>5. \A m \in Int : Aligned(m) /\ n <= m => AlignUp(n) <= m
  <2> SUFFICES ASSUME NEW m \in Int, Aligned(m), n <= m, m < AlignUp(n) PROVE FALSE
    BY <1>3
  <2>1. m + Align <= AlignUp(n)
    BY <1>3, <1>4, AlignedSum
  <2> QED BY <1>3, <2>1
<1>6. n > 0 => AlignUp(n) >= Align
  <2> HAVE n > 0
  <2>1. 0 < AlignUp(n) /\ Aligned(0)
    BY <1>3, <1>4, AlignedSum
  <2>2. 0 + Align <= AlignUp(n)
    BY <1>3, <1>4, <2>1, AlignedSum
  <2> QED BY <2>2
<1>7. Aligned(n) => AlignUp(n) = n
  <2> HAVE Aligned(n)
  <2>1. AlignUp(n) <= n
    BY <1>5
  <2> QED BY <1>3, <2>1
<1> QED BY <1>3, <1>4, <1>5, <1>6, <1>7

\* Rounding down.
LEMMA AlignDownFacts ==
  ASSUME NEW n \in Nat
  PROVE  /\ AlignDown(n) \in Nat /\ Aligned(AlignDown(n)) /\ AlignDown(n) <= n
         /\ Aligned(n) => AlignDown(n) = n
<1> USE MbrAssumption
<1> DEFINE q == n \div Align
<1>1. q \in Nat /\ q * Align <= n /\ n < q * Align + Align
  OBVIOUS
<1>2. AlignDown(n) = q * Align
  BY DEF AlignDown
<1> HIDE DEF q
<1>3. AlignDown(n) \in Nat /\ AlignDown(n) <= n /\ n < AlignDown(n) + Align
  BY <1>1, <1>2
<1>4. Aligned(AlignDown(n))
  BY <1>1, <1>2 DEF Aligned
<1>5. Aligned(n) => AlignDown(n) = n
  <2> HAVE Aligned(n)
  <2>1. AlignDown(n) < n => AlignDown(n) + Align <= n
    BY <1>3, <1>4, AlignedSum
  <2> QED BY <1>3, <2>1
<1> QED BY <1>3, <1>4, <1>5

-----------------------------------------------------------------------------
\* A table entry is made of natural numbers and flags.
LEMMA PartTypes ==
  ASSUME NEW d \in MbrType, NEW k \in 1..Len(d.part)
  PROVE  /\ d.part \in Seq(PartRec) /\ d.disk \in [Disk -> Nat] /\ Len(d.part) \in Nat
         /\ DOMAIN d.part = 1..Len(d.part)
         /\ d.part[k] \in PartRec
         /\ d.part[k].index \in Nat /\ d.part[k].count \in Nat
         /\ d.part[k].min \in Nat /\ d.part[k].used \in Nat
         /\ End(d.part[k]) \in Nat
<1>1. d.part \in Seq(PartRec) /\ d.disk \in [Disk -> Nat]
  BY DEF MbrType
<1>2. d.part[k] \in PartRec /\ Len(d.part) \in Nat /\ DOMAIN d.part = 1..Len(d.part)
  BY <1>1
<1>3. /\ d.part[k].index \in Nat /\ d.part[k].count \in Nat
      /\ d.part[k].min \in Nat /\ d.part[k].used \in Nat
  BY <1>2 DEF PartRec
<1>4. End(d.part[k]) \in Nat
  BY <1>3 DEF End
<1> QED BY <1>1, <1>2, <1>3, <1>4

\* A partition ends before every later one starts, and none starts below Align.
LEMMA Order ==
  ASSUME NEW d, Table(d)
  PROVE  \A j \in 1..Len(d.part) :
           /\ d.part[j].index >= Align
           /\ \A i \in 1..(j - 1) : End(d.part[i]) <= d.part[j].index
<1> USE MbrAssumption
<1> DEFINE Below(j) == /\ d.part[j].index >= Align
                       /\ \A i \in 1..(j - 1) : End(d.part[i]) <= d.part[j].index
           S == { j \in Nat : j \in 1..Len(d.part) => Below(j) }
<1>0. d \in MbrType /\ Chained(d.part)
  BY DEF Table
<1>1. 0 \in S
  OBVIOUS
<1>2. ASSUME NEW j \in Nat, j \in S PROVE j + 1 \in S
  <2> SUFFICES ASSUME j + 1 \in 1..Len(d.part) PROVE Below(j + 1)
    OBVIOUS
  <2>1. Len(d.part) \in Nat
    BY <1>0, PartTypes
  <2>2. d.part[j + 1].index \in Nat
    BY <1>0, PartTypes
  <2>3. CASE j = 0
    <3>1. d.part[1].index = Align
      BY <1>0, <2>1, <2>3 DEF Chained
    <3> QED BY <2>3, <3>1
  <2>4. CASE j > 0
    <3>1. j \in 1..Len(d.part) /\ Below(j)
      BY <1>2, <2>1, <2>4
    <3>2. d.part[j + 1].index = End(d.part[j])
      BY <1>0, <2>1, <2>4 DEF Chained
    <3>3. d.part[j].index \in Nat /\ d.part[j].count \in Nat
      BY <1>0, <3>1, PartTypes
    <3>4. End(d.part[j]) >= d.part[j].index
      BY <3>3 DEF End
    <3>5. ASSUME NEW i \in 1..((j + 1) - 1) PROVE End(d.part[i]) <= d.part[j + 1].index
      <4>1. CASE i = j
        BY <4>1, <3>2, <3>3 DEF End
      <4>2. CASE i < j
        <5>1. i \in 1..(j - 1)
          BY <4>2
        <5>2. End(d.part[i]) <= d.part[j].index
          BY <3>1, <5>1
        <5>3. End(d.part[i]) \in Nat
          BY <1>0, <2>1, <3>1, <5>1, PartTypes
        <5> QED BY <3>2, <3>3, <3>4, <5>2, <5>3 DEF End
      <4> QED BY <4>1, <4>2
    <3>6. d.part[j + 1].index >= Align
      BY <3>1, <3>2, <3>3, <3>4 DEF End
    <3> QED BY <3>5, <3>6
  <2> QED BY <2>3, <2>4
<1> HIDE DEF S
<1>3. \A j \in Nat : j \in S
  BY <1>1, <1>2, SetInduction
<1>4. Len(d.part) \in Nat
  BY <1>0 DEF MbrType
<1> USE DEF S
<1> QED BY <1>3, <1>4

\* So "starts behind" is "was created later".
LEMMA BehindIsLater ==
  ASSUME NEW d, Table(d), NEW j \in 1..Len(d.part), NEW k \in 1..Len(d.part)
  PROVE  (d.part[j].index > d.part[k].index) <=> (j > k)
<1> USE MbrAssumption
<1>0. d \in MbrType /\ Sized(d.part)
  BY DEF Table
<1>1. ASSUME NEW a \in 1..Len(d.part), NEW b \in 1..Len(d.part), a < b
      PROVE  d.part[a].index < d.part[b].index
  <2>1. End(d.part[a]) <= d.part[b].index
    BY <1>1, Order
  <2>2. /\ d.part[a].index \in Nat /\ d.part[a].count \in Nat /\ d.part[a].min \in Nat
        /\ d.part[b].index \in Nat
    BY <1>0, PartTypes
  <2>3. d.part[a].count >= Align
    BY <1>0, <2>2 DEF Sized
  <2> QED BY <2>1, <2>2, <2>3 DEF End
<1>2. d.part[j].index \in Nat /\ d.part[k].index \in Nat
  BY <1>0, PartTypes
<1>3. j > k \/ j = k \/ j < k
  OBVIOUS
<1> QED BY <1>1, <1>2, <1>3

\* The end of the last partition is the end of the table.
LEMMA LastEndFacts ==
  ASSUME NEW d, Table(d)
  PROVE  /\ LastEnd(d) \in Nat
         /\ Len(d.part) = 0 => LastEnd(d) = Align
         /\ Len(d.part) # 0 => LastEnd(d) = End(d.part[Len(d.part)])
         /\ \A j \in 1..Len(d.part) : End(d.part[j]) <= LastEnd(d)
<1> USE MbrAssumption
<1>0. d \in MbrType
  BY DEF Table
<1> DEFINE E == {Align} \cup { End(d.part[k]) : k \in DOMAIN d.part }
           z == IF Len(d.part) = 0 THEN Align ELSE End(d.part[Len(d.part)])
<1>1. Len(d.part) \in Nat /\ DOMAIN d.part = 1..Len(d.part)
  BY <1>0 DEF MbrType
<1>2. \A j \in 1..Len(d.part) : End(d.part[j]) \in Nat
  BY <1>0, PartTypes
<1>3. z \in Nat /\ z \in E
  BY <1>1, <1>2
<1>4. ASSUME NEW j \in 1..Len(d.part) PROVE End(d.part[j]) <= z
  <2>0. Len(d.part) # 0 /\ Len(d.part) \in 1..Len(d.part)
    BY <1>1
  <2>1. CASE j = Len(d.part)
    BY <2>1, <2>0, <1>2
  <2>2. CASE j < Len(d.part)
    <3>1. End(d.part[j]) <= d.part[Len(d.part)].index
      BY <2>0, <2>2, <1>1, Order
    <3>2. d.part[Len(d.part)].index \in Nat /\ d.part[Len(d.part)].count \in Nat
      BY <1>0, <2>0, PartTypes
    <3>3. PICK x \in Nat, y \in Nat, w \in Nat :
            /\ x = d.part[Len(d.part)].index /\ y = d.part[Len(d.part)].count
            /\ w = End(d.part[j])
      BY <3>2, <1>2
    <3>4. z = x + y
      BY <2>0, <3>3 DEF End
    <3>5. w <= x
      BY <3>1, <3>3
    <3>6. w <= x + y
      BY <3>5
    <3> QED BY <3>3, <3>4, <3>6
  <2> QED BY <2>1, <2>2, <1>1
<1>5. Align <= z
  <2>1. CASE Len(d.part) = 0
    BY <2>1
  <2>2. CASE Len(d.part) # 0
    <3>1. Len(d.part) \in 1..Len(d.part)
      BY <2>2, <1>1
    <3>2. d.part[Len(d.part)].index >= Align
      BY <3>1, Order
    <3>3. d.part[Len(d.part)].index \in Nat /\ d.part[Len(d.part)].count \in Nat
      BY <1>0, <3>1, PartTypes
    <3> QED BY <2>2, <3>2, <3>3 DEF End
  <2> QED BY <2>1, <2>2
<1>6. E \subseteq 0..z /\ \A e \in E : e <= z
  BY <1>1, <1>2, <1>3, <1>4, <1>5
<1>7. LastEnd(d) = Max(E)
  BY DEF LastEnd
<1> HIDE DEF E, z
<1>8. Max(E) \in E /\ z <= Max(E)
  BY <1>3, <1>6, MaxIsGreatest
<1>9. Max(E) = z
  <2>1. Max(E) \in 0..z
    BY <1>6, <1>8
  <2> QED BY <1>3, <1>8, <2>1
<1> USE DEF z
<1> QED BY <1>3, <1>4, <1>7, <1>9

\* The fields of a partition that got longer.
LEMMA LongerFacts ==
  ASSUME NEW p \in PartRec, NEW n \in Int
  PROVE  /\ Longer(p, n).count = p.count + n
         /\ Longer(p, n).index = p.index /\ Longer(p, n).min = p.min
         /\ Longer(p, n).used = p.used /\ Longer(p, n).fill = p.fill
         /\ Longer(p, n).grow = p.grow
         /\ p.count + n \in Nat => Longer(p, n) \in PartRec
  BY DEF Longer, PartRec

\* The fields of a partition that was moved.
LEMMA ShiftedFacts ==
  ASSUME NEW p \in PartRec, NEW n \in Int
  PROVE  /\ Shifted(p, n).index = p.index + n
         /\ Shifted(p, n).count = p.count /\ Shifted(p, n).min = p.min
         /\ Shifted(p, n).used = p.used /\ Shifted(p, n).fill = p.fill
         /\ Shifted(p, n).grow = p.grow
         /\ p.index + n \in Nat => Shifted(p, n) \in PartRec
  BY DEF Shifted, PartRec

\* A disk with another table keeps its sectors.
LEMMA WithPart ==
  ASSUME NEW d \in MbrType, NEW X
  PROVE  /\ [d EXCEPT !.part = X].part = X /\ [d EXCEPT !.part = X].disk = d.disk
         /\ X \in Seq(PartRec) => [d EXCEPT !.part = X] \in MbrType
  BY DEF MbrType

\* A disk with other sectors keeps its table.
LEMMA WithDisk ==
  ASSUME NEW d \in MbrType, NEW X
  PROVE  /\ [d EXCEPT !.disk = X].disk = X /\ [d EXCEPT !.disk = X].part = d.part
         /\ X \in [Disk -> Nat] => [d EXCEPT !.disk = X] \in MbrType
  BY DEF MbrType

\* What Resize does.
LEMMA ResizeFacts ==
  ASSUME NEW d, Table(d), NEW k \in 1..Len(d.part), NEW n \in Int, Aligned(n),
         d.part[k].count + n >= d.part[k].min
  PROVE  Resized(Resize(d, k, n), d, k, n)
<1> USE MbrAssumption
<1>0. d \in MbrType
  BY DEF Table
<1> DEFINE e == Resize(d, k, n)
           new(j) == IF j = k THEN Longer(d.part[j], n)
                     ELSE IF j > k THEN Shifted(d.part[j], n) ELSE d.part[j]
<1>1. d.part \in Seq(PartRec) /\ Len(d.part) \in Nat /\ DOMAIN d.part = 1..Len(d.part)
  BY <1>0, PartTypes
<1>2. e = [d EXCEPT !.part = [j \in 1..Len(d.part) |-> new(j)]]
  <2>1. \A j \in 1..Len(d.part) : (d.part[j].index > d.part[k].index) <=> (j > k)
    BY BehindIsLater
  <2>2. [j \in DOMAIN d.part |->
           IF j = k THEN Longer(d.part[j], n)
           ELSE IF d.part[j].index > d.part[k].index THEN Shifted(d.part[j], n)
           ELSE d.part[j]] = [j \in 1..Len(d.part) |-> new(j)]
    BY <1>1, <2>1
  <2> QED BY <2>2 DEF Resize
<1>3. ASSUME NEW j \in 1..Len(d.part) PROVE new(j) \in PartRec
  <2>0. d.part[j] \in PartRec /\ d.part[j].index \in Nat /\ d.part[j].count \in Nat
    BY <1>0, PartTypes
  <2>1. CASE j = k
    <3>1. d.part[k].count + n \in Nat
      BY <1>0, <2>0, <2>1, PartTypes
    <3> QED BY <2>0, <2>1, <3>1, LongerFacts
  <2>2. CASE j > k
    <3>1. End(d.part[k]) <= d.part[j].index
      BY <2>2, Order
    <3>2. PICK ik \in Nat, ck \in Nat, mk \in Nat, ij \in Nat :
            ik = d.part[k].index /\ ck = d.part[k].count /\ mk = d.part[k].min /\ ij = d.part[j].index
      BY <1>0, PartTypes
    <3>3. ij + n \in Nat
      <4>1. ik + ck <= ij /\ ck + n >= mk
        BY <3>1, <3>2 DEF End
      <4> QED BY <4>1
    <3> QED BY <2>0, <2>2, <3>2, <3>3, ShiftedFacts
  <2>3. CASE j < k
    BY <2>0, <2>3
  <2> QED BY <2>1, <2>2, <2>3
<1>4. PICK X : X = [j \in 1..Len(d.part) |-> new(j)]
  OBVIOUS
<1> HIDE DEF e, new
<1>5. X \in Seq(PartRec) /\ Len(X) = Len(d.part) /\ \A j \in 1..Len(d.part) : X[j] = new(j)
  <2>1. X \in [1..Len(d.part) -> PartRec] /\ DOMAIN X = 1..Len(d.part)
    BY <1>3, <1>4
  <2>2. X \in Seq(PartRec)
    BY <1>1, <2>1
  <2> QED BY <1>1, <1>4, <2>1, <2>2
<1>6. e.part = X /\ e \in MbrType
  <2>1. e = [d EXCEPT !.part = X]
    BY <1>2, <1>4
  <2> QED BY <2>1, <1>0, <1>5, WithPart
<1>7. Resized(e, d, k, n)
  BY <1>5, <1>6 DEF Resized, new
<1> QED BY <1>7 DEF e

\* The starts, sizes and ends of the partitions of a resized table.
LEMMA ResizedParts ==
  ASSUME NEW d \in MbrType, NEW k \in 1..Len(d.part), NEW n \in Int, NEW e, Resized(e, d, k, n),
         NEW j \in 1..Len(d.part)
  PROVE  /\ d.part[j] \in PartRec
         /\ e.part[j].index = d.part[j].index + (IF j > k THEN n ELSE 0)
         /\ e.part[j].count = d.part[j].count + (IF j = k THEN n ELSE 0)
         /\ e.part[j].min = d.part[j].min
         /\ e.part[j].fill = d.part[j].fill
         /\ d.part[j].index \in Nat /\ d.part[j].count \in Nat /\ d.part[j].min \in Nat
         /\ End(e.part[j]) = End(d.part[j]) + (IF j >= k THEN n ELSE 0)
<1>0. d.part[j] \in PartRec /\ d.part[j].index \in Nat /\ d.part[j].count \in Nat /\ d.part[j].min \in Nat
  BY PartTypes
<1>1. /\ j = k => e.part[j] = Longer(d.part[j], n)
      /\ j > k => e.part[j] = Shifted(d.part[j], n)
      /\ j < k => e.part[j] = d.part[j]
  BY DEF Resized
<1>2. /\ e.part[j].index = d.part[j].index + (IF j > k THEN n ELSE 0)
      /\ e.part[j].count = d.part[j].count + (IF j = k THEN n ELSE 0)
      /\ e.part[j].min = d.part[j].min
      /\ e.part[j].fill = d.part[j].fill
  <2>1. CASE j = k
    <3>1. /\ Longer(d.part[j], n).count = d.part[j].count + n
          /\ Longer(d.part[j], n).index = d.part[j].index /\ Longer(d.part[j], n).min = d.part[j].min
          /\ Longer(d.part[j], n).fill = d.part[j].fill
      BY <1>0, LongerFacts
    <3> QED BY <2>1, <1>0, <1>1, <3>1
  <2>2. CASE j > k
    <3>1. /\ Shifted(d.part[j], n).index = d.part[j].index + n
          /\ Shifted(d.part[j], n).count = d.part[j].count /\ Shifted(d.part[j], n).min = d.part[j].min
          /\ Shifted(d.part[j], n).fill = d.part[j].fill
      BY <1>0, ShiftedFacts
    <3> QED BY <2>2, <1>0, <1>1, <3>1
  <2>3. CASE j < k
    BY <2>3, <1>0, <1>1
  <2> QED BY <2>1, <2>2, <2>3
<1>3. End(e.part[j]) = End(d.part[j]) + (IF j >= k THEN n ELSE 0)
  BY <1>0, <1>2 DEF End
<1> QED BY <1>0, <1>2, <1>3

\* The table stays packed when a partition is resized, and its end moves along.
LEMMA ResizedTable ==
  ASSUME NEW d, Table(d), NEW k \in 1..Len(d.part), NEW n \in Int, Aligned(n),
         d.part[k].count + n >= d.part[k].min, NEW e, Resized(e, d, k, n)
  PROVE  Table(e) /\ LastEnd(e) = LastEnd(d) + n
<1> USE MbrAssumption
<1>0. /\ d \in MbrType /\ Chained(d.part) /\ Sized(d.part) /\ OneFill(d.part)
      /\ e \in MbrType /\ Len(e.part) = Len(d.part) /\ Len(d.part) \in Nat
  BY PartTypes DEF Table, Resized
<1>1. ASSUME NEW j \in 1..Len(d.part)
      PROVE  /\ d.part[j] \in PartRec
             /\ e.part[j].index = d.part[j].index + (IF j > k THEN n ELSE 0)
             /\ e.part[j].count = d.part[j].count + (IF j = k THEN n ELSE 0)
             /\ e.part[j].min = d.part[j].min
             /\ e.part[j].fill = d.part[j].fill
             /\ d.part[j].index \in Nat /\ d.part[j].count \in Nat /\ d.part[j].min \in Nat
             /\ End(e.part[j]) = End(d.part[j]) + (IF j >= k THEN n ELSE 0)
  BY <1>0, ResizedParts
<1>2. Chained(e.part)
  <2> SUFFICES ASSUME NEW j \in 1..Len(d.part)
               PROVE  e.part[j].index = IF j = 1 THEN Align ELSE End(e.part[j - 1])
    BY <1>0 DEF Chained
  <2>1. d.part[j].index = IF j = 1 THEN Align ELSE End(d.part[j - 1])
    BY <1>0 DEF Chained
  <2>2. CASE j = 1
    BY <2>1, <2>2, <1>1
  <2>3. CASE j # 1
    <3>1. j - 1 \in 1..Len(d.part)
      BY <2>3
    <3>2. End(e.part[j - 1]) = End(d.part[j - 1]) + (IF j - 1 >= k THEN n ELSE 0)
      BY <3>1, <1>1
    <3>3. e.part[j].index = d.part[j].index + (IF j > k THEN n ELSE 0)
      BY <1>1
    <3> QED BY <2>1, <2>3, <3>2, <3>3
  <2> QED BY <2>2, <2>3
<1>3. Sized(e.part)
  <2> SUFFICES ASSUME NEW j \in 1..Len(d.part)
               PROVE  /\ Aligned(e.part[j].count) /\ Aligned(e.part[j].min)
                      /\ Align <= e.part[j].min /\ e.part[j].min <= e.part[j].count
    BY <1>0 DEF Sized
  <2>1. /\ Aligned(d.part[j].count) /\ Aligned(d.part[j].min)
        /\ Align <= d.part[j].min /\ d.part[j].min <= d.part[j].count
    BY <1>0 DEF Sized
  <2>2. Aligned(d.part[j].count + n)
    <3>1. d.part[j].count \in Int
      BY <1>1
    <3> QED BY <2>1, <3>1, AlignedSum
  <2>3. PICK c, m, x, y : c = d.part[j].count /\ m = d.part[j].min /\ x = e.part[j].count /\ y = e.part[j].min
    OBVIOUS
  <2>4. y = m /\ x = IF j = k THEN c + n ELSE c
    BY <1>1, <2>3
  <2>5. Aligned(c) /\ Aligned(m) /\ Align <= m /\ m <= c /\ Aligned(c + n)
    BY <2>1, <2>2, <2>3
  <2>6. j = k => m <= c + n
    BY <2>3
  <2>7. Aligned(x) /\ m <= x
    BY <2>4, <2>5, <2>6
  <2> QED BY <2>3, <2>4, <2>5, <2>7
<1>4. OneFill(e.part)
  BY <1>0, <1>1 DEF OneFill
<1>5. Table(e)
  BY <1>0, <1>2, <1>3, <1>4 DEF Table
<1>6. LastEnd(e) = LastEnd(d) + n
  <2>1. Len(d.part) \in 1..Len(d.part) /\ Len(d.part) # 0 /\ Len(d.part) >= k
    BY <1>0
  <2>2. LastEnd(d) = End(d.part[Len(d.part)]) /\ LastEnd(e) = End(e.part[Len(d.part)])
    BY <1>0, <1>5, <2>1, LastEndFacts
  <2> QED BY <1>1, <2>1, <2>2
<1> QED BY <1>5, <1>6

\* What a request to shrink takes away is aligned, at most what was asked for,
\* and leaves the minimum.
LEMMA ShrinkByFacts ==
  ASSUME NEW d, Table(d), NEW k \in 1..Len(d.part), NEW n \in Nat
  PROVE  LET diff == ShrinkBy(d.part[k], n)
         IN  /\ diff \in Nat /\ Aligned(diff) /\ diff <= n
             /\ d.part[k].count - diff >= d.part[k].min
             /\ Aligned(n) /\ n <= d.part[k].count - d.part[k].min => diff = n
<1> USE MbrAssumption
<1>0. d \in MbrType /\ Sized(d.part)
  BY DEF Table
<1>1. PICK c \in Nat, m \in Nat : c = d.part[k].count /\ m = d.part[k].min
  BY <1>0, PartTypes
<1>2. Aligned(c) /\ Aligned(m) /\ Align <= m /\ m <= c
  BY <1>0, <1>1 DEF Sized
<1> DEFINE aligned == Min({AlignDown(n), c})
           kept == IF c - aligned < Align THEN c - Align ELSE aligned
           diff == IF c - kept < m THEN c - m ELSE kept
<1>3. /\ AlignDown(n) \in Nat /\ Aligned(AlignDown(n)) /\ AlignDown(n) <= n
      /\ Aligned(n) => AlignDown(n) = n
  BY AlignDownFacts
<1>4. ShrinkBy(d.part[k], n) = diff
  BY <1>1 DEF ShrinkBy
<1>5. aligned \in Nat /\ aligned <= AlignDown(n) /\ aligned <= c
      /\ (aligned = AlignDown(n) \/ aligned = c)
  <2> DEFINE M == {AlignDown(n), c}
  <2>1. M \subseteq Nat /\ M # {} /\ AlignDown(n) \in M /\ c \in M
        /\ \A x \in M : x = AlignDown(n) \/ x = c
    BY <1>1, <1>3
  <2>2. aligned = Min(M)
    OBVIOUS
  <2> HIDE DEF M, aligned
  <2>3. Min(M) \in M /\ \A x \in M : Min(M) <= x
    BY <2>1, MinIsLeast
  <2> QED BY <1>1, <1>3, <2>1, <2>2, <2>3
<1>6. Aligned(aligned)
  BY <1>2, <1>3, <1>5
<1> HIDE DEF aligned
<1>7. kept \in Nat /\ kept <= aligned /\ c - kept >= Align /\ (c - aligned >= Align => kept = aligned)
  <2>1. PICK a \in Nat, al \in Nat : a = aligned /\ al = Align
    BY <1>5
  <2>2. a <= c /\ al <= c /\ c \in Nat
    BY <1>1, <1>2, <1>5, <2>1
  <2>3. kept = IF c - a < al THEN c - al ELSE a
    BY <2>1
  <2> HIDE DEF kept
  <2>4. CASE c - a < al
    <3>1. kept = c - al
      BY <2>3, <2>4
    <3>2. kept \in Nat /\ kept <= a /\ c - kept >= al /\ ~(c - a >= al)
      BY <2>2, <2>4, <3>1
    <3> QED BY <2>1, <3>2
  <2>5. CASE ~(c - a < al)
    <3>1. kept = a
      BY <2>3, <2>5
    <3>2. kept \in Nat /\ kept <= a /\ c - kept >= al
      BY <2>2, <2>5, <3>1
    <3> QED BY <2>1, <3>1, <3>2
  <2> QED BY <2>4, <2>5
<1>8. Aligned(kept)
  <2>1. Aligned(Align) /\ Align \in Int /\ c \in Int
    BY <1>2, AlignedSum
  <2>2. Aligned(c - Align)
    BY <1>2, <2>1, AlignedSum
  <2> QED BY <1>6, <2>2
<1> HIDE DEF kept
<1>9. diff \in Nat /\ diff <= kept /\ c - diff >= m /\ (c - kept >= m => diff = kept)
  <2>1. m <= c /\ kept \in Nat
    BY <1>2, <1>7
  <2>2. CASE c - kept < m
    <3>1. diff = c - m
      BY <2>2
    <3> HIDE DEF diff
    <3>2. diff \in Nat /\ diff <= kept /\ c - diff >= m /\ ~(c - kept >= m)
      BY <2>1, <2>2, <3>1
    <3> QED BY <3>2
  <2>3. CASE ~(c - kept < m)
    <3>1. diff = kept
      BY <2>3
    <3> HIDE DEF diff
    <3>2. c - diff >= m
      BY <2>1, <2>3, <3>1
    <3> QED BY <2>1, <3>1, <3>2
  <2> QED BY <2>2, <2>3
<1>10. Aligned(diff)
  <2>1. Aligned(c - m)
    BY <1>2, AlignedSum
  <2> QED BY <1>8, <2>1
<1> HIDE DEF diff
<1>11. diff <= n
  BY <1>3, <1>5, <1>7, <1>9
<1>12. Aligned(n) /\ n <= c - m => diff = n
  <2> HAVE Aligned(n) /\ n <= c - m
  <2>1. AlignDown(n) = n
    BY <1>3
  <2>2. aligned = n
    BY <2>1, <1>1, <1>2, <1>5
  <2>3. kept = n
    BY <2>2, <1>1, <1>2, <1>7
  <2> QED BY <2>3, <1>1, <1>9
<1> QED BY <1>1, <1>4, <1>9, <1>10, <1>11, <1>12

-----------------------------------------------------------------------------
\* Only the disk's contents differ, so the table is as it was.
LEMMA SamePart ==
  ASSUME NEW d, NEW e \in MbrType, e.part = d.part
  PROVE  /\ Table(d) => Table(e)
         /\ Good(d) => Good(e)
         /\ LastEnd(e) = LastEnd(d)
  BY DEF Table, Good, LastEnd

\* A discard leaves the table alone.
LEMMA DiscardFacts ==
  ASSUME NEW d \in MbrType, NEW from, NEW n
  PROVE  Discard(d, from, n) \in MbrType /\ Discard(d, from, n).part = d.part
<1>1. PICK X : X = [s \in Disk |-> IF s >= from /\ (n < 0 \/ s < from + n) THEN 0 ELSE d.disk[s]]
  OBVIOUS
<1>2. d.disk \in [Disk -> Nat]
  BY DEF MbrType
<1>3. X \in [Disk -> Nat]
  BY <1>1, <1>2
<1>4. Discard(d, from, n) = [d EXCEPT !.disk = X]
  BY <1>1 DEF Discard
<1> QED BY <1>3, <1>4, WithDisk

\* A table is itself with nothing added.
LEMMA ResizedByZero ==
  ASSUME NEW d, Table(d), NEW k \in 1..Len(d.part)
  PROVE  Resized(d, d, k, 0)
<1>0. d \in MbrType
  BY DEF Table
<1>1. ASSUME NEW j \in 1..Len(d.part)
      PROVE  Longer(d.part[j], 0) = d.part[j] /\ Shifted(d.part[j], 0) = d.part[j]
  <2>1. PICK p \in PartRec : p = d.part[j]
    BY <1>0, PartTypes
  <2>2. Longer(p, 0) = p /\ Shifted(p, 0) = p
    BY DEF Longer, Shifted, PartRec
  <2> QED BY <2>1, <2>2
<1> QED BY <1>0, <1>1 DEF Resized

\* shrink_partition takes whole multiples of the alignment off the partition and
\* moves the later ones down by as much.
LEMMA ShrinkFacts ==
  ASSUME NEW d, Table(d), NEW k \in 1..Len(d.part), NEW n \in Nat
  PROVE  Resized(shrink_partition(d, k, n), d, k, -ShrinkBy(d.part[k], n))
<1> USE MbrAssumption
<1> DEFINE diff == ShrinkBy(d.part[k], n)
           x == Discard(d, LastEnd(d) - 1 - diff, diff)
<1>0. d \in MbrType
  BY DEF Table
<1>1. diff \in Nat /\ Aligned(diff) /\ d.part[k].count - diff >= d.part[k].min
  BY ShrinkByFacts
<1>2. shrink_partition(d, k, n) = IF diff = 0 THEN d ELSE Resize(x, k, -diff)
  BY DEF shrink_partition
<1>3. x \in MbrType /\ x.part = d.part
  BY <1>0, DiscardFacts
<1> HIDE DEF x, diff
<1>4. CASE diff = 0
  <2>1. Resized(d, d, k, 0)
    BY ResizedByZero
  <2>2. -diff = 0
    <3>1. \A z \in Int : -z \in Int /\ -z + z = 0
      OBVIOUS
    <3>2. \A y, z \in Int : y + z = 0 /\ z = 0 => y = 0
      OBVIOUS
    <3>3. diff \in Int
      BY <1>1
    <3> QED BY <1>4, <3>1, <3>2, <3>3, Zenon
  <2> QED BY <1>1, <1>2, <1>4, <2>1, <2>2 DEF diff
<1>5. CASE diff # 0
  <2>1. Table(x)
    BY <1>3, SamePart
  <2>2. Aligned(-diff) /\ -diff \in Int
    BY <1>1, AlignedSum
  <2>3. PICK c \in Nat, m \in Nat : c = d.part[k].count /\ m = d.part[k].min
    BY <1>0, PartTypes
  <2>4. c + (-diff) >= m
    BY <1>1, <2>3
  <2>5. Resized(Resize(x, k, -diff), x, k, -diff)
    BY <1>3, <2>1, <2>2, <2>3, <2>4, ResizeFacts
  <2>6. Resized(Resize(x, k, -diff), d, k, -diff)
    BY <1>3, <2>5 DEF Resized
  <2> QED BY <1>2, <1>5, <2>6 DEF diff
<1> QED BY <1>4, <1>5

\* The sectors after a discard.
LEMMA DiscardDisk ==
  ASSUME NEW d \in MbrType, NEW from, NEW n, NEW s \in Disk
  PROVE  Discard(d, from, n).disk[s] = IF s >= from /\ (n < 0 \/ s < from + n) THEN 0 ELSE d.disk[s]
<1>1. PICK X : X = [t \in Disk |-> IF t >= from /\ (n < 0 \/ t < from + n) THEN 0 ELSE d.disk[t]]
  OBVIOUS
<1>2. Discard(d, from, n) = [d EXCEPT !.disk = X]
  BY <1>1 DEF Discard
<1> QED BY <1>1, <1>2, WithDisk

\* Resizing changes the table only.
LEMMA ResizeDisk ==
  ASSUME NEW d \in MbrType, NEW k, NEW n
  PROVE  Resize(d, k, n).disk = d.disk
  BY WithPart DEF Resize

\* e is d after some partitions were cut down: none is larger, those that have only
\* partitions of the same size in front start where they did, and the only sectors
\* cleared are behind the new end of the table, or the one in front of it.
Cut(e, d) ==
  /\ \A j \in 1..Len(d.part) : e.part[j].count <= d.part[j].count
  /\ \A k \in 1..Len(d.part) :
       (\A j \in 1..k : e.part[j].count >= d.part[j].count) => e.part[k].index = d.part[k].index
  /\ \A s \in Disk : s < LastEnd(e) - 1 => e.disk[s] = d.disk[s]
  /\ LastEnd(e) = LastEnd(d) => e.disk = d.disk

\* Nothing cut.
LEMMA CutNothing ==
  ASSUME NEW d, Table(d)
  PROVE  Cut(d, d)
<1>1. \A j \in 1..Len(d.part) : d.part[j].count \in Nat
  BY PartTypes DEF Table
<1> QED BY <1>1 DEF Cut

\* shrink_partition discards the sectors up to the one in front of the last: one of them
\* is still in the table, in its last partition.
LEMMA ShrinkCuts ==
  ASSUME NEW d, Table(d), NEW k \in 1..Len(d.part), NEW n \in Nat
  PROVE  Cut(shrink_partition(d, k, n), d)
<1> USE MbrAssumption
<1>0. d \in MbrType
  BY DEF Table
<1>1. PICK diff \in Nat : /\ diff = ShrinkBy(d.part[k], n) /\ Aligned(diff)
                          /\ d.part[k].count - diff >= d.part[k].min
  BY ShrinkByFacts
<1>2. PICK last \in Nat : last = LastEnd(d)
  BY LastEndFacts
<1>3. PICK x : x = Discard(d, last - 1 - diff, diff)
  OBVIOUS
<1>4. PICK e : e = shrink_partition(d, k, n)
  OBVIOUS
<1>5. e = IF diff = 0 THEN d ELSE Resize(x, k, -diff)
  BY <1>1, <1>2, <1>3, <1>4 DEF shrink_partition
<1>6. CASE diff = 0
  BY <1>4, <1>5, <1>6, CutNothing
<1>7. CASE diff # 0
  <2>1. x \in MbrType
    BY <1>0, <1>3, DiscardFacts
  <2>2. e.disk = x.disk
    BY <1>5, <1>7, <2>1, ResizeDisk
  <2>3. PICK neg \in Int : neg = -diff /\ neg + diff = 0
    OBVIOUS
  <2>4. Resized(e, d, k, neg)
    BY <1>1, <1>4, <2>3, ShrinkFacts
  <2>5. Aligned(neg)
    BY <1>1, <2>3, AlignedSum
  <2>6. d.part[k].count + neg >= d.part[k].min
    <3>1. PICK c \in Nat, m \in Nat : c = d.part[k].count /\ m = d.part[k].min
      BY <1>0, PartTypes
    <3> QED BY <1>1, <2>3, <3>1
  <2>7. LastEnd(e) = last + neg
    BY <1>2, <2>4, <2>5, <2>6, ResizedTable
  <2>8. ASSUME NEW s \in Disk, s < LastEnd(e) - 1 PROVE e.disk[s] = d.disk[s]
    <3>1. s \in Int /\ s < last - 1 - diff
      BY <2>3, <2>7, <2>8 DEF Disk
    <3>2. ~(s >= last - 1 - diff)
      BY <3>1
    <3> QED BY <1>0, <1>3, <2>2, <3>2, DiscardDisk
  <2>9. LastEnd(e) # LastEnd(d)
    BY <1>2, <1>7, <2>3, <2>7
  <2>10. ASSUME NEW j \in 1..Len(d.part)
         PROVE  /\ e.part[j].count <= d.part[j].count
                /\ j < k => e.part[j].index = d.part[j].index
                /\ j = k => ~(e.part[j].count >= d.part[j].count)
    <3>1. /\ e.part[j].index = d.part[j].index + (IF j > k THEN neg ELSE 0)
          /\ e.part[j].count = d.part[j].count + (IF j = k THEN neg ELSE 0)
      BY <1>0, <2>4, ResizedParts
    <3>2. PICK c \in Nat, i \in Nat : c = d.part[j].count /\ i = d.part[j].index
      BY <1>0, PartTypes
    <3>3. e.part[j].count = c + (IF j = k THEN neg ELSE 0) /\ (j < k => e.part[j].index = i)
      BY <3>1, <3>2
    <3> QED BY <1>7, <2>3, <3>2, <3>3
  <2>11. ASSUME NEW m \in 1..Len(d.part), \A j \in 1..m : e.part[j].count >= d.part[j].count
         PROVE  e.part[m].index = d.part[m].index
    <3>1. m < k
      BY <2>10, <2>11
    <3> QED BY <2>10, <3>1
  <2> QED BY <1>4, <2>8, <2>9, <2>10, <2>11 DEF Cut
<1> QED BY <1>6, <1>7

\* e is a good table that has the partitions up to k as d has, and no more sectors.
Trimmed(e, d, k) ==
  /\ Good(e)
  /\ Cut(e, d)
  /\ Len(e.part) = Len(d.part)
  /\ \A j \in 1..Len(d.part) : j <= k => e.part[j] = d.part[j]
  /\ LastEnd(e) <= LastEnd(d)

\* mbr_shrink_to_fit cuts the partition to what is used of it and touches none in
\* front of it.
LEMMA ShrinkToFitFacts ==
  ASSUME NEW d, Good(d), NEW k \in 1..Len(d.part)
  PROVE  Trimmed(mbr_shrink_to_fit(d, k), d, k - 1)
<1> USE MbrAssumption
<1> DEFINE e == mbr_shrink_to_fit(d, k)
<1>0. Table(d) /\ d \in MbrType /\ UsedOK(d.part)
  BY DEF Good, Table
<1>1. PICK c \in Nat, u \in Nat, m \in Nat : c = d.part[k].count /\ u = d.part[k].used /\ m = d.part[k].min
  BY <1>0, PartTypes
<1>2. LastEnd(d) \in Nat
  BY <1>0, LastEndFacts
<1>3. CASE u >= c
  <2>1. e = d
    BY <1>1, <1>3 DEF mbr_shrink_to_fit
  <2>2. Cut(d, d)
    BY <1>0, CutNothing
  <2> QED BY <2>1, <2>2, <1>2 DEF Trimmed
<1>4. CASE u < c
  <2>0. PICK w \in Nat : w = c - u
    BY <1>4
  <2>1. e = shrink_partition(d, k, w)
    BY <1>1, <1>4, <2>0 DEF mbr_shrink_to_fit
  <2> HIDE DEF e
  <2>2. PICK diff \in Nat : /\ diff = ShrinkBy(d.part[k], w) /\ Aligned(diff) /\ diff <= w
                            /\ d.part[k].count - diff >= d.part[k].min
    BY <1>0, ShrinkByFacts
  <2>3. Aligned(diff) /\ diff <= c - u /\ c - diff >= m
    BY <1>1, <2>0, <2>2
  <2>4. Resized(e, d, k, -diff)
    BY <1>0, <2>1, <2>2, ShrinkFacts
  <2>5. Aligned(-diff) /\ -diff \in Int /\ c + (-diff) >= m
    BY <2>3, AlignedSum
  <2>6. Table(e) /\ LastEnd(e) = LastEnd(d) + (-diff)
    BY <1>0, <1>1, <2>4, <2>5, ResizedTable
  <2>7. Len(e.part) = Len(d.part) /\ LastEnd(e) <= LastEnd(d)
    BY <1>2, <2>4, <2>6 DEF Resized
  <2>8. \A j \in 1..Len(d.part) : j <= k - 1 => e.part[j] = d.part[j]
    BY <2>4 DEF Resized
  <2>9. ASSUME NEW j \in 1..Len(d.part) PROVE e.part[j].used <= e.part[j].count
    <3>0. d.part[j] \in PartRec /\ d.part[j].used <= d.part[j].count
      BY <1>0, PartTypes DEF UsedOK
    <3>1. CASE j < k
      BY <3>0, <3>1, <2>4 DEF Resized
    <3>2. CASE j > k
      <4>1. e.part[j] = Shifted(d.part[j], -diff)
        BY <3>2, <2>4 DEF Resized
      <4> QED BY <3>0, <4>1, ShiftedFacts
    <3>3. CASE j = k
      <4>1. PICK neg \in Int : neg = -diff
        BY <2>5
      <4>2. e.part[j] = Longer(d.part[j], neg)
        BY <3>3, <2>4, <4>1 DEF Resized
      <4>3. e.part[j].used = d.part[j].used /\ e.part[j].count = d.part[j].count + neg
        BY <3>0, <4>2, LongerFacts
      <4> QED BY <1>1, <3>3, <4>1, <4>3, <2>3
    <3> QED BY <3>1, <3>2, <3>3
  <2>10. Good(e)
    BY <2>6, <2>7, <2>9 DEF Good, UsedOK
  <2>11. Cut(e, d)
    BY <1>0, <2>1, ShrinkCuts
  <2> QED BY <2>7, <2>8, <2>10, <2>11 DEF Trimmed, e
<1> QED BY <1>3, <1>4, <1>1

\* mbr_shrink_to_fit has nothing to cut off the partition.
Tight(p) == p.used >= p.count \/ ShrinkBy(p, p.count - p.used) = 0

\* Where a partition lies does not matter for that.
LEMMA TightAnywhere ==
  ASSUME NEW p, NEW q, q.used = p.used, q.count = p.count, q.min = p.min, Tight(p)
  PROVE  Tight(q)
  BY DEF Tight, ShrinkBy

\* It is what mbr_shrink_to_fit leaves as it is.
LEMMA TightStays ==
  ASSUME NEW d, NEW k, Tight(d.part[k])
  PROVE  mbr_shrink_to_fit(d, k) = d
  BY DEF Tight, mbr_shrink_to_fit, shrink_partition

\* And nothing else is.
LEMMA StaysIsTight ==
  ASSUME NEW d, Good(d), NEW k \in 1..Len(d.part), mbr_shrink_to_fit(d, k) = d
  PROVE  Tight(d.part[k])
<1>0. Table(d) /\ d \in MbrType
  BY DEF Good, Table
<1>1. PICK c \in Nat, u \in Nat : c = d.part[k].count /\ u = d.part[k].used
  BY <1>0, PartTypes
<1>2. CASE u >= c
  BY <1>1, <1>2 DEF Tight
<1>3. CASE u < c
  <2>1. PICK w \in Nat : w = c - u
    BY <1>3
  <2>2. PICK diff \in Nat : diff = ShrinkBy(d.part[k], w)
    BY <1>0, ShrinkByFacts
  <2>3. PICK neg \in Int : neg = -diff /\ neg + diff = 0
    OBVIOUS
  <2>4. shrink_partition(d, k, w) = d
    BY <1>1, <1>3, <2>1 DEF mbr_shrink_to_fit
  <2>5. Resized(d, d, k, neg)
    BY <1>0, <2>2, <2>3, <2>4, ShrinkFacts
  <2>6. c = c + neg
    BY <1>0, <1>1, <2>3, <2>5, ResizedParts
  <2>7. diff = 0
    BY <2>3, <2>6
  <2> QED BY <1>1, <2>1, <2>2, <2>7 DEF Tight
<1> QED BY <1>1, <1>2, <1>3

\* Trimming twice.
LEMMA TrimmedTwice ==
  ASSUME NEW d, Good(d), NEW e, NEW f, NEW k \in Int, NEW m \in Int, k <= m,
         Trimmed(e, d, k), Trimmed(f, e, m)
  PROVE  Trimmed(f, d, k)
<1>1. LastEnd(d) \in Nat /\ LastEnd(e) \in Nat /\ LastEnd(f) \in Nat
  BY LastEndFacts DEF Trimmed, Good
<1>2. LastEnd(f) <= LastEnd(e) /\ LastEnd(e) <= LastEnd(d) /\ Len(e.part) = Len(d.part)
      /\ Len(f.part) = Len(d.part) /\ Cut(e, d) /\ Cut(f, e)
  BY DEF Trimmed
<1>3. \A j \in 1..Len(d.part) : d.part[j].count \in Nat /\ e.part[j].count \in Nat /\ f.part[j].count \in Nat
  BY <1>2, PartTypes DEF Trimmed, Good, Table
<1>4. \A j \in 1..Len(d.part) :
        /\ f.part[j].count <= e.part[j].count /\ e.part[j].count <= d.part[j].count
  BY <1>2 DEF Cut
<1>5. \A j \in 1..Len(d.part) :
        /\ f.part[j].count <= d.part[j].count
        /\ f.part[j].count >= d.part[j].count =>
              f.part[j].count >= e.part[j].count /\ e.part[j].count >= d.part[j].count
  BY <1>3, <1>4
<1>6. ASSUME NEW i \in 1..Len(d.part), \A j \in 1..i : f.part[j].count >= d.part[j].count
      PROVE  f.part[i].index = d.part[i].index
  <2>1. \A j \in 1..i : j \in 1..Len(d.part)
    OBVIOUS
  <2>2. \A j \in 1..i : f.part[j].count >= e.part[j].count /\ e.part[j].count >= d.part[j].count
    BY <1>5, <1>6, <2>1
  <2> QED BY <1>2, <2>2 DEF Cut
<1>7. ASSUME NEW s \in Disk, s < LastEnd(f) - 1 PROVE f.disk[s] = d.disk[s]
  <2>1. s < LastEnd(e) - 1
    BY <1>1, <1>2, <1>7 DEF Disk
  <2> QED BY <1>2, <1>7, <2>1 DEF Cut
<1>8. LastEnd(f) = LastEnd(d) => LastEnd(f) = LastEnd(e) /\ LastEnd(e) = LastEnd(d)
  BY <1>1, <1>2
<1>9. LastEnd(f) = LastEnd(d) => f.disk = d.disk
  BY <1>2, <1>8 DEF Cut
<1>10. Cut(f, d)
  BY <1>5, <1>6, <1>7, <1>9 DEF Cut
<1> QED BY <1>1, <1>10 DEF Trimmed

-----------------------------------------------------------------------------

\* Cutting down the partitions behind k leaves those up to k alone, and the ones after
\* that up to the first that has something to cut off.
LEMMA ShrinkBehindKeeps ==
  ASSUME NEW d, Good(d), NEW k \in 1..Len(d.part), NEW m \in k..Len(d.part),
         \A j \in (k + 1)..m : Tight(d.part[j])
  PROVE  Trimmed(ShrinkBehind(d, k), d, m)
<1>0. Table(d) /\ d \in MbrType /\ Len(d.part) \in Nat /\ LastEnd(d) \in Nat
  BY PartTypes, LastEndFacts DEF Good, Table
<1> DEFINE n == Len(d.part)
           start == d.part[k].index
           S == { x \in MbrType : Trimmed(x, d, m) }
           G == [t \in (1..n) \X S |->
                   IF t[2].part[t[1]].index > start THEN mbr_shrink_to_fit(t[2], t[1]) ELSE t[2]]
<1>1. d \in S
  BY <1>0, CutNothing DEF Trimmed
<1>2. ASSUME NEW j \in 1..n, NEW x \in S
      PROVE  /\ G[<<j, x>>] = IF x.part[j].index > start THEN mbr_shrink_to_fit(x, j) ELSE x
             /\ G[<<j, x>>] \in S
  <2>1. G[<<j, x>>] = IF x.part[j].index > start THEN mbr_shrink_to_fit(x, j) ELSE x
    OBVIOUS
  <2> HIDE DEF G
  <2>2. CASE x.part[j].index > start
    <3>1. Good(x) /\ Table(x) /\ Len(x.part) = n /\ x.part[k] = d.part[k] /\ Trimmed(x, d, m)
      BY DEF Trimmed, Good
    <3>2. j > k
      BY <2>2, <3>1, BehindIsLater
    <3>3. CASE j <= m
      <4>1. x.part[j] = d.part[j]
        BY <3>1, <3>3 DEF Trimmed
      <4>2. mbr_shrink_to_fit(x, j) = x
        BY <3>2, <3>3, <4>1, TightStays
      <4> QED BY <2>1, <4>2
    <3>4. CASE j > m
      <4>1. Trimmed(mbr_shrink_to_fit(x, j), x, j - 1)
        BY <3>1, ShrinkToFitFacts
      <4>2. m <= j - 1 /\ m \in Int /\ j - 1 \in Int
        BY <3>4
      <4>3. Trimmed(mbr_shrink_to_fit(x, j), d, m)
        BY <3>1, <4>1, <4>2, TrimmedTwice
      <4>4. mbr_shrink_to_fit(x, j) \in MbrType
        BY <4>3 DEF Trimmed, Good, Table
      <4> QED BY <2>1, <2>2, <4>3, <4>4
    <3> QED BY <3>3, <3>4
  <2>3. CASE ~(x.part[j].index > start)
    BY <2>1, <2>3
  <2> QED BY <2>1, <2>2, <2>3
<1> HIDE DEF S, G, start
<1>3. PICK f : Loop(f, n, d, G) /\ \A j \in 0..n : f[j] \in S
  BY <1>0, <1>1, <1>2, LoopExists
<1> DEFINE Eq(s) == s = [j \in 0..n |->
             IF j = 0 THEN d
             ELSE IF s[j - 1].part[j].index > start THEN mbr_shrink_to_fit(s[j - 1], j)
             ELSE s[j - 1]]
<1>4. Eq(f)
  <2>1. ASSUME NEW j \in 0..n
        PROVE  (IF j = 0 THEN d ELSE G[<<j, f[j - 1]>>])
                 = IF j = 0 THEN d
                   ELSE IF f[j - 1].part[j].index > start THEN mbr_shrink_to_fit(f[j - 1], j)
                   ELSE f[j - 1]
    <3>1. j # 0 => j \in 1..n /\ f[j - 1] \in S
      BY <1>0, <1>3
    <3> QED BY <1>2, <3>1
  <2> QED BY <1>3, <2>1 DEF Loop
<1>5. PICK s : Eq(s) /\ ShrinkBehind(d, k) = s[n]
  <2>1. ShrinkBehind(d, k) = (CHOOSE s : Eq(s))[n]
    BY DEF ShrinkBehind, start
  <2>2. Eq(CHOOSE s : Eq(s))
    BY <1>4
  <2> QED BY <2>1, <2>2
<1> DEFINE M == { t \in Nat : t <= n => s[t] \in S }
<1>6. 0 \in M
  <2>1. s[0] = d
    BY <1>0, <1>5
  <2> QED BY <1>1, <2>1
<1>7. ASSUME NEW t \in Nat, t \in M PROVE t + 1 \in M
  <2> SUFFICES ASSUME t + 1 <= n PROVE s[t + 1] \in S
    OBVIOUS
  <2>1. s[t] \in S /\ t + 1 \in 1..n
    BY <1>0, <1>7
  <2>2. s[t + 1] = IF s[t].part[t + 1].index > start THEN mbr_shrink_to_fit(s[t], t + 1) ELSE s[t]
    BY <1>0, <1>5, <2>1
  <2> QED BY <1>2, <2>1, <2>2
<1> HIDE DEF M
<1>8. n \in M
  BY <1>0, <1>6, <1>7, SetInduction
<1> QED BY <1>0, <1>5, <1>8 DEF M, S

\* All of those up to k.
LEMMA ShrinkBehindFacts ==
  ASSUME NEW d, Good(d), NEW k \in 1..Len(d.part)
  PROVE  Trimmed(ShrinkBehind(d, k), d, k)
<1>1. Len(d.part) \in Nat
  BY DEF Good, Table, MbrType
<1>2. k \in k..Len(d.part) /\ (k + 1)..k = {}
  BY <1>1
<1> QED BY <1>2, ShrinkBehindKeeps

\* Cutting all of them down leaves those up to the first alone that has something to
\* cut off.
LEMMA ShrinkAllFacts ==
  ASSUME NEW d, Good(d), NEW k \in 0..Len(d.part), \A j \in 1..k : Tight(d.part[j])
  PROVE  Trimmed(ShrinkAll(d), d, k)
<1>0. Table(d) /\ d \in MbrType /\ Len(d.part) \in Nat /\ LastEnd(d) \in Nat
  BY LastEndFacts DEF Good, Table, MbrType
<1> DEFINE n == Len(d.part)
           S == { x \in MbrType : Trimmed(x, d, k) }
           G == [t \in (1..n) \X S |-> mbr_shrink_to_fit(t[2], t[1])]
<1>1. d \in S
  BY <1>0, CutNothing DEF Trimmed
<1>2. ASSUME NEW j \in 1..n, NEW x \in S
      PROVE  G[<<j, x>>] = mbr_shrink_to_fit(x, j) /\ G[<<j, x>>] \in S
  <2>1. G[<<j, x>>] = mbr_shrink_to_fit(x, j)
    OBVIOUS
  <2> HIDE DEF G
  <2>2. Good(x) /\ Len(x.part) = n /\ Trimmed(x, d, k)
    BY DEF Trimmed
  <2>3. CASE j <= k
    <3>1. x.part[j] = d.part[j]
      BY <2>2, <2>3 DEF Trimmed
    <3>2. mbr_shrink_to_fit(x, j) = x
      BY <2>3, <3>1, TightStays
    <3> QED BY <2>1, <3>2
  <2>4. CASE j > k
    <3>1. Trimmed(mbr_shrink_to_fit(x, j), x, j - 1)
      BY <2>2, ShrinkToFitFacts
    <3>2. k <= j - 1 /\ k \in Int /\ j - 1 \in Int
      BY <2>4
    <3>3. Trimmed(mbr_shrink_to_fit(x, j), d, k)
      BY <2>2, <3>1, <3>2, TrimmedTwice
    <3>4. mbr_shrink_to_fit(x, j) \in MbrType
      BY <3>3 DEF Trimmed, Good, Table
    <3> QED BY <2>1, <3>3, <3>4
  <2> QED BY <2>3, <2>4
<1> HIDE DEF S, G
<1>3. PICK f : Loop(f, n, d, G) /\ \A j \in 0..n : f[j] \in S
  BY <1>0, <1>1, <1>2, LoopExists
<1> DEFINE Eq(s) == s = [j \in 0..n |-> IF j = 0 THEN d ELSE mbr_shrink_to_fit(s[j - 1], j)]
<1>4. Eq(f)
  <2>1. ASSUME NEW j \in 0..n
        PROVE  (IF j = 0 THEN d ELSE G[<<j, f[j - 1]>>])
                 = IF j = 0 THEN d ELSE mbr_shrink_to_fit(f[j - 1], j)
    <3>1. j # 0 => j \in 1..n /\ f[j - 1] \in S
      BY <1>0, <1>3
    <3> QED BY <1>2, <3>1
  <2> QED BY <1>3, <2>1 DEF Loop
<1>5. PICK s : Eq(s) /\ ShrinkAll(d) = s[n]
  <2>1. ShrinkAll(d) = (CHOOSE s : Eq(s))[n]
    BY DEF ShrinkAll
  <2>2. Eq(CHOOSE s : Eq(s))
    BY <1>4
  <2> QED BY <2>1, <2>2
<1> DEFINE M == { m \in Nat : m <= n => s[m] \in S }
<1>6. 0 \in M
  <2>1. s[0] = d
    BY <1>0, <1>5
  <2> QED BY <1>1, <2>1
<1>7. ASSUME NEW m \in Nat, m \in M PROVE m + 1 \in M
  <2> SUFFICES ASSUME m + 1 <= n PROVE s[m + 1] \in S
    OBVIOUS
  <2>1. s[m] \in S /\ m + 1 \in 1..n
    BY <1>0, <1>7
  <2>2. s[m + 1] = mbr_shrink_to_fit(s[m], m + 1)
    BY <1>0, <1>5, <2>1
  <2> QED BY <1>2, <2>1, <2>2
<1> HIDE DEF M
<1>8. n \in M
  BY <1>0, <1>6, <1>7, SetInduction
<1> QED BY <1>0, <1>5, <1>8 DEF M, S

-----------------------------------------------------------------------------
\* Growing: the outcome o of growing partition k of d by diff sectors.  A failure
\* leaves the table that was cut down, and is impossible if the disk has room.
Grown(o, d, k, diff) ==
  /\ o.ok \in BOOLEAN
  /\ Good(o.mbr)
  /\ Len(o.mbr.part) = Len(d.part)
  /\ o.ok => /\ o.mbr.part[k] = Longer(d.part[k], diff)
             /\ LastEnd(o.mbr) <= LastEnd(d) + diff
  /\ LastEnd(d) + diff <= Sectors => o.ok

\* How much a request to grow by n really adds.
GrowBy(n) == IF n = 0 THEN Align ELSE AlignUp(n)

Moved(r, d) == r.ok \in BOOLEAN /\ r.mbr \in MbrType /\ r.mbr.part = d.part

\* volume_memmove leaves the table alone, whether it fails or not.
LEMMA MoveTypes ==
  ASSUME NEW d \in MbrType, NEW dst \in Nat, NEW src \in Nat, NEW n \in Nat,
         NEW r, r = MemMove(d, dst, src, n)
  PROVE  Moved(r, d)
<1> USE MbrAssumption DEF Moved
<1>1. CASE n = 0 \/ dst = src
  BY <1>1 DEF MemMove, Ok
<1>2. CASE ~(n = 0 \/ dst = src)
  <2> DEFINE E == {dst, src}
  <2>1. PICK top \in Nat : top = Max({dst, src}) /\ dst <= top /\ src <= top
    <3>0. PICK b \in Nat : b = dst + src
      OBVIOUS
    <3>1. E \subseteq 0..b /\ E # {} /\ dst \in E /\ src \in E
      BY <3>0
    <3>2. \A x \in E : x \in Nat
      OBVIOUS
    <3> HIDE DEF E
    <3>3. Max(E) \in E /\ dst <= Max(E) /\ src <= Max(E)
      BY <3>1, MaxIsGreatest
    <3> QED BY <3>2, <3>3 DEF E
  <2>2. CASE top + n > Sectors
    <3>1. r = Err(d)
      BY <1>2, <2>1, <2>2 DEF MemMove
    <3> QED BY <3>1 DEF Err
  <2>3. CASE ~(top + n > Sectors)
    <3>1. PICK X : X = [s \in Disk |-> IF s >= dst /\ s < dst + n THEN d.disk[s - dst + src] ELSE d.disk[s]]
      OBVIOUS
    <3>2. r = Ok([d EXCEPT !.disk = X])
      BY <1>2, <2>1, <2>3, <3>1 DEF MemMove
    <3>3. ASSUME NEW s \in Disk
          PROVE  (IF s >= dst /\ s < dst + n THEN d.disk[s - dst + src] ELSE d.disk[s]) \in Nat
      <4>1. d.disk \in [Disk -> Nat]
        BY DEF MbrType
      <4>2. s >= dst /\ s < dst + n => s - dst + src \in Disk
        BY <2>1, <2>3 DEF Disk
      <4> QED BY <4>1, <4>2
    <3>4. X \in [Disk -> Nat]
      BY <3>1, <3>3
    <3>5. PICK y : y = [d EXCEPT !.disk = X]
      OBVIOUS
    <3>6. y \in MbrType /\ y.part = d.part
      BY <3>4, <3>5, WithDisk
    <3>7. r.ok = TRUE /\ r.mbr = y
      BY <3>2, <3>5 DEF Ok
    <3> QED BY <3>6, <3>7
  <2> QED BY <2>2, <2>3
<1> QED BY <1>1, <1>2

\* A move to higher sectors succeeds if it ends on the disk, and changes nothing if
\* it fails.
LEMMA MemMoveFacts ==
  ASSUME NEW d \in MbrType, NEW dst \in Nat, NEW src \in Nat, NEW n \in Nat, src <= dst,
         NEW r, r = MemMove(d, dst, src, n)
  PROVE  (dst + n <= Sectors => r.ok) /\ (~r.ok => r.mbr = d)
<1> USE MbrAssumption
<1>1. CASE n = 0 \/ dst = src
  BY <1>1 DEF MemMove, Ok
<1>2. CASE ~(n = 0 \/ dst = src)
  <2> DEFINE E == {dst, src}
  <2>1. Max({dst, src}) = dst
    <3>1. E \subseteq 0..dst /\ E # {} /\ dst \in E
      OBVIOUS
    <3>2. \A x \in E : x <= dst /\ x \in Nat
      OBVIOUS
    <3> HIDE DEF E
    <3>3. Max(E) \in E /\ dst <= Max(E)
      BY <3>1, MaxIsGreatest
    <3>4. Max(E) = dst
      BY <3>2, <3>3
    <3> QED BY <3>4 DEF E
  <2>2. CASE dst + n > Sectors
    <3>1. r.ok = FALSE /\ r.mbr = d
      BY <1>2, <2>1, <2>2 DEF MemMove, Err
    <3>2. ~(dst + n <= Sectors)
      BY <2>2
    <3> QED BY <3>1, <3>2
  <2>3. CASE ~(dst + n > Sectors)
    <3>1. r.ok = TRUE
      BY <1>2, <2>1, <2>3 DEF MemMove, Ok
    <3> QED BY <3>1
  <2> QED BY <2>2, <2>3
<1> QED BY <1>1, <1>2

\* The sectors grow_partition adds: aligned, at least as many as asked for.
LEMMA GrowByFacts ==
  ASSUME NEW n \in Nat
  PROVE  GrowBy(n) \in Nat /\ Aligned(GrowBy(n)) /\ n <= GrowBy(n) /\ GrowBy(n) >= Align
<1> USE MbrAssumption
<1>1. Aligned(Align)
  BY DEF Aligned
<1> QED BY <1>1, AlignUpFacts DEF GrowBy

\* grow_partition, with the later partitions cut down first and then pushed back.
LEMMA GrowFacts ==
  ASSUME NEW d, Good(d), NEW k \in 1..Len(d.part), NEW n \in Nat
  PROVE  Grown(grow_partition(d, k, n), d, k, GrowBy(n))
<1> USE MbrAssumption
<1>1. PICK diff \in Nat : diff = GrowBy(n) /\ Aligned(diff)
  BY GrowByFacts
<1>2. PICK s : s = ShrinkBehind(d, k)
  OBVIOUS
<1>3. Good(s) /\ Table(s) /\ s \in MbrType /\ Len(s.part) = Len(d.part) /\ s.part[k] = d.part[k]
      /\ LastEnd(s) <= LastEnd(d)
  BY <1>2, ShrinkBehindFacts DEF Trimmed, Good, Table
<1>4. LastEnd(s) \in Nat /\ LastEnd(d) \in Nat /\ End(s.part[k]) \in Nat /\ End(s.part[k]) <= LastEnd(s)
  BY <1>3, LastEndFacts, PartTypes DEF Good
<1>5. PICK end \in Nat, last \in Nat : end = End(s.part[k]) /\ last = LastEnd(s)
  BY <1>4
<1>6. PICK moved : moved = MemMove(s, end + diff, end, last - end)
  OBVIOUS
<1>7. PICK tail \in Nat : tail = last - end
  BY <1>4, <1>5
<1>8. /\ moved.ok \in BOOLEAN /\ moved.mbr \in MbrType /\ moved.mbr.part = s.part
      /\ ((end + diff) + tail <= Sectors => moved.ok)
      /\ (~moved.ok => moved.mbr = s)
  <2>1. PICK dst \in Nat : dst = end + diff /\ end <= dst
    OBVIOUS
  <2>2. moved = MemMove(s, dst, end, tail)
    BY <1>6, <1>7, <2>1
  <2>3. moved.ok \in BOOLEAN /\ moved.mbr \in MbrType /\ moved.mbr.part = s.part
    <3>1. Moved(moved, s)
      BY <1>3, <2>2, MoveTypes
    <3> QED BY <3>1 DEF Moved
  <2>4. (dst + tail <= Sectors => moved.ok) /\ (~moved.ok => moved.mbr = s)
    BY <1>3, <2>1, <2>2, MemMoveFacts
  <2> QED BY <2>1, <2>3, <2>4
<1>9. LastEnd(d) + diff <= Sectors => moved.ok
  BY <1>3, <1>4, <1>5, <1>7, <1>8
<1>10. grow_partition(d, k, n)
         = IF moved.ok THEN Ok(Resize(Discard(moved.mbr, end, diff), k, diff)) ELSE moved
  BY <1>1, <1>2, <1>5, <1>6 DEF grow_partition, GrowBy, Then
<1>11. CASE ~moved.ok
  BY <1>1, <1>3, <1>8, <1>9, <1>10, <1>11 DEF Grown
<1>12. CASE moved.ok
  <2>1. PICK x : x = Discard(moved.mbr, end, diff)
    OBVIOUS
  <2>2. x \in MbrType /\ x.part = s.part
    BY <1>8, <2>1, DiscardFacts
  <2>3. Good(x) /\ Table(x) /\ LastEnd(x) = LastEnd(s)
    BY <1>3, <2>2, SamePart
  <2>4. PICK e : e = Resize(x, k, diff)
    OBVIOUS
  <2>5. x.part[k].count + diff >= x.part[k].min
    <3>1. PICK c \in Nat, m \in Nat : c = x.part[k].count /\ m = x.part[k].min
      BY <1>3, <2>2, PartTypes
    <3>2. m <= c
      BY <1>3, <2>2, <2>3, <3>1 DEF Table, Sized
    <3> QED BY <3>1, <3>2
  <2>6. Resized(e, x, k, diff)
    BY <1>1, <1>3, <2>2, <2>3, <2>4, <2>5, ResizeFacts
  <2>7. Table(e) /\ LastEnd(e) = LastEnd(x) + diff
    BY <1>1, <1>3, <2>2, <2>3, <2>5, <2>6, ResizedTable
  <2>8. ASSUME NEW j \in 1..Len(d.part) PROVE e.part[j].used <= e.part[j].count
    <3>0. x.part[j] \in PartRec /\ x.part[j].used <= x.part[j].count
      BY <1>3, <2>2, <2>3, PartTypes DEF Good, UsedOK
    <3>1. PICK u \in Nat, c \in Nat : u = x.part[j].used /\ c = x.part[j].count
      BY <3>0 DEF PartRec
    <3>2. CASE j < k
      BY <3>0, <3>2, <1>3, <2>2, <2>6 DEF Resized
    <3>3. CASE j > k
      <4>1. e.part[j] = Shifted(x.part[j], diff)
        BY <3>3, <1>3, <2>2, <2>6 DEF Resized
      <4> QED BY <3>0, <4>1, ShiftedFacts
    <3>4. CASE j = k
      <4>1. e.part[j] = Longer(x.part[j], diff)
        BY <3>4, <2>6 DEF Resized
      <4>2. e.part[j].used = u /\ e.part[j].count = c + diff
        BY <3>0, <3>1, <4>1, LongerFacts
      <4> QED BY <3>0, <3>1, <4>2
    <3> QED BY <3>2, <3>3, <3>4
  <2>9. Len(e.part) = Len(d.part) /\ e.part[k] = Longer(d.part[k], diff)
    BY <1>3, <2>2, <2>6 DEF Resized
  <2>10. Good(e)
    BY <2>7, <2>8, <2>9 DEF Good, UsedOK
  <2>11. LastEnd(e) <= LastEnd(d) + diff
    BY <1>3, <1>4, <2>3, <2>7
  <2>12. grow_partition(d, k, n).mbr = e /\ grow_partition(d, k, n).ok = TRUE
    BY <1>10, <1>12, <2>1, <2>4 DEF Ok
  <2> QED BY <1>1, <2>9, <2>10, <2>11, <2>12 DEF Grown
<1> QED BY <1>8, <1>11, <1>12

-----------------------------------------------------------------------------
\* The sectors of all partitions, behind the reserved ones, are the whole table.
LEMMA AllocatedFacts ==
  ASSUME NEW d, Table(d)
  PROVE  Allocated(d) \in Nat /\ Align + Allocated(d) = LastEnd(d)
<1> USE MbrAssumption
<1>0. d \in MbrType /\ Chained(d.part) /\ Len(d.part) \in Nat
  BY DEF Table, MbrType
<1> DEFINE n == Len(d.part)
           G == [t \in (1..n) \X Nat |-> t[2] + d.part[t[1]].count]
           Eq(s) == s = [j \in 0..n |-> IF j = 0 THEN 0 ELSE s[j - 1] + d.part[j].count]
<1>1. ASSUME NEW j \in 1..n, NEW x \in Nat
      PROVE  G[<<j, x>>] = x + d.part[j].count /\ G[<<j, x>>] \in Nat
  <2>1. d.part[j].count \in Nat
    BY <1>0, PartTypes
  <2> QED BY <2>1
<1> HIDE DEF G
<1>2. PICK f : Loop(f, n, 0, G) /\ \A j \in 0..n : f[j] \in Nat
  <2>1. 0 \in Nat /\ \A j \in 1..n, x \in Nat : G[<<j, x>>] \in Nat
    BY <1>1
  <2> QED BY <1>0, <2>1, LoopExists
<1>3. Eq(f)
  <2>1. ASSUME NEW j \in 0..n
        PROVE  (IF j = 0 THEN 0 ELSE G[<<j, f[j - 1]>>])
                 = IF j = 0 THEN 0 ELSE f[j - 1] + d.part[j].count
    <3>1. j # 0 => j \in 1..n /\ f[j - 1] \in Nat
      BY <1>0, <1>2
    <3> QED BY <1>1, <3>1
  <2> QED BY <1>2, <2>1 DEF Loop
<1>4. PICK s : Eq(s) /\ Allocated(d) = s[n]
  <2>1. Allocated(d) = (CHOOSE s : Eq(s))[n]
    BY DEF Allocated
  <2>2. Eq(CHOOSE s : Eq(s))
    BY <1>3
  <2> QED BY <2>1, <2>2
<1> DEFINE M == { m \in Nat : m <= n => s[m] \in Nat /\ Align + s[m] = IF m = 0 THEN Align ELSE End(d.part[m]) }
<1>5. 0 \in M
  <2>1. s[0] = 0
    BY <1>0, <1>4
  <2> QED BY <2>1
<1>6. ASSUME NEW m \in Nat, m \in M PROVE m + 1 \in M
  <2> SUFFICES ASSUME m + 1 <= n
               PROVE  s[m + 1] \in Nat /\ Align + s[m + 1] = End(d.part[m + 1])
    OBVIOUS
  <2>1. m + 1 \in 1..n
    BY <1>0
  <2>2. PICK c \in Nat, i \in Nat : c = d.part[m + 1].count /\ i = d.part[m + 1].index
    BY <1>0, <2>1, PartTypes
  <2>3. s[m + 1] = s[m] + c
    BY <1>0, <1>4, <2>1, <2>2
  <2>4. s[m] \in Nat /\ Align + s[m] = IF m = 0 THEN Align ELSE End(d.part[m])
    BY <1>0, <1>6
  <2>5. i = IF m = 0 THEN Align ELSE End(d.part[m])
    BY <1>0, <2>1, <2>2 DEF Chained
  <2>6. End(d.part[m + 1]) = i + c
    BY <2>2 DEF End
  <2> QED BY <2>3, <2>4, <2>5, <2>6
<1> HIDE DEF M
<1>7. n \in M
  BY <1>0, <1>5, <1>6, SetInduction
<1>8. s[n] \in Nat /\ Align + s[n] = IF n = 0 THEN Align ELSE End(d.part[n])
  BY <1>0, <1>7 DEF M
<1> QED BY <1>4, <1>8, LastEndFacts

\* What is counted as free is aligned and fits behind the table.
LEMMA FreeSpaceFacts ==
  ASSUME NEW d, Table(d)
  PROVE  /\ get_free_space(d) \in Nat /\ Aligned(get_free_space(d))
         /\ get_free_space(d) = 0 \/ LastEnd(d) + get_free_space(d) <= Sectors
<1> USE MbrAssumption
<1>1. PICK free \in Nat : free = AlignDown(Sectors) /\ Aligned(free) /\ free <= Sectors
  BY AlignDownFacts
<1>2. PICK last \in Nat : last = LastEnd(d)
  BY LastEndFacts
<1>3. get_free_space(d) = IF last < free THEN free - last ELSE 0
  BY <1>1, <1>2, AllocatedFacts DEF get_free_space
<1>4. Aligned(last)
  <2>0. d \in MbrType /\ Len(d.part) \in Nat
    BY DEF Table, MbrType
  <2> DEFINE M == { m \in Nat : m \in 1..Len(d.part) => Aligned(End(d.part[m])) }
  <2>1. 0 \in M
    OBVIOUS
  <2>2. ASSUME NEW m \in Nat, m \in M PROVE m + 1 \in M
    <3> SUFFICES ASSUME m + 1 \in 1..Len(d.part) PROVE Aligned(End(d.part[m + 1]))
      OBVIOUS
    <3>1. PICK i \in Nat, c \in Nat : i = d.part[m + 1].index /\ c = d.part[m + 1].count
      BY <2>0, PartTypes
    <3>2. Aligned(c)
      BY <3>1 DEF Table, Sized
    <3>3. i = IF m = 0 THEN Align ELSE End(d.part[m])
      BY <3>1, <2>0 DEF Table, Chained
    <3>4. Aligned(Align)
      BY DEF Aligned
    <3>5. m # 0 => Aligned(End(d.part[m]))
      BY <2>0, <2>2
    <3>6. Aligned(i)
      BY <3>3, <3>4, <3>5
    <3>7. Aligned(i + c)
      BY <3>2, <3>6, AlignedSum
    <3> QED BY <3>1, <3>7 DEF End
  <2> HIDE DEF M
  <2>3. \A m \in Nat : m \in M
    BY <2>1, <2>2, SetInduction
  <2>4. Len(d.part) # 0 => Aligned(End(d.part[Len(d.part)]))
    BY <2>0, <2>3 DEF M
  <2>5. Aligned(Align)
    BY DEF Aligned
  <2> QED BY <1>2, <2>4, <2>5, LastEndFacts
<1>5. Aligned(free - last) /\ Aligned(0)
  BY <1>1, <1>4, AlignedSum
<1> QED BY <1>1, <1>2, <1>3, <1>5

\* mbr_apply_expand_policy keeps the table good.
LEMMA ExpandFacts ==
  ASSUME NEW d, Good(d), NEW k \in 1..Len(d.part)
  PROVE  LET o == mbr_apply_expand_policy(d, k)
         IN  o.ok \in BOOLEAN /\ Good(o.mbr) /\ Len(o.mbr.part) = Len(d.part)
<1>0. Table(d) /\ d \in MbrType
  BY DEF Good, Table
<1>1. PICK avail \in Nat : avail = get_free_space(d)
  BY <1>0, FreeSpaceFacts
<1>2. PICK c \in Nat : c = d.part[k].count
  BY <1>0, PartTypes
<1>3. CASE ~d.part[k].fill \/ c >= avail
  <2>1. mbr_apply_expand_policy(d, k) = Ok(d)
    BY <1>1, <1>2, <1>3 DEF mbr_apply_expand_policy
  <2> QED BY <2>1 DEF Ok
<1>4. CASE ~(~d.part[k].fill \/ c >= avail)
  <2>1. PICK w \in Nat : w = avail - c
    BY <1>4
  <2>2. mbr_apply_expand_policy(d, k) = grow_partition(d, k, w)
    BY <1>1, <1>2, <1>4, <2>1 DEF mbr_apply_expand_policy
  <2> QED BY <2>2, GrowFacts DEF Grown
<1> QED BY <1>3, <1>4

\* So does every turn of its loop over the partitions in mbr_disk_commit.
LEMMA ExpandLoop ==
  ASSUME NEW d, Good(d)
  PROVE  \E s : /\ ExpandAll(d) = s[Len(d.part)]
                /\ s[0] = Ok(d)
                /\ \A j \in 1..Len(d.part) :
                     s[j] = IF s[j - 1].ok THEN mbr_apply_expand_policy(s[j - 1].mbr, j) ELSE s[j - 1]
                /\ \A j \in 0..Len(d.part) :
                     s[j].ok \in BOOLEAN /\ Good(s[j].mbr) /\ Len(s[j].mbr.part) = Len(d.part)
<1>0. d \in MbrType /\ Len(d.part) \in Nat
  BY DEF Good, Table, MbrType
<1> DEFINE n == Len(d.part)
           S == { o \in [mbr : MbrType, ok : BOOLEAN] : Good(o.mbr) /\ Len(o.mbr.part) = n }
           Turn(j, o) == IF o.ok THEN mbr_apply_expand_policy(o.mbr, j) ELSE o
           G == [t \in (1..n) \X S |-> Turn(t[1], t[2])]
           Eq(s) == s = [j \in 0..n |-> IF j = 0 THEN Ok(d) ELSE Turn(j, s[j - 1])]
<1>1. Ok(d) \in S
  BY <1>0 DEF Ok
<1>2. ASSUME NEW j \in 1..n, NEW o \in S
      PROVE  G[<<j, o>>] = Turn(j, o) /\ G[<<j, o>>] \in S
  <2>1. G[<<j, o>>] = Turn(j, o)
    OBVIOUS
  <2>2. Good(o.mbr) /\ Len(o.mbr.part) = n
    OBVIOUS
  <2>3. PICK r : r = mbr_apply_expand_policy(o.mbr, j)
    OBVIOUS
  <2>4. r.ok \in BOOLEAN /\ Good(r.mbr) /\ Len(r.mbr.part) = n
    BY <2>2, <2>3, ExpandFacts
  <2>5. r \in S
    <3>1. r.mbr \in MbrType
      BY <2>4 DEF Good, Table
    <3>2. r = [mbr |-> r.mbr, ok |-> r.ok]
      BY <2>3 DEF mbr_apply_expand_policy, Ok, grow_partition, Then, MemMove, Err
    <3> QED BY <2>4, <3>1, <3>2
  <2> QED BY <2>1, <2>3, <2>5
<1> HIDE DEF S, G, Turn
<1>3. PICK f : Loop(f, n, Ok(d), G) /\ \A j \in 0..n : f[j] \in S
  BY <1>0, <1>1, <1>2, LoopExists
<1>4. Eq(f)
  <2>1. ASSUME NEW j \in 0..n
        PROVE  (IF j = 0 THEN Ok(d) ELSE G[<<j, f[j - 1]>>])
                 = IF j = 0 THEN Ok(d) ELSE Turn(j, f[j - 1])
    <3>1. j # 0 => j \in 1..n /\ f[j - 1] \in S
      BY <1>0, <1>3
    <3> QED BY <1>2, <3>1
  <2> QED BY <1>3, <2>1 DEF Loop
<1>5. PICK s : Eq(s) /\ ExpandAll(d) = s[n]
  <2>1. ExpandAll(d) = (CHOOSE s : Eq(s))[n]
    BY DEF ExpandAll, Then, Turn
  <2>2. Eq(CHOOSE s : Eq(s))
    BY <1>4
  <2> QED BY <2>1, <2>2
<1> DEFINE M == { m \in Nat : m <= n => s[m] \in S }
<1>6. 0 \in M
  <2>1. s[0] = Ok(d)
    BY <1>0, <1>5
  <2> QED BY <1>1, <2>1
<1>7. ASSUME NEW m \in Nat, m \in M PROVE m + 1 \in M
  <2> SUFFICES ASSUME m + 1 <= n PROVE s[m + 1] \in S
    OBVIOUS
  <2>1. s[m] \in S /\ m + 1 \in 1..n
    BY <1>0, <1>7
  <2>2. s[m + 1] = Turn(m + 1, s[m])
    BY <1>0, <1>5, <2>1
  <2> QED BY <1>2, <2>1, <2>2
<1> HIDE DEF M
<1>8. \A m \in Nat : m \in M
  BY <1>6, <1>7, SetInduction
<1>9. \A j \in 0..n : s[j] \in S
  BY <1>8 DEF M
<1>10. \A j \in 0..n : s[j].ok \in BOOLEAN /\ Good(s[j].mbr) /\ Len(s[j].mbr.part) = n
  BY <1>9 DEF S
<1>11. s[0] = Ok(d) /\ \A j \in 1..n : s[j] = Turn(j, s[j - 1])
  BY <1>0, <1>5
<1> QED BY <1>5, <1>10, <1>11 DEF Turn

\* And so its end.
LEMMA ExpandAllFacts ==
  ASSUME NEW d, Good(d)
  PROVE  Good(ExpandAll(d).mbr) /\ ExpandAll(d).ok \in BOOLEAN
<1>1. Len(d.part) \in 0..Len(d.part)
  BY DEF Good, Table, MbrType
<1> QED BY <1>1, ExpandLoop

-----------------------------------------------------------------------------
\* The tables have the same partitions, apart from their flags and use.
SameLayout(e, d) ==
  /\ e \in MbrType
  /\ Len(e.part) = Len(d.part)
  /\ \A j \in 1..Len(d.part) : /\ e.part[j].index = d.part[j].index
                               /\ e.part[j].count = d.part[j].count
                               /\ e.part[j].min = d.part[j].min

\* A table with the same starts, sizes and minimums is as good.
LEMMA SameLayoutFacts ==
  ASSUME NEW d, Table(d), NEW e, SameLayout(e, d), OneFill(e.part)
  PROVE  Table(e) /\ LastEnd(e) = LastEnd(d)
<1>0. d \in MbrType /\ e \in MbrType /\ Len(e.part) = Len(d.part) /\ Len(d.part) \in Nat
  BY DEF SameLayout, Table, MbrType
<1>1. ASSUME NEW j \in 1..Len(d.part) PROVE End(e.part[j]) = End(d.part[j])
  BY DEF SameLayout, End
<1>2. Chained(e.part)
  <2> SUFFICES ASSUME NEW j \in 1..Len(d.part)
               PROVE  e.part[j].index = IF j = 1 THEN Align ELSE End(e.part[j - 1])
    BY <1>0 DEF Chained
  <2>1. d.part[j].index = IF j = 1 THEN Align ELSE End(d.part[j - 1])
    BY DEF Table, Chained
  <2>2. j # 1 => End(e.part[j - 1]) = End(d.part[j - 1])
    BY <1>1
  <2> QED BY <2>1, <2>2 DEF SameLayout
<1>3. Sized(e.part)
  BY DEF Table, Sized, SameLayout
<1>4. Table(e)
  BY <1>0, <1>2, <1>3 DEF Table
<1> QED BY <1>0, <1>1, <1>4, LastEndFacts

\* Setting what is counted as used in one partition.
SetUsed(d, k, u) == [d EXCEPT !.part[k].used = u]

\* Another number of used sectors, within the partition.
LEMMA SetUsedFacts ==
  ASSUME NEW d, Table(d), NEW k \in 1..Len(d.part), NEW u \in Nat, u <= d.part[k].count,
         \A j \in 1..Len(d.part) : j # k => d.part[j].used <= d.part[j].count
  PROVE  /\ Good(SetUsed(d, k, u)) /\ Len(SetUsed(d, k, u).part) = Len(d.part)
         /\ LastEnd(SetUsed(d, k, u)) = LastEnd(d)
         /\ SetUsed(d, k, u).part[k].count = d.part[k].count
         /\ SetUsed(d, k, u).part[k].index = d.part[k].index
<1>0. d \in MbrType /\ Len(d.part) \in Nat /\ DOMAIN d.part = 1..Len(d.part) /\ d.part \in Seq(PartRec)
  BY PartTypes DEF Table
<1>1. PICK p : p = [d.part[k] EXCEPT !.used = u]
  OBVIOUS
<1>2. p \in PartRec /\ p.used = u /\ p.index = d.part[k].index /\ p.count = d.part[k].count
      /\ p.min = d.part[k].min /\ p.fill = d.part[k].fill
  <2>1. PICK q \in PartRec : q = d.part[k]
    BY <1>0, PartTypes
  <2>2. p = [q EXCEPT !.used = u]
    BY <1>1, <2>1
  <2> QED BY <2>1, <2>2 DEF PartRec
<1>3. PICK X : X = [d.part EXCEPT ![k] = p]
  OBVIOUS
<1>4. PICK e : e = SetUsed(d, k, u)
  OBVIOUS
<1>5. e = [d EXCEPT !.part = X]
  BY <1>0, <1>1, <1>3, <1>4 DEF SetUsed, MbrType
<1>6. X \in Seq(PartRec) /\ Len(X) = Len(d.part) /\ X[k] = p
      /\ \A j \in 1..Len(d.part) : j # k => X[j] = d.part[j]
  BY <1>0, <1>2, <1>3
<1>7. e \in MbrType /\ e.part = X
  BY <1>0, <1>5, <1>6, WithPart
<1>8. ASSUME NEW j \in 1..Len(d.part)
      PROVE  /\ e.part[j].index = d.part[j].index /\ e.part[j].count = d.part[j].count
             /\ e.part[j].min = d.part[j].min /\ e.part[j].fill = d.part[j].fill
             /\ e.part[j].used = IF j = k THEN u ELSE d.part[j].used
  BY <1>2, <1>6, <1>7
<1>9. SameLayout(e, d)
  BY <1>6, <1>7, <1>8 DEF SameLayout
<1>10. OneFill(e.part)
  BY <1>6, <1>7, <1>8 DEF OneFill, Table
<1>11. Table(e) /\ LastEnd(e) = LastEnd(d)
  BY <1>9, <1>10, SameLayoutFacts
<1>12. UsedOK(e.part)
  BY <1>6, <1>7, <1>8 DEF UsedOK
<1> QED BY <1>4, <1>6, <1>7, <1>8, <1>11, <1>12 DEF Good

\* A write raises the number of used sectors.
LEMMA UseUpToFacts ==
  ASSUME NEW d, Good(d), NEW k \in 1..Len(d.part), NEW n \in Nat, n <= d.part[k].count
  PROVE  Good(UseUpTo(d, k, n)) /\ Len(UseUpTo(d, k, n).part) = Len(d.part)
<1>0. Table(d) /\ d \in MbrType
  BY DEF Good, Table
<1>1. PICK u \in Nat, c \in Nat : u = d.part[k].used /\ c = d.part[k].count
  BY <1>0, PartTypes
<1>2. u <= c /\ \A j \in 1..Len(d.part) : d.part[j].used <= d.part[j].count
  BY <1>1 DEF Good, UsedOK
<1> DEFINE E == {u, n}
<1>3. PICK v \in Nat : v = Max({d.part[k].used, n}) /\ v <= c
  <2>1. E \subseteq 0..c /\ E # {} /\ \A x \in E : x \in Nat /\ x <= c
    BY <1>1, <1>2
  <2>2. Max({d.part[k].used, n}) = Max(E)
    BY <1>1
  <2> HIDE DEF E
  <2>3. Max(E) \in E
    BY <2>1, MaxIsGreatest
  <2> QED BY <2>1, <2>2, <2>3
<1>4. UseUpTo(d, k, n) = SetUsed(d, k, v)
  BY <1>3 DEF UseUpTo, SetUsed
<1> QED BY <1>0, <1>1, <1>2, <1>3, <1>4, SetUsedFacts

\* part_discard_blocks.
LEMMA DiscardBlocksFacts ==
  ASSUME NEW d, Good(d), NEW k \in 1..Len(d.part), NEW i \in Nat, NEW n \in Nat
  PROVE  Good(DiscardBlocks(d, k, i, n)) /\ Len(DiscardBlocks(d, k, i, n).part) = Len(d.part)
<1>0. Table(d) /\ d \in MbrType
  BY DEF Good, Table
<1>1. PICK u \in Nat, c \in Nat, x \in Nat : u = d.part[k].used /\ c = d.part[k].count /\ x = d.part[k].index
  BY <1>0, PartTypes
<1>2. u <= c /\ \A j \in 1..Len(d.part) : d.part[j].used <= d.part[j].count
  BY <1>1 DEF Good, UsedOK
<1>3. PICK m : m = Min({n, u - i})
  OBVIOUS
<1>4. CASE i >= u \/ m = 0
  <2>1. DiscardBlocks(d, k, i, n) = d
    BY <1>1, <1>3, <1>4 DEF DiscardBlocks
  <2> QED BY <2>1
<1>5. CASE ~(i >= u \/ m = 0)
  <2>1. PICK v \in Nat : v = (IF i + m = u THEN i ELSE u) /\ v <= c
    BY <1>2, <1>5
  <2>2. DiscardBlocks(d, k, i, n) = Discard(SetUsed(d, k, v), x + i, m)
    BY <1>1, <1>3, <1>5, <2>1 DEF DiscardBlocks, SetUsed
  <2>3. PICK e : e = SetUsed(d, k, v)
    OBVIOUS
  <2>4. Good(e) /\ Len(e.part) = Len(d.part)
    BY <1>0, <1>1, <1>2, <2>1, <2>3, SetUsedFacts
  <2>5. e \in MbrType
    BY <2>4 DEF Good, Table
  <2>6. Discard(e, x + i, m) \in MbrType /\ Discard(e, x + i, m).part = e.part
    BY <2>5, DiscardFacts
  <2> QED BY <2>2, <2>3, <2>4, <2>6, SamePart
<1> QED BY <1>4, <1>5

-----------------------------------------------------------------------------
\* The calls: a good table stays good, whether they succeed or fail.
GoodOutcome(o) == o.ok \in BOOLEAN /\ Good(o.mbr)

\* Writing a sector of the disk.
LEMMA WriteFacts ==
  ASSUME NEW d, Good(d), NEW s \in Nat, NEW v \in Nat
  PROVE  GoodOutcome(Write(d, s, v)) /\ (s < Sectors => Write(d, s, v).ok)
<1> USE MbrAssumption
<1>0. d \in MbrType
  BY DEF Good, Table
<1>1. CASE s \in Disk
  <2>1. PICK X : X = [d.disk EXCEPT ![s] = v]
    OBVIOUS
  <2>2. X \in [Disk -> Nat]
    BY <1>0, <2>1 DEF MbrType
  <2>3. PICK e : e = [d EXCEPT !.disk = X]
    OBVIOUS
  <2>4. e \in MbrType /\ e.part = d.part
    BY <1>0, <2>2, <2>3, WithDisk
  <2>5. Write(d, s, v) = Ok(e)
    BY <1>0, <1>1, <2>1, <2>3 DEF Write, MbrType
  <2>6. Good(e)
    BY <2>4, SamePart
  <2> QED BY <2>5, <2>6 DEF Ok, GoodOutcome
<1>2. CASE s \notin Disk
  <2>1. ~(s < Sectors)
    BY <1>2 DEF Disk
  <2>2. Write(d, s, v) = Err(d)
    BY <1>2 DEF Write
  <2> QED BY <2>1, <2>2 DEF Err, GoodOutcome
<1> QED BY <1>1, <1>2

\* The sectors a write needs: none, or what grow_partition adds.
LEMMA WriteBlockFacts ==
  ASSUME NEW d, Good(d), NEW k \in 1..Len(d.part), NEW i \in Nat
  PROVE  /\ GoodOutcome(WriteBlock(d, k, i))
         /\ i < d.part[k].count /\ LastEnd(d) <= Sectors => WriteBlock(d, k, i).ok
         /\ i >= d.part[k].count /\ d.part[k].grow
            /\ LastEnd(d) + GrowBy(i - d.part[k].count + 1) <= Sectors => WriteBlock(d, k, i).ok
<1> USE MbrAssumption
<1>0. Table(d) /\ d \in MbrType
  BY DEF Good, Table
<1>1. PICK c \in Nat, x \in Nat : c = d.part[k].count /\ x = d.part[k].index
  BY <1>0, PartTypes
<1>2. d.part[k].grow \in BOOLEAN
  BY <1>0, PartTypes DEF PartRec
<1>3. PICK last \in Nat : last = LastEnd(d)
  BY <1>0, LastEndFacts
<1> DEFINE store(a) == Write(UseUpTo(a, k, i + 1), x + i, k)
<1>4. WriteBlock(d, k, i)
        = IF i < c THEN store(d)
          ELSE IF ~d.part[k].grow THEN Err(d)
          ELSE IF grow_partition(d, k, i - c + 1).ok THEN store(grow_partition(d, k, i - c + 1).mbr)
          ELSE grow_partition(d, k, i - c + 1)
  BY <1>1 DEF WriteBlock, Then
<1>5. ASSUME NEW a, Good(a), Len(a.part) = Len(d.part), i + 1 <= a.part[k].count
      PROVE  GoodOutcome(store(a)) /\ (x + i < Sectors => store(a).ok)
  <2>1. i + 1 \in Nat /\ x + i \in Nat /\ k \in Nat
    OBVIOUS
  <2>2. Good(UseUpTo(a, k, i + 1))
    BY <1>5, <2>1, UseUpToFacts
  <2> QED BY <2>1, <2>2, WriteFacts
<1> HIDE DEF store
<1>6. CASE i < c
  <2>1. WriteBlock(d, k, i) = store(d)
    BY <1>4, <1>6
  <2>2. i + 1 <= c
    BY <1>6
  <2>3. GoodOutcome(store(d)) /\ (x + i < Sectors => store(d).ok)
    BY <1>1, <1>5, <2>2
  <2>4. x + c <= last
    BY <1>0, <1>1, <1>3, LastEndFacts DEF End
  <2>5. last <= Sectors => x + i < Sectors
    BY <1>6, <2>4
  <2>6. ~(i >= c)
    BY <1>6
  <2> QED BY <1>1, <1>3, <2>1, <2>3, <2>5, <2>6
<1>7. CASE i >= c /\ ~d.part[k].grow
  <2>1. WriteBlock(d, k, i) = Err(d) /\ ~(i < c)
    BY <1>4, <1>7
  <2>2. GoodOutcome(Err(d))
    BY DEF Err, GoodOutcome
  <2> QED BY <1>1, <1>7, <2>1, <2>2
<1>8. CASE i >= c /\ d.part[k].grow
  <2>0. ~(i < c)
    BY <1>8
  <2>1. PICK w \in Nat : w = i - c + 1
    BY <1>8
  <2>2. PICK diff \in Nat : diff = GrowBy(w) /\ w <= diff
    BY GrowByFacts
  <2>3. PICK o : o = grow_partition(d, k, w)
    OBVIOUS
  <2>4. Grown(o, d, k, diff)
    BY <2>1, <2>2, <2>3, GrowFacts
  <2>5. WriteBlock(d, k, i) = IF o.ok THEN store(o.mbr) ELSE o
    BY <1>4, <1>8, <2>0, <2>1, <2>3
  <2>6. last + diff <= Sectors => o.ok
    BY <1>3, <2>4 DEF Grown
  <2>7. CASE o.ok
    <3>1. /\ Good(o.mbr) /\ Len(o.mbr.part) = Len(d.part) /\ LastEnd(o.mbr) <= last + diff
          /\ o.mbr.part[k] = Longer(d.part[k], diff)
      BY <1>3, <2>4, <2>7 DEF Grown
    <3>2. o.mbr.part[k].count = c + diff /\ o.mbr.part[k].index = x
      <4>1. PICK p \in PartRec : p = d.part[k]
        BY <1>0, PartTypes
      <4>2. Longer(p, diff).count = p.count + diff /\ Longer(p, diff).index = p.index
        BY LongerFacts
      <4> QED BY <1>1, <3>1, <4>1, <4>2
    <3>3. i + 1 <= o.mbr.part[k].count
      BY <2>1, <2>2, <3>2
    <3>4. GoodOutcome(store(o.mbr)) /\ (x + i < Sectors => store(o.mbr).ok)
      BY <1>5, <3>1, <3>3
    <3>5. LastEnd(o.mbr) \in Nat /\ x + (c + diff) <= LastEnd(o.mbr)
      BY <3>1, <3>2, LastEndFacts DEF Good, End
    <3>6. last + diff <= Sectors => x + i < Sectors
      BY <2>1, <2>2, <3>1, <3>5
    <3> QED BY <1>1, <1>3, <2>0, <2>1, <2>2, <2>5, <2>7, <3>4, <3>6
  <2>8. CASE ~o.ok
    <3>1. GoodOutcome(o) /\ ~(last + diff <= Sectors)
      BY <2>4, <2>6, <2>8 DEF Grown, GoodOutcome
    <3> QED BY <1>1, <1>3, <2>0, <2>1, <2>2, <2>5, <2>8, <3>1
  <2> QED BY <2>7, <2>8
<1> QED BY <1>2, <1>6, <1>7, <1>8

\* part_move_block.
LEMMA MoveBlockFacts ==
  ASSUME NEW d, Good(d), NEW k \in 1..Len(d.part), NEW src \in Nat, NEW dst \in Nat
  PROVE  GoodOutcome(MoveBlock(d, k, src, dst))
<1> USE MbrAssumption
<1>0. Table(d) /\ d \in MbrType
  BY DEF Good, Table
<1>1. PICK c \in Nat, x \in Nat, u \in Nat :
        c = d.part[k].count /\ x = d.part[k].index /\ u = d.part[k].used
  BY <1>0, PartTypes
<1> DEFINE copy(a) == MemMove(UseUpTo(a, k, dst), x + dst, x + src, 1)
<1>2. ASSUME NEW a, Good(a), Len(a.part) = Len(d.part), dst <= a.part[k].count
      PROVE  GoodOutcome(copy(a))
  <2>1. PICK b : b = UseUpTo(a, k, dst)
    OBVIOUS
  <2>2. Good(b) /\ b \in MbrType
    BY <1>2, <2>1, UseUpToFacts DEF Good, Table
  <2>3. PICK r : r = MemMove(b, x + dst, x + src, 1)
    OBVIOUS
  <2>4. x + dst \in Nat /\ x + src \in Nat /\ 1 \in Nat
    OBVIOUS
  <2>5. r.ok \in BOOLEAN /\ r.mbr \in MbrType /\ r.mbr.part = b.part
    BY <2>2, <2>3, <2>4, MoveTypes, SMTT(30) DEF Moved
  <2>6. Good(r.mbr)
    BY <2>2, <2>5, SamePart
  <2> QED BY <2>1, <2>3, <2>5, <2>6 DEF GoodOutcome
<1>3. GoodOutcome(Err(d)) /\ GoodOutcome(Ok(d))
  BY DEF Err, Ok, GoodOutcome
<1>4. GoodOutcome(Ok(DiscardBlocks(d, k, dst, 1)))
  <2>1. Good(DiscardBlocks(d, k, dst, 1))
    BY DiscardBlocksFacts
  <2> QED BY <2>1 DEF Ok, GoodOutcome
<1>5. dst < c => GoodOutcome(copy(d))
  BY <1>1, <1>2
<1>6. ASSUME dst >= c
      PROVE  GoodOutcome(IF grow_partition(d, k, dst - c + 1).ok
                         THEN copy(grow_partition(d, k, dst - c + 1).mbr)
                         ELSE grow_partition(d, k, dst - c + 1))
  <2>1. PICK w \in Nat : w = dst - c + 1
    BY <1>6
  <2>2. PICK diff \in Nat : diff = GrowBy(w) /\ w <= diff
    BY GrowByFacts
  <2>3. PICK o : o = grow_partition(d, k, w)
    OBVIOUS
  <2>4. Grown(o, d, k, diff)
    BY <2>2, <2>3, GrowFacts
  <2>5. CASE o.ok
    <3>1. /\ Good(o.mbr) /\ Len(o.mbr.part) = Len(d.part)
          /\ o.mbr.part[k] = Longer(d.part[k], diff)
      BY <2>4, <2>5 DEF Grown
    <3>2. o.mbr.part[k].count = c + diff
      <4>1. PICK p \in PartRec : p = d.part[k]
        BY <1>0, PartTypes
      <4>2. Longer(p, diff).count = p.count + diff
        BY LongerFacts
      <4> QED BY <1>1, <3>1, <4>1, <4>2
    <3>3. dst <= o.mbr.part[k].count
      BY <2>1, <2>2, <3>2
    <3>4. GoodOutcome(copy(o.mbr))
      BY <1>2, <3>1, <3>3
    <3> QED BY <2>1, <2>3, <2>5, <3>4
  <2>6. CASE ~o.ok
    <3>1. GoodOutcome(o)
      BY <2>4 DEF Grown, GoodOutcome
    <3> QED BY <2>1, <2>3, <2>6, <3>1
  <2>7. o.ok \in BOOLEAN
    BY <2>4 DEF Grown
  <2> QED BY <2>5, <2>6, <2>7
<1>7. MoveBlock(d, k, src, dst)
        = IF (src >= c \/ dst >= c) /\ ~d.part[k].grow THEN Err(d)
          ELSE IF src >= u /\ dst >= u THEN Ok(d)
          ELSE IF src >= u THEN Ok(DiscardBlocks(d, k, dst, 1))
          ELSE IF dst >= c
          THEN IF grow_partition(d, k, dst - c + 1).ok
               THEN copy(grow_partition(d, k, dst - c + 1).mbr)
               ELSE grow_partition(d, k, dst - c + 1)
          ELSE copy(d)
  BY <1>1 DEF MoveBlock, Then
<1> HIDE DEF copy
<1>8. dst >= c \/ dst < c
  OBVIOUS
<1> QED BY <1>3, <1>4, <1>5, <1>6, <1>7, <1>8

\* part_truncate, growing and shrinking.
LEMMA TruncateFacts ==
  ASSUME NEW d, Good(d), NEW k \in 1..Len(d.part), NEW size \in Nat
  PROVE  GoodOutcome(Truncate(d, k, size))
<1> USE MbrAssumption
<1>0. Table(d) /\ d \in MbrType /\ UsedOK(d.part)
  BY DEF Good, Table
<1>1. PICK p \in PartRec, c \in Nat, m \in Nat : p = d.part[k] /\ c = p.count /\ m = p.min
  BY <1>0, PartTypes
<1>2. Aligned(c) /\ Aligned(m)
  BY <1>0, <1>1 DEF Table, Sized
<1>3. PICK count \in Nat : count = AlignUp(size) /\ Aligned(count)
  BY AlignUpFacts
<1> DEFINE set(a) == [a EXCEPT !.part[k].count = count, !.part[k].used = count]
<1>4. ASSUME NEW a, Table(a), Len(a.part) = Len(d.part), a.part[k].count = count,
             \A j \in 1..Len(d.part) : j # k => a.part[j].used <= a.part[j].count
      PROVE  Good(set(a))
  <2>0. a \in MbrType /\ DOMAIN a.part = 1..Len(d.part) /\ a.part[k] \in PartRec
    BY <1>4, PartTypes DEF Table
  <2>1. PICK q \in PartRec : q = a.part[k]
    BY <2>0
  <2>2. [q EXCEPT !.count = count] = q
    BY <1>4, <2>1 DEF PartRec
  <2>3. [a.part EXCEPT ![k] = q] = a.part
    BY <2>0, <2>1, <1>4 DEF MbrType
  <2>4. set(a) = SetUsed(a, k, count)
    BY <2>0, <2>1, <2>2, <2>3 DEF SetUsed, MbrType
  <2>5. count <= a.part[k].count /\ k \in 1..Len(a.part)
    BY <1>4
  <2>6. Good(SetUsed(a, k, count))
    BY <1>4, <2>5, SetUsedFacts
  <2> QED BY <2>4, <2>6
<1>5. CASE count <= m \/ count = c
  <2>1. Truncate(d, k, size) = Ok(d)
    BY <1>1, <1>3, <1>5 DEF Truncate
  <2> QED BY <2>1 DEF Ok, GoodOutcome
<1>6. CASE ~(count <= m \/ count = c) /\ count < c
  <2>1. PICK w \in Nat : w = c - count
    BY <1>6
  <2>2. PICK e : e = shrink_partition(d, k, w)
    OBVIOUS
  <2>3. Truncate(d, k, size) = Ok(set(e))
    BY <1>1, <1>3, <1>6, <2>1, <2>2 DEF Truncate, Then, Ok
  <2>4. Aligned(w) /\ w <= c - m
    <3>1. Aligned(c - count)
      BY <1>2, <1>3, AlignedSum
    <3> QED BY <1>6, <2>1, <3>1
  <2>5. ShrinkBy(d.part[k], w) = w
    BY <1>0, <1>1, <2>4, ShrinkByFacts
  <2>6. Resized(e, d, k, -w)
    BY <1>0, <2>2, <2>5, ShrinkFacts
  <2>7. PICK neg \in Int : neg = -w
    OBVIOUS
  <2>8. Aligned(neg) /\ c + neg >= m /\ c + neg = count
    BY <1>6, <2>1, <2>4, <2>7, AlignedSum
  <2>9. Table(e)
    BY <1>0, <1>1, <2>6, <2>7, <2>8, ResizedTable
  <2>10. Len(e.part) = Len(d.part) /\ e.part[k] = Longer(p, neg)
    BY <1>1, <2>6, <2>7 DEF Resized
  <2>11. e.part[k].count = count
    <3>1. Longer(p, neg).count = p.count + neg
      BY LongerFacts
    <3> QED BY <1>1, <2>8, <2>10, <3>1
  <2>12. ASSUME NEW j \in 1..Len(d.part), j # k PROVE e.part[j].used <= e.part[j].count
    <3>1. d.part[j] \in PartRec /\ d.part[j].used <= d.part[j].count
      BY <1>0, PartTypes DEF UsedOK
    <3>2. e.part[j] = d.part[j] \/ e.part[j] = Shifted(d.part[j], neg)
      BY <2>6, <2>7, <2>12 DEF Resized
    <3> QED BY <3>1, <3>2, ShiftedFacts
  <2>13. Good(set(e))
    BY <1>4, <2>9, <2>10, <2>11, <2>12
  <2> QED BY <2>3, <2>13 DEF Ok, GoodOutcome
<1>7. CASE ~(count <= m \/ count = c) /\ ~(count < c)
  <2>1. PICK w \in Nat : w = count - c /\ w # 0
    BY <1>7
  <2>2. PICK o : o = grow_partition(d, k, w)
    OBVIOUS
  <2>3. Truncate(d, k, size) = IF o.ok THEN Ok(set(o.mbr)) ELSE o
    BY <1>1, <1>3, <1>7, <2>1, <2>2 DEF Truncate, Then
  <2>4. GrowBy(w) = w
    <3>1. Aligned(w)
      BY <1>2, <1>3, <2>1, AlignedSum
    <3> QED BY <2>1, <3>1, AlignUpFacts DEF GrowBy
  <2>5. Grown(o, d, k, w)
    BY <2>2, <2>4, GrowFacts
  <2>6. CASE o.ok
    <3>1. /\ Good(o.mbr) /\ Len(o.mbr.part) = Len(d.part) /\ o.mbr.part[k] = Longer(p, w)
      BY <1>1, <2>5, <2>6 DEF Grown
    <3>2. o.mbr.part[k].count = c + w
      BY <1>1, <3>1, LongerFacts
    <3>3. o.mbr.part[k].count = count
      BY <2>1, <3>2
    <3>4. Table(o.mbr) /\ \A j \in 1..Len(d.part) : o.mbr.part[j].used <= o.mbr.part[j].count
      BY <3>1 DEF Good, UsedOK
    <3>5. Good(set(o.mbr))
      BY <1>4, <3>1, <3>3, <3>4
    <3> QED BY <2>3, <2>6, <3>5 DEF Ok, GoodOutcome
  <2>7. CASE ~o.ok
    BY <2>3, <2>5, <2>7 DEF Grown, GoodOutcome
  <2>8. o.ok \in BOOLEAN
    BY <2>5 DEF Grown
  <2> QED BY <2>6, <2>7, <2>8
<1> QED BY <1>5, <1>6, <1>7

\* The fields of a partition that may lose its FILL mark.
LEMMA UnmarkedFacts ==
  ASSUME NEW p \in PartRec, NEW fill \in BOOLEAN
  PROVE  /\ Unmarked(p, fill) \in PartRec
         /\ Unmarked(p, fill).index = p.index /\ Unmarked(p, fill).count = p.count
         /\ Unmarked(p, fill).min = p.min /\ Unmarked(p, fill).used = p.used
         /\ Unmarked(p, fill).fill => p.fill /\ ~fill
  BY DEF Unmarked, PartRec

\* Marking a partition takes the mark from all others.
LEMMA SetFlagsFacts ==
  ASSUME NEW d, Good(d), NEW k \in 1..Len(d.part), NEW grow \in BOOLEAN, NEW fill \in BOOLEAN
  PROVE  Good(SetFlags(d, k, grow, fill))
<1>0. Table(d) /\ d \in MbrType /\ UsedOK(d.part) /\ OneFill(d.part) /\ Len(d.part) \in Nat
      /\ DOMAIN d.part = 1..Len(d.part)
  BY PartTypes DEF Good, Table
<1> DEFINE new(j) == IF j = k THEN [d.part[j] EXCEPT !.grow = grow, !.fill = fill]
                     ELSE Unmarked(d.part[j], fill)
<1>1. ASSUME NEW j \in 1..Len(d.part)
      PROVE  /\ new(j) \in PartRec /\ new(j).index = d.part[j].index
             /\ new(j).count = d.part[j].count /\ new(j).min = d.part[j].min
             /\ new(j).used = d.part[j].used
             /\ new(j).fill => IF j = k THEN fill ELSE d.part[j].fill /\ ~fill
  <2>1. PICK p \in PartRec : p = d.part[j]
    BY <1>0, PartTypes
  <2>2. CASE j = k
    <3>1. PICK q : q = [p EXCEPT !.grow = grow, !.fill = fill]
      OBVIOUS
    <3>2. q \in PartRec /\ q.index = p.index /\ q.count = p.count /\ q.min = p.min
          /\ q.used = p.used /\ q.fill = fill
      BY <3>1 DEF PartRec
    <3> QED BY <2>1, <2>2, <3>1, <3>2
  <2>3. CASE j # k
    <3>2. Unmarked(p, fill) \in PartRec /\ Unmarked(p, fill).index = p.index
          /\ Unmarked(p, fill).count = p.count /\ Unmarked(p, fill).min = p.min
          /\ Unmarked(p, fill).used = p.used /\ (Unmarked(p, fill).fill => p.fill /\ ~fill)
      BY UnmarkedFacts
    <3> QED BY <2>1, <2>3, <3>2
  <2> QED BY <2>2, <2>3
<1>2. PICK X : X = [j \in 1..Len(d.part) |-> new(j)]
  OBVIOUS
<1>3. PICK e : e = SetFlags(d, k, grow, fill)
  OBVIOUS
<1>4. e = [d EXCEPT !.part = X]
  BY <1>0, <1>2, <1>3 DEF SetFlags
<1> HIDE DEF new
<1>5. X \in Seq(PartRec) /\ Len(X) = Len(d.part) /\ \A j \in 1..Len(d.part) : X[j] = new(j)
  <2>1. X \in [1..Len(d.part) -> PartRec] /\ DOMAIN X = 1..Len(d.part)
    BY <1>1, <1>2
  <2> QED BY <1>0, <1>2, <2>1
<1>6. e \in MbrType /\ e.part = X
  BY <1>0, <1>4, <1>5, WithPart
<1>7. SameLayout(e, d)
  BY <1>1, <1>5, <1>6 DEF SameLayout
<1>8. OneFill(e.part)
  <2> SUFFICES ASSUME NEW i \in 1..Len(d.part), NEW j \in 1..Len(d.part),
                      new(i).fill, new(j).fill
               PROVE  i = j
    BY <1>5, <1>6 DEF OneFill
  <2>1. (IF i = k THEN fill ELSE d.part[i].fill /\ ~fill) /\ (IF j = k THEN fill ELSE d.part[j].fill /\ ~fill)
    BY <1>1
  <2> QED BY <1>0, <2>1 DEF OneFill
<1>9. Table(e)
  BY <1>0, <1>7, <1>8, SameLayoutFacts
<1>10. UsedOK(e.part)
  BY <1>0, <1>1, <1>5, <1>6 DEF UsedOK
<1> QED BY <1>3, <1>9, <1>10 DEF Good

-----------------------------------------------------------------------------
\* What a partition holds: the contents of its sectors, zero where the disk has none.
At(d, s) == IF s \in Disk THEN d.disk[s] ELSE 0

\* Partition j of e holds what partition j of d does, wherever it lies.
Held(e, d, j) ==
  /\ e.part[j].count = d.part[j].count
  /\ \A i \in Nat : i < d.part[j].count => At(e, e.part[j].index + i) = At(d, d.part[j].index + i)

\* Of the partitions other than k, those that have only partitions of at least their
\* old size in front, and are not smaller themselves, hold in e what they do in d.
Others(e, d, k) ==
  \A j \in 1..Len(d.part) :
    j # k /\ (\A i \in 1..j : e.part[i].count >= d.part[i].count) => Held(e, d, j)

\* The disk e differs from d inside of partition k only.
Inside(e, d, k) ==
  /\ SameLayout(e, d)
  /\ \A s \in Disk : s < d.part[k].index \/ s >= End(d.part[k]) => e.disk[s] = d.disk[s]

\* The sectors after a move that succeeded.
LEMMA MemMoveDisk ==
  ASSUME NEW d \in MbrType, NEW dst \in Nat, NEW src \in Nat, NEW n \in Nat,
         NEW r, r = MemMove(d, dst, src, n), r.ok
  PROVE  /\ \A s \in Disk : s < dst \/ s >= dst + n => r.mbr.disk[s] = d.disk[s]
         /\ src < dst /\ n # 0 =>
              /\ dst + n <= Sectors
              /\ \A s \in Disk : s >= dst /\ s < dst + n => r.mbr.disk[s] = d.disk[s - dst + src]
<1> USE MbrAssumption
<1>1. CASE n = 0 \/ dst = src
  <2>1. r.mbr = d
    BY <1>1 DEF MemMove, Ok
  <2> QED BY <1>1, <2>1
<1>2. CASE ~(n = 0 \/ dst = src)
  <2> DEFINE E == {dst, src}
  <2>1. PICK top \in Nat : top = Max({dst, src}) /\ dst <= top /\ src <= top
    <3>0. PICK b \in Nat : b = dst + src
      OBVIOUS
    <3>1. E \subseteq 0..b /\ E # {} /\ dst \in E /\ src \in E
      BY <3>0
    <3>2. \A x \in E : x \in Nat
      OBVIOUS
    <3> HIDE DEF E
    <3>3. Max(E) \in E /\ dst <= Max(E) /\ src <= Max(E)
      BY <3>1, MaxIsGreatest
    <3> QED BY <3>2, <3>3 DEF E
  <2>2. ~(top + n > Sectors)
    <3>1. top + n > Sectors => r = Err(d)
      BY <1>2, <2>1 DEF MemMove
    <3> QED BY <3>1 DEF Err
  <2>3. PICK X : X = [s \in Disk |-> IF s >= dst /\ s < dst + n THEN d.disk[s - dst + src] ELSE d.disk[s]]
    OBVIOUS
  <2>4. PICK y : y = [d EXCEPT !.disk = X] /\ r = Ok(y)
    BY <1>2, <2>1, <2>2, <2>3 DEF MemMove
  <2>5. r.mbr.disk = X
    <3>1. r.mbr = y
      BY <2>4 DEF Ok
    <3>2. y.disk = X
      BY <2>4, WithDisk
    <3> QED BY <3>1, <3>2
  <2>6. dst + n <= Sectors
    BY <2>1, <2>2
  <2>7. \A s \in Disk : s < dst \/ s >= dst + n => ~(s >= dst /\ s < dst + n)
    BY DEF Disk
  <2>8. \A s \in Disk : X[s] = IF s >= dst /\ s < dst + n THEN d.disk[s - dst + src] ELSE d.disk[s]
    BY <2>3
  <2> QED BY <2>5, <2>6, <2>7, <2>8
<1> QED BY <1>1, <1>2

\* A partition that is not cut, with none in front cut, keeps its place, and all sectors
\* up to its end keep their contents: the last partition behind it still has a sector.
LEMMA CutKeeps ==
  ASSUME NEW d, Table(d), NEW e, Table(e), Len(e.part) = Len(d.part), LastEnd(e) <= LastEnd(d), Cut(e, d),
         NEW j \in 1..Len(d.part), \A i \in 1..j : e.part[i].count >= d.part[i].count
  PROVE  /\ e.part[j].index = d.part[j].index /\ e.part[j].count = d.part[j].count
         /\ \A s \in Disk : s < End(d.part[j]) => e.disk[s] = d.disk[s]
<1> USE MbrAssumption
<1>0. d \in MbrType /\ e \in MbrType /\ Sized(e.part)
  BY DEF Table
<1>1. PICK c \in Nat, x \in Nat, c1 \in Nat, x1 \in Nat :
        c = d.part[j].count /\ x = d.part[j].index /\ c1 = e.part[j].count /\ x1 = e.part[j].index
  BY <1>0, PartTypes
<1>2. x1 = x /\ c1 <= c
  BY <1>1 DEF Cut
<1>3. c1 >= c
  BY <1>1
<1>4. c1 = c
  BY <1>2, <1>3
<1>5. PICK len \in Nat : len = Len(d.part) /\ len # 0
  BY <1>0, PartTypes
<1>6. ASSUME NEW s \in Disk, s < End(d.part[j]) PROVE e.disk[s] = d.disk[s]
  <2>0. s \in Int /\ s < x + c
    BY <1>1, <1>6 DEF Disk, End
  <2>1. PICK last \in Nat, old \in Nat : last = LastEnd(e) /\ old = LastEnd(d)
    BY LastEndFacts
  <2>2. CASE j = len
    <3>1. last = x1 + c1 /\ old = x + c
      BY <1>1, <1>5, <2>1, <2>2, LastEndFacts DEF End
    <3>2. last = old
      BY <1>2, <1>4, <3>1
    <3> QED BY <2>1, <3>2 DEF Cut
  <2>3. CASE j # len
    <3>1. len \in 1..Len(e.part) /\ j \in 1..(len - 1)
      BY <1>5, <2>3
    <3>2. PICK y \in Nat, w \in Nat, m \in Nat :
            y = e.part[len].index /\ w = e.part[len].count /\ m = e.part[len].min
      BY <1>0, <3>1, PartTypes
    <3>3. x1 + c1 <= y
      BY <1>1, <3>1, <3>2, Order DEF End
    <3>4. w >= Align
      BY <1>0, <3>1, <3>2 DEF Sized
    <3>5. last = y + w
      BY <1>5, <2>1, <3>2, LastEndFacts DEF End
    <3>6. s < last - 1
      BY <1>2, <1>4, <2>0, <3>3, <3>4, <3>5
    <3> QED BY <2>1, <3>6 DEF Cut
  <2> QED BY <2>2, <2>3
<1> QED BY <1>1, <1>2, <1>4, <1>6

\* So cutting down changes nothing for those.
LEMMA CutHeld ==
  ASSUME NEW d, Table(d), NEW e, Table(e), Len(e.part) = Len(d.part), LastEnd(e) <= LastEnd(d), Cut(e, d),
         NEW k
  PROVE  Others(e, d, k)
<1> SUFFICES ASSUME NEW j \in 1..Len(d.part), \A i \in 1..j : e.part[i].count >= d.part[i].count
             PROVE  Held(e, d, j)
  BY DEF Others
<1>1. /\ e.part[j].index = d.part[j].index /\ e.part[j].count = d.part[j].count
      /\ \A s \in Disk : s < End(d.part[j]) => e.disk[s] = d.disk[s]
  BY CutKeeps
<1>2. PICK c \in Nat, x \in Nat : c = d.part[j].count /\ x = d.part[j].index
  BY PartTypes DEF Table
<1>3. ASSUME NEW i \in Nat, i < c PROVE At(e, x + i) = At(d, x + i)
  <2>1. x + i < End(d.part[j])
    BY <1>2, <1>3 DEF End
  <2> QED BY <1>1, <2>1 DEF At
<1> QED BY <1>1, <1>2, <1>3 DEF Held

\* A move that fails leaves the disk as it was.
LEMMA MemMoveFails ==
  ASSUME NEW d, NEW dst, NEW src, NEW n, NEW r, r = MemMove(d, dst, src, n), ~r.ok
  PROVE  r.mbr = d
  BY DEF MemMove, Ok, Err

\* Growing partition k in a table whose later partitions are cut down already: what lies
\* behind k moves back by the new sectors, which are cleared.  Nothing if it fails.
GrownDisk(o, s, k, diff) ==
  LET end == End(s.part[k])
      dst == end + diff
      tail == LastEnd(s) - end
  IN  /\ ~o.ok => o.mbr = s
      /\ o.ok =>
           /\ Resized(o.mbr, s, k, diff)
           /\ tail # 0 => dst + tail <= Sectors
           /\ \A t \in Disk :
                /\ t < end => o.mbr.disk[t] = s.disk[t]
                /\ t >= end /\ t < dst => o.mbr.disk[t] = 0
                /\ tail # 0 /\ t >= dst /\ t < dst + tail => o.mbr.disk[t] = s.disk[t - dst + end]

LEMMA GrowSteps ==
  ASSUME NEW d, Good(d), NEW k \in 1..Len(d.part), NEW n \in Nat
  PROVE  GrownDisk(grow_partition(d, k, n), ShrinkBehind(d, k), k, GrowBy(n))
<1> USE MbrAssumption
<1>1. PICK diff \in Nat : diff = GrowBy(n) /\ Aligned(diff) /\ diff > 0
  BY GrowByFacts
<1>2. PICK s : s = ShrinkBehind(d, k)
  OBVIOUS
<1>3. Table(s) /\ s \in MbrType /\ Len(s.part) = Len(d.part)
  BY <1>2, ShrinkBehindFacts DEF Trimmed, Good, Table
<1>4. PICK end \in Nat, last \in Nat : end = End(s.part[k]) /\ last = LastEnd(s) /\ end <= last
  BY <1>3, LastEndFacts, PartTypes
<1>5. PICK tail \in Nat, dst \in Nat : tail = last - end /\ dst = end + diff
  BY <1>4
<1>6. PICK moved : moved = MemMove(s, dst, end, tail)
  OBVIOUS
<1>7. PICK o : o = grow_partition(d, k, n)
  OBVIOUS
<1>8. o = IF moved.ok THEN Ok(Resize(Discard(moved.mbr, end, diff), k, diff)) ELSE moved
  BY <1>1, <1>2, <1>4, <1>5, <1>6, <1>7 DEF grow_partition, GrowBy, Then
<1>9. CASE ~moved.ok
  <2>1. ~o.ok /\ o.mbr = s
    BY <1>6, <1>8, <1>9, MemMoveFails
  <2> QED BY <1>1, <1>2, <1>7, <2>1 DEF GrownDisk
<1>10. CASE moved.ok
  <2>1. moved.mbr \in MbrType /\ moved.mbr.part = s.part
    <3>1. Moved(moved, s)
      BY <1>3, <1>6, MoveTypes
    <3> QED BY <3>1 DEF Moved
  <2>2. PICK x : x = Discard(moved.mbr, end, diff)
    OBVIOUS
  <2>3. x \in MbrType /\ x.part = s.part
    BY <2>1, <2>2, DiscardFacts
  <2>4. PICK e : e = Resize(x, k, diff)
    OBVIOUS
  <2>5. o.mbr = e /\ o.ok
    BY <1>8, <1>10, <2>2, <2>4 DEF Ok
  <2>6. Resized(e, s, k, diff)
    <3>1. Table(x)
      BY <1>3, <2>3, SamePart
    <3>2. x.part[k].count + diff >= x.part[k].min
      <4>1. PICK c \in Nat, m \in Nat : c = x.part[k].count /\ m = x.part[k].min
        BY <1>3, <2>3, PartTypes
      <4>2. m <= c
        BY <1>3, <2>3, <4>1 DEF Table, Sized
      <4> QED BY <4>1, <4>2
    <3>3. Resized(e, x, k, diff)
      BY <1>1, <1>3, <2>3, <2>4, <3>1, <3>2, ResizeFacts
    <3> QED BY <2>3, <3>3 DEF Resized
  <2>7. e.disk = x.disk
    BY <2>3, <2>4, ResizeDisk
  <2>8. /\ \A t \in Disk : t < dst \/ t >= dst + tail => moved.mbr.disk[t] = s.disk[t]
        /\ tail # 0 => /\ dst + tail <= Sectors
                       /\ \A t \in Disk : t >= dst /\ t < dst + tail =>
                            moved.mbr.disk[t] = s.disk[t - dst + end]
    <3>1. end < dst
      BY <1>1, <1>5
    <3> QED BY <1>3, <1>6, <1>10, <3>1, MemMoveDisk
  <2>9. ASSUME NEW t \in Disk
        PROVE  /\ t < end => e.disk[t] = s.disk[t]
               /\ t >= end /\ t < dst => e.disk[t] = 0
               /\ tail # 0 /\ t >= dst /\ t < dst + tail => e.disk[t] = s.disk[t - dst + end]
    <3>1. t \in Int
      BY DEF Disk
    <3>2. x.disk[t] = IF t >= end /\ (diff < 0 \/ t < end + diff) THEN 0 ELSE moved.mbr.disk[t]
      BY <2>1, <2>2, DiscardDisk
    <3>3. x.disk[t] = IF t >= end /\ t < dst THEN 0 ELSE moved.mbr.disk[t]
      BY <1>1, <1>5, <3>2
    <3>4. t < end => t < dst /\ ~(t >= end)
      BY <1>5, <3>1
    <3>5. t >= dst => ~(t < dst)
      BY <1>5, <3>1
    <3> QED BY <2>7, <2>8, <3>3, <3>4, <3>5
  <2>10. GrownDisk(o, s, k, diff)
    BY <1>4, <1>5, <2>5, <2>6, <2>8, <2>9 DEF GrownDisk
  <2> QED BY <1>1, <1>2, <1>7, <2>10
<1> QED BY <1>9, <1>10

\* Growing partition k: the later ones are pushed back with their sectors, the others
\* are not touched.
LEMMA GrowKeeps ==
  ASSUME NEW d, Good(d), NEW k \in 1..Len(d.part), NEW n \in Nat,
         NEW o, o = grow_partition(d, k, n), o.ok
  PROVE  Others(o.mbr, d, k)
<1> USE MbrAssumption
<1>0. Table(d) /\ d \in MbrType
  BY DEF Good, Table
<1>1. PICK diff \in Nat : diff = GrowBy(n) /\ Aligned(diff) /\ diff > 0
  BY GrowByFacts
<1>2. PICK s : s = ShrinkBehind(d, k)
  OBVIOUS
<1>3. Good(s) /\ Table(s) /\ s \in MbrType /\ Len(s.part) = Len(d.part) /\ s.part[k] = d.part[k]
      /\ LastEnd(s) <= LastEnd(d) /\ Cut(s, d)
  BY <1>2, ShrinkBehindFacts DEF Trimmed, Good, Table
<1>4. PICK end \in Nat, last \in Nat : end = End(s.part[k]) /\ last = LastEnd(s) /\ end <= last
  BY <1>3, LastEndFacts, PartTypes
<1>5. PICK tail \in Nat, dst \in Nat : tail = last - end /\ dst = end + diff
  BY <1>4
<1>12. PICK e : e = o.mbr
  OBVIOUS
<1>13. GrownDisk(o, s, k, diff)
  BY <1>1, <1>2, GrowSteps
<1>14. Resized(e, s, k, diff)
  BY <1>12, <1>13 DEF GrownDisk
<1>16. /\ tail # 0 => dst + tail <= Sectors
       /\ \A t \in Disk :
            /\ t < end => e.disk[t] = s.disk[t]
            /\ tail # 0 /\ t >= dst /\ t < dst + tail => e.disk[t] = s.disk[t - dst + end]
  BY <1>4, <1>5, <1>12, <1>13 DEF GrownDisk
<1> SUFFICES ASSUME NEW j \in 1..Len(d.part), j # k,
                    \A i \in 1..j : e.part[i].count >= d.part[i].count
             PROVE  Held(e, d, j)
  BY <1>12 DEF Others
<1>18. ASSUME NEW i \in 1..j PROVE s.part[i].count >= d.part[i].count
  <2>1. i \in 1..Len(d.part)
    OBVIOUS
  <2>2. CASE i = k
    <3>1. d.part[k].count \in Nat
      BY <1>0, PartTypes
    <3> QED BY <1>3, <2>2, <3>1
  <2>3. CASE i # k
    <3>1. e.part[i].count = s.part[i].count + 0 /\ s.part[i].count \in Nat
      BY <1>3, <1>14, <2>1, <2>3, ResizedParts
    <3>2. e.part[i].count = s.part[i].count
      BY <3>1
    <3> QED BY <3>2
  <2> QED BY <2>2, <2>3
<1>19. /\ s.part[j].index = d.part[j].index /\ s.part[j].count = d.part[j].count
       /\ \A t \in Disk : t < End(d.part[j]) => s.disk[t] = d.disk[t]
  BY <1>0, <1>3, <1>18, CutKeeps
<1>20. PICK c \in Nat, y \in Nat : c = d.part[j].count /\ y = d.part[j].index
  BY <1>0, PartTypes
<1>24. ASSUME NEW i \in Nat, i < c PROVE y + i < End(d.part[j])
  <2>1. End(d.part[j]) = y + c
    BY <1>20 DEF End
  <2>2. y + i < y + c
    BY <1>24
  <2> QED BY <2>1, <2>2
<1>21. e.part[j].count = c
  <2>1. e.part[j].count = s.part[j].count + 0
    BY <1>3, <1>14, ResizedParts
  <2> QED BY <1>19, <1>20, <2>1
<1>22. CASE j < k
  <2>1. e.part[j].index = y + 0
    BY <1>3, <1>14, <1>19, <1>20, <1>22, ResizedParts
  <2>2. e.part[j].index = y
    BY <2>1
  <2>3. y + c <= s.part[k].index /\ s.part[k].index <= end
    <3>1. PICK q \in Nat, r \in Nat : q = s.part[k].index /\ r = s.part[k].count
      BY <1>3, PartTypes
    <3>2. y + c <= q
      BY <1>3, <1>19, <1>20, <1>22, <3>1, Order DEF End
    <3>3. end = q + r
      BY <1>4, <3>1 DEF End
    <3> QED BY <3>1, <3>2, <3>3
  <2>4. y + c <= end
    <3>1. PICK q \in Nat : q = s.part[k].index
      BY <1>3, PartTypes
    <3> QED BY <2>3, <3>1
  <2>5. ASSUME NEW i \in Nat, i < c PROVE At(e, y + i) = At(d, y + i)
    <3>1. y + i < end /\ y + i < dst /\ y + i < End(d.part[j])
      <4>1. y + i < end /\ y + i < dst
        BY <1>1, <1>5, <2>4, <2>5
      <4> QED BY <1>24, <2>5, <4>1
    <3>2. y + i \in Disk => e.disk[y + i] = d.disk[y + i]
      BY <1>16, <1>19, <3>1
    <3> QED BY <3>2 DEF At
  <2> QED BY <1>20, <1>21, <2>2, <2>5 DEF Held
<1>23. CASE j > k
  <2>1. e.part[j].index = y + diff
    BY <1>3, <1>14, <1>19, <1>20, <1>23, ResizedParts
  <2>2. end <= y
    <3>1. End(s.part[k]) <= s.part[j].index
      BY <1>3, <1>23, Order
    <3> QED BY <1>4, <1>19, <1>20, <3>1
  <2>3. y + c <= last
    BY <1>3, <1>4, <1>19, <1>20, LastEndFacts DEF End
  <2>4. ASSUME NEW i \in Nat, i < c PROVE At(e, (y + diff) + i) = At(d, y + i)
    <3>1. PICK t \in Nat, u \in Nat : t = y + i /\ u = (y + diff) + i /\ u - dst + end = t
      BY <1>5
    <3>2. tail # 0 /\ u >= dst /\ u < dst + tail /\ t < last
      BY <1>5, <2>2, <2>3, <2>4, <3>1
    <3>3. dst + tail <= Sectors
      BY <1>16, <3>2
    <3>4. u \in Disk /\ t \in Disk
      BY <1>5, <3>1, <3>2, <3>3 DEF Disk
    <3>5. e.disk[u] = s.disk[t]
      BY <1>16, <3>1, <3>2, <3>4
    <3>6. t < End(d.part[j])
      BY <1>24, <2>4, <3>1
    <3>7. s.disk[t] = d.disk[t]
      BY <1>19, <3>4, <3>6
    <3> QED BY <3>1, <3>4, <3>5, <3>7 DEF At
  <2> QED BY <1>20, <1>21, <2>1, <2>4 DEF Held
<1> QED BY <1>22, <1>23

\* Growing partition k leaves the others alone even if it fails, once the later ones
\* are cut down.
LEMMA GrowOthers ==
  ASSUME NEW d, Good(d), NEW k \in 1..Len(d.part), NEW n \in Nat,
         NEW o, o = grow_partition(d, k, n)
  PROVE  Others(o.mbr, d, k)
<1>1. CASE o.ok
  BY <1>1, GrowKeeps
<1>2. CASE ~o.ok
  <2>1. PICK s : s = ShrinkBehind(d, k)
    OBVIOUS
  <2>2. Trimmed(s, d, k)
    BY <2>1, ShrinkBehindFacts
  <2>3. GrownDisk(o, s, k, GrowBy(n))
    BY <2>1, GrowSteps
  <2>4. o.mbr = s
    BY <1>2, <2>3 DEF GrownDisk
  <2> QED BY <2>2, <2>4, CutHeld DEF Trimmed, Good
<1> QED BY <1>1, <1>2

\* What happens inside of partition k leaves the others alone.
LEMMA InsideHeld ==
  ASSUME NEW d, Table(d), NEW k \in 1..Len(d.part), NEW e, Inside(e, d, k),
         NEW j \in 1..Len(d.part), j # k
  PROVE  Held(e, d, j)
<1>0. d \in MbrType
  BY DEF Table
<1>1. e.part[j].index = d.part[j].index /\ e.part[j].count = d.part[j].count
  BY DEF Inside, SameLayout
<1>2. PICK c \in Nat, x \in Nat, y \in Nat, w \in Nat :
        /\ c = d.part[j].count /\ x = d.part[j].index
        /\ y = d.part[k].index /\ w = d.part[k].count
  BY <1>0, PartTypes
<1>3. x + c <= y \/ y + w <= x
  <2>1. j < k => End(d.part[j]) <= d.part[k].index
    BY Order
  <2>2. k < j => End(d.part[k]) <= d.part[j].index
    BY Order
  <2> QED BY <1>2, <2>1, <2>2 DEF End
<1>4. ASSUME NEW i \in Nat, i < c PROVE At(e, x + i) = At(d, x + i)
  <2>1. x + i < y \/ x + i >= y + w
    BY <1>3, <1>4
  <2>2. x + i \in Disk => e.disk[x + i] = d.disk[x + i]
    BY <1>2, <2>1 DEF Inside, End
  <2> QED BY <2>2 DEF At
<1> QED BY <1>1, <1>2, <1>4 DEF Held

\* First something that leaves the others alone, then something inside of k.
LEMMA OthersThenInside ==
  ASSUME NEW d, NEW a, Table(a), Len(a.part) = Len(d.part), NEW k \in 1..Len(d.part), Others(a, d, k),
         NEW e, Inside(e, a, k)
  PROVE  Others(e, d, k)
<1> SUFFICES ASSUME NEW j \in 1..Len(d.part), j # k,
                    \A i \in 1..j : e.part[i].count >= d.part[i].count
             PROVE  Held(e, d, j)
  BY DEF Others
<1>1. \A i \in 1..j : i \in 1..Len(d.part)
  OBVIOUS
<1>2. \A i \in 1..j : e.part[i].count = a.part[i].count
  BY <1>1 DEF Inside, SameLayout
<1>3. Held(a, d, j)
  BY <1>2 DEF Others
<1>4. Held(e, a, j)
  BY InsideHeld
<1> QED BY <1>3, <1>4 DEF Held

\* Nothing happened.
LEMMA OthersSame ==
  ASSUME NEW d, NEW k
  PROVE  Others(d, d, k)
  BY DEF Others, Held

\* Counting more or fewer sectors of k as used is inside of k.
LEMMA SetUsedInside ==
  ASSUME NEW d, Table(d), NEW k \in 1..Len(d.part), NEW u \in Nat
  PROVE  Inside(SetUsed(d, k, u), d, k) /\ SetUsed(d, k, u).disk = d.disk
<1>0. d \in MbrType /\ Len(d.part) \in Nat /\ DOMAIN d.part = 1..Len(d.part) /\ d.part \in Seq(PartRec)
  BY PartTypes DEF Table
<1>1. PICK p : p = [d.part[k] EXCEPT !.used = u]
  OBVIOUS
<1>2. p \in PartRec /\ p.index = d.part[k].index /\ p.count = d.part[k].count /\ p.min = d.part[k].min
  <2>1. PICK q \in PartRec : q = d.part[k]
    BY <1>0, PartTypes
  <2>2. p = [q EXCEPT !.used = u]
    BY <1>1, <2>1
  <2> QED BY <2>1, <2>2 DEF PartRec
<1>3. PICK X : X = [d.part EXCEPT ![k] = p]
  OBVIOUS
<1>4. PICK e : e = SetUsed(d, k, u)
  OBVIOUS
<1>5. e = [d EXCEPT !.part = X]
  BY <1>0, <1>1, <1>3, <1>4 DEF SetUsed, MbrType
<1>6. X \in Seq(PartRec) /\ Len(X) = Len(d.part) /\ X[k] = p
      /\ \A j \in 1..Len(d.part) : j # k => X[j] = d.part[j]
  BY <1>0, <1>2, <1>3
<1>7. e \in MbrType /\ e.part = X /\ e.disk = d.disk
  BY <1>0, <1>5, <1>6, WithPart
<1>8. SameLayout(e, d)
  BY <1>2, <1>6, <1>7 DEF SameLayout
<1> QED BY <1>4, <1>7, <1>8 DEF Inside

\* So is UseUpTo.
LEMMA UseUpToInside ==
  ASSUME NEW d, Table(d), NEW k \in 1..Len(d.part), NEW n \in Nat
  PROVE  Inside(UseUpTo(d, k, n), d, k) /\ UseUpTo(d, k, n).disk = d.disk
<1>1. PICK u \in Nat : u = d.part[k].used
  BY PartTypes DEF Table
<1> DEFINE E == {u, n}
<1>2. PICK v \in Nat : v = Max({d.part[k].used, n})
  <2>1. PICK b \in Nat : b = u + n
    OBVIOUS
  <2>2. E \subseteq 0..b /\ E # {} /\ \A x \in E : x \in Nat
    BY <2>1
  <2>3. Max({d.part[k].used, n}) = Max(E)
    BY <1>1
  <2> HIDE DEF E
  <2>4. Max(E) \in E
    BY <2>2, MaxIsGreatest
  <2> QED BY <2>2, <2>3, <2>4
<1>3. UseUpTo(d, k, n) = SetUsed(d, k, v)
  BY <1>2 DEF UseUpTo, SetUsed
<1> QED BY <1>3, SetUsedInside

\* Other contents for sectors of k, after a change inside of k.
LEMMA InsideDisk ==
  ASSUME NEW d, NEW a, NEW k \in 1..Len(d.part), Inside(a, d, k), a.disk = d.disk, NEW e \in MbrType,
         e.part = a.part,
         \A s \in Disk : s < d.part[k].index \/ s >= End(d.part[k]) => e.disk[s] = a.disk[s]
  PROVE  Inside(e, d, k)
  BY DEF Inside, SameLayout

\* Writing sector i of partition k, once the partition has it.
LEMMA StoreInside ==
  ASSUME NEW a, Good(a), NEW k \in 1..Len(a.part), NEW i \in Nat, i < a.part[k].count,
         NEW x, x = a.part[k].index
  PROVE  Inside(Write(UseUpTo(a, k, i + 1), x + i, k).mbr, a, k)
<1> USE MbrAssumption
<1>0. Table(a) /\ a \in MbrType
  BY DEF Good, Table
<1>1. PICK b : b = UseUpTo(a, k, i + 1)
  OBVIOUS
<1>2. Inside(b, a, k) /\ b.disk = a.disk /\ b \in MbrType
  BY <1>0, <1>1, UseUpToInside DEF Inside, SameLayout
<1>3. PICK c \in Nat : c = a.part[k].count /\ x \in Nat
  BY <1>0, PartTypes
<1>4. PICK t \in Nat : t = x + i
  BY <1>3
<1>5. CASE t \notin Disk
  <2>1. Write(b, t, k).mbr = b
    BY <1>5 DEF Write, Err
  <2> QED BY <1>1, <1>2, <1>4, <2>1
<1>6. PICK X : X = [b.disk EXCEPT ![t] = k]
  OBVIOUS
<1>7. X \in [Disk -> Nat] /\ \A s \in Disk : s # t => X[s] = b.disk[s]
  <2>1. PICK D \in [Disk -> Nat] : D = b.disk
    BY <1>2 DEF MbrType
  <2>2. X = [D EXCEPT ![t] = k] /\ k \in Nat
    BY <1>6, <2>1
  <2> QED BY <2>1, <2>2
<1>8. PICK e : e = [b EXCEPT !.disk = X]
  OBVIOUS
<1>9. e \in MbrType /\ e.part = b.part /\ e.disk = X
  BY <1>2, <1>7, <1>8, WithDisk
<1>10. t \in Disk => Write(b, t, k) = Ok(e)
  BY <1>2, <1>6, <1>8 DEF Write, MbrType
<1>11. t \in Disk => Write(UseUpTo(a, k, i + 1), x + i, k).mbr = e
  BY <1>1, <1>4, <1>10 DEF Ok
<1>12. ASSUME NEW s \in Disk, s < a.part[k].index \/ s >= End(a.part[k]) PROVE e.disk[s] = b.disk[s]
  <2>1. s < x \/ s >= x + c
    BY <1>3, <1>12 DEF End
  <2>2. s # t
    BY <1>3, <1>4, <2>1 DEF Disk
  <2> QED BY <1>7, <1>9, <2>2
<1>13. Inside(e, a, k)
  BY <1>2, <1>9, <1>12, InsideDisk
<1> QED BY <1>5, <1>11, <1>13

\* Copying one sector to sector i of partition k, once the partition has it.
LEMMA CopyInside ==
  ASSUME NEW a, Good(a), NEW k \in 1..Len(a.part), NEW i \in Nat, i < a.part[k].count,
         NEW x, x = a.part[k].index, NEW src \in Nat
  PROVE  Inside(MemMove(UseUpTo(a, k, i), x + i, x + src, 1).mbr, a, k)
<1> USE MbrAssumption
<1>0. Table(a) /\ a \in MbrType
  BY DEF Good, Table
<1>1. PICK b : b = UseUpTo(a, k, i)
  OBVIOUS
<1>2. Inside(b, a, k) /\ b.disk = a.disk /\ b \in MbrType
  BY <1>0, <1>1, UseUpToInside DEF Inside, SameLayout
<1>3. PICK c \in Nat : c = a.part[k].count /\ x \in Nat
  BY <1>0, PartTypes
<1>4. PICK to \in Nat, from \in Nat : to = x + i /\ from = x + src
  BY <1>3
<1>5. PICK r : r = MemMove(b, to, from, 1)
  OBVIOUS
<1>6. r = MemMove(UseUpTo(a, k, i), x + i, x + src, 1)
  BY <1>1, <1>4, <1>5
<1>8. Moved(r, b)
  BY <1>2, <1>5, MoveTypes
<1>7. ~r.ok => r.mbr = b
  BY <1>5, MemMoveFails
<1>9. \A s \in Disk : s < to \/ s >= to + 1 => r.mbr.disk[s] = b.disk[s]
  BY <1>2, <1>5, <1>7, MemMoveDisk
<1>10. ASSUME NEW s \in Disk, s < a.part[k].index \/ s >= End(a.part[k]) PROVE r.mbr.disk[s] = b.disk[s]
  <2>1. s < x \/ s >= x + c
    BY <1>3, <1>10 DEF End
  <2>2. s < to \/ s >= to + 1
    <3>1. i < c /\ s \in Int
      BY <1>3 DEF Disk
    <3>2. PICK y \in Nat : y = x
      BY <1>3
    <3>3. to = y + i /\ (s < y \/ s >= y + c)
      BY <1>4, <2>1, <3>2
    <3> QED BY <3>1, <3>3
  <2> QED BY <1>9, <2>2
<1>11. r.mbr \in MbrType /\ r.mbr.part = b.part
  BY <1>8 DEF Moved
<1>12. Inside(r.mbr, a, k)
  BY <1>2, <1>10, <1>11, InsideDisk
<1> QED BY <1>6, <1>12

\* Discarding sectors of partition k.
LEMMA DiscardBlocksInside ==
  ASSUME NEW d, Good(d), NEW k \in 1..Len(d.part), NEW i \in Nat, NEW n \in Nat
  PROVE  Inside(DiscardBlocks(d, k, i, n), d, k)
<1>0. Table(d) /\ d \in MbrType
  BY DEF Good, Table
<1>1. PICK u \in Nat, c \in Nat, x \in Nat : u = d.part[k].used /\ c = d.part[k].count /\ x = d.part[k].index
  BY <1>0, PartTypes
<1>2. u <= c
  BY <1>1 DEF Good, UsedOK
<1>3. PICK m : m = Min({n, u - i})
  OBVIOUS
<1>4. CASE i >= u \/ m = 0
  <2>1. DiscardBlocks(d, k, i, n) = d
    BY <1>1, <1>3, <1>4 DEF DiscardBlocks
  <2> QED BY <1>0, <2>1 DEF Inside, SameLayout
<1>5. CASE ~(i >= u \/ m = 0)
  <2>0. m \in Nat /\ m <= u - i
    <3> DEFINE E == {n, u - i}
    <3>1. E \subseteq Nat /\ E # {} /\ u - i \in E
      BY <1>5
    <3>2. m = Min(E)
      BY <1>3
    <3> HIDE DEF E
    <3>3. Min(E) \in E /\ Min(E) <= u - i
      BY <3>1, MinIsLeast
    <3> QED BY <3>1, <3>2, <3>3
  <2>1. PICK v \in Nat : v = (IF i + m = u THEN i ELSE u)
    BY <1>5
  <2>2. DiscardBlocks(d, k, i, n) = Discard(SetUsed(d, k, v), x + i, m)
    BY <1>1, <1>3, <1>5, <2>1 DEF DiscardBlocks, SetUsed
  <2>3. PICK b : b = SetUsed(d, k, v)
    OBVIOUS
  <2>4. Inside(b, d, k) /\ b.disk = d.disk /\ b \in MbrType
    BY <1>0, <2>3, SetUsedInside DEF Inside, SameLayout
  <2>5. PICK e : e = Discard(b, x + i, m)
    OBVIOUS
  <2>6. e \in MbrType /\ e.part = b.part
    BY <2>4, <2>5, DiscardFacts
  <2>7. ASSUME NEW s \in Disk, s < d.part[k].index \/ s >= End(d.part[k]) PROVE e.disk[s] = b.disk[s]
    <3>1. s < x \/ s >= x + c
      BY <1>1, <2>7 DEF End
    <3>2. ~(s >= x + i /\ (m < 0 \/ s < (x + i) + m))
      BY <1>2, <2>0, <3>1 DEF Disk
    <3> QED BY <2>4, <2>5, <3>2, DiscardDisk
  <2>8. Inside(e, d, k)
    BY <2>4, <2>6, <2>7, InsideDisk
  <2> QED BY <2>2, <2>3, <2>5, <2>8
<1> QED BY <1>4, <1>5

\* Something inside of k alone.
LEMMA InsideOthers ==
  ASSUME NEW d, Table(d), NEW k \in 1..Len(d.part), NEW e, Inside(e, d, k)
  PROVE  Others(e, d, k)
  BY InsideHeld DEF Others

\* part_write_block leaves the other partitions alone.
LEMMA WriteBlockKeeps ==
  ASSUME NEW d, Good(d), NEW k \in 1..Len(d.part), NEW i \in Nat
  PROVE  Others(WriteBlock(d, k, i).mbr, d, k)
<1> USE MbrAssumption
<1>0. Table(d) /\ d \in MbrType
  BY DEF Good, Table
<1>1. PICK c \in Nat, x \in Nat : c = d.part[k].count /\ x = d.part[k].index
  BY <1>0, PartTypes
<1>2. d.part[k].grow \in BOOLEAN
  BY <1>0, PartTypes DEF PartRec
<1> DEFINE store(a) == Write(UseUpTo(a, k, i + 1), x + i, k)
<1>4. WriteBlock(d, k, i)
        = IF i < c THEN store(d)
          ELSE IF ~d.part[k].grow THEN Err(d)
          ELSE IF grow_partition(d, k, i - c + 1).ok THEN store(grow_partition(d, k, i - c + 1).mbr)
          ELSE grow_partition(d, k, i - c + 1)
  BY <1>1 DEF WriteBlock, Then
<1>5. ASSUME NEW a, Good(a), Len(a.part) = Len(d.part), i < a.part[k].count, a.part[k].index = x
      PROVE  Inside(store(a).mbr, a, k)
  BY <1>5, StoreInside
<1> HIDE DEF store
<1>6. CASE i < c
  <2>1. WriteBlock(d, k, i) = store(d)
    BY <1>4, <1>6
  <2>2. Inside(store(d).mbr, d, k)
    BY <1>1, <1>5, <1>6
  <2> QED BY <1>0, <2>1, <2>2, InsideOthers
<1>7. CASE ~(i < c) /\ ~d.part[k].grow
  <2>1. WriteBlock(d, k, i) = Err(d)
    BY <1>4, <1>7
  <2> QED BY <2>1, OthersSame DEF Err
<1>8. CASE ~(i < c) /\ d.part[k].grow
  <2>1. PICK w \in Nat : w = i - c + 1
    BY <1>8
  <2>2. PICK diff \in Nat : diff = GrowBy(w) /\ w <= diff
    BY GrowByFacts
  <2>3. PICK o : o = grow_partition(d, k, w)
    OBVIOUS
  <2>4. Grown(o, d, k, diff)
    BY <2>1, <2>2, <2>3, GrowFacts
  <2>5. WriteBlock(d, k, i) = IF o.ok THEN store(o.mbr) ELSE o
    BY <1>4, <1>8, <2>1, <2>3
  <2>6. Others(o.mbr, d, k)
    BY <2>1, <2>3, GrowOthers
  <2>7. CASE o.ok
    <3>1. Good(o.mbr) /\ Len(o.mbr.part) = Len(d.part) /\ o.mbr.part[k] = Longer(d.part[k], diff)
      BY <2>4, <2>7 DEF Grown
    <3>2. o.mbr.part[k].count = c + diff /\ o.mbr.part[k].index = x
      <4>1. PICK p \in PartRec : p = d.part[k]
        BY <1>0, PartTypes
      <4>2. Longer(p, diff).count = p.count + diff /\ Longer(p, diff).index = p.index
        BY LongerFacts
      <4> QED BY <1>1, <3>1, <4>1, <4>2
    <3>3. i < o.mbr.part[k].count
      BY <2>1, <2>2, <3>2
    <3>4. Inside(store(o.mbr).mbr, o.mbr, k)
      BY <1>5, <3>1, <3>2, <3>3
    <3>5. Others(store(o.mbr).mbr, d, k)
      BY <2>6, <3>1, <3>4, OthersThenInside DEF Good
    <3> QED BY <2>5, <2>7, <3>5
  <2> QED BY <2>5, <2>6, <2>7
<1> QED BY <1>2, <1>6, <1>7, <1>8

\* part_move_block leaves the other partitions alone.
LEMMA MoveBlockKeeps ==
  ASSUME NEW d, Good(d), NEW k \in 1..Len(d.part), NEW src \in Nat, NEW dst \in Nat
  PROVE  Others(MoveBlock(d, k, src, dst).mbr, d, k)
<1> USE MbrAssumption
<1>0. Table(d) /\ d \in MbrType
  BY DEF Good, Table
<1>1. PICK c \in Nat, x \in Nat, u \in Nat :
        c = d.part[k].count /\ x = d.part[k].index /\ u = d.part[k].used
  BY <1>0, PartTypes
<1> DEFINE copy(a) == MemMove(UseUpTo(a, k, dst), x + dst, x + src, 1)
           ends(o) == Others(o.mbr, d, k)
<1>2. ASSUME NEW a, Good(a), Len(a.part) = Len(d.part), dst < a.part[k].count, a.part[k].index = x,
             Others(a, d, k)
      PROVE  ends(copy(a))
  <2>1. Inside(copy(a).mbr, a, k)
    BY <1>2, CopyInside
  <2> HIDE DEF copy
  <2> QED BY <1>2, <2>1, OthersThenInside DEF Good
<1>3. ends(Err(d)) /\ ends(Ok(d))
  BY OthersSame DEF Err, Ok
<1>4. ends(Ok(DiscardBlocks(d, k, dst, 1)))
  <2>1. Inside(DiscardBlocks(d, k, dst, 1), d, k)
    BY DiscardBlocksInside
  <2>2. Others(DiscardBlocks(d, k, dst, 1), d, k)
    BY <1>0, <2>1, InsideOthers
  <2> QED BY <2>2 DEF Ok
<1>5. dst < c => ends(copy(d))
  BY <1>1, <1>2, OthersSame
<1> HIDE DEF copy
<1>6. ASSUME dst >= c
      PROVE  ends(IF grow_partition(d, k, dst - c + 1).ok
                  THEN copy(grow_partition(d, k, dst - c + 1).mbr)
                  ELSE grow_partition(d, k, dst - c + 1))
  <2>1. PICK w \in Nat : w = dst - c + 1
    BY <1>6
  <2>2. PICK diff \in Nat : diff = GrowBy(w) /\ w <= diff
    BY GrowByFacts
  <2>3. PICK o : o = grow_partition(d, k, w)
    OBVIOUS
  <2>4. Grown(o, d, k, diff)
    BY <2>2, <2>3, GrowFacts
  <2>5. CASE o.ok
    <3>1. /\ Good(o.mbr) /\ Len(o.mbr.part) = Len(d.part)
          /\ o.mbr.part[k] = Longer(d.part[k], diff)
      BY <2>4, <2>5 DEF Grown
    <3>2. o.mbr.part[k].count = c + diff /\ o.mbr.part[k].index = x
      <4>1. PICK p \in PartRec : p = d.part[k]
        BY <1>0, PartTypes
      <4>2. Longer(p, diff).count = p.count + diff /\ Longer(p, diff).index = p.index
        BY LongerFacts
      <4> QED BY <1>1, <3>1, <4>1, <4>2
    <3>3. dst < o.mbr.part[k].count
      BY <2>1, <2>2, <3>2
    <3>4. Others(o.mbr, d, k)
      BY <2>1, <2>3, GrowOthers
    <3>5. ends(copy(o.mbr))
      BY <1>2, <3>1, <3>2, <3>3, <3>4
    <3> QED BY <2>1, <2>3, <2>5, <3>5
  <2>6. CASE ~o.ok
    <3>1. ends(o)
      BY <2>1, <2>3, GrowOthers
    <3> QED BY <2>1, <2>3, <2>6, <3>1
  <2>7. o.ok \in BOOLEAN
    BY <2>4 DEF Grown
  <2> QED BY <2>5, <2>6, <2>7
<1>7. MoveBlock(d, k, src, dst)
        = IF (src >= c \/ dst >= c) /\ ~d.part[k].grow THEN Err(d)
          ELSE IF src >= u /\ dst >= u THEN Ok(d)
          ELSE IF src >= u THEN Ok(DiscardBlocks(d, k, dst, 1))
          ELSE IF dst >= c
          THEN IF grow_partition(d, k, dst - c + 1).ok
               THEN copy(grow_partition(d, k, dst - c + 1).mbr)
               ELSE grow_partition(d, k, dst - c + 1)
          ELSE copy(d)
  BY <1>1 DEF MoveBlock, Then, copy
<1>8. dst >= c \/ dst < c
  OBVIOUS
<1>9. PICK o : o = MoveBlock(d, k, src, dst)
  OBVIOUS
<1> HIDE DEF ends
<1>10. ends(o)
  BY <1>3, <1>4, <1>5, <1>6, <1>7, <1>8, <1>9
<1> QED BY <1>9, <1>10 DEF ends

\* part_truncate leaves the partitions in front alone, and those behind if it does
\* not make its own smaller.
LEMMA TruncateKeeps ==
  ASSUME NEW d, Good(d), NEW k \in 1..Len(d.part), NEW size \in Nat
  PROVE  Others(Truncate(d, k, size).mbr, d, k)
<1> USE MbrAssumption
<1>0. Table(d) /\ d \in MbrType /\ UsedOK(d.part)
  BY DEF Good, Table
<1>1. PICK p \in PartRec, c \in Nat, m \in Nat : p = d.part[k] /\ c = p.count /\ m = p.min
  BY <1>0, PartTypes
<1>2. Aligned(c) /\ Aligned(m) /\ m <= c
  BY <1>0, <1>1 DEF Table, Sized
<1>3. PICK count \in Nat : count = AlignUp(size) /\ Aligned(count)
  BY AlignUpFacts
<1> DEFINE set(a) == [a EXCEPT !.part[k].count = count, !.part[k].used = count]
<1>4. ASSUME NEW a, Table(a), Len(a.part) = Len(d.part), a.part[k].count = count, Others(a, d, k)
      PROVE  Others(set(a), d, k)
  <2>0. a \in MbrType /\ DOMAIN a.part = 1..Len(d.part) /\ a.part[k] \in PartRec
    BY <1>4, PartTypes DEF Table
  <2>1. PICK q \in PartRec : q = a.part[k]
    BY <2>0
  <2>2. [q EXCEPT !.count = count] = q
    BY <1>4, <2>1 DEF PartRec
  <2>3. [a.part EXCEPT ![k] = q] = a.part
    BY <2>0, <2>1, <1>4 DEF MbrType
  <2>4. set(a) = SetUsed(a, k, count)
    BY <2>0, <2>1, <2>2, <2>3 DEF SetUsed, MbrType
  <2> HIDE DEF set
  <2>5. Inside(set(a), a, k)
    BY <1>4, <2>4, SetUsedInside
  <2> QED BY <1>4, <2>5, OthersThenInside
<1>5. CASE count <= m \/ count = c
  <2>1. Truncate(d, k, size) = Ok(d)
    BY <1>1, <1>3, <1>5 DEF Truncate
  <2> QED BY <2>1, OthersSame DEF Ok
<1>6. CASE ~(count <= m \/ count = c) /\ count < c
  <2>1. PICK w \in Nat : w = c - count
    BY <1>6
  <2>2. PICK e : e = shrink_partition(d, k, w)
    OBVIOUS
  <2>3. Truncate(d, k, size) = Ok(set(e))
    BY <1>1, <1>3, <1>6, <2>1, <2>2 DEF Truncate, Then, Ok
  <2>4. Aligned(w) /\ w <= c - m
    <3>1. Aligned(c - count)
      BY <1>2, <1>3, AlignedSum
    <3> QED BY <1>6, <2>1, <3>1
  <2>5. ShrinkBy(d.part[k], w) = w
    BY <1>0, <1>1, <2>4, ShrinkByFacts
  <2>6. PICK neg \in Int : neg = -w /\ neg + w = 0
    OBVIOUS
  <2>7. Resized(e, d, k, neg)
    BY <1>0, <2>2, <2>5, <2>6, ShrinkFacts
  <2>8. Aligned(neg) /\ c + neg >= m
    BY <2>4, <2>6, AlignedSum
  <2>9. Table(e) /\ LastEnd(e) = LastEnd(d) + neg
    BY <1>0, <1>1, <2>7, <2>8, ResizedTable
  <2>10. LastEnd(e) <= LastEnd(d)
    <3>1. LastEnd(d) \in Nat
      BY <1>0, LastEndFacts
    <3> QED BY <2>6, <2>9, <3>1
  <2>11. Len(e.part) = Len(d.part)
    BY <2>7 DEF Resized
  <2>12. e.part[k].count = count
    <3>1. e.part[k].count = c + neg
      BY <1>0, <1>1, <2>7, ResizedParts
    <3> QED BY <2>1, <2>6, <3>1
  <2>13. Cut(e, d)
    BY <1>0, <2>2, ShrinkCuts
  <2>14. Others(e, d, k)
    BY <1>0, <2>9, <2>10, <2>11, <2>13, CutHeld
  <2>15. Others(set(e), d, k)
    BY <1>4, <2>9, <2>11, <2>12, <2>14
  <2> QED BY <2>3, <2>15 DEF Ok
<1>7. CASE ~(count <= m \/ count = c) /\ ~(count < c)
  <2>1. PICK w \in Nat : w = count - c /\ w # 0
    BY <1>7
  <2>2. PICK o : o = grow_partition(d, k, w)
    OBVIOUS
  <2>3. Truncate(d, k, size) = IF o.ok THEN Ok(set(o.mbr)) ELSE o
    BY <1>1, <1>3, <1>7, <2>1, <2>2 DEF Truncate, Then
  <2>4. GrowBy(w) = w
    <3>1. Aligned(w)
      BY <1>2, <1>3, <2>1, AlignedSum
    <3> QED BY <2>1, <3>1, AlignUpFacts DEF GrowBy
  <2>5. Grown(o, d, k, w)
    BY <2>2, <2>4, GrowFacts
  <2>6. Others(o.mbr, d, k)
    BY <2>1, <2>2, GrowOthers
  <2>7. CASE o.ok
    <3>1. /\ Good(o.mbr) /\ Len(o.mbr.part) = Len(d.part) /\ o.mbr.part[k] = Longer(p, w)
      BY <1>1, <2>5, <2>7 DEF Grown
    <3>2. o.mbr.part[k].count = c + w
      BY <1>1, <3>1, LongerFacts
    <3>3. o.mbr.part[k].count = count
      BY <2>1, <3>2
    <3>4. Others(set(o.mbr), d, k)
      BY <1>4, <2>6, <3>1, <3>3 DEF Good
    <3> QED BY <2>3, <2>7, <3>4 DEF Ok
  <2> QED BY <2>3, <2>6, <2>7
<1> QED BY <1>5, <1>6, <1>7

\* Setting flags changes no sector.
LEMMA SetFlagsKeeps ==
  ASSUME NEW d, Good(d), NEW k \in 1..Len(d.part), NEW grow \in BOOLEAN, NEW fill \in BOOLEAN
  PROVE  Others(SetFlags(d, k, grow, fill), d, k)
<1>0. d \in MbrType /\ DOMAIN d.part = 1..Len(d.part)
  BY PartTypes DEF Good, Table
<1>1. PICK X : X = [j \in DOMAIN d.part |->
                      IF j = k THEN [d.part[j] EXCEPT !.grow = grow, !.fill = fill]
                      ELSE Unmarked(d.part[j], fill)]
  OBVIOUS
<1>2. PICK e : e = SetFlags(d, k, grow, fill)
  OBVIOUS
<1>3. e = [d EXCEPT !.part = X]
  BY <1>1, <1>2 DEF SetFlags
<1>4. e.part = X /\ e.disk = d.disk
  BY <1>0, <1>3, WithPart
<1>5. ASSUME NEW j \in 1..Len(d.part), j # k
      PROVE  e.part[j].index = d.part[j].index /\ e.part[j].count = d.part[j].count
  <2>1. PICK p \in PartRec : p = d.part[j]
    BY <1>0, PartTypes
  <2>2. e.part[j] = Unmarked(p, fill)
    BY <1>0, <1>1, <1>4, <1>5, <2>1
  <2> QED BY <2>1, <2>2, UnmarkedFacts
<1>6. \A j \in 1..Len(d.part) : j # k => Held(e, d, j)
  BY <1>4, <1>5 DEF Held, At
<1> QED BY <1>2, <1>6 DEF Others

\* The state of the component: a good table, and the phases it goes through.
MbrInv == Good(mbr)

\* mbr_disk_create_parition appends a good partition.
LEMMA CreateFacts ==
  ASSUME NEW n \in Nat, NEW grow \in BOOLEAN, NEW fill \in BOOLEAN,
         MbrInv, mbr_disk_create_parition(n, grow, fill)
  PROVE  MbrInv'
<1> USE MbrAssumption
<1>0. Table(mbr) /\ mbr \in MbrType /\ UsedOK(mbr.part) /\ OneFill(mbr.part) /\ Len(mbr.part) \in Nat
      /\ DOMAIN mbr.part = 1..Len(mbr.part) /\ Chained(mbr.part) /\ Sized(mbr.part)
  BY DEF MbrInv, Good, Table, MbrType
<1>1. PICK want \in Nat : want = Max({n, 1}) /\ want > 0
  <2> DEFINE E == {n, 1}
  <2>1. PICK b \in Nat : b = n + 1
    OBVIOUS
  <2>2. E \subseteq 0..b /\ E # {} /\ 1 \in E /\ \A x \in E : x \in Nat
    BY <2>1
  <2> HIDE DEF E
  <2>3. Max(E) \in E /\ 1 <= Max(E)
    BY <2>2, MaxIsGreatest
  <2>4. PICK w \in Nat : w = Max(E)
    BY <2>2, <2>3
  <2>5. w > 0
    BY <2>3, <2>4
  <2> QED BY <2>4, <2>5 DEF E
<1>2. PICK count \in Nat : count = AlignUp(want) /\ Aligned(count) /\ count >= Align
  BY <1>1, AlignUpFacts
<1>3. PICK start \in Nat : start = LastEnd(mbr)
  BY <1>0, LastEndFacts
<1>4. PICK new : new = [index |-> start, count |-> count, min |-> count, used |-> 0,
                        grow |-> grow, fill |-> fill]
  OBVIOUS
<1>5. new \in PartRec /\ new.index = start /\ new.count = count /\ new.min = count
      /\ new.used = 0 /\ new.fill = fill
  BY <1>4 DEF PartRec
<1>6. PICK z : z = Discard(mbr, start, count)
  OBVIOUS
<1>7. z \in MbrType /\ z.part = mbr.part
  BY <1>0, <1>6, DiscardFacts
<1>8. Good(z)
  BY <1>7, SamePart DEF MbrInv
<1>9. PICK X : X = [j \in 1..Len(mbr.part) |-> Unmarked(mbr.part[j], fill)]
  OBVIOUS
<1>10. ASSUME NEW j \in 1..Len(mbr.part)
       PROVE  /\ X[j] \in PartRec /\ X[j].index = mbr.part[j].index
              /\ X[j].count = mbr.part[j].count /\ X[j].min = mbr.part[j].min
              /\ X[j].used = mbr.part[j].used
              /\ X[j].fill => mbr.part[j].fill /\ ~fill
  <2>1. PICK p \in PartRec : p = mbr.part[j]
    BY <1>0, PartTypes
  <2>2. X[j] = Unmarked(p, fill)
    BY <1>9, <2>1
  <2> QED BY <2>1, <2>2, UnmarkedFacts
<1>11. X \in Seq(PartRec) /\ Len(X) = Len(mbr.part)
  <2>1. X \in [1..Len(mbr.part) -> PartRec] /\ DOMAIN X = 1..Len(mbr.part)
    BY <1>9, <1>10
  <2> QED BY <1>0, <2>1
<1>12. PICK Y : Y = Append(X, new)
  OBVIOUS
<1>13. PICK e : e = [z EXCEPT !.part = Y]
  OBVIOUS
<1>14. mbr' = (IF Len(mbr.part) = MaxParts THEN Err(mbr)
               ELSE IF start + count > Sectors THEN Err(z) ELSE Ok(e)).mbr
  BY <1>0, <1>1, <1>2, <1>3, <1>4, <1>6, <1>9, <1>12, <1>13 DEF mbr_disk_create_parition, Outcome
<1>15. Y \in Seq(PartRec) /\ Len(Y) = Len(mbr.part) + 1 /\ Y[Len(mbr.part) + 1] = new
       /\ \A j \in 1..Len(mbr.part) : Y[j] = X[j]
  BY <1>5, <1>11, <1>12
<1>16. e \in MbrType /\ e.part = Y
  BY <1>7, <1>13, <1>15, WithPart
<1>17. Good(e)
  <2>1. PICK m \in Nat : m = Len(mbr.part)
    BY <1>0
  <2>2. \A j \in 1..(m + 1) : j \in 1..m \/ j = m + 1
    OBVIOUS
  <2>3. ASSUME NEW j \in 1..(m + 1)
        PROVE  /\ Y[j].index = IF j = 1 THEN Align ELSE End(Y[j - 1])
               /\ Aligned(Y[j].count) /\ Aligned(Y[j].min) /\ Align <= Y[j].min /\ Y[j].min <= Y[j].count
               /\ Y[j].used <= Y[j].count
    <3>1. CASE j \in 1..m
      <4>1. Y[j] = X[j]
        BY <2>1, <3>1, <1>15
      <4>2. /\ mbr.part[j].index = IF j = 1 THEN Align ELSE End(mbr.part[j - 1])
            /\ Aligned(mbr.part[j].count) /\ Aligned(mbr.part[j].min) /\ Align <= mbr.part[j].min
            /\ mbr.part[j].min <= mbr.part[j].count /\ mbr.part[j].used <= mbr.part[j].count
        BY <1>0, <2>1, <3>1 DEF Chained, Sized, UsedOK
      <4>3. j # 1 => End(Y[j - 1]) = End(mbr.part[j - 1])
        <5>1. j # 1 => j - 1 \in 1..m
          BY <3>1
        <5> QED BY <5>1, <2>1, <1>10, <1>15 DEF End
      <4> QED BY <2>1, <3>1, <4>1, <4>2, <4>3, <1>10
    <3>2. CASE j = m + 1
      <4>1. Y[j] = new
        BY <2>1, <3>2, <1>15
      <4>2. j # 1 => m \in 1..m /\ j - 1 = m
        BY <3>2
      <4>3. j # 1 => End(Y[j - 1]) = End(mbr.part[m])
        BY <4>2, <2>1, <1>10, <1>15 DEF End
      <4>4. j # 1 => start = End(mbr.part[m])
        BY <4>2, <2>1, <1>0, <1>3, LastEndFacts
      <4>5. j = 1 => start = Align
        <5>1. j = 1 => m = 0
          BY <3>2
        <5> QED BY <5>1, <2>1, <1>0, <1>3, LastEndFacts
      <4> QED BY <4>1, <4>3, <4>4, <4>5, <1>2, <1>5
    <3> QED BY <2>2, <3>1, <3>2
  <2>4. OneFill(Y)
    <3> SUFFICES ASSUME NEW i \in 1..(m + 1), NEW j \in 1..(m + 1), Y[i].fill, Y[j].fill
                 PROVE  i = j
      BY <2>1, <1>15 DEF OneFill
    <3>1. \A l \in 1..m : Y[l].fill => mbr.part[l].fill /\ ~fill
      BY <2>1, <1>10, <1>15
    <3>2. Y[m + 1].fill => fill
      BY <2>1, <1>5, <1>15
    <3> QED BY <2>1, <2>2, <3>1, <3>2, <1>0 DEF OneFill
  <2> QED BY <2>1, <2>3, <2>4, <1>15, <1>16 DEF Good, Table, Chained, Sized, UsedOK
<1>18. mbr' = mbr \/ mbr' = z \/ mbr' = e
  BY <1>14 DEF Ok, Err
<1> QED BY <1>8, <1>17, <1>18 DEF MbrInv

-----------------------------------------------------------------------------
\* partition_mbr_create hands out a table without partitions, which is in order.
LEMMA InitGood == Init => MbrInv
<1> SUFFICES ASSUME Init PROVE MbrInv
  OBVIOUS
<1>1. mbr.part = <<>> /\ mbr = [part |-> <<>>, disk |-> [s \in Disk |-> 0]]
  BY DEF Init
<1>2. Len(mbr.part) = 0 /\ <<>> \in Seq(PartRec) /\ 1..0 = {}
  BY <1>1
<1>3. mbr \in MbrType
  BY <1>1, <1>2 DEF MbrType
<1> QED BY <1>2, <1>3 DEF MbrInv, Good, Table, Chained, Sized, OneFill, UsedOK

\* A call that leaves a good table behind keeps the invariant.
LEMMA OutcomeGood ==
  ASSUME NEW k, NEW o, NEW l, GoodOutcome(o), Outcome(k, o, l)
  PROVE  MbrInv'
  BY DEF GoodOutcome, Outcome, MbrInv

\* Every call keeps the invariant.
LEMMA NextGood == MbrInv /\ [Next]_vars => MbrInv'
<1> SUFFICES ASSUME MbrInv, [Next]_vars PROVE MbrInv'
  OBVIOUS
<1> USE MbrAssumption
<1>0. Good(mbr) /\ Parts = 1..Len(mbr.part)
  BY DEF MbrInv, Parts
<1>1. ASSUME NEW n \in Sizes, NEW grow \in BOOLEAN, NEW fill \in BOOLEAN,
             mbr_disk_create_parition(n, grow, fill)
      PROVE  MbrInv'
  BY <1>1, CreateFacts
<1>2. ASSUME NEW k \in Parts, NEW i \in Touched, part_write_block(k, i) PROVE MbrInv'
  <2>1. GoodOutcome(WriteBlock(mbr, k, i))
    BY <1>0, WriteBlockFacts
  <2> QED BY <1>2, <2>1, OutcomeGood DEF part_write_block
<1>3. ASSUME NEW k \in Parts, NEW i \in Touched, NEW n \in 1..Align, part_discard_blocks(k, i, n)
      PROVE  MbrInv'
  <2>1. Good(DiscardBlocks(mbr, k, i, n))
    BY <1>0, DiscardBlocksFacts
  <2>2. GoodOutcome(Ok(DiscardBlocks(mbr, k, i, n)))
    BY <2>1 DEF Ok, GoodOutcome
  <2> QED BY <1>3, <2>2, OutcomeGood DEF part_discard_blocks
<1>4. ASSUME NEW k \in Parts, NEW src \in Touched, NEW dst \in Touched, part_move_block(k, src, dst)
      PROVE  MbrInv'
  <2>1. GoodOutcome(MoveBlock(mbr, k, src, dst))
    BY <1>0, MoveBlockFacts
  <2> QED BY <1>4, <2>1, OutcomeGood DEF part_move_block
<1>5. ASSUME NEW k \in Parts, NEW n \in Sizes, part_truncate(k, n) PROVE MbrInv'
  <2>1. GoodOutcome(Truncate(mbr, k, n))
    BY <1>0, TruncateFacts
  <2> QED BY <1>5, <2>1, OutcomeGood DEF part_truncate
<1>6. ASSUME NEW k \in Parts, NEW grow \in BOOLEAN, NEW fill \in BOOLEAN, part_set_flags(k, grow, fill)
      PROVE  MbrInv'
  <2>1. Good(SetFlags(mbr, k, grow, fill))
    BY <1>0, SetFlagsFacts
  <2>2. GoodOutcome(Ok(SetFlags(mbr, k, grow, fill)))
    BY <2>1 DEF Ok, GoodOutcome
  <2> QED BY <1>6, <2>2, OutcomeGood DEF part_set_flags
<1>7. CASE mbr_disk_commit
  <2>1. Good(ShrinkAll(mbr))
    <3>1. 0 \in 0..Len(mbr.part) /\ 1..0 = {}
      BY <1>0 DEF Good, Table, MbrType
    <3>2. Trimmed(ShrinkAll(mbr), mbr, 0)
      BY <1>0, <3>1, ShrinkAllFacts
    <3> QED BY <3>2 DEF Trimmed
  <2>2. Good(ExpandAll(ShrinkAll(mbr)).mbr)
    BY <2>1, ExpandAllFacts
  <2> QED BY <1>7, <2>2 DEF mbr_disk_commit, Committed, MbrInv
<1>8. CASE UNCHANGED vars
  BY <1>8 DEF vars, MbrInv
<1> QED BY <1>1, <1>2, <1>3, <1>4, <1>5, <1>6, <1>7, <1>8 DEF Next

\* The inductive invariant: the table is good in every state.
THEOREM MbrInvariant == Spec => []MbrInv
  BY InitGood, NextGood, PTL DEF Spec

\* Whatever is pushed back, cut down or expanded by whichever sequence of calls,
\* and whether these succeed or fail, the partitions stay behind each other,
\* aligned, above their minimum, and at most one is marked FILL.
THEOREM MbrPacked == Spec => []Packed
<1>1. MbrInv => Packed
  BY DEF MbrInv, Good, Table, Chained, Sized, OneFill, UsedOK, Aligned, Packed, Parts
<1> QED BY <1>1, MbrInvariant, PTL

\* get_max_block_count() of a partition is a promise the partition keeps: while
\* the table fits the disk, any block below it can be written, by pushing the
\* later partitions back if need be.
THEOREM MbrMaxIsPromised == Spec => []MaxIsPromised
<1>1. MbrInv => MaxIsPromised
  <2> USE MbrAssumption
  <2> SUFFICES ASSUME Good(mbr), LastEnd(mbr) <= Sectors, NEW k \in 1..Len(mbr.part), NEW i \in Nat,
                      i < get_max_count(mbr, k)
               PROVE  WriteBlock(mbr, k, i).ok
    BY DEF MbrInv, MaxIsPromised, InDisk, Parts, Disk
  <2>0. Table(mbr) /\ mbr \in MbrType
    BY DEF Good, Table
  <2>1. PICK c \in Nat : c = mbr.part[k].count
    BY <2>0, PartTypes
  <2>2. PICK free \in Nat : /\ free = get_free_space(mbr) /\ Aligned(free)
                            /\ (free = 0 \/ LastEnd(mbr) + free <= Sectors)
    BY <2>0, FreeSpaceFacts
  <2>3. CASE i < c
    BY <2>1, <2>3, WriteBlockFacts
  <2>4. CASE i >= c
    <3>0. get_max_count(mbr, k) = c + (IF mbr.part[k].grow THEN free ELSE 0)
      BY <2>1, <2>2 DEF get_max_count
    <3>1. mbr.part[k].grow /\ i < c + free
      <4>1. CASE mbr.part[k].grow
        BY <3>0, <4>1
      <4>2. CASE ~mbr.part[k].grow
        <5>1. get_max_count(mbr, k) = c + 0
          BY <3>0, <4>2
        <5> QED BY <5>1, <2>4
      <4> QED BY <4>1, <4>2
    <3>2. PICK w \in Nat : w = i - c + 1 /\ w <= free /\ w > 0
      BY <2>4, <3>1
    <3>3. GrowBy(w) <= free /\ GrowBy(w) \in Nat
      <4>1. GrowBy(w) = AlignUp(w)
        BY <3>2 DEF GrowBy
      <4>2. AlignUp(w) \in Nat /\ \A m \in Int : Aligned(m) /\ w <= m => AlignUp(w) <= m
        BY AlignUpFacts
      <4>3. free \in Int
        OBVIOUS
      <4>4. AlignUp(w) <= free
        BY <2>2, <3>2, <4>2, <4>3
      <4> QED BY <4>1, <4>2, <4>4
    <3>4. LastEnd(mbr) \in Nat
      BY <2>0, LastEndFacts
    <3>5. LastEnd(mbr) + GrowBy(w) <= Sectors
      BY <2>2, <3>2, <3>3, <3>4
    <3> QED BY <2>1, <2>4, <3>1, <3>2, <3>5, WriteBlockFacts
  <2> QED BY <2>1, <2>3, <2>4
<1> QED BY <1>1, MbrInvariant, PTL

\* What a reader of partition k sees, if the partition is held.
LEMMA HeldReads ==
  ASSUME NEW d, NEW e, NEW k, d.part[k].index \in Nat, d.part[k].count \in Nat, Held(e, d, k), NEW i \in Nat
  PROVE  part_read_block(e, k, i) = part_read_block(d, k, i)
<1>1. e.part[k].count = d.part[k].count
  BY DEF Held
<1>2. CASE i >= d.part[k].count
  BY <1>1, <1>2 DEF part_read_block
<1>3. CASE ~(i >= d.part[k].count)
  <2>1. i < d.part[k].count
    BY <1>3
  <2>2. At(e, e.part[k].index + i) = At(d, d.part[k].index + i)
    BY <2>1 DEF Held
  <2>3. /\ part_read_block(e, k, i) = At(e, e.part[k].index + i)
        /\ part_read_block(d, k, i) = At(d, d.part[k].index + i)
    BY <1>1, <1>3 DEF part_read_block, At
  <2> QED BY <2>2, <2>3
<1> QED BY <1>2, <1>3

\* A partition held reads as it did.
LEMMA HeldReadsSame ==
  ASSUME NEW d, Good(d), NEW e, NEW k \in 1..Len(d.part), Held(e, d, k)
  PROVE  \A i \in Nat : part_read_block(e, k, i) = part_read_block(d, k, i)
<1>1. d.part[k].index \in Nat /\ d.part[k].count \in Nat
  BY PartTypes DEF Good, Table
<1> QED BY <1>1, HeldReads

\* Cutting down others leaves a partition alone up to which there is nothing to cut off.
LEMMA TrimmedHeld ==
  ASSUME NEW d, Good(d), NEW e, NEW k \in 1..Len(d.part), Trimmed(e, d, k)
  PROVE  Held(e, d, k)
<1>1. Table(d) /\ Table(e) /\ Len(e.part) = Len(d.part) /\ LastEnd(e) <= LastEnd(d) /\ Cut(e, d)
  BY DEF Trimmed, Good
<1>2. \A i \in 1..k : i \in 1..Len(d.part) /\ e.part[i] = d.part[i]
  BY DEF Trimmed
<1>3. \A i \in 1..k : e.part[i].count >= d.part[i].count
  BY <1>1, <1>2, PartTypes DEF Table
<1>4. Len(d.part) + 1 \notin 1..Len(d.part)
  BY <1>1 DEF Table, MbrType
<1>5. Others(e, d, Len(d.part) + 1)
  BY <1>1, CutHeld
<1> QED BY <1>3, <1>4, <1>5 DEF Others

\* A partition that grows reads as it did, and zeros in its new sectors.
LEMMA GrowReads ==
  ASSUME NEW d, Good(d), NEW k \in 1..Len(d.part), NEW n \in Nat, NEW i \in Nat
  PROVE  part_read_block(grow_partition(d, k, n).mbr, k, i) = part_read_block(d, k, i)
<1> USE MbrAssumption
<1>1. PICK diff \in Nat : diff = GrowBy(n)
  BY GrowByFacts
<1>2. PICK s : s = ShrinkBehind(d, k)
  OBVIOUS
<1>3. Trimmed(s, d, k) /\ Good(s) /\ s \in MbrType /\ k \in 1..Len(s.part)
  BY <1>2, ShrinkBehindFacts DEF Trimmed, Good, Table
<1>4. PICK o : o = grow_partition(d, k, n)
  OBVIOUS
<1>5. GrownDisk(o, s, k, diff)
  BY <1>1, <1>2, <1>4, GrowSteps
<1>6. Held(s, d, k)
  BY <1>3, TrimmedHeld
<1>7. part_read_block(s, k, i) = part_read_block(d, k, i)
  BY <1>6, HeldReadsSame
<1>8. CASE ~o.ok
  BY <1>4, <1>5, <1>7, <1>8 DEF GrownDisk
<1>9. CASE o.ok
  <2>1. PICK e : e = o.mbr
    OBVIOUS
  <2>2. PICK c \in Nat, x \in Nat : c = s.part[k].count /\ x = s.part[k].index
    BY <1>3, PartTypes
  <2>3. e.part[k].index = x + 0 /\ e.part[k].count = c + diff
    <3>1. Resized(e, s, k, diff)
      BY <1>5, <1>9, <2>1 DEF GrownDisk
    <3> QED BY <1>3, <2>2, <3>1, ResizedParts
  <2>4. e.part[k].index = x
    BY <2>2, <2>3
  <2>5. \A t \in Disk : /\ t < x + c => e.disk[t] = s.disk[t]
                        /\ t >= x + c /\ t < (x + c) + diff => e.disk[t] = 0
    BY <1>5, <1>9, <2>1, <2>2 DEF GrownDisk, End
  <2>6. PICK t \in Nat : t = x + i
    OBVIOUS
  <2>7. part_read_block(s, k, i) = IF i >= c THEN 0 ELSE IF t \in Disk THEN s.disk[t] ELSE 0
    BY <2>2, <2>6 DEF part_read_block
  <2>8. part_read_block(e, k, i) = IF i >= c + diff THEN 0 ELSE IF t \in Disk THEN e.disk[t] ELSE 0
    BY <2>3, <2>4, <2>6 DEF part_read_block
  <2>9. CASE i < c
    <3>1. t < x + c
      BY <2>6, <2>9
    <3>2. t \in Disk => e.disk[t] = s.disk[t]
      BY <2>5, <3>1
    <3>3. ~(i >= c) /\ ~(i >= c + diff)
      BY <2>9
    <3>4. part_read_block(e, k, i) = part_read_block(s, k, i)
      BY <2>7, <2>8, <3>2, <3>3
    <3> QED BY <1>4, <1>7, <2>1, <3>4
  <2>10. CASE i >= c
    <3>1. ~(i >= c + diff) => t >= x + c /\ t < (x + c) + diff
      BY <2>6, <2>10
    <3>2. ~(i >= c + diff) /\ t \in Disk => e.disk[t] = 0
      BY <2>5, <3>1
    <3>3. part_read_block(e, k, i) = 0
      BY <2>8, <3>2
    <3> QED BY <1>4, <1>7, <2>1, <2>7, <2>10, <3>3
  <2> QED BY <2>9, <2>10
<1> QED BY <1>8, <1>9

\* So do the others, as long as nothing is cut off them or in front of them; and what has
\* nothing to cut off stays so when it is pushed back.
LEMMA GrowAround ==
  ASSUME NEW d, Good(d), NEW k \in 1..Len(d.part), NEW n \in Nat, NEW m \in 1..Len(d.part),
         \A j \in (k + 1)..m : Tight(d.part[j]), NEW e, e = grow_partition(d, k, n).mbr
  PROVE  /\ \A i \in Nat : part_read_block(e, m, i) = part_read_block(d, m, i)
         /\ \A j \in (k + 1)..m : Tight(e.part[j])
<1>0. Table(d) /\ d \in MbrType
  BY DEF Good, Table
<1>1. PICK o : o = grow_partition(d, k, n)
  OBVIOUS
<1>2. PICK diff \in Nat : diff = GrowBy(n)
  BY GrowByFacts
<1>3. PICK s : s = ShrinkBehind(d, k)
  OBVIOUS
<1>4. GrownDisk(o, s, k, diff)
  BY <1>1, <1>2, <1>3, GrowSteps
<1>5. Trimmed(s, d, k)
  BY <1>3, ShrinkBehindFacts
<1>6. CASE m <= k
  <2>1. (k + 1)..m = {}
    BY <1>6
  <2>2. CASE m = k
    BY <2>1, <2>2, GrowReads
  <2>3. CASE m # k
    <3>1. \A i \in 1..m : i \in 1..Len(d.part) /\ i < k
      BY <1>6, <2>3
    <3>2. \A i \in 1..m : s.part[i] = d.part[i]
      BY <1>5, <3>1 DEF Trimmed
    <3>3. \A i \in 1..m : e.part[i] = s.part[i]
      BY <1>1, <1>4, <1>5, <3>1 DEF GrownDisk, Resized, Trimmed
    <3>4. \A i \in 1..m : e.part[i].count >= d.part[i].count
      <4>1. \A i \in 1..m : d.part[i].count \in Nat
        BY <1>0, <3>1, PartTypes
      <4>2. \A i \in 1..m : e.part[i].count = d.part[i].count
        BY <3>2, <3>3
      <4> QED BY <4>1, <4>2
    <3>5. Others(e, d, k)
      BY <1>1, GrowOthers
    <3>6. Held(e, d, m)
      BY <2>3, <3>4, <3>5 DEF Others
    <3> QED BY <2>1, <3>6, HeldReadsSame
  <2> QED BY <2>2, <2>3
<1>7. CASE m > k
  <2>1. m \in k..Len(d.part)
    BY <1>7
  <2>2. Trimmed(s, d, m)
    BY <1>3, <2>1, ShrinkBehindKeeps
  <2>3. s \in MbrType /\ Len(s.part) = Len(d.part)
    BY <2>2 DEF Trimmed, Good, Table
  <2>4. \A i \in 1..m : i \in 1..Len(d.part) /\ s.part[i] = d.part[i]
    BY <2>2 DEF Trimmed
  <2>5. ASSUME NEW i \in 1..m
        PROVE  /\ e.part[i].count >= d.part[i].count
               /\ i # k => e.part[i].count = d.part[i].count
               /\ e.part[i].used = d.part[i].used /\ e.part[i].min = d.part[i].min
    <3>1. PICK p \in PartRec : p = d.part[i] /\ p = s.part[i] /\ p.count \in Nat
      BY <1>0, <2>4, PartTypes DEF PartRec
    <3>2. e.part[i] \in {p, Longer(p, diff), Shifted(p, diff)} /\ (i # k => e.part[i] \in {p, Shifted(p, diff)})
      BY <1>1, <1>4, <2>3, <2>4, <3>1 DEF GrownDisk, Resized
    <3>3. /\ Longer(p, diff).count = p.count + diff /\ Shifted(p, diff).count = p.count
          /\ Longer(p, diff).used = p.used /\ Shifted(p, diff).used = p.used
          /\ Longer(p, diff).min = p.min /\ Shifted(p, diff).min = p.min
      BY LongerFacts, ShiftedFacts
    <3>4. p.count + diff >= p.count
      BY <3>1
    <3> QED BY <3>1, <3>2, <3>3, <3>4
  <2>6. Others(e, d, k)
    BY <1>1, GrowOthers
  <2>7. Held(e, d, m)
    BY <1>7, <2>5, <2>6 DEF Others
  <2>8. ASSUME NEW j \in (k + 1)..m PROVE Tight(e.part[j])
    <3>1. j \in 1..m /\ j # k
      OBVIOUS
    <3> QED BY <2>5, <3>1, TightAnywhere
  <2> QED BY <2>7, <2>8, HeldReadsSame
<1> QED BY <1>6, <1>7

\* mbr_apply_expand_policy grows a partition or does nothing.
LEMMA ExpandKeeps ==
  ASSUME NEW d, Good(d), NEW k \in 1..Len(d.part), NEW m \in 1..Len(d.part),
         \A j \in (k + 1)..m : Tight(d.part[j]), NEW e, e = mbr_apply_expand_policy(d, k).mbr
  PROVE  /\ \A i \in Nat : part_read_block(e, m, i) = part_read_block(d, m, i)
         /\ \A j \in (k + 1)..m : Tight(e.part[j])
<1>0. Table(d) /\ d \in MbrType
  BY DEF Good, Table
<1>1. PICK avail \in Nat : avail = get_free_space(d)
  BY <1>0, FreeSpaceFacts
<1>2. PICK c \in Nat : c = d.part[k].count
  BY <1>0, PartTypes
<1>3. CASE ~d.part[k].fill \/ c >= avail
  <2>1. e = d
    BY <1>1, <1>2, <1>3 DEF mbr_apply_expand_policy, Ok
  <2> QED BY <2>1
<1>4. CASE ~(~d.part[k].fill \/ c >= avail)
  <2>1. PICK w \in Nat : w = avail - c
    BY <1>4
  <2>2. e = grow_partition(d, k, w).mbr
    BY <1>1, <1>2, <1>4, <2>1 DEF mbr_apply_expand_policy
  <2> QED BY <2>2, GrowAround
<1> QED BY <1>3, <1>4

\* mbr_disk_commit leaves a partition alone up to which there is nothing to cut off.
LEMMA CommitKeeps ==
  ASSUME NEW d, Good(d), NEW m \in 1..Len(d.part), \A j \in 1..m : Tight(d.part[j]), NEW i \in Nat
  PROVE  part_read_block(Committed(d).mbr, m, i) = part_read_block(d, m, i)
<1>1. PICK a : a = ShrinkAll(d)
  OBVIOUS
<1>2. Trimmed(a, d, m)
  <2>1. m \in 0..Len(d.part)
    OBVIOUS
  <2> QED BY <1>1, <2>1, ShrinkAllFacts
<1>3. Good(a) /\ Len(a.part) = Len(d.part) /\ Len(a.part) \in Nat
  BY <1>2 DEF Trimmed, Good, Table, MbrType
<1>4. \A j \in 1..m : Tight(a.part[j])
  <2>1. \A j \in 1..m : j \in 1..Len(d.part) /\ a.part[j] = d.part[j]
    BY <1>2 DEF Trimmed
  <2> QED BY <2>1
<1>5. part_read_block(a, m, i) = part_read_block(d, m, i)
  <2>1. Held(a, d, m)
    BY <1>2, TrimmedHeld
  <2> QED BY <2>1, HeldReadsSame
<1>6. PICK n \in Nat : n = Len(a.part)
  BY <1>3
<1>7. PICK s : /\ ExpandAll(a) = s[n]
               /\ s[0] = Ok(a)
               /\ \A j \in 1..n :
                    s[j] = IF s[j - 1].ok THEN mbr_apply_expand_policy(s[j - 1].mbr, j) ELSE s[j - 1]
               /\ \A j \in 0..n : Good(s[j].mbr) /\ Len(s[j].mbr.part) = n
  BY <1>3, <1>6, ExpandLoop
<1> DEFINE Kept(t) == /\ part_read_block(s[t].mbr, m, i) = part_read_block(a, m, i)
                      /\ \A j \in (t + 1)..m : Tight(s[t].mbr.part[j])
           T == { t \in Nat : t <= n => Kept(t) }
<1>8. 0 \in T
  <2>1. s[0].mbr = a
    BY <1>7 DEF Ok
  <2>2. (0 + 1)..m = 1..m
    OBVIOUS
  <2> QED BY <1>4, <2>1, <2>2
<1>9. ASSUME NEW t \in Nat, t \in T PROVE t + 1 \in T
  <2> SUFFICES ASSUME t + 1 <= n PROVE Kept(t + 1)
    OBVIOUS
  <2>1. t \in 0..n /\ t + 1 \in 1..n /\ (t + 1) - 1 = t /\ Kept(t)
    BY <1>6, <1>9
  <2>2. PICK o, x : o = s[t] /\ x = o.mbr
    OBVIOUS
  <2>3. Good(x) /\ Len(x.part) = n
    BY <1>7, <2>1, <2>2
  <2>4. s[t + 1] = IF o.ok THEN mbr_apply_expand_policy(x, t + 1) ELSE o
    BY <1>7, <2>1, <2>2
  <2>5. part_read_block(x, m, i) = part_read_block(a, m, i) /\ \A j \in (t + 1)..m : Tight(x.part[j])
    BY <2>1, <2>2
  <2>6. \A j \in ((t + 1) + 1)..m : j \in (t + 1)..m
    OBVIOUS
  <2>7. CASE ~o.ok
    BY <2>2, <2>4, <2>5, <2>6, <2>7
  <2>8. CASE o.ok
    <3>1. PICK e : e = mbr_apply_expand_policy(x, t + 1).mbr /\ e = s[t + 1].mbr
      BY <2>4, <2>8
    <3>2. \A j \in ((t + 1) + 1)..m : Tight(x.part[j])
      BY <2>5, <2>6
    <3>3. t + 1 \in 1..Len(x.part) /\ m \in 1..Len(x.part)
      BY <1>3, <1>6, <2>1, <2>3
    <3>4. /\ \A y \in Nat : part_read_block(e, m, y) = part_read_block(x, m, y)
          /\ \A j \in ((t + 1) + 1)..m : Tight(e.part[j])
      BY <2>3, <3>1, <3>2, <3>3, ExpandKeeps
    <3> QED BY <2>5, <3>1, <3>4
  <2> QED BY <2>7, <2>8
<1> HIDE DEF T
<1>10. n \in T
  BY <1>8, <1>9, SetInduction
<1>11. part_read_block(s[n].mbr, m, i) = part_read_block(a, m, i)
  BY <1>10 DEF T
<1> QED BY <1>1, <1>5, <1>7, <1>11 DEF Committed

\* A new partition is cleared behind the others.
LEMMA CreateKeeps ==
  ASSUME NEW n \in Nat, NEW grow \in BOOLEAN, NEW fill \in BOOLEAN,
         MbrInv, mbr_disk_create_parition(n, grow, fill)
  PROVE  \A j \in 1..Len(mbr.part) : Held(mbr', mbr, j)
<1> USE MbrAssumption
<1>0. Table(mbr) /\ mbr \in MbrType /\ Len(mbr.part) \in Nat /\ DOMAIN mbr.part = 1..Len(mbr.part)
  BY DEF MbrInv, Good, Table, MbrType
<1>1. PICK count : count = AlignUp(Max({n, 1}))
  OBVIOUS
<1>2. PICK start \in Nat : start = LastEnd(mbr)
  BY <1>0, LastEndFacts
<1>3. PICK new : new = [index |-> start, count |-> count, min |-> count, used |-> 0,
                        grow |-> grow, fill |-> fill]
  OBVIOUS
<1>4. PICK z : z = Discard(mbr, start, count)
  OBVIOUS
<1>5. z \in MbrType
  BY <1>0, <1>4, DiscardFacts
<1>6. PICK X : X = [j \in 1..Len(mbr.part) |-> Unmarked(mbr.part[j], fill)]
  OBVIOUS
<1>7. PICK Y : Y = Append(X, new)
  OBVIOUS
<1>8. PICK e : e = [z EXCEPT !.part = Y]
  OBVIOUS
<1>9. PICK o : o = IF Len(mbr.part) = MaxParts THEN Err(mbr)
                   ELSE IF start + count > Sectors THEN Err(z) ELSE Ok(e)
  OBVIOUS
<1>10. Outcome(Len(mbr.part) + 1, o, Append(live, {}))
  BY <1>0, <1>1, <1>2, <1>3, <1>4, <1>6, <1>7, <1>8, <1>9 DEF mbr_disk_create_parition
<1>11. mbr' \in {mbr, z, e}
  BY <1>9, <1>10 DEF Outcome, Ok, Err
<1>14. e.part = Y /\ e.disk = z.disk /\ z.part = mbr.part
  BY <1>0, <1>4, <1>5, <1>8, WithPart, DiscardFacts
<1>15. ASSUME NEW j \in 1..Len(mbr.part)
       PROVE  e.part[j].index = mbr.part[j].index /\ e.part[j].count = mbr.part[j].count
  <2>1. PICK p \in PartRec : p = mbr.part[j]
    BY <1>0, PartTypes
  <2>2. X[j] = Unmarked(p, fill)
    BY <1>6, <2>1
  <2>3. Y[j] = X[j]
    <3>1. X \in Seq(PartRec) /\ Len(X) = Len(mbr.part)
      <4>1. \A i \in 1..Len(mbr.part) : Unmarked(mbr.part[i], fill) \in PartRec
        BY <1>0, PartTypes, UnmarkedFacts
      <4>2. X \in [1..Len(mbr.part) -> PartRec] /\ DOMAIN X = 1..Len(mbr.part)
        BY <1>6, <4>1
      <4> QED BY <1>0, <4>2
    <3> QED BY <1>7, <3>1
  <2> QED BY <1>14, <2>1, <2>2, <2>3, UnmarkedFacts
<1>16. ASSUME NEW j \in 1..Len(mbr.part), NEW y \in {z, e} PROVE Held(y, mbr, j)
  <2>1. PICK c \in Nat, x \in Nat : c = mbr.part[j].count /\ x = mbr.part[j].index
    BY <1>0, PartTypes
  <2>2. x + c <= start
    BY <1>0, <1>2, <2>1, LastEndFacts DEF End
  <2>3. ASSUME NEW i \in Nat, i < c PROVE At(y, x + i) = At(mbr, x + i)
    <3>1. ~(x + i >= start)
      BY <2>2, <2>3
    <3>2. x + i \in Disk => y.disk[x + i] = mbr.disk[x + i]
      BY <1>0, <1>4, <1>14, <3>1, DiscardDisk
    <3> QED BY <3>2 DEF At
  <2>4. y.part[j].index = x /\ y.part[j].count = c
    BY <1>14, <1>15, <2>1
  <2> QED BY <2>1, <2>3, <2>4 DEF Held
<1>17. \A j \in 1..Len(mbr.part) : Held(mbr, mbr, j)
  BY DEF Held
<1> QED BY <1>11, <1>16, <1>17

\* A call on partition k shows the other partitions as they were.
LEMMA OutcomeOthers ==
  ASSUME NEW k, NEW o, NEW l, Outcome(k, o, l), Others(o.mbr, mbr, k)
  PROVE  on' = k /\ Others(mbr', mbr, k)
  BY DEF Outcome

\* A call on one partition does not change what is read from another, wherever it pushes
\* that one and whether it succeeds or fails half way, unless it makes the other one or
\* one in front of it smaller (part.c:39-45 takes no data along); and commit does not
\* change it unless it has something to cut off the partition or one in front of it.
THEOREM MbrOthersKept == Spec => OthersKept
<1> DEFINE Reads(k) == \A i \in Disk : part_read_block(mbr', k, i) = part_read_block(mbr, k, i)
           Step == \A k \in Parts \ {on'} : Uncut(k) => Reads(k)
<1>2. MbrInv /\ [Next]_vars => [Step]_vars
  <2> SUFFICES ASSUME MbrInv, Next PROVE Step
    OBVIOUS
  <2> USE MbrAssumption
  <2>0. Good(mbr) /\ Parts = 1..Len(mbr.part) /\ mbr \in MbrType
    BY DEF MbrInv, Parts, Good, Table
  <2>1. ASSUME NEW k \in Parts, Held(mbr', mbr, k) PROVE Reads(k)
    <3>1. \A i \in Disk : i \in Nat
      BY DEF Disk
    <3> QED BY <2>0, <2>1, <3>1, HeldReadsSame
  <2> HIDE DEF Reads
  <2>2. ASSUME NEW p, on' = p, Others(mbr', mbr, p) PROVE Step
    BY <2>0, <2>1, <2>2 DEF Others, Uncut
  <2>3. ASSUME NEW n \in Sizes, NEW grow \in BOOLEAN, NEW fill \in BOOLEAN,
               mbr_disk_create_parition(n, grow, fill)
        PROVE  Step
    <3>1. \A k \in Parts : Held(mbr', mbr, k)
      BY <2>0, <2>3, CreateKeeps
    <3> QED BY <2>1, <3>1
  <2>4. ASSUME NEW k \in Parts, NEW i \in Touched, part_write_block(k, i)
        PROVE  on' = k /\ Others(mbr', mbr, k)
    <3>1. Others(WriteBlock(mbr, k, i).mbr, mbr, k)
      BY <2>0, WriteBlockKeeps
    <3> QED BY <2>4, <3>1, OutcomeOthers DEF part_write_block
  <2>5. ASSUME NEW k \in Parts, NEW i \in Touched, NEW n \in 1..Align, part_discard_blocks(k, i, n)
        PROVE  on' = k /\ Others(mbr', mbr, k)
    <3>1. Inside(DiscardBlocks(mbr, k, i, n), mbr, k)
      BY <2>0, DiscardBlocksInside
    <3>2. Others(DiscardBlocks(mbr, k, i, n), mbr, k)
      BY <2>0, <3>1, InsideOthers DEF Good
    <3>3. Others(Ok(DiscardBlocks(mbr, k, i, n)).mbr, mbr, k)
      BY <3>2 DEF Ok
    <3> QED BY <2>5, <3>3, OutcomeOthers DEF part_discard_blocks
  <2>6. ASSUME NEW k \in Parts, NEW src \in Touched, NEW dst \in Touched, part_move_block(k, src, dst)
        PROVE  on' = k /\ Others(mbr', mbr, k)
    <3>1. Others(MoveBlock(mbr, k, src, dst).mbr, mbr, k)
      BY <2>0, MoveBlockKeeps
    <3> QED BY <2>6, <3>1, OutcomeOthers DEF part_move_block
  <2>7. ASSUME NEW k \in Parts, NEW n \in Sizes, part_truncate(k, n)
        PROVE  on' = k /\ Others(mbr', mbr, k)
    <3>1. Others(Truncate(mbr, k, n).mbr, mbr, k)
      BY <2>0, TruncateKeeps
    <3> QED BY <2>7, <3>1, OutcomeOthers DEF part_truncate
  <2>8. ASSUME NEW k \in Parts, NEW grow \in BOOLEAN, NEW fill \in BOOLEAN, part_set_flags(k, grow, fill)
        PROVE  on' = k /\ Others(mbr', mbr, k)
    <3>1. Others(SetFlags(mbr, k, grow, fill), mbr, k)
      BY <2>0, SetFlagsKeeps
    <3>2. Others(Ok(SetFlags(mbr, k, grow, fill)).mbr, mbr, k)
      BY <3>1 DEF Ok
    <3> QED BY <2>8, <3>2, OutcomeOthers DEF part_set_flags
  <2>9. ASSUME mbr_disk_commit PROVE Step
    <3> SUFFICES ASSUME NEW k \in Parts, Uncut(k) PROVE Reads(k)
      OBVIOUS
    <3>1. on' = 0 /\ mbr' = Committed(mbr).mbr
      BY <2>9 DEF mbr_disk_commit
    <3>2. \A j \in 1..k : j \in 1..Len(mbr.part) /\ mbr_shrink_to_fit(mbr, j) = mbr
      BY <2>0, <3>1 DEF Uncut
    <3>3. \A j \in 1..k : Tight(mbr.part[j])
      BY <2>0, <3>2, StaysIsTight
    <3>4. \A i \in Nat : part_read_block(Committed(mbr).mbr, k, i) = part_read_block(mbr, k, i)
      BY <2>0, <3>3, CommitKeeps
    <3>5. \A i \in Disk : i \in Nat
      BY DEF Disk
    <3> QED BY <3>1, <3>4, <3>5 DEF Reads
  <2> HIDE DEF Step
  <2> QED BY <2>2, <2>3, <2>4, <2>5, <2>6, <2>7, <2>8, <2>9 DEF Next
<1>3. OthersKept <=> [][Step]_vars
  BY DEF OthersKept
<1> QED BY <1>2, <1>3, MbrInvariant, PTL DEF Spec
=============================================================================
