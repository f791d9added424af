------------------------ MODULE FSTreeContentsProofs ------------------------
(***************************************************************************)
(* The contents of files, for any number of files, block sizes, buffers,   *)
(* volumes and sequences of calls: a file reads back as what was written   *)
(* to it, whatever the calls on the other files do to its blocks, also if  *)
(* they fail, and what does not belong to a file is zero.                  *)
(***************************************************************************)
EXTENDS FSTreeFilesProofs

-----------------------------------------------------------------------------
(***************************************************************************)
(* What the turns of the loops do to the contents of files.                *)
(***************************************************************************)
\* Byte j of block i of file n.
ByteAt(s, n, i, j) ==
  IF IsSparse(s.file[n].sparse, i) THEN 0
  ELSE s.disk[Start(s, n) + Rank(s.file[n].sparse, i)][j]

\* In t file n is z bytes long and has what it has in s, but for data from byte m of
\* block i on; new blocks have zeros.
Puts(s, t, n, z, i, m, data) ==
  /\ t.file[n].size = z
  /\ \A x \in Nat, j \in InBlk : x < BlocksFor(z) =>
       ByteAt(t, n, x, j) = IF x = i /\ j >= m /\ j < m + Len(data) THEN data[j - m + 1]
                            ELSE IF x < BlocksFor(s.file[n].size) THEN ByteAt(s, n, x, j) ELSE 0

\* The bytes of file n behind its end are zero.
Padded(s, n) ==
  \A x \in Nat, j \in InBlk :
    x < BlocksFor(s.file[n].size) /\ BlockSize * x + j >= s.file[n].size => ByteAt(s, n, x, j) = 0

\* A turn of a loop with outcome o: the other files have their contents, and if it
\* was successful, file n has the data and nothing is left elsewhere.
Does(s, o, n, z, i, m, data) ==
  /\ DiskOK(o.fs)
  /\ \A f \in Files : f # n => Carries(s, o.fs, f)
  /\ o.ok => Puts(s, o.fs, n, z, i, m, data) /\ (Clean(s) => Clean(o.fs))

\* A file that is carried has its bytes.
LEMMA CarriesBytes ==
  ASSUME NEW s, TreeGood(s), NEW t, NEW n \in Files, Carries(s, t, n),
         NEW x \in Nat, x < BlocksFor(s.file[n].size), NEW j
  PROVE  ByteAt(t, n, x, j) = ByteAt(s, n, x, j)
<1>1. PICK l : l = s.file[n].sparse
  OBVIOUS
<1>2. t.file[n].sparse = l
  BY <1>1 DEF Carries
<1>3. CASE IsSparse(l, x)
  BY <1>1, <1>2, <1>3 DEF ByteAt
<1>4. CASE ~IsSparse(l, x)
  <2>1. Rank(l, x) \in Nat /\ Rank(l, x) < Run(s, n)
    BY <1>1, <1>4, RankEnd
  <2>2. t.disk[Start(t, n) + Rank(l, x)] = s.disk[Start(s, n) + Rank(l, x)]
    BY <2>1 DEF Carries
  <2> QED BY <1>1, <1>2, <1>4, <2>2 DEF ByteAt
<1> QED BY <1>3, <1>4

\* a is s with file n at the end of the used area.
Ready(s, a, n) ==
  /\ Moved(s, a, n) /\ RunLast(a, n) /\ DiskOK(a)
  /\ \A f \in Files : Carries(s, a, f)
  /\ Clean(s) => Clean(a)

\* The numbers of such a tree.
LEMMA ReadyNumbers ==
  ASSUME NEW s, Sound(s), NEW n \in Files, NEW a, Ready(s, a, n), NEW f \in Files
  PROVE  /\ TreeGood(a) /\ Shape(a) /\ a.data_offset = s.data_offset /\ a.data_offset \in Nat
         /\ Start(a, f) \in Int /\ Start(a, n) \in Nat /\ Run(a, f) = Run(s, f) /\ Run(s, f) \in Nat
         /\ Start(a, n) + Run(s, n) = a.data_offset
         /\ f # n /\ Run(s, f) # 0 => Start(a, f) + Run(s, f) <= Start(a, n)
         /\ Run(s, f) # 0 => a.data_offset <= MaxBlocks
         /\ a.file[f].size = s.file[f].size /\ a.file[f].sparse = s.file[f].sparse
<1>1. TreeGood(a) /\ Shape(a) /\ a.data_offset = s.data_offset /\ Start(a, f) = NewStart(s, n, f)
      /\ Start(a, n) = NewStart(s, n, n)
  BY GoodShape DEF Ready, Moved
<1>2. TreeGood(s)
  BY DEF Sound
<1>3. Run(a, f) = Run(s, f) /\ Run(a, n) = Run(s, n)
  BY <1>2, CarriesRun DEF Ready
<1>4. /\ s.data_offset \in Nat /\ Start(s, f) \in Nat /\ Run(s, f) \in Nat
      /\ Start(s, n) \in Nat /\ Run(s, n) \in Nat
      /\ Run(s, f) # 0 => s.data_offset <= MaxBlocks
      /\ Run(s, n) # 0 => Start(s, n) + Run(s, n) <= s.data_offset
  BY SoundNumbers
<1>5. Start(a, f) \in Int /\ Start(a, n) \in Nat
  BY <1>1, <1>4 DEF NewStart
<1>6. /\ Start(a, n) + Run(s, n) = a.data_offset
      /\ f # n /\ Run(s, f) # 0 => Start(a, f) + Run(s, f) <= Start(a, n)
  BY <1>3 DEF Ready, RunLast
<1>7. a.file[f].size = s.file[f].size /\ a.file[f].sparse = s.file[f].sparse
  BY DEF Ready, Carries
<1> QED BY <1>1, <1>3, <1>4, <1>5, <1>6, <1>7

\* What lies in front of the last file is not touched.
LEMMA InFrontCarries ==
  ASSUME NEW s, Sound(s), NEW n \in Files, NEW a, Ready(s, a, n), NEW t,
         \A f \in Files : f # n => /\ t.file[f].size = a.file[f].size
                                   /\ t.file[f].sparse = a.file[f].sparse
                                   /\ Start(t, f) = Start(a, f),
         \A x \in Disk : x < Start(a, n) => t.disk[x] = a.disk[x]
  PROVE  \A f \in Files : f # n => Carries(s, t, f)
<1> SUFFICES ASSUME NEW f \in Files, f # n PROVE Carries(s, t, f)
  OBVIOUS
<1>1. PICK st \in Int, run \in Nat, lo \in Nat :
        /\ st = Start(a, f) /\ run = Run(s, f) /\ lo = Start(a, n)
        /\ run # 0 => st + run <= lo
  BY ReadyNumbers
<1>2. Carries(s, a, f)
  BY DEF Ready
<1>3. ASSUME NEW k \in Nat, k < Run(s, f)
      PROVE  Start(t, f) + k \in Disk /\ t.disk[Start(t, f) + k] = s.disk[Start(s, f) + k]
  <2>1. st + k \in Disk /\ a.disk[st + k] = s.disk[Start(s, f) + k]
    BY <1>1, <1>2, <1>3 DEF Carries
  <2>2. st + k < lo
    BY <1>1, <1>3
  <2>3. t.disk[st + k] = a.disk[st + k]
    BY <1>1, <2>1, <2>2
  <2> QED BY <1>1, <2>1, <2>3
<1> QED BY <1>2, <1>3 DEF Carries

\* The buffer of append_block: the data and zeros up to the end of the block.
LEMMA PaddedData ==
  ASSUME NEW data \in Seq(Int), Len(data) <= BlockSize, NEW c
  PROVE  /\ data \o Zeros(BlockSize - Len(data)) \in Seq(Int)
         /\ \A j \in InBlk : Patched(c, 0, data \o Zeros(BlockSize - Len(data)))[j] =
              IF j >= 0 /\ j < 0 + Len(data) THEN data[j - 0 + 1] ELSE 0
<1>1. PICK d \in Nat \ {0} : d = BlockSize
  BY FSTreeAssumption
<1>2. PICK k \in Nat : k = d - Len(data)
  BY <1>1
<1>3. PICK z : z = Zeros(k)
  OBVIOUS
<1>4. z \in Seq(Int) /\ Len(z) = k /\ \A j \in 1..k : z[j] = 0
  BY <1>3 DEF Zeros
<1>5. PICK p : p = data \o z
  OBVIOUS
<1>6. /\ p \in Seq(Int) /\ Len(p) = d
      /\ \A j \in 1..d : p[j] = IF j <= Len(data) THEN data[j] ELSE 0
  <2>1. p \in Seq(Int) /\ Len(p) = Len(data) + k
    BY <1>4, <1>5, ConcatProperties
  <2>2. ASSUME NEW j \in 1..d PROVE p[j] = IF j <= Len(data) THEN data[j] ELSE 0
    BY <1>2, <1>4, <1>5
  <2> QED BY <1>2, <2>1, <2>2
<1>7. ASSUME NEW j \in InBlk
      PROVE  Patched(c, 0, p)[j] = IF j >= 0 /\ j < 0 + Len(data) THEN data[j - 0 + 1] ELSE 0
  <2>1. j \in Nat /\ j < d
    BY <1>1 DEF InBlk
  <2>2. PICK y \in 1..d : y = j + 1
    BY <2>1
  <2>3. Patched(c, 0, p)[j] = p[y]
    BY <1>6, <2>1, <2>2 DEF Patched
  <2> QED BY <1>6, <2>1, <2>2, <2>3
<1> QED BY <1>1, <1>2, <1>3, <1>5, <1>6, <1>7

\* append_block puts the data into a new block at the end of the used area.
LEMMA BlockPuts ==
  ASSUME NEW s, Sound(s), NEW n \in Files, NEW data \in Seq(Int), Len(data) <= BlockSize,
         NEW y \in Nat, NEW q, q = BlocksFor(s.file[n].size), BlocksFor(y) = q + 1,
         NEW o, o = append_block(s, n, data)
  PROVE  IF o.ok THEN Does(s, Ok(SetSize(o.fs, n, y)), n, y, q, 0, data)
         ELSE DiskOK(o.fs) /\ \A f \in Files : Carries(s, o.fs, f)
<1>1. PICK v : v = MoveToEnd(s, n)
  OBVIOUS
<1>2. PICK a : a = v.fs
  OBVIOUS
<1>3. /\ DiskOK(a) /\ \A f \in Files : Carries(s, a, f)
      /\ v.ok => Ready(s, a, n)
  BY <1>1, <1>2, MoveCarries DEF Ready
<1>4. PICK p : p = data \o Zeros(BlockSize - Len(data))
  OBVIOUS
<1>5. p \in Seq(Int)
  BY <1>4, PaddedData
<1>6. PICK w : w = WritePartial(a, a.data_offset, 0, p)
  OBVIOUS
<1>7. PICK b : b = w.fs
  OBVIOUS
<1>8. PICK c : c = Used(b, 1)
  OBVIOUS
<1>9. o = IF v.ok THEN (IF w.ok THEN Ok(c) ELSE w) ELSE v
  BY <1>1, <1>2, <1>4, <1>6, <1>7, <1>8 DEF append_block, Then
<1>10. CASE ~v.ok
  BY <1>2, <1>3, <1>9, <1>10
<1>11. CASE v.ok
  <2>1. Ready(s, a, n) /\ TreeGood(a) /\ Shape(a)
    BY <1>3, <1>11, ReadyNumbers
  <2>2. PICK off \in Nat, st \in Nat, run \in Nat :
          /\ off = a.data_offset /\ off = s.data_offset /\ st = Start(a, n) /\ run = Run(s, n) /\ run = Run(a, n)
          /\ st + run = off
    BY <2>1, ReadyNumbers
  <2>3. /\ DiskOK(b) /\ (w.ok <=> off \in Disk)
        /\ \A x \in Disk : x # off => b.disk[x] = a.disk[x]
        /\ off \in Disk => b.disk[off] = Patched(a.disk[off], 0, p)
    <3>1. w = WritePartial(a, off, 0, p) /\ 0 \in Nat
      BY <1>6, <2>2
    <3>2. /\ DiskOK(w.fs) /\ (w.ok <=> off \in Disk)
          /\ \A x \in Disk : x # off => w.fs.disk[x] = a.disk[x]
          /\ off \in Disk => w.fs.disk[off] = Patched(a.disk[off], 0, p)
      BY <1>3, <1>5, <2>1, <3>1, WriteDisk
    <3> QED BY <1>7, <3>2
  <2>4. SameAccount(b, a) /\ Shape(b)
    BY <1>6, <1>7, <2>1, WriteAccount, AccountShape
  <2>5. CASE ~w.ok
    <3>1. o = w
      BY <1>9, <1>11, <2>5
    <3>2. \A x \in Disk : b.disk[x] = a.disk[x]
      BY <2>3, <2>5
    <3>3. ASSUME NEW f \in Files PROVE Carries(s, b, f)
      <4>1. Carries(s, a, f)
        BY <1>3
      <4>2. b.file = a.file /\ Start(b, f) = Start(a, f)
        BY <2>4 DEF SameAccount, Start
      <4> QED BY <3>2, <4>1, <4>2 DEF Carries
    <3> QED BY <1>7, <2>3, <2>5, <3>1, <3>3
  <2>6. CASE w.ok
    <3>1. o = Ok(c) /\ o.ok /\ o.fs = c
      BY <1>9, <1>11, <2>6 DEF Ok
    <3>2. PICK t : t = SetSize(c, n, y)
      OBVIOUS
    <3>3. /\ c.data_offset = off + 1 /\ c.gap = a.gap /\ c.file = a.file /\ c.disk = b.disk /\ Shape(c)
      <4>1. c.data_offset = b.data_offset + 1 /\ c.gap = b.gap /\ c.file = b.file
        BY <1>8, <2>4, UsedFields
      <4>2. c.disk = b.disk
        BY <1>8, <2>4, DiskSame
      <4>3. Shape(c)
        BY <1>8, <2>4, UsedSame, SameShape
      <4> QED BY <2>2, <2>4, <4>1, <4>2, <4>3 DEF SameAccount
    <3>4. /\ t.data_offset = off + 1 /\ t.gap = a.gap /\ t.disk = b.disk
          /\ \A f \in Files : Start(t, f) = Start(a, f) /\ t.file[f].sparse = a.file[f].sparse
          /\ \A f \in Files : t.file[f].size = IF f = n THEN y ELSE a.file[f].size
      <4>1. t.data_offset = c.data_offset /\ t.gap = c.gap /\ \A f \in Files : Start(t, f) = Start(c, f)
        BY <3>2, <3>3, ListFields
      <4>2. \A f \in Files : Start(c, f) = Start(a, f)
        BY <3>3 DEF Start
      <4>3. \A f \in Files : /\ t.file[f].sparse = c.file[f].sparse
                             /\ t.file[f].size = IF f = n THEN y ELSE c.file[f].size
        BY <3>2, <3>3, SizeChanged
      <4>4. t.disk = c.disk
        BY <3>2, <3>3, DiskSame
      <4> QED BY <3>3, <4>1, <4>2, <4>3, <4>4
    <3>5. \A x \in Disk : x < st => t.disk[x] = a.disk[x]
      <4> SUFFICES ASSUME NEW x \in Disk, x < st PROVE t.disk[x] = a.disk[x]
        OBVIOUS
      <4>1. x # off
        BY <2>2, OnDisk
      <4> QED BY <2>3, <3>4, <4>1
    <3>6. \A f \in Files : f # n => Carries(s, t, f)
      <4>1. \A x \in Disk : x < Start(a, n) => t.disk[x] = a.disk[x]
        BY <2>2, <3>5
      <4> QED BY <2>1, <3>4, <4>1, InFrontCarries
    <3>7. PICK l : l = s.file[n].sparse
      OBVIOUS
    <3>8. a.file[n].sparse = l /\ t.file[n].sparse = l /\ Start(t, n) = st
      BY <2>1, <2>2, <3>4, <3>7, ReadyNumbers
    <3>9. /\ q \in Nat /\ Rank(l, q) = run /\ FileGood(s.file[n].size, l)
          /\ \A i \in Nat : i < q /\ ~IsSparse(l, i) => Rank(l, i) \in Nat /\ Rank(l, i) < run
      BY <2>2, <3>7, RankEnd DEF Sound, TreeGood
    <3>10. ~IsSparse(l, q)
      BY <3>9 DEF FileGood
    <3>11. ASSUME NEW x \in Nat, NEW j \in InBlk, x < q + 1
           PROVE  ByteAt(t, n, x, j) = IF x = q /\ j >= 0 /\ j < 0 + Len(data) THEN data[j - 0 + 1]
                                       ELSE IF x < q THEN ByteAt(s, n, x, j) ELSE 0
      <4>1. CASE x = q
        <5>1. ByteAt(t, n, x, j) = b.disk[off][j]
          BY <2>2, <3>4, <3>8, <3>9, <3>10, <4>1 DEF ByteAt
        <5>2. b.disk[off] = Patched(a.disk[off], 0, p)
          BY <2>3, <2>6
        <5>3. Patched(a.disk[off], 0, p)[j] = IF j >= 0 /\ j < 0 + Len(data) THEN data[j - 0 + 1] ELSE 0
          BY <1>4, PaddedData
        <5>4. ~(x < q)
          BY <3>9, <4>1
        <5> QED BY <4>1, <5>1, <5>2, <5>3, <5>4
      <4>2. CASE x < q
        <5>1. ByteAt(t, n, x, j) = ByteAt(a, n, x, j)
          <6>1. CASE IsSparse(l, x)
            BY <3>8, <6>1 DEF ByteAt
          <6>2. CASE ~IsSparse(l, x)
            <7>1. PICK r \in Nat : r = Rank(l, x) /\ r < run
              BY <3>9, <4>2, <6>2
            <7>2. st + r \in Disk
              BY <1>3, <2>2, <7>1 DEF Carries
            <7>3. b.disk[st + r] = a.disk[st + r]
              BY <2>2, <2>3, <7>1, <7>2
            <7> QED BY <2>2, <3>4, <3>8, <6>2, <7>1, <7>3 DEF ByteAt
          <6> QED BY <6>1, <6>2
        <5>2. ByteAt(a, n, x, j) = ByteAt(s, n, x, j)
          BY <1>3, <4>2, CarriesBytes DEF Sound
        <5>3. x # q
          BY <3>9, <4>2
        <5> QED BY <4>2, <5>1, <5>2, <5>3
      <4> QED BY <3>9, <3>11, <4>1, <4>2
    <3>12. Puts(s, t, n, y, q, 0, data)
      BY <3>4, <3>11 DEF Puts
    <3>13. Clean(s) => Clean(t)
      <4> SUFFICES ASSUME Clean(a), NEW x \in Disk, x >= t.data_offset \/ x \in t.gap
                   PROVE  t.disk[x] = ZeroBlock
        BY <2>1 DEF Ready, Clean
      <4>1. x \in Nat
        BY OnDisk
      <4>2. x >= off \/ x \in a.gap
        BY <2>2, <3>4, <4>1
      <4>3. x # off
        <5>1. x \in a.gap => x < st
          BY <2>1, <2>2 DEF Ready, RunLast
        <5> QED BY <2>2, <3>4, <4>1, <5>1
      <4>4. a.disk[x] = ZeroBlock
        BY <2>2, <4>2 DEF Clean
      <4> QED BY <2>3, <3>4, <4>3, <4>4
    <3>14. DiskOK(t)
      BY <2>3, <3>4 DEF DiskOK
    <3>15. Ok(t).ok /\ Ok(t).fs = t
      BY DEF Ok
    <3>16. Does(s, Ok(t), n, y, q, 0, data)
      BY <3>6, <3>12, <3>13, <3>14, <3>15 DEF Does
    <3> QED BY <3>1, <3>2, <3>16
  <2> QED BY <2>5, <2>6
<1> QED BY <1>10, <1>11

\* Data is written to a block of the file that is stored.
LEMMA InPlace ==
  ASSUME NEW s, Sound(s), NEW n \in Files, NEW l, l = s.file[n].sparse, NEW z, z = s.file[n].size,
         NEW i \in Nat, i < BlocksFor(z), ~IsSparse(l, i), NEW m \in Nat, NEW data \in Seq(Int),
         NEW o, o = WritePartial(s, Start(s, n) + Rank(l, i), m, data)
  PROVE  o.ok /\ Does(s, o, n, z, i, m, data)
<1>1. TreeGood(s) /\ Shape(s) /\ DiskOK(s)
  BY GoodShape DEF Sound
<1>2. PICK st \in Nat, run \in Nat, off \in Nat, top \in Nat :
        /\ st = Start(s, n) /\ run = Run(s, n) /\ off = s.data_offset /\ top = MaxBlocks
        /\ run # 0 => st + run <= off /\ off <= top
  BY SoundNumbers, FSTreeAssumption
<1>3. \A x \in Nat : x < BlocksFor(z) /\ ~IsSparse(l, x) => Rank(l, x) \in Nat /\ Rank(l, x) < run
  BY <1>1, <1>2, RankEnd
<1>4. PICK r \in Nat : r = Rank(l, i) /\ r < run
  BY <1>3
<1>5. PICK b \in Nat : b = st + r
  OBVIOUS
<1>6. b \in Disk /\ b < off /\ b >= st /\ b < st + run
  <2>1. st + run <= off /\ off <= top
    <3>1. run # 0
      BY <1>4
    <3> QED BY <1>2, <3>1
  <2>2. b >= st /\ b < st + run
    BY <1>4, <1>5
  <2>3. b < off /\ b < top
    BY <2>1, <2>2
  <2>4. b < MaxBlocks
    BY <1>2, <2>3
  <2> QED BY <2>2, <2>3, <2>4, OnDisk
<1>7. o = WritePartial(s, b, m, data)
  BY <1>2, <1>4, <1>5
<1>8. PICK t : t = o.fs
  OBVIOUS
<1>9. /\ DiskOK(t) /\ o.ok
      /\ \A x \in Disk : x # b => t.disk[x] = s.disk[x]
      /\ t.disk[b] = Patched(s.disk[b], m, data)
  <2>1. /\ DiskOK(o.fs) /\ (o.ok <=> b \in Disk)
        /\ \A x \in Disk : x # b => o.fs.disk[x] = s.disk[x]
        /\ b \in Disk => o.fs.disk[b] = Patched(s.disk[b], m, data)
    BY <1>1, <1>7, WriteDisk
  <2> QED BY <1>6, <1>8, <2>1
<1>10. SameAccount(t, s)
  BY <1>1, <1>7, <1>8, WriteAccount
<1>11. t.file = s.file /\ t.data_offset = off /\ t.gap = s.gap /\ \A f \in Files : Start(t, f) = Start(s, f)
  BY <1>2, <1>10 DEF SameAccount, Start
<1>12. ASSUME NEW f \in Files, f # n PROVE Carries(s, t, f)
  <2>1. PICK sf \in Nat, rf \in Nat : sf = Start(s, f) /\ rf = Run(s, f)
    BY SoundNumbers
  <2>2. rf # 0 => st + run <= sf \/ sf + rf <= st
    BY <1>2, <1>4, <1>12, <2>1 DEF Sound, Apart
  <2>3. ASSUME NEW x \in Disk, x >= sf, x < sf + rf PROVE t.disk[x] = s.disk[x]
    <3>1. x \in Nat
      BY OnDisk
    <3>2. st + run <= sf \/ sf + rf <= st
      <4>1. rf # 0
        BY <2>1, <2>3, <3>1
      <4> QED BY <2>2, <4>1
    <3>3. b >= st /\ b < st + run
      BY <1>6
    <3>4. x >= sf /\ x < sf + rf
      BY <2>3
    <3>5. x # b
      BY <3>1, <3>2, <3>3, <3>4
    <3> QED BY <1>9, <3>5
  <2> QED BY <1>11, <2>1, <2>3, CarriesThere
<1>13. ASSUME NEW x \in Nat, NEW j \in InBlk, x < BlocksFor(z)
       PROVE  ByteAt(t, n, x, j) = IF x = i /\ j >= m /\ j < m + Len(data) THEN data[j - m + 1]
                                   ELSE IF x < BlocksFor(s.file[n].size) THEN ByteAt(s, n, x, j) ELSE 0
  <2>1. ByteAt(t, n, x, j) = IF IsSparse(l, x) THEN 0 ELSE t.disk[st + Rank(l, x)][j]
    BY <1>2, <1>11 DEF ByteAt
  <2>2. ByteAt(s, n, x, j) = IF IsSparse(l, x) THEN 0 ELSE s.disk[st + Rank(l, x)][j]
    BY <1>2 DEF ByteAt
  <2>3. CASE x = i
    <3>1. ByteAt(t, n, x, j) = t.disk[b][j] /\ ByteAt(s, n, x, j) = s.disk[b][j]
      BY <1>4, <1>5, <2>1, <2>2, <2>3
    <3>2. t.disk[b][j] = IF j >= m /\ j < m + Len(data) THEN data[j - m + 1] ELSE s.disk[b][j]
      BY <1>9 DEF Patched
    <3> QED BY <1>13, <2>3, <3>1, <3>2
  <2>4. CASE x # i
    <3>1. CASE IsSparse(l, x)
      BY <1>13, <2>1, <2>2, <2>4, <3>1
    <3>2. CASE ~IsSparse(l, x)
      <4>1. PICK k \in Nat : k = Rank(l, x) /\ k < run
        BY <1>3, <1>13, <3>2
      <4>2. k # r
        <5>1. x < i \/ i < x
          BY <2>4
        <5>2. x < i => k < r
          BY <1>4, <3>2, <4>1, RankOrder
        <5>3. i < x => r < k
          BY <1>4, <4>1, RankOrder
        <5> QED BY <5>1, <5>2, <5>3
      <4>3. st + k \in Nat /\ st + k < top /\ st + k # b
        <5>1. st + run <= top
          BY <1>2, <4>1
        <5>2. st + k # st + r
          BY <4>2
        <5> QED BY <1>5, <4>1, <5>1, <5>2
      <4>4. t.disk[st + k] = s.disk[st + k]
        <5>1. st + k \in Disk
          BY <1>2, <4>3, OnDisk
        <5> QED BY <1>9, <4>3, <5>1
      <4> QED BY <1>13, <2>1, <2>2, <2>4, <3>2, <4>1, <4>4
    <3> QED BY <3>1, <3>2
  <2> QED BY <2>3, <2>4
<1>14. Puts(s, t, n, z, i, m, data)
  BY <1>11, <1>13 DEF Puts
<1>15. Clean(s) => Clean(t)
  <2> SUFFICES ASSUME Clean(s), NEW x \in Disk, x >= t.data_offset \/ x \in t.gap
               PROVE  t.disk[x] = ZeroBlock
    BY DEF Clean
  <2>1. x >= s.data_offset \/ x \in s.gap
    BY <1>2, <1>11
  <2>2. s.disk[x] = ZeroBlock
    BY <2>1 DEF Clean
  <2>3. x \in s.gap => x < st \/ x >= st + run
    BY <1>2 DEF Sound, Spots
  <2>4. x # b
    BY <1>2, <1>6, <2>1, <2>3, OnDisk
  <2> QED BY <1>9, <2>2, <2>4
<1> QED BY <1>8, <1>9, <1>12, <1>14, <1>15 DEF Does

\* The size of the file is raised within its last block.
LEMMA DoesResize ==
  ASSUME NEW s, NEW o, NEW n \in Files, NEW z, NEW i, NEW m, NEW data, Does(s, o, n, z, i, m, data), o.ok,
         Shape(o.fs), NEW y, BlocksFor(y) = BlocksFor(z)
  PROVE  Does(s, Ok(SetSize(o.fs, n, y)), n, y, i, m, data)
<1>1. PICK a, t : a = o.fs /\ t = SetSize(a, n, y)
  OBVIOUS
<1>2. /\ t.data_offset = a.data_offset /\ t.gap = a.gap /\ t.disk = a.disk
      /\ \A f \in Files : Start(t, f) = Start(a, f) /\ t.file[f].sparse = a.file[f].sparse
      /\ \A f \in Files : t.file[f].size = IF f = n THEN y ELSE a.file[f].size
  <2>1. Shape(a)
    BY <1>1
  <2>2. t.data_offset = a.data_offset /\ t.gap = a.gap /\ \A f \in Files : Start(t, f) = Start(a, f)
    BY <1>1, <2>1, ListFields
  <2>3. \A f \in Files : /\ t.file[f].sparse = a.file[f].sparse
                         /\ t.file[f].size = IF f = n THEN y ELSE a.file[f].size
    BY <1>1, <2>1, SizeChanged
  <2>4. t.disk = a.disk
    BY <1>1, <2>1, DiskSame
  <2> QED BY <2>2, <2>3, <2>4
<1>3. /\ DiskOK(a) /\ (\A f \in Files : f # n => Carries(s, a, f))
      /\ Puts(s, a, n, z, i, m, data) /\ (Clean(s) => Clean(a))
  BY <1>1 DEF Does
<1>4. DiskOK(t) /\ (Clean(s) => Clean(t))
  BY <1>2, <1>3 DEF DiskOK, Clean
<1>5. ASSUME NEW f \in Files, f # n PROVE Carries(s, t, f)
  BY <1>2, <1>3, <1>5 DEF Carries
<1>6. ASSUME NEW x, NEW j PROVE ByteAt(t, n, x, j) = ByteAt(a, n, x, j)
  BY <1>2 DEF ByteAt
<1>7. Puts(s, t, n, y, i, m, data)
  BY <1>2, <1>3, <1>6 DEF Puts
<1>8. Ok(t).ok /\ Ok(t).fs = t
  BY DEF Ok
<1>9. Does(s, Ok(t), n, y, i, m, data)
  BY <1>4, <1>5, <1>7, <1>8 DEF Does
<1> QED BY <1>1, <1>9

\* A block of zeros is appended as a hole.
LEMMA HolePuts ==
  ASSUME NEW s, Sound(s), NEW n \in Files, NEW data \in Seq(Int), is_memory_zero(data),
         NEW y \in Nat, NEW q, q = BlocksFor(s.file[n].size), BlocksFor(y) = q + 1,
         NEW t, t = SetSize(SetSparse(s, n, MarkSparse(s.file[n].sparse, q)), n, y)
  PROVE  Does(s, Ok(t), n, y, q, 0, data)
<1>1. TreeGood(s) /\ Shape(s) /\ DiskOK(s)
  BY GoodShape DEF Sound
<1>2. PICK l : l = s.file[n].sparse
  OBVIOUS
<1>3. PICK h : h = MarkSparse(l, q)
  OBVIOUS
<1>4. q \in Nat /\ ListOK(l) /\ ~IsSparse(l, q)
  <2>1. q \in Nat
    BY <1>1, RankEnd
  <2>2. FileGood(s.file[n].size, l)
    BY <1>1, <1>2 DEF TreeGood
  <2>3. ~(q < q)
    BY <2>1
  <2> QED BY <2>1, <2>2, <2>3 DEF FileGood
<1>5. WithBlock(l, h, q)
  BY <1>3, <1>4, MarkSparseFacts
<1>6. PICK c : c = SetSparse(s, n, h)
  OBVIOUS
<1>7. t = SetSize(c, n, y)
  BY <1>2, <1>3, <1>6
<1>8. Shape(c) /\ c.disk = s.disk /\ c.data_offset = s.data_offset /\ c.gap = s.gap
      /\ \A f \in Files : /\ Start(c, f) = Start(s, f) /\ c.file[f].size = s.file[f].size
                          /\ c.file[f].sparse = IF f = n THEN h ELSE s.file[f].sparse
  <2>1. /\ Shape(c)
        /\ \A f \in Files : /\ c.file[f].size = s.file[f].size
                            /\ c.file[f].sparse = IF f = n THEN h ELSE s.file[f].sparse
    BY <1>1, <1>6, SetSparseFacts DEF SameSizes
  <2>2. c.disk = s.disk
    BY <1>1, <1>6, DiskSame
  <2>3. c.data_offset = s.data_offset /\ c.gap = s.gap /\ \A f \in Files : Start(c, f) = Start(s, f)
    BY <1>1, <1>6, ListFields
  <2> QED BY <2>1, <2>2, <2>3
<1>9. /\ t.data_offset = s.data_offset /\ t.gap = s.gap /\ t.disk = s.disk
      /\ \A f \in Files : /\ Start(t, f) = Start(s, f)
                          /\ t.file[f].sparse = IF f = n THEN h ELSE s.file[f].sparse
                          /\ t.file[f].size = IF f = n THEN y ELSE s.file[f].size
  <2>1. t.data_offset = c.data_offset /\ t.gap = c.gap /\ \A f \in Files : Start(t, f) = Start(c, f)
    BY <1>7, <1>8, ListFields
  <2>2. \A f \in Files : /\ t.file[f].sparse = c.file[f].sparse
                         /\ t.file[f].size = IF f = n THEN y ELSE c.file[f].size
    BY <1>7, <1>8, SizeChanged
  <2>3. t.disk = c.disk
    <3>1. Shape(c)
      BY <1>8
    <3>2. SetSize(c, n, y).disk = c.disk
      BY <3>1, DiskSame
    <3> QED BY <1>7, <3>2
  <2> QED BY <1>8, <2>1, <2>2, <2>3
<1>10. DiskOK(t) /\ (Clean(s) => Clean(t))
  BY <1>1, <1>9 DEF DiskOK, Clean
<1>11. ASSUME NEW f \in Files, f # n PROVE Carries(s, t, f)
  BY <1>9, <1>11, CarriesThere
<1>12. ASSUME NEW x \in Nat, NEW j \in InBlk, x < q + 1
       PROVE  ByteAt(t, n, x, j) = IF x = q /\ j >= 0 /\ j < 0 + Len(data) THEN data[j - 0 + 1]
                                   ELSE IF x < q THEN ByteAt(s, n, x, j) ELSE 0
  <2>1. IsSparse(h, x) <=> IsSparse(l, x) \/ x = q
    BY <1>5 DEF WithBlock
  <2>2. CASE x = q
    <3>1. ByteAt(t, n, x, j) = 0
      BY <1>9, <2>1, <2>2 DEF ByteAt
    <3>2. j >= 0 /\ j < 0 + Len(data) => data[j - 0 + 1] = 0
      <4>1. j \in Int
        BY DEF InBlk
      <4>2. j >= 0 /\ j < 0 + Len(data) => j - 0 + 1 \in 1..Len(data)
        BY <4>1
      <4> QED BY <4>2 DEF is_memory_zero
    <3>3. ~(x < q)
      BY <1>4, <2>2
    <3> QED BY <2>2, <3>1, <3>2, <3>3
  <2>3. CASE x < q
    <3>1. x # q
      BY <1>4, <2>3
    <3>2. Rank(h, x) = Rank(l, x)
      <4>1. ~(q < x)
        BY <1>4, <2>3
      <4> QED BY <1>4, <1>5, <4>1, RankChanges
    <3>3. ByteAt(t, n, x, j) = ByteAt(s, n, x, j)
      BY <1>2, <1>9, <2>1, <3>1, <3>2 DEF ByteAt
    <3> QED BY <2>3, <3>1, <3>3
  <2> QED BY <1>4, <1>12, <2>2, <2>3
<1>13. Puts(s, t, n, y, q, 0, data)
  BY <1>9, <1>12 DEF Puts
<1>14. Ok(t).ok /\ Ok(t).fs = t
  BY DEF Ok
<1> QED BY <1>10, <1>11, <1>13, <1>14 DEF Does

\* The uses of the tree that ContentsKept is about: there are no holes, or no file
\* ends within a block.
Tails(s) ==
  IF NoSparse THEN \A f \in Files : s.file[f].sparse = <<>>
  ELSE \A f \in Files : s.file[f].size % BlockSize = 0

\* Position p of a file is byte p % BlockSize of block p \div BlockSize.
LEMMA Places ==
  ASSUME NEW p \in Nat
  PROVE  /\ p \div BlockSize \in Nat /\ p % BlockSize \in InBlk
         /\ p % BlockSize \in Nat /\ p % BlockSize < BlockSize
         /\ BlockSize * (p \div BlockSize) \in Nat
         /\ p = BlockSize * (p \div BlockSize) + (p % BlockSize)
<1>1. PICK d \in Nat \ {0} : d = BlockSize
  BY FSTreeAssumption
<1>2. p = d * (p \div d) + (p % d) /\ p % d \in 0..(d - 1) /\ p \div d \in Nat
  OBVIOUS
<1>3. PICK i \in Nat, r \in 0..(d - 1) : i = p \div d /\ r = p % d /\ p = d * i + r
  BY <1>2
<1>4. d * i \in Nat /\ r \in Nat /\ r < d
  OBVIOUS
<1> QED BY <1>1, <1>3, <1>4 DEF InBlk

\* The same the other way round: the byte that lies at j in block i.
LEMMA PlaceOf ==
  ASSUME NEW i \in Nat, NEW j \in InBlk, NEW p, p = BlockSize * i + j
  PROVE  /\ p \in Nat /\ p \div BlockSize = i /\ p % BlockSize = j /\ j \in Nat /\ j < BlockSize
         /\ \A z \in Nat : p < z => i < BlocksFor(z)
<1>1. PICK d \in Nat \ {0} : d = BlockSize
  BY FSTreeAssumption
<1>2. j \in Nat /\ j < d
  BY <1>1 DEF InBlk
<1>3. PICK e \in Nat : e = d * i
  OBVIOUS
<1>4. p \in Nat /\ p = e + j
  BY <1>1, <1>2, <1>3
<1>5. PICK q \in Nat, r \in Nat : q = p \div d /\ r = p % d /\ p = d * q + r /\ r < d
  <2>1. p = d * (p \div d) + (p % d) /\ p % d \in 0..(d - 1) /\ p \div d \in Nat
    BY <1>4
  <2> QED BY <2>1
<1>6. q = i
  <2>1. PICK g \in Nat : g = d * q
    OBVIOUS
  <2>2. g < e + d /\ e < g + d
    BY <1>2, <1>4, <1>5, <2>1
  <2>3. q <= i /\ i <= q
    BY <1>3, <2>1, <2>2, Below
  <2> QED BY <2>3
<1>7. r = j
  BY <1>2, <1>3, <1>4, <1>5, <1>6
<1>8. \A z \in Nat : p < z => i < BlocksFor(z)
  BY <1>1, <1>4, <1>5, <1>6, BlocksForFacts
<1> QED BY <1>1, <1>2, <1>4, <1>5, <1>6, <1>7, <1>8

\* The walks of append_to_tail over an empty list.
LEMMA NoRegions ==
  ASSUME NEW f, f.sparse = <<>>, NEW i
  PROVE  /\ TailRegion(f, i) = 0
         /\ Total([k \in 1..Len(f.sparse) |-> IF TRUE THEN f.sparse[k].count ELSE 0]) = 0
<1>1. Len(<<>>) = 0 /\ 1..0 = {}
  OBVIOUS
<1>2. TailRegion(f, i) = 0
  BY <1>1 DEF TailRegion, SelectInSeq
<1>3. PICK v : v = [k \in 1..Len(f.sparse) |-> IF TRUE THEN f.sparse[k].count ELSE 0]
  OBVIOUS
<1>4. v \in Seq(Int) /\ Len(v) = 0
  <2>1. v = [k \in 1..0 |-> IF TRUE THEN f.sparse[k].count ELSE 0]
    BY <1>1, <1>3
  <2>2. v \in [1..0 -> Int]
    BY <1>1, <2>1
  <2> QED BY <1>1, <2>2
<1>5. PICK sum : Sums(sum, v, 0) /\ Total(v) = sum[0]
  <2>1. PICK n \in Nat : n = 0 /\ n = Len(v)
    BY <1>4
  <2>2. \E sum : Sums(sum, v, n) /\ Total(v) = sum[n]
    BY <1>4, <2>1, TotalFacts
  <2> QED BY <2>1, <2>2
<1>6. Total(v) = 0
  BY <1>5 DEF Sums
<1> QED BY <1>2, <1>3, <1>6

\* A block has a first byte.
LEMMA FirstInBlk == 0 \in InBlk
  BY FSTreeAssumption DEF InBlk

\* A file that ends inside a block has that block.
LEMMA EndsInBlock ==
  ASSUME NEW i \in Nat, NEW m \in InBlk, m > 0, NEW z \in Nat, z = BlockSize * i + m
  PROVE  i < BlocksFor(z)
<1>1. PICK d \in Nat \ {0} : d = BlockSize
  BY FSTreeAssumption
<1>2. m \in Nat
  BY FSTreeAssumption DEF InBlk
<1>3. PICK e \in Nat : e = d * i
  OBVIOUS
<1>4. z = e + m
  BY <1>1, <1>3
<1>5. e < z
  BY <1>2, <1>4
<1>6. e = BlockSize * i + 0
  BY <1>1, <1>3
<1> QED BY <1>5, <1>6, FirstInBlk, PlaceOf

\* Data is appended to the last block of a file without holes.
LEMMA TailPuts ==
  ASSUME NEW s, Sound(s), NEW n \in Files, s.file[n].sparse = <<>>, NEW z \in Nat, z = s.file[n].size,
         z % BlockSize > 0, NEW i, i = z \div BlockSize, NEW m, m = z % BlockSize,
         NEW data \in Seq(Int), NEW y \in Nat, BlocksFor(y) = BlocksFor(z),
         NEW o, o = append_to_tail(s, n, i, m, data)
  PROVE  o.ok /\ Does(s, Ok(SetSize(o.fs, n, y)), n, y, i, m, data)
<1>1. PICK f : f = s.file[n]
  OBVIOUS
<1>2. PICK c : c = Total([k \in 1..Len(f.sparse) |-> IF TRUE THEN f.sparse[k].count ELSE 0])
  OBVIOUS
<1>3. TailRegion(f, i) = 0 /\ c = 0
  BY <1>1, <1>2, NoRegions
<1>4. i \in Nat /\ m \in Nat /\ i < BlocksFor(z)
  <2>1. i \in Nat /\ m \in Nat /\ m \in InBlk /\ z = BlockSize * i + m
    BY Places
  <2>2. m > 0
    OBVIOUS
  <2> QED BY <2>1, <2>2, EndsInBlock
<1>5. f.start_index \in Nat /\ f.start_index = Start(s, n)
  BY <1>1, SoundNumbers DEF Start
<1>6. o = WritePartial(s, f.start_index + (i - c), m, data) /\ f.start_index + (i - c) = f.start_index + i
  <2>1. PICK g : g = CountWhere(s.file[n].sparse, LAMBDA r : TRUE)
    OBVIOUS
  <2>2. o = WritePartial(s, s.file[n].start_index + i - g, m, data)
    BY <1>1, <1>3, <2>1 DEF append_to_tail, Then
  <2>3. g = c
    BY <1>1, <1>2, <2>1 DEF CountWhere
  <2>4. o = WritePartial(s, f.start_index + (i - c), m, data)
    BY <1>1, <2>2, <2>3
  <2> QED BY <1>3, <1>4, <1>5, <2>4
<1>7. Rank(<<>>, i) = i /\ ~IsSparse(<<>>, i)
  BY <1>4, RankEmpty
<1>8. o = WritePartial(s, Start(s, n) + Rank(<<>>, i), m, data)
  BY <1>5, <1>6, <1>7
<1>9. o.ok /\ Does(s, o, n, z, i, m, data)
  BY <1>4, <1>7, <1>8, InPlace
<1>10. Shape(o.fs)
  <2>1. Shape(s)
    BY GoodShape DEF Sound
  <2> QED BY <1>8, <2>1, WriteAccount, AccountShape
<1> QED BY <1>9, <1>10, DoesResize

\* One turn of fstree_file_append.  If it fails, the file is as it was, too.
LEMMA AppendDoes ==
  ASSUME NEW s, Sound(s), Tails(s), NEW n \in Files, NEW z \in Nat, z = s.file[n].size,
         NEW data \in Seq(Int), Len(data) # 0, Len(data) <= BlockSize - (z % BlockSize),
         NEW r, r = AppendStep(s, n, data)
  PROVE  /\ Does(s, r, n, z + Len(data), z \div BlockSize, z % BlockSize, data)
         /\ ~r.ok => \A f \in Files : Carries(s, r.fs, f)
<1>1. PICK y \in Nat : y = z + Len(data)
  OBVIOUS
<1>2. PICK i : i = z \div BlockSize
  OBVIOUS
<1>3. PICK l : l = s.file[n].sparse
  OBVIOUS
<1>4. PICK c : c = SetSparse(s, n, MarkSparse(l, i))
  OBVIOUS
<1>5. PICK t, b : t = append_to_tail(s, n, i, z % BlockSize, data) /\ b = append_block(s, n, data)
  OBVIOUS
<1>6. TreeGood(s) /\ Shape(s)
  BY GoodShape DEF Sound
<1>7. Keeps(t.fs, s) /\ Keeps(b.fs, s)
  BY <1>6, <1>5, TailGood, BlockGood
<1>8. PICK o : o = IF z % BlockSize > 0 THEN t
                   ELSE IF ~NoSparse /\ is_memory_zero(data) THEN Ok(c) ELSE b
  OBVIOUS
<1>9. r = IF o.ok THEN Ok([o.fs EXCEPT !.file[n].size = o.fs.file[n].size + Len(data)])
          ELSE o
  BY <1>2, <1>3, <1>4, <1>5, <1>8 DEF AppendStep, Then
<1>10. Ok(c).ok /\ Ok(c).fs = c
  BY DEF Ok
<1>11. SameSizes(o.fs, s)
  <2>1. SameSizes(c, s)
    BY <1>6, <1>4, SetSparseFacts
  <2>2. o = t \/ o = b \/ o = Ok(c)
    BY <1>8
  <2> QED BY <1>7, <1>10, <2>1, <2>2 DEF Keeps
<1>12. o.fs.file[n].size + Len(data) = y
  BY <1>1, <1>11 DEF SameSizes
<1>13. r = IF o.ok THEN Ok(SetSize(o.fs, n, y)) ELSE o
  BY <1>9, <1>12 DEF SetSize
<1>14. /\ z % BlockSize > 0 => BlocksFor(y) = BlocksFor(z)
       /\ ~(z % BlockSize > 0) => i = BlocksFor(z) /\ BlocksFor(y) = BlocksFor(z) + 1
  BY <1>1, <1>2, TailBlocks
<1>15. CASE z % BlockSize > 0
  <2>1. NoSparse
    BY <1>15 DEF Tails
  <2>2. s.file[n].sparse = <<>>
    BY <2>1 DEF Tails
  <2>3. o = t
    BY <1>8, <1>15
  <2>4. t.ok /\ Does(s, Ok(SetSize(t.fs, n, y)), n, y, i, z % BlockSize, data)
    BY <1>2, <1>5, <1>14, <1>15, <2>2, TailPuts
  <2>5. r = Ok(SetSize(t.fs, n, y))
    BY <1>13, <2>3, <2>4
  <2>6. r.ok
    BY <2>5 DEF Ok
  <2> QED BY <1>1, <1>2, <2>4, <2>5, <2>6
<1>16. ~(z % BlockSize > 0) => z % BlockSize = 0
  BY FSTreeAssumption
<1>17. CASE ~(z % BlockSize > 0) /\ ~NoSparse /\ is_memory_zero(data)
  <2>1. o = Ok(c)
    BY <1>8, <1>17
  <2>2. r = Ok(SetSize(c, n, y)) /\ r.ok
    BY <1>10, <1>13, <2>1 DEF Ok
  <2>3. i = BlocksFor(s.file[n].size) /\ BlocksFor(y) = i + 1
    BY <1>14, <1>17
  <2>4. Does(s, Ok(SetSize(c, n, y)), n, y, i, 0, data)
    BY <1>3, <1>4, <1>17, <2>3, HolePuts
  <2> QED BY <1>1, <1>2, <1>17, <1>16, <2>2, <2>4
<1>18. CASE ~(z % BlockSize > 0) /\ ~(~NoSparse /\ is_memory_zero(data))
  <2>1. o = b
    BY <1>8, <1>18
  <2>2. i = BlocksFor(s.file[n].size) /\ BlocksFor(y) = i + 1
    BY <1>14, <1>18
  <2>3. Len(data) <= BlockSize
    BY <1>18, <1>16, FSTreeAssumption
  <2>4. IF b.ok THEN Does(s, Ok(SetSize(b.fs, n, y)), n, y, i, 0, data)
        ELSE DiskOK(b.fs) /\ \A f \in Files : Carries(s, b.fs, f)
    BY <1>5, <2>2, <2>3, BlockPuts
  <2>5. CASE b.ok
    <3>1. r = Ok(SetSize(b.fs, n, y)) /\ r.ok
      BY <1>13, <2>1, <2>5 DEF Ok
    <3> QED BY <1>1, <1>2, <1>18, <1>16, <2>4, <2>5, <3>1
  <2>6. CASE ~b.ok
    <3>1. r = b
      BY <1>13, <2>1, <2>6
    <3> QED BY <2>4, <2>6, <3>1 DEF Does
  <2> QED BY <2>5, <2>6
<1> QED BY <1>15, <1>17, <1>18

\* A file gets another list and the used area another length.
Listed(a, b, u, n, h, d) ==
  /\ Shape(u) /\ u.disk = b.disk /\ u.data_offset = a.data_offset + d /\ u.gap = a.gap
  /\ \A f \in Files : /\ Start(u, f) = Start(a, f) /\ u.file[f].size = a.file[f].size
                      /\ u.file[f].sparse = IF f = n THEN h ELSE a.file[f].sparse

\* The accounting of such a tree.
LEMMA Relisted ==
  ASSUME NEW a, NEW b, SameAccount(b, a), NEW n \in Files, NEW h, NEW d \in Int, a.data_offset \in Int,
         NEW u, u = Used(SetSparse(b, n, h), d)
  PROVE  Listed(a, b, u, n, h, d)
<1>1. PICK c : c = SetSparse(b, n, h)
  OBVIOUS
<1>2. Shape(b) /\ b.data_offset = a.data_offset /\ b.gap = a.gap /\ b.file = a.file
  BY DEF SameAccount
<1>3. \A f \in Files : Start(b, f) = Start(a, f)
  BY <1>2 DEF Start
<1>4. /\ Shape(c)
      /\ \A f \in Files : /\ c.file[f].size = b.file[f].size
                          /\ c.file[f].sparse = IF f = n THEN h ELSE b.file[f].sparse
  BY <1>1, <1>2, SetSparseFacts DEF SameSizes
<1>5. c.disk = b.disk
  <2>1. SetSparse(b, n, h).disk = b.disk
    BY <1>2, DiskSame
  <2> QED BY <1>1, <2>1
<1>6. c.data_offset = b.data_offset /\ c.gap = b.gap /\ \A f \in Files : Start(c, f) = Start(b, f)
  BY <1>1, <1>2, ListFields
<1>7. u = Used(c, d)
  BY <1>1
<1>8. u.data_offset = c.data_offset + d /\ u.gap = c.gap /\ u.file = c.file
  BY <1>4, <1>7, UsedFields
<1>9. u.disk = c.disk
  <2>1. Used(c, d).disk = c.disk
    BY <1>4, DiskSame
  <2> QED BY <1>7, <2>1
<1>10. Shape(u)
  BY <1>4, <1>7, UsedSame, SameShape
<1>11. \A f \in Files : Start(u, f) = Start(c, f)
  BY <1>8 DEF Start
<1> QED BY <1>2, <1>3, <1>4, <1>5, <1>6, <1>8, <1>9, <1>10, <1>11 DEF Listed

\* What the blocks behind the first k of a file at the end of the used area hold
\* does not matter to the other files.
LEMMA OthersStay ==
  ASSUME NEW s, Sound(s), NEW n \in Files, NEW a, Ready(s, a, n), NEW real \in Nat, real >= Start(a, n),
         NEW t, \A f \in Files : f # n => /\ t.file[f].size = a.file[f].size
                                          /\ t.file[f].sparse = a.file[f].sparse
                                          /\ Start(t, f) = Start(a, f),
         \A x \in Disk : x < real => t.disk[x] = a.disk[x]
  PROVE  \A f \in Files : f # n => Carries(s, t, f)
<1>1. PICK st \in Nat : st = Start(a, n)
  BY ReadyNumbers
<1>2. ASSUME NEW x \in Disk, x < st PROVE t.disk[x] = a.disk[x]
  <2>1. x \in Nat
    BY OnDisk
  <2>2. x < real
    BY <1>1, <1>2, <2>1
  <2> QED BY <2>2
<1>3. \A x \in Disk : x < Start(a, n) => t.disk[x] = a.disk[x]
  BY <1>1, <1>2
<1> QED BY <1>3, InFrontCarries

\* The place of block i of a file on the volume, if it is stored or gets stored.
IsAt(a, n, l, i, real) == real = Start(a, n) + Rank(l, i)

\* Data is written to a hole of a file at the end of the used area.
LEMMA FillPuts ==
  ASSUME NEW s, Sound(s), NEW n \in Files, NEW a, Ready(s, a, n),
         NEW l, l = s.file[n].sparse, NEW z, z = s.file[n].size,
         NEW i \in Nat, i < BlocksFor(z), IsSparse(l, i), NEW m \in Nat, NEW data \in Seq(Int),
         NEW real \in Nat, IsAt(a, n, l, i, real), NEW o, o = FillHole(a, n, real, i, m, data)
  PROVE  Does(s, o, n, z, i, m, data)
<1>1. /\ TreeGood(a) /\ Shape(a) /\ DiskOK(a) /\ TreeGood(s)
      /\ a.file[n].sparse = l /\ a.file[n].size = z
  BY ReadyNumbers DEF Ready, Sound
<1>2. PICK off \in Nat, st \in Nat, run \in Nat, top \in Nat :
        /\ off = a.data_offset /\ st = Start(a, n) /\ run = Run(s, n) /\ st + run = off
        /\ top = MaxBlocks /\ (run # 0 => off <= top)
  BY ReadyNumbers, FSTreeAssumption
<1>3. PICK q \in Nat : q = BlocksFor(z)
  BY <1>1, RankEnd
<1>4. /\ Rank(l, q) = run
      /\ \A x \in Nat : x < q /\ ~IsSparse(l, x) => Rank(l, x) \in Nat /\ Rank(l, x) < run
  BY <1>1, <1>2, <1>3, RankEnd
<1>5. PICK r \in Nat : r = Rank(l, i) /\ r <= run
  <2>1. Rank(l, i) \in Nat
    BY BelowFacts
  <2>2. Rank(l, i) <= Rank(l, q)
    BY <1>3, RankGrows
  <2> QED BY <1>4, <2>1, <2>2
<1>6. real \in Nat /\ real = st + r /\ real <= off /\ real >= st
  <2>1. real = st + r
    BY <1>2, <1>5 DEF IsAt
  <2>2. st + r \in Nat /\ st + r <= off /\ st + r >= st
    BY <1>2, <1>5
  <2> QED BY <2>1, <2>2
<1>7. PICK k1 \in Nat, k2 \in Nat : k1 = real + 1 /\ k2 = off - real
  BY <1>6
<1>8. PICK v : v = MemMove(a, k1, real, k2)
  OBVIOUS
<1>9. PICK b : b = v.fs
  OBVIOUS
<1>10. /\ DiskOK(b)
       /\ v.ok => \A x \in Disk : b.disk[x] = IF x >= k1 /\ x < k1 + k2 THEN a.disk[x - k1 + real] ELSE a.disk[x]
       /\ \A x \in Disk : x < k1 \/ x >= k1 + k2 => b.disk[x] = a.disk[x]
  <2>1. /\ DiskOK(v.fs)
        /\ v.ok => \A x \in Disk : v.fs.disk[x] = IF x >= k1 /\ x < k1 + k2 THEN a.disk[x - k1 + real] ELSE a.disk[x]
        /\ \A x \in Disk : x < k1 \/ x >= k1 + k2 => v.fs.disk[x] = a.disk[x]
    <3>1. Shape(a) /\ DiskOK(a)
      BY <1>1
    <3>2. real \in Nat
      BY <1>6
    <3>3. Copied(a, v, k1, real, k2)
      BY <1>8, <3>1, <3>2, MoveCopies
    <3> QED BY <3>3 DEF Copied
  <2> QED BY <1>9, <2>1
<1>11. SameAccount(b, a)
  BY <1>1, <1>8, <1>9, MemMoveAccount
<1>12. v.ok <=> k2 = 0 \/ k1 + k2 <= top
  <2>1. v.ok <=> (k2 = 0 \/ k1 = real \/ k2 <= MaxBlocks - Max({k1, real}))
    BY <1>1, <1>8, MemMoveAccount
  <2>2. real <= k1 /\ k1 # real
    BY <1>6, <1>7
  <2>3. Max({k1, real}) = k1
    BY <1>6, <2>2, MaxTwo
  <2> QED BY <1>2, <2>1, <2>2, <2>3
<1>13. PICK h : h = MarkNotSparse(l, i)
  OBVIOUS
<1>14. WithoutBlock(l, h, i)
  <2>1. ListOK(l)
    BY <1>1 DEF TreeGood, FileGood
  <2> QED BY <1>13, <2>1, MarkNotSparseFacts
<1>15. PICK u : u = Used(SetSparse(b, n, h), 1)
  OBVIOUS
<1>16. PICK e : e = Discard(u, real, 1)
  OBVIOUS
<1>17. PICK w : w = WritePartial(e, real, m, data)
  OBVIOUS
<1>18. o = IF v.ok THEN w ELSE v
  <2>1. b.file[n].sparse = l
    BY <1>1, <1>11 DEF SameAccount
  <2>2. insert_sparse_block(a, n, real, i) = IF v.ok THEN Ok(e) ELSE v
    BY <1>2, <1>7, <1>8, <1>9, <1>13, <1>15, <1>16, <2>1 DEF insert_sparse_block, Then
  <2>3. Ok(e).ok /\ Ok(e).fs = e
    BY DEF Ok
  <2> QED BY <1>17, <2>2, <2>3 DEF FillHole, Then
<1>19. ASSUME NEW x \in Disk, x < real PROVE b.disk[x] = a.disk[x]
  <2>1. x \in Nat
    BY OnDisk
  <2>2. x < k1
    BY <1>6, <1>7, <1>19, <2>1
  <2> QED BY <1>10, <2>2
<1>20. CASE ~v.ok
  <2>1. \A f \in Files : f # n => /\ b.file[f].size = a.file[f].size
                                  /\ b.file[f].sparse = a.file[f].sparse
                                  /\ Start(b, f) = Start(a, f)
    BY <1>11 DEF SameAccount, Start
  <2>2. real >= Start(a, n)
    BY <1>2, <1>6
  <2>3. \A f \in Files : f # n => Carries(s, b, f)
    BY <1>6, <1>19, <2>1, <2>2, OthersStay
  <2>4. o = v
    BY <1>18, <1>20
  <2> QED BY <1>9, <1>10, <1>20, <2>3, <2>4 DEF Does
<1>21. CASE v.ok
  <2>1. /\ Shape(u) /\ u.disk = b.disk /\ u.data_offset = off + 1 /\ u.gap = a.gap
        /\ \A f \in Files : /\ Start(u, f) = Start(a, f) /\ u.file[f].size = a.file[f].size
                            /\ u.file[f].sparse = IF f = n THEN h ELSE a.file[f].sparse
    <3>1. 1 \in Int /\ a.data_offset \in Int
      BY <1>2
    <3>2. Listed(a, b, u, n, h, 1)
      BY <1>11, <1>15, <3>1, Relisted
    <3> QED BY <1>2, <3>2 DEF Listed
  <2>2. DiskOK(u)
    BY <1>10, <2>1 DEF DiskOK
  <2>3. /\ DiskOK(e) /\ SameAccount(e, u) /\ Shape(e)
        /\ \A x \in Disk : e.disk[x] = IF x >= real /\ x < real + 1 THEN ZeroBlock ELSE b.disk[x]
    <3>1. /\ DiskOK(e)
          /\ \A x \in Disk : e.disk[x] = IF x >= real /\ x < real + 1 THEN ZeroBlock ELSE u.disk[x]
      <4>1. real \in Int /\ 1 \in Int
        BY <1>6
      <4> QED BY <1>16, <2>1, <2>2, <4>1, DiscardDisk
    <3>2. SameAccount(e, u) /\ Shape(e)
      BY <1>16, <2>1, DiscardAccount, AccountShape
    <3> QED BY <2>1, <3>1, <3>2
  <2>4. PICK t : t = w.fs
    OBVIOUS
  <2>5. /\ DiskOK(t) /\ (w.ok <=> real \in Disk)
        /\ \A x \in Disk : x # real => t.disk[x] = e.disk[x]
        /\ real \in Disk => t.disk[real] = Patched(e.disk[real], m, data)
    <3>1. /\ DiskOK(w.fs) /\ (w.ok <=> real \in Disk)
          /\ \A x \in Disk : x # real => w.fs.disk[x] = e.disk[x]
          /\ real \in Disk => w.fs.disk[real] = Patched(e.disk[real], m, data)
      <4>1. Shape(e) /\ DiskOK(e)
        BY <2>3
      <4> QED BY <1>17, <4>1, WriteDisk
    <3> QED BY <2>4, <3>1
  <2>6. /\ t.data_offset = off + 1 /\ t.gap = a.gap
        /\ \A f \in Files : /\ Start(t, f) = Start(a, f) /\ t.file[f].size = a.file[f].size
                            /\ t.file[f].sparse = IF f = n THEN h ELSE a.file[f].sparse
    <3>1. SameAccount(t, e)
      BY <1>17, <2>3, <2>4, WriteAccount
    <3>2. t.data_offset = u.data_offset /\ t.gap = u.gap /\ t.file = u.file
      BY <2>3, <3>1 DEF SameAccount
    <3>3. \A f \in Files : Start(t, f) = Start(u, f)
      BY <3>2 DEF Start
    <3> QED BY <2>1, <3>2, <3>3
  <2>7. ASSUME NEW x \in Disk, x # real PROVE t.disk[x] = b.disk[x]
    <3>1. x \in Nat
      BY OnDisk
    <3>2. ~(x >= real /\ x < real + 1)
      BY <1>6, <2>7, <3>1
    <3> QED BY <2>3, <2>5, <2>7, <3>2
  <2>8. ASSUME NEW x \in Disk, x < real PROVE t.disk[x] = a.disk[x]
    <3>1. x \in Nat
      BY OnDisk
    <3>2. x # real
      BY <1>6, <2>8, <3>1
    <3> QED BY <1>19, <2>7, <2>8, <3>2
  <2>9. \A f \in Files : f # n => Carries(s, t, f)
    <3>1. real >= Start(a, n)
      BY <1>2, <1>6
    <3> QED BY <1>6, <2>6, <2>8, <3>1, OthersStay
  <2>10. o = w
    BY <1>18, <1>21
  <2>11. CASE ~w.ok
    BY <2>4, <2>5, <2>9, <2>10, <2>11 DEF Does
  <2>12. CASE w.ok
    <3>1. ASSUME NEW x \in Nat, NEW j \in InBlk, x < q
          PROVE  ByteAt(t, n, x, j) = IF x = i /\ j >= m /\ j < m + Len(data) THEN data[j - m + 1]
                                      ELSE ByteAt(s, n, x, j)
      <4>1. IsSparse(h, x) <=> IsSparse(l, x) /\ x # i
        BY <1>14 DEF WithoutBlock
      <4>2. ByteAt(t, n, x, j) = IF IsSparse(h, x) THEN 0 ELSE t.disk[st + Rank(h, x)][j]
        BY <1>2, <2>6 DEF ByteAt
      <4>3. Rank(h, x) = IF i < x THEN Rank(l, x) + 1 ELSE Rank(l, x)
        BY <1>14, RankChanges
      <4>4. ByteAt(a, n, x, j) = ByteAt(s, n, x, j)
        <5>1. Carries(s, a, n) /\ x < BlocksFor(s.file[n].size)
          BY <1>3, <3>1 DEF Ready
        <5> QED BY <1>1, <5>1, CarriesBytes
      <4>5. ByteAt(a, n, x, j) = IF IsSparse(l, x) THEN 0 ELSE a.disk[st + Rank(l, x)][j]
        BY <1>1, <1>2 DEF ByteAt
      <4>6. CASE x = i
        <5>1. ~(i < x)
          BY <4>6
        <5>2. ByteAt(t, n, x, j) = t.disk[real][j]
          BY <1>5, <1>6, <4>1, <4>2, <4>3, <4>6, <5>1
        <5>3. e.disk[real] = ZeroBlock
          <6>1. real >= real /\ real < real + 1
            BY <1>6
          <6> QED BY <2>3, <2>5, <2>12, <6>1
        <5>4. t.disk[real] = Patched(ZeroBlock, m, data)
          BY <2>5, <2>12, <5>3
        <5>5. t.disk[real][j] = IF j >= m /\ j < m + Len(data) THEN data[j - m + 1] ELSE ZeroBlock[j]
          BY <5>4 DEF Patched
        <5>6. ByteAt(s, n, x, j) = 0 /\ ZeroBlock[j] = 0
          BY <4>4, <4>5, <4>6, ZeroBlockType
        <5> QED BY <4>6, <5>2, <5>5, <5>6
      <4>7. CASE x # i /\ IsSparse(l, x)
        BY <4>1, <4>2, <4>4, <4>5, <4>7
      <4>8. CASE x # i /\ ~IsSparse(l, x)
        <5>1. PICK k \in Nat : k = Rank(l, x) /\ k < run
          BY <1>4, <3>1, <4>8
        <5>2. PICK y \in Nat : y = st + k /\ y < off /\ y \in Disk
          <6>1. off <= top
            BY <1>2, <5>1
          <6>2. st + k \in Nat /\ st + k < off /\ st + k < top
            <7>1. k < run /\ st + run = off
              BY <1>2, <5>1
            <7> QED BY <6>1, <7>1
          <6>3. st + k \in Disk
            BY <1>2, <6>2, OnDisk
          <6> QED BY <6>2, <6>3
        <5>3. CASE x < i
          <6>1. k < r
            BY <1>5, <4>8, <5>1, <5>3, RankOrder
          <6>2. ~(i < x)
            BY <5>3
          <6>3. y < real
            BY <1>6, <5>2, <6>1
          <6>4. ByteAt(t, n, x, j) = t.disk[y][j] /\ ByteAt(a, n, x, j) = a.disk[y][j]
            BY <4>1, <4>2, <4>3, <4>5, <4>8, <5>1, <5>2, <6>2
          <6> QED BY <2>8, <4>4, <4>8, <5>2, <6>3, <6>4
        <5>4. CASE i < x
          <6>1. r <= k
            BY <1>5, <5>1, <5>4, RankGrows
          <6>2. PICK c \in Nat : c = y + 1
            OBVIOUS
          <6>3. st + (k + 1) = c
            BY <5>2, <6>2
          <6>4. ByteAt(t, n, x, j) = t.disk[c][j] /\ ByteAt(a, n, x, j) = a.disk[y][j]
            <7>1. ~IsSparse(h, x) /\ Rank(h, x) = k + 1
              BY <4>1, <4>3, <4>8, <5>1, <5>4
            <7> QED BY <4>2, <4>5, <4>8, <5>1, <5>2, <6>3, <7>1
          <6>5. c >= k1 /\ c < k1 + k2 /\ c - k1 + real = y /\ c # real /\ c < top
            <7>1. k2 # 0
              BY <1>6, <1>7, <5>2, <6>1
            <7>2. k1 + k2 <= top
              BY <1>12, <1>21, <7>1
            <7>3. c >= k1 /\ c < k1 + k2
              BY <1>6, <1>7, <5>2, <6>1, <6>2
            <7>4. c - k1 + real = y /\ c # real
              BY <1>6, <1>7, <6>2, <7>3
            <7> QED BY <7>2, <7>3, <7>4
          <6>6. c \in Disk
            BY <1>2, <6>2, <6>5, OnDisk
          <6>7. b.disk[c] = a.disk[y]
            BY <1>10, <1>21, <6>5, <6>6
          <6>8. t.disk[c] = b.disk[c]
            BY <2>7, <6>5, <6>6
          <6> QED BY <4>4, <4>8, <6>4, <6>7, <6>8
        <5>5. x < i \/ i < x
          BY <4>8
        <5> QED BY <5>3, <5>4, <5>5
      <4> QED BY <4>6, <4>7, <4>8
    <3>2. Puts(s, t, n, z, i, m, data)
      <4>1. t.file[n].size = z
        BY <1>1, <2>6
      <4> QED BY <1>3, <3>1, <4>1 DEF Puts
    <3>3. Clean(s) => Clean(t)
      <4> SUFFICES ASSUME Clean(a), NEW x \in Disk, x >= t.data_offset \/ x \in t.gap
                   PROVE  t.disk[x] = ZeroBlock
        BY DEF Ready, Clean
      <4>1. x \in Nat
        BY OnDisk
      <4>2. x \in a.gap => x < st
        BY <1>2 DEF Ready, RunLast
      <4>3. x >= off + 1 \/ x \in a.gap
        BY <2>6
      <4>4. a.disk[x] = ZeroBlock
        <5>1. x >= a.data_offset \/ x \in a.gap
          BY <1>2, <4>1, <4>3
        <5> QED BY <5>1 DEF Clean
      <4>5. x < real \/ (x # real /\ x >= k1 + k2)
        <5>1. x \in a.gap => x < real
          BY <1>6, <4>1, <4>2
        <5>2. k1 + k2 = off + 1 /\ off + 1 > real
          BY <1>6, <1>7
        <5>3. x >= off + 1 => x # real /\ x >= k1 + k2
          BY <1>6, <4>1, <5>2
        <5> QED BY <4>3, <5>1, <5>3
      <4>6. CASE x < real
        BY <2>8, <4>4, <4>6
      <4>7. CASE x # real /\ x >= k1 + k2
        BY <1>10, <2>7, <4>4, <4>7
      <4> QED BY <4>5, <4>6, <4>7
    <3> QED BY <2>4, <2>5, <2>9, <2>10, <3>2, <3>3 DEF Does
  <2> QED BY <2>11, <2>12
<1> QED BY <1>20, <1>21

\* A block of zeros is taken out of a file at the end of the used area.
LEMMA RemovePuts ==
  ASSUME NEW s, Sound(s), NEW n \in Files, NEW a, Ready(s, a, n), Padded(s, n),
         NEW l, l = s.file[n].sparse, NEW z, z = s.file[n].size,
         NEW i \in Nat, i < BlocksFor(z), ~IsSparse(l, i), NEW m \in Nat, NEW data \in Seq(Int),
         is_memory_zero(data), CoversBlock(s.file[n], i, m, data),
         NEW real \in Nat, IsAt(a, n, l, i, real), NEW o, o = remove_file_block(a, n, real, i)
  PROVE  Does(s, o, n, z, i, m, data)
<1>1. /\ TreeGood(a) /\ Shape(a) /\ DiskOK(a) /\ TreeGood(s) /\ Shape(a)
      /\ a.file[n].sparse = l /\ a.file[n].size = z
  BY ReadyNumbers DEF Ready, Sound
<1>2. PICK off \in Nat, st \in Nat, run \in Nat, top \in Nat :
        /\ off = a.data_offset /\ st = Start(a, n) /\ run = Run(s, n) /\ st + run = off
        /\ top = MaxBlocks /\ (run # 0 => off <= top)
  BY ReadyNumbers, FSTreeAssumption
<1>3. PICK q \in Nat : q = BlocksFor(z)
  BY <1>1, RankEnd
<1>4. \A x \in Nat : x < q /\ ~IsSparse(l, x) => Rank(l, x) \in Nat /\ Rank(l, x) < run
  BY <1>1, <1>2, <1>3, RankEnd
<1>5. PICK r \in Nat : r = Rank(l, i) /\ r < run
  BY <1>3, <1>4
<1>6. real = st + r /\ real < off /\ real >= st
  <2>1. real = st + r
    BY <1>2, <1>5 DEF IsAt
  <2>2. r < run /\ st + run = off
    BY <1>2, <1>5
  <2> QED BY <2>1, <2>2
<1>7. PICK k1 \in Nat, k2 \in Nat : k1 = real + 1 /\ k2 = off - real - 1
  BY <1>6
<1>8. PICK v : v = MemMove(a, real, k1, k2)
  OBVIOUS
<1>9. PICK b : b = v.fs
  OBVIOUS
<1>10. /\ DiskOK(b)
       /\ v.ok => \A x \in Disk : b.disk[x] = IF x >= real /\ x < real + k2 THEN a.disk[x - real + k1] ELSE a.disk[x]
       /\ \A x \in Disk : x < real \/ x >= real + k2 => b.disk[x] = a.disk[x]
  <2>1. /\ DiskOK(v.fs)
        /\ v.ok => \A x \in Disk : v.fs.disk[x] = IF x >= real /\ x < real + k2 THEN a.disk[x - real + k1] ELSE a.disk[x]
        /\ \A x \in Disk : x < real \/ x >= real + k2 => v.fs.disk[x] = a.disk[x]
    <3>1. Shape(a) /\ DiskOK(a)
      BY <1>1
    <3>2. Copied(a, v, real, k1, k2)
      BY <1>8, <3>1, MoveCopies
    <3> QED BY <3>2 DEF Copied
  <2> QED BY <1>9, <2>1
<1>11. SameAccount(b, a) /\ b.data_offset = off
  <2>1. SameAccount(b, a)
    BY <1>1, <1>8, <1>9, MemMoveAccount
  <2> QED BY <1>2, <2>1 DEF SameAccount
<1>12. PICK h : h = MarkSparse(l, i)
  OBVIOUS
<1>13. WithBlock(l, h, i)
  <2>1. ListOK(l)
    BY <1>1 DEF TreeGood, FileGood
  <2> QED BY <1>12, <2>1, MarkSparseFacts
<1>14. PICK u : u = Used(SetSparse(b, n, h), -1)
  OBVIOUS
<1>15. PICK k3 \in Nat : k3 = off - 1
  BY <1>6
<1>16. PICK t : t = Discard(u, k3, 1)
  OBVIOUS
<1>17. o = IF v.ok THEN Ok(t) ELSE v
  <2>1. b.file[n].sparse = l
    BY <1>1, <1>11 DEF SameAccount
  <2> QED BY <1>2, <1>7, <1>8, <1>9, <1>11, <1>12, <1>14, <1>15, <1>16, <2>1 DEF remove_file_block, Then
<1>18. \A x \in Disk : x < real => b.disk[x] = a.disk[x]
  BY <1>10
<1>19. CASE ~v.ok
  <2>1. \A f \in Files : f # n => /\ b.file[f].size = a.file[f].size
                                  /\ b.file[f].sparse = a.file[f].sparse
                                  /\ Start(b, f) = Start(a, f)
    BY <1>11 DEF SameAccount, Start
  <2>2. real >= Start(a, n)
    BY <1>2, <1>6
  <2>3. \A f \in Files : f # n => Carries(s, b, f)
    BY <1>18, <2>1, <2>2, OthersStay
  <2>4. o = v
    BY <1>17, <1>19
  <2> QED BY <1>9, <1>10, <1>19, <2>3, <2>4 DEF Does
<1>20. CASE v.ok
  <2>1. /\ Shape(u) /\ u.disk = b.disk /\ u.data_offset = k3 /\ u.gap = a.gap
        /\ \A f \in Files : /\ Start(u, f) = Start(a, f) /\ u.file[f].size = a.file[f].size
                            /\ u.file[f].sparse = IF f = n THEN h ELSE a.file[f].sparse
    <3>1. -1 \in Int /\ a.data_offset \in Int
      BY <1>2
    <3>2. Listed(a, b, u, n, h, -1)
      BY <1>11, <1>14, <3>1, Relisted
    <3>3. a.data_offset + (-1) = k3
      BY <1>2, <1>15
    <3> QED BY <3>2, <3>3 DEF Listed
  <2>2. DiskOK(u)
    BY <1>10, <2>1 DEF DiskOK
  <2>3. /\ DiskOK(t) /\ SameAccount(t, u)
        /\ \A x \in Disk : t.disk[x] = IF x >= k3 /\ x < k3 + 1 THEN ZeroBlock ELSE b.disk[x]
    <3>1. /\ DiskOK(t)
          /\ \A x \in Disk : t.disk[x] = IF x >= k3 /\ x < k3 + 1 THEN ZeroBlock ELSE u.disk[x]
      <4>1. k3 \in Int /\ 1 \in Int
        OBVIOUS
      <4> QED BY <1>16, <2>1, <2>2, <4>1, DiscardDisk
    <3>2. SameAccount(t, u)
      BY <1>16, <2>1, DiscardAccount
    <3> QED BY <2>1, <3>1, <3>2
  <2>4. /\ t.data_offset = k3 /\ t.gap = a.gap
        /\ \A f \in Files : /\ Start(t, f) = Start(a, f) /\ t.file[f].size = a.file[f].size
                            /\ t.file[f].sparse = IF f = n THEN h ELSE a.file[f].sparse
    <3>1. t.data_offset = u.data_offset /\ t.gap = u.gap /\ t.file = u.file
      BY <2>3 DEF SameAccount
    <3>2. \A f \in Files : Start(t, f) = Start(u, f)
      BY <3>1 DEF Start
    <3> QED BY <2>1, <3>1, <3>2
  <2>5. ASSUME NEW x \in Disk, x < k3 PROVE t.disk[x] = b.disk[x]
    <3>1. x \in Nat
      BY OnDisk
    <3>2. ~(x >= k3)
      BY <2>5, <3>1
    <3> QED BY <2>3, <3>2
  <2>6. ASSUME NEW x \in Disk, x < real PROVE t.disk[x] = a.disk[x]
    <3>1. x \in Nat
      BY OnDisk
    <3>2. x < k3
      BY <1>6, <1>15, <2>6, <3>1
    <3> QED BY <1>18, <2>5, <2>6, <3>2
  <2>7. \A f \in Files : f # n => Carries(s, t, f)
    <3>1. real >= Start(a, n)
      BY <1>2, <1>6
    <3> QED BY <2>4, <2>6, <3>1, OthersStay
  <2>8. o = Ok(t) /\ o.ok /\ o.fs = t
    BY <1>17, <1>20 DEF Ok
  <2>9. ASSUME NEW x \in Nat, NEW j \in InBlk, x < q
         PROVE  ByteAt(t, n, x, j) = IF x = i /\ j >= m /\ j < m + Len(data) THEN data[j - m + 1]
                                     ELSE ByteAt(s, n, x, j)
    <4>1. IsSparse(h, x) <=> IsSparse(l, x) \/ x = i
      BY <1>13 DEF WithBlock
    <4>2. ByteAt(t, n, x, j) = IF IsSparse(h, x) THEN 0 ELSE t.disk[st + Rank(h, x)][j]
      BY <1>2, <2>4 DEF ByteAt
    <4>3. Rank(h, x) = IF i < x THEN Rank(l, x) - 1 ELSE Rank(l, x)
      BY <1>13, RankChanges
    <4>4. ByteAt(a, n, x, j) = ByteAt(s, n, x, j)
      <5>1. Carries(s, a, n) /\ x < BlocksFor(s.file[n].size)
        BY <1>3, <2>9 DEF Ready
      <5> QED BY <1>1, <5>1, CarriesBytes
    <4>5. ByteAt(a, n, x, j) = IF IsSparse(l, x) THEN 0 ELSE a.disk[st + Rank(l, x)][j]
      BY <1>1, <1>2 DEF ByteAt
    <4>6. CASE x = i
      <5>1. ByteAt(t, n, x, j) = 0
        BY <4>1, <4>2, <4>6
      <5>2. m = 0 /\ (Len(data) = BlockSize \/ (i = z \div BlockSize /\ Len(data) = z % BlockSize))
        BY DEF CoversBlock
      <5>3. j \in Nat /\ j < BlockSize
        BY FSTreeAssumption DEF InBlk
      <5>4. j >= m /\ j < m + Len(data) => data[j - m + 1] = 0
        <6>1. j >= m /\ j < m + Len(data) => j - m + 1 \in 1..Len(data)
          BY <5>2, <5>3
        <6> QED BY <6>1 DEF is_memory_zero
      <5>5. CASE Len(data) = BlockSize
        <6>1. j >= m /\ j < m + Len(data)
          BY <5>2, <5>3, <5>5, FSTreeAssumption
        <6> QED BY <4>6, <5>1, <5>4, <6>1
      <5>6. CASE i = z \div BlockSize /\ Len(data) = z % BlockSize
        <6>1. z \in Nat
          BY <1>1 DEF TreeGood, FileGood
        <6>2. PICK w \in Nat, e \in Nat : w = z % BlockSize /\ e = BlockSize * i /\ z = e + w
          BY <5>6, <6>1, Places
        <6>3. ~(j < m + Len(data)) => BlockSize * i + j >= z
          <7>1. m + Len(data) = w
            <8>1. m = 0
              BY <5>2
            <8>2. Len(data) = w
              BY <5>6, <6>2
            <8> QED BY <8>1, <8>2
          <7>2. ~(j < w) => e + j >= e + w
            BY <5>3
          <7> QED BY <6>2, <7>1, <7>2
        <6>4. ~(j < m + Len(data)) => ByteAt(s, n, i, j) = 0
          BY <6>3 DEF Padded
        <6>5. j >= m
          BY <5>2, <5>3
        <6> QED BY <4>6, <5>1, <5>4, <6>4, <6>5
      <5> QED BY <5>2, <5>5, <5>6
    <4>7. CASE x # i /\ IsSparse(l, x)
      BY <4>1, <4>2, <4>4, <4>5, <4>7
    <4>8. CASE x # i /\ ~IsSparse(l, x)
      <5>1. PICK k \in Nat : k = Rank(l, x) /\ k < run
        BY <1>4, <2>9, <4>8
      <5>2. PICK y \in Nat : y = st + k /\ y < off /\ y \in Disk
        <6>1. off <= top
          BY <1>2, <5>1
        <6>2. st + k \in Nat /\ st + k < off /\ st + k < top
          <7>1. k < run /\ st + run = off
            BY <1>2, <5>1
          <7> QED BY <6>1, <7>1
        <6>3. st + k \in Disk
          BY <1>2, <6>2, OnDisk
        <6> QED BY <6>2, <6>3
      <5>3. CASE x < i
        <6>1. k < r
          BY <1>5, <4>8, <5>1, <5>3, RankOrder
        <6>2. ~(i < x)
          BY <5>3
        <6>3. y < real
          BY <1>6, <5>2, <6>1
        <6>4. ByteAt(t, n, x, j) = t.disk[y][j] /\ ByteAt(a, n, x, j) = a.disk[y][j]
          BY <4>1, <4>2, <4>3, <4>5, <4>8, <5>1, <5>2, <6>2
        <6> QED BY <2>6, <4>4, <4>8, <5>2, <6>3, <6>4
      <5>4. CASE i < x
        <6>1. r < k
          BY <1>5, <5>1, <5>4, RankOrder
        <6>2. PICK c \in Nat : c = y - 1 /\ st + (k - 1) = c /\ c >= real /\ c + 1 = y
          BY <1>6, <5>2, <6>1
        <6>3. ByteAt(t, n, x, j) = t.disk[c][j] /\ ByteAt(a, n, x, j) = a.disk[y][j]
          <7>1. ~IsSparse(h, x) /\ Rank(h, x) = k - 1
            BY <4>1, <4>3, <4>8, <5>1, <5>4
          <7> QED BY <4>2, <4>5, <4>8, <5>1, <5>2, <6>2, <7>1
        <6>4. c < real + k2 /\ c - real + k1 = y /\ c < k3
          BY <1>6, <1>7, <1>15, <5>2, <6>2
        <6>5. c \in Disk
          <7>1. y < MaxBlocks
            BY <5>2, OnDisk
          <7>2. c < MaxBlocks
            BY <6>2, <7>1, FSTreeAssumption
          <7> QED BY <7>2, OnDisk
        <6>6. b.disk[c] = a.disk[y]
          BY <1>10, <1>20, <6>2, <6>4, <6>5
        <6>7. t.disk[c] = b.disk[c]
          BY <2>5, <6>4, <6>5
        <6> QED BY <4>4, <4>8, <6>3, <6>6, <6>7
      <5>5. x < i \/ i < x
        BY <4>8
      <5> QED BY <5>3, <5>4, <5>5
    <4> QED BY <4>6, <4>7, <4>8
  <2>10. Puts(s, t, n, z, i, m, data)
    <4>1. t.file[n].size = z
      BY <1>1, <2>4
    <4> QED BY <1>3, <2>9, <4>1 DEF Puts
  <2>11. Clean(s) => Clean(t)
    <4> SUFFICES ASSUME Clean(a), NEW x \in Disk, x >= t.data_offset \/ x \in t.gap
                 PROVE  t.disk[x] = ZeroBlock
      BY DEF Ready, Clean
    <4>1. x \in Nat
      BY OnDisk
    <4>2. x \in a.gap => x < st
      BY <1>2 DEF Ready, RunLast
    <4>3. x >= k3 \/ x \in a.gap
      BY <2>4
    <4>4. CASE x = k3
      <5>1. x >= k3 /\ x < k3 + 1
        BY <4>4
      <5> QED BY <2>3, <5>1
    <4>5. CASE x # k3
      <5>1. x >= off \/ x \in a.gap
        BY <1>15, <4>1, <4>3, <4>5
      <5>2. a.disk[x] = ZeroBlock
        BY <1>2, <5>1 DEF Clean
      <5>3. x < real \/ (x >= real + k2 /\ ~(x < k3 + 1))
        <6>1. x \in a.gap => x < real
          BY <1>6, <4>1, <4>2
        <6>2. x >= off => x >= real + k2 /\ ~(x < k3 + 1)
          BY <1>6, <1>7, <1>15, <4>1
        <6> QED BY <5>1, <6>1, <6>2
      <5>4. CASE x < real
        BY <2>6, <5>2, <5>4
      <5>5. CASE x >= real + k2 /\ ~(x < k3 + 1)
        <6>1. t.disk[x] = b.disk[x]
          BY <2>3, <5>5
        <6>2. b.disk[x] = a.disk[x]
          BY <1>10, <5>5
        <6> QED BY <5>2, <6>1, <6>2
      <5> QED BY <5>3, <5>4, <5>5
    <4> QED BY <4>4, <4>5
  <2> QED BY <2>3, <2>7, <2>8, <2>10, <2>11 DEF Does
<1> QED BY <1>19, <1>20

\* One turn of fstree_file_write, within the file.
LEMMA WriteDoes ==
  ASSUME NEW s, Sound(s), NEW n \in Files, Padded(s, n), NEW z, z = s.file[n].size,
         NEW i \in Nat, i < BlocksFor(z), NEW m \in Nat, NEW data \in Seq(Int),
         NEW o, o = WriteStep(s, n, i, m, data)
  PROVE  Does(s, o, n, z, i, m, data)
<1>1. TreeGood(s) /\ Shape(s) /\ DiskOK(s)
  BY GoodShape DEF Sound
<1>2. PICK f, l, k, rel : /\ f = s.file[n] /\ l = f.sparse /\ k = RegionOf(f.sparse, i)
                          /\ rel = i - Skipped(f, i)
  OBVIOUS
<1>3. ListOK(l)
  BY <1>1, <1>2 DEF TreeGood, FileGood
<1>4. k # 0 <=> IsSparse(l, i)
  BY <1>2, <1>3, RegionFacts
<1>5. PICK v : v = MoveToEnd(s, n)
  OBVIOUS
<1>6. PICK a : a = v.fs
  OBVIOUS
<1>7. /\ DiskOK(a) /\ \A g \in Files : Carries(s, a, g)
      /\ v.ok => Ready(s, a, n)
  BY <1>5, <1>6, MoveCarries DEF Ready
<1>8. ~v.ok => Does(s, v, n, z, i, m, data)
  BY <1>6, <1>7 DEF Does
<1>9. PICK r \in Nat : r = Rank(l, i)
  BY BelowFacts
<1>10. /\ ~IsSparse(l, i) => rel = r
       /\ IsSparse(l, i) => rel - (i - l[k].index) = r
  BY <1>2, <1>3, <1>9, SkippedRank
<1>11. rel \in Int
  BY <1>2, <1>3, SkippedInt
<1>12. CASE k # 0 /\ is_memory_zero(data)
  <2>1. o = Ok(s)
    BY <1>2, <1>12 DEF WriteStep
  <2>2. Ok(s).fs = s
    BY DEF Ok
  <2>3. ASSUME NEW g \in Files PROVE Carries(s, s, g)
    BY CarriesThere
  <2>4. ASSUME NEW j \in InBlk PROVE /\ ByteAt(s, n, i, j) = 0
                                     /\ j >= m /\ j < m + Len(data) => data[j - m + 1] = 0
    <3>1. ByteAt(s, n, i, j) = 0
      BY <1>2, <1>4, <1>12 DEF ByteAt
    <3>2. j \in Nat
      BY FSTreeAssumption DEF InBlk
    <3>3. j >= m /\ j < m + Len(data) => j - m + 1 \in 1..Len(data)
      BY <3>2
    <3> QED BY <1>12, <3>1, <3>3 DEF is_memory_zero
  <2>5. Puts(s, s, n, z, i, m, data)
    BY <2>4 DEF Puts
  <2> QED BY <1>1, <2>1, <2>2, <2>3, <2>5 DEF Does
<1>13. CASE k # 0 /\ ~is_memory_zero(data)
  <2>1. PICK h : h = (a.file[n].start_index + rel) - (i - f.sparse[k].index)
    OBVIOUS
  <2>2. o = IF v.ok THEN FillHole(a, n, h, i, m, data) ELSE v
    BY <1>2, <1>5, <1>6, <1>13, <2>1 DEF WriteStep, Then
  <2>3. CASE ~v.ok
    BY <1>8, <2>2, <2>3
  <2>4. CASE v.ok
    <3>1. Ready(s, a, n)
      BY <1>7, <2>4
    <3>2. PICK st \in Nat : st = a.file[n].start_index /\ st = Start(a, n)
      BY <3>1, ReadyNumbers DEF Start
    <3>3. PICK c \in Nat : c = l[k].index
      BY <1>2, <1>3, <1>13, RegionFacts
    <3>4. rel - (i - c) = r
      BY <1>4, <1>10, <1>13, <3>3
    <3>5. h = (st + rel) - (i - c)
      BY <1>2, <2>1, <3>2, <3>3
    <3>6. h \in Nat /\ h = st + r
      BY <1>11, <3>4, <3>5
    <3>7. IsAt(a, n, l, i, h)
      BY <1>9, <3>2, <3>6 DEF IsAt
    <3>8. IsSparse(l, i) /\ l = s.file[n].sparse
      BY <1>2, <1>4, <1>13
    <3>9. PICK w : w = FillHole(a, n, h, i, m, data)
      OBVIOUS
    <3>10. Does(s, w, n, z, i, m, data)
      BY <3>1, <3>6, <3>7, <3>8, <3>9, FillPuts
    <3> QED BY <2>2, <2>4, <3>9, <3>10
  <2> QED BY <2>3, <2>4
<1>14. CASE k = 0 /\ ~NoSparse /\ is_memory_zero(data) /\ CoversBlock(f, i, m, data)
  <2>1. PICK h : h = a.file[n].start_index + rel
    OBVIOUS
  <2>2. o = IF v.ok THEN remove_file_block(a, n, h, i) ELSE v
    BY <1>2, <1>5, <1>6, <1>14, <2>1 DEF WriteStep, Then
  <2>3. CASE ~v.ok
    BY <1>8, <2>2, <2>3
  <2>4. CASE v.ok
    <3>1. Ready(s, a, n)
      BY <1>7, <2>4
    <3>2. PICK st \in Nat : st = a.file[n].start_index /\ st = Start(a, n)
      BY <3>1, ReadyNumbers DEF Start
    <3>3. ~IsSparse(l, i) /\ l = s.file[n].sparse /\ rel = r
      <4>1. ~IsSparse(l, i)
        BY <1>4, <1>14
      <4>2. l = s.file[n].sparse
        BY <1>2
      <4>3. rel = r
        BY <1>10, <4>1
      <4> QED BY <4>1, <4>2, <4>3
    <3>4. h \in Nat /\ h = st + r
      BY <2>1, <3>2, <3>3
    <3>5. IsAt(a, n, l, i, h)
      BY <1>9, <3>2, <3>4 DEF IsAt
    <3>6. PICK w : w = remove_file_block(a, n, h, i)
      OBVIOUS
    <3>7. CoversBlock(s.file[n], i, m, data)
      BY <1>2, <1>14
    <3>8. Does(s, w, n, z, i, m, data)
      BY <1>14, <3>1, <3>3, <3>4, <3>5, <3>6, <3>7, RemovePuts
    <3> QED BY <2>2, <2>4, <3>6, <3>8
  <2> QED BY <2>3, <2>4
<1>15. CASE k = 0 /\ ~(~NoSparse /\ is_memory_zero(data) /\ CoversBlock(f, i, m, data))
  <2>1. o = WritePartial(s, s.file[n].start_index + rel, m, data)
    BY <1>2, <1>15 DEF WriteStep
  <2>2. ~IsSparse(l, i) /\ rel = Rank(l, i) /\ l = s.file[n].sparse
    <3>1. ~IsSparse(l, i)
      BY <1>4, <1>15
    <3>2. l = s.file[n].sparse
      BY <1>2
    <3>3. rel = r
      BY <1>10, <3>1
    <3> QED BY <1>9, <3>1, <3>2, <3>3
  <2>3. o = WritePartial(s, Start(s, n) + Rank(l, i), m, data)
    BY <2>1, <2>2 DEF Start
  <2> QED BY <2>2, <2>3, InPlace
<1> QED BY <1>12, <1>13, <1>14, <1>15

\* The blocks from old to end move down to new, what they leave is discarded.
ClosedUp(s, t, new, old, end) ==
  \A x \in Disk :
    /\ x < new => t.disk[x] = s.disk[x]
    /\ x >= new /\ x < end - (old - new) => t.disk[x] = s.disk[x + (old - new)]
    /\ x >= end - (old - new) /\ x < end => t.disk[x] = ZeroBlock
    /\ x >= end => t.disk[x] = s.disk[x]

\* The part of fstree_file_truncate that closes the gap does that.
LEMMA CloseUpMoves ==
  ASSUME NEW s, TreeGood(s), DiskOK(s), Files # {}, NEW off \in Nat, off = s.data_offset, off <= MaxBlocks,
         NEW ne \in Nat, NEW oe \in Nat, ne < oe, oe <= off, NEW start \in Nat,
         NEW o, o = CloseUp(s, ne, oe, start)
  PROVE  o.ok /\ DiskOK(o.fs) /\ SameLists(o.fs, s) /\ ClosedUp(s, o.fs, ne, oe, off)
<1>1. PICK top \in Nat, diff \in Nat \ {0}, len \in Nat, low \in Nat :
        top = MaxBlocks /\ diff = oe - ne /\ len = off - oe /\ low = off - diff
  BY FSTreeAssumption
<1>2. Shape(s)
  BY GoodShape
<1>3. PICK v : v = MemMove(s, ne, oe, len)
  OBVIOUS
<1>4. PICK a : a = v.fs
  OBVIOUS
<1>5. v.ok
  <2>1. Max({ne, oe}) = oe
    <3>1. ne <= oe
      OBVIOUS
    <3> QED BY <3>1, MaxTwo
  <2>2. len <= top - oe
    BY <1>1
  <2> QED BY <1>1, <1>2, <1>3, <2>1, <2>2, MemMoveAccount
<1>6. SameAccount(a, s) /\ Shape(a) /\ a.data_offset = off
  <2>1. SameAccount(a, s)
    BY <1>2, <1>3, <1>4, MemMoveAccount
  <2> QED BY <2>1 DEF SameAccount
<1>7. DiskOK(a) /\ \A x \in Disk : a.disk[x] = IF x >= ne /\ x < ne + len THEN s.disk[x - ne + oe] ELSE s.disk[x]
  <2>1. Copied(s, v, ne, oe, len)
    BY <1>2, <1>3, MoveCopies
  <2> QED BY <1>4, <1>5, <2>1 DEF Copied
<1>8. PICK b : b = Discard(a, low, diff)
  OBVIOUS
<1>9. DiskOK(b) /\ \A x \in Disk : b.disk[x] = IF x >= low /\ x < low + diff THEN ZeroBlock ELSE a.disk[x]
  <2>1. Shape(a) /\ DiskOK(a) /\ low \in Int /\ diff \in Int
    BY <1>6, <1>7
  <2> QED BY <1>8, <2>1, DiscardDisk
<1>10. SameLists(b, s) /\ Shape(b)
  <2>1. SameAccount(b, a)
    BY <1>6, <1>8, DiscardAccount
  <2>2. SameAccount(b, s)
    BY <1>6, <2>1, AccountTwice
  <2> QED BY <2>2, AccountLists
<1>11. PICK c : c = Used(b, -diff)
  OBVIOUS
<1>12. SameLists(c, b) /\ Shape(c) /\ c.disk = b.disk
  <2>1. SameLists(c, b) /\ Shape(c)
    BY <1>10, <1>11, UsedSame, SameShape
  <2>2. Used(b, -diff).disk = b.disk
    <3>1. PICK n : n \in Files
      OBVIOUS
    <3> QED BY <1>10, <3>1, DiskSame
  <2> QED BY <1>11, <2>1, <2>2
<1>13. PICK d : d = ShiftDown(c, start + 1, diff)
  OBVIOUS
<1>14. SameLists(d, c) /\ d.disk = c.disk
  <2>1. SameLists(d, c)
    BY <1>12, <1>13, ShiftDownFields
  <2>2. ShiftDown(c, start + 1, diff).disk = c.disk
    <3>1. PICK n : n \in Files
      OBVIOUS
    <3> QED BY <1>12, <3>1, DiskSame
  <2> QED BY <1>13, <2>1, <2>2
<1>15. o = Ok(d)
  <2>1. o = IF v.ok THEN Ok(d) ELSE v
    BY <1>1, <1>3, <1>4, <1>6, <1>8, <1>11, <1>13 DEF CloseUp, Then
  <2> QED BY <1>5, <2>1
<1>16. o.ok /\ o.fs = d
  BY <1>15 DEF Ok
<1>17. SameLists(d, s)
  <2>1. SameLists(c, s)
    BY <1>10, <1>12, SameTwice
  <2> QED BY <1>14, <2>1, SameTwice
<1>18. d.disk = b.disk /\ DiskOK(d)
  BY <1>9, <1>12, <1>14 DEF DiskOK
<1>19. ClosedUp(s, d, ne, oe, off)
  <2> SUFFICES ASSUME NEW x \in Disk
               PROVE  /\ x < ne => d.disk[x] = s.disk[x]
                      /\ x >= ne /\ x < off - (oe - ne) => d.disk[x] = s.disk[x + (oe - ne)]
                      /\ x >= off - (oe - ne) /\ x < off => d.disk[x] = ZeroBlock
                      /\ x >= off => d.disk[x] = s.disk[x]
    BY DEF ClosedUp
  <2>1. x \in Nat
    BY OnDisk
  <2>2. low + diff = off /\ ne + len = low /\ ne <= low
    BY <1>1
  <2>3. d.disk[x] = IF x >= low /\ x < off THEN ZeroBlock
                    ELSE IF x >= ne /\ x < low THEN s.disk[x - ne + oe] ELSE s.disk[x]
    BY <1>7, <1>9, <1>18, <2>2
  <2>4. x - ne + oe = x + (oe - ne) /\ low = off - (oe - ne)
    BY <1>1, <2>1
  <2>5. CASE x < ne
    <3>1. ~(x >= low) /\ ~(x >= ne) /\ ~(x >= off)
      BY <2>1, <2>2, <2>5, <1>1
    <3> QED BY <2>3, <2>4, <3>1
  <2>6. CASE x >= ne /\ x < low
    <3>1. ~(x >= low) /\ ~(x >= off) /\ ~(x < ne)
      BY <2>1, <2>2, <2>6, <1>1
    <3> QED BY <2>3, <2>4, <2>6, <3>1
  <2>7. CASE x >= low /\ x < off
    <3>1. ~(x < low) /\ ~(x >= off) /\ ~(x < ne)
      BY <2>1, <2>2, <2>7, <1>1
    <3> QED BY <2>3, <2>4, <2>7, <3>1
  <2>8. CASE x >= off
    <3>1. ~(x < low) /\ ~(x < off) /\ ~(x < ne)
      BY <2>1, <2>2, <2>8, <1>1
    <3> QED BY <2>3, <2>4, <2>8, <3>1
  <2> QED BY <1>1, <2>1, <2>5, <2>6, <2>7, <2>8
<1> QED BY <1>16, <1>17, <1>18, <1>19

\* The files behind and in front of the cut keep their data.
LEMMA CutCarries ==
  ASSUME NEW s, Sound(s), NEW n \in Files, NEW t, NEW m \in Nat, CutDown(s, t, n, m),
         \A f \in Files : f # n => t.file[f].size = s.file[f].size /\ t.file[f].sparse = s.file[f].sparse,
         ClosedUp(s, t, Start(s, n) + m, Start(s, n) + Run(s, n), s.data_offset)
  PROVE  /\ \A f \in Files : f # n => Carries(s, t, f)
         /\ Clean(s) => Clean(t)
<1>1. PICK st \in Nat, run \in Nat, off \in Nat, top \in Nat :
        /\ st = Start(s, n) /\ run = Run(s, n) /\ off = s.data_offset /\ top = MaxBlocks
        /\ run # 0 => st + run <= off /\ off <= top
  BY SoundNumbers, FSTreeAssumption
<1>2. PICK diff \in Nat \ {0}, ne \in Nat, low \in Nat :
        diff = run - m /\ ne = st + m /\ low = off - diff /\ st + run <= off /\ off <= top
  <2>1. m < run
    BY <1>1 DEF CutDown
  <2>2. st + run <= off /\ off <= top
    BY <1>1, <2>1
  <2> QED BY <2>1, <2>2
<1>3. /\ t.data_offset = low /\ t.gap = Down(s, st, diff)
      /\ \A f \in Files : /\ f # n => Run(t, f) = Run(s, f)
                          /\ Start(t, f) = IF Run(t, f) # 0 /\ Start(s, f) > st
                                           THEN Start(s, f) - diff ELSE Start(s, f)
  BY <1>1, <1>2 DEF CutDown
<1>4. \A x \in Disk :
        /\ x < ne => t.disk[x] = s.disk[x]
        /\ x >= ne /\ x < low => t.disk[x] = s.disk[x + diff]
        /\ x >= low /\ x < off => t.disk[x] = ZeroBlock
        /\ x >= off => t.disk[x] = s.disk[x]
  <2>1. (st + run) - ne = diff
    BY <1>2
  <2>2. ClosedUp(s, t, ne, st + run, off)
    BY <1>1, <1>2
  <2> QED BY <1>2, <2>1, <2>2 DEF ClosedUp
<1>5. ASSUME NEW f \in Files, f # n PROVE Carries(s, t, f)
  <2>1. PICK sf \in Nat, rf \in Nat :
          sf = Start(s, f) /\ rf = Run(s, f) /\ (rf # 0 => sf + rf <= off)
    BY <1>1, SoundNumbers
  <2>2. rf # 0 => st + run <= sf \/ sf + rf <= st
    <3>1. run # 0
      BY <1>2
    <3> QED BY <1>1, <1>5, <2>1, <3>1 DEF Sound, Apart
  <2>3. ASSUME NEW k \in Nat, k < rf
        PROVE  Start(t, f) + k \in Disk /\ t.disk[Start(t, f) + k] = s.disk[sf + k]
    <3>1. rf # 0
      BY <2>3
    <3>2. CASE st + run <= sf
      <4>1. Start(t, f) = sf - diff
        <5>1. sf > st
          BY <1>2, <3>2
        <5> QED BY <1>3, <1>5, <2>1, <3>1, <5>1
      <4>2. PICK x \in Nat : x = Start(t, f) + k /\ x + diff = sf + k /\ x >= ne /\ x < low /\ x < top
        <5>1. sf + rf <= off /\ sf - diff >= ne /\ sf - diff \in Nat
          BY <1>2, <2>1, <3>1, <3>2
        <5>2. sf + k < off
          BY <2>3, <5>1
        <5> QED BY <1>2, <4>1, <5>1, <5>2
      <4>3. x \in Disk
        BY <1>1, <4>2, OnDisk
      <4>4. t.disk[x] = s.disk[x + diff]
        BY <1>4, <4>2, <4>3
      <4> QED BY <4>2, <4>3, <4>4
    <3>3. CASE sf + rf <= st
      <4>1. Start(t, f) = sf
        <5>1. ~(sf > st)
          BY <3>3
        <5> QED BY <1>3, <2>1, <5>1
      <4>2. PICK x \in Nat : x = sf + k /\ x < ne /\ x < top
        <5>1. sf + k < st
          BY <2>3, <3>3
        <5> QED BY <1>2, <5>1
      <4>3. x \in Disk
        BY <1>1, <4>2, OnDisk
      <4> QED BY <1>4, <4>1, <4>2, <4>3
    <3> QED BY <2>2, <3>1, <3>2, <3>3
  <2> QED BY <1>5, <2>1, <2>3 DEF Carries
<1>6. Clean(s) => Clean(t)
  <2> SUFFICES ASSUME Clean(s), NEW x \in Disk, x >= t.data_offset \/ x \in t.gap
               PROVE  t.disk[x] = ZeroBlock
    BY DEF Clean
  <2>1. x \in Nat
    BY OnDisk
  <2>2. CASE x >= low
    <3>1. x >= off => s.disk[x] = ZeroBlock
      BY <1>1 DEF Clean
    <3>2. x < off \/ x >= off
      BY <2>1
    <3> QED BY <1>4, <2>2, <3>1, <3>2
  <2>3. CASE ~(x >= low) /\ x < st /\ x \in s.gap
    <3>1. x < ne
      BY <1>2, <2>1, <2>3
    <3>2. s.disk[x] = ZeroBlock
      BY <2>3 DEF Clean
    <3> QED BY <1>4, <3>1, <3>2
  <2>4. CASE ~(x >= low) /\ x + diff >= st /\ x + diff \in s.gap
    <3>1. x + diff < off /\ x + diff >= st + run
      <4>1. x + diff < off
        BY <1>1, <2>4 DEF Sound, Spots
      <4>2. x + diff < st \/ x + diff >= st + run
        BY <1>1, <2>4 DEF Sound, Spots
      <4> QED BY <2>1, <2>4, <4>1, <4>2
    <3>2. x >= ne /\ x < low
      BY <1>2, <2>1, <2>4, <3>1
    <3>3. x + diff \in Disk
      <4>1. x + diff \in Nat /\ x + diff < top
        BY <1>2, <2>1, <3>1
      <4> QED BY <1>1, <4>1, OnDisk
    <3>4. s.disk[x + diff] = ZeroBlock
      BY <2>4, <3>3 DEF Clean
    <3> QED BY <1>4, <3>2, <3>4
  <2>5. x >= low \/ (x < st /\ x \in s.gap) \/ (x + diff >= st /\ x + diff \in s.gap)
    BY <1>3 DEF Down
  <2> QED BY <2>2, <2>3, <2>4, <2>5
<1> QED BY <1>5, <1>6

\* What is left of a file that was cut off at z bytes; the rest of its last block
\* is zero.
Cuts(s, t, n, z) ==
  /\ t.file[n].size = z
  /\ \A x \in Nat, j \in InBlk : x < BlocksFor(z) =>
       ByteAt(t, n, x, j) = IF BlockSize * x + j < z THEN ByteAt(s, n, x, j) ELSE 0

\* The fields of the tree with the file cut off.
LEMMA CutLists ==
  ASSUME NEW s, TreeGood(s), NEW n \in Files, NEW z \in Nat, NEW t, t = CutTree(s, n, z)
  PROVE  /\ t.disk = s.disk /\ t.file[n].size = z
         /\ t.file[n].sparse = TruncateSparse(s.file[n].sparse, BlocksFor(z))
         /\ UpToBlock(s.file[n].sparse, t.file[n].sparse, BlocksFor(z))
         /\ \A f \in Files : f # n => t.file[f].size = s.file[f].size /\ t.file[f].sparse = s.file[f].sparse
<1>1. Shape(s)
  BY GoodShape
<1>2. PICK f, l, q : f = s.file[n] /\ q = f.sparse /\ l = TruncateSparse(q, BlocksFor(z))
  OBVIOUS
<1>3. PICK cut : cut = CutFile(f, z)
  OBVIOUS
<1>4. cut = FileOf(z, f.start_index, l)
  BY <1>2, <1>3 DEF CutFile, FileOf
<1>5. cut.size = z /\ cut.start_index = f.start_index /\ cut.sparse = l
  BY <1>4, FileFields
<1>6. ListOK(q) /\ BlocksFor(z) \in Nat
  BY <1>2, BlocksForFacts DEF TreeGood, FileGood
<1>7. UpToBlock(q, l, BlocksFor(z))
  BY <1>2, <1>6, TruncateSparseFacts
<1>8. cut = FileOf(cut.size, cut.start_index, cut.sparse)
  BY <1>4, <1>5
<1>9. t = [s EXCEPT !.file[n] = cut]
  BY <1>2, <1>3 DEF CutTree
<1>10. \A g \in Files : t.file[g] = IF g = n THEN cut ELSE s.file[g]
  BY <1>1, <1>8, <1>9, FileReplaced
<1>11. t.disk = s.disk
  <2>1. PICK F : F = [s.file EXCEPT ![n] = cut]
    OBVIOUS
  <2>2. t = [s EXCEPT !.file = F]
    BY <1>9, <2>1
  <2>3. t = TreeOf(s.disk, s.data_offset, s.gap, F)
    BY <1>1, <2>2, TreeUpdates
  <2> QED BY <2>3, TreeFields
<1>12. t.file[n] = cut
  BY <1>10
<1>13. t.file[n].size = z /\ t.file[n].sparse = l
  BY <1>5, <1>12
<1>14. \A g \in Files : g # n => t.file[g] = s.file[g]
  BY <1>10
<1> QED BY <1>2, <1>7, <1>11, <1>13, <1>14

\* The blocks that are left of the file are where they were.
LEMMA CutKeeps ==
  ASSUME NEW s, Sound(s), NEW n \in Files, NEW z \in Nat, z <= s.file[n].size,
         NEW t, TreeGood(t), t.file[n].size = z, Start(t, n) = Start(s, n),
         UpToBlock(s.file[n].sparse, t.file[n].sparse, BlocksFor(z)),
         \A x \in Disk : x < Start(s, n) + Run(t, n) => t.disk[x] = s.disk[x],
         NEW x \in Nat, x < BlocksFor(z), NEW j \in InBlk
  PROVE  ByteAt(t, n, x, j) = ByteAt(s, n, x, j)
<1>1. PICK l, h : l = s.file[n].sparse /\ h = t.file[n].sparse
  OBVIOUS
<1>2. PICK q \in Nat : q = BlocksFor(z)
  BY BlocksForBounds
<1>3. UpToBlock(l, h, q)
  BY <1>1, <1>2
<1>4. x < q /\ x <= q
  BY <1>2
<1>5. IsSparse(h, x) <=> IsSparse(l, x)
  BY <1>3, <1>4 DEF UpToBlock
<1>6. Rank(h, x) = Rank(l, x)
  BY <1>3, <1>4, RankCut
<1>7. PICK st \in Nat, run \in Nat, off \in Nat, top \in Nat :
        /\ st = Start(s, n) /\ run = Run(s, n) /\ off = s.data_offset /\ top = MaxBlocks
        /\ run # 0 => st + run <= off /\ off <= top
  BY SoundNumbers, FSTreeAssumption
<1>8. ByteAt(t, n, x, j) = IF IsSparse(l, x) THEN 0 ELSE t.disk[st + Rank(l, x)][j]
  BY <1>1, <1>5, <1>6, <1>7 DEF ByteAt
<1>9. ByteAt(s, n, x, j) = IF IsSparse(l, x) THEN 0 ELSE s.disk[st + Rank(l, x)][j]
  BY <1>1, <1>7 DEF ByteAt
<1>10. CASE IsSparse(l, x)
  BY <1>8, <1>9, <1>10
<1>11. CASE ~IsSparse(l, x)
  <2>1. PICK new \in Nat : new = Run(t, n)
    BY RunFacts
  <2>2. PICK k \in Nat : k = Rank(l, x) /\ k < new
    <3>1. \A i \in Nat : i < q /\ ~IsSparse(h, i) => Rank(h, i) \in Nat /\ Rank(h, i) < new
      BY <1>1, <1>2, <2>1, RankEnd
    <3> QED BY <1>4, <1>5, <1>6, <1>11, <3>1
  <2>3. k < run
    <3>1. \A i \in Nat : i < BlocksFor(s.file[n].size) /\ ~IsSparse(l, i) => Rank(l, i) < run
      BY <1>1, <1>7, RankEnd DEF Sound
    <3>2. s.file[n].size \in Nat
      BY DEF Sound, TreeGood, FileGood
    <3>3. BlocksFor(z) <= BlocksFor(s.file[n].size) /\ BlocksFor(s.file[n].size) \in Nat
      BY <3>2, BlocksForGrows, BlocksForFacts
    <3>4. x < BlocksFor(s.file[n].size)
      BY <1>2, <1>4, <3>3
    <3> QED BY <1>11, <2>2, <3>1, <3>4
  <2>4. st + k \in Nat /\ st + k < top /\ st + k < st + new
    <3>1. st + run <= off /\ off <= top
      BY <1>7, <2>3
    <3>2. k < run /\ k < new
      BY <2>2, <2>3
    <3> QED BY <3>1, <3>2
  <2>5. st + k \in Disk
    BY <1>7, <2>4, OnDisk
  <2>6. t.disk[st + k] = s.disk[st + k]
    BY <1>7, <2>1, <2>4, <2>5
  <2> QED BY <1>8, <1>9, <2>2, <2>6
<1> QED BY <1>10, <1>11

\* How much of the last block of the file that is left belongs to it: the padding
\* of fstree_file_truncate starts there.
LEMMA CutTail ==
  ASSUME NEW z \in Nat, NEW f, f.size = z, FileGood(z, f.sparse), f.sparse = <<>> \/ z % BlockSize = 0
  PROVE  /\ PhysicalSize(f) % BlockSize = z % BlockSize
         /\ z % BlockSize > 0 => PhysBlocks(f) = z \div BlockSize + 1
<1>1. CASE f.sparse = <<>>
  <2>1. SparseBytes(f) = 0
    <3>1. PICK v : v = [k \in 1..Len(f.sparse) |-> BytesIn(f.sparse[k], f.size)]
      OBVIOUS
    <3>2. v \in Seq(Int) /\ Len(v) = 0
      <4>1. Len(<<>>) = 0 /\ 1..0 = {}
        OBVIOUS
      <4>2. v = [k \in 1..0 |-> BytesIn(f.sparse[k], f.size)]
        BY <1>1, <3>1, <4>1
      <4>3. v \in [1..0 -> Int]
        BY <4>1, <4>2
      <4> QED BY <4>1, <4>3
    <3>3. PICK n \in Nat : n = 0 /\ n = Len(v)
      BY <3>2
    <3>4. \E sum : Sums(sum, v, n) /\ Total(v) = sum[n]
      BY <3>2, <3>3, TotalFacts
    <3>5. Total(v) = 0
      BY <3>3, <3>4 DEF Sums
    <3> QED BY <3>1, <3>5 DEF SparseBytes
  <2>2. PhysicalSize(f) = z
    BY <2>1 DEF PhysicalSize
  <2>3. PhysBlocks(f) = BlocksFor(z)
    BY <2>2 DEF PhysBlocks
  <2>4. z % BlockSize > 0 => BlocksFor(z) = z \div BlockSize + 1
    <3> SUFFICES ASSUME z % BlockSize > 0 PROVE BlocksFor(z) = z \div BlockSize + 1
      OBVIOUS
    <3>1. PICK d \in Nat \ {0} : d = BlockSize
      BY FSTreeAssumption
    <3>2. PICK i \in Nat, w \in Nat, e \in Nat :
            i = z \div BlockSize /\ w = z % BlockSize /\ e = BlockSize * i /\ z = e + w /\ w < d
      BY <3>1, Places
    <3>3. PICK q \in Nat : q = i + 1
      OBVIOUS
    <3>4. BlockSize * q = e + d
      BY <3>1, <3>2, <3>3
    <3>5. w > 0
      BY <3>2
    <3>6. z <= e + d /\ e + d < z + d
      BY <3>2, <3>5
    <3>7. BlocksFor(z) = q
      BY <3>1, <3>4, <3>6, BlocksForIs
    <3> QED BY <3>2, <3>3, <3>7
  <2> QED BY <2>2, <2>3, <2>4
<1>2. CASE z % BlockSize = 0
  <2>1. PICK d \in Nat \ {0} : d = BlockSize
    BY FSTreeAssumption
  <2>2. PICK i \in Nat, e \in Nat : e = BlockSize * i /\ z = e
    BY <1>2, Places
  <2>3. BlocksFor(z) = i
    BY <2>1, <2>2, BlocksForIs
  <2>4. Over(z) = 0
    BY <2>2, <2>3 DEF Over
  <2>5. PICK c \in Nat : c = Held(f.sparse) /\ c <= i
    BY <2>3, PhysBlocksAre
  <2>6. SparseBytes(f) = BlockSize * c
    <3>1. SparseBytes(f) = BlockSize * c \/ SparseBytes(f) = BlockSize * c - 0
      BY <2>4, <2>5, SparseBytesAre
    <3> QED BY <2>1, <3>1
  <2>7. PICK k \in Nat : k = i - c
    BY <2>5
  <2>8. PhysicalSize(f) = BlockSize * k
    <3>1. BlockSize * c \in Nat /\ BlockSize * k \in Nat /\ BlockSize * i = BlockSize * c + BlockSize * k
      BY <2>1, <2>5, <2>7
    <3>2. PICK g \in Nat, h \in Nat : g = BlockSize * c /\ h = BlockSize * k /\ z = g + h
      BY <2>2, <3>1
    <3>3. SparseBytes(f) = g
      BY <2>6, <3>2
    <3>4. PhysicalSize(f) = h
      BY <3>2, <3>3 DEF PhysicalSize
    <3> QED BY <3>2, <3>4
  <2>9. PhysicalSize(f) % BlockSize = 0
    <3>1. 0 \in InBlk
      BY FSTreeAssumption DEF InBlk
    <3>2. PICK p \in Nat : p = BlockSize * k /\ p = BlockSize * k + 0
      BY <2>1
    <3>3. p % BlockSize = 0
      BY <3>1, <3>2, PlaceOf
    <3> QED BY <2>8, <3>2, <3>3
  <2> QED BY <1>2, <2>9
<1> QED BY <1>1, <1>2

\* Which bytes of the blocks of a file of z bytes belong to it.
LEMMA Inside ==
  ASSUME NEW z \in Nat, NEW x \in Nat, x < BlocksFor(z), NEW j \in InBlk
  PROVE  BlockSize * x + j < z <=> ~(z % BlockSize > 0 /\ x = z \div BlockSize /\ j >= z % BlockSize)
<1>1. PICK d \in Nat \ {0} : d = BlockSize
  BY FSTreeAssumption
<1>2. PICK i \in Nat, w \in Nat, g \in Nat :
        i = z \div BlockSize /\ w = z % BlockSize /\ g = d * i /\ z = g + w /\ w < d
  BY <1>1, Places
<1>3. j \in Nat /\ j < d
  BY <1>1 DEF InBlk
<1>4. PICK e \in Nat : e = d * x
  OBVIOUS
<1>5. x < i => e + d <= g
  <2> SUFFICES ASSUME x < i, g < e + d PROVE FALSE
    OBVIOUS
  <2>1. i <= x
    BY <1>2, <1>4, Below
  <2> QED BY <2>1
<1>6. x <= i /\ (w = 0 => x < i)
  <2>1. PICK m \in Nat \ {0} : m = 1 /\ m <= BlockSize - (z % BlockSize)
    BY <1>1, <1>2
  <2>2. w = 0 => i = BlocksFor(z)
    <3>1. ~(z % BlockSize > 0) => z \div BlockSize = BlocksFor(z)
      BY <2>1, TailBlocks
    <3> QED BY <1>2, <3>1
  <2>3. x <= i
    <3>1. PICK q \in Nat, h \in Nat : q = BlocksFor(z) /\ h = d * q /\ h < z + d
      BY <1>1, BlocksForBounds
    <3>2. d * (x + 1) = e + d /\ x + 1 <= q
      BY <1>4, <3>1
    <3>3. e + d <= h
      <4> SUFFICES ASSUME h < e + d PROVE FALSE
        OBVIOUS
      <4>1. q <= x
        BY <1>4, <3>1, Below
      <4> QED BY <3>2, <4>1
    <3>4. e < g + d
      BY <1>2, <3>1, <3>3
    <3> QED BY <1>2, <1>4, <3>4, Below
  <2> QED BY <2>2, <2>3
<1>7. CASE x < i
  <2>1. e + j < z
    BY <1>2, <1>3, <1>5, <1>7
  <2>2. x # i
    BY <1>7
  <2> QED BY <1>1, <1>2, <1>4, <2>1, <2>2
<1>8. CASE x = i
  <2>1. e = g /\ w > 0
    <3>1. e = g
      BY <1>2, <1>4, <1>8
    <3>2. w # 0
      BY <1>6, <1>8
    <3> QED BY <3>1, <3>2
  <2>2. e + j < z <=> ~(j >= w)
    <3>1. z = e + w
      BY <1>2, <2>1
    <3> QED BY <1>3, <3>1
  <2> QED BY <1>1, <1>2, <1>4, <1>8, <2>1, <2>2
<1> QED BY <1>6, <1>7, <1>8

\* A list without blocks is empty.
LEMMA NoHoles ==
  ASSUME NEW l, ListOK(l), \A x \in Nat : ~IsSparse(l, x)
  PROVE  l = <<>>
<1>1. l \in Seq(Region) /\ Len(l) \in Nat
  BY DEF ListOK
<1>2. Len(l) = 0
  <2> SUFFICES ASSUME Len(l) # 0 PROVE FALSE
    OBVIOUS
  <2>1. 1 \in 1..Len(l)
    BY <1>1
  <2>2. /\ l[1].index \in Nat /\ l[1].count \in Nat \ {0}
        /\ \A x \in Nat : Covers(l[1], x) <=> l[1].index <= x /\ x < l[1].index + l[1].count
    BY <2>1, ListNumbers
  <2>3. Covers(l[1], l[1].index)
    BY <2>2
  <2> QED BY <2>1, <2>2, <2>3 DEF IsSparse
<1> QED BY <1>1, <1>2

\* fstree_file_truncate to a smaller size never fails.
LEMMA ShrinkDoes ==
  ASSUME NEW s, Sound(s), NEW n \in Files, NEW z \in Nat, z <= s.file[n].size,
         s.file[n].sparse = <<>> \/ z % BlockSize = 0,
         NEW r, r = Shrink(s, n, z), Spots(r.fs), Apart(r.fs)
  PROVE  /\ r.ok /\ DiskOK(r.fs) /\ Cuts(s, r.fs, n, z)
         /\ \A f \in Files : f # n => Carries(s, r.fs, f)
         /\ Clean(s) => Clean(r.fs)
         /\ s.file[n].sparse = <<>> => r.fs.file[n].sparse = <<>>
<1>1. TreeGood(s) /\ Spots(s) /\ Room(s) /\ DiskOK(s) /\ Shape(s)
  BY GoodShape DEF Sound
<1>2. PICK f : f = s.file[n]
  OBVIOUS
<1>3. PICK cut : cut = CutFile(f, z)
  OBVIOUS
<1>4. PICK t : t = [s EXCEPT !.file[n] = cut]
  OBVIOUS
<1>5. t = CutTree(s, n, z)
  BY <1>2, <1>3, <1>4 DEF CutTree
<1>6. /\ TreeGood(t) /\ t.data_offset = s.data_offset /\ t.gap = s.gap
      /\ \A g \in Files : Start(t, g) = Start(s, g) /\ (g # n => Run(t, g) = Run(s, g))
      /\ Run(t, n) = PhysBlocks(cut)
      /\ Run(t, n) <= Run(s, n)
  BY <1>1, <1>2, <1>3, <1>5, CutFields
<1>7. /\ t.disk = s.disk /\ t.file[n].size = z
      /\ UpToBlock(s.file[n].sparse, t.file[n].sparse, BlocksFor(z))
      /\ \A g \in Files : g # n => t.file[g].size = s.file[g].size /\ t.file[g].sparse = s.file[g].sparse
  BY <1>1, <1>5, CutLists
<1>8. PICK new \in Nat, old \in Nat, start \in Nat, off \in Nat :
        /\ new = Run(t, n) /\ old = Run(s, n) /\ start = Start(s, n) /\ new <= old /\ off = s.data_offset
        /\ old # 0 => start + old <= off /\ off <= MaxBlocks
  <2>1. Run(t, n) \in Nat
    BY <1>6, RunFacts
  <2> QED BY <1>6, <2>1, SoundNumbers
<1>9. PICK c : c = CloseUp(t, start + new, start + old, start)
  OBVIOUS
<1>10. PICK o : o = IF new < old THEN c ELSE Ok(t)
  OBVIOUS
<1>11. PICK tail : tail = PhysicalSize(cut) % BlockSize
  OBVIOUS
<1>12. PICK w : w = WritePartial(o.fs, start + new - 1, tail, Zeros(BlockSize - tail))
  OBVIOUS
<1>13. r = IF o.ok THEN (IF tail > 0 THEN w ELSE Ok(o.fs)) ELSE o
  <2>1. start = f.start_index /\ new = PhysBlocks(cut) /\ old = PhysBlocks(f)
    BY <1>2, <1>6, <1>8 DEF Start, Run
  <2> QED BY <1>2, <1>3, <1>4, <1>9, <1>10, <1>11, <1>12, <2>1 DEF Shrink, Then
<1>14. Ok(t).ok /\ Ok(t).fs = t /\ Ok(o.fs).fs = o.fs /\ Ok(o.fs).ok
  BY DEF Ok
<1>15. PICK A : A = o.fs
  OBVIOUS
<1>16. /\ o.ok /\ TreeGood(A) /\ Room(A) /\ DiskOK(A)
       /\ \A g \in Files : g # n => Carries(s, A, g)
       /\ Clean(s) => Clean(A)
       /\ A.file[n].size = z /\ A.file[n].sparse = t.file[n].sparse
       /\ Start(A, n) = start /\ Run(A, n) = new
       /\ \A x \in Disk : x < start + new => A.disk[x] = s.disk[x]
  <2>1. CASE new < old
    <3>1. o = c
      BY <1>10, <2>1
    <3>2. o.ok /\ TreeGood(o.fs) /\ CutDown(s, o.fs, n, new) /\ Room(o.fs)
      BY <1>1, <1>6, <1>8, <1>9, <2>1, <3>1, CloseUpCuts
    <3>3. start + old <= off /\ off <= MaxBlocks
      BY <1>8, <2>1
    <3>4. PICK ne \in Nat, oe \in Nat : ne = start + new /\ oe = start + old /\ ne < oe /\ oe <= off
      BY <2>1, <3>3
    <3>5. DiskOK(t) /\ off = t.data_offset /\ Files # {}
      BY <1>1, <1>6, <1>8, <1>7 DEF DiskOK
    <3>6. o.ok /\ DiskOK(o.fs) /\ SameLists(o.fs, t) /\ ClosedUp(t, o.fs, ne, oe, off)
      BY <1>6, <1>9, <3>1, <3>3, <3>4, <3>5, CloseUpMoves
    <3>7. TreeGood(A) /\ Room(A) /\ DiskOK(A) /\ CutDown(s, A, n, new) /\ SameLists(A, t) /\ ClosedUp(t, A, ne, oe, off)
      BY <1>15, <3>2, <3>6
    <3>8. ClosedUp(s, A, Start(s, n) + new, Start(s, n) + Run(s, n), s.data_offset)
      <4>1. ClosedUp(s, A, ne, oe, off)
        BY <1>7, <3>7 DEF ClosedUp
      <4> QED BY <1>8, <3>4, <4>1
    <3>9. \A g \in Files : A.file[g].size = t.file[g].size /\ A.file[g].sparse = t.file[g].sparse
      BY <3>7 DEF SameLists
    <3>10. \A g \in Files : g # n => A.file[g].size = s.file[g].size /\ A.file[g].sparse = s.file[g].sparse
      BY <1>7, <3>9
    <3>11. (\A g \in Files : g # n => Carries(s, A, g)) /\ (Clean(s) => Clean(A))
      BY <3>7, <3>8, <3>10, CutCarries
    <3>12. Start(A, n) = start /\ Run(A, n) = new
      <4>1. ~(start > start)
        OBVIOUS
      <4> QED BY <1>8, <3>7, <4>1 DEF CutDown
    <3>13. \A x \in Disk : x < start + new => A.disk[x] = s.disk[x]
      BY <1>7, <3>4, <3>7 DEF ClosedUp
    <3> QED BY <1>7, <3>2, <3>7, <3>9, <3>11, <3>12, <3>13
  <2>2. CASE ~(new < old)
    <3>1. o = Ok(t) /\ new = old /\ A = t /\ o.ok
      BY <1>8, <1>10, <1>14, <1>15, <2>2
    <3>2. Room(t)
      <4>1. SameLayout(s, t)
        BY <1>6, <1>8, <3>1 DEF SameLayout
      <4> QED BY <1>1, <4>1, RoomKept
    <3>3. DiskOK(t)
      BY <1>1, <1>7 DEF DiskOK
    <3>4. ASSUME NEW g \in Files, g # n PROVE Carries(s, t, g)
      BY <1>6, <1>7, <3>4, CarriesThere
    <3>5. Clean(s) => Clean(t)
      BY <1>6, <1>7 DEF Clean
    <3> QED BY <1>6, <1>8, <1>7, <3>1, <3>2, <3>3, <3>4, <3>5
  <2> QED BY <2>1, <2>2
<1>17. ASSUME NEW x \in Nat, x < BlocksFor(z), NEW j \in InBlk PROVE ByteAt(A, n, x, j) = ByteAt(s, n, x, j)
  <2>1. /\ TreeGood(A) /\ A.file[n].size = z /\ Start(A, n) = Start(s, n)
        /\ UpToBlock(s.file[n].sparse, A.file[n].sparse, BlocksFor(z))
    BY <1>8, <1>7, <1>16
  <2>2. \A y \in Disk : y < Start(s, n) + Run(A, n) => A.disk[y] = s.disk[y]
    BY <1>8, <1>16
  <2> QED BY <1>17, <2>1, <2>2, CutKeeps
<1>18. s.file[n].sparse = <<>> => A.file[n].sparse = <<>>
  <2> SUFFICES ASSUME s.file[n].sparse = <<>> PROVE A.file[n].sparse = <<>>
    OBVIOUS
  <2>1. UpToBlock(<<>>, A.file[n].sparse, BlocksFor(z))
    BY <1>7, <1>16
  <2>2. \A x \in Nat : ~IsSparse(<<>>, x)
    BY RankEmpty
  <2> QED BY <2>1, <2>2, NoHoles DEF UpToBlock
<1>19. /\ tail = z % BlockSize
       /\ z % BlockSize > 0 => new = z \div BlockSize + 1
  <2>1. cut = t.file[n]
    <3>1. cut = FileOf(z, f.start_index, TruncateSparse(f.sparse, BlocksFor(z)))
      BY <1>3 DEF CutFile, FileOf
    <3>2. cut = FileOf(cut.size, cut.start_index, cut.sparse)
      BY <3>1, FileFields
    <3>3. \A g \in Files : t.file[g] = IF g = n THEN cut ELSE s.file[g]
      BY <1>1, <1>4, <3>2, FileReplaced
    <3> QED BY <3>3
  <2>2. cut.size = z /\ FileGood(z, cut.sparse) /\ cut.sparse = A.file[n].sparse
    BY <1>6, <1>7, <1>16, <2>1 DEF TreeGood
  <2>3. cut.sparse = <<>> \/ z % BlockSize = 0
    BY <1>18, <2>2
  <2>4. /\ PhysicalSize(cut) % BlockSize = z % BlockSize
        /\ z % BlockSize > 0 => PhysBlocks(cut) = z \div BlockSize + 1
    BY <2>2, <2>3, CutTail
  <2> QED BY <1>6, <1>8, <1>11, <2>4
<1>20. CASE ~(tail > 0)
  <2>1. r.ok /\ r.fs = A
    BY <1>13, <1>14, <1>15, <1>16, <1>20
  <2>2. ASSUME NEW x \in Nat, NEW j \in InBlk, x < BlocksFor(z)
        PROVE  ByteAt(A, n, x, j) = IF BlockSize * x + j < z THEN ByteAt(s, n, x, j) ELSE 0
    <3>1. BlockSize * x + j < z
      BY <1>19, <1>20, <2>2, Inside
    <3> QED BY <1>17, <2>2, <3>1
  <2>3. Cuts(s, A, n, z)
    BY <1>16, <2>2 DEF Cuts
  <2> QED BY <1>16, <1>18, <2>1, <2>3
<1>21. CASE tail > 0
  <2>1. r = w
    BY <1>13, <1>16, <1>21
  <2>2. PICK i \in Nat, g \in Nat, d \in Nat \ {0} :
          i = z \div BlockSize /\ g = tail /\ g = z % BlockSize /\ d = BlockSize /\ g < d /\ new = i + 1
    BY <1>19, <1>21, Places, FSTreeAssumption
  <2>3. A.file[n].sparse = <<>>
    <3>1. z % BlockSize # 0
      BY <2>2, <1>21
    <3> QED BY <1>18, <3>1
  <2>4. PICK data : data = Zeros(BlockSize - tail)
    OBVIOUS
  <2>5. data \in Seq(Int) /\ Len(data) = d - g /\ \A k \in 1..Len(data) : data[k] = 0
    <3>1. PICK k \in Nat : k = d - g
      BY <2>2
    <3>2. data = [y \in 1..k |-> 0]
      BY <2>2, <2>4, <3>1 DEF Zeros
    <3>3. data \in [1..k -> Int]
      BY <3>2
    <3>4. Len(data) = k /\ data \in Seq(Int)
      BY <3>2, <3>3
    <3> QED BY <3>1, <3>2, <3>4
  <2>6. Rank(<<>>, i) = i /\ ~IsSparse(<<>>, i)
    BY RankEmpty
  <2>7. w = WritePartial(A, start + i, tail, data)
    <3>1. new - 1 = i
      BY <2>2
    <3> QED BY <1>12, <1>15, <2>4, <3>1
  <2>8. SameAccount(w.fs, A)
    <3>1. Shape(A)
      BY <1>16, GoodShape
    <3> QED BY <2>7, <3>1, WriteAccount
  <2>9. Sound(A)
    <3>1. SameLayout(w.fs, A)
      <4>1. SameLayout(A, w.fs)
        BY <2>8, AccountLayout
      <4> QED BY <4>1 DEF SameLayout
    <3>2. Spots(w.fs) /\ Apart(w.fs)
      BY <2>1
    <3>3. Spots(A)
      BY <3>1, <3>2 DEF SameLayout, Spots
    <3>4. Apart(A)
      BY <3>1, <3>2 DEF SameLayout, Apart
    <3> QED BY <1>16, <3>3, <3>4 DEF Sound
  <2>10. i < BlocksFor(z)
    <3>1. z = BlockSize * i + g
      BY <2>2, Places
    <3>2. g \in InBlk /\ 0 \in InBlk
      BY <2>2 DEF InBlk
    <3>3. PICK e \in Nat : e = BlockSize * i
      BY <2>2
    <3>4. e = BlockSize * i + 0 /\ e < z
      BY <1>21, <2>2, <3>1, <3>3
    <3> QED BY <3>2, <3>4, PlaceOf
  <2>11. w.ok /\ Does(A, w, n, z, i, g, data)
    <3>1. w = WritePartial(A, Start(A, n) + Rank(<<>>, i), g, data)
      BY <1>16, <2>2, <2>6, <2>7
    <3> QED BY <1>16, <2>3, <2>5, <2>6, <2>9, <2>10, <3>1, InPlace
  <2>12. PICK B : B = w.fs
    OBVIOUS
  <2>13. /\ DiskOK(B) /\ Puts(A, B, n, z, i, g, data) /\ (Clean(A) => Clean(B))
         /\ \A h \in Files : h # n => Carries(A, B, h)
    BY <2>11, <2>12 DEF Does
  <2>14. ASSUME NEW x \in Nat, NEW j \in InBlk, x < BlocksFor(z)
         PROVE  ByteAt(B, n, x, j) = IF BlockSize * x + j < z THEN ByteAt(s, n, x, j) ELSE 0
    <3>1. ByteAt(B, n, x, j) = IF x = i /\ j >= g /\ j < g + Len(data) THEN data[j - g + 1] ELSE ByteAt(A, n, x, j)
      BY <1>16, <2>13, <2>14 DEF Puts
    <3>2. ByteAt(A, n, x, j) = ByteAt(s, n, x, j)
      BY <1>17, <2>14
    <3>3. j \in Nat /\ j < g + Len(data)
      BY <2>2, <2>5 DEF InBlk
    <3>4. BlockSize * x + j < z <=> ~(x = i /\ j >= g)
      <4>1. z % BlockSize > 0
        BY <1>21, <2>2
      <4> QED BY <2>2, <2>14, <4>1, Inside
    <3>5. j >= g => data[j - g + 1] = 0
      <4>1. j >= g => j - g + 1 \in 1..Len(data)
        BY <2>2, <2>5, <3>3
      <4> QED BY <2>5, <4>1
    <3> QED BY <3>1, <3>2, <3>3, <3>4, <3>5
  <2>15. Cuts(s, B, n, z)
    BY <2>13, <2>14 DEF Cuts, Puts
  <2>16. ASSUME NEW h \in Files, h # n PROVE Carries(s, B, h)
    BY <1>1, <1>16, <2>13, <2>16, CarriesTwice
  <2>17. B.file[n].sparse = A.file[n].sparse
    BY <2>8, <2>12 DEF SameAccount
  <2> QED BY <1>16, <2>1, <2>3, <2>11, <2>12, <2>13, <2>15, <2>16, <2>17
<1> QED BY <1>20, <1>21

\* The volume with n empty blocks at block i; everything from there on to end moved up.
OpenedUp(s, t, i, n, end) ==
  \A x \in Disk :
    /\ x < i => t.disk[x] = s.disk[x]
    /\ x >= i /\ x < i + n => t.disk[x] = ZeroBlock
    /\ x >= i + n /\ x < end + n => t.disk[x] = s.disk[x - n]
    /\ x >= end + n => t.disk[x] = s.disk[x]

\* A move to the right over part of the source fails before it has copied a block.
LEMMA MoveStays ==
  ASSUME NEW s, Shape(s), DiskOK(s), NEW dst \in Nat, NEW src \in Nat, NEW n \in Nat,
         NEW o, o = MemMove(s, dst, src, n), ~o.ok, src < dst, src + n - 1 >= dst
  PROVE  o.fs.disk = s.disk
  BY MoveDisk

\* What fstree_add_gap does to the volume, also if there is no room for the gap.
LEMMA GapMoves ==
  ASSUME NEW s, Sound(s), NEW i \in Nat, NEW n \in Nat \ {0}, NEW off \in Nat, off = s.data_offset, i <= off,
         NEW r, r = AddGap(s, i, n)
  PROVE  /\ DiskOK(r.fs)
         /\ r.ok => OpenedUp(s, r.fs, i, n, off)
         /\ ~r.ok => SameAccount(r.fs, s) /\ \A x \in Disk : x < off => r.fs.disk[x] = s.disk[x]
<1>1. Shape(s) /\ DiskOK(s)
  BY GoodShape DEF Sound
<1>2. CASE i < off
  <2>1. PICK a : a = MemMove(s, i + n, i, off - i)
    OBVIOUS
  <2>2. SameAccount(a.fs, s) /\ Shape(a.fs)
    BY <1>1, <2>1, MemMoveAccount, AccountShape
  <2>3. a.fs.data_offset = off /\ a.fs.gap = s.gap /\ a.fs.file = s.file
    BY <2>2 DEF SameAccount
  <2>4. PICK F, g : /\ F = [f \in Files |-> Raised(s.file[f], i, n)]
                    /\ g = { IF b >= i THEN b + n ELSE b : b \in s.gap } \cup i..(i + n - 1)
    OBVIOUS
  <2>5. PICK d : d = [a.fs EXCEPT !.data_offset = off + n, !.gap = g, !.file = F]
    OBVIOUS
  <2>6. d = TreeOf(a.fs.disk, off + n, g, F)
    <3>1. PICK z, o : z = a.fs /\ o = off + n
      OBVIOUS
    <3>2. d = SetThree(z, o, g, F) /\ Shape(z)
      BY <2>2, <2>5, <3>1 DEF SetThree
    <3> QED BY <3>1, <3>2, TreeTwoThree
  <2>7. PICK e : e = Discard(d, i, n)
    OBVIOUS
  <2>8. r = IF a.ok THEN Ok(e) ELSE a
    BY <1>2, <2>1, <2>3, <2>4, <2>5, <2>7 DEF AddGap, Then
  <2>9. PICK dst \in Nat, len \in Nat \ {0} : dst = i + n /\ len = off - i
    <3>1. i + n \in Nat /\ off - i \in Nat \ {0}
      BY <1>2
    <3> QED BY <3>1
  <2>10. /\ DiskOK(a.fs)
         /\ a.ok => \A x \in Disk : a.fs.disk[x] = IF x >= dst /\ x < dst + len
                                                   THEN s.disk[x - dst + i] ELSE s.disk[x]
         /\ \A x \in Disk : x < dst \/ x >= dst + len => a.fs.disk[x] = s.disk[x]
         /\ ~a.ok /\ i < dst /\ i + len - 1 >= dst => a.fs.disk = s.disk
    <3>1. a = MemMove(s, dst, i, len) /\ len \in Nat
      BY <2>1, <2>9
    <3>2. Copied(s, a, dst, i, len)
      BY <1>1, <3>1, MoveCopies
    <3>3. ~a.ok /\ i < dst /\ i + len - 1 >= dst => a.fs.disk = s.disk
      BY <1>1, <3>1, MoveStays
    <3> QED BY <3>2, <3>3 DEF Copied
  <2>11. CASE ~a.ok
    <3>1. ASSUME NEW x \in Disk, x < off PROVE a.fs.disk[x] = s.disk[x]
      <4>1. x \in Nat
        BY OnDisk
      <4>2. CASE off - 1 >= dst
        <5>1. i < dst /\ i + len - 1 >= dst
          BY <2>9, <4>2
        <5> QED BY <2>10, <2>11, <5>1
      <4>3. CASE ~(off - 1 >= dst)
        <5>1. x < dst
          BY <2>9, <3>1, <4>1, <4>3
        <5> QED BY <2>10, <5>1
      <4> QED BY <4>2, <4>3
    <3>2. r = a
      BY <2>8, <2>11
    <3> QED BY <2>2, <2>10, <2>11, <3>1, <3>2
  <2>12. CASE a.ok
    <3>1. r.ok /\ r.fs = e
      BY <2>8, <2>12 DEF Ok
    <3>2. d.disk = a.fs.disk
      BY <2>6, TreeFields
    <3>3. PICK y : y = [x \in Disk |-> IF x >= i /\ x < i + n THEN ZeroBlock ELSE d.disk[x]]
      OBVIOUS
    <3>4. e.disk = y
      <4>1. e = [d EXCEPT !.disk = y]
        BY <2>7, <3>3 DEF Discard
      <4>2. PICK o, v : o = off + n /\ v = a.fs.disk
        OBVIOUS
      <4>3. [TreeOf(v, o, g, F) EXCEPT !.disk = y] = TreeOf(y, o, g, F)
        BY DEF TreeOf
      <4>4. e = TreeOf(y, o, g, F)
        BY <2>6, <4>1, <4>2, <4>3
      <4> QED BY <4>4, TreeFields
    <3>5. DiskOK(e)
      <4>1. \A x \in Disk : y[x] \in BlockType
        BY <2>10, <3>2, <3>3, ZeroBlockType DEF DiskOK
      <4> QED BY <3>3, <3>4, <4>1 DEF DiskOK
    <3>6. ASSUME NEW x \in Disk
          PROVE  /\ x < i => e.disk[x] = s.disk[x]
                 /\ x >= i /\ x < i + n => e.disk[x] = ZeroBlock
                 /\ x >= i + n /\ x < off + n => e.disk[x] = s.disk[x - n]
                 /\ x >= off + n => e.disk[x] = s.disk[x]
      <4>1. x \in Nat
        BY OnDisk
      <4>2. e.disk[x] = IF x >= i /\ x < i + n THEN ZeroBlock ELSE a.fs.disk[x]
        BY <3>2, <3>3, <3>4
      <4>3. a.fs.disk[x] = IF x >= dst /\ x < dst + len THEN s.disk[x - dst + i] ELSE s.disk[x]
        BY <2>10, <2>12
      <4>4. x - dst + i = x - n /\ dst + len = off + n
        BY <2>9, <4>1
      <4>5. x < i => x < i + n /\ ~(x >= i) /\ ~(x >= dst)
        BY <2>9, <4>1
      <4>6. x >= off + n => ~(x < i + n) /\ ~(x < dst + len)
        BY <1>2, <4>1, <4>4
      <4>7. x >= i + n <=> ~(x < i + n)
        BY <4>1
      <4> QED BY <2>9, <4>2, <4>3, <4>4, <4>5, <4>6, <4>7
    <3>7. OpenedUp(s, e, i, n, off)
      BY <3>6 DEF OpenedUp
    <3> QED BY <3>1, <3>5, <3>7
  <2> QED BY <2>11, <2>12
<1>3. CASE ~(i < off)
  <2>1. i = off
    BY <1>3
  <2>2. PICK h, o : h = s.gap \cup i..(i + n - 1) /\ o = i + n
    OBVIOUS
  <2>3. PICK d : d = [s EXCEPT !.data_offset = o, !.gap = h]
    OBVIOUS
  <2>4. d = TreeOf(s.disk, o, h, s.file)
    BY <1>1, <2>3, TreeTwoThree DEF SetTwo
  <2>5. PICK e : e = Discard(d, i, n)
    OBVIOUS
  <2>6. r = Ok(e)
    BY <1>3, <2>2, <2>3, <2>5 DEF AddGap
  <2>7. PICK y : y = [x \in Disk |-> IF x >= i /\ x < i + n THEN ZeroBlock ELSE d.disk[x]]
    OBVIOUS
  <2>8. e.disk = y /\ d.disk = s.disk
    <3>1. e = [d EXCEPT !.disk = y]
      BY <2>5, <2>7 DEF Discard
    <3>2. PICK v, w : v = s.disk /\ w = s.file
      OBVIOUS
    <3>3. [TreeOf(v, o, h, w) EXCEPT !.disk = y] = TreeOf(y, o, h, w)
      BY DEF TreeOf
    <3>4. e = TreeOf(y, o, h, w)
      BY <2>4, <3>1, <3>2, <3>3
    <3> QED BY <2>4, <3>4, TreeFields
  <2>9. DiskOK(e)
    <3>1. \A x \in Disk : y[x] \in BlockType
      BY <1>1, <2>7, <2>8, ZeroBlockType DEF DiskOK
    <3> QED BY <2>7, <2>8, <3>1 DEF DiskOK
  <2>10. ASSUME NEW x \in Disk
         PROVE  /\ x < i => e.disk[x] = s.disk[x]
                /\ x >= i /\ x < i + n => e.disk[x] = ZeroBlock
                /\ x >= i + n /\ x < off + n => e.disk[x] = s.disk[x - n]
                /\ x >= off + n => e.disk[x] = s.disk[x]
    <3>1. x \in Nat
      BY OnDisk
    <3>2. e.disk[x] = IF x >= i /\ x < i + n THEN ZeroBlock ELSE s.disk[x]
      BY <2>7, <2>8
    <3>3. x < i => ~(x >= i)
      BY <3>1
    <3>4. x >= off + n => ~(x < i + n)
      BY <2>1, <3>1
    <3> QED BY <2>1, <3>2, <3>3, <3>4
  <2>11. OpenedUp(s, e, i, n, off)
    BY <2>10 DEF OpenedUp
  <2> QED BY <2>6, <2>9, <2>11 DEF Ok
<1> QED BY <1>2, <1>3

\* fstree_add_gap takes the bytes of every file along.
LEMMA GapCarries ==
  ASSUME NEW s, Sound(s), NEW t, NEW i \in Nat, NEW n \in Nat \ {0}, GapSpot(s, i), i <= s.data_offset,
         GapAt(s, t, i, n), Room(t), SameLists(t, s), OpenedUp(s, t, i, n, s.data_offset)
  PROVE  /\ \A f \in Files : Carries(s, t, f)
         /\ Clean(s) => Clean(t)
<1>1. PICK off \in Nat, top \in Nat : off = s.data_offset /\ top = MaxBlocks
  BY FSTreeAssumption DEF Sound, Spots
<1>2. /\ t.data_offset = off + n /\ t.gap = WithGap(s, i, n)
      /\ \A f \in Files : /\ Run(t, f) = Run(s, f)
                          /\ Start(t, f) = IF i >= off THEN Start(s, f)
                                           ELSE IF Start(s, f) >= i THEN Start(s, f) + n ELSE Start(s, f)
  BY <1>1 DEF GapAt
<1>3. \A x \in Disk :
        /\ x < i => t.disk[x] = s.disk[x]
        /\ x >= i /\ x < i + n => t.disk[x] = ZeroBlock
        /\ x >= i + n /\ x < off + n => t.disk[x] = s.disk[x - n]
        /\ x >= off + n => t.disk[x] = s.disk[x]
  BY <1>1 DEF OpenedUp
<1>4. ASSUME NEW f \in Files PROVE Carries(s, t, f)
  <2>1. PICK sf \in Nat, rf \in Nat :
          sf = Start(s, f) /\ rf = Run(s, f) /\ (rf # 0 => sf + rf <= off)
    BY <1>1, <1>4, SoundNumbers
  <2>2. t.file[f].size = s.file[f].size /\ t.file[f].sparse = s.file[f].sparse
    BY <1>4 DEF SameLists
  <2>3. ASSUME NEW k \in Nat, k < rf
        PROVE  Start(t, f) + k \in Disk /\ t.disk[Start(t, f) + k] = s.disk[sf + k]
    <3>1. rf # 0 /\ sf + rf <= off /\ Run(t, f) # 0
      BY <1>2, <1>4, <2>1, <2>3
    <3>2. off + n <= top
      BY <1>1, <1>2, <1>4, <3>1 DEF Room
    <3>3. ~(i >= off)
      <4>1. CASE i = 0
        BY <3>1, <4>1
      <4>2. CASE i # 0
        <5>1. PICK g \in Files : Run(s, g) # 0 /\ i = Start(s, g)
          BY <4>2 DEF GapSpot
        <5>2. Run(s, g) \in Nat /\ i + Run(s, g) <= off
          BY <1>1, <5>1, SoundNumbers
        <5> QED BY <5>1, <5>2
      <4> QED BY <4>1, <4>2
    <3>4. CASE sf >= i
      <4>1. Start(t, f) = sf + n
        BY <1>2, <1>4, <2>1, <3>3, <3>4
      <4>2. PICK x \in Nat : x = sf + n + k /\ x - n = sf + k
        OBVIOUS
      <4>3. x >= i + n /\ x < off + n /\ x < top
        <5>1. sf + k < off
          BY <2>3, <3>1
        <5> QED BY <3>2, <3>4, <4>2, <5>1
      <4>4. x \in Disk
        BY <1>1, <4>3, OnDisk
      <4>5. t.disk[x] = s.disk[x - n]
        BY <1>3, <4>3, <4>4
      <4> QED BY <4>1, <4>2, <4>4, <4>5
    <3>5. CASE ~(sf >= i)
      <4>1. Start(t, f) = sf
        BY <1>2, <1>4, <2>1, <3>3, <3>5
      <4>2. sf + rf <= i
        <5>1. PICK g \in Files : Run(s, g) # 0 /\ i = Start(s, g)
          BY <3>5, <2>1 DEF GapSpot
        <5>2. g # f
          BY <2>1, <3>5, <5>1
        <5>3. sf + rf <= i \/ i + Run(s, g) <= sf
          BY <1>4, <2>1, <3>1, <5>1, <5>2 DEF Sound, Apart
        <5>4. Run(s, g) \in Nat
          BY SoundNumbers
        <5> QED BY <3>5, <5>3, <5>4
      <4>3. PICK x \in Nat : x = sf + k
        OBVIOUS
      <4>4. x < i /\ x < top
        <5>1. x < i
          BY <2>3, <4>2, <4>3
        <5> QED BY <1>1, <3>2, <5>1
      <4>5. x \in Disk
        BY <1>1, <4>4, OnDisk
      <4> QED BY <1>3, <4>1, <4>3, <4>4, <4>5
    <3> QED BY <3>4, <3>5
  <2> QED BY <2>1, <2>2, <2>3 DEF Carries
<1>5. Clean(s) => Clean(t)
  <2> SUFFICES ASSUME Clean(s), NEW x \in Disk, x >= t.data_offset \/ x \in t.gap
               PROVE  t.disk[x] = ZeroBlock
    BY DEF Clean
  <2>1. x \in Nat
    BY OnDisk
  <2>2. CASE x >= off + n
    <3>1. x >= s.data_offset
      BY <1>1, <2>1, <2>2
    <3> QED BY <1>3, <2>2, <3>1 DEF Clean
  <2>3. CASE x < i /\ x \in s.gap
    BY <1>3, <2>3 DEF Clean
  <2>4. CASE x >= i /\ x < i + n
    BY <1>3, <2>4
  <2>5. CASE x - n >= i /\ x - n \in s.gap
    <3>1. x - n < off /\ x - n \in Nat
      BY <1>1, <2>5 DEF Sound, Spots
    <3>2. x >= i + n /\ x < off + n
      BY <2>1, <2>5, <3>1
    <3>3. x - n \in Disk
      <4>1. x < MaxBlocks /\ MaxBlocks \in Nat
        BY OnDisk, FSTreeAssumption
      <4>2. x - n < MaxBlocks
        BY <2>1, <4>1
      <4> QED BY <3>1, <4>2, OnDisk
    <3> QED BY <1>3, <2>5, <3>2, <3>3 DEF Clean
  <2> QED BY <1>2, <2>2, <2>3, <2>4, <2>5 DEF WithGap
<1> QED BY <1>4, <1>5

\* The contents of all files, and the zeros around them, come through fstree_add_gap.
LEMMA GapDoes ==
  ASSUME NEW s, Sound(s), NEW i \in Nat, NEW n \in Nat \ {0}, n <= MaxGaps, GapSpot(s, i),
         NEW r, r = AddGap(s, i, n)
  PROVE  /\ DiskOK(r.fs) /\ \A f \in Files : Carries(s, r.fs, f)
         /\ r.ok => (Clean(s) => Clean(r.fs))
<1>1. PICK off \in Nat : off = s.data_offset
  BY DEF Sound, Spots
<1>2. i <= off
  <2>1. CASE i = 0
    BY <2>1
  <2>2. CASE i # 0
    <3>1. PICK g \in Files : Run(s, g) # 0 /\ i = Start(s, g)
      BY <2>2 DEF GapSpot
    <3>2. Run(s, g) \in Nat /\ i + Run(s, g) <= off
      BY <1>1, <3>1, SoundNumbers
    <3> QED BY <3>2
  <2> QED BY <2>1, <2>2
<1>3. /\ DiskOK(r.fs)
      /\ r.ok => OpenedUp(s, r.fs, i, n, off)
      /\ ~r.ok => SameAccount(r.fs, s) /\ \A x \in Disk : x < off => r.fs.disk[x] = s.disk[x]
  BY <1>1, <1>2, GapMoves
<1>4. CASE r.ok
  <2>1. TreeGood(s) /\ Spots(s) /\ Room(s) /\ Shape(s)
    BY GoodShape DEF Sound
  <2>2. GapAt(s, r.fs, i, n) /\ Room(r.fs)
    BY <1>4, <2>1, GapLayout
  <2>3. SameLists(r.fs, s)
    BY <2>1, AddGapSame
  <2>4. i <= s.data_offset /\ OpenedUp(s, r.fs, i, n, s.data_offset)
    BY <1>1, <1>2, <1>3, <1>4
  <2>5. (\A f \in Files : Carries(s, r.fs, f)) /\ (Clean(s) => Clean(r.fs))
    BY <2>2, <2>3, <2>4, GapCarries
  <2> QED BY <1>3, <2>5
<1>5. CASE ~r.ok
  BY <1>1, <1>3, <1>5, CarriesUsed
<1> QED BY <1>4, <1>5

-----------------------------------------------------------------------------
(***************************************************************************)
(* From the bytes of a block to the bytes of a file.                       *)
(***************************************************************************)
Byte(s, n, p) == ByteAt(s, n, p \div BlockSize, p % BlockSize)

\* All blocks of the run of file n are on the volume.
OnVolume(s, n) == \A k \in Nat : k < Run(s, n) => Start(s, n) + k \in Disk

\* The runs of a sound tree are on the volume.
LEMMA SoundOnVolume ==
  ASSUME NEW s, Sound(s), NEW n \in Files
  PROVE  OnVolume(s, n)
<1> SUFFICES ASSUME NEW k \in Nat, k < Run(s, n) PROVE Start(s, n) + k \in Disk
  BY DEF OnVolume
<1>1. PICK st \in Nat, run \in Nat, off \in Nat, top \in Nat :
        /\ st = Start(s, n) /\ run = Run(s, n) /\ off = s.data_offset /\ top = MaxBlocks
        /\ run # 0 => st + run <= off /\ off <= top
  BY SoundNumbers, FSTreeAssumption
<1>2. st + k \in Nat /\ st + k < top
  BY <1>1
<1> QED BY <1>1, <1>2, OnDisk

\* So are the runs of a file that was taken along.
LEMMA CarriesOnVolume ==
  ASSUME NEW s, TreeGood(s), NEW t, NEW n \in Files, Carries(s, t, n)
  PROVE  OnVolume(t, n)
<1>1. Run(t, n) = Run(s, n)
  BY CarriesRun
<1> QED BY <1>1 DEF Carries, OnVolume

\* fstree_file_read finds the bytes of a file by counting the blocks that are
\* stored in front of them.
LEMMA ReadBytes ==
  ASSUME NEW s, TreeGood(s), NEW n \in Files, OnVolume(s, n), NEW z \in Nat, z = s.file[n].size
  PROVE  Read(s, n) = [p \in 1..z |-> Byte(s, n, p - 1)]
<1>1. ASSUME NEW p \in 1..z PROVE ReadByte(s, s.file[n], p - 1) = Byte(s, n, p - 1)
  <2>1. PICK q \in Nat : q = p - 1 /\ q < z
    OBVIOUS
  <2>2. PICK i \in Nat : i = q \div BlockSize /\ i < BlocksFor(z)
    BY <2>1, BlocksForFacts
  <2>3. PICK f, l : f = s.file[n] /\ l = f.sparse
    OBVIOUS
  <2>4. ListOK(l)
    BY <2>3 DEF TreeGood, FileGood
  <2>5. CASE IsSparse(l, i)
    BY <2>1, <2>2, <2>3, <2>5 DEF ReadByte, Byte, ByteAt
  <2>6. CASE ~IsSparse(l, i)
    <3>1. i - Skipped(f, i) = Rank(l, i)
      BY <2>3, <2>4, <2>6, SkippedRank
    <3>2. Rank(l, i) \in Nat /\ Rank(l, i) < Run(s, n)
      BY <2>2, <2>3, <2>6, RankEnd
    <3>3. Start(s, n) + Rank(l, i) \in Disk
      BY <3>2 DEF OnVolume
    <3>4. f.start_index + i - Skipped(f, i) = Start(s, n) + Rank(l, i)
      BY <2>3, <3>1 DEF Start
    <3>5. ReadByte(s, f, q) = s.disk[Start(s, n) + Rank(l, i)][q % BlockSize]
      BY <2>2, <2>3, <2>6, <3>3, <3>4 DEF ReadByte
    <3>6. Byte(s, n, q) = s.disk[Start(s, n) + Rank(l, i)][q % BlockSize]
      BY <2>2, <2>3, <2>6 DEF Byte, ByteAt
    <3> QED BY <2>1, <2>3, <3>5, <3>6
  <2> QED BY <2>5, <2>6
<1> QED BY <1>1 DEF Read

\* A file that is taken along keeps its bytes and its padding.
LEMMA CarriesByte ==
  ASSUME NEW s, TreeGood(s), NEW t, NEW n \in Files, Carries(s, t, n)
  PROVE  /\ \A p \in Nat : p < s.file[n].size => Byte(t, n, p) = Byte(s, n, p)
         /\ Padded(s, n) => Padded(t, n)
         /\ t.file[n].size = s.file[n].size
<1>1. t.file[n].size = s.file[n].size /\ s.file[n].size \in Nat
  BY DEF Carries, TreeGood, FileGood
<1>2. ASSUME NEW p \in Nat, p < s.file[n].size PROVE Byte(t, n, p) = Byte(s, n, p)
  <2>1. p \div BlockSize \in Nat /\ p \div BlockSize < BlocksFor(s.file[n].size)
    BY <1>1, <1>2, BlocksForFacts
  <2> QED BY <2>1, CarriesBytes DEF Byte
<1>3. ASSUME Padded(s, n) PROVE Padded(t, n)
  <2> SUFFICES ASSUME NEW x \in Nat, NEW j \in InBlk, x < BlocksFor(s.file[n].size),
                      BlockSize * x + j >= s.file[n].size
               PROVE  ByteAt(t, n, x, j) = 0
    BY <1>1 DEF Padded
  <2>1. ByteAt(s, n, x, j) = 0
    BY <1>3 DEF Padded
  <2> QED BY <2>1, CarriesBytes
<1> QED BY <1>1, <1>2, <1>3

\* The file holds the bytes of c.
Holds(s, n, c) ==
  /\ c \in Seq(Int) /\ Len(c) = s.file[n].size
  /\ \A p \in Nat : p < Len(c) => c[p + 1] = Byte(s, n, p)

\* Such a file reads as c.
LEMMA HoldsRead ==
  ASSUME NEW s, TreeGood(s), NEW n \in Files, OnVolume(s, n), NEW c, Holds(s, n, c)
  PROVE  Read(s, n) = c
<1>1. PICK z \in Nat : z = s.file[n].size /\ z = Len(c)
  BY DEF Holds, TreeGood, FileGood
<1>2. Read(s, n) = [p \in 1..z |-> Byte(s, n, p - 1)]
  BY <1>1, ReadBytes
<1>3. \A p \in 1..z : Byte(s, n, p - 1) = c[p]
  <2> SUFFICES ASSUME NEW p \in 1..z PROVE Byte(s, n, p - 1) = c[p]
    OBVIOUS
  <2>1. PICK q \in Nat : q = p - 1 /\ q < z /\ q + 1 = p
    OBVIOUS
  <2>2. c[q + 1] = Byte(s, n, q)
    BY <1>1, <2>1 DEF Holds
  <2> QED BY <2>1, <2>2
<1>4. c = [p \in 1..z |-> c[p]]
  BY <1>1 DEF Holds
<1> QED BY <1>2, <1>3, <1>4

\* A file whose blocks have only been moved still holds c.
LEMMA CarriesHolds ==
  ASSUME NEW s, TreeGood(s), NEW t, NEW n \in Files, Carries(s, t, n), NEW c, Holds(s, n, c)
  PROVE  Holds(t, n, c)
<1>1. t.file[n].size = s.file[n].size /\ Len(c) = s.file[n].size /\ c \in Seq(Int)
  BY CarriesByte DEF Holds
<1>2. ASSUME NEW p \in Nat, p < Len(c) PROVE c[p + 1] = Byte(t, n, p)
  <2>1. Byte(t, n, p) = Byte(s, n, p)
    BY <1>1, <1>2, CarriesByte
  <2> QED BY <1>2, <2>1 DEF Holds
<1> QED BY <1>1, <1>2 DEF Holds

\* The position in the file of byte m of block i.
IsPlace(g, i, m) == g = BlockSize * i + m

\* Byte p of the file after data was put to byte g.
PutHere(s, t, n, g, data, p) ==
  /\ p >= g /\ p < g + Len(data) => Byte(t, n, p) = data[(p - g) + 1]
  /\ ~(p >= g /\ p < g + Len(data)) /\ p < s.file[n].size => Byte(t, n, p) = Byte(s, n, p)

\* Where the bytes of one block end up in the file.
LEMMA PutsHere ==
  ASSUME NEW s, TreeGood(s), NEW t, NEW n \in Files, NEW y \in Nat, NEW i \in Nat, NEW m \in Nat,
         NEW data \in Seq(Int), m + Len(data) <= BlockSize, Puts(s, t, n, y, i, m, data),
         NEW g \in Nat, IsPlace(g, i, m), NEW p \in Nat, p < y
  PROVE  PutHere(s, t, n, g, data, p)
<1>1. PICK e \in Nat, d \in Nat \ {0}, len \in Nat : e = BlockSize * i /\ d = BlockSize /\ len = Len(data)
  <2>1. BlockSize \in Nat \ {0} /\ Len(data) \in Nat
    BY FSTreeAssumption
  <2>2. BlockSize * i \in Nat
    BY <2>1
  <2> QED BY <2>1, <2>2
<1>2. g = e + m
  BY <1>1 DEF IsPlace
<1>3. PICK x \in Nat, j \in InBlk : x = p \div BlockSize /\ j = p % BlockSize /\ p = BlockSize * x + j
  BY Places
<1>4. j \in Nat /\ j < d
  BY <1>1 DEF InBlk
<1>5. x < BlocksFor(y) /\ (p < s.file[n].size => x < BlocksFor(s.file[n].size))
  <2>1. s.file[n].size \in Nat
    BY DEF TreeGood, FileGood
  <2> QED BY <1>3, <2>1, BlocksForFacts
<1>6. Byte(t, n, p) = ByteAt(t, n, x, j) /\ Byte(s, n, p) = ByteAt(s, n, x, j)
  BY <1>3 DEF Byte
<1>7. ByteAt(t, n, x, j) = IF x = i /\ j >= m /\ j < m + len THEN data[j - m + 1]
                           ELSE IF x < BlocksFor(s.file[n].size) THEN ByteAt(s, n, x, j) ELSE 0
  BY <1>1, <1>5 DEF Puts
<1>8. x = i => p = e + j
  BY <1>1, <1>3
<1>9. p >= g /\ p < g + len => x = i
  <2> SUFFICES ASSUME p >= g, p < g + len PROVE x = i
    OBVIOUS
  <2>1. PICK k \in Nat : k = p - e /\ k < d /\ p = e + k
    BY <1>2, <1>1
  <2>2. k \in InBlk
    BY <1>1, <2>1 DEF InBlk
  <2>3. p \div BlockSize = i
    BY <1>1, <2>1, <2>2, PlaceOf
  <2> QED BY <1>3, <2>3
<1>10. (p >= g /\ p < g + len) <=> (x = i /\ j >= m /\ j < m + len)
  <2>1. g = e + m
    BY <1>2
  <2>2. CASE x = i
    BY <1>4, <1>8, <2>1, <2>2
  <2>3. CASE x # i
    BY <1>9, <2>3
  <2> QED BY <2>2, <2>3
<1>11. CASE p >= g /\ p < g + len
  <2>1. x = i /\ j >= m /\ j < m + len
    BY <1>10, <1>11
  <2>2. j - m + 1 = (p - g) + 1
    BY <1>2, <1>4, <1>8, <2>1
  <2> QED BY <1>1, <1>6, <1>7, <1>11, <2>1, <2>2 DEF PutHere
<1>12. CASE ~(p >= g /\ p < g + len)
  <2>1. ~(x = i /\ j >= m /\ j < m + len)
    BY <1>10, <1>12
  <2> QED BY <1>1, <1>5, <1>6, <1>7, <1>12, <2>1 DEF PutHere
<1> QED BY <1>11, <1>12 DEF PutHere

\* What lies behind the end of the file stays zero.
LEMMA PutPadded ==
  ASSUME NEW s, TreeGood(s), NEW t, NEW n \in Files, NEW y \in Nat, NEW i \in Nat, NEW m \in Nat,
         NEW data \in Seq(Int), Puts(s, t, n, y, i, m, data), Padded(s, n),
         y >= s.file[n].size, y >= BlockSize * i + m + Len(data)
  PROVE  Padded(t, n)
<1>1. PICK e \in Nat, d \in Nat \ {0}, len \in Nat : e = BlockSize * i /\ d = BlockSize /\ len = Len(data)
  <2>1. BlockSize \in Nat \ {0} /\ Len(data) \in Nat
    BY FSTreeAssumption
  <2>2. BlockSize * i \in Nat
    BY <2>1
  <2> QED BY <2>1, <2>2
<1>2. t.file[n].size = y /\ s.file[n].size \in Nat
  BY DEF Puts, TreeGood, FileGood
<1> SUFFICES ASSUME NEW x \in Nat, NEW j \in InBlk, x < BlocksFor(y), BlockSize * x + j >= y
             PROVE  ByteAt(t, n, x, j) = 0
  BY <1>2 DEF Padded
<1>3. j \in Nat /\ j < d
  BY <1>1 DEF InBlk
<1>4. ~(x = i /\ j >= m /\ j < m + len)
  BY <1>1, <1>3
<1>5. ByteAt(t, n, x, j) = IF x < BlocksFor(s.file[n].size) THEN ByteAt(s, n, x, j) ELSE 0
  BY <1>1, <1>4 DEF Puts
<1>6. BlockSize * x + j >= s.file[n].size
  <2>1. BlockSize * x \in Nat
    BY FSTreeAssumption
  <2> QED BY <1>2, <1>3, <2>1
<1>7. x < BlocksFor(s.file[n].size) => ByteAt(s, n, x, j) = 0
  BY <1>6 DEF Padded
<1> QED BY <1>5, <1>7

-----------------------------------------------------------------------------
(***************************************************************************)
(* The contents a file has when the call in progress returns, and what of  *)
(* it the file holds already.                                              *)
(***************************************************************************)
Whole(x) == NoSparse \/ x % BlockSize = 0

\* A buffer to append.
Piece(d) == d \in Seq(Int) /\ Len(d) # 0 /\ Whole(Len(d))

\* From byte z on, the contents c go on with d.
Goes(c, z, d) == \A k \in 1..Len(d) : c[z + k] = d[k]

\* What is still to be appended to the first z bytes.
Ahead(c, z, a) ==
  \/ a = <<>> /\ Len(c) = z
  \/ \E d : Piece(d) /\ a = <<d>> /\ Len(c) = z + Len(d) /\ Goes(c, z, d)
  \/ \E d, e : /\ Piece(d) /\ Piece(e) /\ a = <<d, e>> /\ Len(c) = z + Len(d) + Len(e)
               /\ Goes(c, z, d) /\ Goes(c, z + Len(d), e)

\* The buffers of a still have to be appended, and v still has to be written to o.
PartOf(s, n, c, a, o, v) ==
  /\ c \in Seq(Int) /\ v \in Seq(Int) /\ o \in Nat
  /\ v # <<>> => o + Len(v) <= s.file[n].size
  /\ Ahead(c, s.file[n].size, a)
  /\ \A p \in Nat : p < s.file[n].size =>
       c[p + 1] = IF p >= o /\ p < o + Len(v) THEN v[(p - o) + 1] ELSE Byte(s, n, p)

\* Nothing is left to do.
LEMMA HoldsPart ==
  ASSUME NEW s, NEW n, s.file[n].size \in Nat, NEW c
  PROVE  /\ Holds(s, n, c) => PartOf(s, n, c, <<>>, 0, <<>>)
         /\ \A o : PartOf(s, n, c, <<>>, o, <<>>) => Holds(s, n, c)
<1>1. ASSUME Holds(s, n, c) PROVE PartOf(s, n, c, <<>>, 0, <<>>)
  <2>1. c \in Seq(Int) /\ Len(c) = s.file[n].size
    BY <1>1 DEF Holds
  <2>2. Ahead(c, s.file[n].size, <<>>)
    BY <2>1 DEF Ahead
  <2>3. ASSUME NEW p \in Nat, p < s.file[n].size
        PROVE  c[p + 1] = IF p >= 0 /\ p < 0 + Len(<<>>) THEN <<>>[(p - 0) + 1] ELSE Byte(s, n, p)
    <3>1. c[p + 1] = Byte(s, n, p)
      BY <1>1, <2>1, <2>3 DEF Holds
    <3>2. ~(p < 0 + Len(<<>>))
      OBVIOUS
    <3> QED BY <3>1, <3>2
  <2> QED BY <2>1, <2>2, <2>3 DEF PartOf
<1>2. ASSUME NEW o, PartOf(s, n, c, <<>>, o, <<>>) PROVE Holds(s, n, c)
  <2>1. c \in Seq(Int) /\ o \in Nat /\ Ahead(c, s.file[n].size, <<>>)
    BY <1>2 DEF PartOf
  <2>2. Len(c) = s.file[n].size
    BY <2>1 DEF Ahead
  <2>3. ASSUME NEW p \in Nat, p < Len(c) PROVE c[p + 1] = Byte(s, n, p)
    <3>1. ~(p >= o /\ p < o + Len(<<>>))
      BY <2>1
    <3> QED BY <1>2, <2>2, <2>3, <3>1 DEF PartOf
  <2> QED BY <2>1, <2>2, <2>3 DEF Holds
<1> QED BY <1>1, <1>2

\* The items of two buffers in a row, and of a part of one.
LEMMA JoinItems ==
  ASSUME NEW c \in Seq(Int), NEW d \in Seq(Int), NEW y \in Nat, y = Len(c), NEW w \in Nat, w = Len(d)
  PROVE  /\ c \o d \in Seq(Int) /\ Len(c \o d) = y + w
         /\ \A k \in 1..y : (c \o d)[k] = c[k]
         /\ \A k \in 1..w : (c \o d)[y + k] = d[k]
  OBVIOUS

\* The two parts of a sequence cut after item m.
LEMMA CutItems ==
  ASSUME NEW d \in Seq(Int), NEW m \in Nat, NEW w \in Nat, w = Len(d), m <= w
  PROVE  /\ SubSeq(d, 1, m) \in Seq(Int) /\ Len(SubSeq(d, 1, m)) = m
         /\ \A k \in 1..m : SubSeq(d, 1, m)[k] = d[k]
         /\ SubSeq(d, m + 1, w) \in Seq(Int) /\ Len(SubSeq(d, m + 1, w)) = w - m
         /\ \A k \in 1..(w - m) : SubSeq(d, m + 1, w)[k] = d[m + k]
  OBVIOUS

\* Numbers of whole blocks.
LEMMA Multiples ==
  ASSUME NEW x \in Nat, NEW y \in Nat, x % BlockSize = 0, y % BlockSize = 0
  PROVE  /\ (x + y) % BlockSize = 0
         /\ y <= x => (x - y) % BlockSize = 0
         /\ y < x => y + BlockSize <= x
<1>1. PICK d \in Nat \ {0} : d = BlockSize
  BY FSTreeAssumption
<1>2. 0 \in InBlk
  BY <1>1 DEF InBlk
<1>3. PICK q \in Nat : x = BlockSize * q
  <2>1. x \div BlockSize \in Nat /\ x = BlockSize * (x \div BlockSize) + (x % BlockSize) /\ BlockSize * (x \div BlockSize) \in Nat
    BY Places
  <2> QED BY <2>1
<1>4. PICK r \in Nat : y = BlockSize * r
  <2>1. y \div BlockSize \in Nat /\ y = BlockSize * (y \div BlockSize) + (y % BlockSize) /\ BlockSize * (y \div BlockSize) \in Nat
    BY Places
  <2> QED BY <2>1
<1>5. x = d * q /\ y = d * r
  BY <1>1, <1>3, <1>4
<1>6. (x + y) % BlockSize = 0
  <2>1. PICK k \in Nat : k = q + r
    OBVIOUS
  <2>2. x + y = d * k
    BY <1>5, <2>1
  <2>3. x + y = BlockSize * k + 0
    BY <1>1, <2>2
  <2> QED BY <1>2, <2>1, <2>3, PlaceOf
<1>7. ASSUME y <= x PROVE (x - y) % BlockSize = 0
  <2>1. r <= q
    <3>1. d * r < d * q + d
      BY <1>5, <1>7
    <3> QED BY <3>1, Below
  <2>2. PICK k \in Nat : k = q - r
    BY <2>1
  <2>3. x - y = d * k
    BY <1>5, <2>2
  <2>4. x - y = BlockSize * k + 0
    BY <1>1, <2>3
  <2> QED BY <1>2, <2>2, <2>4, PlaceOf
<1>8. ASSUME y < x PROVE y + BlockSize <= x
  <2> SUFFICES ASSUME ~(y + d <= x) PROVE FALSE
    BY <1>1
  <2>1. q <= r
    <3>1. d * q < d * r + d
      BY <1>5
    <3> QED BY <3>1, Below
  <2>2. PICK k \in Nat : k = r - q
    BY <2>1
  <2>3. y = x + d * k
    BY <1>5, <2>2
  <2>4. d * k \in Nat
    OBVIOUS
  <2> QED BY <1>8, <2>3, <2>4
<1> QED BY <1>6, <1>7, <1>8

\* The first m bytes of the next buffer are done with.
AheadRest(a, m) ==
  IF SubSeq(Head(a), m + 1, Len(Head(a))) = <<>> THEN Tail(a)
  ELSE <<SubSeq(Head(a), m + 1, Len(Head(a)))>> \o Tail(a)

\* The first of the buffers ahead.
LEMMA AheadFirst ==
  ASSUME NEW c, NEW z \in Nat, NEW a, Ahead(c, z, a), a # <<>>
  PROVE  Piece(Head(a)) /\ Goes(c, z, Head(a)) /\ Len(c) >= z + Len(Head(a))
<1>1. CASE \E d : Piece(d) /\ a = <<d>> /\ Len(c) = z + Len(d) /\ Goes(c, z, d)
  <2>1. PICK d : Piece(d) /\ a = <<d>> /\ Len(c) = z + Len(d) /\ Goes(c, z, d)
    BY <1>1
  <2>2. Head(a) = d
    BY <2>1
  <2>3. Len(d) \in Nat
    BY <2>1 DEF Piece
  <2> QED BY <2>1, <2>2, <2>3
<1>2. CASE \E d, e : /\ Piece(d) /\ Piece(e) /\ a = <<d, e>> /\ Len(c) = z + Len(d) + Len(e)
                     /\ Goes(c, z, d) /\ Goes(c, z + Len(d), e)
  <2>1. PICK d, e : /\ Piece(d) /\ Piece(e) /\ a = <<d, e>> /\ Len(c) = z + Len(d) + Len(e)
                    /\ Goes(c, z, d) /\ Goes(c, z + Len(d), e)
    BY <1>2
  <2>2. Head(a) = d
    BY <2>1
  <2>3. Len(d) \in Nat /\ Len(e) \in Nat
    BY <2>1 DEF Piece
  <2> QED BY <2>1, <2>2, <2>3
<1> QED BY <1>1, <1>2 DEF Ahead

\* The first m items of a buffer, and the others.
FirstOnes(x, d, m) == x \in Seq(Int) /\ Len(x) = m /\ \A j \in 1..m : x[j] = d[j]
\* The items of d, which has w of them, from item m + 1 on.
OtherOnes(r, d, m, w) == r \in Seq(Int) /\ Len(r) = w - m /\ \A j \in 1..(w - m) : r[j] = d[m + j]

\* SubSeq gives them.
LEMMA CutParts ==
  ASSUME NEW d \in Seq(Int), NEW m \in Nat, m <= Len(d)
  PROVE  FirstOnes(SubSeq(d, 1, m), d, m) /\ OtherOnes(SubSeq(d, m + 1, Len(d)), d, m, Len(d))
<1>1. PICK w \in Nat : w = Len(d)
  OBVIOUS
<1>2. /\ SubSeq(d, 1, m) \in Seq(Int) /\ Len(SubSeq(d, 1, m)) = m
      /\ \A k \in 1..m : SubSeq(d, 1, m)[k] = d[k]
      /\ SubSeq(d, m + 1, w) \in Seq(Int) /\ Len(SubSeq(d, m + 1, w)) = w - m
      /\ \A k \in 1..(w - m) : SubSeq(d, m + 1, w)[k] = d[m + k]
  BY <1>1, CutItems
<1> QED BY <1>1, <1>2 DEF FirstOnes, OtherOnes

\* The bytes from o on that one iteration handles: up to the end of the block.
InOne(m, o, w) == m = Min({BlockSize - (o % BlockSize), w})

\* The number of bytes a turn handles fits both the block and the buffer.
LEMMA InOneFacts ==
  ASSUME NEW o \in Nat, NEW w \in Nat, NEW m, InOne(m, o, w), NEW b \in Nat, b = BlockSize,
         NEW k \in Nat, k = o % BlockSize, k < b
  PROVE  m \in Nat /\ m <= b - k /\ m <= w /\ m \in {b - k, w}
<1>1. b - k \in Nat /\ m = Min({b - k, w})
  BY DEF InOne
<1> QED BY <1>1, MinTwo

\* No byte and one block are whole.
LEMMA OneBlock == 0 % BlockSize = 0 /\ BlockSize % BlockSize = 0
<1>1. PICK b \in Nat \ {0} : b = BlockSize
  BY FSTreeAssumption
<1>2. 0 \in InBlk
  BY <1>1 DEF InBlk
<1>3. 0 = b * 0 + 0 /\ b = b * 1 + 0
  OBVIOUS
<1>4. 0 % BlockSize = 0
  BY <1>1, <1>2, <1>3, PlaceOf
<1>5. b % BlockSize = 0
  BY <1>1, <1>2, <1>3, PlaceOf
<1> QED BY <1>1, <1>4, <1>5

\* Byte o is byte k of block q, which starts at byte e.
Lies(o, q, k, e) == q = o \div BlockSize /\ k = o % BlockSize /\ e = BlockSize * q

\* Where position o is: offset k of block q, which starts at e.
LEMMA LiesIn ==
  ASSUME NEW o \in Nat
  PROVE  \E b \in Nat \ {0}, q \in Nat, k \in Nat, e \in Nat :
           b = BlockSize /\ Lies(o, q, k, e) /\ o = e + k /\ k < b
<1>1. PICK b \in Nat \ {0} : b = BlockSize
  BY FSTreeAssumption
<1>2. PICK q, k, e : q = o \div BlockSize /\ k = o % BlockSize /\ e = BlockSize * q
  OBVIOUS
<1>3. q \in Nat /\ k \in Nat /\ e \in Nat /\ o = e + k /\ k < b
  BY <1>1, <1>2, Places
<1> QED BY <1>1, <1>2, <1>3 DEF Lies

\* What is left of a buffer goes on where the part that is done with ends.
LEMMA GoesOn ==
  ASSUME NEW c, NEW z \in Nat, NEW d, Goes(c, z, d), NEW m \in Nat, NEW w \in Nat, m < w,
         Whole(w - m), Len(d) = w, NEW r, OtherOnes(r, d, m, w)
  PROVE  Piece(r) /\ Goes(c, z + m, r) /\ r # <<>>
<1>1. r \in Seq(Int) /\ Len(r) = w - m /\ \A k \in 1..(w - m) : r[k] = d[m + k]
  BY DEF OtherOnes
<1>2. ASSUME NEW k \in 1..(w - m) PROVE c[(z + m) + k] = r[k]
  <2>1. PICK j \in 1..w : j = m + k
    OBVIOUS
  <2>2. c[z + j] = d[j]
    BY <2>1 DEF Goes
  <2>3. z + j = (z + m) + k
    BY <2>1
  <2> QED BY <1>1, <2>1, <2>2, <2>3
<1>3. Goes(c, z + m, r)
  BY <1>1, <1>2 DEF Goes
<1>4. Len(r) # 0 /\ r # <<>>
  BY <1>1
<1> QED BY <1>1, <1>3, <1>4 DEF Piece

\* What is ahead when m bytes of the first buffer are appended.
LEMMA AheadNext ==
  ASSUME NEW c, NEW z \in Nat, NEW a, Ahead(c, z, a), a # <<>>, NEW m \in Nat, m <= Len(Head(a)),
         m < Len(Head(a)) => Whole(Len(Head(a)) - m)
  PROVE  Ahead(c, z + m, AheadRest(a, m))
<1>1. PICK h : h = Head(a)
  OBVIOUS
<1>2. Piece(h) /\ Goes(c, z, h)
  BY <1>1, AheadFirst
<1>3. PICK w \in Nat : w = Len(h) /\ h \in Seq(Int)
  BY <1>2 DEF Piece
<1>4. PICK r : r = SubSeq(h, m + 1, w)
  OBVIOUS
<1>5. AheadRest(a, m) = IF r = <<>> THEN Tail(a) ELSE <<r>> \o Tail(a)
  BY <1>1, <1>3, <1>4 DEF AheadRest
<1>6. OtherOnes(r, h, m, w) /\ m <= w
  BY <1>1, <1>3, <1>4, CutParts
<1>7. Len(r) = w - m /\ r \in Seq(Int)
  BY <1>6 DEF OtherOnes
<1>8. m < w => Piece(r) /\ Goes(c, z + m, r) /\ r # <<>>
  <2> SUFFICES ASSUME m < w PROVE Piece(r) /\ Goes(c, z + m, r) /\ r # <<>>
    OBVIOUS
  <2>1. Whole(w - m) /\ Len(h) = w
    BY <1>1, <1>3
  <2> QED BY <1>2, <1>6, <2>1, GoesOn
<1>9. ~(m < w) => r = <<>> /\ m = w
  BY <1>7
<1>10. CASE \E d : Piece(d) /\ a = <<d>> /\ Len(c) = z + Len(d) /\ Goes(c, z, d)
  <2>1. PICK d : Piece(d) /\ a = <<d>> /\ Len(c) = z + Len(d) /\ Goes(c, z, d)
    BY <1>10
  <2>2. d = h /\ Tail(a) = <<>>
    BY <1>1, <2>1
  <2>3. Len(c) = z + w
    BY <1>3, <2>1, <2>2
  <2>4. CASE m < w
    <3>1. AheadRest(a, m) = <<r>>
      BY <1>5, <1>8, <2>2, <2>4, Joined
    <3>2. Len(c) = (z + m) + Len(r)
      BY <1>7, <2>3
    <3> QED BY <1>8, <2>4, <3>1, <3>2 DEF Ahead
  <2>5. CASE ~(m < w)
    <3>1. AheadRest(a, m) = <<>>
      BY <1>5, <1>9, <2>2, <2>5
    <3>2. Len(c) = z + m
      BY <1>9, <2>3, <2>5
    <3> QED BY <3>1, <3>2 DEF Ahead
  <2> QED BY <2>4, <2>5
<1>11. CASE \E d, e : /\ Piece(d) /\ Piece(e) /\ a = <<d, e>> /\ Len(c) = z + Len(d) + Len(e)
                      /\ Goes(c, z, d) /\ Goes(c, z + Len(d), e)
  <2>1. PICK d, e : /\ Piece(d) /\ Piece(e) /\ a = <<d, e>> /\ Len(c) = z + Len(d) + Len(e)
                    /\ Goes(c, z, d) /\ Goes(c, z + Len(d), e)
    BY <1>11
  <2>2. d = h /\ Tail(a) = <<e>>
    BY <1>1, <2>1
  <2>3. PICK u \in Nat : u = Len(e) /\ Len(c) = z + w + u /\ Goes(c, z + w, e)
    BY <1>3, <2>1, <2>2 DEF Piece
  <2>4. CASE m < w
    <3>1. AheadRest(a, m) = <<r, e>>
      BY <1>5, <1>8, <2>2, <2>4, Joined
    <3>2. Len(c) = (z + m) + Len(r) + Len(e) /\ (z + m) + Len(r) = z + w
      BY <1>7, <2>3
    <3>3. Goes(c, (z + m) + Len(r), e)
      BY <2>3, <3>2
    <3> QED BY <1>8, <2>1, <2>4, <3>1, <3>2, <3>3 DEF Ahead
  <2>5. CASE ~(m < w)
    <3>1. AheadRest(a, m) = <<e>> /\ m = w
      BY <1>5, <1>9, <2>2, <2>5
    <3>2. Len(c) = (z + m) + Len(e) /\ Goes(c, z + m, e)
      BY <2>3, <3>1
    <3> QED BY <2>1, <3>1, <3>2 DEF Ahead
  <2> QED BY <2>4, <2>5
<1> QED BY <1>10, <1>11 DEF Ahead

\* One iteration of fstree_file_append does its part.
LEMMA AppendPart ==
  ASSUME NEW s, TreeGood(s), NEW n \in Files, NEW z \in Nat, z = s.file[n].size, Whole(z),
         NEW c, NEW a, NEW o \in Nat, NEW v, PartOf(s, n, c, a, o, v), a # <<>>,
         NEW m \in Nat, InOne(m, z, Len(Head(a))),
         NEW t, Puts(s, t, n, z + m, z \div BlockSize, z % BlockSize, SubSeq(Head(a), 1, m))
  PROVE  PartOf(t, n, c, AheadRest(a, m), o, v) /\ Whole(z + m)
<1>1. /\ c \in Seq(Int) /\ v \in Seq(Int) /\ o \in Nat /\ Ahead(c, z, a)
      /\ v # <<>> => o + Len(v) <= z
      /\ \A p \in Nat : p < z =>
           c[p + 1] = IF p >= o /\ p < o + Len(v) THEN v[(p - o) + 1] ELSE Byte(s, n, p)
  BY DEF PartOf
<1>2. PICK h : h = Head(a)
  OBVIOUS
<1>3. Piece(h) /\ Goes(c, z, h) /\ Len(c) >= z + Len(h)
  BY <1>1, <1>2, AheadFirst
<1>4. PICK w \in Nat \ {0} : w = Len(h) /\ h \in Seq(Int) /\ Whole(w)
  BY <1>3 DEF Piece
<1>5. PICK b \in Nat \ {0}, q \in Nat, k \in Nat, e \in Nat :
        b = BlockSize /\ Lies(z, q, k, e) /\ z = e + k /\ k < b
  BY LiesIn
<1>6. m \in Nat /\ m <= b - k /\ m <= w /\ m \in {b - k, w}
  <2>1. InOne(m, z, w) /\ w \in Nat
    BY <1>2, <1>4
  <2>2. k = z % BlockSize
    BY <1>5 DEF Lies
  <2> QED BY <1>5, <2>1, <2>2, InOneFacts
<1>7. Whole(z + m) /\ (m < w => Whole(w - m))
  <2>1. CASE NoSparse
    BY <2>1 DEF Whole
  <2>2. CASE ~NoSparse
    <3>1. z % BlockSize = 0 /\ w % BlockSize = 0 /\ k = 0
      BY <1>4, <1>5, <2>2 DEF Whole, Lies
    <3>2. 0 % BlockSize = 0 /\ b % BlockSize = 0
      BY <1>5, OneBlock
    <3>3. 0 + BlockSize <= w
      <4>1. 0 < w
        OBVIOUS
      <4> QED BY <3>1, <3>2, <4>1, Multiples
    <3>4. m = b
      BY <1>5, <1>6, <3>1, <3>3
    <3>5. (z + m) % BlockSize = 0
      BY <3>1, <3>2, <3>4, Multiples
    <3>6. (w - m) % BlockSize = 0
      BY <1>6, <3>1, <3>2, <3>4, Multiples
    <3> QED BY <3>5, <3>6 DEF Whole
  <2> QED BY <2>1, <2>2
<1>8. Ahead(c, z + m, AheadRest(a, m))
  BY <1>1, <1>2, <1>4, <1>6, <1>7, AheadNext
<1>9. PICK x : x = SubSeq(h, 1, m)
  OBVIOUS
<1>10. x \in Seq(Int) /\ Len(x) = m /\ \A j \in 1..m : x[j] = h[j]
  <2>1. FirstOnes(x, h, m)
    BY <1>4, <1>6, <1>9, CutParts
  <2> QED BY <2>1 DEF FirstOnes
<1>11. Puts(s, t, n, z + m, q, k, x)
  <2>1. q = z \div BlockSize /\ k = z % BlockSize
    BY <1>5 DEF Lies
  <2> QED BY <1>2, <1>9, <2>1
<1>12. t.file[n].size = z + m
  BY <1>11 DEF Puts
<1>13. ASSUME NEW p \in Nat, p < z + m
       PROVE  c[p + 1] = IF p >= o /\ p < o + Len(v) THEN v[(p - o) + 1] ELSE Byte(t, n, p)
  <2>1. /\ p >= z /\ p < z + Len(x) => Byte(t, n, p) = x[(p - z) + 1]
        /\ ~(p >= z /\ p < z + Len(x)) /\ p < z => Byte(t, n, p) = Byte(s, n, p)
    <3>1. k + Len(x) <= BlockSize /\ z + m \in Nat
      <4>1. k + m <= b /\ z + m \in Nat
        BY <1>5, <1>6
      <4>2. Len(x) = m
        BY <1>10
      <4>3. b = BlockSize
        BY <1>5
      <4> QED BY <4>1, <4>2, <4>3
    <3>2. IsPlace(z, q, k)
      BY <1>5 DEF Lies, IsPlace
    <3>3. PutHere(s, t, n, z, x, p)
      BY <1>10, <1>11, <1>13, <3>1, <3>2, PutsHere
    <3> QED BY <3>3 DEF PutHere
  <2>2. CASE p < z
    <3>1. ~(p >= z)
      BY <2>2
    <3>2. Byte(t, n, p) = Byte(s, n, p)
      BY <2>1, <2>2, <3>1
    <3> QED BY <1>1, <2>2, <3>2
  <2>3. CASE ~(p < z)
    <3>1. PICK j \in 1..m : j = (p - z) + 1 /\ p + 1 = z + j
      BY <1>13, <2>3
    <3>2. Byte(t, n, p) = x[j]
      BY <1>10, <1>13, <2>1, <2>3, <3>1
    <3>3. c[z + j] = h[j]
      <4>1. j \in 1..Len(h)
        BY <1>4, <1>6, <3>1
      <4> QED BY <1>3, <4>1 DEF Goes
    <3>4. ~(p >= o /\ p < o + Len(v))
      <4>1. CASE v = <<>>
        BY <1>1, <4>1
      <4>2. CASE v # <<>>
        <5>1. Len(v) \in Nat /\ o + Len(v) <= z
          BY <1>1, <4>2
        <5> QED BY <1>1, <2>3, <5>1
      <4> QED BY <4>1, <4>2
    <3> QED BY <1>10, <3>1, <3>2, <3>3, <3>4
  <2> QED BY <2>2, <2>3
<1>14. v # <<>> => o + Len(v) <= z + m
  <2>1. Len(v) \in Nat
    BY <1>1
  <2> QED BY <1>1, <2>1
<1> QED BY <1>1, <1>7, <1>8, <1>12, <1>13, <1>14 DEF PartOf

\* One iteration of fstree_file_write does its part.
LEMMA WritePart ==
  ASSUME NEW s, TreeGood(s), NEW n \in Files, NEW z \in Nat, z = s.file[n].size,
         NEW c, NEW o \in Nat, NEW v, PartOf(s, n, c, <<>>, o, v), v # <<>>,
         NEW m \in Nat, InOne(m, o, Len(v)),
         NEW t, Puts(s, t, n, z, o \div BlockSize, o % BlockSize, SubSeq(v, 1, m))
  PROVE  PartOf(t, n, c, <<>>, o + m, SubSeq(v, m + 1, Len(v)))
<1>1. /\ c \in Seq(Int) /\ v \in Seq(Int) /\ o \in Nat /\ Ahead(c, z, <<>>)
      /\ o + Len(v) <= z
      /\ \A p \in Nat : p < z =>
           c[p + 1] = IF p >= o /\ p < o + Len(v) THEN v[(p - o) + 1] ELSE Byte(s, n, p)
  BY DEF PartOf
<1>2. PICK w \in Nat : w = Len(v)
  BY <1>1
<1>3. PICK b \in Nat \ {0}, q \in Nat, k \in Nat, e \in Nat :
        b = BlockSize /\ Lies(o, q, k, e) /\ o = e + k /\ k < b
  BY LiesIn
<1>4. m \in Nat /\ m <= b - k /\ m <= w
  <2>1. k = o % BlockSize
    BY <1>3 DEF Lies
  <2> QED BY <1>2, <1>3, <2>1, InOneFacts
<1>5. PICK x, y : x = SubSeq(v, 1, m) /\ y = SubSeq(v, m + 1, w)
  OBVIOUS
<1>6. /\ x \in Seq(Int) /\ Len(x) = m /\ \A j \in 1..m : x[j] = v[j]
      /\ y \in Seq(Int) /\ Len(y) = w - m /\ \A j \in 1..(w - m) : y[j] = v[m + j]
  <2>1. FirstOnes(x, v, m) /\ OtherOnes(y, v, m, w)
    BY <1>1, <1>2, <1>4, <1>5, CutParts
  <2> QED BY <2>1 DEF FirstOnes, OtherOnes
<1>7. Puts(s, t, n, z, q, k, x)
  <2>1. q = o \div BlockSize /\ k = o % BlockSize
    BY <1>3 DEF Lies
  <2> QED BY <1>5, <2>1
<1>8. t.file[n].size = z
  BY <1>7 DEF Puts
<1>9. ASSUME NEW p \in Nat, p < z
      PROVE  c[p + 1] = IF p >= o + m /\ p < (o + m) + Len(y) THEN y[(p - (o + m)) + 1] ELSE Byte(t, n, p)
  <2>1. /\ p >= o /\ p < o + m => Byte(t, n, p) = x[(p - o) + 1]
        /\ ~(p >= o /\ p < o + m) => Byte(t, n, p) = Byte(s, n, p)
    <3>1. k + Len(x) <= BlockSize
      BY <1>3, <1>4, <1>6
    <3>2. IsPlace(o, q, k)
      BY <1>3 DEF Lies, IsPlace
    <3>3. PutHere(s, t, n, o, x, p)
      BY <1>6, <1>7, <1>9, <3>1, <3>2, PutsHere
    <3>4. /\ p >= o /\ p < o + Len(x) => Byte(t, n, p) = x[(p - o) + 1]
          /\ ~(p >= o /\ p < o + Len(x)) /\ p < s.file[n].size => Byte(t, n, p) = Byte(s, n, p)
      BY <3>3 DEF PutHere
    <3> QED BY <1>6, <1>9, <3>4
  <2>2. c[p + 1] = IF p >= o /\ p < o + w THEN v[(p - o) + 1] ELSE Byte(s, n, p)
    BY <1>1, <1>2, <1>9
  <2>3. CASE p < o
    <3>1. ~(p >= o) /\ ~(p >= o + m)
      BY <1>1, <2>3
    <3> QED BY <2>1, <2>2, <3>1
  <2>4. CASE p >= o /\ p < o + m
    <3>1. PICK j \in 1..m : j = (p - o) + 1
      BY <1>1, <2>4
    <3>2. p < o + w /\ ~(p >= o + m)
      BY <1>1, <1>4, <2>4
    <3> QED BY <1>6, <2>1, <2>2, <2>4, <3>1, <3>2
  <2>5. CASE p >= o + m /\ p < o + w
    <3>1. (p - (o + m)) + 1 \in 1..(w - m) /\ m + ((p - (o + m)) + 1) = (p - o) + 1
      BY <1>4, <2>5
    <3>2. PICK j \in 1..(w - m) : j = (p - (o + m)) + 1 /\ m + j = (p - o) + 1
      BY <3>1
    <3>3. p >= o /\ p < (o + m) + Len(y)
      BY <1>1, <1>4, <1>6, <2>5
    <3>4. y[j] = v[m + j]
      BY <1>6
    <3> QED BY <2>2, <2>5, <3>2, <3>3, <3>4
  <2>6. CASE p >= o + w
    <3>1. ~(p < o + w) /\ ~(p < o + m) /\ ~(p < (o + m) + Len(y))
      BY <1>1, <1>4, <1>6, <2>6
    <3> QED BY <2>1, <2>2, <3>1
  <2> QED BY <1>1, <2>3, <2>4, <2>5, <2>6
<1>10. o + m \in Nat /\ (o + m) + Len(y) <= z
  BY <1>1, <1>2, <1>4, <1>6
<1>11. PartOf(t, n, c, <<>>, o + m, y)
  BY <1>1, <1>6, <1>8, <1>9, <1>10 DEF PartOf
<1> QED BY <1>2, <1>5, <1>11

\* What is left after fstree_file_truncate to a smaller size.
LEMMA CutHolds ==
  ASSUME NEW s, TreeGood(s), NEW t, NEW n \in Files, NEW z \in Nat, z <= s.file[n].size,
         Cuts(s, t, n, z), NEW c, Holds(s, n, c)
  PROVE  Holds(t, n, SubSeq(c, 1, z)) /\ Padded(t, n)
<1>1. t.file[n].size = z
  BY DEF Cuts
<1>2. PICK y \in Nat : y = Len(c) /\ c \in Seq(Int) /\ z <= y
  BY DEF Holds
<1>3. PICK x : x = SubSeq(c, 1, z)
  OBVIOUS
<1>4. x \in Seq(Int) /\ Len(x) = z /\ \A j \in 1..z : x[j] = c[j]
  BY <1>2, <1>3, CutItems
<1>5. ASSUME NEW p \in Nat, p < z PROVE x[p + 1] = Byte(t, n, p)
  <2>1. PICK i \in Nat, j \in InBlk : i = p \div BlockSize /\ j = p % BlockSize /\ p = BlockSize * i + j
    BY Places
  <2>2. i < BlocksFor(z)
    BY <1>5, <2>1, BlocksForFacts
  <2>3. ByteAt(t, n, i, j) = ByteAt(s, n, i, j)
    BY <1>5, <2>1, <2>2 DEF Cuts
  <2>4. Byte(t, n, p) = Byte(s, n, p)
    BY <2>1, <2>3 DEF Byte
  <2>5. c[p + 1] = Byte(s, n, p)
    BY <1>2, <1>5 DEF Holds
  <2>6. p + 1 \in 1..z
    BY <1>5
  <2> QED BY <1>4, <2>4, <2>5, <2>6
<1>6. Holds(t, n, x)
  BY <1>1, <1>4, <1>5 DEF Holds
<1>7. Padded(t, n)
  <2> SUFFICES ASSUME NEW i \in Nat, NEW j \in InBlk, i < BlocksFor(z), BlockSize * i + j >= z
               PROVE  ByteAt(t, n, i, j) = 0
    BY <1>1 DEF Padded
  <2>1. ~(BlockSize * i + j < z)
    <3>1. BlockSize * i + j \in Nat
      BY FSTreeAssumption DEF InBlk
    <3> QED BY <3>1
  <2> QED BY <2>1 DEF Cuts
<1> QED BY <1>3, <1>6, <1>7

\* A call that appends d to a file has everything still to do.
LEMMA StartAppend ==
  ASSUME NEW s, NEW n, NEW c, Holds(s, n, c), NEW d, Piece(d)
  PROVE  PartOf(s, n, c \o d, <<d>>, 0, <<>>)
<1>1. PICK z \in Nat : z = Len(c) /\ c \in Seq(Int) /\ s.file[n].size = z
  BY DEF Holds
<1>2. PICK w \in Nat : w = Len(d) /\ d \in Seq(Int)
  BY DEF Piece
<1>3. PICK x : x = c \o d
  OBVIOUS
<1>4. /\ x \in Seq(Int) /\ Len(x) = z + w
      /\ \A k \in 1..z : x[k] = c[k]
      /\ \A k \in 1..w : x[z + k] = d[k]
  BY <1>1, <1>2, <1>3, JoinItems
<1>5. Goes(x, z, d)
  BY <1>2, <1>4 DEF Goes
<1>6. Ahead(x, z, <<d>>)
  BY <1>2, <1>4, <1>5 DEF Ahead
<1>7. ASSUME NEW p \in Nat, p < z
      PROVE  x[p + 1] = IF p >= 0 /\ p < 0 + Len(<<>>) THEN <<>>[(p - 0) + 1] ELSE Byte(s, n, p)
  <2>1. p + 1 \in 1..z
    BY <1>7
  <2>2. x[p + 1] = c[p + 1]
    BY <1>4, <2>1
  <2>3. c[p + 1] = Byte(s, n, p)
    BY <1>1, <1>7 DEF Holds
  <2>4. ~(p < 0 + Len(<<>>))
    OBVIOUS
  <2> QED BY <2>2, <2>3, <2>4
<1>8. <<>> \in Seq(Int)
  OBVIOUS
<1>9. PartOf(s, n, x, <<d>>, 0, <<>>)
  BY <1>1, <1>4, <1>6, <1>7, <1>8 DEF PartOf
<1> QED BY <1>3, <1>9

\* u is c with data laid over it from byte off on.
Laid(u, c, z, off, data, w, y) ==
  /\ u \in Seq(Int) /\ Len(u) = y
  /\ y = IF z >= off + w THEN z ELSE off + w
  /\ \A p \in 1..y : u[p] = IF p > off /\ p <= off + w THEN data[p - off]
                            ELSE IF p <= z THEN c[p] ELSE 0

\* Overlay gives those contents.
LEMMA OverlayLaid ==
  ASSUME NEW c \in Seq(Int), NEW z \in Nat, z = Len(c), NEW off \in Nat, NEW data \in Seq(Int),
         NEW w \in Nat, w = Len(data)
  PROVE  \E y \in Nat : Laid(Overlay(c, off, data), c, z, off, data, w, y)
<1>1. PICK y \in Nat : y = IF z >= off + w THEN z ELSE off + w
  OBVIOUS
<1>2. Max({Len(c), off + Len(data)}) = y
  <2>1. PICK e \in Nat : e = off + w
    OBVIOUS
  <2>2. Max({z, e}) = y
    <3>1. z <= e => Max({z, e}) = e
      BY MaxTwo
    <3>2. e <= z => Max({z, e}) = z
      <4>1. PICK a \in Int, b \in Int : a = e /\ b = z
        OBVIOUS
      <4>2. a <= b => Max({b, a}) = b
        BY MaxTwo
      <4> QED BY <4>1, <4>2
    <3> QED BY <1>1, <2>1, <3>1, <3>2
  <2> QED BY <2>1, <2>2
<1>3. PICK u : u = Overlay(c, off, data)
  OBVIOUS
<1>4. u = [p \in 1..y |-> IF p > off /\ p <= off + w THEN data[p - off]
                          ELSE IF p <= z THEN c[p] ELSE 0]
  BY <1>2, <1>3 DEF Overlay
<1>5. ASSUME NEW p \in 1..y
      PROVE  (IF p > off /\ p <= off + w THEN data[p - off]
              ELSE IF p <= z THEN c[p] ELSE 0) \in Int
  <2>1. CASE p > off /\ p <= off + w
    <3>1. p - off \in 1..Len(data)
      BY <2>1
    <3>2. data[p - off] \in Int
      BY <3>1
    <3> QED BY <2>1, <3>2
  <2>2. CASE ~(p > off /\ p <= off + w) /\ p <= z
    <3>1. p \in 1..Len(c)
      BY <2>2
    <3>2. c[p] \in Int
      BY <3>1
    <3> QED BY <2>2, <3>2
  <2>3. CASE ~(p > off /\ p <= off + w) /\ ~(p <= z)
    BY <2>3
  <2> QED BY <2>1, <2>2, <2>3
<1>6. u \in Seq(Int) /\ Len(u) = y
  BY <1>4, <1>5
<1> QED BY <1>1, <1>3, <1>4, <1>6 DEF Laid

\* The pieces fstree_file_write cuts its data into.
LEMMA StartWrite ==
  ASSUME NEW s, NEW n, NEW c, Holds(s, n, c), NEW off \in Nat, NEW data \in Seq(Int), data # <<>>,
         NEW z, Whole(z), Whole(off), Whole(Len(data)),
         NEW avail, NEW pad, NEW tail, WriteParts(s, n, off, data, z, avail, pad, tail)
  PROVE  PartOf(s, n, Overlay(c, off, data), pad \o tail, off, SubSeq(data, 1, avail))
<1>1. c \in Seq(Int) /\ z = Len(c) /\ z \in Nat /\ s.file[n].size = z
  BY DEF Holds, WriteParts
<1>2. PICK w \in Nat \ {0} : w = Len(data)
  OBVIOUS
<1>3. PICK u : u = Overlay(c, off, data)
  OBVIOUS
<1>4. PICK y \in Nat : Laid(u, c, z, off, data, w, y)
  BY <1>1, <1>2, <1>3, OverlayLaid
<1>5. /\ u \in Seq(Int) /\ Len(u) = y
      /\ y = IF z >= off + w THEN z ELSE off + w
      /\ \A p \in 1..y : u[p] = IF p > off /\ p <= off + w THEN data[p - off]
                                ELSE IF p <= z THEN c[p] ELSE 0
  BY <1>4 DEF Laid
<1>6. /\ avail \in Nat /\ avail <= w
      /\ off > z => avail = 0
      /\ ~(off > z) => off + avail <= z
      /\ avail < w => off + w > z /\ (~(off > z) => off + avail = z)
  <2>1. CASE off > z
    <3>1. avail = 0
      BY <2>1 DEF WriteParts
    <3> QED BY <1>1, <2>1, <3>1
  <2>2. CASE ~(off > z)
    <3>1. z - off \in Nat
      BY <1>1, <2>2
    <3>2. avail = Min({z - off, w})
      BY <1>2, <2>2 DEF WriteParts
    <3>3. avail \in Nat /\ avail <= z - off /\ avail <= w /\ avail \in {z - off, w}
      BY <3>1, <3>2, MinTwo
    <3> QED BY <1>1, <2>2, <3>1, <3>3
  <2> QED BY <2>1, <2>2
<1>7. PICK x, r : x = SubSeq(data, 1, avail) /\ r = SubSeq(data, avail + 1, w)
  OBVIOUS
<1>8. FirstOnes(x, data, avail) /\ OtherOnes(r, data, avail, w)
  BY <1>2, <1>6, <1>7, CutParts
<1>9. ASSUME NEW p \in Nat, p < z
      PROVE  u[p + 1] = IF p >= off /\ p < off + Len(x) THEN x[(p - off) + 1] ELSE Byte(s, n, p)
  <2>1. Len(x) = avail /\ \A j \in 1..avail : x[j] = data[j]
    BY <1>8 DEF FirstOnes
  <2>2. c[p + 1] = Byte(s, n, p)
    BY <1>1, <1>9 DEF Holds
  <2>3. PICK q \in 1..y : q = p + 1
    BY <1>1, <1>5, <1>9
  <2>4. u[q] = IF q > off /\ q <= off + w THEN data[q - off] ELSE IF q <= z THEN c[q] ELSE 0
    BY <1>5
  <2>5. q <= z
    BY <1>1, <1>9, <2>3
  <2>6. CASE p >= off /\ p < off + avail
    <3>1. q > off /\ q <= off + w /\ q - off = (p - off) + 1 /\ (p - off) + 1 \in 1..avail
      BY <1>6, <2>3, <2>6
    <3> QED BY <2>1, <2>3, <2>4, <2>6, <3>1
  <2>7. CASE ~(p >= off /\ p < off + avail)
    <3>1. ~(q > off /\ q <= off + w)
      BY <1>1, <1>6, <1>9, <2>3, <2>7
    <3> QED BY <2>1, <2>2, <2>3, <2>4, <2>5, <2>7, <3>1
  <2> QED BY <2>6, <2>7
<1>10. avail < w => /\ r \in Seq(Int) /\ Len(r) = w - avail /\ Len(r) # 0 /\ y = off + w
                    /\ Goes(u, off + avail, r)
  <2> SUFFICES ASSUME avail < w
               PROVE  /\ r \in Seq(Int) /\ Len(r) = w - avail /\ Len(r) # 0 /\ y = off + w
                      /\ Goes(u, off + avail, r)
    OBVIOUS
  <2>1. r \in Seq(Int) /\ Len(r) = w - avail /\ \A j \in 1..(w - avail) : r[j] = data[avail + j]
    BY <1>8 DEF OtherOnes
  <2>2. off + w > z /\ y = off + w
    BY <1>1, <1>5, <1>6
  <2>3. ASSUME NEW k \in 1..(w - avail) PROVE u[(off + avail) + k] = r[k]
    <3>1. PICK q \in 1..y : q = (off + avail) + k /\ q > off /\ q <= off + w /\ q - off = avail + k
      <4>1. (off + avail) + k \in 1..(off + w) /\ (off + avail) + k > off /\ ((off + avail) + k) - off = avail + k
        BY <1>6
      <4> QED BY <2>2, <4>1
    <3>2. u[q] = data[q - off]
      BY <1>5, <3>1
    <3> QED BY <2>1, <3>1, <3>2
  <2>4. Goes(u, off + avail, r)
    BY <2>1, <2>3 DEF Goes
  <2> QED BY <1>6, <2>1, <2>2, <2>4
<1>11. tail = IF avail < w THEN <<r>> ELSE <<>>
  BY <1>2, <1>7 DEF WriteParts
<1>12. Ahead(u, z, pad \o tail)
  <2>1. CASE off > z
    <3>1. avail = 0 /\ avail < w
      BY <1>6, <2>1
    <3>2. off - z \in Nat \ {0}
      BY <1>1, <2>1
    <3>3. PICK m \in Nat \ {0} : m = off - z
      BY <3>2
    <3>4. PICK d : m = off - z /\ d = Zeros(m)
      BY <3>3
    <3>5. pad = <<d>> /\ tail = <<r>>
      BY <1>11, <2>1, <3>1, <3>4 DEF WriteParts
    <3>6. pad \o tail = <<d, r>>
      BY <3>5, Joined
    <3>7. d \in Seq(Int) /\ Len(d) = m /\ \A k \in 1..m : d[k] = 0
      BY <3>4 DEF Zeros
    <3>8. Piece(d)
      <4>1. CASE NoSparse
        BY <3>7, <4>1 DEF Piece, Whole
      <4>2. CASE ~NoSparse
        <5>1. z % BlockSize = 0 /\ off % BlockSize = 0
          BY <4>2 DEF Whole
        <5>2. (off - z) % BlockSize = 0
          BY <1>1, <2>1, <5>1, Multiples
        <5> QED BY <3>4, <3>7, <5>2 DEF Piece, Whole
      <4> QED BY <4>1, <4>2
    <3>9. Piece(r) /\ Len(r) = w /\ y = off + w /\ Goes(u, off, r)
      <4>1. r \in Seq(Int) /\ Len(r) = w /\ Len(r) # 0 /\ y = off + w /\ Goes(u, off + 0, r)
        BY <1>10, <3>1
      <4>2. off + 0 = off
        OBVIOUS
      <4> QED BY <1>2, <4>1, <4>2 DEF Piece
    <3>10. Goes(u, z, d)
      <4>1. ASSUME NEW k \in 1..m PROVE u[z + k] = 0
        <5>1. PICK q \in 1..y : q = z + k /\ ~(q > off) /\ ~(q <= z)
          BY <1>1, <3>4, <3>9
        <5> QED BY <1>5, <5>1
      <4> QED BY <3>7, <4>1 DEF Goes
    <3>11. z + Len(d) = off /\ Len(u) = z + Len(d) + Len(r)
      <4>1. z + m = off
        BY <1>1, <3>4
      <4>2. Len(u) = off + w
        BY <1>5, <3>9
      <4>3. (z + m) + w = off + w
        BY <4>1
      <4> QED BY <3>7, <3>9, <4>1, <4>2, <4>3
    <3>12. Goes(u, z + Len(d), r)
      BY <3>9, <3>11
    <3> QED BY <3>6, <3>8, <3>9, <3>10, <3>11, <3>12 DEF Ahead
  <2>2. CASE ~(off > z) /\ avail < w
    <3>1. pad = <<>> /\ tail = <<r>>
      BY <1>11, <2>2 DEF WriteParts
    <3>2. pad \o tail = <<r>>
      BY <3>1, Joined
    <3>3. off + avail = z
      BY <1>6, <2>2
    <3>4. r \in Seq(Int) /\ Len(r) = w - avail /\ Len(r) # 0 /\ y = off + w /\ Goes(u, off + avail, r)
      BY <1>10, <2>2
    <3>5. Piece(r)
      <4>1. CASE NoSparse
        BY <3>4, <4>1 DEF Piece, Whole
      <4>2. CASE ~NoSparse
        <5>1. z % BlockSize = 0 /\ off % BlockSize = 0 /\ w % BlockSize = 0
          BY <1>2, <4>2 DEF Whole
        <5>2. avail = z - off /\ off <= z
          BY <1>1, <1>6, <2>2, <3>3
        <5>3. avail % BlockSize = 0
          BY <1>1, <5>1, <5>2, Multiples
        <5>4. (w - avail) % BlockSize = 0
          BY <1>6, <5>1, <5>3, Multiples
        <5> QED BY <3>4, <5>4 DEF Piece, Whole
      <4> QED BY <4>1, <4>2
    <3>6. Len(u) = z + Len(r) /\ Goes(u, z, r)
      <4>1. y = z + (w - avail)
        <5>1. y = off + w /\ avail \in Nat
          BY <1>6, <3>4
        <5> QED BY <3>3, <5>1
      <4> QED BY <1>5, <3>3, <3>4, <4>1
    <3> QED BY <3>2, <3>5, <3>6 DEF Ahead
  <2>3. CASE ~(off > z) /\ ~(avail < w)
    <3>1. pad \o tail = <<>>
      BY <1>11, <2>3, Joined DEF WriteParts
    <3>2. y = z
      BY <1>1, <1>5, <1>6, <2>3
    <3> QED BY <1>5, <3>1, <3>2 DEF Ahead
  <2> QED BY <2>1, <2>2, <2>3
<1>13. x \in Seq(Int) /\ (x # <<>> => off + Len(x) <= z)
  <2>1. x \in Seq(Int) /\ Len(x) = avail
    BY <1>8 DEF FirstOnes
  <2>2. CASE off > z
    BY <1>6, <2>1, <2>2
  <2>3. CASE ~(off > z)
    BY <1>6, <2>1, <2>3
  <2> QED BY <2>1, <2>2, <2>3
<1>14. PartOf(s, n, u, pad \o tail, off, x)
  BY <1>1, <1>5, <1>9, <1>12, <1>13 DEF PartOf
<1> QED BY <1>3, <1>7, <1>14

\* With FSTREE_FLAG_NO_SPARSE no file gets a hole.
LEMMA BlockLists ==
  ASSUME NEW s, Shape(s), NEW n \in Files, NEW data
  PROVE  SameLists(append_block(s, n, data).fs, s)
<1>1. PICK a : a = MoveToEnd(s, n)
  OBVIOUS
<1>2. SameLists(a.fs, s) /\ Shape(a.fs)
  BY <1>1, MoveToEndSame, SameShape
<1>3. PICK b : b = WritePartial(a.fs, a.fs.data_offset, 0, data \o Zeros(BlockSize - Len(data)))
  OBVIOUS
<1>4. SameLists(b.fs, a.fs) /\ Shape(b.fs)
  BY <1>2, <1>3, VolumeCalls, SameShape
<1>5. PICK c : c = Used(b.fs, 1)
  OBVIOUS
<1>6. SameLists(c, b.fs)
  BY <1>4, <1>5, UsedSame
<1>7. append_block(s, n, data) = IF a.ok THEN (IF b.ok THEN Ok(c) ELSE b) ELSE a
  BY <1>1, <1>3, <1>5 DEF append_block, Then
<1>8. SameLists(b.fs, s)
  BY <1>2, <1>4, SameTwice
<1>9. SameLists(c, s) /\ Ok(c).fs = c
  BY <1>6, <1>8, SameTwice DEF Ok
<1> QED BY <1>2, <1>7, <1>8, <1>9

\* The same for a whole turn of append.
LEMMA AppendLists ==
  ASSUME NEW s, TreeGood(s), NEW n \in Files, NEW data, NoSparse, s.file[n].sparse = <<>>
  PROVE  AppendStep(s, n, data).fs.file[n].sparse = <<>>
<1>1. Shape(s)
  BY GoodShape
<1>2. PICK i, m, z : i = z \div BlockSize /\ m = z % BlockSize /\ z = s.file[n].size
  OBVIOUS
<1>3. PICK t, b : t = append_to_tail(s, n, i, m, data) /\ b = append_block(s, n, data)
  OBVIOUS
<1>4. PICK o : o = IF m > 0 THEN t ELSE b
  OBVIOUS
<1>5. PICK y : y = o.fs.file[n].size + Len(data)
  OBVIOUS
<1>6. AppendStep(s, n, data) = IF o.ok THEN Ok(SetSize(o.fs, n, y)) ELSE o
  BY <1>2, <1>3, <1>4, <1>5 DEF AppendStep, Then, SetSize
<1>7. SameLists(b.fs, s)
  BY <1>1, <1>3, BlockLists
<1>8. SameLists(t.fs, s)
  <2>1. PICK f : f = s.file[n]
    OBVIOUS
  <2>2. TailRegion(f, i) = 0
    BY <2>1, NoRegions
  <2>3. PICK g : g = CountWhere(s.file[n].sparse, LAMBDA r : TRUE)
    OBVIOUS
  <2>4. t = WritePartial(s, s.file[n].start_index + i - g, m, data)
    BY <1>3, <2>1, <2>2, <2>3 DEF append_to_tail, Then
  <2>5. PICK e : e = s.file[n].start_index + i - g
    OBVIOUS
  <2>6. t = WritePartial(s, e, m, data)
    BY <2>4, <2>5
  <2> QED BY <1>1, <2>6, VolumeCalls
<1>9. SameLists(o.fs, s)
  BY <1>4, <1>7, <1>8
<1>10. PICK a : a = o.fs
  OBVIOUS
<1>11. Shape(a) /\ a.file[n].sparse = <<>>
  BY <1>9, <1>10 DEF SameLists
<1>12. PICK c : c = SetSize(a, n, y)
  OBVIOUS
<1>13. c.file[n].sparse = <<>>
  BY <1>11, <1>12, SizeChanged
<1>14. AppendStep(s, n, data).fs = c \/ AppendStep(s, n, data).fs = a
  BY <1>6, <1>10, <1>12 DEF Ok
<1> QED BY <1>11, <1>13, <1>14

\* The same for a turn of write.
LEMMA WriteLists ==
  ASSUME NEW s, TreeGood(s), NEW n \in Files, NEW i \in Nat, NEW m, NEW data, NoSparse, s.file[n].sparse = <<>>
  PROVE  WriteStep(s, n, i, m, data).fs.file[n].sparse = <<>>
<1>1. Shape(s)
  BY GoodShape
<1>2. RegionOf(s.file[n].sparse, i) = 0
  <2>1. PICK l : l = s.file[n].sparse
    OBVIOUS
  <2>2. ListOK(l)
    BY <2>1 DEF TreeGood, FileGood
  <2>3. ~IsSparse(l, i)
    BY <2>1, RankEmpty
  <2>4. RegionOf(l, i) = 0
    BY <2>2, <2>3, RegionFacts
  <2> QED BY <2>1, <2>4
<1>3. PICK e : e = s.file[n].start_index + (i - Skipped(s.file[n], i))
  OBVIOUS
<1>4. WriteStep(s, n, i, m, data) = WritePartial(s, e, m, data)
  BY <1>2, <1>3 DEF WriteStep
<1>5. SameLists(WritePartial(s, e, m, data).fs, s)
  BY <1>1, VolumeCalls
<1> QED BY <1>4, <1>5 DEF SameLists

\* Sparse files keep ending on a block, the others without holes.
LEMMA TailsOn ==
  ASSUME NEW s, Tails(s), NEW t, NEW n \in Files,
         \A f \in Files : f # n => t.file[f].size = s.file[f].size /\ t.file[f].sparse = s.file[f].sparse,
         NoSparse /\ s.file[n].sparse = <<>> => t.file[n].sparse = <<>>,
         Whole(t.file[n].size)
  PROVE  Tails(t)
<1>1. CASE NoSparse
  <2>1. \A f \in Files : s.file[f].sparse = <<>>
    BY <1>1 DEF Tails
  <2>2. \A f \in Files : t.file[f].sparse = <<>>
    BY <1>1, <2>1
  <2> QED BY <1>1, <2>2 DEF Tails
<1>2. CASE ~NoSparse
  <2>1. \A f \in Files : s.file[f].size % BlockSize = 0
    BY <1>2 DEF Tails
  <2>2. \A f \in Files : t.file[f].size % BlockSize = 0
    BY <1>2, <2>1 DEF Whole
  <2> QED BY <1>2, <2>2 DEF Tails
<1> QED BY <1>1, <1>2

\* What that means for one file.
LEMMA TailsWhole ==
  ASSUME NEW s, Tails(s), NEW n \in Files
  PROVE  Whole(s.file[n].size) /\ (NoSparse => s.file[n].sparse = <<>>)
  BY DEF Tails, Whole

-----------------------------------------------------------------------------
(***************************************************************************)
(* What holds between the tree s, the call j in progress and the contents  *)
(* w as long as no call has failed.                                        *)
(***************************************************************************)
FileKept(s, j, w, f) ==
  IF f = j.file THEN PartOf(s, f, w[f], j.apps, j.off, j.over) ELSE Holds(s, f, w[f])

\* No holes or no partial tails, nothing but zeros where there is no file, and
\* every file with its part of the contents.
Kept(s, j, w) ==
  /\ Tails(s) /\ Clean(s)
  /\ \A f \in Files : Padded(s, f)
  /\ \A f \in Files : FileKept(s, j, w, f)

\* Between two calls every file holds its contents.
LEMMA KeptReturned ==
  ASSUME NEW s, TreeGood(s), NEW j, NEW w, Kept(s, j, w), j.apps = <<>>, j.over = <<>>, NEW f \in Files
  PROVE  Holds(s, f, w[f])
<1>1. FileKept(s, j, w, f) /\ s.file[f].size \in Nat
  BY DEF Kept, TreeGood, FileGood
<1>2. CASE f = j.file
  <2>1. PartOf(s, f, w[f], <<>>, j.off, <<>>)
    BY <1>1, <1>2 DEF FileKept
  <2> QED BY <1>1, <2>1, HoldsPart
<1>3. CASE f # j.file
  BY <1>1, <1>3 DEF FileKept
<1> QED BY <1>2, <1>3

\* A call for file n begins.
LEMMA KeptCall ==
  ASSUME NEW s, TreeGood(s), NEW j, NEW w, Kept(s, j, w), j.apps = <<>>, j.over = <<>>, NEW n \in Files,
         NEW k, k.file = n, NEW v, \A f \in Files : f # n => v[f] = w[f],
         PartOf(s, n, v[n], k.apps, k.off, k.over)
  PROVE  Kept(s, k, v)
<1>1. ASSUME NEW f \in Files PROVE FileKept(s, k, v, f)
  <2>1. CASE f = n
    BY <2>1 DEF FileKept
  <2>2. CASE f # n
    <3>1. Holds(s, f, w[f])
      BY <1>1, KeptReturned
    <3> QED BY <1>1, <2>2, <3>1 DEF FileKept
  <2> QED BY <2>1, <2>2
<1> QED BY <1>1 DEF Kept

\* A call has done its part of the work on its file.
LEMMA KeptStep ==
  ASSUME NEW s, TreeGood(s), NEW j, NEW w, Kept(s, j, w), NEW n \in Files, NEW t, Tails(t),
         n = j.file \/ (j.apps = <<>> /\ j.over = <<>>),
         Clean(s) => Clean(t), \A f \in Files : f # n => Carries(s, t, f), Padded(t, n),
         NEW k, k.file = n, NEW v, \A f \in Files : f # n => v[f] = w[f],
         PartOf(t, n, v[n], k.apps, k.off, k.over)
  PROVE  Kept(t, k, v)
<1>1. ASSUME NEW f \in Files, f # n PROVE Holds(t, f, v[f]) /\ Padded(t, f)
  <2>1. Carries(s, t, f) /\ v[f] = w[f]
    BY <1>1
  <2>2. Holds(s, f, w[f])
    <3>1. CASE n = j.file
      BY <1>1, <3>1 DEF Kept, FileKept
    <3>2. CASE j.apps = <<>> /\ j.over = <<>>
      BY <1>1, <3>2, KeptReturned
    <3> QED BY <3>1, <3>2
  <2>3. Padded(s, f)
    BY <1>1 DEF Kept
  <2>4. Holds(t, f, w[f])
    BY <1>1, <2>1, <2>2, CarriesHolds
  <2>5. Padded(t, f)
    BY <1>1, <2>1, <2>3, CarriesByte
  <2> QED BY <2>1, <2>4, <2>5
<1>2. ASSUME NEW f \in Files PROVE FileKept(t, k, v, f) /\ Padded(t, f)
  <2>1. CASE f = n
    BY <2>1 DEF FileKept
  <2>2. CASE f # n
    BY <1>1, <1>2, <2>2 DEF FileKept
  <2> QED BY <2>1, <2>2
<1>3. Clean(t)
  BY DEF Kept
<1> QED BY <1>2, <1>3 DEF Kept

\* The call returns.
LEMMA KeptIdle ==
  ASSUME NEW s, TreeGood(s), NEW j, NEW w, Kept(s, j, w), j.apps = <<>>, j.over = <<>>
  PROVE  Kept(s, Idle, w)
<1>1. ASSUME NEW f \in Files PROVE FileKept(s, Idle, w, f)
  <2>1. Holds(s, f, w[f]) /\ s.file[f].size \in Nat
    BY <1>1, KeptReturned DEF TreeGood, FileGood
  <2>2. Idle.apps = <<>> /\ Idle.over = <<>> /\ Idle.off = 0
    BY DEF Idle
  <2>3. PartOf(s, f, w[f], <<>>, 0, <<>>)
    BY <2>1, HoldsPart
  <2> QED BY <2>1, <2>2, <2>3 DEF FileKept
<1> QED BY <1>1 DEF Kept

\* A call for file n has failed: the other files have not lost a byte.
LEMMA FailedReads ==
  ASSUME NEW s, TreeGood(s), NEW j, NEW w, Kept(s, j, w), NEW n \in Files,
         n = j.file \/ (j.apps = <<>> /\ j.over = <<>>),
         NEW t, TreeGood(t), \A f \in Files : f # n => Carries(s, t, f),
         NEW v, \A f \in Files : f # n => v[f] = w[f], NEW f \in Files, f # n
  PROVE  Read(t, f) = v[f]
<1>1. Holds(s, f, w[f])
  <2>1. CASE n = j.file
    BY <2>1 DEF Kept, FileKept
  <2>2. CASE j.apps = <<>> /\ j.over = <<>>
    BY <2>2, KeptReturned
  <2> QED BY <2>1, <2>2
<1>2. Carries(s, t, f) /\ v[f] = w[f]
  OBVIOUS
<1>3. Holds(t, f, w[f]) /\ OnVolume(t, f)
  BY <1>1, <1>2, CarriesHolds, CarriesOnVolume
<1>4. Read(t, f) = w[f]
  BY <1>3, HoldsRead
<1> QED BY <1>2, <1>4

-----------------------------------------------------------------------------
(***************************************************************************)
(* The tree of the specification is sound as long as no call has failed.   *)
(***************************************************************************)
LEMMA TilingApart ==
  ASSUME LP!LayoutInv
  PROVE  Apart(fs)
<1>1. PICK ct : ct = [g \in Files |-> PhysBlocks(fs.file[g])]
  OBVIOUS
<1>2. PICK st : st = [g \in Files |-> fs.file[g].start_index]
  OBVIOUS
<1>3. \A g \in Files : ct[g] = Run(fs, g) /\ st[g] = Start(fs, g)
  BY <1>1, <1>2 DEF Run, Start
<1>4. \A f, g \in Files : f # g /\ ct[f] # 0 /\ ct[g] # 0 =>
         st[f] + ct[f] <= st[g] \/ st[g] + ct[g] <= st[f]
  BY <1>1, <1>2 DEF LP!LayoutInv, LP!NoOverlap
<1> QED BY <1>3, <1>4 DEF Apart

\* The same in the next state.
LEMMA TilingNext ==
  ASSUME LP!LayoutInv'
  PROVE  Spots(fs') /\ Apart(fs')
<1>1. PICK ct : ct = [g \in Files |-> PhysBlocks(fs'.file[g])]
  OBVIOUS
<1>2. PICK st : st = [g \in Files |-> fs'.file[g].start_index]
  OBVIOUS
<1>3. \A g \in Files : ct[g] = Run(fs', g) /\ st[g] = Start(fs', g)
  BY <1>1, <1>2 DEF Run, Start
<1>4. \A f, g \in Files : f # g /\ ct[f] # 0 /\ ct[g] # 0 =>
         st[f] + ct[f] <= st[g] \/ st[g] + ct[g] <= st[f]
  BY <1>1, <1>2 DEF LP!LayoutInv, LP!NoOverlap
<1>5. /\ fs'.data_offset \in Nat /\ st \in [Files -> Nat] /\ ct \in [Files -> Nat] /\ fs'.gap \in SUBSET Nat
      /\ \A f \in Files : ct[f] # 0 => st[f] + ct[f] <= fs'.data_offset
      /\ \A b \in fs'.gap : b < fs'.data_offset /\ \A f \in Files : ~(st[f] <= b /\ b < st[f] + ct[f])
  BY <1>1, <1>2, MaxOffsetNat DEF LP!LayoutInv, LP!TypeOK, LP!NoOverlap, LP!Owns
<1>6. ASSUME NEW b \in fs'.gap, NEW f \in Files PROVE b < Start(fs', f) \/ b >= Start(fs', f) + Run(fs', f)
  BY <1>3, <1>5
<1>7. Spots(fs')
  BY <1>3, <1>5, <1>6 DEF Spots
<1>8. Apart(fs')
  BY <1>3, <1>4 DEF Apart
<1> QED BY <1>7, <1>8

\* The invariant of the layout gives all that the lemmas above need.
LEMMA InvSound ==
  ASSUME TreeInv, Going, DiskOK(fs)
  PROVE  Sound(fs)
<1>1. TreeGood(fs) /\ Room(fs) /\ LP!LayoutInv
  BY DEF TreeInv, FilesInv
<1> QED BY <1>1, TilingSpots, TilingApart DEF Sound

(***************************************************************************)
(* The invariant of the contents, for uses without sparse tails: unless a  *)
(* call has failed, Kept; afterwards every file reads as its contents.     *)
(***************************************************************************)
Contents(s, j, w, going) ==
  /\ DiskOK(s) /\ w = [f \in Files |-> w[f]]
  /\ going => Kept(s, j, w)
  /\ ~going => \A f \in Files : Read(s, f) = w[f]

\* The invariant.
ContInv == SparseTails \/ Contents(fs, job, want, Going)

\* The next state, seen with the use the tree is put to in this one.
ContNext == Contents(fs', job', want', Going')

\* What a step starts from.
Before ==
  /\ TreeInv /\ TreeInv' /\ Sound(fs) /\ ~SparseTails /\ Kept(fs, job, want)
  /\ want = [f \in Files |-> want[f]]

\* The parts of that which the steps need most.
LEMMA BeforeFacts ==
  ASSUME Before
  PROVE  /\ FilesInv /\ TreeGood(fs) /\ TreeGood(fs') /\ Shape(fs) /\ use \in Uses
         /\ JobGood(job, fs) /\ Spots(fs') /\ Apart(fs') /\ DiskOK(fs) /\ Tails(fs)
<1>1. FilesInv /\ FilesInv' /\ LP!LayoutInv'
  BY DEF Before, TreeInv
<1>2. TreeGood(fs')
  BY <1>1 DEF FilesInv
<1>3. TreeGood(fs) /\ use \in Uses /\ JobGood(job, fs)
  BY <1>1 DEF FilesInv
<1>4. Spots(fs') /\ Apart(fs')
  BY <1>1, TilingNext
<1>5. DiskOK(fs) /\ Tails(fs)
  BY DEF Before, Sound, Kept
<1>6. Shape(fs)
  BY <1>3, GoodShape
<1> QED BY <1>1, <1>2, <1>3, <1>4, <1>5, <1>6

\* The step goes on, or the call has returned.
LEMMA GoesOnKept ==
  ASSUME DiskOK(fs'), want' = [f \in Files |-> want'[f]], Kept(fs', job', want'), Going'
  PROVE  ContNext
BY DEF ContNext, Contents

\* The step ends in a failure.
LEMMA GivenUp ==
  ASSUME DiskOK(fs'), want' = [f \in Files |-> want'[f]], job' = GaveUp,
         \A f \in Files : Read(fs', f) = want'[f]
  PROVE  ContNext
<1>1. ~Going'
  BY EndsOfCalls DEF Going
<1> QED BY <1>1 DEF ContNext, Contents

\* The sizes and offsets of a use that has no sparse tails.
LEMMA WholeUse ==
  ASSUME ~SparseTails, use \in Uses
  PROVE  /\ \A d \in use.buffers : Piece(d)
         /\ \A z \in use.sizes : Whole(z)
         /\ IsVolume => \A z : Whole(z)
<1>1. NoSparse \/ /\ \A d \in use.buffers : Len(d) % BlockSize = 0
                  /\ \A z \in use.sizes : z % BlockSize = 0
                  /\ ~IsVolume
  BY DEF SparseTails
<1>2. ASSUME NEW d \in use.buffers PROVE d \in Seq(Int) /\ Len(d) # 0
  <2>1. d \in Seq(Nat) /\ d # <<>>
    BY BufferGood
  <2> QED BY <2>1
<1> QED BY <1>1, <1>2 DEF Piece, Whole

-----------------------------------------------------------------------------
(***************************************************************************)
(* The calls that only start something.                                    *)
(***************************************************************************)
\* Another contents for one file.
LEMMA OneWanted ==
  ASSUME want = [f \in Files |-> want[f]], NEW n \in Files, NEW c, NEW v, v = [want EXCEPT ![n] = c]
  PROVE  /\ v[n] = c /\ \A f \in Files : f # n => v[f] = want[f]
         /\ v = [f \in Files |-> v[f]]
OBVIOUS

\* What a call of the loop of fstree_file_append leaves for the loop to do.
LEMMA AppendStarts ==
  ASSUME Before, CanCall, NEW n \in Files, NEW d, Piece(d), fs' = fs,
         job' = [Idle EXCEPT !.file = n, !.apps = <<d>>], want' = [want EXCEPT ![n] = @ \o d]
  PROVE  ContNext
<1>1. TreeGood(fs) /\ DiskOK(fs) /\ Kept(fs, job, want) /\ want = [f \in Files |-> want[f]]
  BY BeforeFacts DEF Before
<1>2. job.apps = <<>> /\ job.over = <<>>
  BY DEF CanCall, Returned
<1>3. Holds(fs, n, want[n])
  BY <1>1, <1>2, KeptReturned
<1>4. PartOf(fs, n, want[n] \o d, <<d>>, 0, <<>>)
  BY <1>3, StartAppend
<1>5. job'.file = n /\ job'.apps = <<d>> /\ job'.off = 0 /\ job'.over = <<>>
  BY DEF Idle
<1>6. PICK v : v = want'
  OBVIOUS
<1>7. v[n] = want[n] \o d /\ (\A f \in Files : f # n => v[f] = want[f]) /\ v = [f \in Files |-> v[f]]
  BY <1>1, <1>6, OneWanted
<1>8. PICK k : k = job'
  OBVIOUS
<1>9. k.file = n /\ PartOf(fs, n, v[n], k.apps, k.off, k.over)
  BY <1>4, <1>5, <1>7, <1>8
<1>10. Kept(fs, k, v)
  <2>1. \A f \in Files : f # n => v[f] = want[f]
    BY <1>7
  <2>2. TreeGood(fs) /\ Kept(fs, job, want)
    BY <1>1
  <2> QED BY <1>2, <1>9, <2>1, <2>2, KeptCall
<1>11. Going'
  BY <1>5 DEF Going
<1> QED BY <1>1, <1>6, <1>7, <1>8, <1>10, <1>11, GoesOnKept

\* fstree_file_write.
LEMMA WriteStarts ==
  ASSUME Before, NEW n \in Files, NEW off \in Nat, NEW data \in Seq(Int), data # <<>>,
         Whole(off), Whole(Len(data)), fstree_file_write(n, off, data)
  PROVE  ContNext
<1>1. TreeGood(fs) /\ DiskOK(fs) /\ Kept(fs, job, want) /\ want = [f \in Files |-> want[f]] /\ Tails(fs)
  BY BeforeFacts DEF Before
<1>2. job.apps = <<>> /\ job.over = <<>> /\ fs' = fs
  BY DEF fstree_file_write, CanCall, Returned
<1>3. Holds(fs, n, want[n])
  BY <1>1, <1>2, KeptReturned
<1>4. PICK size, avail, pad, tail : WriteParts(fs, n, off, data, size, avail, pad, tail)
  BY DEF WriteParts
<1>5. job' = JobOf(n, pad \o tail, off, SubSeq(data, 1, avail))
  BY <1>4 DEF fstree_file_write, WriteParts, JobOf
<1>6. want' = [want EXCEPT ![n] = Overlay(@, off, data)]
  BY DEF fstree_file_write
<1>7. Whole(size)
  BY <1>1, <1>4, TailsWhole DEF WriteParts
<1>8. PartOf(fs, n, Overlay(want[n], off, data), pad \o tail, off, SubSeq(data, 1, avail))
  BY <1>3, <1>4, <1>7, StartWrite
<1>9. PICK k : k = job'
  OBVIOUS
<1>10. k.file = n /\ k.apps = pad \o tail /\ k.off = off /\ k.over = SubSeq(data, 1, avail)
  <2>1. k = JobOf(n, pad \o tail, off, SubSeq(data, 1, avail))
    BY <1>5, <1>9
  <2> QED BY <2>1 DEF JobOf
<1>11. PICK v : v = want'
  OBVIOUS
<1>12. PICK u : u = Overlay(want[n], off, data)
  OBVIOUS
<1>13. v = [want EXCEPT ![n] = u]
  BY <1>6, <1>11, <1>12
<1>14. v[n] = u /\ (\A f \in Files : f # n => v[f] = want[f]) /\ v = [f \in Files |-> v[f]]
  BY <1>1, <1>13, OneWanted
<1>15. PartOf(fs, n, v[n], k.apps, k.off, k.over)
  BY <1>8, <1>10, <1>12, <1>14
<1>16. Kept(fs, k, v)
  <2>1. \A f \in Files : f # n => v[f] = want[f]
    BY <1>14
  <2>2. TreeGood(fs) /\ Kept(fs, job, want)
    BY <1>1
  <2>3. job.apps = <<>> /\ job.over = <<>> /\ k.file = n
    BY <1>2, <1>10
  <2> QED BY <1>15, <2>1, <2>2, <2>3, KeptCall
<1>17. k.apps # <<>> \/ k.over # <<>>
  <2>1. CASE avail < Len(data)
    <3>1. PICK e : tail = <<e>>
      BY <1>4, <2>1 DEF WriteParts
    <3>2. pad = <<>> \/ \E z : pad = <<z>>
      BY <1>4 DEF WriteParts
    <3>3. pad \o tail # <<>>
      BY <3>1, <3>2, Joined
    <3> QED BY <1>10, <3>3
  <2>2. CASE ~(avail < Len(data))
    <3>1. PICK z \in Nat : z = size
      BY <1>1, <1>4, SizeNat DEF WriteParts
    <3>2. PICK w \in Nat \ {0} : w = Len(data)
      OBVIOUS
    <3>3. CASE off > z
      <4>1. avail = 0
        BY <1>4, <3>1, <3>3 DEF WriteParts
      <4> QED BY <2>2, <3>2, <4>1
    <3>4. CASE ~(off > z)
      <4>1. PICK y \in Nat : y = z - off
        BY <3>4
      <4>2. avail = Min({y, w})
        BY <1>4, <3>1, <3>2, <3>4, <4>1 DEF WriteParts
      <4>3. avail \in Nat /\ avail <= w
        BY <4>2, MinTwo
      <4>4. avail = w
        BY <2>2, <3>2, <4>3
      <4>5. Len(SubSeq(data, 1, w)) = w
        BY <3>2, CutItems
      <4>6. SubSeq(data, 1, w) # <<>>
        BY <3>2, <4>5
      <4> QED BY <1>10, <4>4, <4>6
    <3> QED BY <3>3, <3>4
  <2> QED BY <2>1, <2>2
<1>18. Going'
  BY <1>9, <1>17 DEF Going
<1> QED BY <1>1, <1>2, <1>9, <1>11, <1>14, <1>16, <1>18, GoesOnKept

\* A call that does all its work in one step.
LEMMA StepReturns ==
  ASSUME NEW s, TreeGood(s), NEW j, NEW w, Kept(s, j, w), NEW n \in Files, NEW t, TreeGood(t), Tails(t),
         j.apps = <<>>, j.over = <<>>,
         Clean(s) => Clean(t), \A f \in Files : f # n => Carries(s, t, f), Padded(t, n),
         NEW v, \A f \in Files : f # n => v[f] = w[f], PartOf(t, n, v[n], <<>>, 0, <<>>)
  PROVE  Kept(t, Idle, v)
<1>1. PICK k : k.file = n /\ k.apps = <<>> /\ k.off = 0 /\ k.over = <<>>
  <2>1. PICK k : k = [file |-> n, apps |-> <<>>, off |-> 0, over |-> <<>>]
    OBVIOUS
  <2>2. k.file = n /\ k.apps = <<>> /\ k.off = 0 /\ k.over = <<>>
    BY <2>1
  <2> QED BY <2>2
<1>2. PartOf(t, n, v[n], k.apps, k.off, k.over)
  BY <1>1
<1>3. k.file = n
  BY <1>1
<1>4. Kept(t, k, v)
  BY <1>2, <1>3, KeptStep
<1>5. k.apps = <<>> /\ k.over = <<>>
  BY <1>1
<1> QED BY <1>4, <1>5, KeptIdle

\* The end of a file is cut off, with no call in progress.
LEMMA ShrinkKept ==
  ASSUME Before, CanCall, NEW n \in Files, NEW z \in Nat, z <= fs.file[n].size, Whole(z),
         NEW o, o = Shrink(fs, n, z), fs' = o.fs,
         NEW v, \A f \in Files : f # n => v[f] = want[f], v[n] = SubSeq(want[n], 1, z)
  PROVE  o.ok /\ DiskOK(fs') /\ Kept(fs', Idle, v)
<1>1. Sound(fs) /\ Kept(fs, job, want)
  BY DEF Before
<1>2. TreeGood(fs) /\ TreeGood(fs') /\ Spots(fs') /\ Apart(fs') /\ Tails(fs)
  BY BeforeFacts
<1>3. job.apps = <<>> /\ job.over = <<>>
  BY DEF CanCall, Returned
<1>4. (NoSparse => fs.file[n].sparse = <<>>) /\ (fs.file[n].sparse = <<>> \/ z % BlockSize = 0)
  BY <1>2, TailsWhole DEF Whole
<1>5. PICK t : t = o.fs /\ t = fs'
  OBVIOUS
<1>6. /\ o.ok /\ DiskOK(t) /\ Cuts(fs, t, n, z)
      /\ \A f \in Files : f # n => Carries(fs, t, f)
      /\ Clean(fs) => Clean(t)
      /\ fs.file[n].sparse = <<>> => t.file[n].sparse = <<>>
  <2>1. Spots(o.fs) /\ Apart(o.fs)
    BY <1>2
  <2>2. /\ o.ok /\ DiskOK(o.fs) /\ Cuts(fs, o.fs, n, z)
        /\ \A f \in Files : f # n => Carries(fs, o.fs, f)
        /\ Clean(fs) => Clean(o.fs)
        /\ fs.file[n].sparse = <<>> => o.fs.file[n].sparse = <<>>
    BY <1>1, <1>4, <2>1, ShrinkDoes
  <2> QED BY <1>5, <2>2
<1>7. Holds(fs, n, want[n])
  BY <1>1, <1>2, <1>3, KeptReturned
<1>8. Holds(t, n, SubSeq(want[n], 1, z)) /\ Padded(t, n)
  BY <1>2, <1>6, <1>7, CutHolds
<1>9. PartOf(t, n, v[n], <<>>, 0, <<>>)
  <2>1. t.file[n].size \in Nat
    BY <1>6 DEF Cuts
  <2>2. PartOf(t, n, SubSeq(want[n], 1, z), <<>>, 0, <<>>)
    BY <1>8, <2>1, HoldsPart
  <2> QED BY <2>2
<1>10. Tails(t)
  <2>1. \A f \in Files : f # n => t.file[f].size = fs.file[f].size /\ t.file[f].sparse = fs.file[f].sparse
    BY <1>6 DEF Carries
  <2>2. Whole(t.file[n].size)
    BY <1>6 DEF Cuts
  <2>3. NoSparse /\ fs.file[n].sparse = <<>> => t.file[n].sparse = <<>>
    BY <1>6
  <2> QED BY <1>2, <2>1, <2>2, <2>3, TailsOn
<1>11. Kept(t, Idle, v)
  <2>1. (Clean(fs) => Clean(t)) /\ (\A f \in Files : f # n => Carries(fs, t, f)) /\ Padded(t, n)
    BY <1>6, <1>8
  <2>2. TreeGood(fs) /\ Kept(fs, job, want) /\ TreeGood(t)
    BY <1>1, <1>2, <1>5
  <2> QED BY <1>3, <1>9, <1>10, <2>1, <2>2, StepReturns
<1> QED BY <1>5, <1>6, <1>11

\* Zeros are a piece to append.
LEMMA ZerosPiece ==
  ASSUME NEW m \in Nat \ {0}, Whole(m)
  PROVE  Piece(Zeros(m)) /\ Len(Zeros(m)) = m /\ Zeros(m) \in Seq(Int)
<1>1. Zeros(m) \in Seq(Int) /\ Len(Zeros(m)) = m
  BY DEF Zeros
<1> QED BY <1>1 DEF Piece

\* The difference of two such sizes is one.
LEMMA WholeRest ==
  ASSUME NEW x \in Nat, NEW y \in Nat, Whole(x), Whole(y), y <= x
  PROVE  Whole(x - y)
BY Multiples DEF Whole

\* fstree_file_truncate.
LEMMA TruncateKept ==
  ASSUME Before, NEW n \in Files, NEW z \in Nat, Whole(z), fstree_file_truncate(n, z)
  PROVE  ContNext
<1>1. TreeGood(fs) /\ Tails(fs) /\ want = [f \in Files |-> want[f]]
  BY BeforeFacts DEF Before
<1>2. PICK size \in Nat : size = fs.file[n].size
  BY <1>1, SizeNat
<1>3. PICK o : o = Shrink(fs, n, z)
  OBVIOUS
<1>4. CanCall
  BY DEF fstree_file_truncate
<1>5. CASE z > size /\ fs' = fs /\ job' = [Idle EXCEPT !.file = n, !.apps = <<Zeros(z - size)>>]
            /\ want' = [want EXCEPT ![n] = @ \o Zeros(z - size)]
  <2>1. z - size \in Nat \ {0}
    BY <1>5
  <2>2. PICK g \in Nat \ {0} : g = z - size
    BY <2>1
  <2>3. Whole(size)
    BY <1>1, <1>2, TailsWhole
  <2>4. Whole(g)
    <3>1. size <= z
      BY <1>5
    <3> QED BY <2>2, <2>3, <3>1, WholeRest
  <2>5. Piece(Zeros(g))
    BY <2>4, ZerosPiece
  <2>6. PICK d : d = Zeros(g)
    OBVIOUS
  <2>7. Piece(d) /\ fs' = fs /\ job' = [Idle EXCEPT !.file = n, !.apps = <<d>>] /\ want' = [want EXCEPT ![n] = @ \o d]
    BY <1>5, <2>2, <2>5, <2>6
  <2> QED BY <1>4, <2>7, AppendStarts
<1>6. CASE z < size /\ fs' = o.fs /\ job' = (IF o.ok THEN Idle ELSE GaveUp)
            /\ want' = [want EXCEPT ![n] = IF o.ok THEN SubSeq(@, 1, z) ELSE Read(o.fs, n)]
  <2>1. PICK u, v : u = SubSeq(want[n], 1, z) /\ v = [want EXCEPT ![n] = u]
    OBVIOUS
  <2>2. v[n] = u /\ (\A f \in Files : f # n => v[f] = want[f]) /\ v = [f \in Files |-> v[f]]
    BY <1>1, <2>1, OneWanted
  <2>3. o.ok /\ DiskOK(fs') /\ Kept(fs', Idle, v)
    <3>1. z <= fs.file[n].size /\ v[n] = SubSeq(want[n], 1, z) /\ fs' = o.fs
      BY <1>2, <1>6, <2>1, <2>2
    <3>2. \A f \in Files : f # n => v[f] = want[f]
      BY <2>2
    <3> QED BY <1>3, <1>4, <3>1, <3>2, ShrinkKept
  <2>4. job' = Idle /\ want' = v
    BY <1>6, <2>1, <2>3
  <2>5. Going'
    BY <2>4, EndsOfCalls DEF Going, NoFile, Failed
  <2> QED BY <2>2, <2>3, <2>4, <2>5, GoesOnKept
<1> QED BY <1>2, <1>3, <1>5, <1>6 DEF fstree_file_truncate

\* A step between two calls that leaves every file's contents alone.
LEMMA CarriesKept ==
  ASSUME NEW s, TreeGood(s), NEW j, NEW w, Kept(s, j, w), j.apps = <<>>, j.over = <<>>,
         NEW t, TreeGood(t), \A f \in Files : Carries(s, t, f)
  PROVE  /\ (Clean(s) => Clean(t)) => Kept(t, Idle, w)
         /\ \A f \in Files : Read(t, f) = w[f]
<1>1. ASSUME NEW f \in Files
      PROVE  Holds(t, f, w[f]) /\ Padded(t, f) /\ Read(t, f) = w[f] /\ FileKept(t, Idle, w, f)
  <2>1. Holds(s, f, w[f])
    BY KeptReturned
  <2>2. Holds(t, f, w[f])
    BY <2>1, CarriesHolds
  <2>3. Padded(s, f)
    BY DEF Kept
  <2>4. Padded(t, f)
    BY <2>3, CarriesByte
  <2>5. OnVolume(t, f)
    BY CarriesOnVolume
  <2>6. Read(t, f) = w[f]
    BY <2>2, <2>5, HoldsRead
  <2>7. t.file[f].size \in Nat
    BY DEF TreeGood, FileGood
  <2>8. PartOf(t, f, w[f], <<>>, 0, <<>>)
    BY <2>2, <2>7, HoldsPart
  <2>9. FileKept(t, Idle, w, f)
    BY <2>2, <2>8 DEF FileKept, Idle
  <2> QED BY <2>2, <2>4, <2>6, <2>9
<1>2. Tails(t)
  <2>1. Tails(s)
    BY DEF Kept
  <2>2. \A f \in Files : t.file[f].size = s.file[f].size /\ t.file[f].sparse = s.file[f].sparse
    BY DEF Carries
  <2> QED BY <2>1, <2>2 DEF Tails
<1>3. Clean(s)
  BY DEF Kept
<1> QED BY <1>1, <1>2, <1>3 DEF Kept

\* fstree_add_gap.
LEMMA GapKept ==
  ASSUME Before, NEW i \in Nat, NEW c \in 1..MaxGaps, fstree_add_gap(i, c)
  PROVE  ContNext
<1>1. Sound(fs) /\ Kept(fs, job, want) /\ TreeGood(fs) /\ TreeGood(fs') /\ want = [f \in Files |-> want[f]]
  BY BeforeFacts DEF Before
<1>2. job.apps = <<>> /\ job.over = <<>> /\ want' = want
  BY DEF fstree_add_gap, CanCall, Returned
<1>3. PICK r : r = AddGap(fs, i, c)
  OBVIOUS
<1>4. fs' = r.fs /\ job' = IF r.ok THEN Idle ELSE GaveUp
  BY <1>3 DEF fstree_add_gap
<1>5. GapSpot(fs, i)
  <2>1. i = 0 \/ \E f \in Files : PhysicalSize(fs.file[f]) # 0 /\ i = fs.file[f].start_index
    BY DEF fstree_add_gap
  <2>2. \A f \in Files : PhysicalSize(fs.file[f]) # 0 <=> Run(fs, f) # 0
    BY <1>1, RunFacts
  <2> QED BY <2>1, <2>2 DEF GapSpot, Start
<1>6. c \in Nat \ {0} /\ c <= MaxGaps
  BY FSTreeAssumption
<1>7. /\ DiskOK(r.fs) /\ \A f \in Files : Carries(fs, r.fs, f)
      /\ r.ok => (Clean(fs) => Clean(r.fs))
  BY <1>1, <1>3, <1>5, <1>6, GapDoes
<1>8. PICK t : t = fs'
  OBVIOUS
<1>9. TreeGood(t) /\ DiskOK(t) /\ (\A f \in Files : Carries(fs, t, f)) /\ (r.ok => (Clean(fs) => Clean(t)))
  BY <1>1, <1>4, <1>7, <1>8
<1>10. ((Clean(fs) => Clean(t)) => Kept(t, Idle, want)) /\ \A f \in Files : Read(t, f) = want[f]
  <2>1. TreeGood(fs) /\ Kept(fs, job, want) /\ job.apps = <<>> /\ job.over = <<>>
    BY <1>1, <1>2
  <2>2. TreeGood(t) /\ \A f \in Files : Carries(fs, t, f)
    BY <1>9
  <2> QED BY <2>1, <2>2, CarriesKept
<1>11. want' = [f \in Files |-> want'[f]]
  BY <1>1, <1>2
<1>12. CASE r.ok
  <2>1. job' = Idle
    BY <1>4, <1>12
  <2>2. Going'
    BY <2>1, EndsOfCalls DEF Going, NoFile, Failed
  <2>3. Kept(fs', job', want') /\ DiskOK(fs')
    BY <1>2, <1>8, <1>9, <1>10, <1>12, <2>1
  <2> QED BY <1>11, <2>2, <2>3, GoesOnKept
<1>13. CASE ~r.ok
  <2>1. job' = GaveUp
    BY <1>4, <1>13
  <2>2. DiskOK(fs') /\ \A f \in Files : Read(fs', f) = want'[f]
    BY <1>2, <1>8, <1>9, <1>10
  <2> QED BY <1>11, <2>1, <2>2, GivenUp
<1> QED BY <1>12, <1>13

-----------------------------------------------------------------------------
(***************************************************************************)
(* The calls through a file that is used as a volume.                      *)
(***************************************************************************)
LEMMA VolumeWhole ==
  ASSUME Before, IsVolume
  PROVE  \A z : Whole(z)
BY BeforeFacts, WholeUse DEF Before

\* fstree_file_volume_create.
LEMMA CreateKept ==
  ASSUME Before, NEW n \in Files, fstree_file_volume_create(n)
  PROVE  ContNext
<1>1. TreeGood(fs) /\ use \in Uses
  BY BeforeFacts
<1>2. IsVolume /\ CanCall /\ ~Opened(n) /\ fs' = fs
  BY DEF fstree_file_volume_create
<1>3. PICK d \in Nat \ {0}, r \in Nat, x \in Nat : d = use.blk /\ r = use.min /\ x = fs.file[n].size
  <2>1. use.blk \in Nat \ {0} /\ use.min \in Nat
    BY <1>1, <1>2, UseNumbers DEF IsVolume
  <2>2. fs.file[n].size \in Nat
    BY <1>1, SizeNat
  <2> QED BY <2>1, <2>2
<1>4. ~((x + d - 1) \div d >= r)
  BY <1>2, <1>3 DEF Opened, BlkCount
<1>5. r * d - x \in Nat \ {0}
  BY <1>4, FewerBytes
<1>6. PICK g \in Nat \ {0} : g = r * d - x
  BY <1>5
<1>7. Piece(Zeros(g))
  BY <1>2, VolumeWhole, ZerosPiece
<1>8. PICK e : e = Zeros(g)
  OBVIOUS
<1>9. Piece(e) /\ job' = [Idle EXCEPT !.file = n, !.apps = <<e>>] /\ want' = [want EXCEPT ![n] = @ \o e]
  BY <1>3, <1>6, <1>7, <1>8 DEF fstree_file_volume_create
<1> QED BY <1>2, <1>9, AppendStarts

\* fsvol_write_partial_block.
LEMMA VolumeWriteKept ==
  ASSUME Before, NEW n \in Files, NEW i \in Nat, NEW o \in Nat, NEW d \in use.buffers,
         fsvol_write_partial_block(n, i, o, d)
  PROVE  ContNext
<1>1. IsVolume /\ fstree_file_write(n, i * use.blk + o, d)
  BY DEF fsvol_write_partial_block, Opened
<1>2. use \in Uses
  BY BeforeFacts
<1>3. d \in Seq(Int) /\ d # <<>>
  <2>1. d \in Seq(Nat) /\ d # <<>>
    BY <1>2, BufferGood
  <2> QED BY <2>1
<1>4. i * use.blk + o \in Nat
  BY <1>2, VolumeOffsets
<1>5. Whole(i * use.blk + o) /\ Whole(Len(d))
  BY <1>1, VolumeWhole
<1> QED BY <1>1, <1>3, <1>4, <1>5, WriteStarts

\* fsvol_move_block_partial, which reads the data before it writes it.
LEMMA VolumeMoveKept ==
  ASSUME Before, NEW n \in Files, NEW src \in Nat, NEW dst \in Nat, NEW so \in Nat, NEW do \in Nat,
         NEW z \in Nat \ {0}, fsvol_move_block_partial(n, src, dst, so, do, z)
  PROVE  ContNext
<1>1. PICK d : d = fsvol_read_partial_block(n, src, so, z)
  OBVIOUS
<1>2. IsVolume /\ fstree_file_write(n, dst * use.blk + do, d)
  BY <1>1 DEF fsvol_move_block_partial, Opened
<1>3. use \in Uses /\ TreeGood(fs) /\ Sound(fs) /\ Kept(fs, job, want)
  BY BeforeFacts DEF Before
<1>4. job.apps = <<>> /\ job.over = <<>>
  BY <1>2 DEF fstree_file_write, CanCall, Returned
<1>5. Holds(fs, n, want[n])
  BY <1>3, <1>4, KeptReturned
<1>6. OnVolume(fs, n)
  BY <1>3, SoundOnVolume
<1>7. Read(fs, n) = want[n]
  BY <1>3, <1>5, <1>6, HoldsRead
<1>8. want[n] \in Seq(Int)
  BY <1>5 DEF Holds
<1>9. PICK at \in Nat : at = src * use.blk + so
  BY <1>3, VolumeOffsets
<1>10. PICK c \in Seq(Int) : c = want[n]
  BY <1>8
<1>11. d = [p \in 1..z |-> IF at + p <= Len(c) THEN c[at + p] ELSE 0]
  BY <1>1, <1>7, <1>9, <1>10 DEF fsvol_read_partial_block
<1>12. \A p \in 1..z : (IF at + p <= Len(c) THEN c[at + p] ELSE 0) \in Int
  <2>1. ASSUME NEW p \in 1..z, at + p <= Len(c) PROVE c[at + p] \in Int
    <3>1. at + p \in 1..Len(c)
      BY <2>1
    <3> QED BY <3>1
  <2> QED BY <2>1
<1>13. d \in [1..z -> Int]
  BY <1>11, <1>12
<1>14. d \in Seq(Int) /\ Len(d) = z
  BY <1>13
<1>15. d # <<>>
  BY <1>14
<1>16. dst * use.blk + do \in Nat
  BY <1>3, VolumeOffsets
<1>17. Whole(dst * use.blk + do) /\ Whole(Len(d))
  BY <1>2, VolumeWhole
<1> QED BY <1>2, <1>14, <1>15, <1>16, <1>17, WriteStarts

\* A product of two numbers that are not zero.
LEMMA Times ==
  ASSUME NEW x \in Nat \ {0}, NEW y \in Nat \ {0}
  PROVE  x * y \in Nat \ {0}
OBVIOUS

\* There is something left to append.
LEMMA LoopGoes ==
  ASSUME NEW g, job'.apps = <<g>>
  PROVE  Going'
BY DEF Going

\* fsvol_discard_blocks in the middle of the file.
LEMMA DiscardMiddle ==
  ASSUME Before, NEW n \in Files, NEW i \in Nat, NEW c \in Nat \ {0}, IsVolume,
         fstree_file_write(n, i * use.blk, Zeros(c * use.blk))
  PROVE  ContNext
<1>1. use \in Uses
  BY BeforeFacts
<1>2. use.blk \in Nat \ {0}
  BY <1>1, UseNumbers DEF IsVolume
<1>3. c * use.blk \in Nat \ {0}
  BY <1>2, Times
<1>4. PICK g \in Nat \ {0} : g = c * use.blk
  BY <1>3
<1>5. PICK d : d = Zeros(g)
  OBVIOUS
<1>6. Whole(g) /\ Whole(Len(d)) /\ Whole(i * use.blk)
  BY VolumeWhole
<1>7. d \in Seq(Int) /\ Len(d) = g
  BY <1>5, <1>6, ZerosPiece
<1>8. d # <<>>
  BY <1>7
<1>9. PICK off \in Nat : off = i * use.blk
  BY <1>2
<1>10. fstree_file_write(n, off, d) /\ Whole(off)
  BY <1>4, <1>5, <1>6, <1>9
<1> QED BY <1>6, <1>7, <1>8, <1>10, WriteStarts

\* fsvol_discard_blocks at the end of the file.
LEMMA DiscardEnd ==
  ASSUME Before, CanCall, NEW n \in Files, NEW z \in Nat, z <= fs.file[n].size, Whole(z),
         NEW g, g = <<>> \/ Piece(g),
         NEW o, o = Shrink(fs, n, z), fs' = o.fs,
         job' = IF ~o.ok THEN GaveUp
                ELSE IF g = <<>> THEN Idle ELSE [Idle EXCEPT !.file = n, !.apps = <<g>>],
         want' = [want EXCEPT ![n] = IF o.ok THEN SubSeq(@, 1, z) \o g ELSE Read(o.fs, n)]
  PROVE  ContNext
<1>1. TreeGood(fs) /\ TreeGood(fs') /\ want = [f \in Files |-> want[f]]
  BY BeforeFacts DEF Before
<1>2. PICK u, v : u = SubSeq(want[n], 1, z) /\ v = [want EXCEPT ![n] = u]
  OBVIOUS
<1>3. v[n] = u /\ (\A f \in Files : f # n => v[f] = want[f]) /\ v = [f \in Files |-> v[f]]
  BY <1>1, <1>2, OneWanted
<1>4. o.ok /\ DiskOK(fs') /\ Kept(fs', Idle, v)
  <2>1. v[n] = SubSeq(want[n], 1, z)
    BY <1>2, <1>3
  <2>2. \A f \in Files : f # n => v[f] = want[f]
    BY <1>3
  <2> QED BY <2>1, <2>2, ShrinkKept
<1>5. Holds(fs', n, u)
  <2>1. Holds(fs', n, v[n])
    BY <1>1, <1>4, EndsOfCalls, KeptReturned
  <2> QED BY <1>3, <2>1
<1>6. PICK y : y = u \o g
  OBVIOUS
<1>7. want' = [want EXCEPT ![n] = y]
  BY <1>2, <1>4, <1>6
<1>8. PICK w : w = want'
  OBVIOUS
<1>9. w[n] = y /\ (\A f \in Files : f # n => w[f] = want[f]) /\ w = [f \in Files |-> w[f]]
  BY <1>1, <1>7, <1>8, OneWanted
<1>10. \A f \in Files : f # n => w[f] = v[f]
  BY <1>3, <1>9
<1>11. CASE g = <<>>
  <2>1. u \in Seq(Int)
    BY <1>5 DEF Holds
  <2>2. y = u
    BY <1>6, <1>11, <2>1
  <2>3. w = v
    BY <1>2, <1>7, <1>8, <2>2
  <2>4. job' = Idle
    BY <1>4, <1>11
  <2>5. Going'
    BY <2>4, EndsOfCalls DEF Going, NoFile, Failed
  <2>6. Kept(fs', job', want') /\ DiskOK(fs')
    BY <1>4, <1>8, <2>3, <2>4
  <2>7. want' = [f \in Files |-> want'[f]]
    BY <1>8, <1>9
  <2> QED BY <2>5, <2>6, <2>7, GoesOnKept
<1>12. CASE g # <<>>
  <2>1. Piece(g)
    BY <1>12
  <2>2. PartOf(fs', n, y, <<g>>, 0, <<>>)
    BY <1>5, <1>6, <2>1, StartAppend
  <2>3. job' = [Idle EXCEPT !.file = n, !.apps = <<g>>]
    BY <1>4, <1>12
  <2>4. PICK k, t : k = job' /\ t = fs'
    OBVIOUS
  <2>5. k.file = n /\ k.apps = <<g>> /\ k.off = 0 /\ k.over = <<>>
    BY <2>3, <2>4 DEF Idle
  <2>6. PartOf(t, n, w[n], k.apps, k.off, k.over)
    BY <1>9, <2>2, <2>4, <2>5
  <2>7. Kept(t, k, w)
    <3>1. TreeGood(t) /\ Kept(t, Idle, v) /\ Idle.apps = <<>> /\ Idle.over = <<>> /\ k.file = n
      BY <1>1, <1>4, <2>4, <2>5, EndsOfCalls
    <3> QED BY <1>10, <2>6, <3>1, KeptCall
  <2>8. Going'
    <3>1. job'.apps = <<g>>
      BY <2>4, <2>5
    <3> QED BY <3>1, LoopGoes
  <2>9. want' = [f \in Files |-> want'[f]]
    BY <1>8, <1>9
  <2>10. Kept(fs', job', want') /\ DiskOK(fs')
    BY <1>4, <1>8, <2>4, <2>7
  <2> QED BY <2>8, <2>9, <2>10, GoesOnKept
<1> QED BY <1>11, <1>12

\* fsvol_discard_blocks.
LEMMA DiscardKept ==
  ASSUME Before, NEW n \in Files, NEW i \in Nat, NEW c \in Nat \ {0}, fsvol_discard_blocks(n, i, c)
  PROVE  ContNext
<1>1. CanCall /\ IsVolume
  BY DEF fsvol_discard_blocks, Opened
<1>2. TreeGood(fs) /\ use \in Uses
  BY BeforeFacts
<1>3. PICK d \in Nat \ {0}, m \in Nat : d = use.blk /\ m = use.min
  <2>1. use.blk \in Nat \ {0} /\ use.min \in Nat
    BY <1>1, <1>2, UseNumbers DEF IsVolume
  <2> QED BY <2>1
<1>4. PICK x \in Nat : x = fs.file[n].size
  BY <1>2, SizeNat
<1>5. i < (x + d - 1) \div d
  BY <1>3, <1>4 DEF fsvol_discard_blocks, BlkCount
<1>6. PICK z \in Nat : z = i * d /\ z <= x
  BY <1>5, BeforeEnd
<1>7. PICK o : o = Shrink(fs, n, z)
  OBVIOUS
<1>8. PICK g : g = IF i < m THEN Zeros((m - i) * d) ELSE <<>>
  OBVIOUS
<1>9. CASE fstree_file_write(n, i * use.blk, Zeros(c * use.blk))
  BY <1>1, <1>9, DiscardMiddle
<1>10. CASE /\ fs' = o.fs
            /\ job' = IF ~o.ok THEN GaveUp
                      ELSE IF g = <<>> THEN Idle ELSE [Idle EXCEPT !.file = n, !.apps = <<g>>]
            /\ want' = [want EXCEPT ![n] = IF o.ok THEN SubSeq(@, 1, z) \o g ELSE Read(o.fs, n)]
  <2>1. g = <<>> \/ Piece(g)
    <3>1. CASE i < m
      <4>1. m - i \in Nat \ {0}
        BY <3>1
      <4>2. (m - i) * d \in Nat \ {0}
        BY <4>1, Times
      <4>3. PICK y \in Nat \ {0} : y = (m - i) * d
        BY <4>2
      <4>4. Piece(Zeros(y))
        BY <1>1, VolumeWhole, ZerosPiece
      <4> QED BY <1>8, <3>1, <4>3, <4>4
    <3> QED BY <1>8, <3>1
  <2>2. z <= fs.file[n].size /\ Whole(z)
    BY <1>1, <1>4, <1>6, VolumeWhole
  <2> QED BY <1>1, <1>7, <1>10, <2>1, <2>2, DiscardEnd
<1> QED BY <1>3, <1>6, <1>7, <1>8, <1>9, <1>10 DEF fsvol_discard_blocks

-----------------------------------------------------------------------------
(***************************************************************************)
(* The turns of the loops.                                                 *)
(***************************************************************************)
\* What a turn has to show: it did o to file n, k of the call is left.
Turns(s, w, n, o, k) ==
  /\ DiskOK(o.fs) /\ \A f \in Files : f # n => Carries(s, o.fs, f)
  /\ o.ok => /\ (Clean(s) => Clean(o.fs)) /\ Tails(o.fs) /\ Padded(o.fs, n)
             /\ PartOf(o.fs, n, w[n], k.apps, k.off, k.over)

\* A turn that succeeds.
LEMMA TurnWell ==
  ASSUME Before, NEW n \in Files, n = job.file, NEW o, NEW k, k.file = n, Turns(fs, want, n, o, k),
         o.ok, fs' = o.fs, want' = want,
         job' = IF k.apps = <<>> /\ k.over = <<>> THEN Idle ELSE k
  PROVE  ContNext
<1>1. TreeGood(fs) /\ TreeGood(fs') /\ want = [f \in Files |-> want[f]] /\ Kept(fs, job, want)
  BY BeforeFacts DEF Before
<1>2. PICK t : t = o.fs /\ t = fs'
  OBVIOUS
<1>3. /\ DiskOK(t) /\ \A f \in Files : f # n => Carries(fs, t, f)
      /\ (Clean(fs) => Clean(t)) /\ Tails(t) /\ Padded(t, n)
      /\ PartOf(t, n, want[n], k.apps, k.off, k.over)
  BY <1>2 DEF Turns
<1>4. TreeGood(fs) /\ TreeGood(t) /\ Kept(fs, job, want)
  BY <1>1, <1>2
<1>5. Kept(t, k, want)
  BY <1>3, <1>4, KeptStep
<1>6. want' = [f \in Files |-> want'[f]] /\ DiskOK(fs')
  BY <1>1, <1>2, <1>3
<1>7. CASE k.apps = <<>> /\ k.over = <<>>
  <2>1. Kept(t, Idle, want)
    BY <1>4, <1>5, <1>7, KeptIdle
  <2>2. job' = Idle
    BY <1>7
  <2>3. Going'
    BY <2>2, EndsOfCalls DEF Going, NoFile, Failed
  <2>4. Kept(fs', job', want')
    BY <1>2, <2>1, <2>2
  <2> QED BY <1>6, <2>3, <2>4, GoesOnKept
<1>8. CASE ~(k.apps = <<>> /\ k.over = <<>>)
  <2>1. job' = k
    BY <1>8
  <2>2. Going'
    BY <1>8, <2>1 DEF Going
  <2>3. Kept(fs', job', want')
    BY <1>2, <1>5, <2>1
  <2> QED BY <1>6, <2>2, <2>3, GoesOnKept
<1> QED BY <1>7, <1>8

\* A turn that fails.
LEMMA TurnFails ==
  ASSUME Before, NEW n \in Files, n = job.file, NEW o, NEW k, Turns(fs, want, n, o, k),
         fs' = o.fs, want' = [want EXCEPT ![n] = Read(o.fs, n)], job' = GaveUp
  PROVE  ContNext
<1>1. TreeGood(fs) /\ TreeGood(fs') /\ want = [f \in Files |-> want[f]] /\ Kept(fs, job, want)
  BY BeforeFacts DEF Before
<1>2. PICK t, v, u : t = fs' /\ v = want' /\ u = Read(t, n)
  OBVIOUS
<1>3. v = [want EXCEPT ![n] = u]
  BY <1>2
<1>4. v[n] = u /\ (\A f \in Files : f # n => v[f] = want[f]) /\ v = [f \in Files |-> v[f]]
  BY <1>1, <1>3, OneWanted
<1>5. DiskOK(t) /\ \A f \in Files : f # n => Carries(fs, t, f)
  BY <1>2 DEF Turns
<1>6. TreeGood(fs) /\ TreeGood(t) /\ Kept(fs, job, want) /\ \A f \in Files : f # n => v[f] = want[f]
  BY <1>1, <1>2, <1>4
<1>7. ASSUME NEW f \in Files PROVE Read(t, f) = v[f]
  <2>1. CASE f = n
    BY <1>2, <1>4, <2>1
  <2>2. CASE f # n
    BY <1>5, <1>6, <2>2, FailedReads
  <2> QED BY <2>1, <2>2
<1>8. DiskOK(fs') /\ \A f \in Files : Read(fs', f) = want'[f]
  BY <1>2, <1>5, <1>7
<1>9. want' = [f \in Files |-> want'[f]]
  BY <1>2, <1>4
<1> QED BY <1>8, <1>9, GivenUp

\* Either of them.
LEMMA TurnKept ==
  ASSUME Before, NEW n \in Files, n = job.file, NEW o, NEW k, k.file = n, Turns(fs, want, n, o, k),
         Outcome(o, n, k)
  PROVE  ContNext
<1>1. /\ fs' = o.fs
      /\ job' = IF ~o.ok THEN GaveUp
                ELSE IF k.apps = <<>> /\ k.over = <<>> THEN Idle ELSE k
      /\ want' = IF o.ok THEN want ELSE [want EXCEPT ![n] = Read(o.fs, n)]
  BY DEF Outcome
<1>2. CASE o.ok
  <2>1. fs' = o.fs /\ want' = want /\ job' = IF k.apps = <<>> /\ k.over = <<>> THEN Idle ELSE k
    BY <1>1, <1>2
  <2> QED BY <1>2, <2>1, TurnWell
<1>3. CASE ~o.ok
  <2>1. fs' = o.fs /\ want' = [want EXCEPT ![n] = Read(o.fs, n)] /\ job' = GaveUp
    BY <1>1, <1>3
  <2> QED BY <2>1, TurnFails
<1> QED BY <1>2, <1>3

\* What a turn has done to the tree s: it was to leave a, o, v of the contents c.
Progress(s, r, n, c, a, o, v) ==
  /\ DiskOK(r.fs) /\ \A f \in Files : f # n => Carries(s, r.fs, f)
  /\ r.ok => /\ (Clean(s) => Clean(r.fs)) /\ Tails(r.fs) /\ Padded(r.fs, n)
             /\ PartOf(r.fs, n, c, a, o, v)
             /\ r.fs.file[n].size >= s.file[n].size

\* One turn of the loop of fstree_file_append.
LEMMA AppendTurns ==
  ASSUME NEW s, Sound(s), Tails(s), NEW n \in Files, Padded(s, n), NEW c, NEW a, NEW o \in Nat, NEW v,
         PartOf(s, n, c, a, o, v), a # <<>>, NEW z \in Nat, z = s.file[n].size,
         NEW m, InOne(m, z, Len(Head(a))), NEW r, r = AppendStep(s, n, SubSeq(Head(a), 1, m))
  PROVE  /\ Progress(s, r, n, c, AheadRest(a, m), o, v)
         /\ ~r.ok => Carries(s, r.fs, n)
<1>1. TreeGood(s)
  BY DEF Sound
<1>2. Piece(Head(a))
  <2>1. Ahead(c, z, a)
    BY DEF PartOf
  <2> QED BY <2>1, AheadFirst
<1>3. PICK d \in Seq(Int) : d = Head(a)
  BY <1>2 DEF Piece
<1>4. PICK w \in Nat \ {0} : w = Len(d)
  <2>1. Len(d) \in Nat \ {0}
    BY <1>2, <1>3 DEF Piece
  <2> QED BY <2>1
<1>5. PICK b \in Nat \ {0}, q \in Nat, k \in Nat, e \in Nat :
         b = BlockSize /\ Lies(z, q, k, e) /\ z = e + k /\ k < b
  BY LiesIn
<1>6. m \in Nat /\ m <= b - k /\ m <= w /\ m \in {b - k, w}
  <2>1. InOne(m, z, w)
    BY <1>3, <1>4
  <2>2. k = z % BlockSize
    BY <1>5 DEF Lies
  <2> QED BY <1>5, <2>1, <2>2, InOneFacts
<1>7. m # 0
  BY <1>5, <1>6
<1>8. PICK x : x = SubSeq(d, 1, m)
  OBVIOUS
<1>9. x \in Seq(Int) /\ Len(x) = m
  <2>1. FirstOnes(SubSeq(d, 1, m), d, m)
    BY <1>4, <1>6, CutParts
  <2> QED BY <1>8, <2>1 DEF FirstOnes
<1>10. r = AppendStep(s, n, x) /\ Len(x) # 0 /\ Len(x) <= BlockSize - (z % BlockSize)
  <2>1. k = z % BlockSize
    BY <1>5 DEF Lies
  <2>2. Len(x) <= BlockSize - (z % BlockSize)
    BY <1>5, <1>6, <1>9, <2>1
  <2> QED BY <1>3, <1>7, <1>8, <1>9, <2>2
<1>11. /\ Does(s, r, n, z + Len(x), z \div BlockSize, z % BlockSize, x)
       /\ ~r.ok => \A f \in Files : Carries(s, r.fs, f)
  BY <1>9, <1>10, AppendDoes
<1>12. PICK t : t = r.fs
  OBVIOUS
<1>13. /\ DiskOK(t) /\ \A f \in Files : f # n => Carries(s, t, f)
       /\ r.ok => /\ Puts(s, t, n, z + m, z \div BlockSize, z % BlockSize, x)
                  /\ (Clean(s) => Clean(t))
  BY <1>9, <1>11, <1>12 DEF Does
<1>14. (NoSparse => s.file[n].sparse = <<>>) /\ Whole(z)
  BY TailsWhole
<1>15. ASSUME r.ok
       PROVE  /\ Tails(t) /\ Padded(t, n) /\ PartOf(t, n, c, AheadRest(a, m), o, v)
              /\ t.file[n].size >= s.file[n].size
  <2>1. Puts(s, t, n, z + m, z \div BlockSize, z % BlockSize, SubSeq(Head(a), 1, m))
    BY <1>3, <1>8, <1>13, <1>15
  <2>2. PartOf(t, n, c, AheadRest(a, m), o, v) /\ Whole(z + m)
    BY <1>1, <1>6, <1>14, <2>1, AppendPart
  <2>3. t.file[n].size = z + m
    BY <2>1 DEF Puts
  <2>4. Padded(t, n)
    <3>1. PICK y \in Nat : y = z + m
      BY <1>6
    <3>2. q = z \div BlockSize /\ k = z % BlockSize /\ e = BlockSize * q
      BY <1>5 DEF Lies
    <3>3. Puts(s, t, n, y, q, k, x)
      BY <1>13, <1>15, <3>1, <3>2
    <3>4. y >= s.file[n].size /\ y >= BlockSize * q + k + Len(x)
      <4>1. y >= z /\ y >= e + k + m
        BY <1>5, <1>6, <3>1
      <4>2. BlockSize * q = e /\ Len(x) = m
        BY <1>9, <3>2
      <4>3. BlockSize * q + k + Len(x) = e + k + m
        BY <4>2
      <4> QED BY <4>1, <4>3
    <3> QED BY <1>1, <1>9, <3>3, <3>4, PutPadded
  <2>5. Tails(t)
    <3>1. \A f \in Files : f # n => t.file[f].size = s.file[f].size /\ t.file[f].sparse = s.file[f].sparse
      BY <1>13 DEF Carries
    <3>2. Whole(t.file[n].size)
      BY <2>2, <2>3
    <3>3. NoSparse /\ s.file[n].sparse = <<>> => t.file[n].sparse = <<>>
      BY <1>1, <1>10, <1>12, AppendLists
    <3> QED BY <3>1, <3>2, <3>3, TailsOn
  <2>6. t.file[n].size >= s.file[n].size
    BY <1>6, <2>3
  <2> QED BY <2>2, <2>4, <2>5, <2>6
<1>16. Progress(s, r, n, c, AheadRest(a, m), o, v)
  BY <1>12, <1>13, <1>15 DEF Progress
<1> QED BY <1>11, <1>16

\* One turn of the loop of fstree_file_write.
LEMMA WriteTurns ==
  ASSUME NEW s, Sound(s), Tails(s), NEW n \in Files, Padded(s, n), NEW c, NEW o \in Nat, NEW v,
         PartOf(s, n, c, <<>>, o, v), v # <<>>, NEW m, InOne(m, o, Len(v)),
         NEW r, r = WriteStep(s, n, o \div BlockSize, o % BlockSize, SubSeq(v, 1, m))
  PROVE  Progress(s, r, n, c, <<>>, o + m, SubSeq(v, m + 1, Len(v)))
<1>1. TreeGood(s)
  BY DEF Sound
<1>2. PICK z \in Nat : z = s.file[n].size
  BY <1>1 DEF TreeGood, FileGood
<1>3. v \in Seq(Int) /\ o + Len(v) <= z
  BY <1>2 DEF PartOf
<1>4. PICK w \in Nat \ {0} : w = Len(v)
  BY <1>3
<1>5. PICK b \in Nat \ {0}, q \in Nat, k \in Nat, e \in Nat :
         b = BlockSize /\ Lies(o, q, k, e) /\ o = e + k /\ k < b
  BY LiesIn
<1>6. m \in Nat /\ m <= b - k /\ m <= w /\ m \in {b - k, w}
  <2>1. InOne(m, o, w)
    BY <1>4
  <2>2. k = o % BlockSize
    BY <1>5 DEF Lies
  <2> QED BY <1>5, <2>1, <2>2, InOneFacts
<1>7. PICK x : x = SubSeq(v, 1, m)
  OBVIOUS
<1>8. x \in Seq(Int) /\ Len(x) = m
  <2>1. FirstOnes(SubSeq(v, 1, m), v, m)
    BY <1>3, <1>4, <1>6, CutParts
  <2> QED BY <1>7, <2>1 DEF FirstOnes
<1>9. q = o \div BlockSize /\ k = o % BlockSize /\ e = BlockSize * q
  BY <1>5 DEF Lies
<1>10. q < BlocksFor(z)
  <2>1. \A y \in Nat : y > o => o \div BlockSize \in Nat /\ o \div BlockSize < BlocksFor(y)
    BY BlocksForFacts
  <2>2. z > o
    BY <1>3, <1>4
  <2> QED BY <1>9, <2>1, <2>2
<1>11. r = WriteStep(s, n, q, k, x)
  BY <1>7, <1>9
<1>12. Does(s, r, n, z, q, k, x)
  BY <1>2, <1>8, <1>10, <1>11, WriteDoes
<1>13. PICK t : t = r.fs
  OBVIOUS
<1>14. /\ DiskOK(t) /\ \A f \in Files : f # n => Carries(s, t, f)
       /\ r.ok => Puts(s, t, n, z, q, k, x) /\ (Clean(s) => Clean(t))
  BY <1>12, <1>13 DEF Does
<1>15. (NoSparse => s.file[n].sparse = <<>>) /\ Whole(z)
  BY <1>2, TailsWhole
<1>16. ASSUME r.ok
       PROVE  /\ Tails(t) /\ Padded(t, n) /\ PartOf(t, n, c, <<>>, o + m, SubSeq(v, m + 1, Len(v)))
              /\ t.file[n].size >= s.file[n].size
  <2>1. Puts(s, t, n, z, o \div BlockSize, o % BlockSize, SubSeq(v, 1, m))
    BY <1>7, <1>9, <1>14, <1>16
  <2>2. PartOf(t, n, c, <<>>, o + m, SubSeq(v, m + 1, Len(v)))
    BY <1>1, <1>2, <1>6, <2>1, WritePart
  <2>3. t.file[n].size = z
    BY <2>1 DEF Puts
  <2>4. Padded(t, n)
    <3>1. Puts(s, t, n, z, q, k, x)
      BY <1>14, <1>16
    <3>2. z >= s.file[n].size /\ z >= BlockSize * q + k + Len(x)
      <4>1. z >= e + k + m
        BY <1>3, <1>4, <1>5, <1>6
      <4>2. BlockSize * q = e /\ Len(x) = m
        BY <1>8, <1>9
      <4>3. BlockSize * q + k + Len(x) = e + k + m
        BY <4>2
      <4> QED BY <1>2, <4>1, <4>3
    <3> QED BY <1>1, <1>8, <3>1, <3>2, PutPadded
  <2>5. Tails(t)
    <3>1. \A f \in Files : f # n => t.file[f].size = s.file[f].size /\ t.file[f].sparse = s.file[f].sparse
      BY <1>14 DEF Carries
    <3>2. Whole(t.file[n].size)
      BY <1>15, <2>3
    <3>3. NoSparse /\ s.file[n].sparse = <<>> => t.file[n].sparse = <<>>
      BY <1>1, <1>11, <1>13, WriteLists
    <3> QED BY <3>1, <3>2, <3>3, TailsOn
  <2>6. t.file[n].size >= s.file[n].size
    BY <1>2, <2>3
  <2> QED BY <2>2, <2>4, <2>5, <2>6
<1> QED BY <1>13, <1>14, <1>16 DEF Progress

\* What is left of a call that has written up to o.
Onward(j, o, v) == [j EXCEPT !.off = o, !.over = v]

\* The fields of the job after a turn of either loop.
LEMMA JobUpdates ==
  ASSUME NEW j, j = JobOf(j.file, j.apps, j.off, j.over), NEW a, NEW o, NEW v
  PROVE  /\ [j EXCEPT !.apps = a] = JobOf(j.file, a, j.off, j.over)
         /\ Onward(j, o, v) = JobOf(j.file, j.apps, o, v)
<1>1. PICK f, b, p, w : f = j.file /\ b = j.apps /\ p = j.off /\ w = j.over
  OBVIOUS
<1>2. j = [file |-> f, apps |-> b, off |-> p, over |-> w]
  BY <1>1 DEF JobOf
<1>3. [j EXCEPT !.apps = a] = [file |-> f, apps |-> a, off |-> p, over |-> w]
  BY <1>2
<1>4. [j EXCEPT !.off = o, !.over = v] = [file |-> f, apps |-> b, off |-> o, over |-> v]
  <2>1. [j EXCEPT !.off = o, !.over = v] = [[j EXCEPT !.off = o] EXCEPT !.over = v]
    BY <1>2
  <2>2. PICK k : k = [j EXCEPT !.off = o]
    OBVIOUS
  <2>3. k = [file |-> f, apps |-> b, off |-> o, over |-> w]
    BY <1>2, <2>2
  <2>4. [k EXCEPT !.over = v] = [file |-> f, apps |-> b, off |-> o, over |-> v]
    BY <2>3
  <2> QED BY <2>1, <2>2, <2>4
<1> QED BY <1>1, <1>3, <1>4 DEF JobOf, Onward

\* The file of the call in progress.
LEMMA JobPart ==
  ASSUME Before, job.apps # <<>> \/ job.over # <<>>
  PROVE  /\ job.file \in Files /\ job = JobOf(job.file, job.apps, job.off, job.over) /\ job.off \in Nat
         /\ PartOf(fs, job.file, want[job.file], job.apps, job.off, job.over)
         /\ Padded(fs, job.file)
<1>1. JobGood(job, fs)
  BY BeforeFacts
<1>2. Kept(fs, job, want)
  BY DEF Before
<1>3. job.file \in Files /\ job = JobOf(job.file, job.apps, job.off, job.over) /\ job.off \in Nat
  BY <1>1 DEF JobGood
<1> QED BY <1>2, <1>3 DEF Kept, FileKept

\* The part of a turn that the properties of the contents need.
AppendGoes(n, o, a) ==
  /\ n = job.file /\ fs' = o.fs /\ Outcome(o, n, JobOf(n, a, job.off, job.over))
  /\ Progress(fs, o, n, want[n], a, job.off, job.over)
  /\ ~o.ok => Carries(fs, o.fs, n)

\* Every turn of the loop of fstree_file_append is of that kind.
LEMMA AppendParts ==
  ASSUME Before, AppendIteration
  PROVE  \E n \in Files : \E o, a : AppendGoes(n, o, a)
<1>1. job.apps # <<>>
  BY DEF AppendIteration
<1>2. PICK n \in Files : n = job.file
  BY <1>1, JobPart
<1>3. PICK c, b, p, v : c = want[n] /\ b = job.apps /\ p = job.off /\ v = job.over
  OBVIOUS
<1>4. PartOf(fs, n, c, b, p, v) /\ p \in Nat /\ b # <<>> /\ Padded(fs, n)
  BY <1>1, <1>2, <1>3, JobPart
<1>5. Sound(fs) /\ Tails(fs) /\ TreeGood(fs)
  BY BeforeFacts DEF Before
<1>6. PICK z \in Nat : z = fs.file[n].size
  BY <1>5, SizeNat
<1>7. PICK m : m = Min({BlockSize - (z % BlockSize), Len(Head(b))})
  OBVIOUS
<1>8. InOne(m, z, Len(Head(b)))
  BY <1>7 DEF InOne
<1>9. PICK o : o = AppendStep(fs, n, SubSeq(Head(b), 1, m))
  OBVIOUS
<1>10. PICK a : a = AheadRest(b, m)
  OBVIOUS
<1>11. Progress(fs, o, n, c, AheadRest(b, m), p, v) /\ (~o.ok => Carries(fs, o.fs, n))
  BY <1>4, <1>5, <1>6, <1>8, <1>9, AppendTurns, SMTT(30)
<1>12. Outcome(o, n, [job EXCEPT !.apps = a])
  BY <1>2, <1>3, <1>6, <1>7, <1>9, <1>10 DEF AppendIteration, AheadRest
<1>13. [job EXCEPT !.apps = a] = JobOf(n, a, p, v)
  BY <1>1, <1>2, <1>3, JobPart, JobUpdates
<1>14. Outcome(o, n, JobOf(n, a, p, v))
  BY <1>12, <1>13
<1>15. fs' = o.fs
  BY <1>14 DEF Outcome
<1> QED BY <1>2, <1>3, <1>10, <1>11, <1>14, <1>15 DEF AppendGoes

\* A turn of the loop of fstree_file_append keeps the invariant.
LEMMA AppendKept ==
  ASSUME Before, AppendIteration
  PROVE  ContNext
<1>1. PICK n \in Files : \E o, a : AppendGoes(n, o, a)
  BY AppendParts
<1>2. PICK o, a : AppendGoes(n, o, a)
  BY <1>1
<1>3. PICK p, v : p = job.off /\ v = job.over
  OBVIOUS
<1>4. n = job.file /\ Outcome(o, n, JobOf(n, a, p, v)) /\ Progress(fs, o, n, want[n], a, p, v)
  BY <1>2, <1>3 DEF AppendGoes
<1>5. PICK k : k = JobOf(n, a, p, v)
  OBVIOUS
<1>6. k.file = n /\ k.apps = a /\ k.off = p /\ k.over = v
  BY <1>5 DEF JobOf
<1>7. Turns(fs, want, n, o, k)
  BY <1>4, <1>6 DEF Turns, Progress
<1>8. Outcome(o, n, k)
  BY <1>4, <1>5
<1> QED BY <1>4, <1>6, <1>7, <1>8, TurnKept

\* A turn of the loop of fstree_file_write keeps the invariant.
LEMMA WriteKept ==
  ASSUME Before, WriteIteration
  PROVE  ContNext
<1>1. job.apps = <<>> /\ job.over # <<>>
  BY DEF WriteIteration
<1>2. PICK n \in Files : n = job.file
  BY <1>1, JobPart
<1>3. PICK c, p, v : c = want[n] /\ p = job.off /\ v = job.over
  OBVIOUS
<1>4. PartOf(fs, n, c, <<>>, p, v) /\ p \in Nat /\ v # <<>> /\ Padded(fs, n)
  BY <1>1, <1>2, <1>3, JobPart
<1>5. Sound(fs) /\ Tails(fs)
  BY BeforeFacts DEF Before
<1>6. PICK m : m = Min({BlockSize - (p % BlockSize), Len(v)})
  OBVIOUS
<1>7. InOne(m, p, Len(v))
  BY <1>6 DEF InOne
<1>8. PICK o : o = WriteStep(fs, n, p \div BlockSize, p % BlockSize, SubSeq(v, 1, m))
  OBVIOUS
<1>9. Progress(fs, o, n, c, <<>>, p + m, SubSeq(v, m + 1, Len(v)))
  BY <1>4, <1>5, <1>7, <1>8, WriteTurns
<1>10. PICK y, u : y = p + m /\ u = SubSeq(v, m + 1, Len(v))
  OBVIOUS
<1>11. Outcome(o, n, Onward(job, y, u))
  BY <1>2, <1>3, <1>6, <1>8, <1>10 DEF WriteIteration, Onward
<1>12. Onward(job, y, u) = JobOf(n, <<>>, y, u)
  <2>1. job = JobOf(job.file, job.apps, job.off, job.over)
    BY <1>1, JobPart
  <2>2. Onward(job, y, u) = JobOf(job.file, job.apps, y, u)
    BY <2>1, JobUpdates
  <2> QED BY <1>1, <1>2, <2>2
<1>13. PICK k : k = JobOf(n, <<>>, y, u)
  OBVIOUS
<1>14. k.file = n /\ k.apps = <<>> /\ k.off = y /\ k.over = u
  BY <1>13 DEF JobOf
<1>15. Turns(fs, want, n, o, k)
  BY <1>3, <1>9, <1>10, <1>14 DEF Turns, Progress
<1>16. Outcome(o, n, k)
  BY <1>11, <1>12, <1>13
<1> QED BY <1>2, <1>14, <1>15, <1>16, TurnKept

-----------------------------------------------------------------------------
(***************************************************************************)
(* Every step, and the invariant.                                          *)
(***************************************************************************)
LEMMA CallsKept ==
  ASSUME Before, NEW n \in Files, Calls(n)
  PROVE  ContNext
<1>1. use \in Uses /\ ~SparseTails
  BY BeforeFacts DEF Before
<1>2. /\ \A d \in use.buffers : Piece(d)
      /\ \A z \in use.sizes : Whole(z)
      /\ use.sizes \subseteq Nat
  BY <1>1, WholeUse, UseNumbers
<1>3. CASE \E d \in use.buffers : fstree_file_append(n, d)
  <2>1. PICK d \in use.buffers : fstree_file_append(n, d)
    BY <1>3
  <2>2. /\ CanCall /\ fs' = fs /\ job' = [Idle EXCEPT !.file = n, !.apps = <<d>>]
        /\ want' = [want EXCEPT ![n] = @ \o d]
    BY <2>1 DEF fstree_file_append
  <2>3. Piece(d)
    BY <1>2
  <2> QED BY <2>2, <2>3, AppendStarts
<1>4. CASE \E o \in use.sizes, d \in use.buffers : fstree_file_write(n, o, d)
  <2>1. PICK o \in use.sizes, d \in use.buffers : fstree_file_write(n, o, d)
    BY <1>4
  <2>2. Piece(d) /\ Whole(o) /\ o \in Nat
    BY <1>2
  <2>3. d \in Seq(Int) /\ d # <<>> /\ Whole(Len(d))
    BY <2>2 DEF Piece
  <2> QED BY <2>1, <2>2, <2>3, WriteStarts
<1>5. CASE \E z \in use.sizes : fstree_file_truncate(n, z)
  BY <1>2, <1>5, TruncateKept
<1> QED BY <1>3, <1>4, <1>5 DEF Calls

\* The calls on a file used as a volume keep the invariant.
LEMMA VolumeKept ==
  ASSUME Before, NEW n \in Files, Volume(n)
  PROVE  ContNext
<1>1. use \in Uses
  BY BeforeFacts
<1>2. use.max \in Nat /\ use.blk \in Nat /\ use.sizes \subseteq Nat
  BY <1>1, UseNumbers
<1>3. 0..use.max - 1 \subseteq Nat /\ 1..use.max \subseteq Nat \ {0} /\ 0..use.blk - 1 \subseteq Nat
      /\ use.sizes \ {0} \subseteq Nat \ {0}
  BY <1>2
<1>4. CASE fstree_file_volume_create(n)
  BY <1>4, CreateKept
<1>5. CASE \E i \in 0..use.max - 1, o \in 0..use.blk - 1, d \in use.buffers :
             fsvol_write_partial_block(n, i, o, d)
  BY <1>3, <1>5, VolumeWriteKept
<1>6. CASE \E i, j \in 0..use.max - 1, o, p \in 0..use.blk - 1, z \in use.sizes \ {0} :
             fsvol_move_block_partial(n, i, j, o, p, z)
  <2>1. PICK i \in 0..use.max - 1, j \in 0..use.max - 1, o \in 0..use.blk - 1, p \in 0..use.blk - 1,
             z \in use.sizes \ {0} : fsvol_move_block_partial(n, i, j, o, p, z)
    BY <1>6
  <2>2. i \in Nat /\ j \in Nat /\ o \in Nat /\ p \in Nat /\ z \in Nat \ {0}
    BY <1>3
  <2> QED BY <2>1, <2>2, VolumeMoveKept
<1>7. CASE \E i \in 0..use.max - 1, c \in 1..use.max : fsvol_discard_blocks(n, i, c)
  BY <1>3, <1>7, DiscardKept
<1>8. CASE \E z \in 1..use.max * use.blk : fsvol_truncate(n, z)
  <2>1. PICK z \in 1..use.max * use.blk : fsvol_truncate(n, z)
    BY <1>8
  <2>2. z \in Nat /\ IsVolume /\ fstree_file_truncate(n, z)
    BY <2>1 DEF fsvol_truncate, Opened
  <2>3. Whole(z)
    BY <2>2, VolumeWhole
  <2> QED BY <2>2, <2>3, TruncateKept
<1> QED BY <1>4, <1>5, <1>6, <1>7, <1>8 DEF Volume

\* Every step of a tree in which no call has failed keeps the invariant.
LEMMA NextKept ==
  ASSUME Before, Next
  PROVE  ContNext
<1>1. CASE \E i \in 0..MaxBlocks, c \in 1..MaxGaps : fstree_add_gap(i, c)
  BY <1>1, GapKept
<1> QED BY <1>1, CallsKept, VolumeKept, AppendKept, WriteKept DEF Next, Step

\* No call is made while another is in progress or after one has failed.
LEMMA NoCalls ==
  ASSUME ~CanCall, NEW n \in Files
  PROVE  ~Calls(n) /\ ~Volume(n)
<1>1. \A o, d : ~fstree_file_append(n, d) /\ ~fstree_file_write(n, o, d) /\ ~fstree_file_truncate(n, o)
  BY DEF fstree_file_append, fstree_file_write, fstree_file_truncate
<1>2. ~fstree_file_volume_create(n)
  BY DEF fstree_file_volume_create
<1>3. \A i, o, d : ~fsvol_write_partial_block(n, i, o, d)
  BY <1>1 DEF fsvol_write_partial_block
<1>4. \A i, j, o, p, z : ~fsvol_move_block_partial(n, i, j, o, p, z)
  BY <1>1 DEF fsvol_move_block_partial
<1>5. \A i, c : ~fsvol_discard_blocks(n, i, c)
  BY DEF fsvol_discard_blocks
<1>6. \A z : ~fsvol_truncate(n, z)
  BY <1>1 DEF fsvol_truncate
<1>7. ~Calls(n)
  BY <1>1 DEF Calls
<1> QED BY <1>2, <1>3, <1>4, <1>5, <1>6, <1>7 DEF Volume

\* Once a call has failed nothing happens any more.
LEMMA StoppedStays ==
  ASSUME ~Going
  PROVE  ~Next
<1>1. job.file = Failed /\ job.apps = <<>> /\ job.over = <<>>
  BY DEF Going
<1>2. ~CanCall
  BY <1>1 DEF CanCall
<1>3. ASSUME NEW n \in Files PROVE ~Calls(n) /\ ~Volume(n)
  BY <1>2, NoCalls
<1>4. ASSUME NEW i, NEW c PROVE ~fstree_add_gap(i, c)
  BY <1>2 DEF fstree_add_gap
<1>5. ~AppendIteration /\ ~WriteIteration
  BY <1>1 DEF AppendIteration, WriteIteration
<1> QED BY <1>3, <1>4, <1>5 DEF Next, Step

\* The invariant in the next state, read with the use of this one.
LEMMA ContPrimed ==
  ASSUME use' = use, SparseTails \/ ContNext
  PROVE  ContInv'
<1>1. CASE SparseTails
  BY <1>1 DEF ContInv, SparseTails, NoSparse, IsVolume
<1>2. CASE ContNext
  <2>1. DiskOK(fs') /\ want' = [f \in Files |-> want'[f]]
    BY <1>2 DEF ContNext, Contents
  <2>2. Going' => Kept(fs', job', want')
    BY <1>2 DEF ContNext, Contents
  <2>3. ~Going' => \A f \in Files : Read(fs', f) = want'[f]
    BY <1>2 DEF ContNext, Contents
  <2>4. Going' => Kept(fs, job, want)'
    BY <2>2 DEF Kept, FileKept, Tails, PartOf, Ahead, Piece, Whole, NoSparse
  <2> QED BY <2>1, <2>3, <2>4 DEF ContInv, Contents
<1> QED BY <1>1, <1>2

\* Every step keeps the invariant.
LEMMA ContSteps ==
  ASSUME TreeInv, TreeInv', ContInv, [Next]_vars
  PROVE  ContInv'
<1>1. use' = use
  BY DEF Next, vars
<1>2. CASE SparseTails
  BY <1>1, <1>2, ContPrimed
<1>3. CASE ~SparseTails /\ UNCHANGED vars
  <2>1. fs' = fs /\ job' = job /\ want' = want
    BY <1>3 DEF vars
  <2>2. Contents(fs, job, want, Going)
    BY <1>3 DEF ContInv
  <2>3. Going' = Going
    BY <2>1 DEF Going
  <2>4. ContNext
    BY <2>1, <2>2, <2>3 DEF ContNext
  <2> QED BY <1>1, <2>4, ContPrimed
<1>4. CASE ~SparseTails /\ Next
  <2>1. Going
    BY <1>4, StoppedStays
  <2>2. Contents(fs, job, want, Going)
    BY <1>4 DEF ContInv
  <2>3. DiskOK(fs) /\ want = [f \in Files |-> want[f]] /\ Kept(fs, job, want)
    BY <2>1, <2>2 DEF Contents
  <2>4. Sound(fs)
    BY <2>1, <2>3, InvSound
  <2>5. Before
    BY <1>4, <2>3, <2>4 DEF Before
  <2>6. ContNext
    BY <1>4, <2>5, NextKept
  <2> QED BY <1>1, <2>6, ContPrimed
<1> QED BY <1>2, <1>3, <1>4

\* The tree just created.
LEMMA ContInit ==
  ASSUME Init
  PROVE  ContInv
<1>1. FilesInv /\ TreeGood(fs)
  BY InitGood DEF FilesInv
<1>2. /\ fs.data_offset = 0 /\ fs.gap = {} /\ fs.disk = [b \in Disk |-> ZeroBlock]
      /\ \A f \in Files : fs.file[f].size = 0 /\ fs.file[f].sparse = <<>>
  BY DEF Init
<1>3. job = Idle /\ want = [f \in Files |-> <<>>]
  BY DEF Init
<1>4. DiskOK(fs)
  BY <1>2, ZeroBlockType DEF DiskOK
<1>5. Tails(fs)
  BY <1>2, OneBlock DEF Tails
<1>6. Clean(fs)
  BY <1>2 DEF Clean
<1>7. ASSUME NEW f \in Files PROVE Padded(fs, f) /\ FileKept(fs, job, want, f)
  <2>1. BlocksFor(fs.file[f].size) = 0
    <3>1. BlocksFor(0) = 0
      BY BlocksForBounds
    <3>2. fs.file[f].size = 0
      BY <1>2
    <3> QED BY <3>1, <3>2
  <2>2. Padded(fs, f)
    BY <2>1 DEF Padded
  <2>3. Holds(fs, f, <<>>)
    BY <1>2 DEF Holds
  <2>4. PartOf(fs, f, <<>>, <<>>, 0, <<>>)
    BY <1>2, <2>3, HoldsPart
  <2>5. want[f] = <<>>
    BY <1>3
  <2>6. job.apps = <<>> /\ job.off = 0 /\ job.over = <<>>
    BY <1>3 DEF Idle
  <2>7. FileKept(fs, job, want, f)
    BY <2>3, <2>4, <2>5, <2>6 DEF FileKept
  <2> QED BY <2>2, <2>7
<1>8. Kept(fs, job, want)
  BY <1>5, <1>6, <1>7 DEF Kept
<1>9. Going
  BY <1>3, EndsOfCalls DEF Going, NoFile, Failed
<1>10. want = [f \in Files |-> want[f]]
  BY <1>3
<1> QED BY <1>4, <1>8, <1>9, <1>10 DEF ContInv, Contents

\* In every reachable state of a tree without sparse tails each file holds what was
\* written to it, less what is left of the call in progress, nothing lies behind the
\* end of a file in its last block, and free blocks and gaps are zero.
THEOREM ContentsInvariant == Spec => [](TreeInv /\ ContInv)
<1>1. Init => ContInv
  BY ContInit
<1>2. TreeInv /\ TreeInv' /\ ContInv /\ [Next]_vars => ContInv'
  BY ContSteps
<1> QED BY <1>1, <1>2, TreeInvariant, PTL DEF Spec

\* What the invariant says while no call has failed.
LEMMA InvKept ==
  ASSUME TreeInv, ContInv, ~SparseTails, Going
  PROVE  Sound(fs) /\ Kept(fs, job, want) /\ TreeGood(fs) /\ want = [f \in Files |-> want[f]]
<1>1. DiskOK(fs) /\ Kept(fs, job, want) /\ want = [f \in Files |-> want[f]]
  BY DEF ContInv, Contents
<1>2. Sound(fs)
  BY <1>1, InvSound
<1> QED BY <1>1, <1>2 DEF Sound

\* fstree.h: reading a file back returns what was written to it, for any tree,
\* volume and sequence of calls but those with sparse tails, also for the files a
\* call does not name and after a call that has failed half way.
THEOREM FilesReadBack == Spec => []ContentsKept
<1>1. ASSUME TreeInv, ContInv PROVE ContentsKept
  <2>1. SUFFICES ASSUME ~SparseTails PROVE ReadsBack
    BY DEF ContentsKept
  <2>2. SUFFICES ASSUME NEW f \in Files, Returned \/ f # job.file PROVE Read(fs, f) = want[f]
    BY DEF ReadsBack
  <2>3. CASE Going
    <3>1. Sound(fs) /\ Kept(fs, job, want) /\ TreeGood(fs)
      BY <1>1, <2>1, <2>3, InvKept
    <3>2. CASE Returned
      <4>1. job.apps = <<>> /\ job.over = <<>>
        BY <3>2 DEF Returned
      <4>2. Holds(fs, f, want[f])
        BY <3>1, <4>1, KeptReturned
      <4> QED BY <3>1, <4>2, SoundOnVolume, HoldsRead
    <3>3. CASE f # job.file
      <4>1. Holds(fs, f, want[f])
        BY <3>1, <3>3 DEF Kept, FileKept
      <4> QED BY <3>1, <4>1, SoundOnVolume, HoldsRead
    <3> QED BY <2>2, <3>2, <3>3
  <2>4. CASE ~Going
    BY <1>1, <2>1, <2>4 DEF ContInv, Contents
  <2> QED BY <2>3, <2>4
<1> QED BY <1>1, ContentsInvariant, PTL

\* A file of which only bytes to append are left has the first of its contents.
LEMMA PartRead ==
  ASSUME NEW s, TreeGood(s), NEW n \in Files, OnVolume(s, n), NEW c, NEW a, NEW o,
         PartOf(s, n, c, a, o, <<>>), NEW z \in Nat, z = s.file[n].size
  PROVE  z <= Len(c) /\ Read(s, n) = [p \in 1..z |-> c[p]]
<1>1. Read(s, n) = [p \in 1..z |-> Byte(s, n, p - 1)]
  BY ReadBytes
<1>2. Ahead(c, z, a) /\ c \in Seq(Int) /\ o \in Nat
  BY DEF PartOf
<1>3. z <= Len(c)
  <2>1. CASE a = <<>>
    BY <1>2, <2>1 DEF Ahead
  <2>2. CASE a # <<>>
    <3>1. Piece(Head(a)) /\ Len(c) >= z + Len(Head(a))
      BY <1>2, <2>2, AheadFirst
    <3>2. PICK w \in Nat, y \in Nat : w = Len(Head(a)) /\ y = Len(c)
      BY <1>2, <3>1 DEF Piece
    <3> QED BY <3>1, <3>2
  <2> QED BY <2>1, <2>2
<1>4. ASSUME NEW p \in 1..z PROVE Byte(s, n, p - 1) = c[p]
  <2>1. PICK q \in Nat : q = p - 1
    <3>1. p - 1 \in Nat
      OBVIOUS
    <3> QED BY <3>1
  <2>2. c[q + 1] = IF q >= o /\ q < o + Len(<<>>) THEN <<>>[(q - o) + 1] ELSE Byte(s, n, q)
    BY <2>1 DEF PartOf
  <2>3. ~(q >= o /\ q < o + Len(<<>>))
    BY <1>2
  <2> QED BY <2>1, <2>2, <2>3
<1> QED BY <1>1, <1>3, <1>4

\* A file whose blocks have only been moved holds the same part.
LEMMA CarriesPart ==
  ASSUME NEW s, TreeGood(s), NEW t, NEW n \in Files, Carries(s, t, n), NEW c, NEW a, NEW o, NEW v,
         PartOf(s, n, c, a, o, v)
  PROVE  PartOf(t, n, c, a, o, v)
<1>1. /\ \A p \in Nat : p < s.file[n].size => Byte(t, n, p) = Byte(s, n, p)
      /\ t.file[n].size = s.file[n].size
  BY CarriesByte
<1> QED BY <1>1 DEF PartOf

\* The first of a sequence.
FirstItems(c, z) == [p \in 1..z |-> c[p]]

\* Shorter beginnings are prefixes of longer ones.
LEMMA FirstPrefix ==
  ASSUME NEW c \in Seq(Int), NEW w \in Nat, w = Len(c), NEW z \in Nat, NEW y \in Nat, z <= y, y <= w
  PROVE  IsPrefix(FirstItems(c, z), FirstItems(c, y)) /\ IsPrefix(FirstItems(c, y), c)
<1>1. ASSUME NEW x \in Nat, x <= w PROVE FirstItems(c, x) \in Seq(Int) /\ Len(FirstItems(c, x)) = x
  BY <1>1 DEF FirstItems
<1>2. ASSUME NEW x \in Nat, NEW v \in Nat, x <= v, v <= w
      PROVE  SubSeq(FirstItems(c, v), 1, x) = FirstItems(c, x)
  <2>1. FirstItems(c, v) \in Seq(Int) /\ Len(FirstItems(c, v)) = v
    BY <1>1, <1>2
  <2>2. \A p \in 1..x : FirstItems(c, v)[p] = c[p]
    BY <1>2 DEF FirstItems
  <2>3. PICK f \in Seq(Int) : f = FirstItems(c, v)
    BY <2>1
  <2>4. SubSeq(f, 1, x) \in Seq(Int) /\ Len(SubSeq(f, 1, x)) = x /\ \A p \in 1..x : SubSeq(f, 1, x)[p] = f[p]
    BY <1>2, <2>1, <2>3, CutItems
  <2>5. FirstItems(c, x) \in Seq(Int) /\ Len(FirstItems(c, x)) = x /\ \A p \in 1..x : FirstItems(c, x)[p] = c[p]
    <3>1. x <= w
      BY <1>2
    <3> QED BY <1>1, <3>1 DEF FirstItems
  <2>6. PICK g \in Seq(Int), h \in Seq(Int) : g = SubSeq(f, 1, x) /\ h = FirstItems(c, x)
    BY <2>4, <2>5
  <2>7. Len(g) = x /\ Len(h) = x /\ \A p \in 1..x : g[p] = h[p]
    BY <2>2, <2>3, <2>4, <2>5, <2>6
  <2>8. g = h
    BY <2>7
  <2> QED BY <2>3, <2>6, <2>8
<1>3. SubSeq(FirstItems(c, y), 1, z) = FirstItems(c, z)
  BY <1>2
<1>4. SubSeq(FirstItems(c, z), 1, z) = FirstItems(c, z) /\ SubSeq(FirstItems(c, y), 1, y) = FirstItems(c, y)
  <2>1. z <= w
    OBVIOUS
  <2> QED BY <1>2, <2>1
<1>5. Len(FirstItems(c, z)) = z /\ Len(FirstItems(c, y)) = y
  <2>1. z <= w
    OBVIOUS
  <2> QED BY <1>1, <2>1
<1>6. SubSeq(c, 1, y) = FirstItems(c, y)
  <2>1. SubSeq(c, 1, y) \in Seq(Int) /\ Len(SubSeq(c, 1, y)) = y /\ \A p \in 1..y : SubSeq(c, 1, y)[p] = c[p]
    BY CutItems
  <2>2. FirstItems(c, y) \in Seq(Int) /\ Len(FirstItems(c, y)) = y /\ \A p \in 1..y : FirstItems(c, y)[p] = c[p]
    BY <1>1 DEF FirstItems
  <2>3. PICK g \in Seq(Int), h \in Seq(Int) : g = SubSeq(c, 1, y) /\ h = FirstItems(c, y)
    BY <2>1, <2>2
  <2>4. Len(g) = y /\ Len(h) = y /\ \A p \in 1..y : g[p] = h[p]
    BY <2>1, <2>2, <2>3
  <2>5. g = h
    BY <2>4
  <2> QED BY <2>3, <2>5
<1> QED BY <1>3, <1>4, <1>5, <1>6 DEF IsPrefix

\* While there is something to append no other call is made.
LEMMA OnlyAppends ==
  ASSUME Next, job.apps # <<>>
  PROVE  AppendIteration
<1>1. ~CanCall
  BY DEF CanCall, Returned
<1>2. ASSUME NEW n \in Files PROVE ~Calls(n) /\ ~Volume(n)
  BY <1>1, NoCalls
<1>3. ASSUME NEW i, NEW c PROVE ~fstree_add_gap(i, c)
  BY <1>1 DEF fstree_add_gap
<1>4. ~WriteIteration
  BY DEF WriteIteration
<1> QED BY <1>2, <1>3, <1>4 DEF Next, Step

\* A file during a turn of the loop of fstree_file_append.
LEMMA AppendReads ==
  ASSUME TreeInv, TreeInv', ContInv, ~SparseTails, AppendIteration, job.over = <<>>
  PROVE  /\ IsPrefix(Read(fs, job.file), Read(fs', job.file))
         /\ IsPrefix(Read(fs', job.file), want[job.file])
<1>1. job.apps # <<>> /\ Going
  BY DEF AppendIteration, Going
<1>2. Sound(fs) /\ Kept(fs, job, want) /\ TreeGood(fs) /\ want = [f \in Files |-> want[f]]
  BY <1>1, InvKept
<1>3. Before
  BY <1>2 DEF Before
<1>4. PICK n \in Files : \E o, a : AppendGoes(n, o, a)
  BY <1>3, AppendParts
<1>5. PICK o, a : AppendGoes(n, o, a)
  BY <1>4
<1>6. PICK c, b, p, t : c = want[n] /\ b = job.apps /\ p = job.off /\ t = fs'
  OBVIOUS
<1>7. n = job.file /\ t = o.fs /\ Outcome(o, n, JobOf(n, a, p, <<>>)) /\ Progress(fs, o, n, c, a, p, <<>>)
      /\ (~o.ok => Carries(fs, t, n))
  BY <1>5, <1>6 DEF AppendGoes
<1>8. PartOf(fs, n, c, b, p, <<>>)
  BY <1>1, <1>3, <1>6, <1>7, JobPart
<1>9. TreeGood(t)
  BY <1>3, <1>6, BeforeFacts
<1>10. PICK z \in Nat, y \in Nat : z = fs.file[n].size /\ y = t.file[n].size
  BY <1>2, <1>9 DEF TreeGood, FileGood
<1>11. /\ z <= y /\ OnVolume(t, n)
       /\ PartOf(t, n, c, a, p, <<>>) \/ PartOf(t, n, c, b, p, <<>>)
  <2>1. CASE ~o.ok
    <3>1. Carries(fs, t, n)
      BY <1>7, <2>1
    <3>2. PartOf(t, n, c, b, p, <<>>)
      BY <1>2, <1>8, <3>1, CarriesPart
    <3>3. OnVolume(t, n)
      BY <1>2, <3>1, CarriesOnVolume
    <3>4. z = y
      BY <1>10, <3>1 DEF Carries
    <3> QED BY <3>2, <3>3, <3>4
  <2>2. CASE o.ok
    <3>1. PartOf(t, n, c, a, p, <<>>) /\ t.file[n].size >= fs.file[n].size /\ DiskOK(t)
      BY <1>7, <2>2 DEF Progress
    <3>2. Going'
      <4>1. PICK k : k = JobOf(n, a, p, <<>>)
        OBVIOUS
      <4>2. Outcome(o, n, k)
        BY <1>7, <4>1
      <4>3. job' = IF k.apps = <<>> /\ k.over = <<>> THEN Idle ELSE k
        BY <2>2, <4>2 DEF Outcome
      <4>4. CASE k.apps = <<>> /\ k.over = <<>>
        <5>1. job' = Idle
          BY <4>3, <4>4
        <5> QED BY <5>1, EndsOfCalls DEF Going, NoFile, Failed
      <4>5. CASE ~(k.apps = <<>> /\ k.over = <<>>)
        <5>1. job' = k
          BY <4>3, <4>5
        <5> QED BY <4>5, <5>1 DEF Going
      <4> QED BY <4>4, <4>5
    <3>3. Room(t) /\ Spots(t) /\ Apart(t)
      <4>1. Room(fs')
        BY <3>2 DEF TreeInv
      <4>2. Spots(fs') /\ Apart(fs')
        BY <1>3, BeforeFacts
      <4> QED BY <1>6, <4>1, <4>2
    <3>4. Sound(t)
      BY <1>9, <3>1, <3>3 DEF Sound
    <3>5. OnVolume(t, n)
      BY <3>4, SoundOnVolume
    <3> QED BY <1>10, <3>1, <3>5
  <2> QED BY <2>1, <2>2
<1>12. OnVolume(fs, n)
  BY <1>2, SoundOnVolume
<1>13. Read(fs, n) = FirstItems(c, z)
  <2>1. Read(fs, n) = [q \in 1..z |-> c[q]]
    BY <1>2, <1>8, <1>10, <1>12, PartRead
  <2> QED BY <2>1 DEF FirstItems
<1>14. y <= Len(c) /\ Read(t, n) = FirstItems(c, y)
  <2>1. y <= Len(c) /\ Read(t, n) = [q \in 1..y |-> c[q]]
    BY <1>9, <1>10, <1>11, PartRead
  <2> QED BY <2>1 DEF FirstItems
<1>15. c \in Seq(Int)
  BY <1>8 DEF PartOf
<1>16. PICK w \in Nat : w = Len(c)
  BY <1>15
<1>17. IsPrefix(FirstItems(c, z), FirstItems(c, y)) /\ IsPrefix(FirstItems(c, y), c)
  BY <1>11, <1>14, <1>15, <1>16, FirstPrefix
<1> QED BY <1>6, <1>7, <1>13, <1>14, <1>17

\* An append changes no byte the file already had, and what it has written at any
\* time, also when it fails half way on a full volume, is a prefix of what was asked
\* for: for every volume, buffer and block size, unless there are sparse tails.
THEOREM AppendsExtend == Spec => AppendExtends
<1>1. ASSUME TreeInv, TreeInv', ContInv, [Next]_vars
      PROVE  [job.apps # <<>> /\ job.over = <<>> /\ ~SparseTails =>
                /\ IsPrefix(Read(fs, job.file), Read(fs', job.file))
                /\ IsPrefix(Read(fs', job.file), want[job.file])]_vars
  <2>1. CASE UNCHANGED vars
    BY <2>1
  <2>2. CASE Next
    <3>1. SUFFICES ASSUME job.apps # <<>>, job.over = <<>>, ~SparseTails
                   PROVE  /\ IsPrefix(Read(fs, job.file), Read(fs', job.file))
                          /\ IsPrefix(Read(fs', job.file), want[job.file])
      OBVIOUS
    <3>2. AppendIteration
      BY <2>2, <3>1, OnlyAppends
    <3> QED BY <1>1, <3>1, <3>2, AppendReads
  <2> QED BY <1>1, <2>1, <2>2
<1> QED BY <1>1, ContentsInvariant, PTL DEF Spec, AppendExtends

\* Every block below data_offset is a gap or in the run of a file.
LEMMA TilingCovers ==
  ASSUME LP!LayoutInv, NEW b \in Nat, b < fs.data_offset, b \notin fs.gap
  PROVE  \E f \in Files : Start(fs, f) <= b /\ b < Start(fs, f) + Run(fs, f)
<1>1. PICK ct : ct = [g \in Files |-> PhysBlocks(fs.file[g])]
  OBVIOUS
<1>2. PICK st : st = [g \in Files |-> fs.file[g].start_index]
  OBVIOUS
<1>3. \A g \in Files : ct[g] = Run(fs, g) /\ st[g] = Start(fs, g)
  BY <1>1, <1>2 DEF Run, Start
<1>4. fs.data_offset \in Nat
  BY MaxOffsetNat DEF LP!LayoutInv, LP!TypeOK
<1>5. b \in 0..(fs.data_offset - 1)
  BY <1>4
<1>6. \E f \in Files : st[f] <= b /\ b < st[f] + ct[f]
  BY <1>1, <1>2, <1>5 DEF LP!LayoutInv, LP!NoLeak, LP!Owns
<1> QED BY <1>3, <1>6

\* Where the bytes of a file are.
LEMMA StoredAt ==
  ASSUME TreeGood(fs), NEW f \in Files, NEW i \in Nat, i < BlocksFor(fs.file[f].size), NEW j \in InBlk,
         BlockSize * i + j < fs.file[f].size, ~IsSparse(fs.file[f].sparse, i), Start(fs, f) \in Nat
  PROVE  <<Start(fs, f) + Rank(fs.file[f].sparse, i), j>> \in Stored
<1>1. PICK z \in Nat, q \in Nat : z = fs.file[f].size /\ q = BlocksFor(z)
  <2>1. fs.file[f].size \in Nat
    BY DEF TreeGood, FileGood
  <2> QED BY <2>1, BlocksForFacts
<1>2. PICK l : l = fs.file[f].sparse
  OBVIOUS
<1>3. ListOK(l)
  BY <1>2 DEF TreeGood, FileGood
<1>4. Skipped(fs.file[f], i) \in Int
  BY <1>2, <1>3, SkippedInt
<1>5. i - Skipped(fs.file[f], i) = Rank(l, i)
  BY <1>2, <1>3, SkippedRank
<1>6. PICK s \in Nat, k \in Int : s = fs.file[f].start_index /\ k = Skipped(fs.file[f], i)
  BY <1>4 DEF Start
<1>7. PICK r \in Int : r = Rank(l, i)
  <2>1. Rank(l, i) \in Nat
    BY BelowFacts
  <2> QED BY <2>1
<1>8. s + i - k = s + r
  <2>1. i - k = r
    BY <1>5, <1>6, <1>7
  <2> QED BY <2>1
<1>9. PICK y : y = <<i, j>>
  OBVIOUS
<1>10. y \in (0..BlocksFor(fs.file[f].size) - 1) \X InBlk
  BY <1>1, <1>9
<1>11. y[1] = i /\ y[2] = j
  BY <1>9
<1>12. y[1] * BlockSize + y[2] < fs.file[f].size
  <2>1. PICK b \in Nat, e \in Nat, g \in Nat : b = BlockSize /\ e = BlockSize * i /\ g = j
    BY FSTreeAssumption DEF InBlk
  <2>2. i * BlockSize = e
    BY <2>1
  <2>3. e + g < fs.file[f].size
    BY <2>1
  <2> QED BY <1>11, <2>1, <2>2, <2>3
<1>13. ~IsSparse(fs.file[f].sparse, y[1])
  BY <1>11
<1>14. PICK x : x = <<fs.file[f].start_index + y[1] - Skipped(fs.file[f], y[1]), y[2]>>
  OBVIOUS
<1>15. x \in Stored
  BY <1>10, <1>12, <1>13, <1>14 DEF Stored
<1>16. x = <<s + r, j>>
  BY <1>6, <1>8, <1>11, <1>14
<1> QED BY <1>2, <1>6, <1>7, <1>15, <1>16 DEF Start

\* Once a call has returned with success every byte of the volume that is not part
\* of a file is zero, for every tree, volume and sequence of calls but those with
\* sparse tails: nothing of what was moved, cut off or punched out is left behind.
THEOREM NothingStale == Spec => []NoStaleBytes
<1>1. ASSUME TreeInv, ContInv PROVE NoStaleBytes
  <2>1. SUFFICES ASSUME CanCall, ~SparseTails, NEW b \in Disk, NEW j \in InBlk
                 PROVE  <<b, j>> \in Stored \/ fs.disk[b][j] = 0
    BY DEF NoStaleBytes
  <2>2. Going
    BY <2>1 DEF CanCall, Going
  <2>3. Sound(fs) /\ Kept(fs, job, want) /\ TreeGood(fs)
    BY <1>1, <2>1, <2>2, InvKept
  <2>4. Clean(fs) /\ \A f \in Files : Padded(fs, f)
    BY <2>3 DEF Kept
  <2>5. ZeroBlock[j] = 0
    BY ZeroBlockType
  <2>6. CASE b >= fs.data_offset \/ b \in fs.gap
    BY <2>4, <2>5, <2>6 DEF Clean
  <2>7. CASE ~(b >= fs.data_offset) /\ b \notin fs.gap
    <3>1. b \in Nat
      BY OnDisk
    <3>2. LP!LayoutInv /\ Spots(fs)
      BY <1>1, TilingSpots DEF TreeInv
    <3>3. fs.data_offset \in Nat
      BY <3>2 DEF Spots
    <3>4. b < fs.data_offset
      BY <2>7, <3>1, <3>3
    <3>5. PICK f \in Files : Start(fs, f) <= b /\ b < Start(fs, f) + Run(fs, f)
      BY <2>7, <3>1, <3>2, <3>4, TilingCovers
    <3>6. PICK st \in Nat, rn \in Nat : st = Start(fs, f) /\ rn = Run(fs, f)
      BY <2>3, SoundNumbers
    <3>7. PICK k \in Nat : b = st + k /\ k < rn
      <4>1. b - st \in Nat /\ b - st < rn /\ b = st + (b - st)
        BY <3>1, <3>5, <3>6
      <4> QED BY <4>1
    <3>8. PICK q, l : q = BlocksFor(fs.file[f].size) /\ l = fs.file[f].sparse
      OBVIOUS
    <3>9. q \in Nat /\ Rank(l, q) = rn
      BY <2>3, <3>6, <3>8, RankEnd
    <3>10. k < Rank(l, q)
      BY <3>7, <3>9
    <3>11. PICK i \in Nat : i < q /\ ~IsSparse(l, i) /\ Rank(l, i) = k
      BY <3>9, <3>10, RankOnto
    <3>12. Start(fs, f) + Rank(l, i) = b
      BY <3>6, <3>7, <3>11
    <3>13. CASE BlockSize * i + j < fs.file[f].size
      <4>1. <<Start(fs, f) + Rank(fs.file[f].sparse, i), j>> \in Stored
        BY <2>3, <3>6, <3>8, <3>11, <3>13, StoredAt
      <4> QED BY <3>8, <3>12, <4>1
    <3>14. CASE ~(BlockSize * i + j < fs.file[f].size)
      <4>1. BlockSize * i + j >= fs.file[f].size
        <5>1. fs.file[f].size \in Nat
          BY <2>3 DEF TreeGood, FileGood
        <5>2. BlockSize * i + j \in Nat
          BY FSTreeAssumption DEF InBlk
        <5> QED BY <3>14, <5>1, <5>2
      <4>2. ByteAt(fs, f, i, j) = 0
        BY <2>4, <3>8, <3>11, <4>1 DEF Padded
      <4>3. ByteAt(fs, f, i, j) = fs.disk[b][j]
        BY <3>8, <3>11, <3>12 DEF ByteAt
      <4> QED BY <4>2, <4>3
    <3> QED BY <3>13, <3>14
  <2> QED BY <2>6, <2>7
<1> QED BY <1>1, ContentsInvariant, PTL
=============================================================================
