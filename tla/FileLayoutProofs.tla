-------------------------- MODULE FileLayoutProofs --------------------------
(***************************************************************************)
(* The layout of the file data is sound for any number of files and blocks.*)
(* TypeOK, NoOverlap and NoLeak hold only together: a start index that is  *)
(* moved down stays a natural number because the run it jumps over does    *)
(* not overlap, and no block is lost because the runs moved are exactly    *)
(* the ones that were there.                                               *)
(***************************************************************************)
EXTENDS FileLayout, TLAPS

LayoutInv == TypeOK /\ NoOverlap /\ NoLeak

\* Runs from st with ct blocks each, and the gap blocks gp, tile [0, off).
Tiles(off, st, ct, gp) ==
  /\ off \in Nat /\ st \in [Files -> Nat] /\ ct \in [Files -> Nat] /\ gp \in SUBSET Nat
  /\ \A f \in Files : ct[f] # 0 => st[f] + ct[f] <= off
  /\ \A b \in gp : b < off
  /\ \A b \in gp, f \in Files : ~(st[f] <= b /\ b < st[f] + ct[f])
  /\ \A f, g \in Files : f # g /\ ct[f] # 0 /\ ct[g] # 0 =>
       st[f] + ct[f] <= st[g] \/ st[g] + ct[g] <= st[f]
  /\ \A b \in 0..(off - 1) :
       b \in gp \/ \E f \in Files : st[f] <= b /\ b < st[f] + ct[f]

\* The invariant holds in the empty tree.
LEMMA LayoutInit == Init => LayoutInv
  BY LayoutAssumption DEF Init, LayoutInv, TypeOK, NoOverlap, NoLeak, Owns

\* The invariant is this tiling, within the bound.
LEMMA InvIsTiling ==
  LayoutInv <=> /\ data_offset <= MaxOffset
                /\ Tiles(data_offset, start_index, count, gap)
  BY LayoutAssumption DEF LayoutInv, TypeOK, NoOverlap, NoLeak, Owns, Tiles

\* The same in the next state.
LEMMA InvIsTilingNext ==
  LayoutInv' <=> /\ data_offset' <= MaxOffset
                 /\ Tiles(data_offset', start_index', count', gap')
  BY LayoutAssumption DEF LayoutInv, TypeOK, NoOverlap, NoLeak, Owns, Tiles

(***************************************************************************)
(* fstree_file_move_to_end: after the move the runs and gaps still tile    *)
(* the used area, and the run of f is the last one.                        *)
(***************************************************************************)
LEMMA MoveLemma ==
  ASSUME LayoutInv, NEW f \in Files
  PROVE  /\ Tiles(data_offset, MovedStart(f), count, MovedGap(f))
         /\ count[f] # 0 => MovedStart(f)[f] + count[f] = data_offset
         /\ count[f] = 0 => MovedStart(f)[f] = data_offset
         /\ \A g \in Files \ {f} : count[g] # 0 =>
              MovedStart(f)[g] + count[g] <= data_offset - count[f]
         /\ \A b \in MovedGap(f) : b < data_offset - count[f]
PROOF
<1> DEFINE src == start_index[f]
           n == count[f]
           st == MovedStart(f)
           gp == MovedGap(f)
<1> SUFFICES /\ Tiles(data_offset, st, count, gp)
             /\ n # 0 => st[f] + n = data_offset
             /\ n = 0 => st[f] = data_offset
             /\ \A g \in Files \ {f} : count[g] # 0 => st[g] + count[g] <= data_offset - n
             /\ \A b \in gp : b < data_offset - n
  OBVIOUS
<1> HIDE DEF st, gp
<1>1. Tiles(data_offset, start_index, count, gap) /\ src \in Nat /\ n \in Nat
  BY InvIsTiling DEF Tiles
<1>2. CASE n = 0
  <2>1. /\ gp = gap /\ st[f] = data_offset
        /\ st \in [Files -> Nat]
        /\ \A g \in Files \ {f} : st[g] = start_index[g]
    BY <1>1, <1>2 DEF MovedStart, MovedGap, st, gp, Tiles
  <2> QED BY <1>1, <1>2, <2>1 DEF Tiles
<1>3. CASE n # 0 /\ AtEnd(f)
  <2>1. gp = gap /\ st = start_index
    BY <1>1, <1>3 DEF MovedStart, MovedGap, st, gp, Tiles
  <2>2. src + n = data_offset
    BY <1>1, <1>3 DEF AtEnd, Tiles
  <2>3. \A g \in Files \ {f} : count[g] # 0 => start_index[g] + count[g] <= src
    BY <1>1, <1>3, <2>2 DEF Tiles
  <2>4. \A b \in gap : b < src
    BY <1>1, <1>3, <2>2 DEF Tiles
  <2> QED BY <1>1, <1>3, <2>1, <2>2, <2>3, <2>4 DEF Tiles
<1>4. CASE n # 0 /\ ~AtEnd(f)
  <2>1. /\ data_offset \in Nat /\ n > 0 /\ src + n < data_offset
        /\ start_index \in [Files -> Nat] /\ count \in [Files -> Nat] /\ gap \in SUBSET Nat
        /\ st = [g \in Files |-> IF g = f THEN data_offset - n
                   ELSE IF count[g] # 0 /\ start_index[g] >= src
                        THEN start_index[g] - n ELSE start_index[g]]
        /\ gp = { b \in 0..data_offset : \/ b < src /\ b \in gap
                                         \/ b + n >= src /\ b + n \in gap }
    BY <1>1, <1>4 DEF AtEnd, MovedStart, MovedGap, st, gp, GapDown, Tiles
  <2>2. \A g \in Files \ {f} : count[g] # 0 =>
          IF start_index[g] >= src THEN start_index[g] >= src + n
                                   ELSE start_index[g] + count[g] <= src
    <3>1. SUFFICES ASSUME NEW g \in Files \ {f}, count[g] # 0
                   PROVE  IF start_index[g] >= src THEN start_index[g] >= src + n
                          ELSE start_index[g] + count[g] <= src
      OBVIOUS
    <3>2. src + n <= start_index[g] \/ start_index[g] + count[g] <= src
      BY <1>1, <2>1, <3>1 DEF Tiles
    <3>3. start_index[g] \in Nat /\ count[g] \in Nat
      BY <2>1
    <3> QED BY <1>1, <2>1, <3>1, <3>2, <3>3
  <2>3. \A b \in gap : b < src \/ b >= src + n
    BY <1>1, <2>1 DEF Tiles
  <2>4. st \in [Files -> Nat] /\ gp \in SUBSET Nat
    BY <2>1, <2>2
  <2>5. /\ st[f] = data_offset - n
        /\ \A g \in Files \ {f} : count[g] # 0 =>
             /\ start_index[g] >= src => st[g] = start_index[g] - n
             /\ start_index[g] < src => st[g] = start_index[g]
    BY <2>1
  <2>6. \A g \in Files \ {f} : count[g] # 0 => st[g] + count[g] <= data_offset - n
    BY <1>1, <2>1, <2>2, <2>5 DEF Tiles
  <2>7. \A b \in gp : b \in Nat /\ b < data_offset - n
    BY <1>1, <2>1, <2>3 DEF Tiles
  <2>8. \A g \in Files : count[g] # 0 => st[g] + count[g] <= data_offset
    BY <2>1, <2>4, <2>5, <2>6
  <2>9. ASSUME NEW g \in Files, NEW h \in Files, g # h, count[g] # 0, count[h] # 0
        PROVE  st[g] + count[g] <= st[h] \/ st[h] + count[h] <= st[g]
    <3>1. CASE g = f \/ h = f
      BY <2>1, <2>4, <2>5, <2>6, <2>9, <3>1
    <3>2. CASE g # f /\ h # f
      BY <1>1, <2>1, <2>2, <2>5, <2>9, <3>2 DEF Tiles
    <3> QED BY <3>1, <3>2
  <2>10. ASSUME NEW b \in gp, NEW g \in Files
         PROVE  ~(st[g] <= b /\ b < st[g] + count[g])
    <3>1. CASE g = f
      BY <2>1, <2>5, <2>7, <3>1
    <3>2. CASE count[g] = 0
      BY <2>1, <2>4, <2>7, <3>2
    <3>3. CASE g # f /\ count[g] # 0
      <4>1. b \in Nat /\ ((b < src /\ b \in gap) \/ (b >= src /\ b + n \in gap))
        BY <1>1, <2>1, <2>3
      <4>2. CASE b < src /\ b \in gap
        BY <1>1, <2>1, <2>2, <2>5, <3>3, <4>1, <4>2 DEF Tiles
      <4>3. CASE b >= src /\ b + n \in gap
        BY <1>1, <2>1, <2>2, <2>5, <3>3, <4>1, <4>3 DEF Tiles
      <4> QED BY <4>1, <4>2, <4>3
    <3> QED BY <3>1, <3>2, <3>3
  <2>11. ASSUME NEW b \in 0..(data_offset - 1)
         PROVE  b \in gp \/ \E g \in Files : st[g] <= b /\ b < st[g] + count[g]
    <3>1. CASE b >= data_offset - n
      BY <2>1, <2>5, <3>1
    <3>2. CASE b < src
      <4>1. CASE b \in gap
        BY <2>1, <3>2, <4>1
      <4>2. CASE b \notin gap
        <5>1. PICK g \in Files : start_index[g] <= b /\ b < start_index[g] + count[g]
          BY <1>1, <4>2 DEF Tiles
        <5>2. g # f /\ count[g] # 0 /\ start_index[g] < src
          BY <1>1, <2>1, <3>2, <5>1
        <5> QED BY <2>5, <5>1, <5>2
      <4> QED BY <4>1, <4>2
    <3>3. CASE b >= src /\ b < data_offset - n
      <4>1. b + n \in 0..(data_offset - 1) /\ b \in Nat
        BY <1>1, <2>1, <3>3
      <4>2. CASE b + n \in gap
        BY <1>1, <2>1, <3>3, <4>1, <4>2
      <4>3. CASE b + n \notin gap
        <5>1. PICK g \in Files : start_index[g] <= b + n /\ b + n < start_index[g] + count[g]
          BY <1>1, <4>1, <4>3 DEF Tiles
        <5>2. g # f /\ count[g] # 0
          BY <1>1, <2>1, <3>3, <4>1, <5>1
        <5>3. start_index[g] >= src
          BY <1>1, <2>1, <2>2, <3>3, <4>1, <5>1, <5>2
        <5> QED BY <1>1, <2>1, <2>5, <4>1, <5>1, <5>2, <5>3
      <4> QED BY <4>2, <4>3
    <3> QED BY <1>1, <2>1, <3>1, <3>2, <3>3
  <2> QED BY <2>1, <2>4, <2>5, <2>6, <2>7, <2>8, <2>9, <2>10, <2>11 DEF Tiles
<1> QED BY <1>1, <1>2, <1>3, <1>4

\* A call that only moves the run (its write failed) keeps the tiling.
LEMMA MoveStep == ASSUME LayoutInv, NEW f \in Files, Move(f) PROVE LayoutInv'
  BY MoveLemma, InvIsTiling, InvIsTilingNext DEF Move

\* Appending a block to the run of f, which is now the last one.
LEMMA GrowStep == ASSUME LayoutInv, NEW f \in Files, Grow(f) PROVE LayoutInv'
PROOF
<1> DEFINE st == MovedStart(f)
           gp == MovedGap(f)
<1>1. /\ Tiles(data_offset, st, count, gp)
      /\ count[f] # 0 => st[f] + count[f] = data_offset
      /\ count[f] = 0 => st[f] = data_offset
  BY MoveLemma
<1> HIDE DEF st, gp
<1>2. /\ start_index' = st /\ gap' = gp /\ data_offset' = data_offset + 1
      /\ count' = [count EXCEPT ![f] = @ + 1] /\ data_offset < MaxOffset
  BY DEF Grow, st, gp
<1>3. /\ count'[f] = count[f] + 1
      /\ \A g \in Files \ {f} : count'[g] = count[g]
      /\ count' \in [Files -> Nat] /\ st[f] + count[f] = data_offset
  BY <1>1, <1>2 DEF Tiles
<1>4. Tiles(data_offset + 1, st, count', gp)
  <2>1. ASSUME NEW g \in Files, count'[g] # 0 PROVE st[g] + count'[g] <= data_offset + 1
    BY <1>1, <1>3, <2>1 DEF Tiles
  <2>2. ASSUME NEW b \in gp, NEW g \in Files
        PROVE  b < data_offset + 1 /\ ~(st[g] <= b /\ b < st[g] + count'[g])
    BY <1>1, <1>3 DEF Tiles
  <2>3. ASSUME NEW g \in Files, NEW h \in Files, g # h, count'[g] # 0, count'[h] # 0
        PROVE  st[g] + count'[g] <= st[h] \/ st[h] + count'[h] <= st[g]
    BY <1>1, <1>3, <2>3 DEF Tiles
  <2>4. ASSUME NEW b \in 0..data_offset
        PROVE  b \in gp \/ \E g \in Files : st[g] <= b /\ b < st[g] + count'[g]
    <3>1. CASE b = data_offset
      BY <1>1, <1>3, <3>1 DEF Tiles
    <3>2. CASE b # data_offset /\ b \notin gp
      <4>1. PICK g \in Files : st[g] <= b /\ b < st[g] + count[g]
        BY <1>1, <3>2 DEF Tiles
      <4>2. count'[g] >= count[g] /\ b < st[g] + count'[g]
        BY <1>1, <1>3, <4>1 DEF Tiles
      <4> QED BY <4>1, <4>2
    <3> QED BY <3>1, <3>2
  <2>5. \A b \in gp : b < data_offset + 1
    BY <1>1 DEF Tiles
  <2>6. (data_offset + 1) \in Nat /\ (data_offset + 1) - 1 = data_offset
    BY <1>1 DEF Tiles
  <2> QED BY <1>1, <1>3, <2>1, <2>2, <2>3, <2>4, <2>5, <2>6 DEF Tiles
<1>5. data_offset + 1 <= MaxOffset
  BY <1>1, <1>2, LayoutAssumption DEF Tiles
<1> QED BY <1>2, <1>4, <1>5, InvIsTilingNext

\* Punching a block out of the run of f, which is now the last one.
LEMMA ReleaseStep == ASSUME LayoutInv, NEW f \in Files, Release(f) PROVE LayoutInv'
PROOF
<1> DEFINE st == MovedStart(f)
           gp == MovedGap(f)
<1>1. /\ Tiles(data_offset, st, count, gp)
      /\ count[f] # 0 => st[f] + count[f] = data_offset
      /\ \A g \in Files \ {f} : count[g] # 0 => st[g] + count[g] <= data_offset - count[f]
      /\ \A b \in gp : b < data_offset - count[f]
  BY MoveLemma
<1> HIDE DEF st, gp
<1>2. /\ start_index' = st /\ gap' = gp /\ data_offset' = data_offset - 1
      /\ count' = [count EXCEPT ![f] = @ - 1] /\ count[f] > 0
  BY DEF Release, st, gp
<1>3. /\ count[f] \in Nat /\ count'[f] = count[f] - 1
      /\ \A g \in Files \ {f} : count'[g] = count[g]
      /\ count' \in [Files -> Nat] /\ st[f] + count[f] = data_offset
      /\ data_offset - 1 \in Nat
  BY <1>1, <1>2 DEF Tiles
<1>4. Tiles(data_offset - 1, st, count', gp)
  <2>1. ASSUME NEW g \in Files, count'[g] # 0 PROVE st[g] + count'[g] <= data_offset - 1
    BY <1>1, <1>2, <1>3, <2>1 DEF Tiles
  <2>2. ASSUME NEW b \in gp PROVE b < data_offset - 1
    BY <1>1, <1>2, <1>3 DEF Tiles
  <2>3. ASSUME NEW b \in gp, NEW g \in Files
        PROVE  ~(st[g] <= b /\ b < st[g] + count'[g])
    BY <1>1, <1>2, <1>3 DEF Tiles
  <2>4. ASSUME NEW g \in Files, NEW h \in Files, g # h, count'[g] # 0, count'[h] # 0
        PROVE  st[g] + count'[g] <= st[h] \/ st[h] + count'[h] <= st[g]
    BY <1>1, <1>2, <1>3, <2>4 DEF Tiles
  <2>5. ASSUME NEW b \in 0..((data_offset - 1) - 1), b \notin gp
        PROVE  \E g \in Files : st[g] <= b /\ b < st[g] + count'[g]
    <3>1. PICK g \in Files : st[g] <= b /\ b < st[g] + count[g]
      BY <1>1, <1>3, <2>5 DEF Tiles
    <3>2. b < st[g] + count'[g]
      BY <1>1, <1>3, <2>5, <3>1 DEF Tiles
    <3> QED BY <3>1, <3>2
  <2> QED BY <1>1, <1>3, <2>1, <2>2, <2>3, <2>4, <2>5 DEF Tiles
<1>5. data_offset - 1 <= MaxOffset
  BY <1>1, InvIsTiling, LayoutAssumption DEF Tiles
<1> QED BY <1>2, <1>4, <1>5, InvIsTilingNext

\* Cutting blocks off the end of the run of f: everything behind it moves down.
LEMMA TruncateStep ==
  ASSUME LayoutInv, NEW f \in Files, NEW n \in 0..count[f], Truncate(f, n)
  PROVE  LayoutInv'
PROOF
<1> DEFINE src == start_index[f]
           old == count[f]
           diff == old - n
           st == start_index'
           gp == gap'
           off == data_offset'
<1>1. Tiles(data_offset, start_index, count, gap) /\ data_offset <= MaxOffset
  BY InvIsTiling
<1>2. /\ src \in Nat /\ old \in Nat /\ n \in Nat /\ n < old /\ diff \in Nat /\ diff > 0
      /\ data_offset \in Nat /\ src + old <= data_offset /\ off = data_offset - diff
      /\ start_index \in [Files -> Nat] /\ count \in [Files -> Nat] /\ gap \in SUBSET Nat
  BY <1>1 DEF Truncate, Tiles
<1>3. /\ count' \in [Files -> Nat] /\ count'[f] = n
      /\ \A g \in Files \ {f} : count'[g] = count[g]
  BY <1>2 DEF Truncate
<1>4. gp = { b \in 0..data_offset : \/ b < src /\ b \in gap
                                    \/ b + diff >= src /\ b + diff \in gap }
  BY DEF Truncate, GapDown
<1>5. st = [g \in Files |-> IF count'[g] # 0 /\ start_index[g] > src
                            THEN start_index[g] - diff ELSE start_index[g]]
  BY DEF Truncate
<1>6. ASSUME NEW g \in Files \ {f}, count[g] # 0
      PROVE  \/ start_index[g] >= src + old /\ st[g] = start_index[g] - diff
             \/ start_index[g] + count[g] <= src /\ st[g] = start_index[g]
  <2>1. src + old <= start_index[g] \/ start_index[g] + count[g] <= src
    BY <1>1, <1>2, <1>6 DEF Tiles
  <2>2. start_index[g] \in Nat /\ count[g] \in Nat /\ count'[g] # 0
    BY <1>2, <1>3, <1>6
  <2> QED BY <1>2, <1>5, <1>6, <2>1, <2>2
<1>7. st[f] = src
  BY <1>2, <1>5
<1>8. \A b \in gap : b < src \/ b >= src + old
  BY <1>1, <1>2 DEF Tiles
<1>9. \A b \in gp : \/ b < src /\ b \in gap
                    \/ b >= src + n /\ b + diff \in gap
  BY <1>2, <1>4, <1>8
<1>10. ASSUME NEW g \in Files PROVE st[g] \in Nat
  <2>1. CASE g = f
    BY <1>2, <1>7, <2>1
  <2>2. CASE g # f /\ count[g] # 0
    BY <1>2, <1>6, <2>2
  <2>3. CASE g # f /\ count[g] = 0
    BY <1>2, <1>3, <1>5, <2>3
  <2> QED BY <2>1, <2>2, <2>3
<1>11. st \in [Files -> Nat] /\ gp \in SUBSET Nat
  BY <1>4, <1>5, <1>10
<1> HIDE DEF st, gp, off
<1>12. Tiles(off, st, count', gp)
  <2>1. ASSUME NEW g \in Files, count'[g] # 0 PROVE st[g] + count'[g] <= off
    <3>1. CASE g = f
      BY <1>2, <1>3, <1>7, <3>1
    <3>2. CASE g # f
      <4>1. count[g] # 0 /\ start_index[g] + count[g] <= data_offset
        BY <1>1, <1>3, <2>1, <3>2 DEF Tiles
      <4>2. start_index[g] \in Nat /\ count[g] \in Nat
        BY <1>2
      <4> QED BY <1>2, <1>3, <1>6, <3>2, <4>1, <4>2
    <3> QED BY <3>1, <3>2
  <2>2. ASSUME NEW b \in gp PROVE b < off
    <3>1. CASE b < src /\ b \in gap
      BY <1>2, <1>11, <3>1
    <3>2. CASE b + diff \in gap
      BY <1>1, <1>2, <1>11, <3>2 DEF Tiles
    <3> QED BY <1>9, <3>1, <3>2
  <2>3. ASSUME NEW b \in gp, NEW g \in Files
        PROVE  ~(st[g] <= b /\ b < st[g] + count'[g])
    <3>1. CASE g = f
      BY <1>2, <1>3, <1>7, <1>9, <1>11, <3>1
    <3>2. CASE g # f /\ count[g] = 0
      BY <1>3, <1>11, <3>2
    <3>3. CASE g # f /\ count[g] # 0
      <4>1. b \in Nat /\ start_index[g] \in Nat /\ count[g] \in Nat
        BY <1>2, <1>11
      <4>2. CASE b < src /\ b \in gap
        BY <1>1, <1>2, <1>3, <1>6, <3>3, <4>1, <4>2 DEF Tiles
      <4>3. CASE b >= src + n /\ b + diff \in gap
        BY <1>1, <1>2, <1>3, <1>6, <3>3, <4>1, <4>3 DEF Tiles
      <4> QED BY <1>9, <4>2, <4>3
    <3> QED BY <3>1, <3>2, <3>3
  <2>4. ASSUME NEW g \in Files, NEW h \in Files, g # h, count'[g] # 0, count'[h] # 0
        PROVE  st[g] + count'[g] <= st[h] \/ st[h] + count'[h] <= st[g]
    <3>1. start_index[g] \in Nat /\ count[g] \in Nat /\ start_index[h] \in Nat /\ count[h] \in Nat
      BY <1>2
    <3>2. CASE g = f
      BY <1>2, <1>3, <1>6, <1>7, <2>4, <3>1, <3>2
    <3>3. CASE h = f
      BY <1>2, <1>3, <1>6, <1>7, <2>4, <3>1, <3>3
    <3>4. CASE g # f /\ h # f
      <4>1. \/ start_index[g] + count[g] <= start_index[h]
            \/ start_index[h] + count[h] <= start_index[g]
        BY <1>1, <1>3, <2>4, <3>4 DEF Tiles
      <4> QED BY <1>2, <1>3, <1>6, <2>4, <3>1, <3>4, <4>1
    <3> QED BY <3>2, <3>3, <3>4
  <2>5. ASSUME NEW b \in 0..(off - 1), b \notin gp
        PROVE  \E g \in Files : st[g] <= b /\ b < st[g] + count'[g]
    <3>1. b \in Nat /\ b < data_offset /\ b + diff < data_offset
      BY <1>2
    <3>2. CASE b < src
      <4>1. b \notin gap
        BY <1>2, <1>4, <2>5, <3>1, <3>2 DEF gp
      <4>2. PICK g \in Files : start_index[g] <= b /\ b < start_index[g] + count[g]
        BY <1>1, <3>1, <4>1 DEF Tiles
      <4>3. g # f /\ count[g] # 0 /\ start_index[g] \in Nat /\ count[g] \in Nat
        BY <1>2, <3>1, <3>2, <4>2
      <4> QED BY <1>2, <1>3, <1>6, <3>1, <3>2, <4>2, <4>3
    <3>3. CASE b >= src /\ b < src + n
      BY <1>3, <1>7, <3>3
    <3>4. CASE b >= src + n
      <4>1. b + diff \notin gap /\ b + diff \in 0..(data_offset - 1)
        BY <1>2, <1>4, <2>5, <3>1, <3>4 DEF gp
      <4>2. PICK g \in Files : start_index[g] <= b + diff /\ b + diff < start_index[g] + count[g]
        BY <1>1, <4>1 DEF Tiles
      <4>3. g # f /\ count[g] # 0 /\ start_index[g] \in Nat /\ count[g] \in Nat
        BY <1>2, <3>1, <3>4, <4>2
      <4> QED BY <1>2, <1>3, <1>6, <3>1, <3>4, <4>2, <4>3
    <3> QED BY <1>2, <3>1, <3>2, <3>3, <3>4
  <2> QED BY <1>2, <1>3, <1>11, <2>1, <2>2, <2>3, <2>4, <2>5 DEF Tiles
<1> QED BY <1>1, <1>2, <1>12, LayoutAssumption, InvIsTilingNext DEF st, gp, off

(***************************************************************************)
(* Making room for n blocks at i, which no file's run straddles.           *)
(***************************************************************************)
LEMMA AddGapStep ==
  ASSUME LayoutInv, NEW i \in 0..data_offset, NEW n \in 1..MaxOffset, AddGap(i, n)
  PROVE  LayoutInv'
PROOF
<1> DEFINE st == start_index'
           gp == gap'
           off == data_offset'
<1>1. Tiles(data_offset, start_index, count, gap) /\ data_offset <= MaxOffset
  BY InvIsTiling
<1>2. /\ data_offset \in Nat /\ i \in Nat /\ n \in Nat /\ n > 0
      /\ off = data_offset + n /\ off <= MaxOffset
      /\ start_index \in [Files -> Nat] /\ count \in [Files -> Nat] /\ gap \in SUBSET Nat
      /\ count' = count
  BY <1>1, LayoutAssumption DEF AddGap, Tiles
<1>3. ASSUME NEW g \in Files, count[g] # 0
      PROVE  start_index[g] >= i \/ start_index[g] + count[g] <= i
  <2>1. CASE i = 0
    BY <1>2, <2>1
  <2>2. CASE \E f \in Files : count[f] # 0 /\ i = start_index[f]
    <3>1. PICK f \in Files : count[f] # 0 /\ i = start_index[f]
      BY <2>2
    <3>2. CASE f = g
      BY <1>2, <3>1, <3>2
    <3>3. CASE f # g
      <4>1. \/ start_index[f] + count[f] <= start_index[g]
            \/ start_index[g] + count[g] <= start_index[f]
        BY <1>1, <1>3, <3>1, <3>3 DEF Tiles
      <4>2. start_index[g] \in Nat /\ count[g] \in Nat /\ count[f] \in Nat
        BY <1>2
      <4> QED BY <1>2, <3>1, <4>1, <4>2
    <3> QED BY <3>2, <3>3
  <2> QED BY <2>1, <2>2 DEF AddGap
<1>4. ASSUME NEW g \in Files, count[g] # 0
      PROVE  \/ start_index[g] >= i /\ st[g] = start_index[g] + n
             \/ start_index[g] + count[g] <= i /\ st[g] = start_index[g]
  <2>1. start_index[g] \in Nat /\ count[g] \in Nat /\ start_index[g] + count[g] <= data_offset
    BY <1>1, <1>2, <1>4 DEF Tiles
  <2>2. CASE i >= data_offset
    <3>1. st = start_index
      BY <2>2 DEF AddGap
    <3> QED BY <1>2, <1>3, <1>4, <2>1, <2>2, <3>1
  <2>3. CASE ~(i >= data_offset)
    <3>1. st = [h \in Files |-> IF start_index[h] >= i THEN start_index[h] + n
                                                       ELSE start_index[h]]
      BY <2>3 DEF AddGap
    <3> QED BY <1>2, <1>3, <1>4, <2>1, <3>1
  <2> QED BY <2>2, <2>3
<1>5. gp = { b \in 0..(data_offset + n - 1) :
               \/ b < i /\ b \in gap
               \/ b >= i /\ b < i + n
               \/ b - n >= i /\ b - n \in gap }
  BY DEF AddGap
<1>6. st \in [Files -> Nat] /\ gp \in SUBSET Nat
  BY <1>2, <1>5 DEF AddGap
<1>7. off \in Nat
  BY <1>2
<1> HIDE DEF st, gp, off
<1>8. Tiles(off, st, count, gp)
  <2>1. ASSUME NEW g \in Files, count[g] # 0 PROVE st[g] + count[g] <= off
    <3>1. start_index[g] \in Nat /\ count[g] \in Nat /\ start_index[g] + count[g] <= data_offset
      BY <1>1, <1>2, <2>1 DEF Tiles
    <3> QED BY <1>2, <1>4, <2>1, <3>1
  <2>2. ASSUME NEW b \in gp PROVE b < off
    BY <1>2, <1>5
  <2>3. ASSUME NEW b \in gp, NEW g \in Files, st[g] <= b, b < st[g] + count[g]
        PROVE  FALSE
    <3>1. count[g] # 0 /\ start_index[g] \in Nat /\ count[g] \in Nat /\ b \in Nat
      BY <1>2, <1>6, <2>3
    <3>2. CASE b < i /\ b \in gap
      BY <1>1, <1>2, <1>4, <2>3, <3>1, <3>2 DEF Tiles
    <3>3. CASE b >= i /\ b < i + n
      BY <1>2, <1>4, <2>3, <3>1, <3>3
    <3>4. CASE b - n >= i /\ b - n \in gap
      BY <1>1, <1>2, <1>4, <2>3, <3>1, <3>4 DEF Tiles
    <3> QED BY <1>5, <3>2, <3>3, <3>4
  <2>4. ASSUME NEW g \in Files, NEW h \in Files, g # h, count[g] # 0, count[h] # 0
        PROVE  st[g] + count[g] <= st[h] \/ st[h] + count[h] <= st[g]
    <3>1. start_index[g] \in Nat /\ count[g] \in Nat /\ start_index[h] \in Nat /\ count[h] \in Nat
      BY <1>2
    <3>2. \/ start_index[g] + count[g] <= start_index[h]
          \/ start_index[h] + count[h] <= start_index[g]
      BY <1>1, <2>4 DEF Tiles
    <3> QED BY <1>2, <1>4, <2>4, <3>1, <3>2
  <2>5. ASSUME NEW b \in 0..(off - 1), b \notin gp
        PROVE  \E g \in Files : st[g] <= b /\ b < st[g] + count[g]
    <3>1. b \in Nat /\ b \in 0..(data_offset + n - 1)
      BY <1>2
    <3>2. CASE b < i
      <4>1. b \notin gap /\ b \in 0..(data_offset - 1)
        BY <1>2, <1>5, <2>5, <3>1, <3>2
      <4>2. PICK g \in Files : start_index[g] <= b /\ b < start_index[g] + count[g]
        BY <1>1, <4>1 DEF Tiles
      <4>3. count[g] # 0 /\ start_index[g] \in Nat /\ count[g] \in Nat
        BY <1>2, <3>1, <4>2
      <4> QED BY <1>2, <1>4, <3>1, <3>2, <4>2, <4>3
    <3>3. CASE b >= i + n
      <4>1. b - n \notin gap /\ b - n \in 0..(data_offset - 1)
        BY <1>2, <1>5, <2>5, <3>1, <3>3
      <4>2. PICK g \in Files : start_index[g] <= b - n /\ b - n < start_index[g] + count[g]
        BY <1>1, <4>1 DEF Tiles
      <4>3. count[g] # 0 /\ start_index[g] \in Nat /\ count[g] \in Nat
        BY <1>2, <3>1, <4>2
      <4> QED BY <1>2, <1>4, <3>1, <3>3, <4>2, <4>3
    <3>4. CASE b >= i /\ b < i + n
      BY <1>5, <2>5, <3>1, <3>4
    <3> QED BY <1>2, <3>1, <3>2, <3>3, <3>4
  <2> QED BY <1>2, <1>6, <1>7, <2>1, <2>2, <2>3, <2>4, <2>5 DEF Tiles
<1> QED BY <1>2, <1>8, InvIsTilingNext DEF st, gp, off

\* Every call keeps the invariant.
LEMMA LayoutStep == LayoutInv /\ [Next]_layout => LayoutInv'
PROOF
<1> SUFFICES ASSUME LayoutInv, [Next]_layout PROVE LayoutInv'
  OBVIOUS
<1>1. CASE UNCHANGED layout
  BY <1>1 DEF layout, LayoutInv, TypeOK, NoOverlap, NoLeak, Owns
<1>2. ASSUME NEW f \in Files, Move(f) \/ Grow(f) \/ Release(f) PROVE LayoutInv'
  BY <1>2, MoveStep, GrowStep, ReleaseStep
<1>3. ASSUME NEW f \in Files, NEW n \in 0..count[f], Truncate(f, n) PROVE LayoutInv'
  BY <1>3, TruncateStep
<1>4. ASSUME NEW i \in 0..data_offset, NEW n \in 1..MaxOffset, AddGap(i, n) PROVE LayoutInv'
  BY <1>4, AddGapStep
<1> QED BY <1>1, <1>2, <1>3, <1>4 DEF Next

\* The runs of the files and the gaps tile the used area in every reachable
\* state, and the accounting never wraps around.
THEOREM LayoutInvariant == Spec => []LayoutInv
  BY LayoutInit, LayoutStep, PTL DEF Spec

\* start_index and data_offset never go negative (file_move_to_end.c,
\* file_truncate.c and file_write.c subtract from unsigned fields).
THEOREM TypeCorrect == Spec => []TypeOK
  BY LayoutInvariant, PTL DEF LayoutInv

\* No two files own a block of the volume and no file owns a block of a gap,
\* for any number of files and blocks and any order of calls.
THEOREM FilesDisjoint == Spec => []NoOverlap
  BY LayoutInvariant, PTL DEF LayoutInv

\* Every block below data_offset is used.
THEOREM NoBlockLost == Spec => []NoLeak
  BY LayoutInvariant, PTL DEF LayoutInv
=============================================================================
