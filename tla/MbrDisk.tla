------------------------------- MODULE MbrDisk -------------------------------
(***************************************************************************)
(* A DOS partition table (lib/image/partition/mbr): up to four partitions  *)
(* that lie behind each other on one disk, in multiples of MBR_PART_ALIGN  *)
(* sectors.  Each is a volume of its own.  A write past the end of one     *)
(* that may grow makes room by pushing the later partitions back, after    *)
(* cutting these down to what they use; commit() cuts all of them down and *)
(* lets the one marked FILL expand.                                        *)
(*                                                                         *)
(* A sector holds the number of the partition that wrote it, or 0, so what *)
(* a partition has stored is a set of sectors.  The calls come from the    *)
(* filesystem drivers; the tool gives up on the first one that fails and   *)
(* commit() is the last.                                                   *)
(***************************************************************************)
EXTENDS Integers, Sequences, FiniteSetsExt, SequencesExt

CONSTANTS
  MaxParts,   \* MAX_MBR_PARTITIONS
  Align,      \* MBR_PART_ALIGN, also MBR_RESERVED
  Sectors,    \* get_max_block_count() of the disk
  Sizes,      \* the partition sizes callers ask for, in sectors
  Touched,    \* the sectors of a partition callers write, move or discard
  MaxLive     \* bound: sectors with data on the disk at a time

ASSUME MbrAssumption ==
  /\ MaxParts \in Nat /\ Align \in Nat \ {0} /\ Sectors \in Nat
  /\ Sizes \subseteq Nat /\ Touched \subseteq Nat /\ MaxLive \in Nat

VARIABLES
  mbr,     \* mbr_disk_t: part, in order of creation; disk: sector -> contents
  live,    \* history: the sectors each partition was given data for
  phase,   \* "open", "failed" or "committed"
  on       \* history: the partition the last call was made on, 0 for commit

vars == <<mbr, live, phase, on>>

Disk == 0 .. Sectors - 1
Parts == 1 .. Len(mbr.part)

Init ==
  /\ mbr = [part |-> <<>>, disk |-> [s \in Disk |-> 0]]
  /\ live = <<>>
  /\ phase = "open"
  /\ on = 0

Ok(d) == [mbr |-> d, ok |-> TRUE]
Err(d) == [mbr |-> d, ok |-> FALSE]
Then(o, Rest(_)) == IF o.ok THEN Rest(o.mbr) ELSE o

AlignUp(n) == ((n + Align - 1) \div Align) * Align
AlignDown(n) == (n \div Align) * Align

End(p) == p.index + p.count
LastEnd(d) == Max({Align} \cup { End(d.part[k]) : k \in DOMAIN d.part })

(***************************************************************************)
(* The disk underneath.  Discarding reaches at most to its end (a negative *)
(* count is one that wrapped around), every other access past it fails.    *)
(***************************************************************************)
Discard(d, from, n) ==
  [d EXCEPT !.disk = [s \in Disk |->
     IF s >= from /\ (n < 0 \/ s < from + n) THEN 0 ELSE @[s]]]

\* volume_memmove; what it may have copied when it fails lies behind the last partition.
MemMove(d, dst, src, n) ==
  IF n = 0 \/ dst = src THEN Ok(d)
  ELSE IF Max({dst, src}) + n > Sectors THEN Err(d)
  ELSE Ok([d EXCEPT !.disk = [s \in Disk |->
             IF s >= dst /\ s < dst + n THEN @[s - dst + src] ELSE @[s]]])

Write(d, s, v) ==
  IF s \in Disk THEN Ok([d EXCEPT !.disk[s] = v]) ELSE Err(d)

(***************************************************************************)
(* Changing the size of a partition.                                       *)
(***************************************************************************)
Longer(p, n) == [p EXCEPT !.count = @ + n]
Shifted(p, n) == [p EXCEPT !.index = @ + n]

\* Partition k gets n sectors more and the ones behind it move by as many.
Resize(d, k, n) ==
  [d EXCEPT !.part = [j \in DOMAIN d.part |->
     IF j = k THEN Longer(d.part[j], n)
     ELSE IF d.part[j].index > d.part[k].index THEN Shifted(d.part[j], n)
     ELSE d.part[j]]]

\* Mutant: the minimum size is not looked at.
ShrinkByAny(p, n) ==
  LET aligned == Min({AlignDown(n), p.count})
  IN  IF p.count - aligned < Align THEN p.count - Align ELSE aligned

\* How much a request to shrink by n really takes away: whole multiples of Align,
\* leaving one of them and the minimum size.
ShrinkBy(p, n) ==
  LET aligned == Min({AlignDown(n), p.count})
      kept == IF p.count - aligned < Align THEN p.count - Align ELSE aligned
  IN  IF p.count - kept < p.min THEN p.count - p.min ELSE kept

shrink_partition(d, k, n) ==
  LET diff == ShrinkBy(d.part[k], n)
      last == LastEnd(d) - 1
  IN  IF diff = 0 THEN d ELSE Resize(Discard(d, last - diff, diff), k, -diff)

mbr_shrink_to_fit(d, k) ==
  IF d.part[k].used >= d.part[k].count THEN d
  ELSE shrink_partition(d, k, d.part[k].count - d.part[k].used)

ShrinkBehind(d, k) ==
  LET start == d.part[k].index
      s[j \in 0..Len(d.part)] ==
        IF j = 0 THEN d
        ELSE IF s[j - 1].part[j].index > start THEN mbr_shrink_to_fit(s[j - 1], j)
        ELSE s[j - 1]
  IN  s[Len(d.part)]

\* Mutant: the table is changed, but the data behind stays where it is.
grow_partition_inplace(d, k, n) ==
  LET diff == IF n = 0 THEN Align ELSE AlignUp(n)
      s == ShrinkBehind(d, k)
  IN  IF LastEnd(s) + diff > Sectors THEN Err(s)
      ELSE Ok(Resize(s, k, diff))

\* The data behind is moved back, then the new sectors are cleared and the table
\* is changed.
grow_partition(d, k, n) ==
  LET diff == IF n = 0 THEN Align ELSE AlignUp(n)
      s == ShrinkBehind(d, k)
      end == End(s.part[k])
      moved == MemMove(s, end + diff, end, LastEnd(s) - end)
  IN  Then(moved, LAMBDA a : Ok(Resize(Discard(a, end, diff), k, diff)))

\* The sectors of all partitions together.
Allocated(d) ==
  LET sum[j \in 0..Len(d.part)] == IF j = 0 THEN 0 ELSE sum[j - 1] + d.part[j].count
  IN  sum[Len(d.part)]

\* Mutant: the sectors in front of the first partition are counted as free.
get_free_space_reserved(d) ==
  LET free == AlignDown(Sectors)
      used == Allocated(d)
  IN  IF used < free THEN free - used ELSE 0

get_free_space(d) ==
  LET free == AlignDown(Sectors)
      used == Align + Allocated(d)
  IN  IF used < free THEN free - used ELSE 0

mbr_apply_expand_policy(d, k) ==
  LET avail == get_free_space(d)
  IN  IF ~d.part[k].fill \/ d.part[k].count >= avail THEN Ok(d)
      ELSE grow_partition(d, k, avail - d.part[k].count)

get_max_count(d, k) ==
  d.part[k].count + (IF d.part[k].grow THEN get_free_space(d) ELSE 0)

(***************************************************************************)
(* A partition as a volume.                                                *)
(***************************************************************************)
part_read_block(d, k, i) ==
  IF i >= d.part[k].count THEN 0
  ELSE IF d.part[k].index + i \in Disk THEN d.disk[d.part[k].index + i] ELSE 0

UseUpTo(d, k, n) == [d EXCEPT !.part[k].used = Max({@, n})]

WriteBlock(d, k, i) ==
  LET p == d.part[k]
      store(a) == Write(UseUpTo(a, k, i + 1), p.index + i, k)
  IN  IF i < p.count THEN store(d)
      ELSE IF ~p.grow THEN Err(d)
      ELSE Then(grow_partition(d, k, i - p.count + 1), store)

DiscardBlocks(d, k, i, n) ==
  LET p == d.part[k]
      count == Min({n, p.used - i})
      a == [d EXCEPT !.part[k].used = IF i + count = p.used THEN i ELSE @]
  IN  IF i >= p.used \/ count = 0 THEN d ELSE Discard(a, p.index + i, count)

MoveBlock(d, k, src, dst) ==
  LET p == d.part[k]
      copy(a) == MemMove(UseUpTo(a, k, dst), p.index + dst, p.index + src, 1)
  IN  IF (src >= p.count \/ dst >= p.count) /\ ~p.grow THEN Err(d)
      ELSE IF src >= p.used /\ dst >= p.used THEN Ok(d)
      ELSE IF src >= p.used THEN Ok(DiscardBlocks(d, k, dst, 1))
      ELSE IF dst >= p.count THEN Then(grow_partition(d, k, dst - p.count + 1), copy)
      ELSE copy(d)

Truncate(d, k, size) ==
  LET p == d.part[k]
      count == AlignUp(size)
      resized == IF count < p.count
                 THEN Ok(shrink_partition(d, k, p.count - count))
                 ELSE grow_partition(d, k, count - p.count)
  IN  IF count <= p.min \/ count = p.count THEN Ok(d)
      ELSE Then(resized, LAMBDA a :
             Ok([a EXCEPT !.part[k].count = count, !.part[k].used = count]))

\* At most one partition is marked FILL: marking one takes the mark from the others.
Unmarked(p, fill) == [p EXCEPT !.fill = @ /\ ~fill]

SetFlags(d, k, grow, fill) ==
  [d EXCEPT !.part = [j \in DOMAIN d.part |->
     IF j = k THEN [d.part[j] EXCEPT !.grow = grow, !.fill = fill]
     ELSE Unmarked(d.part[j], fill)]]

(***************************************************************************)
(* The calls.                                                              *)
(***************************************************************************)
\* The call on partition k leaves o behind, and data in exactly the sectors l.
Outcome(k, o, l) ==
  /\ phase = "open"
  /\ on' = k
  /\ MapThenSumSet(LAMBDA j : Cardinality(l[j]), DOMAIN l) <= MaxLive
  /\ mbr' = o.mbr
  /\ phase' = IF o.ok THEN "open" ELSE "failed"
  /\ live' = IF o.ok THEN l ELSE live

mbr_disk_create_parition(n, grow, fill) ==
  LET count == AlignUp(Max({n, 1}))
      start == LastEnd(mbr)
      new == [index |-> start, count |-> count, min |-> count, used |-> 0,
              grow |-> grow, fill |-> fill]
      zeroed == Discard(mbr, start, count)
      added == [zeroed EXCEPT !.part =
                  Append([j \in DOMAIN mbr.part |-> Unmarked(mbr.part[j], fill)], new)]
  IN  Outcome(Len(mbr.part) + 1,
              IF Len(mbr.part) = MaxParts THEN Err(mbr)
              ELSE IF start + count > Sectors THEN Err(zeroed) ELSE Ok(added),
              Append(live, {}))

part_write_block(k, i) == Outcome(k, WriteBlock(mbr, k, i), [live EXCEPT ![k] = @ \cup {i}])

part_discard_blocks(k, i, n) ==
  Outcome(k, Ok(DiscardBlocks(mbr, k, i, n)), [live EXCEPT ![k] = @ \ (i..(i + n - 1))])

part_move_block(k, src, dst) ==
  Outcome(k, MoveBlock(mbr, k, src, dst),
          [live EXCEPT ![k] = IF src \in @ THEN @ \cup {dst} ELSE @ \ {dst}])

part_truncate(k, size) ==
  LET o == Truncate(mbr, k, size)
  IN  Outcome(k, o, [live EXCEPT ![k] = { i \in @ : i < o.mbr.part[k].count }])

part_set_flags(k, grow, fill) == Outcome(k, Ok(SetFlags(mbr, k, grow, fill)), live)

ShrinkAll(d) ==
  LET s[j \in 0..Len(d.part)] == IF j = 0 THEN d ELSE mbr_shrink_to_fit(s[j - 1], j)
  IN  s[Len(d.part)]

ExpandAll(d) ==
  LET o[j \in 0..Len(d.part)] ==
        IF j = 0 THEN Ok(d) ELSE Then(o[j - 1], LAMBDA a : mbr_apply_expand_policy(a, j))
  IN  o[Len(d.part)]

Committed(d) == ExpandAll(ShrinkAll(d))

mbr_disk_commit ==
  /\ phase = "open"
  /\ mbr' = Committed(mbr).mbr
  /\ phase' = IF Committed(mbr).ok THEN "committed" ELSE "failed"
  /\ on' = 0
  /\ UNCHANGED live

Next ==
  \/ \E n \in Sizes, grow, fill \in BOOLEAN : mbr_disk_create_parition(n, grow, fill)
  \/ \E k \in Parts, i \in Touched : part_write_block(k, i)
  \/ \E k \in Parts, i \in Touched, n \in 1..Align : part_discard_blocks(k, i, n)
  \/ \E k \in Parts, src, dst \in Touched : part_move_block(k, src, dst)
  \/ \E k \in Parts, n \in Sizes : part_truncate(k, n)
  \/ \E k \in Parts, grow, fill \in BOOLEAN : part_set_flags(k, grow, fill)
  \/ mbr_disk_commit

Spec == Init /\ [][Next]_vars
-----------------------------------------------------------------------------
\* The partitions lie behind each other without overlap and without holes, in
\* whole multiples of MBR_PART_ALIGN, none below its minimum size, and none of
\* them counts more sectors as used than it has, whatever was pushed, cut down
\* or expanded; at most one of them is marked FILL (include/volume.h).
Packed ==
  /\ \A k \in Parts :
       LET p == mbr.part[k]
       IN  /\ p.index = IF k = 1 THEN Align ELSE End(mbr.part[k - 1])
           /\ p.count % Align = 0 /\ p.count >= p.min
           /\ p.used <= p.count
  /\ \A j, k \in Parts : mbr.part[j].fill /\ mbr.part[k].fill => j = k

InDisk == LastEnd(mbr) <= Sectors

\* Drivers size a filesystem by get_max_block_count(): as long as the table fits
\* the disk, a write to any block below it succeeds, if need be by pushing the
\* later partitions back.
MaxIsPromised ==
  phase = "open" /\ InDisk =>
    \A k \in Parts, i \in Disk :
      i < get_max_count(mbr, k) => WriteBlock(mbr, k, i).ok

\* The sectors of no partition up to k are cut: shrink_partition gives the later
\* partitions new places but leaves their data where it was, and commit shrinks
\* every partition to what it uses before it expands one.
Uncut(k) ==
  \A j \in 1..k : /\ mbr'.part[j].count >= mbr.part[j].count
                  /\ on' = 0 => mbr_shrink_to_fit(mbr, j) = mbr

\* A call on one partition does not change what another one holds, although its
\* sectors may be pushed back and whether the call succeeds or fails half way, as
\* long as neither the other one nor one in front of it is made smaller.  The same
\* goes for commit and the partitions up to the first it has something to cut off.
OthersKept ==
  [][\A k \in Parts \ {on'} : Uncut(k) =>
       \A i \in Disk : part_read_block(mbr', k, i) = part_read_block(mbr, k, i)]_vars

\* include/volume.h: a partition is a volume, which reads back what was written
\* or moved to a block.
DataKept ==
  phase = "open" =>
    \A k \in Parts : \A i \in live[k] : part_read_block(mbr, k, i) = k
=============================================================================
