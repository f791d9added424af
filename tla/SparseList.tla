----------------------------- MODULE SparseList -----------------------------
(***************************************************************************)
(* The sparse accounting of one file: file_sparse_holes_t, the linked list *)
(* of block ranges of a file that are not stored on the volume             *)
(* (include/fstree.h).  A list is a sequence of regions in list order; the *)
(* operators below are the list manipulations of                           *)
(* lib/filesystem/fstree/file_mark_sparse.c, file_mark_not_sparse.c,       *)
(* file_truncate.c and the region walks of file_read.c and file_append.c.  *)
(***************************************************************************)
EXTENDS Integers, Sequences, SequencesExt, FiniteSetsExt

Region == [index : Nat, count : Nat]

RegionEnd(r) == r.index + r.count

\* Block i of the file lies in region r.
Covers(r, i) == r.index <= i /\ i < RegionEnd(r)

\* The region that holds block i.  0 if there is none.
RegionOf(s, i) == SelectInSeq(s, LAMBDA r : Covers(r, i))

IsSparse(s, i) == \E k \in 1..Len(s) : Covers(s[k], i)

\* The set of blocks a list stands for.
Blocks(s) == UNION { s[k].index .. RegionEnd(s[k]) - 1 : k \in 1..Len(s) }

\* What a walk over the list adds up, v[k] for region k.
Total(v) ==
  LET sum[k \in 0..Len(v)] == IF k = 0 THEN 0 ELSE sum[k - 1] + v[k]
  IN  sum[Len(v)]

\* The number of blocks in the regions of s for which Test holds.
CountWhere(s, Test(_)) ==
  Total([k \in 1..Len(s) |-> IF Test(s[k]) THEN s[k].count ELSE 0])

(***************************************************************************)
(* try_merge: the first region that holds block i, ends right before it or *)
(* starts right after it.  0 if there is none.                             *)
(***************************************************************************)
MergeIndex(s, i) ==
  SelectInSeq(s, LAMBDA r : i <= RegionEnd(r) /\ i + 1 >= r.index)

\* Mutant: regions that touch after growing are left alone.
GrowUpAlone(s, k) == [s EXCEPT ![k].count = @ + 1]

\* Region k grows at its end and swallows the next region if they now touch.
GrowUp(s, k) ==
  LET end == RegionEnd(s[k]) + 1
  IN  IF k < Len(s) /\ s[k + 1].index = end
      THEN RemoveAt([s EXCEPT ![k].count = @ + 1 + s[k + 1].count], k + 1)
      ELSE [s EXCEPT ![k].count = @ + 1]

\* Region k grows at its start and is swallowed by the previous one if they touch.
GrowDown(s, k) ==
  IF k > 1 /\ s[k].index - 1 = RegionEnd(s[k - 1])
  THEN RemoveAt([s EXCEPT ![k - 1].count = @ + 1 + s[k].count], k)
  ELSE [s EXCEPT ![k] = [index |-> @.index - 1, count |-> @.count + 1]]

try_merge(s, k, i) ==
  CASE Covers(s[k], i)       -> s
    [] i = RegionEnd(s[k])   -> GrowUp(s, k)
    [] i + 1 = s[k].index    -> GrowDown(s, k)

\* In front of the first region that does not start before i.
insert_new_region(s, i) ==
  LET k == SelectInSeq(s, LAMBDA r : r.index >= i)
  IN  InsertAt(s, IF k = 0 THEN Len(s) + 1 ELSE k, [index |-> i, count |-> 1])

MarkSparse(s, i) ==
  LET k == MergeIndex(s, i)
  IN  IF k # 0 THEN try_merge(s, k, i) ELSE insert_new_region(s, i)

(***************************************************************************)
(* fstree_file_mark_not_sparse: take block i out of the region holding it, *)
(* dropping an emptied region and splitting one that is cut in the middle. *)
(***************************************************************************)
TakeOut(s, k, i) ==
  LET r   == s[k]
      rel == i - r.index
  IN  CASE r.count = 1       -> RemoveAt(s, k)
        [] r.count > 1 /\ rel = 0 ->
             [s EXCEPT ![k] = [index |-> i + 1, count |-> @.count - 1]]
        [] r.count > 1 /\ rel = r.count - 1 -> [s EXCEPT ![k].count = @ - 1]
        [] OTHER             ->
             InsertAt([s EXCEPT ![k].count = rel], k + 1,
                      [index |-> i + 1, count |-> r.count - rel - 1])

MarkNotSparse(s, i) ==
  LET k == RegionOf(s, i)
  IN  IF k = 0 THEN s ELSE TakeOut(s, k, i)

\* A region of which only the blocks before n are left.
Clip(r, n) == [r EXCEPT !.count = IF @ >= n - r.index THEN n - r.index ELSE @]

\* truncate_sparse: forget the regions past the first n blocks, clip the rest.
TruncateSparse(s, n) ==
  LET cut[k \in 0..Len(s)] ==
        IF k = 0 THEN <<>>
        ELSE IF s[k].index >= n THEN cut[k - 1]
        ELSE Append(cut[k - 1], Clip(s[k], n))
  IN  cut[Len(s)]

(***************************************************************************)
(* What every list operation relies on: regions are not empty, they are in *)
(* ascending order and two neighbours are at least one block apart, so     *)
(* that a set of blocks has exactly one list.                              *)
(***************************************************************************)
WellFormed(s) ==
  /\ \A k \in 1..Len(s) : s[k].count > 0
  /\ \A k \in 1..(Len(s) - 1) : RegionEnd(s[k]) < s[k + 1].index
=============================================================================
