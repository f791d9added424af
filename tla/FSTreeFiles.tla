----------------------------- MODULE FSTreeFiles -----------------------------
(***************************************************************************)
(* File data in an fstree_t (lib/filesystem/fstree/file_*.c, add_gap.c).   *)
(* Every file of the tree keeps its data as one contiguous run of blocks   *)
(* on the shared volume, from start_index on; blocks that hold only zeros  *)
(* are not stored but listed as sparse.  Growing a file moves its run to   *)
(* the end of the used area (data_offset) and closes the gap, so every     *)
(* operation on one file shifts the data of the others.                    *)
(*                                                                         *)
(* An append or an overwrite goes block by block; one step of the model is *)
(* one iteration of that loop, and `job' is what is left of the call in    *)
(* progress.  A buffer is a sequence of bytes; a NULL buffer (append zero  *)
(* bytes) is a sequence of zeros, which the code treats alike.  The tool   *)
(* gives up on the first call that fails (main() of bin/imagebuild), so    *)
(* none follows it.                                                        *)
(***************************************************************************)
EXTENDS SparseList

CONSTANTS
  Files,       \* the regular files of the tree
  BlockSize,   \* fs->volume->blocksize
  MaxBlocks,   \* get_max_block_count() of the volume
  Uses,        \* how drivers use a tree, see UseRecord
  MaxGaps      \* bound: blocks inserted by fstree_add_gap in one behaviour

\* Whether FSTREE_FLAG_NO_SPARSE is set, the buffers, file sizes and offsets the
\* callers hand in, and the bound max_size on the size of a file.  If the files
\* are volumes for nested filesystems: their block size (0 if they are not) and
\* their minimum and maximum block counts.
UseRecord(u) ==
  /\ DOMAIN u = {"no_sparse", "buffers", "sizes", "max_size", "blk", "min", "max"}
  /\ u.no_sparse \in BOOLEAN
  /\ u.buffers \subseteq Seq(Nat) /\ <<>> \notin u.buffers
  /\ u.sizes \subseteq Nat /\ u.max_size \in Nat
  /\ u.blk \in Nat /\ u.min \in Nat /\ u.max \in Nat
  /\ u.max * u.blk <= u.max_size

ASSUME FSTreeAssumption ==
  /\ BlockSize \in Nat \ {0}
  /\ MaxBlocks \in Nat /\ MaxGaps \in Nat
  /\ \A u \in Uses : UseRecord(u)

VARIABLES
  fs,     \* the volume's blocks and the accounting: disk, data_offset, file,
          \* and, as history, gap: where the blocks of fstree_add_gap are now
  job,    \* the rest of the fstree_file_append/_write call in progress
  want,   \* history: the contents each file has when the call has returned
  use     \* the use this tree is put to, set up by fstree_create()

vars == <<fs, job, want, use>>

NoSparse == use.no_sparse
MaxSize == use.max_size

Disk   == 0 .. MaxBlocks - 1
InBlk  == 0 .. BlockSize - 1
Zeros(n) == [j \in 1..n |-> 0]
ZeroBlock == [j \in InBlk |-> 0]
is_memory_zero(data) == \A j \in 1..Len(data) : data[j] = 0

BlocksFor(bytes) == (bytes + BlockSize - 1) \div BlockSize

NoFile == "none"
Failed == "failed"
Idle == [file |-> NoFile, apps |-> <<>>, off |-> 0, over |-> <<>>]

Init ==
  /\ fs = [disk |-> [b \in Disk |-> ZeroBlock], data_offset |-> 0, gap |-> {},
           file |-> [f \in Files |->
                       [size |-> 0, start_index |-> 0, sparse |-> <<>>]]]
  /\ job = Idle
  /\ want = [f \in Files |-> <<>>]
  /\ use \in Uses

(***************************************************************************)
(* A call that may fail returns the tree it leaves behind and whether it   *)
(* succeeded; the caller goes on only if it did.                           *)
(***************************************************************************)
Ok(s) == [fs |-> s, ok |-> TRUE]
Err(s) == [fs |-> s, ok |-> FALSE]
Then(o, Rest(_)) == IF o.ok THEN Rest(o.fs) ELSE o

\* Another list of holes for a file, and a used area that is n blocks longer.
SetSparse(s, n, l) == [s EXCEPT !.file[n].sparse = l]
Used(s, n) == [s EXCEPT !.data_offset = @ + n]

(***************************************************************************)
(* The volume underneath (volume_t), as far as the fstree uses it: an      *)
(* access past the maximum block count fails, a discard never does.        *)
(***************************************************************************)
WritePartial(s, b, offset, data) ==
  IF b \notin Disk THEN Err(s)
  ELSE Ok([s EXCEPT !.disk[b] = [j \in InBlk |->
             IF j >= offset /\ j < offset + Len(data)
             THEN data[j - offset + 1] ELSE @[j]]])

Discard(s, b, n) ==
  [s EXCEPT !.disk = [x \in Disk |-> IF x >= b /\ x < b + n THEN ZeroBlock
                                                            ELSE @[x]]]

\* volume_memmove on whole blocks.  Copying forward stops at the first block
\* past the end of the volume, copying backward starts with it.
MemMove(s, dst, src, n) ==
  LET room == MaxBlocks - Max({dst, src})
      fits == n = 0 \/ dst = src \/ n <= room
      backward == src < dst /\ src + n - 1 >= dst
      moved == IF fits THEN n ELSE IF backward \/ room < 0 THEN 0 ELSE room
      r == [s EXCEPT !.disk = [x \in Disk |->
              IF x >= dst /\ x < dst + moved THEN @[x - dst + src] ELSE @[x]]]
  IN  IF fits THEN Ok(r) ELSE Err(r)

(***************************************************************************)
(* fstree_file_sparse_bytes, fstree_file_physical_size and the block count *)
(* their callers derive from it.                                           *)
(***************************************************************************)
BytesIn(r, size) ==
  IF r.index * BlockSize >= size THEN 0
  ELSE Min({r.count * BlockSize, size - r.index * BlockSize})

SparseBytes(f) == Total([k \in 1..Len(f.sparse) |-> BytesIn(f.sparse[k], f.size)])

PhysicalSize(f) == IF SparseBytes(f) >= f.size THEN 0 ELSE f.size - SparseBytes(f)

PhysBlocks(f) == BlocksFor(PhysicalSize(f))

\* Blocks of the file before block i that are not on the volume.
Skipped(f, i) == CountWhere(f.sparse, LAMBDA r : r.index < i /\ ~Covers(r, i))

\* fstree_file_read over the whole file.
ReadByte(s, f, p) ==
  LET i == p \div BlockSize
      b == f.start_index + i - Skipped(f, i)
  IN  IF IsSparse(f.sparse, i) THEN 0
      ELSE IF b \in Disk THEN s.disk[b][p % BlockSize] ELSE -1

Read(s, n) == [p \in 1..s.file[n].size |-> ReadByte(s, s.file[n], p - 1)]

(***************************************************************************)
(* fstree_file_move_to_end: make n the last file before data_offset.       *)
(***************************************************************************)
Lowered(f, from, n) ==
  IF PhysicalSize(f) # 0 /\ f.start_index >= from
  THEN [f EXCEPT !.start_index = @ - n] ELSE f

ShiftDown(s, from, n) ==
  [s EXCEPT !.file = [f \in Files |-> Lowered(s.file[f], from, n)],
            !.gap = { IF b >= from THEN b - n ELSE b : b \in s.gap }]

MoveToEnd(s, n) ==
  LET blk == PhysBlocks(s.file[n])
      src == s.file[n].start_index
      end == s.data_offset
      moved(a) == MemMove(a, src, src + blk, end - src)
      account(a) == ShiftDown([Discard(a, end, blk)
                                 EXCEPT !.file[n].start_index = end], src, blk)
  IN  IF blk = 0 THEN Ok([s EXCEPT !.file[n].start_index = end])
      ELSE IF blk >= end - src THEN Ok(s)
      ELSE Then(MemMove(s, end, src, blk),
                LAMBDA a : Then(moved(a), LAMBDA b : Ok(account(b))))

(***************************************************************************)
(* fstree_file_append, one iteration of its loop.                          *)
(***************************************************************************)
\* The walk over the sparse list in append_to_tail stops at the first region
\* that is not entirely in front of block tail_index - 1.
TailRegion(f, tail_index) ==
  SelectInSeq(f.sparse, LAMBDA r : r.count >= tail_index - r.index)

DropLastOf(l, k) ==
  IF l[k].count = 1 THEN RemoveAt(l, k) ELSE [l EXCEPT ![k].count = @ - 1]

\* Mutant: the data goes to the start of the tail block.
append_to_tail_start(s, n, tail_index, tail_size, data) ==
  WritePartial(s, s.file[n].start_index + tail_index, 0, data)

append_to_tail(s, n, tail_index, tail_size, data) ==
  LET f == s.file[n]
      k == TailRegion(f, tail_index)
      last(a) == a.data_offset
      fill(a) ==
        WritePartial(Used(SetSparse(a, n, DropLastOf(a.file[n].sparse, k)), 1),
                     last(a), tail_size, data)
  IN  IF k = 0
      THEN WritePartial(s, f.start_index + tail_index - CountWhere(f.sparse, LAMBDA r : TRUE),
                        tail_size, data)
      ELSE IF is_memory_zero(data) THEN Ok(s)
      ELSE Then(MoveToEnd(s, n), LAMBDA a :
             Then(WritePartial(a, last(a), 0, Zeros(tail_size)), fill))

append_block(s, n, data) ==
  Then(MoveToEnd(s, n), LAMBDA a :
    Then(WritePartial(a, a.data_offset, 0, data \o Zeros(BlockSize - Len(data))),
         LAMBDA b : Ok(Used(b, 1))))

AppendStep(s, n, data) ==
  LET tail_index == s.file[n].size \div BlockSize
      tail_size  == s.file[n].size % BlockSize
      grow(a) == Ok([a EXCEPT !.file[n].size = @ + Len(data)])
  IN  Then(IF tail_size > 0
             THEN append_to_tail(s, n, tail_index, tail_size, data)
           ELSE IF ~NoSparse /\ is_memory_zero(data)
             THEN Ok(SetSparse(s, n, MarkSparse(s.file[n].sparse, tail_index)))
           ELSE append_block(s, n, data), grow)

(***************************************************************************)
(* fstree_file_write, one iteration of its loop: write_partial_block with  *)
(* insert_sparse_block and remove_file_block.                              *)
(***************************************************************************)
\* Mutant: the blocks behind the hole stay where they are.
insert_sparse_block_over(s, n, real, i) ==
  Ok(Discard(Used(SetSparse(s, n, MarkNotSparse(s.file[n].sparse, i)), 1), real, 1))

\* Mutant: the used area does not grow.
insert_sparse_block_uncounted(s, n, real, i) ==
  Then(MemMove(s, real + 1, real, s.data_offset - real), LAMBDA a :
    Ok(SetSparse(a, n, MarkNotSparse(a.file[n].sparse, i))))

insert_sparse_block(s, n, real, i) ==
  Then(MemMove(s, real + 1, real, s.data_offset - real), LAMBDA a :
    Ok(Discard(Used(SetSparse(a, n, MarkNotSparse(a.file[n].sparse, i)), 1), real, 1)))

remove_file_block(s, n, real, i) ==
  Then(MemMove(s, real, real + 1, s.data_offset - real - 1), LAMBDA a :
    Ok(Discard(Used(SetSparse(a, n, MarkSparse(a.file[n].sparse, i)), -1),
               a.data_offset - 1, 1)))

\* Data is written to a block that was not stored so far.
FillHole(s, n, real, i, offset, data) ==
  Then(insert_sparse_block(s, n, real, i), LAMBDA a : WritePartial(a, real, offset, data))

\* The write covers all the bytes the file has in block i.
CoversBlock(f, i, offset, data) ==
  /\ offset = 0
  /\ \/ Len(data) = BlockSize
     \/ i = f.size \div BlockSize /\ Len(data) = f.size % BlockSize

WriteStep(s, n, i, offset, data) ==
  LET f == s.file[n]
      k == RegionOf(f.sparse, i)
      rel == i - Skipped(f, i)
      real(a) == a.file[n].start_index + rel
      hole(a) == real(a) - (i - f.sparse[k].index)
  IN  IF k # 0 /\ is_memory_zero(data) THEN Ok(s)
      ELSE IF k # 0
        THEN Then(MoveToEnd(s, n), LAMBDA a : FillHole(a, n, hole(a), i, offset, data))
      ELSE IF ~NoSparse /\ is_memory_zero(data) /\ CoversBlock(f, i, offset, data)
        THEN Then(MoveToEnd(s, n), LAMBDA a : remove_file_block(a, n, real(a), i))
      ELSE WritePartial(s, real(s), offset, data)

(***************************************************************************)
(* fstree_file_truncate to a smaller size.                                 *)
(***************************************************************************)
\* The accounting of the file that is left.
CutFile(f, size) ==
  [size |-> size, start_index |-> f.start_index,
   sparse |-> TruncateSparse(f.sparse, BlocksFor(size))]

\* What follows a file that starts at start moves down from old_end to new_end.
CloseUp(s, new_end, old_end, start) ==
  LET diff == old_end - new_end
  IN  Then(MemMove(s, new_end, old_end, s.data_offset - old_end), LAMBDA a :
        Ok(ShiftDown(Used(Discard(a, a.data_offset - diff, diff), -diff), start + 1, diff)))

\* Mutant: what is cut off inside the last block stays on the volume.
ShrinkDirty(s, n, size) ==
  LET f == s.file[n]
      cut == CutFile(f, size)
      end(g) == f.start_index + PhysBlocks(g)
  IN  CloseUp([s EXCEPT !.file[n] = cut], end(cut), end(f), f.start_index)

Shrink(s, n, size) ==
  LET f == s.file[n]
      start == f.start_index
      cut == CutFile(f, size)
      old == PhysBlocks(f)
      new == PhysBlocks(cut)
      tail == PhysicalSize(cut) % BlockSize
      s1 == [s EXCEPT !.file[n] = cut]
  IN  Then(IF new < old THEN CloseUp(s1, start + new, start + old, start) ELSE Ok(s1), LAMBDA a :
        IF tail > 0
        THEN WritePartial(a, start + new - 1, tail, Zeros(BlockSize - tail))
        ELSE Ok(a))

(***************************************************************************)
(* fstree_add_gap: make room for n blocks at an index of the volume.       *)
(***************************************************************************)
Raised(f, index, n) ==
  IF f.start_index >= index THEN [f EXCEPT !.start_index = @ + n] ELSE f

AddGap(s, index, n) ==
  IF index < s.data_offset
  THEN Then(MemMove(s, index + n, index, s.data_offset - index), LAMBDA a :
         Ok(Discard([a EXCEPT !.data_offset = a.data_offset + n,
                      !.gap = { IF b >= index THEN b + n ELSE b : b \in a.gap }
                                \cup index..(index + n - 1),
                      !.file = [f \in Files |-> Raised(a.file[f], index, n)]], index, n)))
  ELSE Ok(Discard([s EXCEPT !.data_offset = index + n,
                            !.gap = s.gap \cup index..(index + n - 1)], index, n))

-----------------------------------------------------------------------------
(***************************************************************************)
(* The calls.                                                              *)
(***************************************************************************)
Returned == job.apps = <<>> /\ job.over = <<>>
CanCall == Returned /\ job.file # Failed
GaveUp == [Idle EXCEPT !.file = Failed]

Overlay(c, off, data) ==
  [p \in 1..Max({Len(c), off + Len(data)}) |->
     IF p > off /\ p <= off + Len(data) THEN data[p - off]
     ELSE IF p <= Len(c) THEN c[p] ELSE 0]

fstree_file_append(n, data) ==
  /\ CanCall
  /\ fs.file[n].size + Len(data) <= MaxSize
  /\ job' = [Idle EXCEPT !.file = n, !.apps = <<data>>]
  /\ want' = [want EXCEPT ![n] = @ \o data]
  /\ UNCHANGED fs

\* Zero-fill up to the offset, append what lies past the end, overwrite the rest.
fstree_file_write(n, offset, data) ==
  LET size == fs.file[n].size
      avail == IF offset > size THEN 0 ELSE Min({size - offset, Len(data)})
      pad == IF offset > size THEN <<Zeros(offset - size)>> ELSE <<>>
      tail == IF avail < Len(data) THEN <<SubSeq(data, avail + 1, Len(data))>>
                                   ELSE <<>>
  IN  /\ CanCall
      /\ offset + Len(data) <= MaxSize
      /\ job' = [file |-> n, apps |-> pad \o tail, off |-> offset,
                 over |-> SubSeq(data, 1, avail)]
      /\ want' = [want EXCEPT ![n] = Overlay(@, offset, data)]
      /\ UNCHANGED fs

\* Growing appends zeros, shrinking is done on the spot.
fstree_file_truncate(n, size) ==
  /\ CanCall
  /\ size <= MaxSize
  /\ LET old == fs.file[n].size
         o == Shrink(fs, n, size)
     IN  \/ /\ size > old
            /\ job' = [Idle EXCEPT !.file = n, !.apps = <<Zeros(size - old)>>]
            /\ want' = [want EXCEPT ![n] = @ \o Zeros(size - old)]
            /\ UNCHANGED fs
         \/ /\ size < old
            /\ fs' = o.fs
            /\ job' = IF o.ok THEN Idle ELSE GaveUp
            /\ want' = [want EXCEPT ![n] = IF o.ok THEN SubSeq(@, 1, size)
                                           ELSE Read(o.fs, n)]

\* Filesystem drivers insert gaps at the start of the volume or of a file.
fstree_add_gap(index, n) ==
  /\ CanCall
  /\ index = 0 \/ \E f \in Files : /\ PhysicalSize(fs.file[f]) # 0
                                   /\ index = fs.file[f].start_index
  /\ Cardinality(fs.gap) + n <= MaxGaps
  /\ fs' = AddGap(fs, index, n).fs
  /\ job' = IF AddGap(fs, index, n).ok THEN Idle ELSE GaveUp
  /\ UNCHANGED want

(***************************************************************************)
(* A file as the volume of a nested filesystem (file_volume.c), with       *)
(* blocks of use.blk bytes.  What lies behind the end of the file reads as *)
(* zeros.                                                                  *)
(***************************************************************************)
IsVolume == use.blk > 0
BlkCount(n) == (fs.file[n].size + use.blk - 1) \div use.blk
Opened(n) == IsVolume /\ BlkCount(n) >= use.min

\* The file is created and brought up to the minimum size.
fstree_file_volume_create(n) ==
  /\ IsVolume /\ ~Opened(n) /\ CanCall
  /\ LET zeros == Zeros(use.min * use.blk - fs.file[n].size)
     IN  /\ job' = [Idle EXCEPT !.file = n, !.apps = <<zeros>>]
         /\ want' = [want EXCEPT ![n] = @ \o zeros]
  /\ UNCHANGED fs

InBounds(i, offset, size) == i < use.max /\ offset + size <= use.blk

fsvol_write_partial_block(n, i, offset, data) ==
  /\ Opened(n) /\ InBounds(i, offset, Len(data))
  /\ fstree_file_write(n, i * use.blk + offset, data)

fsvol_read_partial_block(n, i, offset, size) ==
  LET c == Read(fs, n)
  IN  [p \in 1..size |-> IF i * use.blk + offset + p <= Len(c)
                         THEN c[i * use.blk + offset + p] ELSE 0]

fsvol_move_block_partial(n, src, dst, src_offset, dst_offset, size) ==
  /\ Opened(n) /\ InBounds(src, src_offset, size) /\ InBounds(dst, dst_offset, size)
  /\ fstree_file_write(n, dst * use.blk + dst_offset,
                       fsvol_read_partial_block(n, src, src_offset, size))

\* In the middle zeros are written, at the end the file is cut off, and grown
\* again if it gets too small.
fsvol_discard_blocks(n, i, c) ==
  /\ Opened(n) /\ CanCall /\ i < BlkCount(n)
  /\ \/ /\ c < BlkCount(n) - i
        /\ fstree_file_write(n, i * use.blk, Zeros(c * use.blk))
     \/ /\ c >= BlkCount(n) - i
        /\ LET o == Shrink(fs, n, i * use.blk)
               grow == IF i < use.min THEN Zeros((use.min - i) * use.blk) ELSE <<>>
           IN  /\ fs' = o.fs
               /\ job' = IF ~o.ok THEN GaveUp
                         ELSE IF grow = <<>> THEN Idle
                         ELSE [Idle EXCEPT !.file = n, !.apps = <<grow>>]
               /\ want' = [want EXCEPT ![n] = IF o.ok THEN SubSeq(@, 1, i * use.blk) \o grow
                                              ELSE Read(o.fs, n)]

fsvol_truncate(n, size) ==
  /\ Opened(n)
  /\ size > use.min * use.blk /\ size <= use.max * use.blk
  /\ fstree_file_truncate(n, size)

Volume(n) ==
  \/ fstree_file_volume_create(n)
  \/ \E i \in 0..use.max - 1, o \in 0..use.blk - 1, d \in use.buffers :
       fsvol_write_partial_block(n, i, o, d)
  \/ \E i, j \in 0..use.max - 1, o, p \in 0..use.blk - 1, z \in use.sizes \ {0} :
       fsvol_move_block_partial(n, i, j, o, p, z)
  \/ \E i \in 0..use.max - 1, c \in 1..use.max : fsvol_discard_blocks(n, i, c)
  \/ \E z \in 1..use.max * use.blk : fsvol_truncate(n, z)

(***************************************************************************)
(* One iteration of a loop.  If it fails the call returns -1 at once, what *)
(* it has done so far stays.                                               *)
(***************************************************************************)
Outcome(o, n, next) ==
  /\ fs' = o.fs
  /\ job' = IF ~o.ok THEN GaveUp
            ELSE IF next.apps = <<>> /\ next.over = <<>> THEN Idle ELSE next
  /\ want' = IF o.ok THEN want ELSE [want EXCEPT ![n] = Read(o.fs, n)]

AppendIteration ==
  /\ job.apps # <<>>
  /\ LET n == job.file
         data == Head(job.apps)
         room == BlockSize - (fs.file[n].size % BlockSize)
         diff == Min({room, Len(data)})
         rest == SubSeq(data, diff + 1, Len(data))
     IN  Outcome(AppendStep(fs, n, SubSeq(data, 1, diff)), n,
                 [job EXCEPT !.apps = IF rest = <<>> THEN Tail(@)
                                      ELSE <<rest>> \o Tail(@)])

WriteIteration ==
  /\ job.apps = <<>> /\ job.over # <<>>
  /\ LET n == job.file
         i == job.off \div BlockSize
         offset == job.off % BlockSize
         diff == Min({BlockSize - offset, Len(job.over)})
     IN  Outcome(WriteStep(fs, n, i, offset, SubSeq(job.over, 1, diff)), n,
                 [job EXCEPT !.off = @ + diff,
                             !.over = SubSeq(@, diff + 1, Len(@))])

Calls(n) ==
  \/ \E d \in use.buffers : fstree_file_append(n, d)
  \/ \E o \in use.sizes, d \in use.buffers : fstree_file_write(n, o, d)
  \/ \E z \in use.sizes : fstree_file_truncate(n, z)

Step ==
  \/ ~IsVolume /\ \E n \in Files : Calls(n)
  \/ \E n \in Files : Volume(n)
  \/ \E i \in 0..MaxBlocks, c \in 1..MaxGaps : fstree_add_gap(i, c)
  \/ AppendIteration
  \/ WriteIteration

Next == Step /\ UNCHANGED use

Spec == Init /\ [][Next]_vars
-----------------------------------------------------------------------------
(***************************************************************************)
(* Properties.                                                             *)
(***************************************************************************)
\* A file that does not end on a block and may have holes: append_to_tail takes
\* a stored tail behind a hole for sparse and loses it.  No driver of the
\* repository uses the tree like this.
SparseTails ==
  ~NoSparse /\ \/ \E d \in use.buffers : Len(d) % BlockSize # 0
               \/ \E z \in use.sizes : z % BlockSize # 0
               \/ IsVolume

\* fstree.h: reading a file back returns what was written to it, also when it is
\* used as a volume.  The files a call does not name keep their contents during
\* every step of the call, also when it fails half way, although their blocks
\* are moved around.
ReadsBack == \A f \in Files : Returned \/ f # job.file => Read(fs, f) = want[f]

\* ReadsBack for every use of the tree but sparse files with partial tails.
ContentsKept == SparseTails \/ ReadsBack

\* The sparse lists stay sorted, without empty or touching regions, and never
\* name a block past the end of the file (append_to_tail subtracts their
\* indices from the index of the tail).
SparseListsOK ==
  \A f \in Files : /\ WellFormed(fs.file[f].sparse)
                   /\ \A i \in Blocks(fs.file[f].sparse) : i < BlocksFor(fs.file[f].size)

\* The bytes of the volume that file contents are stored in.
Stored ==
  UNION { { <<fs.file[f].start_index + x[1] - Skipped(fs.file[f], x[1]), x[2]>> :
              x \in { y \in (0..BlocksFor(fs.file[f].size) - 1) \X InBlk :
                        /\ y[1] * BlockSize + y[2] < fs.file[f].size
                        /\ ~IsSparse(fs.file[f].sparse, y[1]) } } : f \in Files }

\* Nothing of what was moved, cut off or punched out is left in the image: once
\* a call has returned with success, every byte that is not part of a file is
\* zero (the discards and the padding of tail blocks in append, move_to_end,
\* write, truncate and add_gap).
NoStaleBytes ==
  CanCall /\ ~SparseTails => \A b \in Disk, j \in InBlk : <<b, j>> \in Stored \/ fs.disk[b][j] = 0

\* An append never changes a byte the file already had, and what it has written
\* when it fails is a prefix of what was asked for.
AppendExtends ==
  [][job.apps # <<>> /\ job.over = <<>> /\ ~SparseTails =>
       /\ IsPrefix(Read(fs, job.file), Read(fs', job.file))
       /\ IsPrefix(Read(fs', job.file), want[job.file])]_vars

(***************************************************************************)
(* The block accounting, with the bytes left out, is that of FileLayout,   *)
(* so the files and gaps tile the used area.  A call that fails on a full  *)
(* volume leaves data_offset at most one block past its end; only the gap  *)
(* in an empty tree is not checked against the volume.                     *)
(***************************************************************************)
MaxOffset == Max({MaxBlocks, MaxGaps}) + 1

Layout == INSTANCE FileLayout
  WITH MaxOffset   <- MaxOffset,
       data_offset <- fs.data_offset,
       gap         <- fs.gap,
       start_index <- [f \in Files |-> fs.file[f].start_index],
       count       <- [f \in Files |-> PhysBlocks(fs.file[f])]

\* Every step of append, write, truncate and add_gap, failed ones included, is
\* a step of FileLayout or leaves the layout alone.
ImplementsLayout == Layout!Spec
=============================================================================
