----------------------------- MODULE FileVolume -----------------------------
(***************************************************************************)
(* A file or block device as a volume (lib/image/basic/file_volume.c), and *)
(* the helpers that address a volume by bytes instead of blocks            *)
(* (volume_read.c, volume_write.c, volume_memmove.c).                      *)
(*                                                                         *)
(* The volume remembers in a bitmap which blocks were written; the others  *)
(* read as zeros.  bytes_used is where the file will be cut by commit().   *)
(* Operators take the volume v and return what a call leaves behind, and   *)
(* whether it succeeded, failed or never returned.                         *)
(***************************************************************************)
EXTENDS Integers, Sequences, SequencesExt, FiniteSetsExt

CONSTANTS
  BlockSize,   \* vol->blocksize
  MaxBlocks    \* no volume has more blocks than this

ASSUME FileVolumeAssumption == BlockSize \in Nat \ {0} /\ MaxBlocks \in Nat

Bytes == 0 .. MaxBlocks * BlockSize - 1
Zeros(n) == [j \in 1..n |-> 0]
is_memory_zero(b) == \A j \in 1..Len(b) : b[j] = 0

\* An empty file.  max is max_block_count, cow and punch are what the build and
\* the filesystem that holds the file offer: copy_file_range() and holes.
volume_from_fd(max, cow, punch) ==
  [data |-> [p \in Bytes |-> 0], eof |-> 0, bits |-> {}, used |-> 0,
   max |-> max, cow |-> cow, punch |-> punch]

Ok(v) == [vol |-> v, res |-> "ok"]
Err(v) == [vol |-> v, res |-> "failed"]
Hang(v) == [vol |-> v, res |-> "hangs"]
Then(o, Rest(_)) == IF o.res = "ok" THEN Rest(o.vol) ELSE o

InBounds(v, i, offset, n) == i < v.max /\ offset <= BlockSize /\ n <= BlockSize - offset

(***************************************************************************)
(* The file: writing past the end extends it, reading past it fails.       *)
(***************************************************************************)
write_retry(v, pos, b) ==
  [v EXCEPT !.data = [p \in Bytes |-> IF p >= pos /\ p < pos + Len(b)
                                      THEN b[p - pos + 1] ELSE @[p]],
            !.eof = Max({@, pos + Len(b)})]

FileBytes(v, pos, n) == [j \in 1..n |-> v.data[pos + j - 1]]

ftruncate(v, size) ==
  [v EXCEPT !.data = [p \in Bytes |-> IF p < size THEN @[p] ELSE 0], !.eof = size]

Zeroed(v, blocks) ==
  [v EXCEPT !.data = [p \in Bytes |-> IF p \div BlockSize \in blocks THEN 0 ELSE @[p]]]

(***************************************************************************)
(* Reading.  What lies past bytes_used in a block that is in use is not in *)
(* the file; the subtraction for it is one of unsigned numbers, so that a  *)
(* read which starts past bytes_used goes to the file all the same.        *)
(***************************************************************************)
ReadFails == <<-1>>

read_partial_block(v, i, offset, n) ==
  LET pos == i * BlockSize + offset
      avail == v.used - pos
      size == IF avail >= 0 /\ n >= avail THEN avail ELSE n
  IN  IF ~InBounds(v, i, offset, n) THEN ReadFails
      ELSE IF i \notin v.bits THEN Zeros(n)
      ELSE IF size > 0 /\ pos + size > v.eof THEN ReadFails
      ELSE FileBytes(v, pos, size) \o Zeros(n - size)

(***************************************************************************)
(* Writing, discarding, moving.                                            *)
(***************************************************************************)
write_partial_block(v, i, offset, b) ==
  LET pos == i * BlockSize + offset
  IN  IF ~InBounds(v, i, offset, Len(b)) THEN Err(v)
      ELSE Ok(write_retry([v EXCEPT !.bits = @ \cup {i},
                                    !.used = Max({@, pos + Len(b)})], pos, b))

\* Mutant: the index of the last block for the count.
LastUsed_index(v) == IF v.bits = {} THEN 0 ELSE Max(v.bits) * BlockSize

\* What discard_blocks lowers bytes_used to: the end of the last block in use.
LastUsed(v) == IF v.bits = {} THEN 0 ELSE (Max(v.bits) + 1) * BlockSize

discard_blocks(v, i, n) ==
  LET end == Min({i + n, v.max})
      blocks == i..(end - 1)
      written == blocks \cap v.bits
      cleared == IF end = v.max THEN ftruncate(v, i * BlockSize)
                 ELSE IF v.punch THEN Zeroed(v, blocks)
                 ELSE [Zeroed(v, written) EXCEPT
                         !.eof = Max({@} \cup { (x + 1) * BlockSize : x \in written })]
      freed == [cleared EXCEPT !.bits = @ \ blocks]
  IN  IF i >= v.max \/ n = 0 THEN v
      ELSE [freed EXCEPT !.used = Min({@, LastUsed(freed)})]

\* transfer_blocks: copy_file_range() copies what there is and then returns 0
\* for ever if the file ends inside the block; without it the read fails.
move_block(v, src, dst) ==
  LET moved == write_retry([v EXCEPT !.bits = @ \cup {dst},
                                     !.used = Max({@, (dst + 1) * BlockSize})],
                           dst * BlockSize, FileBytes(v, src * BlockSize, BlockSize))
  IN  IF ~InBounds(v, src, 0, BlockSize) \/ ~InBounds(v, dst, 0, BlockSize) THEN Err(v)
      ELSE IF src = dst \/ (src \notin v.bits /\ dst \notin v.bits) THEN Ok(v)
      ELSE IF src \notin v.bits THEN Ok(discard_blocks(v, dst, 1))
      ELSE IF (src + 1) * BlockSize > v.eof THEN IF v.cow THEN Hang(v) ELSE Err(v)
      ELSE Ok(moved)

move_block_partial(v, src, dst, src_offset, dst_offset, n) ==
  LET from == src * BlockSize + src_offset
      to == dst * BlockSize + dst_offset
  IN  IF ~InBounds(v, src, src_offset, n) \/ ~InBounds(v, dst, dst_offset, n) THEN Err(v)
      ELSE IF from + n > v.eof THEN Err(v)
      ELSE Ok(write_retry([v EXCEPT !.used = Max({@, to + n})], to, FileBytes(v, from, n)))

get_block_count(v) == (v.used + BlockSize - 1) \div BlockSize

\* Mutant: the maximum is not looked at.
file_volume_truncate_unbounded(v, size) ==
  Ok([ftruncate(v, size) EXCEPT !.bits = v.bits, !.used = size])

\* min_block_count is 0 unless the description sets it.
file_volume_truncate(v, size) ==
  LET count == (size + BlockSize - 1) \div BlockSize
      old == v.used \div BlockSize
      bits == IF size > v.used THEN v.bits \cup old..count
              ELSE IF size < v.used
              THEN v.bits \ (size \div BlockSize + 1)..get_block_count(v)
              ELSE v.bits
  IN  IF count > v.max THEN Err(v)
      ELSE IF count = 0 THEN Ok(v)
      ELSE Ok([ftruncate(v, size) EXCEPT !.bits = bits, !.used = size])

commit(v) == ftruncate(v, v.used)

(***************************************************************************)
(* By bytes.  A range is cut where a block of the volume ends, the range   *)
(* of a move also where a block of the other end does.                     *)
(***************************************************************************)
BlockEnds(pos, n) == { m \in 1..(n - 1) : (pos + m) % BlockSize = 0 }

\* The pieces of n bytes from one cut to the next, in order.
Pieces(n, cuts) ==
  LET c == SetToSortSeq({0, n} \cup cuts, <)
  IN  [k \in 1..(Len(c) - 1) |-> [at |-> c[k], len |-> c[k + 1] - c[k]]]

\* A read fails if one of its pieces does.
volume_read(v, pos, n) ==
  LET ps == Pieces(n, BlockEnds(pos, n))
      piece(k) == read_partial_block(v, (pos + ps[k].at) \div BlockSize,
                                     (pos + ps[k].at) % BlockSize, ps[k].len)
  IN  IF \E k \in 1..Len(ps) : piece(k) = ReadFails THEN ReadFails
      ELSE FlattenSeq([k \in 1..Len(ps) |-> piece(k)])

\* Whole blocks of zeros are discarded.
volume_write(v, pos, b) ==
  LET ps == Pieces(Len(b), BlockEnds(pos, Len(b)))
      piece(p) == SubSeq(b, p.at + 1, p.at + p.len)
      put(p, a) ==
        IF p.len = BlockSize /\ is_memory_zero(piece(p))
        THEN Ok(discard_blocks(a, (pos + p.at) \div BlockSize, 1))
        ELSE write_partial_block(a, (pos + p.at) \div BlockSize,
                                 (pos + p.at) % BlockSize, piece(p))
  IN  FoldLeft(LAMBDA o, p : Then(o, LAMBDA a : put(p, a)), Ok(v), ps)

MovePiece(v, dst, src, p) ==
  IF (src + p.at) % BlockSize = 0 /\ (dst + p.at) % BlockSize = 0 /\ p.len = BlockSize
  THEN move_block(v, (src + p.at) \div BlockSize, (dst + p.at) \div BlockSize)
  ELSE move_block_partial(v, (src + p.at) \div BlockSize, (dst + p.at) \div BlockSize,
                          (src + p.at) % BlockSize, (dst + p.at) % BlockSize, p.len)

\* From the last piece to the first if the end of the source is overwritten.
volume_memmove(v, dst, src, n) ==
  LET ps == Pieces(n, BlockEnds(src, n) \cup BlockEnds(dst, n))
      backward == src < dst /\ src + n - 1 >= dst
      order == IF backward THEN Reverse(ps) ELSE ps
  IN  IF src = dst \/ n = 0 THEN Ok(v)
      ELSE FoldLeft(LAMBDA o, p : Then(o, LAMBDA a : MovePiece(a, dst, src, p)),
                    Ok(v), order)
=============================================================================
