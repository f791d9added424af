---------------------------- MODULE VolumeStack ----------------------------
(***************************************************************************)
(* A filesystem's view of the output file: the file volume itself, or the  *)
(* file volume behind a block size adapter (blocksize_adapter.c).  tarfs   *)
(* and cpiofs put blocks of 512 and of 4 bytes over the 4096 of the file,  *)
(* fatfs clusters of several blocks.                                       *)
(*                                                                         *)
(* Calls come from the functions of the fstree: a block is written with    *)
(* its padding, ranges of blocks are moved and discarded, a nested volume  *)
(* overwrites parts of blocks.  `want' is what a reader of volume.h        *)
(* expects to find: zeros, and what was put there since.                   *)
(***************************************************************************)
EXTENDS FileVolume

CONSTANTS
  Uses   \* who uses the volume, and what for: see UseType

(***************************************************************************)
(* bs and offset are those of the adapter, max the block count of the file *)
(* volume.  values are the bytes that are written, sizes how many of them  *)
(* an append leaves in a block.  partial, discards: parts of blocks are    *)
(* overwritten, blocks are discarded.  moves: any block is moved, only     *)
(* blocks that hold data, or none.  truncs: sizes the file is set to (by   *)
(* enforce_min_size of fatfs.c, below the adapter).                        *)
(***************************************************************************)
UseType ==
  [bs: Nat \ {0}, offset: Nat, max: 0..MaxBlocks, values: SUBSET Nat,
   sizes: SUBSET Nat, partial: BOOLEAN, discards: BOOLEAN,
   moves: {"any", "data", "none"}, truncs: SUBSET Nat]

ASSUME VolumeStackAssumption == Uses \subseteq UseType

VARIABLES use, vol, want
vars == <<use, vol, want>>

(***************************************************************************)
(* The adapter.  It is left out if the block sizes agree.                  *)
(***************************************************************************)
Direct == use.bs = BlockSize /\ use.offset = 0

\* conv_blk_count of max_block_count
Count == (vol.max * BlockSize - use.offset) \div use.bs
At(i) == use.offset + i * use.bs
Fill(x, n) == [j \in 1..n |-> x]

ReadPartial(v, i, offset, n) ==
  IF Direct THEN read_partial_block(v, i, offset, n)
  ELSE IF i >= Count \/ offset > use.bs \/ n > use.bs - offset THEN ReadFails
  ELSE volume_read(v, At(i) + offset, n)

WritePartial(v, i, offset, b) ==
  IF Direct THEN write_partial_block(v, i, offset, b)
  ELSE IF i >= Count \/ offset > use.bs \/ Len(b) > use.bs - offset THEN Err(v)
  ELSE volume_write(v, At(i) + offset, b)

Discard(v, i, n) ==
  IF Direct THEN Ok(discard_blocks(v, i, n))
  ELSE IF i >= Count THEN Ok(v)
  ELSE volume_write(v, At(i), Zeros((Min({i + n, Count}) - i) * use.bs))

Move(v, src, dst) ==
  IF Direct THEN move_block(v, src, dst)
  ELSE volume_memmove(v, At(dst), At(src), use.bs)

\* Mutant: always from the first block to the last.
MemMove_forward(v, dst, src, n) ==
  FoldLeft(LAMBDA o, k : Then(o, LAMBDA a : Move(a, src + k, dst + k)),
           Ok(v), [k \in 1..n |-> k - 1])

\* volume_memmove on the volume the filesystem sees, for n whole blocks.
MemMove(v, dst, src, n) ==
  LET up == [k \in 1..n |-> k - 1]
      order == IF src < dst /\ src + n > dst THEN Reverse(up) ELSE up
  IN  FoldLeft(LAMBDA o, k : Then(o, LAMBDA a : Move(a, src + k, dst + k)), Ok(v), order)

\* A block and its padding, as append_block of the fstree writes them.
AppendBlock(v, i, x, n) ==
  Then(WritePartial(v, i, 0, Fill(x, n)),
       LAMBDA a : IF n = use.bs THEN Ok(a)
                  ELSE WritePartial(a, i, n, Zeros(use.bs - n)))

(***************************************************************************)
(* What is expected after a call.                                          *)
(***************************************************************************)
Put(w, pos, b) ==
  [p \in Bytes |-> IF p >= pos /\ p < pos + Len(b) THEN b[p - pos + 1] ELSE w[p]]
Slice(w, pos, n) == [j \in 1..n |-> w[pos + j - 1]]
HoldsData(i) == ~is_memory_zero(Slice(want, At(i), use.bs))

(***************************************************************************)
(* The calls.  A call in bounds is expected to do what it says; one that   *)
(* fails (or does not return) leaves `want' ahead of the volume.           *)
(***************************************************************************)
write_block_padded ==
  \E i \in 0..Count, x \in use.values, n \in use.sizes :
    /\ vol' = AppendBlock(vol, i, x, n).vol
    /\ want' = IF i < Count
               THEN Put(want, At(i), Fill(x, n) \o Zeros(use.bs - n)) ELSE want
    /\ UNCHANGED use

overwrite ==
  /\ use.partial
  /\ \E i \in 0..Count, x \in use.values, offset \in 0..(use.bs - 1) :
       \E n \in 1..(use.bs - offset) :
         /\ vol' = WritePartial(vol, i, offset, Fill(x, n)).vol
         /\ want' = IF i < Count THEN Put(want, At(i) + offset, Fill(x, n)) ELSE want
  /\ UNCHANGED use

\* Ranges that reach past the end are clipped.
discard ==
  /\ use.discards
  /\ \E i \in 0..Count, n \in 1..Count :
       /\ vol' = Discard(vol, i, n).vol
       /\ want' = IF i < Count
                  THEN Put(want, At(i), Zeros((Min({i + n, Count}) - i) * use.bs))
                  ELSE want
  /\ UNCHANGED use

\* The fstree moves what its files and gaps occupy, all of it in bounds.
memmove ==
  /\ use.moves # "none"
  /\ \E src, dst \in 0..(Count - 1) : \E n \in 1..(Count - Max({src, dst})) :
       /\ use.moves = "data" => \A k \in src..(src + n - 1) : HoldsData(k)
       /\ vol' = MemMove(vol, dst, src, n).vol
       /\ want' = Put(want, At(dst), Slice(want, At(src), n * use.bs))
  /\ UNCHANGED use

\* Nothing happens for size 0: it is the minimum the volume always has.
truncate ==
  \E size \in use.truncs :
    /\ vol' = file_volume_truncate(vol, size).vol
    /\ want' = IF size = 0 \/ size > vol.max * BlockSize THEN want
               ELSE Put(want, size, Zeros(MaxBlocks * BlockSize - size))
    /\ UNCHANGED use

commit_volume ==
  /\ vol' = commit(vol)
  /\ UNCHANGED <<use, want>>

Init ==
  /\ use \in Uses
  /\ \E cow, punch \in BOOLEAN : vol = volume_from_fd(use.max, cow, punch)
  /\ want = [p \in Bytes |-> 0]

Next ==
  \/ write_block_padded
  \/ overwrite
  \/ discard
  \/ memmove
  \/ truncate
  \/ commit_volume

Spec == Init /\ [][Next]_vars

-----------------------------------------------------------------------------
\* bytes_used and the bitmap stay inside the volume (the bitmap may run one
\* block over it: file_volume_truncate marks a block too many).
TypeOK ==
  /\ use \in Uses
  /\ want \in [Bytes -> Nat]
  /\ vol.data \in [Bytes -> Nat]
  /\ vol.max = use.max
  /\ vol.used \in 0..(vol.max * BlockSize)
  /\ vol.eof \in 0..(vol.max * BlockSize)
  /\ vol.bits \subseteq 0..vol.max

\* Reading a block of the volume gives what was last written or moved there, and
\* zeros if it was discarded or never written, whatever sizes the two volumes
\* have.  (A block that lies behind bytes_used, inside a block of the file that
\* is in use, cannot be read: read_partial_block of file_volume.c goes by an
\* unsigned difference.)
ReadBack ==
  \A i \in 0..(Count - 1) :
    (At(i) <= vol.used \/ At(i) \div BlockSize \notin vol.bits)
       => ReadPartial(vol, i, 0, use.bs) = Slice(want, At(i), use.bs)

\* The file that commit() leaves behind, cut at bytes_used, holds everything that
\* is on the volume, and nothing of what was discarded or cut off.
ImageKept == commit(vol).data = want
=============================================================================
