--------------------------- MODULE MCFSTreeFiles ---------------------------
(***************************************************************************)
(* Small instances of FSTreeFiles: two bytes per block, files of a few     *)
(* blocks, on a volume the requests can exhaust.                           *)
(***************************************************************************)
EXTENDS FSTreeFiles

Symmetry == Permutations(Files)

\* Every buffer of one to three bytes: shorter than a block, a block, longer.
ByteBuffers == { b \in BoundedSeq({0, 1}, 3) : b # <<>> }

\* Less than a block, and a block of zeros with more behind it.
FewBuffers == { <<1>>, <<0, 0, 1>> }

\* Whole blocks of zeros or data, one or two at a time.
BlockBuffers == { Zeros(2), <<1, 1>>, <<0, 0, 1, 1>>, <<1, 0, 0, 0>> }

File(no_sparse, buffers, sizes, max_size) ==
  [no_sparse |-> no_sparse, buffers |-> buffers, sizes |-> sizes,
   max_size |-> max_size, blk |-> 0, min |-> 0, max |-> 0]

\* Any sizes, in a tree that stores every block (tarfs, cpiofs, fatfs).
Unaligned == File(TRUE, ByteBuffers, {0, 1, 2, 3}, 4)

\* Whole blocks, in a tree with sparse files (the default of fstree_create).
Aligned == File(FALSE, BlockBuffers, {0, 2, 4, 6}, 6)

\* Any sizes, in a tree with sparse files.
SparseFew == File(FALSE, FewBuffers, {0, 1, 3}, 4)

\* Volumes of one or two blocks of three bytes, in a tree that stores all.
Volumes == [no_sparse |-> TRUE, buffers |-> { <<1>>, <<1, 0, 1>> }, sizes |-> {1, 3},
            max_size |-> 6, blk |-> 3, min |-> 1, max |-> 2]

\* Sparse files with partial tails, all buffers: ReadsBack does not hold.
TailUses == {File(FALSE, ByteBuffers, {0, 1, 2, 3}, 4)}

AllUses == {Unaligned, Aligned, SparseFew, Volumes}
=============================================================================
