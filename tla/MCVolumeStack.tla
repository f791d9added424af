--------------------------- MODULE MCVolumeStack ---------------------------
(***************************************************************************)
(* A file volume of blocks of three bytes behind three users.              *)
(***************************************************************************)
EXTENDS VolumeStack

\* fatfs: clusters of two blocks, whole clusters written and moved.
Clusters ==
  [bs |-> 2 * BlockSize, offset |-> 0, max |-> 6, values |-> {1, 2},
   sizes |-> {1, 4, 2 * BlockSize}, partial |-> FALSE, moves |-> "any",
   discards |-> TRUE, truncs |-> {}]

\* Blocks of the file itself, moved whole.
Blocks ==
  [bs |-> BlockSize, offset |-> 0, max |-> 4, values |-> {1, 2},
   sizes |-> {2, BlockSize}, partial |-> FALSE, moves |-> "any",
   discards |-> TRUE, truncs |-> {}]

\* Blocks of the file itself, overwritten in parts and cut or extended to any
\* size; as enforce_min_size of fatfs.c does it, at the end and without moves.
Parts ==
  [bs |-> BlockSize, offset |-> 0, max |-> 3, values |-> {0, 1},
   sizes |-> {BlockSize}, partial |-> TRUE, moves |-> "none",
   discards |-> FALSE, truncs |-> {0, 1, 4, 6, 8, 10}]

\* tarfs and cpiofs without moves: several small blocks in one of the file; and
\* an adapter that starts inside a block.
Small ==
  [bs |-> 1, offset |-> 0, max |-> 2, values |-> {0, 1}, sizes |-> {1},
   partial |-> FALSE, moves |-> "none", discards |-> TRUE, truncs |-> {}]
Shifted ==
  [bs |-> 2, offset |-> 2, max |-> 3, values |-> {0, 1}, sizes |-> {1, 2},
   partial |-> TRUE, moves |-> "none", discards |-> TRUE, truncs |-> {}]

AllUses == {Clusters, Blocks, Parts, Small, Shifted}

\* tarfs and cpiofs when a file in front grows: small blocks are moved.
MovingSmall == {[Small EXCEPT !.moves = "data"]}
=============================================================================
