----------------------------- MODULE FileLayout -----------------------------
(***************************************************************************)
(* What the file data functions of fstree_t promise about the volume: the  *)
(* data of every file is one continuous run of blocks, and the runs        *)
(* together with the gaps made for the filesystem's own tables tile the    *)
(* used area [0, data_offset).  No bytes, only the accounting: FSTreeFiles *)
(* implements this specification.                                          *)
(***************************************************************************)
EXTENDS Integers

CONSTANTS
  Files,        \* the regular files of the tree
  MaxOffset     \* bound: no request takes data_offset past this block

ASSUME LayoutAssumption == MaxOffset \in Nat

VARIABLES
  data_offset,   \* fs->data_offset: the first unused block
  start_index,   \* where a file's run starts (stale while it has no blocks)
  count,         \* how many blocks a file has on the volume
  gap            \* the blocks handed out by fstree_add_gap

layout == <<data_offset, start_index, count, gap>>

Init ==
  /\ data_offset = 0
  /\ start_index = [f \in Files |-> 0]
  /\ count = [f \in Files |-> 0]
  /\ gap = {}

(***************************************************************************)
(* fstree_file_move_to_end: the run of f goes behind all others, and       *)
(* everything that was behind it moves up.                                 *)
(***************************************************************************)
AtEnd(f) == count[f] >= data_offset - start_index[f]

\* Mutant: the stale start of a file without blocks is moved down as well.
MovedStartOfAll(f) ==
  [g \in Files |->
     IF count[f] = 0 \/ AtEnd(f) THEN start_index[g]
     ELSE IF g = f THEN data_offset - count[f]
     ELSE IF start_index[g] >= start_index[f]
          THEN start_index[g] - count[f] ELSE start_index[g]]

MovedStart(f) ==
  [g \in Files |->
     IF count[f] = 0 THEN IF g = f THEN data_offset ELSE start_index[g]
     ELSE IF AtEnd(f) THEN start_index[g]
     ELSE IF g = f THEN data_offset - count[f]
     ELSE IF count[g] # 0 /\ start_index[g] >= start_index[f]
          THEN start_index[g] - count[f] ELSE start_index[g]]

\* The blocks of gap above block `from' move down by n.
GapDown(from, n) == { b \in 0..data_offset : \/ b < from /\ b \in gap
                                             \/ b + n >= from /\ b + n \in gap }

MovedGap(f) ==
  IF count[f] = 0 \/ AtEnd(f) THEN gap ELSE GapDown(start_index[f], count[f])

\* A call that fails after the move.
Move(f) ==
  /\ start_index' = MovedStart(f)
  /\ gap' = MovedGap(f)
  /\ UNCHANGED <<data_offset, count>>

\* A block is appended, or a hole in the file is filled.
Grow(f) ==
  /\ data_offset < MaxOffset
  /\ start_index' = MovedStart(f)
  /\ gap' = MovedGap(f)
  /\ count' = [count EXCEPT ![f] = @ + 1]
  /\ data_offset' = data_offset + 1

\* A block of zeros is punched out.
Release(f) ==
  /\ count[f] > 0
  /\ start_index' = MovedStart(f)
  /\ gap' = MovedGap(f)
  /\ count' = [count EXCEPT ![f] = @ - 1]
  /\ data_offset' = data_offset - 1

\* Mutant: the freed blocks are not given back.
TruncateKeepsOffset(f, n) ==
  /\ n < count[f]
  /\ count' = [count EXCEPT ![f] = n]
  /\ UNCHANGED <<data_offset, start_index, gap>>

\* fstree_file_truncate: the run of f loses its last blocks, no run is reordered.
Truncate(f, n) ==
  LET diff == count[f] - n
  IN  /\ n < count[f]
      /\ count' = [count EXCEPT ![f] = n]
      /\ data_offset' = data_offset - diff
      /\ start_index' = [g \in Files |->
           IF count'[g] # 0 /\ start_index[g] > start_index[f]
           THEN start_index[g] - diff ELSE start_index[g]]
      /\ gap' = GapDown(start_index[f], diff)

\* Mutant: the file that starts right at the gap stays where it is.
AddGapUnder(i, n) ==
  /\ i = 0 \/ \E f \in Files : count[f] # 0 /\ i = start_index[f]
  /\ data_offset + n <= MaxOffset
  /\ data_offset' = data_offset + n
  /\ start_index' = [g \in Files |-> IF start_index[g] > i
                                     THEN start_index[g] + n ELSE start_index[g]]
  /\ gap' = gap \cup i..(i + n - 1)
  /\ UNCHANGED count

\* fstree_add_gap in front of everything or in front of a file.
AddGap(i, n) ==
  /\ i = 0 \/ \E f \in Files : count[f] # 0 /\ i = start_index[f]
  /\ data_offset + n <= MaxOffset
  /\ data_offset' = data_offset + n
  /\ start_index' = IF i >= data_offset THEN start_index
                    ELSE [g \in Files |-> IF start_index[g] >= i
                                          THEN start_index[g] + n ELSE start_index[g]]
  /\ gap' = { b \in 0..(data_offset + n - 1) :
                \/ b < i /\ b \in gap
                \/ b >= i /\ b < i + n
                \/ b - n >= i /\ b - n \in gap }
  /\ UNCHANGED count

Next ==
  \/ \E f \in Files : Move(f) \/ Grow(f) \/ Release(f)
  \/ \E f \in Files : \E n \in 0..count[f] : Truncate(f, n)
  \/ \E i \in 0..data_offset, n \in 1..MaxOffset : AddGap(i, n)

Spec == Init /\ [][Next]_layout
-----------------------------------------------------------------------------
\* The accounting never goes negative, in particular start_index -= diff and
\* data_offset -= diff never wrap around.
TypeOK ==
  /\ data_offset \in 0..MaxOffset
  /\ start_index \in [Files -> Nat]
  /\ count \in [Files -> Nat]
  /\ gap \in SUBSET Nat

Owns(f, b) == start_index[f] <= b /\ b < start_index[f] + count[f]

\* doc/architecture.txt: file data is "a continuous range on the underlying
\* volume".  No block belongs to two files or to a file and a gap, and the next
\* block written at data_offset is nobody's.
NoOverlap ==
  /\ \A f \in Files : count[f] # 0 => start_index[f] + count[f] <= data_offset
  /\ \A b \in gap : b < data_offset /\ \A f \in Files : ~Owns(f, b)
  /\ \A f, g \in Files :
       f # g /\ count[f] # 0 /\ count[g] # 0 =>
         \/ start_index[f] + count[f] <= start_index[g]
         \/ start_index[g] + count[g] <= start_index[f]

\* Every block below data_offset belongs to a file or to a gap: moving, growing
\* and cutting files leaves no unused block behind in the image.
NoLeak ==
  \A b \in 0..(data_offset - 1) : b \in gap \/ \E f \in Files : Owns(f, b)
=============================================================================
