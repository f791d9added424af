------------------------------ MODULE MCFatFS -------------------------------
(***************************************************************************)
(* Names that get the same short name, that have to be numbered or cannot  *)
(* be stored, files and directories of less than a block, of exact blocks  *)
(* and of several, on volumes of a fixed size and on one that grows.       *)
(***************************************************************************)
EXTENDS FatFS

Letters == [c \in {"a", "b"} |-> IF c = "a" THEN "A" ELSE "B"]

A == <<"A">>
D == <<"A", ".">>
E == <<"A", ".", ".">>
L == <<"a">>
M == <<"a", " ", "+", "b", "a", "b">>
X == <<"a", ".", "b", "b">>
Z == <<"b">>
N == <<"u8">>
Names == <<A, D, E, L, M, X, Z, N>>

Rec(type, path, s) == [type |-> type, path |-> path, size |-> s]

AllRecords ==
  { Rec("file", <<A>>, 3), Rec("file", <<D>>, 0), Rec("file", <<E>>, 16),
    Rec("file", <<L>>, 20), Rec("file", <<M>>, 4), Rec("dir", <<Z>>, 0),
    Rec("file", <<Z, X>>, 8), Rec("file", <<Z, A, M>>, 1),
    Rec("symlink", <<N>>, 0), Rec("file", <<N>>, 0) }

AllVolumes == { [sectors |-> 0, max |-> 44], [sectors |-> 24, max |-> 24],
                [sectors |-> 48, max |-> 48] }

\* Clusters of three sectors, which do not divide the blocks of the tree; and a
\* volume that grows while it is built.  ImageReads does not hold for these.
OddVolumes == { [sectors |-> 36, max |-> 36] }
GrowingVolume == { [sectors |-> 0, max |-> 44] }
=============================================================================
