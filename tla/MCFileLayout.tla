---------------------------- MODULE MCFileLayout ----------------------------
(***************************************************************************)
(* A small instance of FileLayout, whose invariants FileLayoutProofs       *)
(* proves for all instances.                                               *)
(***************************************************************************)
EXTENDS FileLayout, TLC

Symmetry == Permutations(Files)
=============================================================================
