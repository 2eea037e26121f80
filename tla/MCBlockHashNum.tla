---------------------------- MODULE MCBlockHashNum ----------------------------
(* A small cache, a short chain with reorganisations, a few askers.         *)
EXTENDS BlockHashNum, TLC

AskerSymmetry == Permutations(Askers)

=============================================================================
