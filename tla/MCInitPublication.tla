------------------------- MODULE MCInitPublication -------------------------
(* Three commands, each an init or a recovery, on a file that init rewrites, *)
(* one that it deletes and one that it creates.                              *)
EXTENDS InitPublication, TLC

ProcSymmetry == Permutations(Proc)
=============================================================================
