------------------------------- MODULE MCTee -------------------------------
(* Two processes, two contents of different size, a ceiling that  *)
(* holds either but not both.                                              *)
EXTENDS Tee, TLC

CONSTANTS p1, p2, d1, d2

MCSize == d1 :> 1 @@ d2 :> 2

Symmetry == Permutations({p1, p2})
=============================================================================
