------------------------- MODULE MCBlockhashCache -------------------------
(* Instances of BlockhashCache for TLC.                                     *)
EXTENDS BlockhashCache, TLC

CallerSymmetry == Permutations(Callers)
=============================================================================
