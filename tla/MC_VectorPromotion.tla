------------------------- MODULE MC_VectorPromotion -------------------------
(***************************************************************************)
(* VectorPromotion for TLC.                                                *)
(***************************************************************************)
EXTENDS VectorPromotion, TLC

MCSymmetry == Permutations(File) \cup Permutations(Worker)
=============================================================================
