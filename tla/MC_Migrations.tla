--------------------------- MODULE MC_Migrations ---------------------------
(***************************************************************************)
(* Migrations for TLC.  Songs are only told apart by their old states.     *)
(***************************************************************************)
EXTENDS Migrations, TLC

MCSymmetry == Permutations(Song)
=============================================================================
