------------------------- MODULE MC_DiscoveryFleet -------------------------
(***************************************************************************)
(* DiscoveryFleet for TLC.                                                 *)
(***************************************************************************)
EXTENDS DiscoveryFleet
=============================================================================
