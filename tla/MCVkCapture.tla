---------------------------- MODULE MCVkCapture -----------------------------
(* VkCapture for TLC: surfaces are only compared for equality.  The bounds    *)
(* are in the .cfg files.                                                     *)
EXTENDS VkCapture, TLC

Symmetry == Permutations(Surfaces)
=============================================================================
