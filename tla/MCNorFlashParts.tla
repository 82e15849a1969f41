--------------------------- MODULE MCNorFlashParts ---------------------------
(* The partition table with four names for three slots, in a small address     *)
(* space in which partitions may touch, overlap, contain each other or run    *)
(* past the end of the chip.                                                  *)
EXTENDS NorFlashParts

CONSTANTS n1, n2, n3, n4
=============================================================================
