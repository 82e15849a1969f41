------------------------------ MODULE MCGpAdc ------------------------------
(***************************************************************************)
(* Three channels and a queue that holds just as many: the reference, one  *)
(* that is only added and one that is added and removed.                   *)
(***************************************************************************)
EXTENDS GpAdc
=============================================================================
