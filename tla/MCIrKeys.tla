------------------------------ MODULE MCIrKeys ------------------------------
(***************************************************************************)
(* Bytes of two bits, so frames of eight.  Commands 0 to 2 are listed, 3   *)
(* stands for none.  The pauses after an end and after a repeat code are   *)
(* shorter than in the code, but still unlike any pulse of a frame, and    *)
(* shorter than the timeout.                                               *)
(***************************************************************************)
EXTENDS IrKeys
=============================================================================
