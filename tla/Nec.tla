---------------------------------- MODULE Nec ----------------------------------
(***************************************************************************)
(* The words of the NEC code, which ir_encoder.c and ir_decoder.c share:   *)
(* an address and a command of Width bits, each followed by its complement. *)
(***************************************************************************)
EXTENDS Integers

CONSTANT Width      \* bits of an address and of a command; 8 in the code

ASSUME NecAssumption == Width \in 1..8

Bytes == 0..(2^Width - 1)
NBits == 4 * Width
Words == 0..(2^NBits - 1)
=============================================================================
