---------------------------- MODULE MCKeyDriver ----------------------------
(***************************************************************************)
(* The key scan with two keys, one of them the key of value 0, and short   *)
(* times in the proportions of the tables: a click counter that wraps      *)
(* after seven presses stands for the one that wraps after 256.            *)
(***************************************************************************)
EXTENDS KeyDriver

CONSTANT k1     \* the other key
=============================================================================
