----------------------------- MODULE MCNorFlash -----------------------------
(* NorFlash on three sectors of two pages, so that a write can begin inside a *)
(* sector, cover a whole one and end inside a third.  A page is blank or      *)
(* written.                                                                   *)
EXTENDS NorFlash

CONSTANT v1
=============================================================================
