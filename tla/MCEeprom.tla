------------------------------ MODULE MCEeprom ------------------------------
(* Eeprom with a chip of two pages of three bytes.                           *)
EXTENDS Eeprom

\* Aligned ranges within a page, of a page, over its end and of the whole chip, one
\* inside a page, and for reads one that runs over the end of the chip.
MCRanges == {<<0, 1>>, <<0, 3>>, <<0, 5>>, <<0, 6>>, <<3, 2>>, <<1, 2>>, <<2, 5>>}
=============================================================================
