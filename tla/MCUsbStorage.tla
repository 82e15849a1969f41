---------------------------- MODULE MCUsbStorage ----------------------------
(* UsbStorage with a stick of 512-byte blocks, a disk with blocks of four     *)
(* sectors, and a card reader whose second unit may be empty.                 *)
EXTENDS UsbStorage, TLC

Is(d, r, s, n) == [disk |-> d, ready |-> r, k |-> s, blocks |-> n]
Stick == (0 :> Is(TRUE, TRUE, 1, 2))
LargeBlocks == (0 :> Is(TRUE, TRUE, 4, 2))
CardReader == (0 :> Is(FALSE, FALSE, 1, 1)) @@ (1 :> Is(TRUE, TRUE, 1, 1))
EmptyReader == (0 :> Is(TRUE, FALSE, 1, 2))

MCMedia == {<<LargeBlocks, Stick>>, <<CardReader>>, <<EmptyReader>>}
=============================================================================
