------------------------------- MODULE MCMsd -------------------------------
(* Msd on a small instance.                                                  *)
EXTENDS Msd

Cmd(op, lun, at, n, len, in, arg, val) ==
    [op |-> op, lun |-> lun, lba |-> at, num |-> n, len |-> len, in |-> in,
     arg |-> arg, val |-> val]
Plain(op, len) == Cmd(op, 0, 0, 0, len, TRUE, FALSE, 0)

MCCommands ==
    {Plain("INQUIRY", 255), Plain("TEST_UNIT_READY", 0), Plain("VERIFY", 0),
     Plain("REQUEST_SENSE", 18), Plain("REQUEST_SENSE", 0),
     Plain("MODE_SENSE", 192), Plain("READ_CAPACITY", 8),
     Plain("READ_FORMAT_CAPACITIES", 252),
     Plain("START_STOP", 0), Plain("UNKNOWN", 4),
     Cmd("UNKNOWN", 0, 0, 0, 4, FALSE, FALSE, 0),
     Cmd("ALLOW_MEDIUM_REMOVAL", 0, 0, 0, 0, FALSE, TRUE, 0),
     Cmd("READ_10", 0, 0, 0, 0, TRUE, FALSE, 0),
     Cmd("READ_10", 0, 0, 5, 5 * BlockSize, TRUE, FALSE, 0),
     Cmd("WRITE_10", 0, 1, 3, 4 * BlockSize, FALSE, FALSE, 9)}

\* Each block of a disk is told from its neighbours and from one that is written.
MCContents == [d \in Disks |-> [b \in 0..(Capacity - 1) |-> b]]
=============================================================================
