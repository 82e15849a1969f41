---------------------------- MODULE NorFlashParts ----------------------------
(***************************************************************************)
(* The partition table of cpu/cd09/norflash.c: device initialisation       *)
(* registers one partition per device name, and the first open compares    *)
(* the table with the chip.  Partitions are never deleted                  *)
(* (norflash_delete_part is not called), so the used slots are a sequence. *)
(***************************************************************************)
EXTENDS Integers, Sequences

CONSTANTS
    Names,          \* device names
    MaxParts,       \* MAX_NORFLASH_PART_NUM
    Addrs,          \* start addresses and sizes, in units of the driver's choice
    Sizes,
    Capacities,     \* what the chip's id may stand for
    AddrWidth           \* bits of an address; 32 in the code

\* Addresses, and the sums of an address and a size, are below this.
Space == 2^AddrWidth

ASSUME PartsAssumption ==
    /\ MaxParts \in Nat \ {0} /\ AddrWidth \in Nat
    /\ Addrs \subseteq Nat /\ Sizes \subseteq Nat /\ Capacities \subseteq Nat
    /\ Space \in Nat \ {0}  \* arithmetic, which the provers do not know

VARIABLES
    nor_part,       \* the used slots
    max_end_addr,
    flash_capacity, \* 0 until the chip has been opened
    halted          \* an ASSERT has failed

partVars == <<nor_part, max_end_addr, flash_capacity, halted>>

PartsInit ==
    /\ nor_part = <<>>
    /\ max_end_addr = 0
    /\ flash_capacity = 0
    /\ halted = FALSE

-----------------------------------------------------------------------------
EndAddr(p) == (p.start + p.size) % Space

\* The address a lies in partition p.
Inside(a, p) == p.start <= a /\ a < EndAddr(p)

norflash_find_part(name) ==
    \E i \in DOMAIN nor_part : nor_part[i].name = name

\* norflash_new_part finds no free slot.
Full == Len(nor_part) = MaxParts

MaxEnd_last(p) == EndAddr(p)
MaxEnd(p) == IF EndAddr(p) > max_end_addr THEN EndAddr(p) ELSE max_end_addr

\* norflash_verify_part: the new partition does not start in another one.
Verified_sameStart(p) ==
    \A i \in DOMAIN nor_part : p.start = nor_part[i].start \/ ~Inside(p.start, nor_part[i])
Verified(p) == \A i \in DOMAIN nor_part : ~Inside(p.start, nor_part[i])

\* _norflash_init: a partition is entered before it is verified, and the ASSERT
\* on its result stops the program.  The device table is initialised before any
\* device is opened.
_norflash_init(name, start, size) ==
    /\ ~halted /\ flash_capacity = 0
    /\ LET p == [name |-> name, start |-> start, size |-> size]
       IN  IF norflash_find_part(name) \/ Full
           THEN /\ halted' = TRUE
                /\ UNCHANGED <<nor_part, max_end_addr>>
           ELSE /\ nor_part' = Append(nor_part, p)
                /\ max_end_addr' = MaxEnd(p)
                /\ halted' = ~Verified(p)
    /\ UNCHANGED flash_capacity

\* The part of first_open that looks at the table, for a chip that turns out
\* to have a capacity of c.
first_open(c) ==
    /\ ~halted /\ nor_part # <<>> /\ flash_capacity = 0
    /\ flash_capacity' = c
    /\ halted' = (max_end_addr > c)
    /\ UNCHANGED <<nor_part, max_end_addr>>

\* IOCTL_GET_CAPACITY for partition p.
get_capacity(p) ==
    IF flash_capacity = 0 THEN 0
    ELSE IF Len(nor_part) = 1 /\ p.start = 0 THEN flash_capacity ELSE p.size

PartsNext ==
    \/ \E name \in Names, start \in Addrs, size \in Sizes : _norflash_init(name, start, size)
    \/ \E c \in Capacities : first_open(c)

PartsSpec == PartsInit /\ [][PartsNext]_partVars

-----------------------------------------------------------------------------
(* Properties.                                                              *)

Partitions == [name : Names, start : Addrs, size : Sizes]

PartsTypeOK ==
    /\ nor_part \in Seq(Partitions) /\ Len(nor_part) <= MaxParts
    /\ max_end_addr \in 0..(Space - 1)
    /\ flash_capacity \in Capacities \cup {0}
    /\ halted \in BOOLEAN

Overlap(p, q) == \E a \in 0..(Space - 1) : Inside(a, p) /\ Inside(a, q)

\* norflash.c:868: partitions that overlap stop the program.
PartitionsDisjoint ==
    ~halted => \A i, j \in DOMAIN nor_part : i # j => ~Overlap(nor_part[i], nor_part[j])

\* They do when the device table lists them by address.
Ascending == \A i, j \in DOMAIN nor_part : i < j => nor_part[i].start <= nor_part[j].start
AscendingDisjoint == Ascending => PartitionsDisjoint

\* What IOCTL_GET_CAPACITY says of a partition of an open device is all on the
\* chip.
CapacityExists ==
    ~halted /\ flash_capacity > 0 =>
        \A i \in DOMAIN nor_part :
            nor_part[i].start + get_capacity(nor_part[i]) <= flash_capacity
=============================================================================
