----------------------------- MODULE FlatMemory -----------------------------
(***************************************************************************)
(* What the norflash driver promises its callers: a memory of sectors in   *)
(* which a read returns what is there, a write changes every unit it is    *)
(* told to and no other, an erase clears what it is told to, nothing else  *)
(* changes anything, and a power cut ends the write in progress and costs  *)
(* at most one sector.                                                     *)
(***************************************************************************)
CONSTANTS Sectors, Units, Values, Erased

VARIABLES
    mem,        \* mem[s][u] is what a read of unit u of sector s returns
    todo,       \* what the write in progress has still to change: pairs <<s, u>>
    val,        \* the value it writes
    got,        \* what the read that has just returned gave, by place
    power       \* the supply is on

vars == <<mem, todo, val, got, power>>

Data == Values \cup {Erased}

Init ==
    /\ mem \in [Sectors -> [Units -> Data]]
    /\ todo = {}
    /\ val = Erased
    /\ got = <<>>
    /\ power = TRUE

\* The memory with what is in `area` set to v.
Changed(area, v) ==
    [s \in Sectors |-> [u \in Units |-> IF <<s, u>> \in area THEN v ELSE mem[s][u]]]

\* A caller reads an area, between writes.
Read(area) ==
    /\ power /\ todo = {}
    /\ got' = [p \in area |-> mem[p[1]][p[2]]]
    /\ UNCHANGED <<mem, todo, val, power>>

\* A caller begins to write v to an area; between writes there is none.
BeginWrite(area, v) ==
    /\ power /\ todo = {}
    /\ todo' = area
    /\ val' = v
    /\ UNCHANGED <<mem, power>>

\* A part of the write becomes visible.
WritePart(part) ==
    /\ power
    /\ mem' = Changed(part, val)
    /\ todo' = todo \ part
    /\ UNCHANGED <<val, power>>

Erase(area) ==
    /\ power /\ todo = {}
    /\ mem' = Changed(area, Erased)
    /\ UNCHANGED <<todo, val, power>>

PowerCut(s) ==
    /\ power
    /\ power' = FALSE
    /\ \E rest \in [Units -> Data] : mem' = [mem EXCEPT ![s] = rest]
    /\ todo' = {}
    /\ val' = Erased

PowerOn ==
    /\ ~power
    /\ power' = TRUE
    /\ UNCHANGED <<mem, todo, val>>

Changes ==
    \/ \E area \in SUBSET (Sectors \X Units), v \in Data : BeginWrite(area, v)
    \/ \E part \in SUBSET todo : WritePart(part)
    \/ \E area \in SUBSET (Sectors \X Units) : Erase(area)
    \/ \E s \in Sectors : PowerCut(s)
    \/ PowerOn

Next ==
    \/ Changes /\ got' = <<>>
    \/ \E area \in SUBSET (Sectors \X Units) : Read(area)

Spec == Init /\ [][Next]_vars
=============================================================================
