--------------------------- MODULE NorFlashProofs ---------------------------
(***************************************************************************)
(* Proofs about NorFlash for every chip size, sector length and set of     *)
(* values: the types, the cache invariant, the timeout and that the driver *)
(* implements FlatMemory.  They assume a chip that is ready before the     *)
(* last poll and callers that do not erase the cached sector themselves,   *)
(* because _norflash_wait_ok takes an answer on its last poll for a        *)
(* timeout and ioctl erases behind the cache's back; the last one assumes  *)
(* also that no read runs into the dirty cached sector from below.  Those  *)
(* about the partition table, NorFlashParts, are at the end.               *)
(*                                                                         *)
(* The inductive invariant follows the program: what is left to write fits *)
(* the chip, the cache is allocated while an operation is in progress, a   *)
(* cache that is not dirty holds what the chip holds wherever it may be    *)
(* replaced, and a write-back has programmed the pages before `page`.      *)
(***************************************************************************)
EXTENDS NorFlash, NorFlashParts, TLAPS

\* The chip is always ready before the last poll.
QuickChip == \A busy \in WaitTimes : busy < Polls - 1

\* What is left to write stays inside the chip.
ReqInv ==
    /\ Writing =>
        /\ req.val \in Values
        /\ req.unit + req.len <= (LastSector - req.sec + 1) * SecLen
    /\ ~Writing => req = NoReq
    /\ pc = "copy" => cacheSec = req.sec
    /\ pc = "advance" /\ dirty => req.len <= ChunkEnd - req.unit

\* When there is a cache.
OpenInv ==
    /\ open_cnt > 0 => cached
    /\ cached => open_cnt > 0 \/ (WritingBack /\ after = "shut")
    /\ pc \notin {"idle", "off"} => cached
    /\ WritingBack /\ after = "shut" => ~(open_cnt > 0)
    /\ dirty => cached

\* The cache and its sector on the chip.
CleanInv ==
    /\ pc \in {"idle", "off", "load", "advance"} /\ cached /\ ~dirty => cache = flash[cacheSec]
    /\ WritingBack \/ pc = "load" => ~dirty
    /\ pc # "program" => page = 0
    /\ pc = "program" =>
        \A u \in Units : flash[cacheSec][u] = IF u < page THEN cache[u] ELSE Erased

\* The timeout.
TimerInv ==
    /\ dirty => timer = "running"
    /\ timer = "fired" => WritingBack /\ after = "sync"

IInv == TypeOK /\ ReqInv /\ OpenInv /\ CleanInv /\ TimerInv

-----------------------------------------------------------------------------
(* Helpers.                                                                 *)

LEMMA UnitsNat == Units \subseteq Nat /\ 0 \in Units
BY NorFlashAssumption DEF Units

\* A quick chip always executes a command and _norflash_wait_ok says so.
LEMMA WaitOk ==
    ASSUME QuickChip, NEW busy \in WaitTimes
    PROVE  Done(busy) /\ _norflash_wait_ok(busy) = 0
<1>1. busy \in Nat /\ Polls \in Nat /\ busy < Polls - 1
    BY NorFlashAssumption DEF QuickChip
<1> QED
    BY <1>1 DEF Done, _norflash_wait_ok, wait_ok_counter

\* A sector that was erased.
LEMMA BlankType == Blank \in [Units -> Data]
BY DEF Blank, Data

\* A chunk stays inside its sector, and inside what is left to write.
LEMMA ChunkBounds ==
    ASSUME StateOK
    PROVE  /\ ChunkEnd \in Nat /\ ChunkEnd <= SecLen /\ ChunkEnd >= req.unit
           /\ ChunkEnd = SecLen \/ ChunkEnd = req.unit + req.len
           /\ ChunkEnd <= req.unit + req.len
<1>1. req.unit \in Nat /\ req.unit < SecLen /\ req.len \in Nat /\ SecLen \in Nat
    BY NorFlashAssumption DEF StateOK, Units
<1> QED
    BY <1>1 DEF ChunkEnd

-----------------------------------------------------------------------------
LEMMA InitInv == Init => IInv
<1> SUFFICES ASSUME Init PROVE IInv
    OBVIOUS
<1>1. FlagsOK
    BY DEF Init, FlagsOK
<1>2. StateOK
    <2>1. flash \in [Sectors -> [Units -> Data]] /\ cache \in [Units -> Data]
        BY BlankType DEF Init
    <2>2. req \in [sec : Sectors, unit : Units, len : Nat, val : Data]
        BY NorFlashAssumption DEF Init, NoReq, Sectors, Units, Data
    <2>3. cacheSec \in Sectors /\ page \in Units /\ open_cnt \in 0..MaxOpen
        BY NorFlashAssumption DEF Init, Sectors, Units
    <2> QED
        BY <2>1, <2>2, <2>3 DEF Init, StateOK, Labels
<1>3. ReqInv
    BY DEF Init, ReqInv, Writing, WritingBack
<1>4. OpenInv
    BY DEF Init, OpenInv
<1>5. CleanInv /\ TimerInv
    BY DEF Init, CleanInv, TimerInv, WritingBack
<1> QED
    BY <1>1, <1>2, <1>3, <1>4, <1>5 DEF IInv, TypeOK
-----------------------------------------------------------------------------
(* Writing back.                                                            *)

\* With a quick chip erase_cached erases the sector and goes on to program it.
LEMMA EraseStep ==
    ASSUME QuickChip, erase_cached
    PROVE  /\ pc = "erase" /\ pc' = "program"
           /\ flash' = [flash EXCEPT ![cacheSec] = Blank]
           /\ UNCHANGED <<cached, cacheSec, cache, dirty, timer, open_cnt, after, page,
                         req, reg>>
BY WaitOk DEF erase_cached

LEMMA erase_cached_Inv == ASSUME QuickChip, IInv, erase_cached PROVE IInv'
<1> USE EraseStep
<1>1. FlagsOK'
    BY DEF IInv, TypeOK, FlagsOK
<1>2. StateOK'
    BY BlankType DEF IInv, TypeOK, StateOK, Labels
<1>3. ReqInv'
    BY DEF IInv, ReqInv, Writing, WritingBack
<1>4. OpenInv'
    BY DEF IInv, OpenInv, WritingBack
<1>5. CleanInv'
    <2>1. page = 0 /\ ~dirty
        BY DEF IInv, CleanInv, WritingBack
    <2>2. \A u \in Units : flash'[cacheSec'][u] = Erased /\ ~(u < page)
        BY <2>1, UnitsNat DEF IInv, TypeOK, StateOK, Blank
    <2> QED
        BY <2>1, <2>2 DEF CleanInv, WritingBack
<1>6. TimerInv'
    BY DEF IInv, TimerInv, WritingBack
<1> QED
    BY <1>1, <1>2, <1>3, <1>4, <1>5, <1>6 DEF IInv, TypeOK

\* With a quick chip program_page programs one page and goes on with the next
\* one or, after the last, with the operation.
LEMMA ProgramStep ==
    ASSUME QuickChip, program_page
    PROVE  /\ pc = "program"
           /\ flash' = [flash EXCEPT ![cacheSec][page] = Programmed(@, cache[page])]
           /\ UNCHANGED <<cacheSec, cache, dirty, open_cnt>>
           /\ \/ /\ MorePages
                 /\ page' = page + 1
                 /\ UNCHANGED <<pc, reg, req, after, timer, cached>>
              \/ ~MorePages /\ AfterWriteBack(0)
<1>1. PICK busy \in WaitTimes :
        /\ flash' = IF Done(busy)
                    THEN [flash EXCEPT ![cacheSec][page] = Programmed(@, cache[page])]
                    ELSE flash
        /\ IF _norflash_wait_ok(busy) = 1
           THEN AfterWriteBack(1)
           ELSE IF MorePages
           THEN /\ page' = page + 1
                /\ UNCHANGED <<pc, reg, req, after, timer, cached>>
           ELSE AfterWriteBack(0)
    BY DEF program_page
<1>2. Done(busy) /\ _norflash_wait_ok(busy) # 1
    BY WaitOk
<1>3. pc = "program" /\ UNCHANGED <<cacheSec, cache, dirty, open_cnt>>
    BY DEF program_page
<1> QED
    BY <1>1, <1>2, <1>3

\* The page that is programmed takes the cache's contents.
LEMMA PageProgrammed ==
    ASSUME QuickChip, IInv, program_page
    PROVE  /\ flash' \in [Sectors -> [Units -> Data]]
           /\ \A s \in Sectors : s # cacheSec => flash'[s] = flash[s]
           /\ \A u \in Units : flash'[cacheSec][u] = IF u <= page THEN cache[u] ELSE Erased
<1> USE ProgramStep
<1>1. Programmed(flash[cacheSec][page], cache[page]) = cache[page]
    <2>1. flash[cacheSec][page] = Erased
        BY UnitsNat DEF IInv, TypeOK, StateOK, CleanInv
    <2> QED
        BY <2>1 DEF Programmed
<1>2. flash' = [flash EXCEPT ![cacheSec] = [flash[cacheSec] EXCEPT ![page] = cache[page]]]
    BY <1>1
<1>3. \A u \in Units : flash'[cacheSec][u] = IF u = page THEN cache[u] ELSE flash[cacheSec][u]
    BY <1>2 DEF IInv, TypeOK, StateOK
<1>4. \A u \in Units : flash'[cacheSec][u] = IF u <= page THEN cache[u] ELSE Erased
    BY <1>3, UnitsNat DEF IInv, TypeOK, StateOK, CleanInv
<1>5. flash' \in [Sectors -> [Units -> Data]]
    BY <1>2 DEF IInv, TypeOK, StateOK
<1> QED
    BY <1>2, <1>4, <1>5 DEF IInv, TypeOK, StateOK

\* After the last page the sector holds what the cache holds.
LEMMA AllProgrammed ==
    ASSUME QuickChip, IInv, program_page, ~MorePages
    PROVE  cache' = flash'[cacheSec']
<1>1. \A u \in Units : u <= page
    BY NorFlashAssumption DEF MorePages, IInv, TypeOK, StateOK, Units
<1>2. \A u \in Units : flash'[cacheSec][u] = cache[u]
    BY <1>1, PageProgrammed
<1>3. flash'[cacheSec] \in [Units -> Data] /\ cache \in [Units -> Data]
    BY PageProgrammed DEF IInv, TypeOK, StateOK
<1>4. cacheSec' = cacheSec /\ cache' = cache
    BY ProgramStep
<1> QED
    BY <1>2, <1>3, <1>4

LEMMA program_page_Inv == ASSUME QuickChip, IInv, program_page PROVE IInv'
<1>1. CASE MorePages
    <2>1. /\ pc = "program" /\ page' = page + 1
          /\ UNCHANGED <<pc, cacheSec, cache, dirty, open_cnt, reg, req, after, timer,
                        cached>>
        BY <1>1, ProgramStep
    <2>2. FlagsOK'
        BY <2>1 DEF IInv, TypeOK, FlagsOK
    <2>3. page' \in Units
        BY <1>1, <2>1, NorFlashAssumption DEF MorePages, IInv, TypeOK, StateOK, Units
    <2>4. StateOK'
        BY <2>1, <2>3, PageProgrammed DEF IInv, TypeOK, StateOK
    <2>5. ReqInv'
        BY <2>1 DEF IInv, ReqInv, Writing, WritingBack
    <2>6. OpenInv'
        BY <2>1 DEF IInv, OpenInv, WritingBack
    <2>7. \A u \in Units : u < page' <=> u <= page
        BY <2>1, UnitsNat DEF IInv, TypeOK, StateOK
    <2>8. CleanInv'
        BY <2>1, <2>7, PageProgrammed DEF IInv, CleanInv, WritingBack
    <2>9. TimerInv'
        BY <2>1 DEF IInv, TimerInv, WritingBack
    <2> QED
        BY <2>2, <2>4, <2>5, <2>6, <2>8, <2>9 DEF IInv, TypeOK
<1>2. CASE ~MorePages
    <2>1. /\ pc = "program" /\ UNCHANGED <<cacheSec, cache, dirty, open_cnt>>
          /\ AfterWriteBack(0)
        BY <1>2, ProgramStep
    <2>2. ~dirty' /\ page' = 0
        BY <2>1 DEF IInv, CleanInv, WritingBack, AfterWriteBack, Return
    <2>3. cache' = flash'[cacheSec']
        BY <1>2, AllProgrammed
    <2>4. FlagsOK'
        BY <2>1 DEF IInv, TypeOK, FlagsOK, AfterWriteBack
    <2>5. StateOK'
        <3>1. /\ timer' \in {"none", "running", "fired"} /\ pc' \in Labels
              /\ after' \in {"return", "load", "advance", "sync", "shut"}
              /\ reg' \in {0, 1}
            BY <2>1 DEF IInv, TypeOK, StateOK, AfterWriteBack, Return, TimerAfter, Labels
        <3>2. req' \in [sec : Sectors, unit : Units, len : Nat, val : Data]
            BY <2>1, UnitsNat, NorFlashAssumption
            DEF IInv, TypeOK, StateOK, AfterWriteBack, Return, NoReq, Data, Sectors
        <3> QED
            BY <2>1, <2>2, <3>1, <3>2, PageProgrammed, UnitsNat DEF IInv, TypeOK, StateOK
    <2>6. ReqInv'
        BY <2>1, <2>2 DEF IInv, ReqInv, Writing, WritingBack, AfterWriteBack, Return
    <2>7. OpenInv'
        <3>1. cached /\ (open_cnt > 0 \/ after = "shut")
            BY <2>1 DEF IInv, OpenInv
        <3>2. CASE after = "shut"
            <4>1. cached' = FALSE /\ pc' = "idle"
                BY <2>1, <3>2 DEF AfterWriteBack, Return
            <4>2. ~(open_cnt' > 0)
                BY <2>1, <3>2 DEF IInv, OpenInv, WritingBack
            <4> QED
                BY <2>2, <4>1, <4>2 DEF OpenInv, WritingBack
        <3>3. CASE after # "shut"
            <4>1. cached' /\ open_cnt' > 0
                BY <2>1, <3>1, <3>3 DEF AfterWriteBack
            <4>2. ~WritingBack'
                BY <2>1 DEF AfterWriteBack, Return, WritingBack
            <4> QED
                BY <2>2, <4>1, <4>2 DEF OpenInv
        <3> QED
            BY <3>2, <3>3
    <2>8. CleanInv'
        BY <2>1, <2>2, <2>3 DEF CleanInv, WritingBack, AfterWriteBack, Return
    <2>9. TimerInv'
        BY <2>1, <2>2 DEF IInv, TimerInv, WritingBack, AfterWriteBack, Return, TimerAfter
    <2> QED
        BY <2>4, <2>5, <2>6, <2>7, <2>8, <2>9 DEF IInv, TypeOK
<1> QED
    BY <1>1, <1>2
-----------------------------------------------------------------------------
(* Writing.                                                                 *)

LEMMA load_Inv == ASSUME IInv, load PROVE IInv'
<1>1. FlagsOK' /\ StateOK'
    <2>1. FlagsOK'
        BY DEF load, IInv, TypeOK, FlagsOK
    <2>2. StateOK'
        BY DEF load, IInv, TypeOK, StateOK, Labels
    <2> QED
        BY <2>1, <2>2
<1>2. ReqInv'
    BY DEF load, IInv, ReqInv, Writing, WritingBack
<1>3. OpenInv'
    BY DEF load, IInv, OpenInv, WritingBack
<1>4. CleanInv'
    BY DEF load, IInv, CleanInv, WritingBack
<1>5. TimerInv'
    BY DEF load, IInv, TimerInv, WritingBack
<1> QED
    BY <1>1, <1>2, <1>3, <1>4, <1>5 DEF IInv, TypeOK

LEMMA copy_Inv == ASSUME IInv, copy PROVE IInv'
<1>1. cache' \in [Units -> Data]
    BY DEF copy, IInv, TypeOK, StateOK
<1>2. CASE ChunkEnd = SecLen
    <2>1. /\ pc = "copy" /\ pc' = "erase" /\ after' = "advance" /\ dirty' = FALSE
          /\ UNCHANGED <<flash, cached, cacheSec, timer, open_cnt, page, req, reg>>
        BY <1>2 DEF copy, WriteBack
    <2>2. FlagsOK'
        BY <2>1 DEF IInv, TypeOK, FlagsOK
    <2>3. StateOK'
        BY <1>1, <2>1 DEF IInv, TypeOK, StateOK, Labels
    <2>4. ReqInv'
        BY <2>1 DEF IInv, ReqInv, Writing, WritingBack
    <2>5. OpenInv'
        <3>1. cached' /\ after' # "shut" /\ open_cnt' > 0
            BY <2>1 DEF IInv, OpenInv, WritingBack
        <3> QED
            BY <2>1, <3>1 DEF OpenInv
    <2>6. CleanInv'
        BY <2>1 DEF IInv, CleanInv, WritingBack
    <2>7. TimerInv'
        BY <2>1 DEF IInv, TimerInv, WritingBack
    <2> QED
        BY <2>2, <2>3, <2>4, <2>5, <2>6, <2>7 DEF IInv, TypeOK
<1>3. CASE ChunkEnd # SecLen
    <2>1. /\ pc = "copy" /\ pc' = "advance" /\ dirty' = TRUE /\ timer' = ArmedTimer
          /\ UNCHANGED <<flash, cached, cacheSec, open_cnt, after, page, req, reg>>
        BY <1>3 DEF copy
    <2>2. FlagsOK'
        BY <2>1 DEF IInv, TypeOK, FlagsOK
    <2>3. StateOK'
        BY <1>1, <2>1 DEF IInv, TypeOK, StateOK, Labels, ArmedTimer
    <2>4. ReqInv'
        <3>1. req.len <= ChunkEnd - req.unit
            BY <1>3, ChunkBounds, NorFlashAssumption DEF IInv, TypeOK, StateOK, Units
        <3>2. ChunkEnd' = ChunkEnd
            BY <2>1 DEF ChunkEnd
        <3> QED
            BY <2>1, <3>1, <3>2 DEF IInv, ReqInv, Writing, WritingBack
    <2>5. OpenInv'
        <3>1. cached' /\ ~WritingBack' /\ open_cnt' > 0
            BY <2>1 DEF IInv, OpenInv, WritingBack
        <3> QED
            BY <2>1, <3>1 DEF OpenInv
    <2>6. CleanInv'
        BY <2>1 DEF IInv, CleanInv, WritingBack
    <2>7. TimerInv'
        BY <2>1 DEF IInv, TypeOK, StateOK, TimerInv, WritingBack, ArmedTimer
    <2> QED
        BY <2>2, <2>3, <2>4, <2>5, <2>6, <2>7 DEF IInv, TypeOK
<1> QED
    BY <1>2, <1>3

\* What is left after a chunk that reaches the end of its sector fits the
\* sectors that follow.
LEMMA NextSector ==
    ASSUME NEW s \in Nat, s <= LastSector, NEW u \in Nat, NEW n \in Nat,
           u + n <= (LastSector - s + 1) * SecLen, n > SecLen - u
    PROVE  /\ s + 1 <= LastSector
           /\ n - (SecLen - u) <= (LastSector - (s + 1) + 1) * SecLen
<1> DEFINE k == LastSector - s
<1>1. k \in Nat /\ SecLen \in Nat /\ LastSector \in Nat
    BY NorFlashAssumption
<1>2. (k + 1) * SecLen = k * SecLen + SecLen
    BY <1>1
<1>3. u + n <= k * SecLen + SecLen
    BY <1>2
<1>4. n - (SecLen - u) <= k * SecLen
    <2>1. k * SecLen \in Nat
        BY <1>1
    <2> HIDE DEF k
    <2> QED
        BY <1>1, <1>3, <2>1
<1>5. k # 0
    BY <1>1, <1>3
<1> QED
    BY <1>1, <1>4, <1>5

LEMMA advance_Inv == ASSUME IInv, advance PROVE IInv'
<1>1. /\ pc = "advance"
      /\ UNCHANGED <<flash, cached, cacheSec, cache, dirty, timer, open_cnt>>
    BY DEF advance
<1>2. FlagsOK'
    BY <1>1 DEF IInv, TypeOK, FlagsOK
<1>3. CASE req.len > ChunkEnd - req.unit
    <2>1. /\ req' = [req EXCEPT !.sec = @ + 1, !.unit = 0,
                                !.len = @ - (ChunkEnd - req.unit)]
          /\ pc' = "load" /\ UNCHANGED <<reg, after, page>>
        BY <1>3 DEF advance
    <2>2. ChunkEnd = SecLen
        BY <1>3, ChunkBounds, NorFlashAssumption DEF IInv, TypeOK, StateOK, Units
    <2>3. ~dirty
        BY <1>1, <1>3, ChunkBounds, NorFlashAssumption
        DEF IInv, TypeOK, StateOK, Units, ReqInv
    <2>4. /\ req.sec + 1 <= LastSector
          /\ req.len - (SecLen - req.unit) <= (LastSector - (req.sec + 1) + 1) * SecLen
        <3>1. /\ req.sec \in Nat /\ req.sec <= LastSector /\ req.unit \in Nat
              /\ req.len \in Nat
            <4>1. req.sec \in Sectors /\ req.unit \in Units /\ req.len \in Nat
                BY DEF IInv, TypeOK, StateOK
            <4>2. req.unit \in Nat
                BY <4>1, UnitsNat
            <4> QED
                BY <4>1, <4>2, NorFlashAssumption DEF Sectors
        <3>2. req.unit + req.len <= (LastSector - req.sec + 1) * SecLen
            BY <1>1 DEF IInv, ReqInv, Writing
        <3>3. req.len > SecLen - req.unit
            BY <1>3, <2>2
        <3> QED
            BY <3>1, <3>2, <3>3, NextSector
    <2>5. req' \in [sec : Sectors, unit : Units, len : Nat, val : Data]
        <3>1. /\ req \in [sec : Sectors, unit : Units, len : Nat, val : Data]
              /\ req.sec + 1 \in Sectors
            BY <2>4, NorFlashAssumption DEF IInv, TypeOK, StateOK, Sectors
        <3>2. req.len - (SecLen - req.unit) \in Nat
            BY <1>3, <2>2, <3>1, NorFlashAssumption DEF Units
        <3> QED
            BY <2>1, <2>2, <3>1, <3>2, UnitsNat
    <2>6. StateOK'
        BY <1>1, <2>1, <2>5 DEF IInv, TypeOK, StateOK, Labels
    <2>7. ReqInv'
        <3>1. /\ req'.unit = 0 /\ req'.sec = req.sec + 1 /\ req'.val = req.val
              /\ req'.len = req.len - (SecLen - req.unit)
            BY <2>1, <2>2 DEF IInv, TypeOK, StateOK
        <3>2. req'.unit + req'.len = req'.len
            BY <2>5, <3>1
        <3>3. req'.unit + req'.len <= (LastSector - req'.sec + 1) * SecLen
            BY <2>4, <3>1, <3>2
        <3>4. req'.val \in Values
            BY <1>1, <3>1 DEF IInv, ReqInv, Writing
        <3> QED
            BY <2>1, <3>3, <3>4 DEF ReqInv, Writing
    <2>8. OpenInv'
        <3>1. cached' /\ ~WritingBack' /\ open_cnt' > 0
            BY <1>1, <2>1 DEF IInv, OpenInv, WritingBack
        <3> QED
            BY <3>1 DEF OpenInv
    <2>9. CleanInv'
        BY <1>1, <2>1, <2>3 DEF IInv, CleanInv, WritingBack
    <2>10. TimerInv'
        BY <1>1, <2>1 DEF IInv, TimerInv, WritingBack
    <2> QED
        BY <1>2, <2>6, <2>7, <2>8, <2>9, <2>10 DEF IInv, TypeOK
<1>4. CASE ~(req.len > ChunkEnd - req.unit)
    <2>1. pc' = "idle" /\ reg' = 0 /\ req' = NoReq /\ after' = "return" /\ page' = 0
        BY <1>4 DEF advance, Return
    <2>2. StateOK'
        BY <1>1, <2>1, UnitsNat, NorFlashAssumption
        DEF IInv, TypeOK, StateOK, Labels, NoReq, Sectors, Data
    <2>3. ReqInv'
        BY <2>1 DEF ReqInv, Writing, WritingBack
    <2>4. OpenInv'
        <3>1. cached' /\ ~WritingBack' /\ open_cnt' > 0
            BY <1>1, <2>1 DEF IInv, OpenInv, WritingBack
        <3> QED
            BY <3>1 DEF OpenInv
    <2>5. CleanInv'
        BY <1>1, <2>1 DEF IInv, CleanInv, WritingBack
    <2>6. TimerInv'
        BY <1>1, <2>1 DEF IInv, TimerInv, WritingBack
    <2> QED
        BY <1>2, <2>2, <2>3, <2>4, <2>5, <2>6 DEF IInv, TypeOK
<1> QED
    BY <1>3, <1>4

\* An operation that begins a write-back from "idle" keeps the invariant.
LEMMA BeginWriteBack ==
    ASSUME IInv, pc = "idle", dirty, NEW next,
           next \in {"return", "load", "sync", "shut"},
           WriteBack(next),
           UNCHANGED <<flash, cached, cacheSec, cache, page, reg>>,
           req' \in [sec : Sectors, unit : Units, len : Nat, val : Data],
           open_cnt' \in 0..MaxOpen,
           next = "shut" => ~(open_cnt' > 0),
           next # "shut" => open_cnt' = open_cnt,
           next = "load" => /\ req'.val \in Values
                            /\ req'.unit + req'.len <= (LastSector - req'.sec + 1) * SecLen,
           next # "load" => req' = NoReq,
           timer' = IF next = "sync" THEN "fired" ELSE timer
    PROVE  IInv'
<1>1. pc' = "erase" /\ dirty' = FALSE /\ after' = next
    BY DEF WriteBack
<1>2. FlagsOK'
    BY <1>1 DEF IInv, TypeOK, FlagsOK
<1>3. StateOK'
    BY <1>1 DEF IInv, TypeOK, StateOK, Labels
<1>4. ReqInv'
    BY <1>1 DEF ReqInv, Writing, WritingBack
<1>5. OpenInv'
    <2>1. cached' /\ WritingBack'
        BY <1>1 DEF IInv, OpenInv, WritingBack
    <2>2. open_cnt' > 0 \/ after' = "shut"
        <3>1. open_cnt > 0
            BY DEF IInv, OpenInv, WritingBack
        <3> QED
            BY <1>1, <3>1
    <2>3. after' = "shut" => ~(open_cnt' > 0)
        BY <1>1
    <2> QED
        BY <2>1, <2>2, <2>3, <1>1 DEF OpenInv
<1>6. CleanInv'
    BY <1>1 DEF IInv, CleanInv, WritingBack
<1>7. TimerInv'
    BY <1>1 DEF IInv, TimerInv, WritingBack
<1> QED
    BY <1>2, <1>3, <1>4, <1>5, <1>6, <1>7 DEF IInv, TypeOK

LEMMA Write_Inv == ASSUME IInv, Write PROVE IInv'
<1>1. PICK s \in Sectors, u \in Units, v \in Values :
        \E n \in 1..((LastSector - s + 1) * SecLen - u) : _norflash_write(s, u, n, v)
    BY DEF Write, UnitsFrom
<1>2. PICK n \in 1..((LastSector - s + 1) * SecLen - u) : _norflash_write(s, u, n, v)
    BY <1>1
<1>3. /\ pc = "idle" /\ open_cnt > 0
      /\ req' = [sec |-> s, unit |-> u, len |-> n, val |-> v]
      /\ UNCHANGED <<flash, cached, cacheSec, cache, timer, open_cnt, page, reg>>
    BY <1>2 DEF _norflash_write
<1>4. /\ req' \in [sec : Sectors, unit : Units, len : Nat, val : Data]
      /\ req'.val \in Values
      /\ req'.unit + req'.len <= (LastSector - req'.sec + 1) * SecLen
    <2>1. /\ s \in Nat /\ u \in Nat /\ LastSector - s + 1 \in Int /\ SecLen \in Int
        BY NorFlashAssumption DEF Sectors, Units
    <2>2. (LastSector - s + 1) * SecLen \in Int
        BY <2>1
    <2>3. n \in Nat /\ u + n <= (LastSector - s + 1) * SecLen
        BY <2>1, <2>2
    <2> QED
        BY <1>3, <2>3 DEF Data
<1>5. CASE s # cacheSec /\ dirty
    <2>1. WriteBack("load")
        BY <1>2, <1>5 DEF _norflash_write
    <2>2. open_cnt' \in 0..MaxOpen
        BY <1>3 DEF IInv, TypeOK, StateOK
    <2> QED
        BY <1>3, <1>4, <1>5, <2>1, <2>2, BeginWriteBack
<1>6. CASE ~(s # cacheSec /\ dirty)
    <2>1. /\ pc' \in {"copy", "load"} /\ UNCHANGED <<dirty, after>>
          /\ pc' = "load" => ~dirty
          /\ pc' = "copy" => s = cacheSec
        BY <1>2, <1>6 DEF _norflash_write
    <2>2. FlagsOK'
        BY <1>3, <2>1 DEF IInv, TypeOK, FlagsOK
    <2>3. StateOK'
        BY <1>3, <1>4, <2>1 DEF IInv, TypeOK, StateOK, Labels
    <2>4. ReqInv'
        <3>1. cacheSec' = cacheSec /\ req'.sec = s
            BY <1>3
        <3> QED
            BY <1>4, <2>1, <3>1 DEF ReqInv, Writing
    <2>5. OpenInv'
        <3>1. cached' /\ ~WritingBack' /\ open_cnt' > 0
            BY <1>3, <2>1 DEF IInv, OpenInv, WritingBack
        <3> QED
            BY <3>1 DEF OpenInv
    <2>6. CleanInv'
        BY <1>3, <2>1 DEF IInv, CleanInv, WritingBack
    <2>7. TimerInv'
        BY <1>3, <2>1 DEF IInv, TimerInv, WritingBack
    <2> QED
        BY <2>2, <2>3, <2>4, <2>5, <2>6, <2>7 DEF IInv, TypeOK
<1> QED
    BY <1>5, <1>6

-----------------------------------------------------------------------------
(* The timeout, ioctl, open and close.                                      *)

\* An action that stays at "idle" and changes none of the cache's state but the
\* timer.
LEMMA StayIdle ==
    ASSUME IInv, pc = "idle",
           UNCHANGED <<cached, cacheSec, cache, dirty, open_cnt, pc, after, page, req>>,
           flash' \in [Sectors -> [Units -> Data]],
           flash'[cacheSec] = flash[cacheSec],
           reg' \in {0, 1},
           timer' \in {timer, "none"}, timer' # timer => ~dirty
    PROVE  IInv'
<1>1. FlagsOK'
    BY DEF IInv, TypeOK, FlagsOK
<1>2. StateOK'
    BY DEF IInv, TypeOK, StateOK
<1>3. ReqInv'
    BY DEF IInv, ReqInv, Writing, WritingBack
<1>4. OpenInv'
    BY DEF IInv, OpenInv, WritingBack
<1>5. CleanInv'
    BY DEF IInv, CleanInv, WritingBack
<1>6. TimerInv'
    BY DEF IInv, TimerInv, WritingBack
<1> QED
    BY <1>1, <1>2, <1>3, <1>4, <1>5, <1>6 DEF IInv, TypeOK

LEMMA IdleReq == ASSUME IInv, pc = "idle" PROVE req = NoReq
BY DEF IInv, ReqInv, Writing, WritingBack

LEMMA sync_timer_Inv == ASSUME IInv, _norflash_cache_sync_timer PROVE IInv'
<1>1. /\ pc = "idle" /\ timer = "running"
      /\ UNCHANGED <<flash, cached, cacheSec, cache, open_cnt, page, req, reg>>
    BY DEF _norflash_cache_sync_timer
<1>2. /\ req \in [sec : Sectors, unit : Units, len : Nat, val : Data]
      /\ open_cnt \in 0..MaxOpen /\ reg \in {0, 1}
      /\ flash \in [Sectors -> [Units -> Data]]
    BY DEF IInv, TypeOK, StateOK
<1>3. CASE dirty
    <2>1. WriteBack("sync") /\ timer' = "fired"
        BY <1>3 DEF _norflash_cache_sync_timer
    <2> QED
        BY <1>1, <1>2, <1>3, <2>1, BeginWriteBack, IdleReq
<1>4. CASE ~dirty
    <2>1. timer' = "none" /\ UNCHANGED <<dirty, pc, after>>
        BY <1>4 DEF _norflash_cache_sync_timer
    <2> QED
        BY <1>1, <1>2, <1>4, <2>1, StayIdle
<1> QED
    BY <1>3, <1>4

LEMMA ioctl_flush_Inv == ASSUME IInv, ioctl_flush PROVE IInv'
<1>1. /\ req \in [sec : Sectors, unit : Units, len : Nat, val : Data]
      /\ open_cnt \in 0..MaxOpen
    BY DEF IInv, TypeOK, StateOK
<1> QED
    BY <1>1, BeginWriteBack, IdleReq DEF ioctl_flush

\* With a quick chip an erase that spares the cached sector does what it says.
LEMMA EraseAreaStep ==
    ASSUME QuickChip, ~EraseCached, StateOK, NEW area, ioctl_erase(area)
    PROVE  /\ pc = "idle" /\ area \cap Sector(cacheSec) = {} /\ reg' = 0
           /\ flash' = [s \in Sectors |-> [u \in Units |->
                            IF <<s, u>> \in area THEN Erased ELSE flash[s][u]]]
           /\ flash' \in [Sectors -> [Units -> Data]]
           /\ flash'[cacheSec] = flash[cacheSec]
           /\ UNCHANGED <<cached, cacheSec, cache, dirty, timer, open_cnt, pc, after, page,
                         req>>
<1>1. /\ pc = "idle" /\ area \cap Sector(cacheSec) = {} /\ reg' = 0
      /\ flash' = [s \in Sectors |-> [u \in Units |->
                        IF <<s, u>> \in area THEN Erased ELSE flash[s][u]]]
      /\ UNCHANGED <<cached, cacheSec, cache, dirty, timer, open_cnt, pc, after, page, req>>
    BY WaitOk DEF ioctl_erase
<1>2. flash' \in [Sectors -> [Units -> Data]]
    BY <1>1 DEF StateOK, Data
<1>3. \A u \in Units : <<cacheSec, u>> \notin area
    BY <1>1 DEF Sector
<1>4. \A u \in Units : flash'[cacheSec][u] = flash[cacheSec][u]
    BY <1>1, <1>3 DEF StateOK
<1>5. flash'[cacheSec] = flash[cacheSec]
    BY <1>2, <1>4 DEF StateOK
<1> QED
    BY <1>1, <1>2, <1>5

LEMMA ioctl_erase_Inv ==
    ASSUME QuickChip, ~EraseCached, IInv, NEW area, ioctl_erase(area) PROVE IInv'
BY EraseAreaStep, StayIdle DEF IInv, TypeOK

LEMMA open_Inv == ASSUME IInv, _norflash_open PROVE IInv'
<1>1. /\ pc = "idle" /\ open_cnt < MaxOpen /\ reg' \in {0, 1}
      /\ UNCHANGED <<flash, dirty, timer, pc, after, page, req>>
    BY DEF _norflash_open
<1>2. CASE UNCHANGED <<open_cnt, cached, cacheSec, cache>>
    BY <1>1, <1>2, StayIdle DEF IInv, TypeOK, StateOK
<1>3. CASE /\ open_cnt = 0 /\ open_cnt' = 1
           /\ cached' = TRUE /\ cacheSec' = 0 /\ cache' = flash[0]
    <2>1. 0 \in Sectors /\ open_cnt' \in 0..MaxOpen
        BY <1>3, NorFlashAssumption DEF Sectors
    <2>2. FlagsOK'
        BY <1>1, <1>3 DEF IInv, TypeOK, FlagsOK
    <2>3. StateOK'
        BY <1>1, <1>3, <2>1 DEF IInv, TypeOK, StateOK
    <2>4. ReqInv'
        BY <1>1 DEF IInv, ReqInv, Writing, WritingBack
    <2>5. OpenInv'
        <3>1. cached' /\ ~WritingBack' /\ open_cnt' > 0
            BY <1>1, <1>3 DEF WritingBack
        <3> QED
            BY <3>1 DEF OpenInv
    <2>6. CleanInv'
        BY <1>1, <1>3 DEF IInv, CleanInv, WritingBack
    <2>7. TimerInv'
        BY <1>1 DEF IInv, TimerInv, WritingBack
    <2> QED
        BY <2>2, <2>3, <2>4, <2>5, <2>6, <2>7 DEF IInv, TypeOK
<1>4. CASE open_cnt > 0 /\ open_cnt' = open_cnt + 1 /\ UNCHANGED <<cached, cacheSec, cache>>
    <2>1. open_cnt' \in 0..MaxOpen /\ open_cnt' > 0
        BY <1>1, <1>4, NorFlashAssumption DEF IInv, TypeOK, StateOK
    <2>2. FlagsOK'
        BY <1>1, <1>4 DEF IInv, TypeOK, FlagsOK
    <2>3. StateOK'
        BY <1>1, <1>4, <2>1 DEF IInv, TypeOK, StateOK
    <2>4. ReqInv'
        BY <1>1 DEF IInv, ReqInv, Writing, WritingBack
    <2>5. OpenInv'
        <3>1. cached' /\ ~WritingBack'
            BY <1>1, <1>4 DEF IInv, OpenInv, WritingBack
        <3> QED
            BY <2>1, <3>1 DEF OpenInv
    <2>6. CleanInv'
        BY <1>1, <1>4 DEF IInv, CleanInv, WritingBack
    <2>7. TimerInv'
        BY <1>1 DEF IInv, TimerInv, WritingBack
    <2> QED
        BY <2>2, <2>3, <2>4, <2>5, <2>6, <2>7 DEF IInv, TypeOK
<1> QED
    BY <1>2, <1>3, <1>4 DEF _norflash_open

LEMMA close_Inv == ASSUME IInv, _norflash_close PROVE IInv'
<1>1. /\ pc = "idle" /\ open_cnt > 0 /\ open_cnt' = open_cnt - 1
      /\ UNCHANGED <<flash, cacheSec, cache, timer, page, req, reg>>
    BY DEF _norflash_close
<1>2. open_cnt \in Nat /\ open_cnt' \in 0..MaxOpen
    BY <1>1, NorFlashAssumption DEF IInv, TypeOK, StateOK
<1>3. CASE open_cnt = 1 /\ dirty
    <2>1. WriteBack("shut") /\ UNCHANGED cached
        BY <1>3 DEF _norflash_close
    <2>2. req' \in [sec : Sectors, unit : Units, len : Nat, val : Data]
        BY <1>1 DEF IInv, TypeOK, StateOK
    <2>3. ~(open_cnt' > 0)
        BY <1>1, <1>3
    <2> QED
        BY <1>1, <1>2, <1>3, <2>1, <2>2, <2>3, BeginWriteBack, IdleReq
<1>4. CASE ~(open_cnt = 1 /\ dirty)
    <2>1. cached' = (open_cnt # 1) /\ UNCHANGED <<dirty, pc, after>>
        BY <1>4 DEF _norflash_close
    <2>2. cached
        BY <1>1 DEF IInv, OpenInv
    <2>3. FlagsOK'
        BY <2>1 DEF IInv, TypeOK, FlagsOK
    <2>4. StateOK'
        BY <1>1, <1>2, <2>1 DEF IInv, TypeOK, StateOK
    <2>5. ReqInv'
        BY <1>1, <2>1 DEF IInv, ReqInv, Writing, WritingBack
    <2>6. OpenInv'
        <3>1. pc' = "idle" /\ ~WritingBack'
            BY <1>1, <2>1 DEF WritingBack
        <3>2. open_cnt' > 0 <=> open_cnt # 1
            BY <1>1, <1>2
        <3>3. dirty' => cached'
            BY <1>4, <2>1
        <3> QED
            BY <2>1, <3>1, <3>2, <3>3 DEF OpenInv
    <2>7. CleanInv'
        BY <1>1, <2>1, <2>2 DEF IInv, CleanInv, WritingBack
    <2>8. TimerInv'
        BY <1>1, <2>1 DEF IInv, TimerInv, WritingBack
    <2> QED
        BY <2>3, <2>4, <2>5, <2>6, <2>7, <2>8 DEF IInv, TypeOK
<1> QED
    BY <1>3, <1>4

LEMMA PowerCut_Inv == ASSUME IInv, PowerCut PROVE IInv'
<1>1. /\ cached' = FALSE /\ cacheSec' = 0 /\ cache' = Blank /\ dirty' = FALSE
      /\ timer' = "none" /\ open_cnt' = 0 /\ pc' = "off" /\ after' = "return"
      /\ page' = 0 /\ req' = NoReq /\ reg' = 0 /\ flash' = flash
    BY DEF PowerCut
<1>2. FlagsOK'
    BY <1>1 DEF FlagsOK
<1>3. StateOK'
    BY <1>1, UnitsNat, BlankType, NorFlashAssumption
    DEF IInv, TypeOK, StateOK, Labels, NoReq, Sectors, Data
<1>4. ReqInv'
    BY <1>1 DEF ReqInv, Writing, WritingBack
<1>5. OpenInv'
    BY <1>1 DEF OpenInv, WritingBack
<1>6. CleanInv'
    BY <1>1 DEF CleanInv, WritingBack
<1>7. TimerInv'
    BY <1>1 DEF TimerInv, WritingBack
<1> QED
    BY <1>2, <1>3, <1>4, <1>5, <1>6, <1>7 DEF IInv, TypeOK

LEMMA PowerOn_Inv == ASSUME IInv, PowerOn PROVE IInv'
<1>1. /\ pc = "off" /\ pc' = "idle"
      /\ UNCHANGED <<flash, cached, cacheSec, cache, dirty, timer, open_cnt, after, page,
                    req, reg>>
    BY DEF PowerOn
<1>2. FlagsOK'
    BY <1>1 DEF IInv, TypeOK, FlagsOK
<1>3. StateOK'
    BY <1>1 DEF IInv, TypeOK, StateOK, Labels
<1>4. ReqInv'
    BY <1>1 DEF IInv, ReqInv, Writing, WritingBack
<1>5. OpenInv'
    BY <1>1 DEF IInv, OpenInv, WritingBack
<1>6. CleanInv'
    BY <1>1 DEF IInv, CleanInv, WritingBack
<1>7. TimerInv'
    BY <1>1 DEF IInv, TimerInv, WritingBack
<1> QED
    BY <1>2, <1>3, <1>4, <1>5, <1>6, <1>7 DEF IInv, TypeOK

-----------------------------------------------------------------------------
LEMMA StepInv == ASSUME QuickChip, ~EraseCached, IInv, [Next]_vars PROVE IInv'
<1>1. CASE Step
    BY <1>1, erase_cached_Inv, program_page_Inv, load_Inv, copy_Inv, advance_Inv DEF Step
<1>2. CASE Write
    BY <1>2, Write_Inv
<1>3. CASE _norflash_cache_sync_timer
    BY <1>3, sync_timer_Inv
<1>4. CASE ioctl_flush
    BY <1>4, ioctl_flush_Inv
<1>5. CASE \E area \in Areas : ioctl_erase(area)
    BY <1>5, ioctl_erase_Inv
<1>6. CASE _norflash_open
    BY <1>6, open_Inv
<1>7. CASE _norflash_close
    BY <1>7, close_Inv
<1>8. CASE PowerCut
    BY <1>8, PowerCut_Inv
<1>9. CASE PowerOn
    BY <1>9, PowerOn_Inv
<1>10. CASE Read \/ UNCHANGED vars
    <2>1. /\ flash' = flash /\ cacheSec' = cacheSec /\ cache' = cache /\ timer' = timer
          /\ open_cnt' = open_cnt /\ pc' = pc /\ after' = after /\ page' = page
          /\ req' = req /\ cached' = cached /\ dirty' = dirty
          /\ reg' = reg \/ reg' = 0
        BY <1>10 DEF vars, driver, Read, _norflash_read
    <2>2. FlagsOK'
        BY <2>1 DEF IInv, TypeOK, FlagsOK
    <2>3. StateOK'
        BY <2>1 DEF IInv, TypeOK, StateOK
    <2>4. ReqInv'
        BY <2>1 DEF IInv, ReqInv, Writing, WritingBack, ChunkEnd
    <2>5. OpenInv' /\ TimerInv'
        BY <2>1 DEF IInv, OpenInv, TimerInv, WritingBack
    <2>6. CleanInv'
        BY <2>1 DEF IInv, CleanInv, WritingBack
    <2> QED
        BY <2>2, <2>3, <2>4, <2>5, <2>6 DEF IInv, TypeOK
<1> QED
    BY <1>1, <1>2, <1>3, <1>4, <1>5, <1>6, <1>7, <1>8, <1>9, <1>10 DEF Next, Changes

LEMMA Inductive == ASSUME QuickChip, ~EraseCached PROVE Spec => []IInv
<1>1. IInv /\ [Next]_vars => IInv'
    BY StepInv
<1> QED
    BY InitInv, <1>1, PTL DEF Spec

\* The driver's variables always have their types: the cached sector is one of
\* the chip, and a write never runs past its end.
THEOREM TypeCorrect == ASSUME QuickChip, ~EraseCached PROVE Spec => []TypeOK
BY Inductive, PTL DEF IInv

\* Between operations a cache that is not dirty holds what the chip holds.
THEOREM CleanCache == ASSUME QuickChip, ~EraseCached PROVE Spec => []CleanCacheIsFlash
<1>1. IInv => CleanCacheIsFlash
    BY DEF IInv, CleanInv, CleanCacheIsFlash
<1> QED
    BY <1>1, Inductive, PTL

\* Between operations dirty data has a running timeout.
THEOREM DirtyData == ASSUME QuickChip, ~EraseCached PROVE Spec => []DirtyHasTimeout
<1>1. IInv => DirtyHasTimeout
    BY DEF IInv, TimerInv, DirtyHasTimeout
<1> QED
    BY <1>1, Inductive, PTL

-----------------------------------------------------------------------------
(* The driver implements FlatMemory.                                        *)

\* The contents of every sector, as callers see it.
LEMMA ContentsAt ==
    ASSUME TypeOK
    PROVE  /\ cached => Contents = [s \in Sectors |-> IF s = cacheSec THEN cache ELSE flash[s]]
           /\ ~cached => Contents = flash
           /\ Contents \in [Sectors -> [Units -> Data]]
BY DEF TypeOK, StateOK, Contents

\* A step that leaves the cache alone and touches only its sector on the chip.
LEMMA SameContents ==
    ASSUME TypeOK, TypeOK', cached, cached', cacheSec' = cacheSec, cache' = cache,
           \A s \in Sectors : s # cacheSec => flash'[s] = flash[s]
    PROVE  Contents' = Contents
<1>1. /\ Contents = [s \in Sectors |-> IF s = cacheSec THEN cache ELSE flash[s]]
      /\ Contents' = [s \in Sectors |-> IF s = cacheSec THEN cache' ELSE flash'[s]]
    BY DEF TypeOK, StateOK, Contents
<1> QED
    BY <1>1

LEMMA NoTodo == ASSUME ~Writing PROVE Todo = {}
BY DEF Todo

\* A step within a write that does not copy a chunk.
LEMMA SameTodo ==
    ASSUME req' = req, Writing' <=> Writing, Copied' <=> Copied PROVE Todo' = Todo
BY DEF Todo, FirstLeft, EndOfWrite, ChunkEnd

\* What a step that callers do not see leaves alone: for FlatMemory it writes
\* nothing.
Hidden ==
    /\ UNCHANGED <<Contents, Todo>>
    /\ req'.val = req.val
    /\ pc # "off" /\ pc' # "off"

LEMMA HiddenStep == ASSUME IInv, Hidden PROVE Flat!Changes
<1>1. Contents \in [Sectors -> [Units -> Data]]
    BY ContentsAt DEF IInv
<1>2. Contents = Flat!Changed({}, req.val)
    BY <1>1 DEF Flat!Changed
<1>3. Todo' = Todo \ {} /\ {} \in SUBSET Todo
    BY DEF Hidden
<1>4. Flat!WritePart({})
    BY <1>2, <1>3 DEF Hidden, Flat!WritePart
<1> QED
    BY <1>3, <1>4 DEF Flat!Changes

LEMMA erase_cached_Flat ==
    ASSUME QuickChip, IInv, IInv', erase_cached PROVE Hidden
<1>1. cached /\ cached'
    BY EraseStep DEF IInv, OpenInv
<1>2. \A s \in Sectors : s # cacheSec => flash'[s] = flash[s]
    BY EraseStep DEF IInv, TypeOK, StateOK
<1>3. Contents' = Contents
    BY <1>1, <1>2, EraseStep, SameContents DEF IInv
<1>4. Todo' = Todo
    BY EraseStep, SameTodo DEF Writing, Copied, WritingBack
<1> QED
    BY <1>3, <1>4, EraseStep DEF Hidden

LEMMA program_page_Flat ==
    ASSUME QuickChip, IInv, IInv', program_page PROVE Hidden
<1>1. pc = "program" /\ cached /\ cacheSec' = cacheSec /\ cache' = cache
    BY ProgramStep DEF IInv, OpenInv
<1>2. Contents' = Contents
    <2>1. CASE cached'
        BY <1>1, <2>1, PageProgrammed, SameContents DEF IInv
    <2>2. CASE ~cached'
        <3>1. ~MorePages
            BY <1>1, <2>2, ProgramStep
        <3>2. cache = flash'[cacheSec]
            BY <1>1, <3>1, AllProgrammed
        <3>3. Contents = [s \in Sectors |-> IF s = cacheSec THEN cache ELSE flash[s]]
            BY <1>1, ContentsAt DEF IInv
        <3>4. Contents' = flash'
            BY <2>2 DEF Contents
        <3>5. flash' = [s \in Sectors |-> IF s = cacheSec THEN cache ELSE flash[s]]
            BY <3>2, PageProgrammed
        <3> QED
            BY <3>3, <3>4, <3>5
    <2> QED
        BY <2>1, <2>2
<1>3. req' = req /\ Todo' = Todo /\ pc' # "off"
    <2>1. CASE MorePages \/ after \in {"load", "advance"}
        <3>1. req' = req /\ pc' # "off"
            BY <1>1, <2>1, ProgramStep DEF AfterWriteBack
        <3>2. (Writing' <=> Writing) /\ (Copied' <=> Copied)
            BY <1>1, <2>1, ProgramStep DEF AfterWriteBack, Writing, Copied, WritingBack
        <3> QED
            BY <3>1, <3>2, SameTodo
    <2>2. CASE ~MorePages /\ after \notin {"load", "advance"}
        <3>1. ~Writing /\ req = NoReq
            BY <1>1, <2>2 DEF IInv, ReqInv, Writing, WritingBack
        <3>2. ~Writing' /\ req' = NoReq /\ pc' # "off"
            BY <2>2, ProgramStep DEF AfterWriteBack, Return, Writing, WritingBack
        <3>3. Todo = {} /\ Todo' = {}
            BY <3>1, <3>2 DEF Todo
        <3> QED
            BY <3>1, <3>2, <3>3
    <2> QED
        BY <2>1, <2>2
<1> QED
    BY <1>1, <1>2, <1>3 DEF Hidden

LEMMA load_Flat == ASSUME IInv, IInv', load PROVE Hidden
<1>1. /\ pc = "load" /\ pc' = "copy" /\ cache' = flash[req.sec] /\ cacheSec' = req.sec
      /\ UNCHANGED <<flash, cached, req>>
    BY DEF load
<1>2. cached /\ cache = flash[cacheSec]
    BY <1>1 DEF IInv, OpenInv, CleanInv
<1>3. Contents = flash
    BY <1>2, ContentsAt DEF IInv, TypeOK, StateOK
<1>4. Contents' = [flash EXCEPT ![req.sec] = flash[req.sec]]
    BY <1>1, <1>2 DEF Contents
<1>5. Contents' = Contents
    BY <1>3, <1>4 DEF IInv, TypeOK, StateOK
<1>6. Todo' = Todo
    BY <1>1, SameTodo DEF Writing, Copied, WritingBack
<1> QED
    BY <1>1, <1>5, <1>6 DEF Hidden

-----------------------------------------------------------------------------
(* What is left to write is an interval of positions.                       *)

\* Positions follow the order of the sectors.
LEMMA Positions ==
    ASSUME NEW s \in Nat, NEW k \in Nat, NEW u \in Units
    PROVE  /\ Position(s, u) \in Nat /\ Position(k, 0) \in Nat
           /\ s = k => Position(s, u) = Position(k, 0) + u
           /\ s > k => Position(s, u) >= Position(k, 0) + SecLen
           /\ s < k => Position(s, u) < Position(k, 0)
<1>1. SecLen \in Nat /\ u \in Nat /\ u < SecLen
    BY NorFlashAssumption DEF Units
<1>2. s * SecLen \in Nat /\ k * SecLen \in Nat
    BY <1>1
<1>3. ASSUME NEW i \in Nat, NEW j \in Nat, i < j PROVE j * SecLen >= i * SecLen + SecLen
    <2>1. PICK d \in Nat : j = i + 1 + d
        <3>1. j - i - 1 \in Nat /\ j = i + 1 + (j - i - 1)
            BY <1>3
        <3> QED
            BY <3>1
    <2>2. j * SecLen = i * SecLen + SecLen + d * SecLen
        BY <1>1, <2>1
    <2>3. d * SecLen \in Nat /\ i * SecLen \in Nat
        BY <1>1
    <2> QED
        BY <1>1, <2>2, <2>3
<1>4. s > k => s * SecLen >= k * SecLen + SecLen
    BY <1>3
<1>5. s < k => k * SecLen >= s * SecLen + SecLen
    BY <1>3
<1> QED
    BY <1>1, <1>2, <1>4, <1>5 DEF Position

\* Whatever lies in an earlier sector has a lower position.
LEMMA SectorsInOrder ==
    ASSUME NEW s \in Sectors, NEW u \in Units, NEW t \in Sectors, NEW v \in Units
    PROVE  /\ Position(s, u) \in Nat /\ Position(s, 0) \in Nat
           /\ Position(s, 0) <= Position(s, u)
           /\ s < t => Position(s, u) < Position(t, v)
<1>1. s \in Nat /\ t \in Nat /\ u \in Nat /\ v \in Nat
    BY UnitsNat DEF Sectors
<1>2. /\ Position(s, u) \in Nat /\ Position(s, 0) \in Nat /\ Position(t, 0) \in Nat
      /\ Position(s, u) = Position(s, 0) + u /\ Position(t, v) = Position(t, 0) + v
      /\ s < t => Position(s, u) < Position(t, 0)
    BY <1>1, Positions
<1> QED
    BY <1>1, <1>2

\* The chunk is the first part of what is left.
LEMMA ChunkIsFirst ==
    ASSUME StateOK, NEW s \in Sectors, NEW u \in Units
    PROVE  LET base == Position(req.sec, 0)
               p == Position(s, u)
           IN  /\ base + req.unit <= p /\ p < base + ChunkEnd
                    <=> s = req.sec /\ req.unit <= u /\ u < ChunkEnd
               /\ base \in Nat /\ p \in Nat
<1> DEFINE base == Position(req.sec, 0)
           p == Position(s, u)
<1>1. /\ req.sec \in Nat /\ s \in Nat /\ req.unit \in Nat /\ u \in Nat /\ SecLen \in Nat
    BY NorFlashAssumption DEF StateOK, Sectors, Units
<1>2. /\ base \in Nat /\ p \in Nat
      /\ s = req.sec => p = base + u
      /\ s > req.sec => p >= base + SecLen
      /\ s < req.sec => p < base
    BY <1>1, Positions
<1>3. ChunkEnd \in Nat /\ ChunkEnd <= SecLen
    BY ChunkBounds
<1> HIDE DEF base, p
<1>4. base + req.unit <= p /\ p < base + ChunkEnd
      <=> s = req.sec /\ req.unit <= u /\ u < ChunkEnd
    BY <1>1, <1>2, <1>3
<1> QED
    BY <1>2, <1>4 DEF base, p

\* Bounds of what is left, relative to the sector the write has reached.
LEMMA LeftBounds ==
    ASSUME StateOK
    PROVE  /\ Position(req.sec, 0) \in Nat /\ req.unit \in Nat /\ req.len \in Nat
           /\ Position(req.sec, req.unit) = Position(req.sec, 0) + req.unit
           /\ Position(req.sec, ChunkEnd) = Position(req.sec, 0) + ChunkEnd
           /\ EndOfWrite = Position(req.sec, 0) + req.unit + req.len
<1>1. /\ req.sec \in Nat /\ req.unit \in Nat /\ req.len \in Nat /\ SecLen \in Nat
      /\ ChunkEnd \in Nat
    BY ChunkBounds, NorFlashAssumption DEF StateOK, Sectors, Units
<1>2. req.sec * SecLen \in Nat
    BY <1>1
<1> QED
    BY <1>1, <1>2 DEF Position, EndOfWrite
-----------------------------------------------------------------------------
\* Copying a chunk into the cache writes the chunk and nothing else.
LEMMA copy_Flat == ASSUME IInv, IInv', copy PROVE \E part \in SUBSET Todo : Flat!WritePart(part)
<1> DEFINE part == {p \in Sectors \X Units : p[1] = req.sec /\ p[2] \in Chunk}
<1>1. /\ pc = "copy" /\ pc' # "off"
      /\ cache' = [u \in Units |-> IF u \in Chunk THEN req.val ELSE cache[u]]
      /\ UNCHANGED <<flash, cached, cacheSec, req>>
      /\ Writing /\ ~Copied /\ Writing' /\ Copied'
    BY DEF copy, WriteBack, Writing, Copied, WritingBack
<1>2. cached /\ cacheSec \in Sectors /\ cacheSec = req.sec /\ StateOK
    BY <1>1 DEF IInv, OpenInv, ReqInv, TypeOK, StateOK
<1>3. Contents = [s \in Sectors |-> IF s = cacheSec THEN cache ELSE flash[s]]
    BY <1>2, ContentsAt DEF IInv
<1>4. Contents' = [s \in Sectors |-> IF s = cacheSec THEN cache' ELSE flash[s]]
    BY <1>1, <1>2 DEF Contents, IInv, TypeOK, StateOK
<1>5. \A s \in Sectors, u \in Units : <<s, u>> \in part <=> s = cacheSec /\ u \in Chunk
    BY <1>2
<1>6. Contents' = Flat!Changed(part, req.val)
    <2>1. \A s \in Sectors :
            (IF s = cacheSec THEN cache' ELSE flash[s])
            = [u \in Units |-> IF <<s, u>> \in part THEN req.val ELSE Contents[s][u]]
        <3> TAKE s \in Sectors
        <3>1. CASE s = cacheSec
            <4>1. \A u \in Units : <<s, u>> \in part <=> u \in Chunk
                BY <1>5, <3>1
            <4>2. Contents[s] = cache
                BY <1>3, <3>1
            <4> HIDE DEF part
            <4> QED
                BY <1>1, <3>1, <4>1, <4>2
        <3>2. CASE s # cacheSec
            <4>1. \A u \in Units : <<s, u>> \notin part
                BY <1>5, <3>2
            <4>2. Contents[s] = flash[s] /\ flash[s] \in [Units -> Data]
                BY <1>2, <1>3, <3>2 DEF StateOK
            <4> HIDE DEF part
            <4> QED
                BY <3>2, <4>1, <4>2
        <3> QED
            BY <3>1, <3>2
    <2> HIDE DEF part
    <2> QED
        BY <1>4, <2>1 DEF Flat!Changed
<1>7. ChunkEnd' = ChunkEnd /\ EndOfWrite' = EndOfWrite
    BY <1>1 DEF ChunkEnd, EndOfWrite
<1>8. /\ FirstLeft = Position(req.sec, 0) + req.unit
      /\ FirstLeft' = Position(req.sec, 0) + ChunkEnd
      /\ EndOfWrite = Position(req.sec, 0) + req.unit + req.len
    BY <1>1, <1>2, <1>7, LeftBounds DEF FirstLeft
<1>9. /\ ChunkEnd \in Nat /\ ChunkEnd >= req.unit /\ ChunkEnd <= req.unit + req.len
      /\ Position(req.sec, 0) \in Nat /\ req.unit \in Nat /\ req.len \in Nat
    BY <1>2, ChunkBounds, LeftBounds
<1>10. \A p \in Sectors \X Units :
        /\ Position(p[1], p[2]) \in Nat
        /\ p \in part <=> /\ FirstLeft <= Position(p[1], p[2])
                          /\ Position(p[1], p[2]) < FirstLeft'
    <2> TAKE p \in Sectors \X Units
    <2>1. p[1] \in Sectors /\ p[2] \in Units /\ p[2] \in Int
        BY NorFlashAssumption DEF Units
    <2>2. p[2] \in Chunk <=> req.unit <= p[2] /\ p[2] < ChunkEnd
        BY <1>9, <2>1 DEF Chunk
    <2> QED
        BY <1>2, <1>8, <2>1, <2>2, ChunkIsFirst
<1>11. /\ Todo = {p \in Sectors \X Units : /\ FirstLeft <= Position(p[1], p[2])
                                            /\ Position(p[1], p[2]) < EndOfWrite}
       /\ Todo' = {p \in Sectors \X Units : /\ FirstLeft' <= Position(p[1], p[2])
                                             /\ Position(p[1], p[2]) < EndOfWrite}
    BY <1>1, <1>7 DEF Todo, Position
<1>12. part \in SUBSET Todo /\ Todo' = Todo \ part
    <2>1. part \subseteq Sectors \X Units
        OBVIOUS
    <2>2. FirstLeft' <= EndOfWrite /\ FirstLeft <= FirstLeft'
          /\ FirstLeft \in Nat /\ FirstLeft' \in Nat /\ EndOfWrite \in Nat
        BY <1>8, <1>9
    <2> HIDE DEF part
    <2> QED
        BY <1>10, <1>11, <2>1, <2>2
<1>13. req'.val = req.val /\ (pc # "off")' = (pc # "off") /\ pc # "off"
    BY <1>1
<1> HIDE DEF part
<1> QED
    BY <1>6, <1>12, <1>13 DEF Flat!WritePart

LEMMA advance_Flat ==
    ASSUME IInv, IInv', advance
    PROVE  Hidden \/ Flat!BeginWrite({}, Erased)
<1>1. /\ pc = "advance" /\ pc' \in {"load", "idle"} /\ StateOK
      /\ UNCHANGED <<flash, cached, cacheSec, cache, dirty>>
    BY DEF advance, Return, IInv, TypeOK
<1>2. Contents' = Contents
    BY <1>1 DEF Contents
<1>3. /\ Writing /\ Copied
      /\ FirstLeft = Position(req.sec, 0) + ChunkEnd
      /\ EndOfWrite = Position(req.sec, 0) + req.unit + req.len
    BY <1>1, LeftBounds DEF Writing, Copied, FirstLeft
<1>4. /\ ChunkEnd \in Nat /\ ChunkEnd <= SecLen /\ ChunkEnd <= req.unit + req.len
      /\ ChunkEnd = SecLen \/ ChunkEnd = req.unit + req.len
      /\ Position(req.sec, 0) \in Nat /\ req.unit \in Nat /\ req.len \in Nat
      /\ SecLen \in Nat
    BY <1>1, ChunkBounds, LeftBounds, NorFlashAssumption
<1>5. CASE req.len > ChunkEnd - req.unit
    <2>1. /\ req' = [req EXCEPT !.sec = @ + 1, !.unit = 0,
                                !.len = @ - (ChunkEnd - req.unit)]
          /\ pc' = "load"
        BY <1>5 DEF advance
    <2>2. /\ req'.unit = 0 /\ req'.sec = req.sec + 1 /\ req'.val = req.val
          /\ req'.len = req.len - (ChunkEnd - req.unit)
        BY <1>1, <2>1 DEF StateOK
    <2>3. ChunkEnd = SecLen
        BY <1>4, <1>5
    <2>4. Writing' /\ ~Copied'
        BY <2>1 DEF Writing, Copied, WritingBack
    <2>5. Position(req.sec + 1, 0) = Position(req.sec, 0) + SecLen
        <3>1. req.sec \in Nat /\ SecLen \in Nat
            BY <1>1, NorFlashAssumption DEF StateOK, Sectors
        <3>2. (req.sec + 1) * SecLen = req.sec * SecLen + SecLen
            BY <3>1
        <3>3. req.sec * SecLen \in Nat
            BY <3>1
        <3> QED
            BY <3>1, <3>2, <3>3 DEF Position
    <2>6. FirstLeft' = FirstLeft
        BY <1>3, <2>2, <2>3, <2>4, <2>5 DEF FirstLeft, Position
    <2>7. EndOfWrite' = EndOfWrite
        <3>1. EndOfWrite' = Position(req.sec + 1, 0) + (req.len - (ChunkEnd - req.unit))
            BY <2>2 DEF EndOfWrite, Position
        <3> QED
            BY <1>3, <1>4, <2>3, <2>5, <3>1
    <2>8. Todo' = Todo
        BY <1>3, <2>4, <2>6, <2>7 DEF Todo, Position
    <2> QED
        BY <1>1, <1>2, <2>1, <2>2, <2>8 DEF Hidden
<1>6. CASE ~(req.len > ChunkEnd - req.unit)
    <2>1. pc' = "idle" /\ req' = NoReq
        BY <1>6 DEF advance, Return
    <2>2. FirstLeft = EndOfWrite /\ FirstLeft \in Nat
        BY <1>3, <1>4, <1>6
    <2>3. \A p \in Sectors \X Units : Position(p[1], p[2]) \in Nat
        BY Positions, NorFlashAssumption DEF Sectors
    <2>4. Todo = {}
        BY <2>2, <2>3 DEF Todo
    <2>5. Todo' = {}
        BY <2>1 DEF Todo, Writing, WritingBack
    <2>6. req'.val = Erased
        BY <2>1 DEF NoReq
    <2> QED
        BY <1>1, <1>2, <2>1, <2>4, <2>5, <2>6 DEF Flat!BeginWrite
<1> QED
    BY <1>5, <1>6

-----------------------------------------------------------------------------
\* Between operations, and without power, nothing is left to write.
LEMMA IdleTodo == ASSUME pc \in {"idle", "off"} PROVE Todo = {}
BY DEF Todo, Writing, WritingBack

\* A read that begins in the cached sector or stays clear of it gives what was
\* written last, on the chip or not.
LEMMA Read_Flat ==
    ASSUME ~ReadsInto, IInv, IInv', Read
    PROVE  \E area \in SUBSET (Sectors \X Units) : Flat!Read(area)
<1>0. PICK s \in Sectors, u \in Units : \E n \in 1..UnitsFrom(s, u) : _norflash_read(s, u, n)
    BY DEF Read
<1>1. PICK n \in 1..UnitsFrom(s, u) : _norflash_read(s, u, n)
    BY <1>0
<1>2. /\ pc = "idle" /\ cached /\ ClearOfDirty(s, u, n)
      /\ out' = [p \in Range(s, u, n) |-> ReadUnit(s, p[1], p[2])]
      /\ UNCHANGED <<flash, cached, cacheSec, cache, pc, after, req>>
    BY <1>1 DEF _norflash_read, IInv, OpenInv
<1>3. Range(s, u, n) \in SUBSET (Sectors \X Units)
    BY DEF Range
<1>4. \A p \in Range(s, u, n) : ReadUnit(s, p[1], p[2]) = Contents[p[1]][p[2]]
    <2> SUFFICES ASSUME NEW p \in Range(s, u, n)
                 PROVE  ReadUnit(s, p[1], p[2]) = Contents[p[1]][p[2]]
        OBVIOUS
    <2>1. /\ p[1] \in Sectors /\ p[2] \in Units
          /\ Position(s, u) <= Position(p[1], p[2])
          /\ Position(p[1], p[2]) < Position(s, u) + n
        BY DEF Range
    <2>2. Contents[p[1]] = IF p[1] = cacheSec THEN cache ELSE flash[p[1]]
        BY <1>2, <2>1, ContentsAt DEF IInv
    <2>3. CASE p[1] = s \/ p[1] # cacheSec
        BY <2>2, <2>3 DEF ReadUnit
    <2>4. CASE p[1] = cacheSec /\ s # cacheSec
        <3>1. ~dirty => cache = flash[cacheSec]
            BY <1>2 DEF IInv, CleanInv
        <3>2. ReadUnit(s, p[1], p[2]) = flash[p[1]][p[2]]
            BY <2>4 DEF ReadUnit
        <3>3. CASE ~dirty
            BY <2>2, <2>4, <3>1, <3>2, <3>3
        <3>4. CASE cacheSec < s
            BY <2>1, <2>4, <3>4, SectorsInOrder
        <3>5. CASE Position(s, u) + n <= Position(cacheSec, 0)
            <4>1. Position(cacheSec, 0) <= Position(p[1], p[2])
                BY <2>1, <2>4, SectorsInOrder
            <4>2. /\ Position(s, u) \in Nat /\ Position(p[1], p[2]) \in Nat
                  /\ Position(cacheSec, 0) \in Nat
                BY <2>1, <2>4, SectorsInOrder, UnitsNat
            <4>3. n \in Int
                <5>1. LastSector - s + 1 \in Int /\ SecLen \in Int /\ u \in Int
                    BY UnitsNat, NorFlashAssumption DEF Sectors
                <5>2. UnitsFrom(s, u) \in Int
                    BY <5>1 DEF UnitsFrom
                <5> QED
                    BY <5>2
            <4> QED
                BY <2>1, <3>5, <4>1, <4>2, <4>3
        <3> QED
            BY <1>2, <2>4, <3>3, <3>4, <3>5 DEF ClearOfDirty, IInv, TypeOK, StateOK, Sectors
    <2> QED
        BY <2>1, <2>3, <2>4
<1>5. out' = [p \in Range(s, u, n) |-> Contents[p[1]][p[2]]]
    BY <1>2, <1>4
<1>6. Todo = {} /\ Todo' = {} /\ Contents' = Contents
    BY <1>2, IdleTodo DEF Todo, Writing, WritingBack, Contents
<1>7. Flat!Read(Range(s, u, n))
    BY <1>2, <1>5, <1>6 DEF Flat!Read
<1> QED
    BY <1>3, <1>7

LEMMA Write_Flat ==
    ASSUME IInv, IInv', Write
    PROVE  \E area \in SUBSET (Sectors \X Units), v \in Data : Flat!BeginWrite(area, v)
<1>1. /\ pc = "idle" /\ pc' \in {"copy", "load", "erase"}
      /\ UNCHANGED <<flash, cached, cacheSec, cache>>
    BY DEF Write, _norflash_write, WriteBack
<1>2. Todo = {} /\ Contents' = Contents
    BY <1>1, IdleTodo DEF Contents
<1>3. Todo' \in SUBSET (Sectors \X Units) /\ req'.val \in Data
    BY DEF Todo, IInv, TypeOK, StateOK
<1>4. Flat!BeginWrite(Todo', req'.val)
    BY <1>1, <1>2 DEF Flat!BeginWrite
<1> QED
    BY <1>3, <1>4

\* The timeout and IOCTL_FLUSH only begin a write-back.
LEMMA sync_Flat ==
    ASSUME IInv, _norflash_cache_sync_timer \/ ioctl_flush PROVE Hidden
<1>1. /\ pc = "idle" /\ pc' \in {"idle", "erase"}
      /\ pc' = "erase" => after' \in {"sync", "return"}
      /\ UNCHANGED <<flash, cached, cacheSec, cache, req>>
    BY DEF _norflash_cache_sync_timer, ioctl_flush, WriteBack
<1>2. ~Writing /\ ~Writing'
    BY <1>1 DEF Writing, WritingBack
<1>3. Todo = {} /\ Todo' = {}
    BY <1>2 DEF Todo
<1> QED
    BY <1>1, <1>3 DEF Hidden, Contents

LEMMA ioctl_erase_Flat ==
    ASSUME QuickChip, ~EraseCached, IInv, NEW area \in Areas, ioctl_erase(area)
    PROVE  Flat!Erase(area)
<1>1. /\ pc = "idle" /\ pc' = "idle"
      /\ flash' = [s \in Sectors |-> [u \in Units |->
                        IF <<s, u>> \in area THEN Erased ELSE flash[s][u]]]
      /\ UNCHANGED <<cached, cacheSec, cache, req>>
    BY EraseAreaStep DEF IInv, TypeOK
<1>2. \A u \in Units : <<cacheSec, u>> \notin area
    BY EraseAreaStep DEF IInv, TypeOK, Sector
<1>3. Contents' = Flat!Changed(area, Erased)
    <2>1. CASE ~cached
        BY <1>1, <2>1 DEF Contents, Flat!Changed
    <2>2. CASE cached
        <3>1. Contents' = [s \in Sectors |-> IF s = cacheSec THEN cache ELSE flash'[s]]
            BY <1>1, <2>2 DEF Contents
        <3>2. Contents = [s \in Sectors |-> IF s = cacheSec THEN cache ELSE flash[s]]
            BY <2>2, ContentsAt DEF IInv
        <3>3. \A s \in Sectors :
                (IF s = cacheSec THEN cache ELSE flash'[s])
                = [u \in Units |-> IF <<s, u>> \in area THEN Erased ELSE Contents[s][u]]
            <4> TAKE s \in Sectors
            <4>1. CASE s = cacheSec
                BY <1>2, <3>2, <4>1 DEF IInv, TypeOK, StateOK
            <4>2. CASE s # cacheSec
                BY <1>1, <3>2, <4>2
            <4> QED
                BY <4>1, <4>2
        <3> QED
            BY <3>1, <3>3 DEF Flat!Changed
    <2> QED
        BY <2>1, <2>2
<1>4. Todo = {} /\ Todo' = {}
    BY <1>1, IdleTodo DEF Todo, Writing, WritingBack
<1> QED
    BY <1>1, <1>3, <1>4 DEF Flat!Erase

\* Loading sector 0 on the first open shows nothing new.
LEMMA open_Flat == ASSUME IInv, _norflash_open PROVE Hidden
<1>1. pc = "idle" /\ pc' = "idle" /\ UNCHANGED <<flash, req>>
    BY DEF _norflash_open
<1>2. Contents' = Contents
    <2>1. CASE UNCHANGED <<cached, cacheSec, cache>>
        BY <1>1, <2>1 DEF Contents
    <2>2. CASE open_cnt = 0 /\ cached' = TRUE /\ cacheSec' = 0 /\ cache' = flash[0]
        <3>1. ~cached
            BY <1>1, <2>2 DEF IInv, OpenInv, WritingBack
        <3>2. Contents = flash
            BY <3>1 DEF Contents
        <3>3. Contents' = [flash EXCEPT ![0] = flash[0]]
            BY <1>1, <2>2 DEF Contents
        <3> QED
            BY <3>2, <3>3 DEF IInv, TypeOK, StateOK
    <2> QED
        BY <2>1, <2>2 DEF _norflash_open
<1>3. Todo = {} /\ Todo' = {}
    BY <1>1, IdleTodo DEF Todo, Writing, WritingBack
<1> QED
    BY <1>1, <1>2, <1>3 DEF Hidden

\* The cache that the last close frees holds what the chip holds.
LEMMA close_Flat == ASSUME IInv, _norflash_close PROVE Hidden
<1>1. /\ pc = "idle" /\ pc' \in {"idle", "erase"}
      /\ pc' = "erase" => after' = "shut"
      /\ open_cnt > 0 /\ UNCHANGED <<flash, cacheSec, cache, req>>
    BY DEF _norflash_close, WriteBack
<1>2. cached
    BY <1>1 DEF IInv, OpenInv
<1>3. Contents' = Contents
    <2>1. CASE cached'
        BY <1>1, <1>2, <2>1 DEF Contents
    <2>2. CASE ~cached'
        <3>1. open_cnt = 1 /\ ~dirty
            BY <1>2, <2>2 DEF _norflash_close
        <3>2. cache = flash[cacheSec]
            BY <1>1, <1>2, <3>1 DEF IInv, CleanInv
        <3>3. Contents = flash
            BY <1>2, <3>2, ContentsAt DEF IInv, TypeOK, StateOK
        <3> QED
            BY <1>1, <2>2, <3>3 DEF Contents
    <2> QED
        BY <2>1, <2>2
<1>4. Todo = {} /\ Todo' = {}
    <2>1. ~Writing /\ ~Writing'
        BY <1>1 DEF Writing, WritingBack
    <2> QED
        BY <2>1 DEF Todo
<1> QED
    BY <1>1, <1>3, <1>4 DEF Hidden

\* A power cut costs at most the cached sector.
LEMMA PowerCut_Flat ==
    ASSUME IInv, PowerCut PROVE \E s \in Sectors : Flat!PowerCut(s)
<1>1. /\ pc # "off" /\ pc' = "off" /\ cached' = FALSE /\ req' = NoReq
      /\ flash' = flash
    BY DEF PowerCut
<1>2. /\ cacheSec \in Sectors /\ flash \in [Sectors -> [Units -> Data]]
      /\ cache \in [Units -> Data] /\ flash[cacheSec] \in [Units -> Data]
    BY DEF IInv, TypeOK, StateOK
<1>3. Contents' = flash
    BY <1>1 DEF Contents
<1>4. flash = [Contents EXCEPT ![cacheSec] = flash[cacheSec]]
    BY <1>2 DEF Contents
<1>5. Todo' = {} /\ req'.val = Erased
    BY <1>1 DEF Todo, Writing, WritingBack, NoReq
<1>6. Flat!PowerCut(cacheSec)
    BY <1>1, <1>2, <1>3, <1>4, <1>5 DEF Flat!PowerCut, Flat!Data, Data
<1> QED
    BY <1>2, <1>6

LEMMA PowerOn_Flat == ASSUME IInv, PowerOn PROVE Flat!PowerOn
<1>1. /\ pc = "off" /\ pc' = "idle"
      /\ UNCHANGED <<flash, cached, cacheSec, cache, req>>
    BY DEF PowerOn
<1>2. Todo = {} /\ Todo' = {}
    BY <1>1, IdleTodo DEF Todo, Writing, WritingBack
<1> QED
    BY <1>1, <1>2 DEF Flat!PowerOn, Contents

LEMMA StepFlat ==
    ASSUME QuickChip, ~EraseCached, ~ReadsInto, IInv, IInv', [Next]_vars
    PROVE  [Flat!Next]_(Flat!vars)
<1> SUFFICES ASSUME Next
             PROVE  \/ Flat!Changes /\ out' = NoData
                    \/ \E area \in SUBSET (Sectors \X Units) : Flat!Read(area)
    <2>1. CASE UNCHANGED vars
        <3>1. UNCHANGED <<flash, cached, cacheSec, cache, pc, after, req, out>>
            BY <2>1 DEF vars, driver
        <3>2. Todo' = Todo
            BY <3>1, SameTodo DEF Writing, Copied, WritingBack
        <3> QED
            BY <3>1, <3>2 DEF Flat!vars, Contents
    <2> QED
        BY <2>1 DEF Flat!Next, NoData
<1>0. CASE Read
    BY <1>0, Read_Flat
<1> SUFFICES ASSUME Changes, out' = NoData PROVE Flat!Changes
    BY <1>0 DEF Next
<1> USE DEF Flat!Changes
<1>1. CASE erase_cached \/ program_page \/ load
    BY <1>1, erase_cached_Flat, program_page_Flat, load_Flat, HiddenStep
<1>2. CASE copy
    BY <1>2, copy_Flat
<1>3. CASE advance
    <2>1. {} \in SUBSET (Sectors \X Units) /\ Erased \in Data /\ Erased \in Flat!Data
        BY DEF Data, Flat!Data
    <2> QED
        BY <1>3, <2>1, advance_Flat, HiddenStep
<1>4. CASE Write
    BY <1>4, Write_Flat DEF Data, Flat!Data
<1>5. CASE _norflash_cache_sync_timer \/ ioctl_flush
    BY <1>5, sync_Flat, HiddenStep
<1>6. CASE \E area \in Areas : ioctl_erase(area)
    <2>1. Areas \subseteq SUBSET (Sectors \X Units)
        BY DEF Areas, Sector, Block
    <2> QED
        BY <1>6, <2>1, ioctl_erase_Flat
<1>7. CASE _norflash_open \/ _norflash_close
    BY <1>7, open_Flat, close_Flat, HiddenStep
<1>8. CASE PowerCut
    BY <1>8, PowerCut_Flat
<1>9. CASE PowerOn
    BY <1>9, PowerOn_Flat
<1> QED
    BY <1>1, <1>2, <1>3, <1>4, <1>5, <1>6, <1>7, <1>8, <1>9 DEF Changes, Step

\* The driver is a memory: a read returns what was written last, loads,
\* write-backs, flushes, timeouts, opens and closes change nothing, writes and
\* erases only what they are told to, and a power cut at any moment costs one
\* sector at most.  No read may run from below into the cached sector while that
\* is dirty.
THEOREM MemoryImplemented ==
    ASSUME QuickChip, ~EraseCached, ~ReadsInto PROVE Spec => ImplementsMemory
<1>1. Init => Flat!Init
    <2> SUFFICES ASSUME Init PROVE Flat!Init
        OBVIOUS
    <2>1. Contents \in [Sectors -> [Units -> Data]]
        BY InitInv, ContentsAt DEF IInv
    <2>2. pc = "idle" /\ req.val = Erased
        BY DEF Init, NoReq
    <2>3. Todo = {}
        BY <2>2, IdleTodo
    <2> QED
        BY <2>1, <2>2, <2>3 DEF Flat!Init, Flat!Data, Data, Init, NoData
<1>2. IInv /\ IInv' /\ [Next]_vars => [Flat!Next]_(Flat!vars)
    BY StepFlat
<1> QED
    BY <1>1, <1>2, Inductive, PTL DEF Spec, ImplementsMemory, Flat!Spec

-----------------------------------------------------------------------------
(* The partition table.  Partitions listed by address do not overlap, and    *)
(* what an open chip reports as a partition is all on it.  Both need only    *)
(* what the two ASSERTs of norflash.c have seen when the program goes on:    *)
(* each partition was compared with those before it when it was entered, and *)
(* the highest end with the capacity at the first open.                      *)

\* What a partition is made of.
LEMMA PartitionType ==
    ASSUME NEW p \in Partitions
    PROVE  p.start \in Addrs /\ p.size \in Sizes /\ p.start \in Nat /\ p.size \in Nat
<1>1. p.start \in Addrs /\ p.size \in Sizes
  BY DEF Partitions
<1> QED  BY <1>1, PartsAssumption

\* An end is an address: it is computed in AddrWidth bits.
LEMMA EndIsAnAddress ==
    ASSUME NEW p \in Partitions
    PROVE  EndAddr(p) \in 0..(Space - 1)
<1> DEFINE n == p.start + p.size
<1>1. Space \in Nat \ {0} /\ n \in Nat
  BY PartitionType, PartsAssumption
<1>2. n % Space \in 0..(Space - 1)
  <2> HIDE DEF n
  <2> QED  BY <1>1
<1> QED  BY <1>2 DEF EndAddr

\* Where no sum of an address and a size reaches Space the end is the sum.
NoWrap == \A a \in Addrs, s \in Sizes : a + s < Space

\* The end of a partition does not wrap.
LEMMA EndIsTheSum ==
    ASSUME NoWrap, NEW p \in Partitions
    PROVE  EndAddr(p) = p.start + p.size
<1> DEFINE n == p.start + p.size
<1>1. Space \in Nat \ {0} /\ n \in Nat /\ n < Space
  BY PartitionType, PartsAssumption DEF NoWrap
<1>2. n % Space = n
  <2> HIDE DEF n
  <2> QED  BY <1>1
<1> QED  BY <1>2 DEF EndAddr

-----------------------------------------------------------------------------
(* The invariant.                                                           *)

\* No partition starts inside one that was entered before it.
EnteredApart ==
    ~halted => \A i, j \in DOMAIN nor_part :
        i < j => ~Inside(nor_part[j].start, nor_part[i])

\* The highest end is one, and an open chip was compared with it.
EndsKnown == \A i \in DOMAIN nor_part : EndAddr(nor_part[i]) <= max_end_addr
OpenFits == ~halted /\ flash_capacity > 0 => max_end_addr <= flash_capacity

TableInv == PartsTypeOK /\ EnteredApart /\ EndsKnown /\ OpenFits

\* The numbers of a table.
LEMMA Numbers == TableInv => max_end_addr \in Nat /\ flash_capacity \in Nat
<1> SUFFICES ASSUME TableInv PROVE max_end_addr \in Nat /\ flash_capacity \in Nat
  OBVIOUS
<1>1. max_end_addr \in 0..(Space - 1) /\ flash_capacity \in Capacities \cup {0}
  BY DEF TableInv, PartsTypeOK
<1>2. flash_capacity \in Nat
  BY <1>1, PartsAssumption
<1> QED  BY <1>1, <1>2

\* The entries of a table.
LEMMA Entries ==
    ASSUME TableInv, NEW i \in DOMAIN nor_part
    PROVE  nor_part[i] \in Partitions /\ i \in Nat
<1>1. nor_part \in Seq(Partitions)
  BY DEF TableInv, PartsTypeOK
<1> QED  BY <1>1

\* An empty table.
LEMMA InitTableInv == PartsInit => TableInv
<1> SUFFICES ASSUME PartsInit PROVE TableInv
  OBVIOUS
<1>1. nor_part = <<>> /\ Len(nor_part) = 0 /\ DOMAIN nor_part = {}
  BY DEF PartsInit
<1>2. PartsTypeOK
  <2>1. Space \in Nat \ {0} /\ MaxParts \in Nat \ {0}
    BY PartsAssumption
  <2>2. 0 \in 0..(Space - 1) /\ 0 <= MaxParts
    BY <2>1
  <2>3. nor_part \in Seq(Partitions)
    BY <1>1
  <2> QED  BY <1>1, <2>2, <2>3 DEF PartsInit, PartsTypeOK
<1>3. EnteredApart /\ EndsKnown /\ OpenFits
  BY <1>1 DEF PartsInit, EnteredApart, EndsKnown, OpenFits
<1> QED  BY <1>2, <1>3 DEF TableInv

\* Entering a partition: it is compared with every one that is there.
LEMMA EnterStep ==
    ASSUME TableInv, NEW name \in Names, NEW start \in Addrs, NEW size \in Sizes,
           _norflash_init(name, start, size)
    PROVE  TableInv'
<1> DEFINE p == [name |-> name, start |-> start, size |-> size]
<1>0. ~halted /\ flash_capacity = 0 /\ flash_capacity' = flash_capacity
  BY DEF _norflash_init
<1>1. CASE norflash_find_part(name) \/ Full
  <2>1. halted' = TRUE /\ nor_part' = nor_part /\ max_end_addr' = max_end_addr
    BY <1>1 DEF _norflash_init
  <2> QED  BY <1>0, <2>1 DEF TableInv, PartsTypeOK, EnteredApart, EndsKnown, OpenFits
<1>2. CASE ~(norflash_find_part(name) \/ Full)
  <2>1. nor_part' = Append(nor_part, p) /\ max_end_addr' = MaxEnd(p)
        /\ halted' = ~Verified(p)
    BY <1>2 DEF _norflash_init
  <2>2. p \in Partitions /\ EndAddr(p) \in 0..(Space - 1)
    <3>1. p \in Partitions
      BY DEF Partitions
    <3> HIDE DEF p
    <3> QED  BY <3>1, EndIsAnAddress
  <2> HIDE DEF p
  <2>3. nor_part \in Seq(Partitions) /\ Len(nor_part) < MaxParts /\ Len(nor_part) \in Nat
        /\ max_end_addr \in 0..(Space - 1)
    BY <1>2, PartsAssumption DEF TableInv, PartsTypeOK, Full
  <2>4. /\ nor_part' \in Seq(Partitions)
        /\ Len(nor_part') = Len(nor_part) + 1
        /\ DOMAIN nor_part = 1..Len(nor_part) /\ DOMAIN nor_part' = 1..(Len(nor_part) + 1)
        /\ \A i \in DOMAIN nor_part : nor_part'[i] = nor_part[i]
        /\ nor_part'[Len(nor_part) + 1] = p
    BY <2>1, <2>2, <2>3
  <2>5. /\ max_end_addr' \in 0..(Space - 1)
        /\ max_end_addr <= max_end_addr' /\ EndAddr(p) <= max_end_addr'
    BY <2>1, <2>2, <2>3, PartsAssumption DEF MaxEnd
  <2>6. PartsTypeOK'
    <3>1. halted' \in BOOLEAN
      BY <2>1 DEF Verified
    <3>2. Len(nor_part') <= MaxParts
      BY <2>3, <2>4, PartsAssumption
    <3> QED  BY <1>0, <2>4, <2>5, <3>1, <3>2 DEF PartsTypeOK
  <2>7. EnteredApart'
    <3> SUFFICES ASSUME ~halted', NEW i \in DOMAIN nor_part', NEW j \in DOMAIN nor_part',
                        i < j
                 PROVE  ~Inside(nor_part'[j].start, nor_part'[i])
      BY DEF EnteredApart, Inside, EndAddr
    <3>1. i \in DOMAIN nor_part /\ nor_part'[i] = nor_part[i]
      BY <2>3, <2>4
    <3>2. CASE j \in DOMAIN nor_part
      BY <1>0, <2>4, <3>1, <3>2 DEF TableInv, EnteredApart
    <3>3. CASE j = Len(nor_part) + 1
      BY <2>1, <2>4, <3>1, <3>3 DEF Verified
    <3> QED  BY <2>3, <2>4, <3>2, <3>3
  <2>8. EndsKnown'
    <3> SUFFICES ASSUME NEW i \in DOMAIN nor_part'
                 PROVE  EndAddr(nor_part'[i]) <= max_end_addr'
      BY DEF EndsKnown, EndAddr
    <3>1. CASE i \in DOMAIN nor_part
      <4>1. nor_part[i] \in Partitions
        BY <3>1, Entries
      <4>2. EndAddr(nor_part[i]) \in Int
        BY <4>1, EndIsAnAddress
      <4>3. EndAddr(nor_part[i]) <= max_end_addr
        BY <3>1 DEF TableInv, EndsKnown
      <4>4. max_end_addr \in Int /\ max_end_addr' \in Int
        BY <2>3, <2>5
      <4>5. EndAddr(nor_part[i]) <= max_end_addr'
        BY <2>5, <4>2, <4>3, <4>4
      <4> QED  BY <2>4, <3>1, <4>5
    <3>2. CASE i = Len(nor_part) + 1
      BY <2>4, <2>5, <3>2
    <3> QED  BY <2>3, <2>4, <3>1, <3>2
  <2>9. OpenFits'
    BY <1>0 DEF OpenFits
  <2> QED  BY <2>6, <2>7, <2>8, <2>9 DEF TableInv
<1> QED  BY <1>1, <1>2

\* The first open: the highest end is compared with the chip.
LEMMA OpenStep ==
    ASSUME TableInv, NEW c \in Capacities, first_open(c)
    PROVE  TableInv'
<1>0. /\ ~halted /\ flash_capacity' = c /\ halted' = (max_end_addr > c)
      /\ nor_part' = nor_part /\ max_end_addr' = max_end_addr
  BY DEF first_open
<1>1. PartsTypeOK'
  BY <1>0 DEF TableInv, PartsTypeOK
<1>2. EnteredApart' /\ EndsKnown'
  BY <1>0 DEF TableInv, EnteredApart, EndsKnown
<1>3. OpenFits'
  <2>1. c \in Nat
    BY PartsAssumption
  <2>2. max_end_addr \in Nat
    BY Numbers
  <2>3. CASE max_end_addr > c
    BY <1>0, <2>3 DEF OpenFits
  <2>4. CASE ~(max_end_addr > c)
    BY <1>0, <2>1, <2>2, <2>4 DEF OpenFits
  <2> QED  BY <2>3, <2>4
<1> QED  BY <1>1, <1>2, <1>3 DEF TableInv

\* Every registration and open keeps the invariant.
LEMMA TableInductive == TableInv /\ [PartsNext]_partVars => TableInv'
<1> SUFFICES ASSUME TableInv, [PartsNext]_partVars PROVE TableInv'
  OBVIOUS
<1>1. CASE PartsNext
  BY <1>1, EnterStep, OpenStep DEF PartsNext
<1>2. CASE UNCHANGED partVars
  BY <1>2 DEF partVars, TableInv, PartsTypeOK, EnteredApart, EndsKnown, OpenFits
<1> QED  BY <1>1, <1>2

\* So it holds throughout.
LEMMA TableInvariant == PartsSpec => []TableInv
  BY InitTableInv, TableInductive, PTL DEF PartsSpec

-----------------------------------------------------------------------------
(* What follows.                                                            *)

\* Every reachable table is well formed.
THEOREM TableTypeCorrect == PartsSpec => []PartsTypeOK
<1>1. TableInv => PartsTypeOK
  BY DEF TableInv
<1> QED  BY <1>1, TableInvariant, PTL

\* Two partitions in the order of their addresses share no address.
LEMMA ApartInOrder ==
    ASSUME TableInv, ~halted, NEW i \in DOMAIN nor_part, NEW j \in DOMAIN nor_part,
           i < j, nor_part[i].start <= nor_part[j].start
    PROVE  ~Overlap(nor_part[i], nor_part[j]) /\ ~Overlap(nor_part[j], nor_part[i])
<1>1. nor_part[i] \in Partitions /\ nor_part[j] \in Partitions
  BY Entries
<1>2. EndAddr(nor_part[i]) \in Int /\ EndAddr(nor_part[j]) \in Int
      /\ nor_part[i].start \in Int /\ nor_part[j].start \in Int
  BY <1>1, EndIsAnAddress, PartitionType
<1>3. ~Inside(nor_part[j].start, nor_part[i])
  BY DEF TableInv, EnteredApart
<1>4. nor_part[j].start >= EndAddr(nor_part[i])
  BY <1>2, <1>3 DEF Inside
<1>5. ASSUME NEW a \in 0..(Space - 1), Inside(a, nor_part[i]), Inside(a, nor_part[j])
      PROVE  FALSE
  <2>1. a \in Int
    OBVIOUS
  <2>2. a < EndAddr(nor_part[i]) /\ nor_part[j].start <= a
    BY <1>5 DEF Inside
  <2> QED  BY <1>2, <1>4, <2>1, <2>2
<1> QED  BY <1>5 DEF Overlap

\* The ASSERT on norflash_verify_part, which only looks whether the new partition
\* starts in another one, is enough when the device table lists the partitions by
\* address: none of them overlap if the program goes on.
THEOREM ListedByAddress == PartsSpec => []AscendingDisjoint
<1>1. ASSUME TableInv PROVE AscendingDisjoint
  <2> SUFFICES ASSUME Ascending, ~halted,
                      NEW i \in DOMAIN nor_part, NEW j \in DOMAIN nor_part, i # j
               PROVE  ~Overlap(nor_part[i], nor_part[j])
    BY DEF AscendingDisjoint, PartitionsDisjoint
  <2>1. i \in Nat /\ j \in Nat
    BY <1>1, Entries
  <2>2. CASE i < j
    BY <1>1, <2>2, ApartInOrder DEF Ascending
  <2>3. CASE j < i
    BY <1>1, <2>3, ApartInOrder DEF Ascending
  <2> QED  BY <2>1, <2>2, <2>3
<1> QED  BY <1>1, TableInvariant, PTL

\* Once the first open has compared the highest end with the chip, what
\* IOCTL_GET_CAPACITY says of a partition is on the chip, unless a start and a size
\* of the device table add up to Space or more: the end is then too small and the
\* ASSERT passes.
THEOREM PartitionsFit == ASSUME NoWrap PROVE PartsSpec => []CapacityExists
<1>1. ASSUME TableInv PROVE CapacityExists
  <2> SUFFICES ASSUME ~halted, flash_capacity > 0, NEW i \in DOMAIN nor_part
               PROVE  nor_part[i].start + get_capacity(nor_part[i]) <= flash_capacity
    BY DEF CapacityExists
  <2>1. nor_part[i] \in Partitions
    BY <1>1, Entries
  <2>2. EndAddr(nor_part[i]) = nor_part[i].start + nor_part[i].size
    BY <2>1, EndIsTheSum
  <2>3. EndAddr(nor_part[i]) <= max_end_addr /\ max_end_addr <= flash_capacity
    BY <1>1 DEF TableInv, EndsKnown, OpenFits
  <2>4. /\ nor_part[i].start \in Nat /\ nor_part[i].size \in Nat
        /\ max_end_addr \in Int /\ flash_capacity \in Nat
    BY <1>1, <2>1, PartitionType, Numbers
  <2>5. CASE Len(nor_part) = 1 /\ nor_part[i].start = 0
    BY <2>4, <2>5 DEF get_capacity
  <2>6. CASE ~(Len(nor_part) = 1 /\ nor_part[i].start = 0)
    <3>1. get_capacity(nor_part[i]) = nor_part[i].size
      BY <2>4, <2>6 DEF get_capacity
    <3> QED  BY <2>2, <2>3, <2>4, <3>1
  <2> QED  BY <2>5, <2>6
<1> QED  BY <1>1, TableInvariant, PTL
=============================================================================
