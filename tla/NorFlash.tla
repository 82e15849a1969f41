------------------------------ MODULE NorFlash ------------------------------
(***************************************************************************)
(* The write-back cache of cpu/cd09/norflash.c: one 4K sector of the chip  *)
(* is kept in RAM, written back when another sector is written, when a     *)
(* write reaches its end, on a 60 ms timeout, on IOCTL_FLUSH and on the    *)
(* last close.                                                             *)
(*                                                                         *)
(* Operations and the timeout's callback run in the main loop one after    *)
(* the other.  They are taken apart into the commands they send to the     *)
(* chip, because power may fail between any two of them.  A unit is a page *)
(* of the chip, and a write carries one abstract value.                    *)
(***************************************************************************)
EXTENDS Integers

CONSTANTS
    LastSector,     \* sectors are 0..LastSector
    SecLen,         \* pages of a sector
    Values,         \* what can be written
    Erased,         \* a page of 0xff
    Polls,          \* status polls before _norflash_wait_ok gives up
    Width,          \* bits of its counter; 32 in the code
    WaitTimes,      \* how many polls a command may keep the chip busy
    MaxOpen,        \* bound on open_cnt: partitions that can be open
    BlockLen,       \* sectors of an erase block
    EraseCached,    \* whether IOCTL_ERASE_* may hit the cached sector
    ReadsInto,      \* whether a read may begin below the cached sector, while
                    \* that is dirty, and run into it
    PowerFails      \* whether power may fail

ASSUME NorFlashAssumption ==
    /\ LastSector \in Nat /\ SecLen \in Nat \ {0} /\ BlockLen \in Nat \ {0}
    /\ Erased \notin Values
    /\ Polls \in Nat \ {0} /\ Width \in Nat /\ WaitTimes \subseteq Nat
    /\ MaxOpen \in Nat \ {0}

ASSUME NorFlashFlags ==
    EraseCached \in BOOLEAN /\ ReadsInto \in BOOLEAN /\ PowerFails \in BOOLEAN

Sectors == 0..LastSector
Units == 0..(SecLen - 1)
Data == Values \cup {Erased}

VARIABLES
    flash,      \* the chip: flash[s][u]
    cached,     \* flash_cache_buf is allocated
    cacheSec,   \* flash_cache_addr, as a sector
    cache,      \* flash_cache_buf
    dirty,      \* flash_cache_is_dirty
    timer,      \* flash_cache_timer: none, a running timeout, or the id of one
                \* that has fired
    open_cnt,
    pc,         \* the next command of the operation in progress; "idle" between
                \* operations, "off" without power
    after,      \* where it goes on once the cache is written back
    page,       \* the next page to program
    req,        \* what is left to write: sector, first unit, length, value
    reg,        \* what the last operation returned: 0, or 1 for an error
    out         \* the buffer of the read that has just returned, by place

driver == <<flash, cached, cacheSec, cache, dirty, timer, open_cnt, pc, after,
            page, req, reg>>
vars == <<driver, out>>

NoReq == [sec |-> 0, unit |-> 0, len |-> 0, val |-> Erased]
Blank == [u \in Units |-> Erased]
NoData == <<>>

Init ==
    /\ flash \in {[s \in Sectors |-> Blank]}
    /\ cached = FALSE
    /\ cacheSec = 0
    /\ cache = Blank
    /\ dirty = FALSE
    /\ timer = "none"
    /\ open_cnt = 0
    /\ pc = "idle"
    /\ after = "return"
    /\ page = 0
    /\ req = NoReq
    /\ reg = 0
    /\ out = NoData

-----------------------------------------------------------------------------
(* Waiting for the chip.                                                    *)

\* _norflash_wait_ok after a command that keeps the chip busy for `busy` polls.
\* The counter is decremented once more when it is used up, and wraps.
wait_ok_counter(busy) == IF busy < Polls THEN Polls - 1 - busy ELSE 2^Width - 1
_norflash_wait_ok(busy) == IF wait_ok_counter(busy) = 0 THEN 1 ELSE 0

\* A command that keeps the chip busy for longer has no effect.
Done(busy) == busy < Polls

-----------------------------------------------------------------------------
(* Writing the cache back: erase its sector, then program page after page.  *)

\* Begin a write-back that goes on at `next`.
WriteBack(next) ==
    /\ dirty' = FALSE
    /\ pc' = "erase"
    /\ after' = next

\* An operation returns r to its caller.
Return(r) ==
    /\ pc' = "idle"
    /\ reg' = r
    /\ req' = NoReq
    /\ after' = "return"
    /\ page' = 0

\* The sync timeout forgets the timer it has been called for.
TimerAfter_kept == timer
TimerAfter == IF after = "sync" THEN "none" ELSE timer

\* The write-back is over, with the result r: go on with the operation.
AfterWriteBack(r) ==
    IF after \in {"load", "advance"} /\ r = 0
    THEN /\ pc' = after
         /\ page' = 0
         /\ UNCHANGED <<reg, req, after, timer, cached>>
    ELSE /\ Return(IF after = "shut" THEN 0 ELSE r)
         /\ timer' = TimerAfter
         /\ cached' = (cached /\ after # "shut")

\* _norflash_eraser of the cached sector.  On an error the operation is given
\* up, except for close, which does not look at the result.
erase_cached ==
    /\ pc = "erase"
    /\ \E busy \in WaitTimes :
        /\ flash' = IF Done(busy) THEN [flash EXCEPT ![cacheSec] = Blank] ELSE flash
        /\ IF _norflash_wait_ok(busy) = 0 \/ after = "shut"
           THEN /\ pc' = "program"
                /\ UNCHANGED <<reg, req, after, page>>
           ELSE Return(1)
    /\ UNCHANGED <<cached, cacheSec, cache, dirty, timer, open_cnt>>

\* One page of _norflash_write_pages.  Programming can only clear bits: what is
\* not erased is spoilt unless it is programmed with what it holds.
Programmed(old, new) == IF old \in {Erased, new} THEN new ELSE Erased

MorePages_tooFew == page + 2 < SecLen
MorePages == page + 1 < SecLen

program_page ==
    /\ pc = "program"
    /\ \E busy \in WaitTimes :
        /\ flash' = IF Done(busy)
                    THEN [flash EXCEPT ![cacheSec][page] = Programmed(@, cache[page])]
                    ELSE flash
        /\ IF _norflash_wait_ok(busy) = 1
           THEN AfterWriteBack(1)
           ELSE IF MorePages
           THEN /\ page' = page + 1
                /\ UNCHANGED <<pc, reg, req, after, timer, cached>>
           ELSE AfterWriteBack(0)
    /\ UNCHANGED <<cacheSec, cache, dirty, open_cnt>>

-----------------------------------------------------------------------------
(* Reading.                                                                 *)

\* Unit u of sector s, as part of a read that begins in sector `first`: only
\* that sector can come from the cache.
ReadUnit_uncached(first, s, u) == flash[s][u]
ReadUnit(first, s, u) ==
    IF s = first /\ s = cacheSec THEN cache[u] ELSE flash[s][u]

Position(s, u) == s * SecLen + u
Range(s, u, n) == {p \in Sectors \X Units : /\ Position(s, u) <= Position(p[1], p[2])
                                            /\ Position(p[1], p[2]) < Position(s, u) + n}

\* A read of n units fills the caller's buffer.  Without ReadsInto it does not run
\* into the cached sector from below while that is dirty.
ClearOfDirty(s, u, n) ==
    \/ ~dirty \/ cacheSec <= s
    \/ Position(s, u) + n <= Position(cacheSec, 0)
_norflash_read(s, u, n) ==
    /\ pc = "idle" /\ open_cnt > 0
    /\ ReadsInto \/ ClearOfDirty(s, u, n)
    /\ out' = [p \in Range(s, u, n) |-> ReadUnit(s, p[1], p[2])]
    /\ reg' = 0
    /\ UNCHANGED <<flash, cached, cacheSec, cache, dirty, timer, open_cnt, pc, after,
                   page, req>>

-----------------------------------------------------------------------------
(* Writing.                                                                 *)

\* _norflash_write with the cache.
_norflash_write(s, u, n, v) ==
    /\ pc = "idle" /\ open_cnt > 0
    /\ req' = [sec |-> s, unit |-> u, len |-> n, val |-> v]
    /\ IF s = cacheSec
       THEN pc' = "copy" /\ UNCHANGED <<dirty, after>>
       ELSE IF dirty THEN WriteBack("load")
       ELSE pc' = "load" /\ UNCHANGED <<dirty, after>>
    /\ UNCHANGED <<flash, cached, cacheSec, cache, timer, open_cnt, page, reg>>

\* Bring the sector of the next chunk into the cache.
load_noRead ==
    /\ pc = "load"
    /\ cacheSec' = req.sec
    /\ pc' = "copy"
    /\ UNCHANGED <<flash, cache, cached, dirty, timer, open_cnt, after, page, req, reg>>

load ==
    /\ pc = "load"
    /\ cache' = flash[req.sec]
    /\ cacheSec' = req.sec
    /\ pc' = "copy"
    /\ UNCHANGED <<flash, cached, dirty, timer, open_cnt, after, page, req, reg>>

\* The units of the sector that the next chunk covers.
ChunkEnd == IF req.unit + req.len <= SecLen THEN req.unit + req.len ELSE SecLen
Chunk == req.unit .. (ChunkEnd - 1)

\* Arm the timeout, or set it back if there is one.
ArmedTimer == IF timer = "none" THEN "running" ELSE timer

\* Copy the chunk into the cache.  A chunk that ends with its sector is written
\* through, any other waits for the timeout.
copy ==
    /\ pc = "copy"
    /\ cache' = [u \in Units |-> IF u \in Chunk THEN req.val ELSE cache[u]]
    /\ IF ChunkEnd = SecLen
       THEN WriteBack("advance") /\ UNCHANGED timer
       ELSE /\ dirty' = TRUE
            /\ timer' = ArmedTimer
            /\ pc' = "advance"
            /\ UNCHANGED after
    /\ UNCHANGED <<flash, cached, cacheSec, open_cnt, page, req, reg>>

\* Go on with the following sector, which is always loaded, or return.
advance ==
    /\ pc = "advance"
    /\ IF req.len > ChunkEnd - req.unit
       THEN /\ req' = [req EXCEPT !.sec = @ + 1, !.unit = 0,
                                  !.len = @ - (ChunkEnd - req.unit)]
            /\ pc' = "load"
            /\ UNCHANGED <<reg, after, page>>
       ELSE Return(0)
    /\ UNCHANGED <<flash, cached, cacheSec, cache, dirty, timer, open_cnt>>

-----------------------------------------------------------------------------
(* The timeout, ioctl, open and close.                                      *)

\* _norflash_cache_sync_timer.
_norflash_cache_sync_timer ==
    /\ pc = "idle"
    /\ timer = "running"
    /\ IF dirty
       THEN /\ WriteBack("sync")
            /\ timer' = "fired"
       ELSE /\ timer' = "none"
            /\ UNCHANGED <<dirty, pc, after>>
    /\ UNCHANGED <<flash, cached, cacheSec, cache, open_cnt, page, req, reg>>

\* IOCTL_FLUSH.
ioctl_flush ==
    /\ pc = "idle" /\ open_cnt > 0
    /\ dirty
    /\ WriteBack("return")
    /\ UNCHANGED <<flash, cached, cacheSec, cache, timer, open_cnt, page, req, reg>>

\* What IOCTL_ERASE_PAGE, _SECTOR, _BLOCK and _CHIP erase.
Sector(s) == {s} \X Units
Block(s) == {t \in Sectors : t \div BlockLen = s \div BlockLen} \X Units
Areas == {{p} : p \in Sectors \X Units} \cup {Sector(s) : s \in Sectors}
            \cup {Block(s) : s \in Sectors} \cup {Sectors \X Units}

\* IOCTL_ERASE_* go straight to the chip.
ioctl_erase(area) ==
    /\ pc = "idle" /\ open_cnt > 0
    /\ EraseCached \/ area \cap Sector(cacheSec) = {}
    /\ \E busy \in WaitTimes :
        /\ flash' = IF Done(busy)
                    THEN [s \in Sectors |-> [u \in Units |->
                            IF <<s, u>> \in area THEN Erased ELSE flash[s][u]]]
                    ELSE flash
        /\ reg' = _norflash_wait_ok(busy)
    /\ UNCHANGED <<cached, cacheSec, cache, dirty, timer, open_cnt, pc, after, page, req>>

\* The first open identifies the chip, which may fail, and loads sector 0.
_norflash_open ==
    /\ pc = "idle" /\ open_cnt < MaxOpen
    /\ \/ /\ open_cnt = 0
          /\ reg' = 1
          /\ UNCHANGED <<open_cnt, cached, cacheSec, cache>>
       \/ /\ open_cnt = 0
          /\ cached' = TRUE
          /\ cacheSec' = 0
          /\ cache' = flash[0]
          /\ open_cnt' = 1
          /\ reg' = 0
       \/ /\ open_cnt > 0
          /\ open_cnt' = open_cnt + 1
          /\ reg' = 0
          /\ UNCHANGED <<cached, cacheSec, cache>>
    /\ UNCHANGED <<flash, dirty, timer, pc, after, page, req>>

\* The last close writes the cache back and frees it.
_norflash_close ==
    /\ pc = "idle" /\ open_cnt > 0
    /\ open_cnt' = open_cnt - 1
    /\ IF open_cnt = 1 /\ dirty
       THEN WriteBack("shut") /\ UNCHANGED cached
       ELSE /\ cached' = (open_cnt # 1)
            /\ UNCHANGED <<dirty, pc, after>>
    /\ UNCHANGED <<flash, cacheSec, cache, timer, page, req, reg>>

\* A power cut between two commands: what is in RAM is gone.
PowerCut ==
    /\ PowerFails /\ pc # "off"
    /\ cached' = FALSE /\ cacheSec' = 0 /\ cache' = Blank /\ dirty' = FALSE
    /\ timer' = "none" /\ open_cnt' = 0 /\ pc' = "off" /\ after' = "return"
    /\ page' = 0 /\ req' = NoReq /\ reg' = 0
    /\ UNCHANGED flash

PowerOn ==
    /\ pc = "off"
    /\ pc' = "idle"
    /\ UNCHANGED <<flash, cached, cacheSec, cache, dirty, timer, open_cnt, after, page,
                  req, reg>>

-----------------------------------------------------------------------------
\* Reads and writes that stay inside the chip.
UnitsFrom(s, u) == (LastSector - s + 1) * SecLen - u
Read ==
    \E s \in Sectors, u \in Units :
        \E n \in 1..UnitsFrom(s, u) : _norflash_read(s, u, n)
Write ==
    \E s \in Sectors, u \in Units, v \in Values :
        \E n \in 1..UnitsFrom(s, u) : _norflash_write(s, u, n, v)

Step == erase_cached \/ program_page \/ load \/ copy \/ advance

Changes ==
    \/ Step
    \/ Write
    \/ _norflash_cache_sync_timer
    \/ ioctl_flush
    \/ \E area \in Areas : ioctl_erase(area)
    \/ _norflash_open
    \/ _norflash_close
    \/ PowerCut
    \/ PowerOn

Next ==
    \/ Changes /\ out' = NoData
    \/ Read

Spec == Init /\ [][Next]_vars

-----------------------------------------------------------------------------
(* Properties.                                                              *)

Labels == {"off", "idle", "erase", "program", "load", "copy", "advance"}

FlagsOK == cached \in BOOLEAN /\ dirty \in BOOLEAN

StateOK ==
    /\ flash \in [Sectors -> [Units -> Data]]
    /\ cacheSec \in Sectors
    /\ cache \in [Units -> Data]
    /\ timer \in {"none", "running", "fired"}
    /\ open_cnt \in 0..MaxOpen
    /\ pc \in Labels
    /\ after \in {"return", "load", "advance", "sync", "shut"}
    /\ page \in Units
    /\ req \in [sec : Sectors, unit : Units, len : Nat, val : Data]
    /\ reg \in {0, 1}

TypeOK == FlagsOK /\ StateOK

\* The contents of the memory as its callers know it: the cached sector in RAM,
\* the others on the chip.
Contents == IF cached THEN [flash EXCEPT ![cacheSec] = cache] ELSE flash

\* What the write in progress has still to put into the cache.
WritingBack == pc \in {"erase", "program"}
Writing == pc \in {"load", "copy", "advance"}
           \/ (WritingBack /\ after \in {"load", "advance"})
Copied == pc = "advance" \/ (WritingBack /\ after = "advance")
FirstLeft == Position(req.sec, IF Copied THEN ChunkEnd ELSE req.unit)
EndOfWrite == Position(req.sec, req.unit) + req.len
Todo ==
    IF Writing
    THEN {p \in Sectors \X Units : /\ FirstLeft <= Position(p[1], p[2])
                                   /\ Position(p[1], p[2]) < EndOfWrite}
    ELSE {}

\* The driver is a memory: a read fills its buffer with what was written last,
\* on the chip or not, a write changes what it is asked to and nothing else,
\* loading, write-back, flush, timeout, open and close change nothing, and a
\* power cut costs at most the cached sector, even in the middle of a
\* write-back.  With ReadsInto it does not hold: norflash.c:364 asks only whether
\* a read begins in the cached sector, and one that runs into it from below gets
\* what the chip still holds.
Flat == INSTANCE FlatMemory WITH
    mem   <- Contents,
    todo  <- Todo,
    val   <- req.val,
    got   <- out,
    power <- (pc # "off")
ImplementsMemory == Flat!Spec

\* norflash.c:149: outside an operation, a cache that is not dirty holds what
\* the chip holds, so a power cut then loses nothing.
CleanCacheIsFlash ==
    pc = "idle" /\ cached /\ ~dirty => cache = flash[cacheSec]

\* Data that waits for the timeout always has one running.
DirtyHasTimeout == pc = "idle" /\ dirty => timer = "running"
=============================================================================
