------------------------------- MODULE Eeprom -------------------------------
(***************************************************************************)
(* The byte-addressed EEPROM of apps/common/eeprom/iic_eeprom.c on its I2C *)
(* bus.  eeprom_write cuts the data into chunks of a page, sends each byte *)
(* by byte and asks for the chip's address until the chip, which is deaf   *)
(* during its write cycle, answers.  The chip may refuse a byte.           *)
(*                                                                         *)
(* `continue' in do { } while (0) leaves the loop, and the count of 100    *)
(* tries is larger than a chunk has bytes: a byte that is refused is never *)
(* sent again and `goto __exit' is never taken, so the count is left out.  *)
(***************************************************************************)
EXTENDS Integers, Sequences

CONSTANTS
    Page,           \* bytes of a chunk and of a page of the chip (8)
    ChipSize,       \* bytes of the chip (256: the address is sent as a byte)
    Ranges,         \* the <<addr, len>> that are written and read
    MaxRefusals     \* bound on the bytes the chip refuses

ASSUME EepromAssumption ==
    /\ Page \in Nat \ {0}
    /\ ChipSize \in Nat \ {0} /\ ChipSize % Page = 0
    /\ Ranges \subseteq (0..ChipSize - 1) \X (1..ChipSize)
    /\ MaxRefusals \in Nat

EEPROM_WADDR == 160     \* the chip's address on the bus, to write: 0xa0
EEPROM_RADDR == 161     \* and to read: 0xa1

\* A range the driver can write: it lies in the chip and its chunks in pages.
InPages(addr, len) ==
    /\ addr + len <= ChipSize
    /\ addr % Page = 0 \/ (addr % Page) + len <= Page

VARIABLES
    stored,     \* the chip's cells
    chip,       \* what the chip does: the transfer it follows, the address it is
                \* at, the bytes of the page it has taken, and its write cycle
    call,       \* the call of the main loop: what, where, how far, and buf
    before,     \* history: stored when the call began
    refusals,   \* how many bytes were refused
    refused     \* history: whether one of them was in this call

vars == <<stored, chip, call, before, refusals, refused>>

Cells == 0..ChipSize - 1
NoByte == -1
NoPage == [a \in Cells |-> NoByte]
Deaf == [mode |-> "off", at |-> 0, page |-> NoPage, busy |-> FALSE]
NoCall == [op |-> "none", pc |-> "idle", addr |-> 0, len |-> 0, offset |-> 0, i |-> 0,
           buf |-> <<>>]

Init ==
    /\ stored = [a \in Cells |-> 0]
    /\ chip = Deaf
    /\ call = NoCall
    /\ before = stored
    /\ refusals = 0 /\ refused = FALSE

-----------------------------------------------------------------------------
(* The chip.  A start begins a transfer, and drops a page that was not       *)
(* stopped; a stop after bytes of a page begins the write cycle.             *)

Started(c) == IF c.busy THEN c ELSE [Deaf EXCEPT !.mode = "select", !.at = c.at]
Stopped(c) ==
    IF c.busy THEN c
    ELSE IF c.mode = "data" /\ c.page # NoPage THEN [c EXCEPT !.mode = "off", !.busy = TRUE]
    ELSE [Deaf EXCEPT !.at = c.at]

NextInPage(a) == a - (a % Page) + ((a + 1) % Page)
Taken(c, byte) ==
    CASE c.mode = "select" -> [c EXCEPT !.mode = IF byte = EEPROM_WADDR THEN "word" ELSE "read"]
      [] c.mode = "word"   -> [c EXCEPT !.mode = "data", !.at = byte % ChipSize]
      [] c.mode = "data"   -> [c EXCEPT !.at = NextInPage(c.at), !.page[c.at] = byte]

\* What may come of a byte that is sent to the chip c.  A chip that refuses it may
\* follow the transfer further or leave it.
iic_tx_byte(c, byte) ==
    IF c.busy \/ c.mode \notin {"select", "word", "data"}
    THEN {[chip |-> c, ack |-> FALSE, refusal |-> 0]}
    ELSE {[chip |-> Taken(c, byte), ack |-> TRUE, refusal |-> 0]}
         \cup {[chip |-> d, ack |-> FALSE, refusal |-> 1] :
                  d \in {e \in {c, [c EXCEPT !.mode = "off"]} : refusals < MaxRefusals}}

CycleEnds ==
    /\ chip.busy
    /\ stored' = [a \in Cells |-> IF chip.page[a] = NoByte THEN stored[a] ELSE chip.page[a]]
    /\ chip' = [Deaf EXCEPT !.at = chip.at]
    /\ UNCHANGED <<call, before, refusals, refused>>

-----------------------------------------------------------------------------
(* eeprom_write.                                                             *)

At(label) == call.pc = label
Goto(label) == call' = [call EXCEPT !.pc = label]

\* The bytes of the chunk at offset.
Chunk_whole == call.len - call.offset
Chunk == IF call.len - call.offset > Page THEN Page ELSE call.len - call.offset

Begin(op, range, buf) ==
    /\ At("idle")
    /\ call' = [op |-> op, pc |-> "start", addr |-> range[1], len |-> range[2],
                offset |-> 0, i |-> 0, buf |-> buf]
    /\ before' = stored
    /\ refused' = FALSE
    /\ UNCHANGED <<stored, chip, refusals>>

eeprom_write(range) ==
    /\ InPages(range[1], range[2])
    /\ Begin("write", range, [k \in 1..range[2] |-> k])

\* What a byte that was answered leaves of the rest.
Sends(answer) ==
    /\ refusals' = refusals + answer.refusal
    /\ refused' = (refused \/ answer.refusal = 1)
    /\ UNCHANGED <<stored, before>>

\* The chunk is over, sent or not; the driver waits for the chip.
ChunkOver == call' = [call EXCEPT !.pc = "poll", !.offset = @ + Chunk, !.i = 0]

eeprom_write_select ==
    /\ At("start") /\ call.op = "write"
    /\ \E answer \in iic_tx_byte(Started(chip), EEPROM_WADDR) :
        /\ Sends(answer) /\ chip' = answer.chip
        /\ IF answer.ack THEN Goto("word") ELSE ChunkOver

eeprom_write_word ==
    /\ At("word") /\ call.op = "write"
    /\ \E answer \in iic_tx_byte(chip, call.addr + call.offset) :
        /\ Sends(answer) /\ chip' = answer.chip
        /\ IF answer.ack THEN Goto("data") ELSE ChunkOver

\* A byte of the chunk but the last is passed over when it is refused; after the
\* last there is a stop unless it is refused.
eeprom_write_data ==
    /\ At("data")
    /\ \E answer \in iic_tx_byte(chip, call.buf[call.offset + call.i + 1]) :
        /\ Sends(answer)
        /\ IF call.i < Chunk - 1
           THEN chip' = answer.chip /\ call' = [call EXCEPT !.i = @ + 1]
           ELSE /\ chip' = IF answer.ack THEN Stopped(answer.chip) ELSE answer.chip
                /\ ChunkOver


\* Each poll begins with a start of its own, without which the chip is deaf.
eeprom_write_poll ==
    /\ At("poll")
    /\ \E answer \in iic_tx_byte(Started(chip), EEPROM_WADDR) :
        /\ Sends(answer)
        /\ IF ~answer.ack THEN chip' = answer.chip /\ UNCHANGED call
           ELSE IF call.offset < call.len THEN chip' = answer.chip /\ Goto("start")
           ELSE chip' = Stopped(answer.chip) /\ Goto("idle")

-----------------------------------------------------------------------------
(* eeprom_read: a write that is begun to set the address, then the read.  A  *)
(* byte that is refused ends the call without a word and without a stop.     *)

eeprom_read(range) == Begin("read", range, [k \in 1..range[2] |-> NoByte])

eeprom_read_select ==
    /\ At("start") /\ call.op = "read"
    /\ \E answer \in iic_tx_byte(Started(chip), EEPROM_WADDR) :
        /\ Sends(answer) /\ chip' = answer.chip
        /\ Goto(IF answer.ack THEN "word" ELSE "idle")

eeprom_read_word ==
    /\ At("word") /\ call.op = "read"
    /\ \E answer \in iic_tx_byte(chip, call.addr) :
        /\ Sends(answer) /\ chip' = answer.chip
        /\ Goto(IF answer.ack THEN "again" ELSE "idle")

\* The chip sends what is stored from its address on, to its end and from 0.
eeprom_read_bytes ==
    /\ At("again")
    /\ \E answer \in iic_tx_byte(Started(chip), EEPROM_RADDR) :
        /\ Sends(answer)
        /\ IF answer.ack
           THEN /\ call' = [call EXCEPT !.pc = "idle",
                              !.buf = [k \in 1..call.len |->
                                          stored[(answer.chip.at + k - 1) % ChipSize]]]
                /\ chip' = Stopped([answer.chip EXCEPT !.at = (@ + call.len) % ChipSize])
           ELSE chip' = answer.chip /\ Goto("idle")

-----------------------------------------------------------------------------
Driver ==
    \/ eeprom_write_select \/ eeprom_write_word \/ eeprom_write_data \/ eeprom_write_poll
    \/ eeprom_read_select \/ eeprom_read_word \/ eeprom_read_bytes

Next ==
    \/ \E range \in Ranges : eeprom_write(range) \/ eeprom_read(range)
    \/ Driver
    \/ CycleEnds

\* The main loop runs on, and a write cycle takes a few milliseconds.
Spec == Init /\ [][Next]_vars /\ WF_vars(Driver) /\ WF_vars(CycleEnds)

-----------------------------------------------------------------------------
(* Properties.                                                              *)

\* The test of iic_eeprom.c:248-264, for whatever was written before, every range
\* that is read, and every range that is written with chunks that stay inside their
\* pages (InPages): when no byte was refused, a write stores its buffer, byte for
\* byte, and a read returns what is stored.  No call, not even one that bytes are
\* refused to, ever changes a cell outside its range.
CallsAreTrue ==
    LET In(a) == a \in call.addr..(call.addr + call.len - 1)
        now == [a \in Cells |->
                  IF chip.busy /\ chip.page[a] # NoByte THEN chip.page[a] ELSE stored[a]]
    IN  /\ \A a \in Cells : call.op = "read" \/ ~In(a) => now[a] = before[a]
        /\ At("idle") /\ ~refused =>
              \A k \in 1..call.len :
                  call.buf[k] = stored[(call.addr + k - 1) % ChipSize]

\* Every call returns: the wait for the chip, which no count and no time limits,
\* ends when the write cycle does, for chunks that were sent and that were not.
EveryCallReturns == ~At("idle") ~> At("idle")
=============================================================================
