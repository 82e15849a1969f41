---------------------------- MODULE EepromProofs ----------------------------
(***************************************************************************)
(* Proofs about Eeprom: for any pages, chip and ranges, no call changes a  *)
(* cell outside its range, and a call to which no byte was refused did     *)
(* what it was asked to.                                                   *)
(*                                                                         *)
(* The invariant says, for each place of a write, which bytes are in the   *)
(* cells and which in the page that the chip is collecting, and that the   *)
(* chip is deaf only while the driver polls it.  A page wraps at its end,  *)
(* so the proof rests on every chunk lying in one page.                    *)
(***************************************************************************)
EXTENDS Eeprom, SequenceTheorems, TLAPS

Modes == {"off", "select", "word", "data", "read"}
Chips == [mode : Modes, at : Nat, page : [Cells -> Int], busy : BOOLEAN]
Pcs == {"idle", "start", "word", "data", "poll", "again"}
Calls == [op : {"none", "write", "read"}, pc : Pcs, addr : Nat, len : 0..ChipSize,
          offset : Nat, i : Nat, buf : Seq(Int)]

TypeOK ==
    /\ stored \in [Cells -> Int]
    /\ chip \in Chips
    /\ call \in Calls
    /\ before \in [Cells -> Int]
    /\ refusals \in Nat
    /\ refused \in BOOLEAN

-----------------------------------------------------------------------------
(* The invariant.                                                           *)

In(a) == a \in call.addr..(call.addr + call.len - 1)

\* The first cell of the chunk, and the cell its next byte is for.
First == call.addr + call.offset
Target == First + call.i

\* Only while it is polled is the chip in its write cycle.
BusyInv == chip.busy => call.op = "write" /\ At("poll") /\ chip.mode = "off"

\* Cells outside the range of a write, and all of them in a read, are untouched and
\* stay so at the end of the write cycle.
OutsideInv ==
    \A a \in Cells : call.op # "write" \/ ~In(a) =>
        stored[a] = before[a] /\ (chip.busy => chip.page[a] = NoByte)

\* What a write is about and how far it is.
RangeInv ==
    /\ call.op = "none" => At("idle") /\ call.len = 0
    /\ call.op # "none" => call.addr \in Cells /\ call.len \in 1..ChipSize
    /\ call.op = "read" => call.pc \in {"start", "word", "again", "idle"}
    /\ call.op = "write" =>
        /\ InPages(call.addr, call.len)
        /\ call.buf = [k \in 1..call.len |-> k]
        /\ call.pc \in {"start", "word", "data", "poll", "idle"}
        /\ call.offset <= call.len
        /\ call.pc \in {"start", "word", "data"} =>
              call.offset < call.len /\ (First % Page) + Chunk <= Page
        /\ call.offset < call.len /\ call.offset # 0 =>
              call.addr % Page = 0 /\ call.offset % Page = 0
        /\ At("idle") => call.offset = call.len
        /\ IF At("data") THEN call.i < Chunk ELSE call.i = 0

\* What the chip has of the chunk.
ChunkInv ==
    /\ At("word") => chip.mode = "word" /\ chip.page = NoPage
    /\ At("again") => chip.mode = "data" /\ chip.at = call.addr
    /\ At("data") =>
        /\ chip.mode \in {"data", "off"}
        /\ chip.mode = "data" => chip.at \in First..Target
        /\ \A a \in Cells : chip.page[a] # NoByte => a \in First..(Target - 1)
        /\ ~refused =>
              /\ chip.mode = "data" /\ chip.at = Target
              /\ \A k \in 1..call.i : chip.page[First + k - 1] = call.offset + k

\* The bytes of the chunks that are over.
Sent(n) ==
    IF chip.busy /\ chip.page[call.addr + n - 1] # NoByte
    THEN chip.page[call.addr + n - 1] ELSE stored[call.addr + n - 1]
SentInv == call.op = "write" /\ ~refused => \A k \in 1..call.offset : Sent(k) = k

\* What a read returned.
ReadInv ==
    call.op = "read" /\ At("idle") /\ ~refused =>
        \A k \in 1..call.len : call.buf[k] = stored[(call.addr + k - 1) % ChipSize]

IInv == TypeOK /\ BusyInv /\ OutsideInv /\ RangeInv /\ ChunkInv /\ SentInv /\ ReadInv

-----------------------------------------------------------------------------
(* Pages.                                                                   *)

\* A number and its remainder.
LEMMA Remainder ==
    ASSUME NEW n \in Nat \ {0}, NEW a \in Nat
    PROVE  a % n \in 0..(n - 1) /\ \E q \in Nat : a = q * n + (a % n)
<1>1. a % n \in 0..(n - 1)
  OBVIOUS
<1>2. a \div n \in Nat /\ a = (a \div n) * n + (a % n)
  OBVIOUS
<1> QED  BY <1>1, <1>2

\* There is only one.
LEMMA OneRemainder ==
    ASSUME NEW n \in Nat \ {0}, NEW q \in Nat, NEW r \in 0..(n - 1)
    PROVE  (q * n + r) % n = r
OBVIOUS

\* Inside a page an address and its place in the page grow alike.
LEMMA InsidePage ==
    ASSUME NEW n \in Nat \ {0}, NEW a \in Nat, NEW j \in Nat, (a % n) + j < n
    PROVE  (a + j) % n = (a % n) + j
<1>1. PICK q \in Nat, r \in 0..(n - 1) : r = a % n /\ a = q * n + r
  BY Remainder
<1>2. r + j \in 0..(n - 1)
  BY <1>1
<1>3. a + j = q * n + (r + j)
  <2>1. q * n \in Nat
    OBVIOUS
  <2> QED  BY <1>1, <2>1
<1> QED  BY <1>1, <1>2, <1>3, OneRemainder

\* Sums of whole pages are whole pages.
LEMMA WholePages ==
    ASSUME NEW n \in Nat \ {0}, NEW a \in Nat, NEW b \in Nat, a % n = 0, b % n = 0
    PROVE  (a + b) % n = 0
<1>1. PICK p \in Nat : a = p * n + 0
  BY Remainder
<1>2. PICK q \in Nat : b = q * n + 0
  BY Remainder
<1> DEFINE s == p + q
<1>3. s \in Nat /\ 0 \in 0..(n - 1) /\ a + b = s * n + 0
  <2>1. (p + q) * n = p * n + q * n
    OBVIOUS
  <2> QED  BY <1>1, <1>2, <2>1
<1> HIDE DEF s
<1>4. (s * n + 0) % n = 0
  BY <1>3, OneRemainder
<1> QED  BY <1>3, <1>4

-----------------------------------------------------------------------------
(* The chip.                                                                *)

\* What the constants are.
LEMMA Sizes ==
    /\ Page \in Nat \ {0} /\ ChipSize \in Nat \ {0} /\ Cells \subseteq Nat
    /\ NoPage \in [Cells -> Int]
    /\ \A range \in Ranges : range[1] \in Cells /\ range[2] \in 1..ChipSize
BY EepromAssumption DEF Cells, NoPage, NoByte

\* A start wakes the chip unless it is deaf, and drops its page.
LEMMA StartedChip ==
    ASSUME NEW c \in Chips
    PROVE  /\ Started(c) \in Chips /\ Started(c).busy = c.busy /\ Started(c).at = c.at
           /\ c.busy => Started(c) = c
           /\ ~c.busy => Started(c).mode = "select" /\ Started(c).page = NoPage
BY Sizes DEF Chips, Started, Deaf, Modes

\* A stop begins a write cycle only when there are bytes to write.
LEMMA StoppedChip ==
    ASSUME NEW c \in Chips
    PROVE  /\ Stopped(c) \in Chips
           /\ ~c.busy /\ (c.mode # "data" \/ c.page = NoPage) => ~Stopped(c).busy
           /\ ~c.busy /\ c.mode = "data" /\ c.page # NoPage =>
                 Stopped(c).busy /\ Stopped(c).mode = "off" /\ Stopped(c).page = c.page
BY Sizes DEF Chips, Stopped, Deaf, Modes

\* The byte after the start, the address, and a byte of data.
LEMMA TakenByte ==
    ASSUME NEW c \in Chips, NEW byte \in Nat, c.mode \in {"select", "word", "data"}
    PROVE  /\ Taken(c, byte) \in Chips /\ Taken(c, byte).busy = c.busy
           /\ c.mode = "select" =>
                 /\ Taken(c, byte).mode = IF byte = EEPROM_WADDR THEN "word" ELSE "read"
                 /\ Taken(c, byte).at = c.at /\ Taken(c, byte).page = c.page
           /\ c.mode = "word" =>
                 /\ Taken(c, byte).mode = "data" /\ Taken(c, byte).at = byte % ChipSize
                 /\ Taken(c, byte).page = c.page
           /\ c.mode = "data" =>
                 /\ Taken(c, byte).mode = "data" /\ Taken(c, byte).at = NextInPage(c.at)
                 /\ Taken(c, byte).page = [c.page EXCEPT ![c.at] = byte]
<1>1. CASE c.mode = "select"
  BY <1>1 DEF Taken, Chips, Modes
<1>2. CASE c.mode = "word"
  <2>1. byte % ChipSize \in Nat
    BY Sizes
  <2> QED  BY <1>2, <2>1 DEF Taken, Chips, Modes
<1>3. CASE c.mode = "data"
  <2>1. NextInPage(c.at) \in Nat
    <3>1. c.at \in Nat
      BY DEF Chips
    <3>2. PICK q \in Nat, r \in 0..(Page - 1) : r = c.at % Page /\ c.at = q * Page + r
      BY <3>1, Sizes, Remainder
    <3>3. c.at - r \in Nat
      <4>1. q * Page \in Nat
        BY Sizes
      <4> QED  BY <3>2, <4>1
    <3>4. (c.at + 1) % Page \in Nat
      BY <3>1, Sizes
    <3> QED  BY <3>2, <3>3, <3>4 DEF NextInPage
  <2>2. [c.page EXCEPT ![c.at] = byte] \in [Cells -> Int]
    <3>1. c.page \in [Cells -> Int] /\ byte \in Int
      BY DEF Chips
    <3> QED  BY <3>1
  <2>3. Taken(c, byte) = [c EXCEPT !.at = NextInPage(c.at), !.page[c.at] = byte]
    BY <1>3 DEF Taken
  <2>4. /\ Taken(c, byte).mode = c.mode /\ Taken(c, byte).at = NextInPage(c.at)
        /\ Taken(c, byte).page = [c.page EXCEPT ![c.at] = byte] /\ Taken(c, byte).busy = c.busy
    BY <2>3 DEF Chips
  <2>5. Taken(c, byte) = [mode |-> c.mode, at |-> NextInPage(c.at),
                          page |-> [c.page EXCEPT ![c.at] = byte], busy |-> c.busy]
    BY <2>3 DEF Chips
  <2>6. Taken(c, byte) \in Chips
    BY <1>3, <2>1, <2>2, <2>5 DEF Chips, Modes
  <2> QED  BY <1>3, <2>4, <2>6
<1> QED  BY <1>1, <1>2, <1>3

\* A byte is taken, refused, or not heard.
LEMMA Answers ==
    ASSUME NEW c \in Chips, NEW byte \in Nat, NEW answer \in iic_tx_byte(c, byte)
    PROVE  /\ answer.chip \in Chips /\ answer.chip.busy = c.busy
           /\ answer.ack \in BOOLEAN /\ answer.refusal \in {0, 1}
           /\ answer.ack => /\ ~c.busy /\ c.mode \in {"select", "word", "data"}
                            /\ answer.chip = Taken(c, byte) /\ answer.refusal = 0
           /\ ~answer.ack => /\ answer.chip = c \/ answer.chip = [c EXCEPT !.mode = "off"]
                             /\ c.busy => answer.chip = c
                             /\ ~c.busy /\ c.mode \in {"select", "word", "data"} =>
                                   answer.refusal = 1
<1>1. CASE c.busy \/ c.mode \notin {"select", "word", "data"}
  <2>1. answer = [chip |-> c, ack |-> FALSE, refusal |-> 0]
    BY <1>1 DEF iic_tx_byte
  <2>2. answer.chip = c /\ answer.ack = FALSE /\ answer.refusal = 0
    BY <2>1
  <2> QED  BY <1>1, <2>2
<1>2. CASE ~(c.busy \/ c.mode \notin {"select", "word", "data"})
  <2>1. \/ answer = [chip |-> Taken(c, byte), ack |-> TRUE, refusal |-> 0]
        \/ answer = [chip |-> c, ack |-> FALSE, refusal |-> 1]
        \/ answer = [chip |-> [c EXCEPT !.mode = "off"], ack |-> FALSE, refusal |-> 1]
    BY <1>2 DEF iic_tx_byte
  <2>2. [c EXCEPT !.mode = "off"] \in Chips /\ [c EXCEPT !.mode = "off"].busy = c.busy
    BY DEF Chips, Modes
  <2>3. Taken(c, byte) \in Chips /\ Taken(c, byte).busy = c.busy
    BY <1>2, TakenByte
  <2>4. CASE answer = [chip |-> Taken(c, byte), ack |-> TRUE, refusal |-> 0]
    <3>1. answer.chip = Taken(c, byte) /\ answer.ack = TRUE /\ answer.refusal = 0
      BY <2>4
    <3> QED  BY <1>2, <2>3, <3>1
  <2>5. CASE answer = [chip |-> c, ack |-> FALSE, refusal |-> 1]
    <3>1. answer.chip = c /\ answer.ack = FALSE /\ answer.refusal = 1
      BY <2>5
    <3> QED  BY <1>2, <3>1
  <2>6. CASE answer = [chip |-> [c EXCEPT !.mode = "off"], ack |-> FALSE, refusal |-> 1]
    <3>1. answer.chip = [c EXCEPT !.mode = "off"] /\ answer.ack = FALSE /\ answer.refusal = 1
      BY <2>6
    <3> QED  BY <1>2, <2>2, <3>1
  <2> QED  BY <2>1, <2>4, <2>5, <2>6
<1> QED  BY <1>1, <1>2

\* A chip that answers is not in its write cycle, nor is it put there.
LEMMA AnswerKept ==
    ASSUME NEW c \in Chips, NEW byte \in Nat, NEW answer \in iic_tx_byte(c, byte)
    PROVE  answer.chip \in Chips /\ answer.chip.busy = c.busy /\ answer.ack \in BOOLEAN
BY Answers

\* A byte that is acknowledged has been taken.
LEMMA AnswerTaken ==
    ASSUME NEW c \in Chips, NEW byte \in Nat, NEW answer \in iic_tx_byte(c, byte), answer.ack
    PROVE  /\ ~c.busy /\ c.mode \in {"select", "word", "data"}
           /\ answer.chip = Taken(c, byte)
BY Answers

\* One that a listening chip does not acknowledge is refused.
LEMMA AnswerRefused ==
    ASSUME NEW c \in Chips, NEW byte \in Nat, NEW answer \in iic_tx_byte(c, byte), ~answer.ack
    PROVE  /\ answer.chip = c \/ answer.chip = [c EXCEPT !.mode = "off"]
           /\ c.busy => answer.chip = c
           /\ ~c.busy /\ c.mode \in {"select", "word", "data"} => answer.refusal = 1
BY Answers

-----------------------------------------------------------------------------
(* Chunks.                                                                  *)

\* The bytes of the chunk at the offset o of len bytes.
Piece(len, o) == IF len - o > Page THEN Page ELSE len - o

\* A chunk lies in one page, whether it is the first of a range in pages or one
\* of several.
LEMMA PieceInPage ==
    ASSUME NEW addr \in Nat, NEW len \in Nat, NEW o \in Nat, o < len, InPages(addr, len),
           o # 0 => addr % Page = 0 /\ o % Page = 0
    PROVE  ((addr + o) % Page) + Piece(len, o) <= Page
<1>0. Page \in Nat \ {0} /\ 0 \in 0..(Page - 1) /\ addr % Page \in 0..(Page - 1)
  <2>1. Page \in Nat \ {0}
    BY Sizes
  <2>2. addr % Page \in 0..(Page - 1)
    BY <2>1, Remainder
  <2> QED  BY <2>1, <2>2
<1>1. CASE addr % Page = 0 /\ o % Page = 0
  <2>1. (addr + o) % Page = 0
    BY <1>0, <1>1, WholePages
  <2> QED  BY <1>0, <2>1 DEF Piece
<1>2. CASE o = 0
  <2>1. addr + o = addr
    BY <1>2
  <2>2. addr % Page = 0 \/ (addr % Page) + len <= Page
    BY DEF InPages
  <2> QED  BY <1>0, <1>2, <2>1, <2>2 DEF Piece
<1> QED  BY <1>1, <1>2

\* The offset after it is the end of the range or begins another page.
LEMMA NextPiece ==
    ASSUME NEW addr \in Nat, NEW len \in Nat, NEW o \in Nat, o < len, InPages(addr, len),
           o # 0 => addr % Page = 0 /\ o % Page = 0
    PROVE  /\ Piece(len, o) \in 1..Page /\ o + Piece(len, o) <= len
           /\ o + Piece(len, o) < len => addr % Page = 0 /\ (o + Piece(len, o)) % Page = 0
<1>0. Page \in Nat \ {0} /\ 0 \in 0..(Page - 1) /\ addr % Page \in 0..(Page - 1)
  <2>1. Page \in Nat \ {0}
    BY Sizes
  <2>2. addr % Page \in 0..(Page - 1)
    BY <2>1, Remainder
  <2> QED  BY <2>1, <2>2
<1>1. Piece(len, o) \in 1..Page /\ o + Piece(len, o) <= len
  BY <1>0 DEF Piece
<1>2. ASSUME o + Piece(len, o) < len
      PROVE  addr % Page = 0 /\ (o + Piece(len, o)) % Page = 0
  <2>1. Piece(len, o) = Page /\ len > Page
    BY <1>0, <1>2 DEF Piece
  <2>2. addr % Page = 0
    BY <1>0, <2>1 DEF InPages
  <2>3. Page % Page = 0 /\ 0 % Page = 0
    BY <1>0
  <2>4. o % Page = 0
    BY <2>3
  <2>5. (o + Page) % Page = 0
    BY <1>0, <2>3, <2>4, WholePages
  <2> QED  BY <2>1, <2>2, <2>5
<1> QED  BY <1>1, <1>2

\* Where a write is while it sends a chunk.
LEMMA ChunkNow ==
    ASSUME IInv, call.op = "write", call.pc \in {"start", "word", "data"}
    PROVE  /\ call \in Calls /\ call.addr \in Nat /\ call.len \in Nat /\ call.offset \in Nat
           /\ call.addr + call.len <= ChipSize
           /\ Chunk = Piece(call.len, call.offset) /\ Chunk \in 1..Page
           /\ call.offset + Chunk <= call.len
           /\ (First % Page) + Chunk <= Page
           /\ call.offset + Chunk < call.len =>
                 call.addr % Page = 0 /\ (call.offset + Chunk) % Page = 0
           /\ First \in Cells /\ First + Chunk <= call.addr + call.len
<1>1. /\ call \in Calls /\ call.addr \in Nat /\ call.len \in Nat /\ call.offset \in Nat
      /\ Page \in Nat \ {0} /\ ChipSize \in Nat \ {0}
  BY Sizes DEF IInv, TypeOK, Calls
<1>2. /\ InPages(call.addr, call.len) /\ call.offset < call.len
      /\ (First % Page) + Chunk <= Page
      /\ call.offset # 0 => call.addr % Page = 0 /\ call.offset % Page = 0
  BY DEF IInv, RangeInv
<1>3. Chunk = Piece(call.len, call.offset)
  BY DEF Chunk, Piece
<1>4. /\ Piece(call.len, call.offset) \in 1..Page
      /\ call.offset + Piece(call.len, call.offset) <= call.len
      /\ call.offset + Piece(call.len, call.offset) < call.len =>
            call.addr % Page = 0 /\ (call.offset + Piece(call.len, call.offset)) % Page = 0
  BY <1>1, <1>2, NextPiece
<1>5. call.addr + call.len <= ChipSize
  BY <1>2 DEF InPages
<1>6. First \in Cells /\ First + Chunk <= call.addr + call.len
  BY <1>1, <1>2, <1>3, <1>4, <1>5 DEF First, Cells
<1> QED  BY <1>1, <1>2, <1>3, <1>4, <1>5, <1>6

-----------------------------------------------------------------------------
(* What an answer and a step of the program leave.                          *)

\* The bookkeeping of a byte.
LEMMA AfterAnswer ==
    ASSUME IInv, NEW c \in Chips, NEW byte \in Nat, NEW answer \in iic_tx_byte(c, byte),
           Sends(answer)
    PROVE  /\ stored' = stored /\ before' = before /\ refusals' \in Nat /\ refused' \in BOOLEAN
           /\ ~refused' => ~refused /\ answer.refusal = 0
<1>1. answer.refusal \in {0, 1}
  BY Answers
<1>2. refusals \in Nat /\ refused \in BOOLEAN
  BY DEF IInv, TypeOK
<1>3. refusals' = refusals + answer.refusal /\ refused' = (refused \/ answer.refusal = 1)
      /\ stored' = stored /\ before' = before
  BY DEF Sends
<1>4. refusals' \in Nat
  BY <1>1, <1>2, <1>3
<1>5. refused' \in BOOLEAN
  BY <1>3
<1>6. ~refused' => ~refused /\ answer.refusal = 0
  BY <1>1, <1>3
<1> QED  BY <1>3, <1>4, <1>5, <1>6

\* A step to another place.
LEMMA AfterGoto ==
    ASSUME call \in Calls, NEW label \in Pcs, Goto(label)
    PROVE  /\ call' \in Calls /\ call'.pc = label /\ call'.op = call.op
           /\ call'.addr = call.addr /\ call'.len = call.len /\ call'.offset = call.offset
           /\ call'.i = call.i /\ call'.buf = call.buf
BY DEF Goto, Calls

\* The step to the polls.
LEMMA AfterChunkOver ==
    ASSUME call \in Calls, Chunk \in Nat, ChunkOver
    PROVE  /\ call' \in Calls /\ call'.pc = "poll" /\ call'.op = call.op
           /\ call'.addr = call.addr /\ call'.len = call.len
           /\ call'.offset = call.offset + Chunk /\ call'.i = 0 /\ call'.buf = call.buf
<1>1. call' = [call EXCEPT !.pc = "poll", !.offset = @ + Chunk, !.i = 0]
  BY DEF ChunkOver
<1>2. call.offset + Chunk \in Nat
  BY DEF Calls
<1> HIDE DEF Chunk
<1>3. call' = [call EXCEPT !.pc = "poll", !.offset = call.offset + Chunk, !.i = 0]
  BY <1>1 DEF Calls
<1> DEFINE o == call.offset + Chunk
<1>4. o \in Nat /\ call' = [call EXCEPT !.pc = "poll", !.offset = o, !.i = 0]
  BY <1>2, <1>3
<1> HIDE DEF o
<1>5. /\ call' \in Calls /\ call'.pc = "poll" /\ call'.op = call.op
      /\ call'.addr = call.addr /\ call'.len = call.len
      /\ call'.offset = o /\ call'.i = 0 /\ call'.buf = call.buf
  BY <1>4 DEF Calls, Pcs
<1> QED  BY <1>5 DEF o

-----------------------------------------------------------------------------
(* The steps.                                                               *)

\* Nothing has been called.
LEMMA InitIInv == Init => IInv
<1> SUFFICES ASSUME Init PROVE IInv
  OBVIOUS
<1>1. /\ stored = [a \in Cells |-> 0] /\ before = stored /\ chip = Deaf /\ call = NoCall
      /\ refusals = 0 /\ refused = FALSE
  BY DEF Init
<1>2. /\ chip \in Chips /\ ~chip.busy
  BY <1>1, Sizes DEF Deaf, Chips, Modes
<1>3. /\ call \in Calls /\ call.op = "none" /\ call.pc = "idle" /\ call.len = 0
  <2>1. <<>> \in Seq(Int)
    OBVIOUS
  <2> QED  BY <1>1, <2>1, Sizes DEF NoCall, Calls, Pcs
<1>4. TypeOK
  <2>1. stored \in [Cells -> Int] /\ before \in [Cells -> Int]
    BY <1>1
  <2>2. refusals \in Nat /\ refused \in BOOLEAN
    BY <1>1
  <2> QED  BY <1>2, <1>3, <2>1, <2>2 DEF TypeOK
<1>5. BusyInv /\ OutsideInv /\ SentInv /\ ReadInv
  BY <1>1, <1>2, <1>3 DEF BusyInv, OutsideInv, SentInv, ReadInv
<1>6. RangeInv
  BY <1>3 DEF RangeInv, At
<1>7. ChunkInv
  BY <1>3 DEF ChunkInv, At
<1> QED  BY <1>4, <1>5, <1>6, <1>7 DEF IInv

\* A call begins.
LEMMA BeginStep ==
    ASSUME IInv, NEW range \in Ranges, NEW op \in {"write", "read"}, NEW buf \in Seq(Int),
           Begin(op, range, buf),
           op = "write" => InPages(range[1], range[2]) /\ buf = [k \in 1..range[2] |-> k]
    PROVE  IInv'
<1>1. /\ call.pc = "idle" /\ before' = stored /\ refused' = FALSE
      /\ stored' = stored /\ chip' = chip /\ refusals' = refusals
      /\ call' = [op |-> op, pc |-> "start", addr |-> range[1], len |-> range[2],
                  offset |-> 0, i |-> 0, buf |-> buf]
  BY DEF Begin, At
<1>2. /\ call'.op = op /\ call'.pc = "start" /\ call'.addr = range[1]
      /\ call'.len = range[2] /\ call'.offset = 0 /\ call'.i = 0 /\ call'.buf = buf
  BY <1>1
<1>3. /\ range[1] \in Cells /\ range[2] \in 1..ChipSize /\ range[1] \in Nat
      /\ ChipSize \in Nat \ {0} /\ Page \in Nat \ {0}
  BY Sizes
<1>4. ~chip.busy
  BY <1>1 DEF IInv, BusyInv, At
<1>5. TypeOK'
  <2>1. call' \in Calls
    BY <1>1, <1>3 DEF Calls, Pcs
  <2> QED  BY <1>1, <2>1 DEF IInv, TypeOK
<1>6. BusyInv' /\ OutsideInv' /\ ReadInv'
  BY <1>1, <1>2, <1>4 DEF BusyInv, OutsideInv, ReadInv, At
<1>7. SentInv'
  BY <1>2 DEF SentInv
<1>8. ChunkInv'
  BY <1>2 DEF ChunkInv, At
<1>9. RangeInv'
  <2>1. ASSUME op = "write"
        PROVE  /\ First' = range[1] /\ Chunk' = Piece(range[2], 0)
               /\ (First' % Page) + Chunk' <= Page
    <3>1. First' = range[1] /\ Chunk' = Piece(range[2], 0) /\ range[1] + 0 = range[1]
      BY <1>2, <1>3 DEF First, Chunk, Piece
    <3>2. ((range[1] + 0) % Page) + Piece(range[2], 0) <= Page
      BY <1>3, <2>1, PieceInPage
    <3> QED  BY <3>1, <3>2
  <2> QED  BY <1>2, <1>3, <2>1 DEF RangeInv, At
<1> QED  BY <1>5, <1>6, <1>7, <1>8, <1>9 DEF IInv

\* The two calls.
LEMMA write_Inv ==
    ASSUME IInv, NEW range \in Ranges, eeprom_write(range)
    PROVE  IInv'
<1> DEFINE buf == [k \in 1..range[2] |-> k]
<1>1. buf \in Seq(Int)
  <2>1. range[2] \in Nat
    BY Sizes
  <2> QED  BY <2>1
<1>2. InPages(range[1], range[2]) /\ Begin("write", range, buf)
  BY DEF eeprom_write
<1> QED  BY <1>1, <1>2, BeginStep

\* A read may be of any range.
LEMMA read_Inv ==
    ASSUME IInv, NEW range \in Ranges, eeprom_read(range)
    PROVE  IInv'
<1> DEFINE buf == [k \in 1..range[2] |-> NoByte]
<1>1. buf \in Seq(Int)
  <2>1. range[2] \in Nat /\ NoByte \in Int
    BY Sizes DEF NoByte
  <2> QED  BY <2>1
<1>2. Begin("read", range, buf)
  BY DEF eeprom_read
<1> QED  BY <1>1, <1>2, BeginStep

\* A chunk that ends without a write cycle: a byte was refused.
LEMMA ChunkLost ==
    ASSUME IInv, call.op = "write", call.pc \in {"start", "word", "data"}, ChunkOver,
           chip' \in Chips, ~chip'.busy, stored' = stored, before' = before,
           refusals' \in Nat, refused' = TRUE
    PROVE  IInv'
<1>1. /\ call'.pc = "poll" /\ call'.op = call.op /\ call' \in Calls
      /\ call'.addr = call.addr /\ call'.len = call.len
      /\ call'.offset = call.offset + Chunk /\ call'.i = 0 /\ call'.buf = call.buf
  BY ChunkNow, AfterChunkOver
<1>2. TypeOK'
  BY <1>1 DEF IInv, TypeOK
<1>3. BusyInv' /\ OutsideInv' /\ SentInv' /\ ReadInv'
  BY <1>1 DEF IInv, BusyInv, OutsideInv, SentInv, ReadInv, In
<1>4. ChunkInv'
  BY <1>1 DEF ChunkInv, At
<1>5. RangeInv'
  <2>1. call.addr \in Cells /\ call.len \in 1..ChipSize /\ InPages(call.addr, call.len)
        /\ call.buf = [k \in 1..call.len |-> k]
    BY DEF IInv, RangeInv
  <2> QED  BY <1>1, <2>1, ChunkNow DEF RangeInv, At
<1> QED  BY <1>2, <1>3, <1>4, <1>5 DEF IInv

\* The start of a chunk and the chip's address.
LEMMA write_select_Inv == ASSUME IInv, eeprom_write_select PROVE IInv'
<1>1. /\ call.op = "write" /\ call.pc = "start" /\ chip \in Chips /\ ~chip.busy
      /\ call \in Calls /\ EEPROM_WADDR \in Nat
  BY DEF IInv, TypeOK, BusyInv, At, eeprom_write_select, EEPROM_WADDR
<1> DEFINE c == Started(chip)
<1>2. c \in Chips /\ ~c.busy /\ c.mode = "select" /\ c.page = NoPage
  BY <1>1, StartedChip
<1>3. PICK answer \in iic_tx_byte(c, EEPROM_WADDR) :
        /\ Sends(answer) /\ chip' = answer.chip
        /\ IF answer.ack THEN Goto("word") ELSE ChunkOver
  BY DEF eeprom_write_select
<1> HIDE DEF c
<1>4. /\ stored' = stored /\ before' = before /\ refusals' \in Nat /\ refused' \in BOOLEAN
      /\ ~refused' => ~refused /\ answer.refusal = 0
  BY <1>1, <1>2, <1>3, AfterAnswer
<1>5. chip' \in Chips /\ ~chip'.busy
  BY <1>1, <1>2, <1>3, AnswerKept
<1>6. CASE answer.ack
  <2>1. answer.chip = Taken(c, EEPROM_WADDR)
    BY <1>1, <1>2, <1>6, AnswerTaken
  <2>2. chip'.mode = "word" /\ chip'.page = NoPage
    <3>1. /\ Taken(c, EEPROM_WADDR).mode = "word"
          /\ Taken(c, EEPROM_WADDR).page = NoPage
      BY <1>1, <1>2, TakenByte
    <3> QED  BY <1>3, <2>1, <3>1
  <2>3. /\ call' \in Calls /\ call'.pc = "word" /\ call'.op = call.op
        /\ call'.addr = call.addr /\ call'.len = call.len /\ call'.offset = call.offset
        /\ call'.i = call.i /\ call'.buf = call.buf
    BY <1>1, <1>3, <1>6, AfterGoto DEF Pcs
  <2>4. TypeOK'
    BY <1>4, <1>5, <2>3 DEF IInv, TypeOK
  <2>5. BusyInv' /\ OutsideInv' /\ ReadInv'
    BY <1>1, <1>4, <1>5, <2>3 DEF IInv, BusyInv, OutsideInv, ReadInv, In
  <2>6. SentInv'
    BY <1>1, <1>4, <1>5, <2>3 DEF IInv, SentInv, Sent
  <2>7. ChunkInv'
    BY <2>2, <2>3 DEF ChunkInv, At
  <2>8. RangeInv'
    BY <1>1, <2>3 DEF IInv, RangeInv, At, First, Chunk
  <2> QED  BY <2>4, <2>5, <2>6, <2>7, <2>8 DEF IInv
<1>7. CASE ~answer.ack
  <2>1. answer.refusal = 1
    BY <1>1, <1>2, <1>7, AnswerRefused
  <2>2. refused' = TRUE
    BY <1>4, <2>1
  <2> QED  BY <1>1, <1>3, <1>4, <1>5, <1>7, <2>2, ChunkLost
<1> QED  BY <1>6, <1>7

\* The address of the chunk.
LEMMA write_word_Inv == ASSUME IInv, eeprom_write_word PROVE IInv'
<1>1. /\ call.op = "write" /\ call.pc = "word" /\ chip \in Chips /\ ~chip.busy
      /\ call \in Calls /\ chip.mode = "word" /\ chip.page = NoPage
  BY DEF IInv, TypeOK, BusyInv, ChunkInv, At, eeprom_write_word
<1>2. /\ First \in Cells /\ First \in Nat /\ First = call.addr + call.offset
      /\ First % ChipSize = First /\ Chunk \in 1..Page
  <2>1. First \in 0..(ChipSize - 1) /\ First \in Nat /\ ChipSize \in Nat \ {0}
    BY <1>1, ChunkNow, Sizes DEF Cells
  <2>2. First % ChipSize = First
    BY <2>1
  <2> QED  BY <1>1, <2>1, <2>2, ChunkNow DEF First
<1>3. PICK answer \in iic_tx_byte(chip, First) :
        /\ Sends(answer) /\ chip' = answer.chip
        /\ IF answer.ack THEN Goto("data") ELSE ChunkOver
  BY <1>2 DEF eeprom_write_word
<1>4. /\ stored' = stored /\ before' = before /\ refusals' \in Nat /\ refused' \in BOOLEAN
      /\ ~refused' => ~refused /\ answer.refusal = 0
  BY <1>1, <1>2, <1>3, AfterAnswer
<1>5. chip' \in Chips /\ ~chip'.busy
  BY <1>1, <1>2, <1>3, AnswerKept
<1>6. CASE answer.ack
  <2>1. answer.chip = Taken(chip, First)
    BY <1>1, <1>2, <1>6, AnswerTaken
  <2>2. chip'.mode = "data" /\ chip'.at = First /\ chip'.page = NoPage
    <3>1. /\ Taken(chip, First).mode = "data" /\ Taken(chip, First).at = First % ChipSize
          /\ Taken(chip, First).page = NoPage
      BY <1>1, <1>2, TakenByte
    <3> QED  BY <1>2, <1>3, <2>1, <3>1
  <2>3. /\ call' \in Calls /\ call'.pc = "data" /\ call'.op = call.op
        /\ call'.addr = call.addr /\ call'.len = call.len /\ call'.offset = call.offset
        /\ call'.i = 0 /\ call'.buf = call.buf
    BY <1>1, <1>3, <1>6, AfterGoto DEF Pcs, IInv, RangeInv, At
  <2>4. TypeOK'
    BY <1>4, <1>5, <2>3 DEF IInv, TypeOK
  <2>5. BusyInv' /\ OutsideInv' /\ ReadInv'
    BY <1>1, <1>4, <1>5, <2>3 DEF IInv, BusyInv, OutsideInv, ReadInv, In
  <2>6. SentInv'
    BY <1>1, <1>4, <1>5, <2>3 DEF IInv, SentInv, Sent
  <2>7. ChunkInv'
    <3>1. First' = First /\ Target' = First
      BY <1>2, <2>3 DEF First, Target
    <3>2. \A a \in Cells : chip'.page[a] = NoByte
      BY <2>2 DEF NoPage
    <3> QED  BY <1>2, <2>2, <2>3, <3>1, <3>2 DEF ChunkInv, At
  <2>8. RangeInv'
    <3>1. 0 < Chunk
      BY <1>2, Sizes
    <3> QED  BY <1>1, <2>3, <3>1 DEF IInv, RangeInv, At, First, Chunk
  <2> QED  BY <2>4, <2>5, <2>6, <2>7, <2>8 DEF IInv
<1>7. CASE ~answer.ack
  <2>1. answer.refusal = 1
    BY <1>1, <1>2, <1>7, AnswerRefused
  <2>2. refused' = TRUE
    BY <1>4, <2>1
  <2> QED  BY <1>1, <1>3, <1>4, <1>5, <1>7, <2>2, ChunkLost
<1> QED  BY <1>6, <1>7

\* The next address in a page is the next address, up to the end of the page.
LEMMA NextByte ==
    ASSUME NEW f \in Nat, NEW j \in Nat, (f % Page) + j + 1 < Page
    PROVE  NextInPage(f + j) = f + j + 1
<1>1. Page \in Nat \ {0} /\ f % Page \in 0..(Page - 1)
  <2>1. Page \in Nat \ {0}
    BY Sizes
  <2> QED  BY <2>1, Remainder
<1>0. j + 1 \in Nat /\ (f % Page) + j < Page /\ (f % Page) + (j + 1) < Page
  BY <1>1
<1>2. (f + j) % Page = (f % Page) + j
  BY <1>0, <1>1, InsidePage
<1>3. (f + (j + 1)) % Page = (f % Page) + (j + 1)
  BY <1>0, <1>1, InsidePage
<1>4. (f + j) + 1 = f + (j + 1)
  OBVIOUS
<1>5. ((f + j) + 1) % Page = (f % Page) + (j + 1)
  BY <1>3, <1>4
<1> QED  BY <1>1, <1>2, <1>5 DEF NextInPage

\* Where a write is while it sends the bytes of a chunk.
LEMMA DataNow ==
    ASSUME IInv, At("data")
    PROVE  /\ call.op = "write" /\ call.pc = "data" /\ ~chip.busy
           /\ call.i \in Nat /\ call.i < Chunk /\ Target \in Cells
           /\ First \in Nat /\ Target = First + call.i /\ First \in Cells
           /\ call.buf[call.offset + call.i + 1] = call.offset + call.i + 1
<1>1. /\ call.op = "write" /\ call.pc = "data" /\ ~chip.busy /\ call.i < Chunk
      /\ call.i \in Nat /\ call.buf = [k \in 1..call.len |-> k]
  BY DEF IInv, TypeOK, Calls, BusyInv, RangeInv, At
<1>2. /\ First \in Cells /\ First \in Nat /\ First + Chunk <= call.addr + call.len
      /\ call.addr + call.len <= ChipSize /\ Chunk \in 1..Page /\ Page \in Nat
      /\ ChipSize \in Nat /\ call.offset + Chunk <= call.len
      /\ call.offset \in Nat /\ call.len \in Nat /\ call.addr \in Nat
  BY <1>1, ChunkNow, Sizes
<1>3. Target = First + call.i
  BY DEF Target
<1>4. Target \in Cells
  BY SMTT(30), <1>1, <1>2, <1>3 DEF Cells
<1>5. call.offset + call.i + 1 \in 1..call.len
  BY SMTT(30), <1>1, <1>2
<1> QED  BY <1>1, <1>2, <1>3, <1>4, <1>5

\* A byte that the chip takes.
LEMMA DataTaken ==
    ASSUME IInv, At("data"), chip.mode = "data"
    PROVE  LET d == Taken(chip, call.offset + call.i + 1)
           IN  /\ d \in Chips /\ ~d.busy /\ d.mode = "data" /\ d.page # NoPage
               /\ call.i + 1 < Chunk => d.at \in First..(Target + 1)
               /\ \A a \in Cells : d.page[a] # NoByte => a \in First..Target
               /\ ~refused =>
                     /\ call.i + 1 < Chunk => d.at = Target + 1
                     /\ \A k \in 1..(call.i + 1) : d.page[First + k - 1] = call.offset + k
<1> DEFINE byte == call.offset + call.i + 1
           d == Taken(chip, byte)
<1>1. /\ call.op = "write" /\ call.pc = "data" /\ ~chip.busy
      /\ call.i \in Nat /\ call.i < Chunk /\ Target \in Cells
      /\ First \in Nat /\ Target = First + call.i /\ First \in Cells
  BY DataNow
<1>2. /\ Chunk \in 1..Page /\ Page \in Nat \ {0} /\ ChipSize \in Nat \ {0}
      /\ (First % Page) + Chunk <= Page /\ call.offset \in Nat /\ Cells \subseteq Nat
  BY <1>1, ChunkNow, Sizes
<1>3. /\ chip \in Chips /\ chip.at \in First..Target /\ chip.page \in [Cells -> Int]
      /\ \A a \in Cells : chip.page[a] # NoByte => a \in First..(Target - 1)
      /\ ~refused =>
            /\ chip.at = Target
            /\ \A k \in 1..call.i : chip.page[First + k - 1] = call.offset + k
  BY DEF IInv, TypeOK, Chips, ChunkInv
<1>4. byte \in Nat \ {0} /\ byte # NoByte
  BY <1>1, <1>2 DEF NoByte
<1>5. /\ d \in Chips /\ d.busy = chip.busy /\ d.mode = "data"
      /\ d.at = NextInPage(chip.at) /\ d.page = [chip.page EXCEPT ![chip.at] = byte]
  <2> HIDE DEF byte
  <2> QED  BY <1>3, <1>4, TakenByte
<1>6. chip.at \in Cells /\ chip.at \in Nat /\ Target \in Nat
  <2>1. Target \in 0..(ChipSize - 1) /\ ChipSize \in Nat /\ First \in Nat
    BY <1>1, <1>2 DEF Cells
  <2>2. chip.at \in First..Target
    BY <1>3
  <2>3. Target \in Nat
    BY <2>1
  <2> DEFINE a == chip.at
             t == Target
  <2>4. a \in First..t /\ t \in 0..(ChipSize - 1) /\ t \in Nat
    BY <2>1, <2>2, <2>3
  <2> HIDE DEF a, t
  <2>5. a \in 0..(ChipSize - 1) /\ a \in Nat
    BY <2>1, <2>4
  <2> QED  BY <2>3, <2>5 DEF a, Cells
<1>7. d.page[chip.at] = byte /\ d.page # NoPage
  BY <1>3, <1>4, <1>5, <1>6 DEF NoPage
<1>8. ASSUME call.i + 1 < Chunk
      PROVE  d.at = chip.at + 1
  <2> DEFINE j == chip.at - First
  <2>1. j \in Nat /\ j <= call.i /\ chip.at = First + j
    BY <1>1, <1>3, <1>6
  <2> HIDE DEF j
  <2>2. First % Page \in 0..(Page - 1)
    BY <1>1, <1>2, Remainder
  <2>3. (First % Page) + j + 1 < Page
    BY <1>1, <1>2, <1>8, <2>1, <2>2
  <2>4. NextInPage(First + j) = First + j + 1
    BY <1>1, <2>1, <2>3, NextByte
  <2> QED  BY <1>5, <2>1, <2>4
<1> HIDE DEF d, byte
<1>9. call.i + 1 < Chunk => d.at \in First..(Target + 1)
  BY <1>1, <1>3, <1>6, <1>8
<1>10. ASSUME NEW a \in Cells, d.page[a] # NoByte
       PROVE  a \in First..Target
  <2>1. CASE a = chip.at
    BY <1>3, <2>1
  <2>2. CASE a # chip.at
    <3>1. d.page[a] = chip.page[a]
      BY <1>3, <1>5, <2>2
    <3>2. a \in First..(Target - 1)
      BY <1>3, <1>10, <3>1
    <3> QED  BY <1>1, <1>6, <3>2
  <2> QED  BY <2>1, <2>2
<1>11. ASSUME ~refused
       PROVE  /\ call.i + 1 < Chunk => d.at = Target + 1
              /\ \A k \in 1..(call.i + 1) : d.page[First + k - 1] = call.offset + k
  <2>1. chip.at = Target
    BY <1>3, <1>11
  <2>2. ASSUME NEW k \in 1..(call.i + 1)
        PROVE  d.page[First + k - 1] = call.offset + k
    <3>1. CASE k = call.i + 1
      <4>1. First + k - 1 = chip.at /\ byte = call.offset + k
        BY <1>1, <1>2, <2>1, <3>1 DEF byte
      <4> QED  BY <1>7, <4>1
    <3>2. CASE k # call.i + 1
      <4>1. k \in 1..call.i /\ First + k - 1 # chip.at /\ First + k - 1 \in Nat
        BY <1>1, <2>1, <2>2, <3>2
      <4>2. First + k - 1 \in Cells
        BY <1>1, <1>2, <4>1 DEF Cells
      <4>3. d.page[First + k - 1] = chip.page[First + k - 1]
        BY <1>3, <1>5, <4>1, <4>2
      <4> QED  BY <1>3, <1>11, <4>1, <4>3
    <3> QED  BY <3>1, <3>2
  <2> QED  BY <1>8, <2>1, <2>2
<1> QED  BY <1>1, <1>5, <1>7, <1>9, <1>10, <1>11 DEF d, byte

\* A byte of the chunk that is not its last: sent or passed over.
LEMMA MiddleByte ==
    ASSUME IInv, At("data"), call.i < Chunk - 1, call' = [call EXCEPT !.i = @ + 1],
           NEW answer \in iic_tx_byte(chip, call.buf[call.offset + call.i + 1]),
           Sends(answer), chip' = answer.chip
    PROVE  IInv'
<1> DEFINE byte == call.offset + call.i + 1
<1>1. /\ call.op = "write" /\ call.pc = "data" /\ ~chip.busy
      /\ call.i \in Nat /\ call.i < Chunk /\ Target \in Cells
      /\ First \in Nat /\ Target = First + call.i /\ First \in Cells
      /\ call.buf[byte] = byte
  BY DataNow
<1>2. /\ call \in Calls /\ call.offset \in Nat /\ chip \in Chips
      /\ Chunk \in 1..Page /\ Page \in Nat /\ Cells \subseteq Nat
  BY <1>1, ChunkNow, Sizes DEF IInv, TypeOK
<1>3. byte \in Nat /\ answer \in iic_tx_byte(chip, byte)
  BY <1>1, <1>2
<1>4. /\ stored' = stored /\ before' = before /\ refusals' \in Nat /\ refused' \in BOOLEAN
      /\ ~refused' => ~refused /\ answer.refusal = 0
  <2> HIDE DEF byte
  <2> QED  BY <1>2, <1>3, AfterAnswer
<1>5. chip' \in Chips /\ ~chip'.busy /\ answer.ack \in BOOLEAN
  <2> HIDE DEF byte
  <2> QED  BY <1>1, <1>2, <1>3, AnswerKept
<1>6. /\ call' \in Calls /\ call'.pc = "data" /\ call'.op = call.op
      /\ call'.addr = call.addr /\ call'.len = call.len /\ call'.offset = call.offset
      /\ call'.i = call.i + 1 /\ call'.buf = call.buf
  <2> DEFINE n == call.i + 1
  <2>1. n \in Nat /\ call' = [call EXCEPT !.i = n]
    <3>1. n \in Nat
      BY <1>1
    <3>2. call' = [call EXCEPT !.i = call.i + 1]
      BY <1>2 DEF Calls
    <3> QED  BY <3>1, <3>2
  <2> HIDE DEF n
  <2>2. /\ call' \in Calls /\ call'.pc = "data" /\ call'.op = call.op
        /\ call'.addr = call.addr /\ call'.len = call.len /\ call'.offset = call.offset
        /\ call'.i = n /\ call'.buf = call.buf
    BY <1>1, <1>2, <2>1 DEF Calls
  <2> QED  BY <2>2 DEF n
<1>7. TypeOK'
  BY <1>4, <1>5, <1>6 DEF IInv, TypeOK
<1>8. BusyInv' /\ OutsideInv' /\ ReadInv'
  BY <1>1, <1>4, <1>5, <1>6 DEF IInv, BusyInv, OutsideInv, ReadInv, In, At
<1>9. SentInv'
  BY <1>1, <1>4, <1>5, <1>6 DEF IInv, SentInv, Sent
<1>10. RangeInv'
  <2>1. call.i + 1 < Chunk /\ Chunk' = Chunk /\ First' = First
    BY <1>1, <1>2, <1>6 DEF Chunk, First
  <2>2. /\ call.addr \in Cells /\ call.len \in 1..ChipSize /\ InPages(call.addr, call.len)
        /\ call.buf = [k \in 1..call.len |-> k] /\ call.offset < call.len
        /\ call.offset <= call.len /\ (First % Page) + Chunk <= Page
        /\ call.offset # 0 => call.addr % Page = 0 /\ call.offset % Page = 0
    BY <1>1 DEF IInv, RangeInv
  <2> QED  BY <1>1, <1>6, <2>1, <2>2 DEF RangeInv, At
<1>11. ChunkInv'
  <2>1. First' = First /\ Target' = Target + 1 /\ Target \in Nat
    BY <1>1, <1>2, <1>6 DEF First, Target
  <2>2. CASE answer.ack
    <3>1. chip.mode = "data" /\ chip' = Taken(chip, byte)
      <4>1. chip.mode \in {"data", "off"}
        BY DEF IInv, ChunkInv
      <4> HIDE DEF byte
      <4> QED  BY <1>2, <1>3, <2>2, <4>1, AnswerTaken
    <3>2. /\ chip'.mode = "data"
          /\ call.i + 1 < Chunk => chip'.at \in First..(Target + 1)
          /\ \A a \in Cells : chip'.page[a] # NoByte => a \in First..Target
          /\ ~refused =>
                /\ call.i + 1 < Chunk => chip'.at = Target + 1
                /\ \A k \in 1..(call.i + 1) : chip'.page[First + k - 1] = call.offset + k
      BY <3>1, DataTaken
    <3>3. call.i + 1 < Chunk /\ (Target + 1) - 1 = Target
      BY <1>1, <1>2, <2>1
    <3> QED  BY <1>4, <1>6, <2>1, <3>2, <3>3 DEF ChunkInv, At
  <2>3. CASE ~answer.ack
    <3>1. /\ chip' = chip \/ chip' = [chip EXCEPT !.mode = "off"]
          /\ chip.mode = "data" => answer.refusal = 1
      <4> HIDE DEF byte
      <4> QED  BY <1>1, <1>2, <1>3, <2>3, AnswerRefused
    <3>2. /\ chip.mode \in {"data", "off"}
          /\ chip.mode = "data" => chip.at \in First..Target
          /\ \A a \in Cells : chip.page[a] # NoByte => a \in First..(Target - 1)
          /\ ~refused => chip.mode = "data"
      BY DEF IInv, ChunkInv
    <3>3. /\ chip'.mode \in {"data", "off"} /\ chip'.at = chip.at /\ chip'.page = chip.page
          /\ chip'.mode = "data" => chip.mode = "data"
      BY <1>2, <3>1, <3>2 DEF Chips
    <3>4. refused' = TRUE
      BY <1>4, <3>1, <3>2
    <3>5. chip'.mode = "data" => chip'.at \in First'..Target'
      BY <1>1, <2>1, <3>2, <3>3
    <3>6. ASSUME NEW a \in Cells, chip'.page[a] # NoByte
          PROVE  a \in First'..(Target' - 1)
      <4>1. a \in First..(Target - 1)
        BY <3>2, <3>3, <3>6
      <4> QED  BY <1>1, <2>1, <4>1
    <3> QED  BY <1>6, <3>3, <3>4, <3>5, <3>6 DEF ChunkInv, At
  <2> QED  BY <1>5, <2>2, <2>3
<1> QED  BY <1>7, <1>8, <1>9, <1>10, <1>11 DEF IInv

\* The last byte of the chunk: the chip begins to write what it has taken, or the
\* driver will find it awake.
LEMMA LastByte ==
    ASSUME IInv, At("data"), ~(call.i < Chunk - 1), ChunkOver,
           NEW answer \in iic_tx_byte(chip, call.buf[call.offset + call.i + 1]),
           Sends(answer), chip' = IF answer.ack THEN Stopped(answer.chip) ELSE answer.chip
    PROVE  IInv'
<1> DEFINE byte == call.offset + call.i + 1
<1>1. /\ call.op = "write" /\ call.pc = "data" /\ ~chip.busy
      /\ call.i \in Nat /\ call.i < Chunk /\ Target \in Cells
      /\ First \in Nat /\ Target = First + call.i /\ First \in Cells
      /\ call.buf[byte] = byte
  BY DataNow
<1>2. /\ call \in Calls /\ call.offset \in Nat /\ call.addr \in Nat /\ call.len \in Nat
      /\ chip \in Chips /\ Chunk \in 1..Page /\ Page \in Nat /\ Cells \subseteq Nat
      /\ First + Chunk <= call.addr + call.len /\ call.offset + Chunk <= call.len
  BY <1>1, ChunkNow, Sizes DEF IInv, TypeOK
<1>3. byte \in Nat /\ answer \in iic_tx_byte(chip, byte)
  BY <1>1, <1>2
<1>4. /\ stored' = stored /\ before' = before /\ refusals' \in Nat /\ refused' \in BOOLEAN
      /\ ~refused' => ~refused /\ answer.refusal = 0
  <2> HIDE DEF byte
  <2> QED  BY <1>2, <1>3, AfterAnswer
<1>5. answer.chip \in Chips /\ ~answer.chip.busy /\ answer.ack \in BOOLEAN
  <2> HIDE DEF byte
  <2> QED  BY <1>1, <1>2, <1>3, AnswerKept
<1>6. CASE ~answer.ack
  <2>1. chip.mode = "data" => answer.refusal = 1
    <3> HIDE DEF byte
    <3> QED  BY <1>1, <1>2, <1>3, <1>6, AnswerRefused
  <2>2. ~refused => chip.mode = "data"
    BY DEF IInv, ChunkInv
  <2>3. refused' = TRUE
    BY <1>4, <2>1, <2>2
  <2> QED  BY <1>1, <1>4, <1>5, <1>6, <2>3, ChunkLost
<1>7. CASE answer.ack
  <2>1. /\ call'.pc = "poll" /\ call'.op = call.op /\ call' \in Calls
        /\ call'.addr = call.addr /\ call'.len = call.len
        /\ call'.offset = call.offset + Chunk /\ call'.i = 0 /\ call'.buf = call.buf
    BY <1>1, <1>2, AfterChunkOver
  <2>2. chip.mode = "data" /\ answer.chip = Taken(chip, byte)
    <3>1. chip.mode \in {"data", "off"}
      BY DEF IInv, ChunkInv
    <3> HIDE DEF byte
    <3> QED  BY <1>2, <1>3, <1>7, <3>1, AnswerTaken
  <2>3. /\ answer.chip.mode = "data" /\ answer.chip.page # NoPage
        /\ \A a \in Cells : answer.chip.page[a] # NoByte => a \in First..Target
        /\ ~refused =>
              \A k \in 1..(call.i + 1) : answer.chip.page[First + k - 1] = call.offset + k
    BY <2>2, DataTaken
  <2>4. /\ chip' \in Chips /\ chip'.busy /\ chip'.mode = "off" /\ chip'.page = answer.chip.page
    BY <1>5, <1>7, <2>3, StoppedChip
  <2>5. call.i + 1 = Chunk /\ Target = First + Chunk - 1
    BY <1>1, <1>2
  <2>6. TypeOK'
    BY <1>4, <2>1, <2>4 DEF IInv, TypeOK
  <2>7. BusyInv' /\ ReadInv'
    BY <1>1, <2>1, <2>4 DEF BusyInv, ReadInv, At
  <2>8. OutsideInv'
    <3> SUFFICES ASSUME NEW a \in Cells, ~In(a)
                 PROVE  stored'[a] = before'[a] /\ chip'.page[a] = NoByte
      BY <1>1, <2>1 DEF OutsideInv, In
    <3>1. stored'[a] = before'[a]
      BY <1>1, <1>4 DEF IInv, OutsideInv
    <3>2. a \notin First..Target
      <4>1. First = call.addr + call.offset
        BY DEF First
      <4> QED  BY <1>1, <1>2, <2>5, <4>1 DEF In
    <3> QED  BY <2>3, <2>4, <3>1, <3>2
  <2>9. ChunkInv'
    BY <2>1 DEF ChunkInv, At
  <2>10. RangeInv'
    <3>1. call.addr \in Cells /\ call.len \in 1..ChipSize /\ InPages(call.addr, call.len)
          /\ call.buf = [k \in 1..call.len |-> k]
      BY <1>1 DEF IInv, RangeInv
    <3> QED  BY <1>1, <2>1, <3>1, ChunkNow DEF RangeInv, At
  <2>11. SentInv'
    <3> SUFFICES ASSUME ~refused', NEW k \in 1..(call.offset + Chunk)
                 PROVE  Sent(k)' = k
      BY <2>1 DEF SentInv
    <3> DEFINE a == call.addr + k - 1
    <3>1. ~refused /\ k \in Nat \ {0}
      BY <1>2, <1>4
    <3>2. a \in Nat /\ a \in Cells
      <4>1. a \in Nat /\ a < ChipSize /\ ChipSize \in Nat
        <5>1. call.addr + call.len <= ChipSize
          BY <1>1, ChunkNow
        <5> QED  BY <1>2, <3>1, <5>1, Sizes
      <4> QED  BY <4>1 DEF Cells
    <3>3. Sent(k)' = IF chip'.busy /\ chip'.page[a] # NoByte THEN chip'.page[a] ELSE stored'[a]
      BY <2>1 DEF Sent
    <3>4. First = call.addr + call.offset
      BY DEF First
    <3>5. CASE k \in 1..call.offset
      <4>1. a \notin First..Target
        BY <1>1, <1>2, <3>4, <3>5
      <4>2. chip'.page[a] = NoByte
        BY <2>3, <2>4, <3>2, <4>1
      <4>3. Sent(k) = k
        BY <1>1, <3>1, <3>5 DEF IInv, SentInv
      <4> QED  BY <1>1, <1>4, <3>3, <4>2, <4>3 DEF Sent
    <3>6. CASE k \notin 1..call.offset
      <4> DEFINE m == k - call.offset
      <4>1. m \in 1..(call.i + 1) /\ a = First + m - 1 /\ call.offset + m = k
        BY <1>2, <2>5, <3>1, <3>4, <3>6
      <4>2. answer.chip.page[First + m - 1] = call.offset + m
        <5> HIDE DEF m
        <5> QED  BY <2>3, <3>1, <4>1
      <4>3. chip'.page[a] = k
        BY <2>4, <4>1, <4>2
      <4> QED  BY <2>4, <3>1, <3>3, <4>3 DEF NoByte
    <3> QED  BY <3>5, <3>6
  <2> QED  BY <2>6, <2>7, <2>8, <2>9, <2>10, <2>11 DEF IInv
<1> QED  BY <1>5, <1>6, <1>7

\* The bytes of a chunk.
LEMMA write_data_Inv == ASSUME IInv, eeprom_write_data PROVE IInv'
<1>1. At("data")
  BY DEF eeprom_write_data
<1>2. PICK answer \in iic_tx_byte(chip, call.buf[call.offset + call.i + 1]) :
        /\ Sends(answer)
        /\ IF call.i < Chunk - 1
           THEN chip' = answer.chip /\ call' = [call EXCEPT !.i = @ + 1]
           ELSE /\ chip' = IF answer.ack THEN Stopped(answer.chip) ELSE answer.chip
                /\ ChunkOver
  BY DEF eeprom_write_data
<1>3. CASE call.i < Chunk - 1
  BY <1>1, <1>2, <1>3, MiddleByte
<1>4. CASE ~(call.i < Chunk - 1)
  BY <1>1, <1>2, <1>4, LastByte
<1> QED  BY <1>3, <1>4

\* The polls: the chip is deaf until it has written, and the next chunk begins when
\* it answers.
LEMMA write_poll_Inv == ASSUME IInv, eeprom_write_poll PROVE IInv'
<1>1. /\ call.op = "write" /\ call.pc = "poll" /\ call \in Calls /\ chip \in Chips
      /\ call.i = 0 /\ call.offset \in Nat /\ call.len \in Nat /\ call.addr \in Nat
      /\ call.offset <= call.len /\ EEPROM_WADDR \in Nat
  BY DEF IInv, TypeOK, Calls, RangeInv, At, eeprom_write_poll, EEPROM_WADDR
<1> DEFINE c == Started(chip)
<1>2. /\ c \in Chips /\ c.busy = chip.busy
      /\ chip.busy => c = chip
      /\ ~chip.busy => c.mode = "select" /\ c.page = NoPage
  BY <1>1, StartedChip
<1>3. PICK answer \in iic_tx_byte(c, EEPROM_WADDR) :
        /\ Sends(answer)
        /\ IF ~answer.ack THEN chip' = answer.chip /\ UNCHANGED call
           ELSE IF call.offset < call.len THEN chip' = answer.chip /\ Goto("start")
           ELSE chip' = Stopped(answer.chip) /\ Goto("idle")
  BY DEF eeprom_write_poll
<1> HIDE DEF c
<1>4. /\ stored' = stored /\ before' = before /\ refusals' \in Nat /\ refused' \in BOOLEAN
      /\ ~refused' => ~refused /\ answer.refusal = 0
  BY <1>1, <1>2, <1>3, AfterAnswer
<1>5. answer.chip \in Chips /\ answer.chip.busy = chip.busy /\ answer.ack \in BOOLEAN
  BY <1>1, <1>2, <1>3, AnswerKept
<1>6. CASE ~answer.ack
  <2>1. chip' = answer.chip /\ call' = call /\ chip' \in Chips /\ chip'.busy = chip.busy
    BY <1>3, <1>5, <1>6
  <2>2. chip.busy => chip' = chip
    BY <1>1, <1>2, <1>6, <2>1, AnswerRefused
  <2>3. TypeOK' /\ BusyInv'
    BY <1>1, <1>4, <2>1, <2>2 DEF IInv, TypeOK, BusyInv, At
  <2>4. OutsideInv' /\ ReadInv'
    BY <1>1, <1>4, <2>1, <2>2 DEF IInv, OutsideInv, ReadInv, In, At
  <2>5. SentInv'
    BY <1>1, <1>4, <2>1, <2>2 DEF IInv, SentInv, Sent
  <2>6. ChunkInv' /\ RangeInv'
    BY <1>1, <2>1 DEF IInv, ChunkInv, RangeInv, At, First, Chunk
  <2> QED  BY <2>3, <2>4, <2>5, <2>6 DEF IInv
<1>7. CASE answer.ack
  <2>1. ~chip.busy /\ c.mode = "select" /\ answer.chip = Taken(c, EEPROM_WADDR)
    <3>1. ~c.busy /\ answer.chip = Taken(c, EEPROM_WADDR)
      BY <1>1, <1>2, <1>7, AnswerTaken
    <3> QED  BY <1>2, <3>1
  <2>2. answer.chip.mode = "word" /\ answer.chip.page = NoPage /\ ~answer.chip.busy
    <3>1. /\ Taken(c, EEPROM_WADDR).mode = "word"
          /\ Taken(c, EEPROM_WADDR).page = c.page
      BY <1>1, <1>2, <2>1, TakenByte
    <3> QED  BY <1>2, <1>5, <2>1, <3>1
  <2>3. chip' \in Chips /\ ~chip'.busy
    BY <1>3, <1>5, <1>7, <2>1, <2>2, StoppedChip
  <2>4. PICK label \in {"start", "idle"} :
          /\ Goto(label)
          /\ label = "start" => call.offset < call.len
          /\ label = "idle" => call.offset = call.len
    BY <1>1, <1>3, <1>7
  <2>5. /\ call' \in Calls /\ call'.pc = label /\ call'.op = call.op
        /\ call'.addr = call.addr /\ call'.len = call.len /\ call'.offset = call.offset
        /\ call'.i = call.i /\ call'.buf = call.buf
    BY <1>1, <2>4, AfterGoto DEF Pcs
  <2>6. TypeOK' /\ BusyInv'
    BY <1>4, <2>3, <2>5 DEF IInv, TypeOK, BusyInv
  <2>7. OutsideInv' /\ ReadInv'
    BY <1>1, <1>4, <2>3, <2>5 DEF IInv, OutsideInv, ReadInv, In
  <2>8. SentInv'
    BY <1>1, <1>4, <2>1, <2>3, <2>5 DEF IInv, SentInv, Sent
  <2>9. ChunkInv'
    BY <2>4, <2>5 DEF ChunkInv, At
  <2>10. RangeInv'
    <3>1. /\ call.addr \in Cells /\ call.len \in 1..ChipSize /\ InPages(call.addr, call.len)
          /\ call.buf = [k \in 1..call.len |-> k]
          /\ call.offset < call.len /\ call.offset # 0 =>
                call.addr % Page = 0 /\ call.offset % Page = 0
      BY <1>1 DEF IInv, RangeInv
    <3>2. ASSUME call.offset < call.len
          PROVE  (First' % Page) + Chunk' <= Page
      <4>1. ((call.addr + call.offset) % Page) + Piece(call.len, call.offset) <= Page
        BY <1>1, <3>1, <3>2, PieceInPage
      <4>2. First' = call.addr + call.offset /\ Chunk' = Piece(call.len, call.offset)
        BY <2>5 DEF First, Chunk, Piece
      <4> QED  BY <4>1, <4>2
    <3> QED  BY <1>1, <2>4, <2>5, <3>1, <3>2 DEF RangeInv, At
  <2> QED  BY <2>6, <2>7, <2>8, <2>9, <2>10 DEF IInv
<1> QED  BY <1>5, <1>6, <1>7

-----------------------------------------------------------------------------
(* The steps of a read.                                                     *)

\* Where a read is.
LEMMA ReadNow ==
    ASSUME IInv, call.op = "read"
    PROVE  call \in Calls /\ chip \in Chips /\ ~chip.busy
BY DEF IInv, TypeOK, BusyInv

\* A read goes on, or ends because a byte was refused.
LEMMA ReadStep ==
    ASSUME IInv, call.op = "read", NEW label \in {"word", "again", "idle"}, Goto(label),
           chip' \in Chips, ~chip'.busy, stored' = stored, before' = before,
           refusals' \in Nat, refused' \in BOOLEAN,
           label = "word" => chip'.mode = "word" /\ chip'.page = NoPage,
           label = "again" => chip'.mode = "data" /\ chip'.at = call.addr,
           label = "idle" => refused'
    PROVE  IInv'
<1>1. /\ call' \in Calls /\ call'.pc = label /\ call'.op = call.op
      /\ call'.addr = call.addr /\ call'.len = call.len /\ call'.offset = call.offset
      /\ call'.i = call.i /\ call'.buf = call.buf
  BY ReadNow, AfterGoto DEF Pcs
<1>2. TypeOK' /\ BusyInv'
  BY <1>1 DEF IInv, TypeOK, BusyInv
<1>3. OutsideInv' /\ SentInv' /\ ReadInv'
  BY <1>1 DEF IInv, OutsideInv, SentInv, ReadInv, In, At
<1>4. ChunkInv'
  BY <1>1 DEF ChunkInv, At
<1>5. RangeInv'
  BY <1>1 DEF IInv, RangeInv, At
<1> QED  BY <1>2, <1>3, <1>4, <1>5 DEF IInv

\* The start of a read.
LEMMA read_select_Inv == ASSUME IInv, eeprom_read_select PROVE IInv'
<1>1. /\ call.op = "read" /\ call.pc = "start" /\ chip \in Chips /\ ~chip.busy
      /\ EEPROM_WADDR \in Nat
  BY ReadNow DEF At, eeprom_read_select, EEPROM_WADDR
<1> DEFINE c == Started(chip)
<1>2. c \in Chips /\ ~c.busy /\ c.mode = "select" /\ c.page = NoPage
  BY <1>1, StartedChip
<1>3. PICK answer \in iic_tx_byte(c, EEPROM_WADDR) :
        /\ Sends(answer) /\ chip' = answer.chip
        /\ Goto(IF answer.ack THEN "word" ELSE "idle")
  BY DEF eeprom_read_select
<1> HIDE DEF c
<1>4. /\ stored' = stored /\ before' = before /\ refusals' \in Nat /\ refused' \in BOOLEAN
      /\ ~refused' => ~refused /\ answer.refusal = 0
  BY <1>1, <1>2, <1>3, AfterAnswer
<1>5. chip' \in Chips /\ ~chip'.busy
  BY <1>1, <1>2, <1>3, AnswerKept
<1>6. CASE answer.ack
  <2>1. answer.chip = Taken(c, EEPROM_WADDR)
    BY <1>1, <1>2, <1>6, AnswerTaken
  <2>2. chip'.mode = "word" /\ chip'.page = NoPage
    <3>1. /\ Taken(c, EEPROM_WADDR).mode = "word"
          /\ Taken(c, EEPROM_WADDR).page = NoPage
      BY <1>1, <1>2, TakenByte
    <3> QED  BY <1>3, <2>1, <3>1
  <2>3. Goto("word")
    BY <1>3, <1>6
  <2> QED  BY <1>1, <1>4, <1>5, <2>2, <2>3, ReadStep
<1>7. CASE ~answer.ack
  <2>1. answer.refusal = 1
    BY <1>1, <1>2, <1>7, AnswerRefused
  <2>2. refused' = TRUE /\ Goto("idle")
    BY <1>3, <1>4, <1>7, <2>1
  <2> QED  BY <1>1, <1>4, <1>5, <2>2, ReadStep
<1> QED  BY <1>6, <1>7

\* The address that is read.
LEMMA read_word_Inv == ASSUME IInv, eeprom_read_word PROVE IInv'
<1>1. /\ call.op = "read" /\ call.pc = "word" /\ chip \in Chips /\ ~chip.busy
      /\ chip.mode = "word" /\ chip.page = NoPage
  BY ReadNow DEF At, eeprom_read_word, IInv, ChunkInv
<1>2. call.addr \in Nat /\ call.addr % ChipSize = call.addr
  <2>1. call.addr \in 0..(ChipSize - 1) /\ ChipSize \in Nat \ {0}
    BY <1>1, Sizes DEF IInv, RangeInv, Cells
  <2> QED  BY <2>1
<1>3. PICK answer \in iic_tx_byte(chip, call.addr) :
        /\ Sends(answer) /\ chip' = answer.chip
        /\ Goto(IF answer.ack THEN "again" ELSE "idle")
  BY DEF eeprom_read_word
<1>4. /\ stored' = stored /\ before' = before /\ refusals' \in Nat /\ refused' \in BOOLEAN
      /\ ~refused' => ~refused /\ answer.refusal = 0
  BY <1>1, <1>2, <1>3, AfterAnswer
<1>5. chip' \in Chips /\ ~chip'.busy
  BY <1>1, <1>2, <1>3, AnswerKept
<1>6. CASE answer.ack
  <2>1. answer.chip = Taken(chip, call.addr)
    BY <1>1, <1>2, <1>6, AnswerTaken
  <2>2. chip'.mode = "data" /\ chip'.at = call.addr
    <3>1. /\ Taken(chip, call.addr).mode = "data"
          /\ Taken(chip, call.addr).at = call.addr % ChipSize
      BY <1>1, <1>2, TakenByte
    <3> QED  BY <1>2, <1>3, <2>1, <3>1
  <2>3. Goto("again")
    BY <1>3, <1>6
  <2> QED  BY <1>1, <1>4, <1>5, <2>2, <2>3, ReadStep
<1>7. CASE ~answer.ack
  <2>1. answer.refusal = 1
    BY <1>1, <1>2, <1>7, AnswerRefused
  <2>2. refused' = TRUE /\ Goto("idle")
    BY <1>3, <1>4, <1>7, <2>1
  <2> QED  BY <1>1, <1>4, <1>5, <2>2, ReadStep
<1> QED  BY <1>6, <1>7

\* The bytes that are read, from the address that was sent.
LEMMA read_bytes_Inv == ASSUME IInv, eeprom_read_bytes PROVE IInv'
<1>1. call.pc = "again" /\ call.op = "read"
  BY DEF IInv, TypeOK, Calls, RangeInv, At, eeprom_read_bytes
<1>2. /\ call \in Calls /\ chip \in Chips /\ ~chip.busy /\ chip.at = call.addr
      /\ call.addr \in Nat /\ call.len \in 1..ChipSize /\ ChipSize \in Nat \ {0}
      /\ EEPROM_RADDR \in Nat
  BY <1>1, ReadNow, Sizes DEF IInv, ChunkInv, RangeInv, At, Calls, EEPROM_RADDR
<1> DEFINE c == Started(chip)
<1>3. c \in Chips /\ ~c.busy /\ c.mode = "select" /\ c.at = call.addr
  BY <1>2, StartedChip
<1>4. PICK answer \in iic_tx_byte(c, EEPROM_RADDR) :
        /\ Sends(answer)
        /\ IF answer.ack
           THEN /\ call' = [call EXCEPT !.pc = "idle",
                              !.buf = [k \in 1..call.len |->
                                          stored[(answer.chip.at + k - 1) % ChipSize]]]
                /\ chip' = Stopped([answer.chip EXCEPT !.at = (@ + call.len) % ChipSize])
           ELSE chip' = answer.chip /\ Goto("idle")
  BY DEF eeprom_read_bytes
<1> HIDE DEF c
<1>5. /\ stored' = stored /\ before' = before /\ refusals' \in Nat /\ refused' \in BOOLEAN
      /\ ~refused' => ~refused /\ answer.refusal = 0
  BY <1>2, <1>3, <1>4, AfterAnswer
<1>6. answer.chip \in Chips /\ ~answer.chip.busy
  BY <1>2, <1>3, <1>4, AnswerKept
<1>7. CASE answer.ack
  <2>1. answer.chip = Taken(c, EEPROM_RADDR)
    BY <1>2, <1>3, <1>7, AnswerTaken
  <2>2. answer.chip.mode = "read" /\ answer.chip.at = call.addr
    <3>1. EEPROM_RADDR # EEPROM_WADDR
      BY DEF EEPROM_RADDR, EEPROM_WADDR
    <3>2. /\ Taken(c, EEPROM_RADDR).mode = "read"
          /\ Taken(c, EEPROM_RADDR).at = c.at
      BY <1>2, <1>3, <3>1, TakenByte
    <3> QED  BY <1>3, <2>1, <3>2
  <2> DEFINE end == (call.addr + call.len) % ChipSize
             d == [answer.chip EXCEPT !.at = end]
             bytes == [k \in 1..call.len |-> stored[(call.addr + k - 1) % ChipSize]]
  <2>3. end \in Nat
    BY <1>2
  <2>4. chip' = Stopped(d)
    BY <1>4, <1>6, <1>7, <2>2 DEF Chips
  <2>5. call' = [call EXCEPT !.pc = "idle", !.buf = bytes]
    BY <1>4, <1>7, <2>2
  <2>6. bytes \in Seq(Int)
    <3>1. ASSUME NEW k \in 1..call.len
          PROVE  stored[(call.addr + k - 1) % ChipSize] \in Int
      <4>1. call.addr + k - 1 \in Nat
        BY <1>2
      <4>2. (call.addr + k - 1) % ChipSize \in Cells
        BY <1>2, <4>1 DEF Cells
      <4> QED  BY <4>2 DEF IInv, TypeOK
    <3>2. call.len \in Nat
      BY <1>2
    <3> QED  BY <3>1, <3>2
  <2> HIDE DEF end, bytes
  <2>7. d \in Chips /\ ~d.busy /\ d.mode = "read"
    BY <1>6, <2>2, <2>3 DEF Chips
  <2> HIDE DEF d
  <2>8. chip' \in Chips /\ ~chip'.busy
    BY <2>4, <2>7, StoppedChip
  <2>9. /\ call' \in Calls /\ call'.pc = "idle" /\ call'.op = call.op
        /\ call'.addr = call.addr /\ call'.len = call.len /\ call'.offset = call.offset
        /\ call'.i = call.i /\ call'.buf = bytes
    BY <1>2, <2>5, <2>6 DEF Calls, Pcs
  <2>10. TypeOK' /\ BusyInv'
    BY <1>5, <2>8, <2>9 DEF IInv, TypeOK, BusyInv
  <2>11. OutsideInv' /\ SentInv'
    BY <1>1, <1>5, <2>8, <2>9 DEF IInv, OutsideInv, SentInv, In
  <2>12. ReadInv'
    BY <1>5, <2>9 DEF ReadInv, bytes
  <2>13. ChunkInv'
    BY <2>9 DEF ChunkInv, At
  <2>14. RangeInv'
    BY <1>1, <2>9 DEF IInv, RangeInv, At
  <2> QED  BY <2>10, <2>11, <2>12, <2>13, <2>14 DEF IInv
<1>8. CASE ~answer.ack
  <2>1. answer.refusal = 1
    <3>1. EEPROM_RADDR \in Nat /\ c \in Chips /\ ~answer.ack
      BY <1>2, <1>3, <1>8
    <3>2. ~c.busy /\ c.mode \in {"select", "word", "data"}
      BY <1>3
    <3> QED  BY <3>1, <3>2, AnswerRefused
  <2>2. refused' = TRUE /\ Goto("idle") /\ chip' = answer.chip
    BY <1>4, <1>5, <1>8, <2>1
  <2> QED  BY <1>1, <1>5, <1>6, <2>2, ReadStep
<1> QED  BY <1>7, <1>8

-----------------------------------------------------------------------------
(* The write cycle, and all together.                                       *)

\* The page gets into the cells.
LEMMA CycleEnds_Inv == ASSUME IInv, CycleEnds PROVE IInv'
<1>1. /\ chip.busy /\ chip \in Chips /\ stored \in [Cells -> Int]
      /\ stored' = [a \in Cells |-> IF chip.page[a] = NoByte THEN stored[a] ELSE chip.page[a]]
      /\ chip' = [Deaf EXCEPT !.at = chip.at]
      /\ call' = call /\ before' = before /\ refusals' = refusals /\ refused' = refused
  BY DEF CycleEnds, IInv, TypeOK
<1>2. call.op = "write" /\ call.pc = "poll" /\ call \in Calls
  BY <1>1 DEF IInv, TypeOK, BusyInv, At
<1>3. chip' \in Chips /\ ~chip'.busy
  BY <1>1, Sizes DEF Chips, Deaf, Modes
<1>4. stored' \in [Cells -> Int]
  BY <1>1 DEF Chips
<1>5. TypeOK' /\ BusyInv' /\ ReadInv'
  BY <1>1, <1>2, <1>3, <1>4 DEF IInv, TypeOK, BusyInv, ReadInv, At
<1>6. OutsideInv'
  BY <1>1, <1>2, <1>3 DEF IInv, OutsideInv, In
<1>7. SentInv'
  <2> SUFFICES ASSUME ~refused, NEW k \in 1..call.offset
               PROVE  stored'[call.addr + k - 1] = k
    BY <1>1, <1>3 DEF SentInv, Sent
  <2>1. Sent(k) = k
    BY <1>2 DEF IInv, SentInv
  <2>2. call.addr + k - 1 \in Cells
    <3>1. /\ call.offset <= call.len /\ call.addr + call.len <= ChipSize
          /\ call.addr \in Nat /\ call.len \in Nat /\ call.offset \in Nat /\ ChipSize \in Nat
      BY <1>2, Sizes DEF IInv, RangeInv, InPages, Calls
    <3> QED  BY <3>1 DEF Cells
  <2> QED  BY <1>1, <2>1, <2>2 DEF Sent
<1>8. ChunkInv' /\ RangeInv'
  BY <1>1, <1>2 DEF IInv, ChunkInv, RangeInv, At, First, Chunk
<1> QED  BY <1>5, <1>6, <1>7, <1>8 DEF IInv

\* Nothing happens.
LEMMA Stutter_Inv == ASSUME IInv, UNCHANGED vars PROVE IInv'
<1>1. /\ stored' = stored /\ chip' = chip /\ call' = call /\ before' = before
      /\ refusals' = refusals /\ refused' = refused
  BY DEF vars
<1>2. TypeOK' /\ BusyInv' /\ OutsideInv' /\ ReadInv'
  BY <1>1 DEF IInv, TypeOK, BusyInv, OutsideInv, ReadInv, In, At
<1>3. RangeInv' /\ ChunkInv' /\ SentInv'
  BY <1>1 DEF IInv, RangeInv, ChunkInv, SentInv, Sent, At, First, Target, Chunk
<1> QED  BY <1>2, <1>3 DEF IInv

\* Every step keeps the invariant.
LEMMA StepInv == IInv /\ [Next]_vars => IInv'
<1> SUFFICES ASSUME IInv, [Next]_vars PROVE IInv'
  OBVIOUS
<1>1. CASE \E range \in Ranges : eeprom_write(range) \/ eeprom_read(range)
  BY <1>1, write_Inv, read_Inv
<1>2. CASE Driver
  BY <1>2, write_select_Inv, write_word_Inv, write_data_Inv, write_poll_Inv,
     read_select_Inv, read_word_Inv, read_bytes_Inv DEF Driver
<1>3. CASE CycleEnds
  BY <1>3, CycleEnds_Inv
<1>4. CASE UNCHANGED vars
  BY <1>4, Stutter_Inv
<1> QED  BY <1>1, <1>2, <1>3, <1>4 DEF Next

\* So it holds throughout.
LEMMA Inductive == Spec => []IInv
BY InitIInv, StepInv, PTL DEF Spec

\* Every reachable state is well formed: cells, page and buffer hold bytes, and no call
\* is longer than the chip.
THEOREM TypeCorrect == Spec => []TypeOK
<1>1. IInv => TypeOK
  BY DEF IInv
<1> QED  BY <1>1, Inductive, PTL

\* For a chip and pages of any size and any ranges: a call to which no byte was refused
\* stores its buffer, or returns what is stored, byte for byte; and no call, whatever
\* bytes are refused and wherever, changes a cell outside its range, not even by the
\* page that the chip has still to write.
THEOREM CallsDoWhatTheySay == Spec => []CallsAreTrue
<1>1. ASSUME IInv PROVE CallsAreTrue
  <2>1. ASSUME NEW a \in Cells,
               call.op = "read" \/ a \notin call.addr..(call.addr + call.len - 1)
        PROVE  (IF chip.busy /\ chip.page[a] # NoByte THEN chip.page[a] ELSE stored[a])
                  = before[a]
    BY <1>1, <2>1 DEF IInv, OutsideInv, In
  <2>2. ASSUME At("idle"), ~refused, NEW k \in 1..call.len
        PROVE  call.buf[k] = stored[(call.addr + k - 1) % ChipSize]
    <3>1. call.op \in {"none", "write", "read"} /\ ~chip.busy
      BY <1>1, <2>2 DEF IInv, TypeOK, Calls, BusyInv, At
    <3>2. CASE call.op = "none"
      BY <1>1, <2>2, <3>2 DEF IInv, RangeInv
    <3>3. CASE call.op = "read"
      BY <1>1, <2>2, <3>3 DEF IInv, ReadInv
    <3>4. CASE call.op = "write"
      <4>1. /\ call.offset = call.len /\ call.buf = [j \in 1..call.len |-> j]
            /\ call.addr + call.len <= ChipSize
            /\ call.addr \in Nat /\ call.len \in Nat /\ ChipSize \in Nat \ {0}
        BY <1>1, <2>2, <3>4, Sizes DEF IInv, TypeOK, Calls, RangeInv, InPages
      <4> DEFINE a == call.addr + k - 1
      <4>2. Sent(k) = k
        BY <1>1, <2>2, <3>4, <4>1 DEF IInv, SentInv
      <4>3. stored[a] = k
        BY <3>1, <4>2 DEF Sent
      <4>4. a \in 0..(ChipSize - 1)
        BY <4>1
      <4> HIDE DEF a
      <4>5. a % ChipSize = a
        BY <4>1, <4>4
      <4>6. stored[(call.addr + k - 1) % ChipSize] = k
        BY <4>3, <4>5 DEF a
      <4> QED  BY <4>1, <4>6
    <3> QED  BY <3>1, <3>2, <3>3, <3>4
  <2> QED  BY <2>1, <2>2 DEF CallsAreTrue
<1> QED  BY <1>1, Inductive, PTL
=============================================================================
