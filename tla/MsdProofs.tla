----------------------------- MODULE MsdProofs -----------------------------
(***************************************************************************)
(* Proofs about Msd for every number of slots, disks, block sizes and      *)
(* buffer sizes, and every set of commands that announce the data of their *)
(* reads and writes: the safety invariants of the run msd, and that the    *)
(* device implements BulkOnlyDisk.                                         *)
(*                                                                         *)
(* The inductive invariant has one part for each thing that a command      *)
(* keeps: its phase, the status and the reason of a failure, the position  *)
(* and the residue, the transfer in the background and, for a read and for *)
(* a write, where its blocks are.                                          *)
(***************************************************************************)
EXTENDS Msd, TLAPS

Reading == pc \in {"next", "send"}
Moving == pc \in {"read", "next", "send", "write", "store"}
WritePcs == {"write", "store", "flush"}
Phases == {"idle", "command", "csw", "read", "next", "send"} \cup WritePcs
Lun == cbw.lun
Disk == dev_handle[Lun]

Transfer == [kind : {"none", "read", "write"}, buf : 0..1,
             disk : Disks \cup {NoDisk}, lba : Nat, num : Nat]
Errors == {0, 1, 2, MEDIUM_ERROR, 5, 15}
Keys == {"NO_SENSE", "ILLEGAL_REQUEST", "MEDIUM_ERROR", "NOT_READY", "ABORTED_COMMAND"}

TypeOK ==
    /\ active \in BOOLEAN
    /\ dev_name \in [Units -> Disks \cup {NoDisk}]
    /\ dev_handle \in [Units -> Disks \cup {NoDisk}]
    /\ named \in [Units -> Disks \cup {NoDisk}]
    /\ bError \in Errors /\ bSenseKey \in Keys
    /\ csw \in [residue : 0..(U32 - 1), status : 0..1]
    /\ pc \in Phases
    /\ cbw \in Commands
    /\ lba \in Nat /\ left \in Nat /\ num \in Nat
    /\ lastLba \in Nat /\ lastNum \in Nat
    /\ bufIdx \in 0..1 /\ stalled \in BOOLEAN
    /\ buf \in [0..1 -> Seq(Values)]
    /\ online \subseteq Disks /\ lost \subseteq Units
    /\ media \in [Disks -> [0..(Capacity - 1) -> Values]]
    /\ xfer \in Transfer /\ (xfer.kind = "none" => xfer = NoXfer)
    /\ host \in {"free", "waiting", "gone"}
    /\ answer \in {"none", "ready", "passed", "failed", "lost"}
    /\ received \in Seq(Values) /\ bad \subseteq Nat

\* Which command is at which place of the program.
PhaseInv ==
    /\ (pc = "idle") <=> (host = "free")
    /\ (answer = "none") <=> (host # "free")
    /\ ~active => pc = "idle" /\ answer = "ready"
    /\ pc \in {"read", "next", "send"} => cbw.op = "READ_10"
    /\ pc \in WritePcs => cbw.op = "WRITE_10"
    /\ pc = "command" => cbw.op \notin MediaOps

\* The error that names why the command failed; the key that it becomes.
Why ==
    CASE cbw.op \in CheckOps -> bError = 15
      [] cbw.op \in {"ALLOW_MEDIUM_REMOVAL", "REQUEST_SENSE"} -> bError = 2
      [] cbw.op = "WRITE_10" -> bError = MEDIUM_ERROR
      [] cbw.op = "READ_10" /\ cbw.num = 0 -> bError = 2
      [] cbw.op = "READ_10" /\ cbw.num > 0 -> bError \in {MEDIUM_ERROR, 5}
      [] cbw.op = "UNKNOWN" /\ cbw.in -> bError = 0
      [] OTHER -> cbw.op = "UNKNOWN"
\* A media command starts with a good status, for a failure is asked about and
\* a lost command followed by a test.
StatusInv ==
    /\ active /\ answer \in {"passed", "ready"} => csw.status = 0
    /\ Moving => csw.status = 0
    /\ stalled => pc \in {"flush", "csw"} /\ csw.status = 1
    /\ pc \in {"flush", "csw"} /\ csw.status = 1 => Why

\* READ_FORMAT_CAPACITIES subtracts what it sends without a look at what the
\* host announced: with less than that the residue wraps around.
Short(c) == c.op = "READ_FORMAT_CAPACITIES" /\ c.len < 12

\* Where the command is, and what of the announced data is not yet moved.
PositionInv ==
    /\ pc = "read" \/ Reading \/ pc \in WritePcs =>
         /\ left <= cbw.num
         /\ lba + left = cbw.lba + cbw.num
    /\ pc = "read" => left = cbw.num
    /\ pc = "next" => num = Chunk(left)
    /\ pc = "send" => num = Chunk(left) /\ lastNum > 0 /\ lastLba + lastNum = lba
                      /\ lastLba >= cbw.lba
    /\ pc = "store" => left > 0 /\ num = Chunk(left)
    /\ pc = "flush" /\ csw.status = 0 => left = 0

\* The residue of a command that moves no blocks.
Rest(c) == IF c.op \in Counted THEN c.len - Moved(c) ELSE 0
RestInv == csw.status = 0 /\ cbw.op \notin MediaOps => Short(cbw) \/ csw.residue = Rest(cbw)

Ended == pc = "csw" \/ answer \in {"passed", "failed"}
Unmoved(n) == csw.residue = cbw.len - n * BlockSize
ResidueInv ==
    /\ pc \in {"command", "read"} => csw.residue = cbw.len
    /\ Reading \/ pc = "write" => Unmoved(cbw.num - left)
    /\ pc = "store" => Unmoved(cbw.num - left + num)
    /\ pc = "flush" => IF csw.status = 0 THEN Unmoved(cbw.num) ELSE csw.residue = 0
    /\ Ended => /\ csw.residue <= cbw.len \/ Short(cbw)
                /\ csw.status = 0 /\ cbw.op \in MediaOps => Unmoved(cbw.num)
                /\ RestInv

\* A slot has the name that was registered in it last or none; so has its handle.
SlotInv == \A u \in Units : /\ dev_handle[u] \in {NoDisk, named[u]}
                            /\ dev_name[u] \in {NoDisk, named[u]}

\* A handle whose medium has gone never works again.
LostInv == \A u \in Units : dev_handle[u] # NoDisk /\ dev_handle[u] \notin online => u \in lost

\* The transfer in the background is with a disk that is there, through the
\* handle of the unit, and about the chunk that the command is at.
XferInv ==
    xfer # NoXfer =>
        /\ Reading \/ pc \in WritePcs
        /\ xfer.disk = Disk /\ Disk \in Disks /\ Alive(Lun)
        /\ xfer.num > 0
        /\ Reading =>
             /\ xfer.kind = "read" /\ xfer.buf = bufIdx
             /\ xfer.lba = lba /\ xfer.num = num
        /\ pc \in WritePcs =>
             /\ xfer.kind = "write"
             /\ cbw.lba <= xfer.lba /\ xfer.lba + xfer.num = lba
             /\ buf[xfer.buf] = [i \in 1..xfer.num |-> cbw.val]
        /\ pc \in {"write", "store"} => xfer.buf = 1 - bufIdx

\* The blocks of a read, in the buffers and with the host, but for those that the
\* driver failed to move.
Copied(data, from, n) ==
    /\ Len(data) = n
    /\ \A i \in 1..n : from + i - 1 \in bad \/ data[i] = media[Disk][from + i - 1]
ReadInv ==
    /\ Reading => Disk # NoDisk
    /\ Reading /\ num > 0 /\ Alive(Lun) /\ xfer = NoXfer => 
            Copied(buf[bufIdx], lba, num)
    /\ pc = "send" => Copied(buf[1 - bufIdx], lastLba, lastNum)
    /\ pc = "next" => Len(received) = lba - cbw.lba
    /\ pc = "send" => Len(received) = lastLba - cbw.lba
    /\ pc = "csw" /\ csw.status = 0 /\ cbw.op = "READ_10" => Len(received) = cbw.num
    /\ ~Reading /\ pc # "csw" => received = <<>>
    /\ Reading /\ num = 0 => xfer = NoXfer

\* The blocks of a write, on the disk or with its driver.
Stored(b) == b \in bad \/ media[Disk][b] = cbw.val
WriteInv ==
    /\ pc = "store" => buf[bufIdx] = [i \in 1..num |-> cbw.val]
    /\ pc \in WritePcs /\ lba > cbw.lba /\ csw.status = 0 => Disk # NoDisk
    /\ pc \in WritePcs /\ csw.status = 0 /\ Alive(Lun) =>
         \A b \in cbw.lba..(lba - 1) :
            Stored(b) \/ (xfer # NoXfer /\ b \in xfer.lba..(xfer.lba + xfer.num - 1))
    /\ pc = "csw" /\ cbw.op = "WRITE_10" /\ csw.status = 0 /\ cbw.num > 0 =>
         /\ Disk # NoDisk
         /\ \A b \in cbw.lba..(cbw.lba + cbw.num - 1) : Stored(b)

IInv == /\ TypeOK /\ PhaseInv /\ StatusInv /\ PositionInv /\ ResidueInv
        /\ LostInv /\ XferInv /\ ReadInv /\ WriteInv /\ SlotInv /\ SenseNamesTheFailure
-----------------------------------------------------------------------------
(* Helpers.                                                                 *)

\* The constants are numbers.
LEMMA Sizes ==
    /\ MaxDev \in Nat /\ MaxDev > 0 /\ Capacity \in Nat
    /\ BlockNum \in Nat /\ BlockNum > 0 /\ BlockSize \in Nat /\ BlockSize > 0
    /\ U32 \in Nat /\ U32 > 0
BY MsdAssumption

\* A command has the fields of one.
LEMMA CommandType ==
    ASSUME NEW c \in Commands
    PROVE  /\ c.op \in MediaOps \cup CheckOps \cup OtherOps /\ c.lun \in Units
           /\ c.lba \in Nat /\ c.num \in Nat /\ c.lba + c.num <= Capacity
           /\ c.len \in 0..(U32 - 1) /\ c.in \in BOOLEAN /\ c.arg \in BOOLEAN
           /\ c.val \in Values
           /\ c.op \in MediaOps => c.len >= c.num * BlockSize
<1>1. c \in Command /\ Capacity \in Nat
  BY MsdAssumption
<1>2. c.lba \in 0..Capacity /\ c.num \in 0..Capacity
  BY <1>1 DEF Command
<1>3. c.lba + c.num <= Capacity /\ (c.op \in MediaOps => c.len >= c.num * BlockSize)
  BY MsdAssumption
<1> QED
  BY <1>1, <1>2, <1>3 DEF Command

\* The bytes of blocks add up.
LEMMA Bytes ==
    ASSUME NEW m \in Nat, NEW n \in Nat
    PROVE  /\ m * BlockSize \in Nat
           /\ (m + n) * BlockSize = m * BlockSize + n * BlockSize
           /\ n > 0 => n * BlockSize > 0
           /\ 0 * BlockSize = 0
<1>1. BlockSize \in Nat /\ BlockSize > 0
  BY Sizes
<1> QED
  BY <1>1

\* More blocks are more bytes.
LEMMA MoreBytes ==
    ASSUME NEW m \in Nat, NEW n \in Nat, m <= n
    PROVE  m * BlockSize <= n * BlockSize /\ (n - m) * BlockSize = n * BlockSize - m * BlockSize
<1>1. n - m \in Nat /\ n = m + (n - m)
  OBVIOUS
<1>2. n * BlockSize = m * BlockSize + (n - m) * BlockSize
  BY <1>1, Bytes
<1>3. n * BlockSize \in Nat /\ m * BlockSize \in Nat /\ (n - m) * BlockSize \in Nat
  BY <1>1, Bytes
<1> QED
  BY <1>2, <1>3

\* A chunk is what fits a buffer of what is left.
LEMMA ChunkFits ==
    ASSUME NEW n \in Nat
    PROVE  Chunk(n) \in Nat /\ Chunk(n) <= n /\ (Chunk(n) = 0 <=> n = 0)
BY Sizes DEF Chunk, AtMost

\* Empty buffers are buffers.
LEMMA EmptyBuffers == NoData \in [0..1 -> Seq(Values)] /\ <<>> \in Seq(Values)
BY DEF NoData

\* What is appended follows what was there.
LEMMA Appended ==
    ASSUME NEW s \in Seq(Values), NEW t \in Seq(Values)
    PROVE  /\ s \o t \in Seq(Values) /\ Len(s \o t) = Len(s) + Len(t)
           /\ Len(s) \in Nat /\ Len(t) \in Nat
           /\ \A i \in 1..Len(s \o t) : (s \o t)[i] = IF i <= Len(s) THEN s[i] ELSE t[i - Len(s)]
OBVIOUS

\* check_disk_status leaves the handle of a disk that is there, opens one that
\* can be opened and closes one that has gone; other slots keep theirs.
LEMMA CheckedSlot ==
    ASSUME TypeOK, SlotInv, LostInv, NEW u \in Units, check_disk_status(u),
           UNCHANGED <<dev_name, named, online>>
    PROVE  /\ dev_handle' \in [Units -> Disks \cup {NoDisk}]
           /\ lost' \subseteq Units
           /\ SlotInv' /\ LostInv'
           /\ Present(u) => dev_handle'[u] \in Disks /\ Alive(u)'
           /\ ~Present(u) => dev_handle'[u] = NoDisk
           /\ Present(u) /\ dev_handle[u] # NoDisk =>
                 dev_handle' = dev_handle /\ lost' = lost /\ Alive(u)
<1>1. dev_handle \in [Units -> Disks \cup {NoDisk}] /\ dev_name \in [Units -> Disks \cup {NoDisk}]
      /\ online \subseteq Disks /\ lost \subseteq Units
  BY DEF TypeOK
<1>2. NoDisk \notin Disks
  BY MsdAssumption
<1>3. CASE dev_handle[u] = NoDisk /\ Opens(u)
  BY <1>1, <1>2, <1>3 DEF check_disk_status, Opens, Alive, Present, SlotInv, LostInv
<1>4. CASE ~(dev_handle[u] = NoDisk /\ Opens(u))
  BY <1>1, <1>2, <1>4 DEF check_disk_status, Opens, Alive, Present, SlotInv, LostInv
<1> QED
  BY <1>3, <1>4
-----------------------------------------------------------------------------
(* The inductive invariant.                                                 *)

\* The host gives a command up.
LEMMA GiveUpInv == IInv /\ GiveUp => IInv'
<1> SUFFICES ASSUME IInv, GiveUp PROVE IInv'
  OBVIOUS
<1> USE DEF IInv, GiveUp, slots, opened, sense, reply, local, chunk
<1>1. TypeOK'
  BY DEF TypeOK
<1>2. PhaseInv'
  BY DEF PhaseInv
<1>3. StatusInv'
  BY DEF StatusInv, Moving, Why
<1>4. PositionInv' /\ ResidueInv'
  BY DEF PositionInv, Reading, WritePcs, Chunk, ResidueInv, Ended, RestInv, MediaOps, Unmoved,
         Short, Rest
<1>5. XferInv'
  BY DEF XferInv, Reading, WritePcs, Disk, Lun, Alive
<1>6. ReadInv' /\ WriteInv'
  BY DEF ReadInv, WriteInv, Reading, WritePcs, Disk, Lun, Alive, Copied, Stored
<1>7. SlotInv' /\ SenseNamesTheFailure' /\ LostInv'
  BY DEF SlotInv, SenseNamesTheFailure, LostInv
<1> QED
  BY <1>1, <1>2, <1>3, <1>4, <1>5, <1>6, <1>7

\* A medium comes back: no slot that lost it finds it again.
LEMMA InsertInv == ASSUME IInv, NEW d \in Disks, Insert(d) PROVE IInv'
<1> USE DEF IInv, Insert, slots, opened, sense, reply, local, chunk, hostVars
<1>1. TypeOK' /\ PhaseInv' /\ StatusInv'
  BY DEF TypeOK, PhaseInv, StatusInv, Moving, Why
<1>2. PositionInv' /\ ResidueInv'
  BY DEF PositionInv, Reading, WritePcs, Chunk, ResidueInv, Ended, RestInv, MediaOps, Unmoved,
         Short, Rest
<1>3. Lun \in Units /\ d # NoDisk
  BY CommandType, MsdAssumption DEF TypeOK, Lun
<1>4. Alive(Lun)' <=> Alive(Lun)
  BY <1>3 DEF Disk, Lun, Alive, LostInv
<1>5. XferInv' /\ ReadInv' /\ WriteInv'
  BY <1>4 DEF XferInv, ReadInv, WriteInv, Reading, WritePcs, Disk, Lun, Copied, Stored
<1>6. SlotInv' /\ SenseNamesTheFailure' /\ LostInv'
  BY DEF SlotInv, SenseNamesTheFailure, LostInv
<1> QED
  BY <1>1, <1>2, <1>5, <1>6

\* A medium is pulled: with it goes the transfer, and the slot that was opened
\* on it has lost it.
LEMMA PullInv == ASSUME IInv, NEW d \in Disks, Pull(d) PROVE IInv'
<1> USE DEF IInv, Pull, slots, sense, reply, local, chunk, hostVars
<1>1. TypeOK'
  BY DEF TypeOK, Transfer, NoXfer
<1>2. PhaseInv' /\ StatusInv' /\ SlotInv' /\ SenseNamesTheFailure' /\ LostInv'
  BY DEF PhaseInv, StatusInv, Moving, Why, SlotInv, SenseNamesTheFailure, LostInv
<1>3. PositionInv' /\ ResidueInv'
  BY DEF PositionInv, Reading, WritePcs, Chunk, ResidueInv, Ended, RestInv, MediaOps, Unmoved,
         Short, Rest
<1>4. Lun \in Units
  BY CommandType DEF TypeOK, Lun
<1>5. Alive(Lun)' => Alive(Lun) /\ Disk # d
  BY <1>4 DEF Alive, Disk, Lun
<1>6. Disk = d => ~Alive(Lun)'
  BY <1>5
<1>7. xfer' # NoXfer => xfer' = xfer /\ xfer # NoXfer /\ xfer.disk # d
  OBVIOUS
<1>8. Disk # d /\ Alive(Lun) => Alive(Lun)'
  BY <1>4 DEF Alive, Disk, Lun, TypeOK
<1>9. XferInv'
  BY <1>7, <1>8 DEF XferInv, Reading, WritePcs, Disk, Lun
<1>10. Alive(Lun)' /\ xfer' = NoXfer => xfer = NoXfer
  BY <1>5 DEF XferInv
<1>11. ReadInv'
  BY <1>5, <1>7, <1>10 DEF ReadInv, Reading, Disk, Lun, Copied
<1>12. Alive(Lun)' => xfer' = xfer
  BY <1>5 DEF XferInv, Disk
<1>13. WriteInv'
  BY <1>5, <1>12 DEF WriteInv, WritePcs, Disk, Lun, Stored
<1> QED
  BY <1>1, <1>2, <1>3, <1>9, <1>11, <1>13

\* The transfer is over: what was read is in its buffer, what was written is on
\* the disk, and nothing else has changed.
LEMMA LandInv == ASSUME IInv, Land PROVE IInv'
<1> USE DEF IInv
<1>0. /\ UNCHANGED <<active, dev_name, named, dev_handle, lost, csw, bError, bSenseKey, pc, cbw, lba,
                     left, num, lastLba, lastNum, bufIdx, stalled, online, host, answer, received>>
      /\ xfer # NoXfer /\ xfer' = NoXfer
  BY DEF Land, slots, opened, sense, reply, local, chunk
<1>1. PhaseInv' /\ StatusInv' /\ SlotInv' /\ SenseNamesTheFailure' /\ LostInv'
  BY <1>0 DEF PhaseInv, StatusInv, Moving, Why, SlotInv, SenseNamesTheFailure, LostInv
<1>2. PositionInv' /\ ResidueInv'
  BY <1>0 DEF PositionInv, Reading, WritePcs, Chunk, ResidueInv, Ended, RestInv, MediaOps, Unmoved,
         Short, Rest
<1>3. XferInv'
  BY <1>0 DEF XferInv
<1>4. /\ Lun \in Units /\ Disk \in Disks /\ Alive(Lun) /\ xfer.disk = Disk
      /\ xfer.lba \in Nat /\ xfer.num \in Nat /\ xfer.buf \in 0..1
      /\ lba \in Nat /\ num \in Nat /\ left \in Nat /\ cbw \in Commands
      /\ Capacity \in Nat /\ lba + left = cbw.lba + cbw.num
  BY <1>0, CommandType, Sizes DEF TypeOK, Transfer, XferInv, Lun, PositionInv
<1>5. media[Disk] \in [0..(Capacity - 1) -> Values] /\ media \in [Disks -> [0..(Capacity - 1) -> Values]]
  BY <1>4 DEF TypeOK
<1>6. CASE Reading
  <2>1. xfer.kind = "read" /\ xfer.buf = bufIdx /\ xfer.lba = lba /\ xfer.num = num
        /\ num > 0 /\ pc \notin WritePcs
    BY <1>0, <1>6 DEF XferInv, Reading, WritePcs
  <2> PICK moved \in 0..xfer.num, old \in Stale :
            /\ UNCHANGED media
            /\ bad' = bad \cup (lba + moved)..(lba + num - 1)
            /\ buf' = [buf EXCEPT ![bufIdx] = [i \in 1..num |->
                         IF i <= moved THEN media[Disk][lba + i - 1] ELSE old]]
    BY <2>1, <1>4 DEF Land
  <2> DEFINE data == [i \in 1..num |-> IF i <= moved THEN media[Disk][lba + i - 1] ELSE old]
  <2>2. UNCHANGED media /\ buf' = [buf EXCEPT ![bufIdx] = data]
        /\ bad' = bad \cup (lba + moved)..(lba + num - 1) /\ moved \in Nat /\ old \in Values
    BY <1>4, MsdAssumption
  <2>3. num <= left
    BY <1>4, <1>6, ChunkFits DEF PositionInv, Reading
  <2>4. data \in Seq(Values)
    <3>1. lba + num <= Capacity
      BY <1>4, <2>3, CommandType
    <3>2. \A i \in 1..num : media[Disk][lba + i - 1] \in Values
      BY <1>4, <1>5, <3>1
    <3>3. \A i \in 1..num : (IF i <= moved THEN media[Disk][lba + i - 1] ELSE old) \in Values
      BY <2>2, <3>2
    <3>4. data \in [1..num -> Values]
      BY <3>3
    <3>5. num \in Nat
      BY <1>4
    <3> HIDE DEF data
    <3> QED
      BY <3>4, <3>5
  <2>a. Len(data) = num /\ \A i \in 1..num : lba + i - 1 \in bad' \/ data[i] = media[Disk][lba + i - 1]
    <3>1. \A i \in 1..num : i <= moved \/ lba + i - 1 \in (lba + moved)..(lba + num - 1)
      BY <1>4, <2>2
    <3>2. Len(data) = num /\ \A i \in 1..num : i <= moved => data[i] = media[Disk][lba + i - 1]
      BY <1>4
    <3> QED
      BY <2>2, <3>1, <3>2
  <2> HIDE DEF data
  <2>5. TypeOK'
    <3>1. \A b \in (lba + moved)..(lba + num - 1) : b \in Nat
      BY <2>2, <1>4
    <3>2. bad' \subseteq Nat
      BY <2>2, <3>1 DEF TypeOK
    <3>3. NoXfer \in Transfer
      BY DEF Transfer, NoXfer
    <3>4. buf' \in [0..1 -> Seq(Values)]
      BY <2>2, <2>4 DEF TypeOK
    <3> QED
      BY <1>0, <2>2, <3>2, <3>3, <3>4 DEF TypeOK
  <2>6. buf'[bufIdx] = data /\ buf'[1 - bufIdx] = buf[1 - bufIdx]
    BY <2>2 DEF TypeOK
  <2>7. ReadInv'
    <3>1. pc = "send" => Copied(buf[1 - bufIdx], lastLba, lastNum)'
      BY <1>0, <2>2, <2>6 DEF ReadInv, Copied, Disk, Lun
    <3>2. Copied(buf[bufIdx], lba, num)'
      BY <1>0, <2>a, <2>2, <2>6 DEF Copied, Disk, Lun
    <3> QED
      BY <1>0, <1>6, <2>1, <3>1, <3>2 DEF ReadInv, Reading, Disk, Lun
  <2>8. WriteInv'
    BY <1>0, <1>6, <2>1, <2>2 DEF WriteInv, WritePcs, Reading
  <2> QED
    BY <1>1, <1>2, <1>3, <2>5, <2>7, <2>8
<1>7. CASE ~Reading
  <2>1. pc \in WritePcs /\ xfer.kind = "write" /\ cbw.lba <= xfer.lba /\ xfer.lba + xfer.num = lba
        /\ buf[xfer.buf] = [i \in 1..xfer.num |-> cbw.val] /\ cbw.op = "WRITE_10"
    BY <1>0, <1>7 DEF XferInv, PhaseInv
  <2>2. UNCHANGED buf
    BY <2>1 DEF Land
  <2> PICK moved \in 0..xfer.num :
            /\ bad' = bad \cup (xfer.lba + moved)..(xfer.lba + xfer.num - 1)
            /\ media' = [media EXCEPT ![xfer.disk] = [b \in DOMAIN @ |->
                 IF b \in xfer.lba..(xfer.lba + moved - 1)
                 THEN buf[xfer.buf][b - xfer.lba + 1] ELSE @[b]]]
    BY <2>1 DEF Land
  <2>3. media' = [media EXCEPT ![Disk] = [b \in 0..(Capacity - 1) |->
            IF b \in xfer.lba..(xfer.lba + moved - 1) THEN cbw.val ELSE media[Disk][b]]]
    <3>1. media' = [media EXCEPT ![Disk] = [b \in DOMAIN media[Disk] |->
            IF b \in xfer.lba..(xfer.lba + moved - 1)
            THEN buf[xfer.buf][b - xfer.lba + 1] ELSE media[Disk][b]]]
      BY <1>4, <1>5
    <3>2. \A b \in 0..(Capacity - 1) : b \in xfer.lba..(xfer.lba + moved - 1) =>
            buf[xfer.buf][b - xfer.lba + 1] = cbw.val
      <4>1. \A i \in 1..xfer.num : buf[xfer.buf][i] = cbw.val
        BY <2>1
      <4>2. \A b \in xfer.lba..(xfer.lba + moved - 1) : b - xfer.lba + 1 \in 1..xfer.num
        BY <1>4
      <4> QED
        BY <4>1, <4>2
    <3>3. DOMAIN media[Disk] = 0..(Capacity - 1)
      BY <1>5
    <3> QED
      BY <3>1, <3>2, <3>3
  <2>4. cbw.val \in Values
    BY <1>4, CommandType
  <2>5. TypeOK'
    <3>1. media' \in [Disks -> [0..(Capacity - 1) -> Values]]
      BY <2>3, <2>4, <1>4, <1>5
    <3>2. \A b \in (xfer.lba + moved)..(xfer.lba + xfer.num - 1) : b \in Nat
      BY <1>4
    <3>3. bad' \subseteq Nat
      BY <3>2 DEF TypeOK
    <3>4. NoXfer \in Transfer
      BY DEF Transfer, NoXfer
    <3> QED
      BY <1>0, <2>2, <3>1, <3>3, <3>4 DEF TypeOK
  <2>6. ReadInv'
    BY <1>0, <1>7, <2>1, <2>2 DEF ReadInv, Reading, WritePcs
  <2>7. \A b \in cbw.lba..(lba - 1) : b \in 0..(Capacity - 1)
    BY <1>4, CommandType
  <2>8. \A b \in 0..(Capacity - 1) : media'[Disk][b] =
            IF b \in xfer.lba..(xfer.lba + moved - 1) THEN cbw.val ELSE media[Disk][b]
    <3>1. Disk \in DOMAIN media
      BY <1>4, <1>5
    <3> DEFINE new == [b \in 0..(Capacity - 1) |->
            IF b \in xfer.lba..(xfer.lba + moved - 1) THEN cbw.val ELSE media[Disk][b]]
    <3>2. media' = [media EXCEPT ![Disk] = new]
      BY <2>3
    <3>3. \A b \in 0..(Capacity - 1) :
            new[b] = IF b \in xfer.lba..(xfer.lba + moved - 1) THEN cbw.val ELSE media[Disk][b]
      OBVIOUS
    <3> HIDE DEF new
    <3>4. media'[Disk] = new
      BY <3>1, <3>2
    <3> QED
      BY <3>3, <3>4
  <2>9. Disk' = Disk /\ Lun' = Lun /\ (Alive(Lun)' <=> Alive(Lun)) /\ pc # "csw"
    BY <1>0, <2>1 DEF Disk, Lun, Alive, WritePcs
  <2>10. pc \in WritePcs /\ csw.status = 0 => \A b \in cbw.lba..(lba - 1) : Stored(b)'
    <3> SUFFICES ASSUME pc \in WritePcs, csw.status = 0, NEW b \in cbw.lba..(lba - 1)
                 PROVE  Stored(b)'
      OBVIOUS
    <3>1. Stored(b) \/ b \in xfer.lba..(xfer.lba + xfer.num - 1)
      BY <1>4, <2>9 DEF WriteInv
    <3>2. b \in Int /\ moved \in Nat /\ cbw.lba \in Nat
      BY <1>4, CommandType
    <3>3. CASE b \in (xfer.lba + moved)..(xfer.lba + xfer.num - 1)
      BY <1>0, <3>3 DEF Stored
    <3>4. CASE b \in xfer.lba..(xfer.lba + moved - 1)
      BY <1>0, <2>7, <2>8, <2>9, <3>4 DEF Stored
    <3>5. CASE Stored(b) /\ b \notin xfer.lba..(xfer.lba + moved - 1)
      BY <1>0, <2>7, <2>8, <2>9, <3>5 DEF Stored
    <3> QED
      BY <1>4, <3>1, <3>2, <3>3, <3>4, <3>5
  <2>11. WriteInv'
    BY <1>0, <2>1, <2>2, <2>9, <2>10 DEF WriteInv, WritePcs
  <2> QED
    BY <1>1, <1>2, <1>3, <2>5, <2>6, <2>11
<1> QED
  BY <1>6, <1>7

\* Between commands no transfer is under way, and what the invariant says of a
\* command in progress says nothing.
LEMMA BetweenCommands ==
    ASSUME IInv, Idle, csw' = csw \/ ~active, received' = received, host' = host,
           xfer' \in {xfer, NoXfer}, answer' \in {answer, "ready"}
    PROVE  /\ PositionInv' /\ ResidueInv' /\ XferInv' /\ ReadInv' /\ WriteInv'
           /\ xfer = NoXfer /\ host = "free" /\ pc = "idle"
<1> USE DEF IInv, Idle, local, chunk
<1>1. xfer = NoXfer /\ xfer' = NoXfer /\ host = "free"
  BY DEF XferInv, Reading, WritePcs, PhaseInv
<1>2. PositionInv'
  BY DEF PositionInv, Reading, WritePcs
<1>3. ResidueInv'
  BY DEF ResidueInv, Reading, Ended, RestInv, MediaOps, Unmoved, Short, Rest, PhaseInv
<1>4. XferInv' /\ ReadInv' /\ WriteInv'
  BY <1>1 DEF XferInv, ReadInv, WriteInv, Reading, WritePcs
<1> QED
  BY <1>1, <1>2, <1>3, <1>4

\* The memory of the device is allocated: all slots are free.
LEMMA RegisterInv == ASSUME IInv, msd_register PROVE IInv'
<1> USE DEF IInv, msd_register, Idle, local, chunk, hostVars
<1>1. PositionInv' /\ ResidueInv' /\ XferInv' /\ ReadInv' /\ WriteInv'
  BY BetweenCommands
<1>2. TypeOK'
  BY Sizes DEF TypeOK, NoDisks, ZeroCsw, Errors, Keys
<1>3. PhaseInv' /\ StatusInv'
  BY DEF PhaseInv, StatusInv, Moving, ZeroCsw, WritePcs
<1>4. SlotInv' /\ SenseNamesTheFailure' /\ LostInv'
  BY DEF SlotInv, SenseNamesTheFailure, LostInv, NoDisks, PhaseInv
<1> QED
  BY <1>1, <1>2, <1>3, <1>4

\* A disk gets a slot.
LEMMA RegisterDiskInv == ASSUME IInv, NEW d \in Disks, msd_register_disk(d) PROVE IInv'
<1> USE DEF IInv, msd_register_disk, Idle, local, chunk, reply, sense, hostVars, Forget
<1>1. PositionInv' /\ ResidueInv' /\ XferInv' /\ ReadInv' /\ WriteInv'
  BY BetweenCommands
<1>2. TypeOK'
  BY DEF TypeOK
<1>3. PhaseInv' /\ StatusInv'
  BY DEF PhaseInv, StatusInv, Moving, Why, WritePcs
<1>4. SlotInv' /\ SenseNamesTheFailure' /\ LostInv'
  BY DEF SlotInv, SenseNamesTheFailure, LostInv, TypeOK
<1> QED
  BY <1>1, <1>2, <1>3, <1>4

\* A disk loses its slot, which keeps the handle.
LEMMA UnregisterDiskInv == ASSUME IInv, NEW d \in Disks, msd_unregister_disk(d) PROVE IInv'
<1> USE DEF IInv, msd_unregister_disk, Idle, local, chunk, reply, sense, hostVars, opened
<1>1. PositionInv' /\ ResidueInv' /\ XferInv' /\ ReadInv' /\ WriteInv'
  BY BetweenCommands
<1>2. TypeOK'
  BY DEF TypeOK
<1>3. PhaseInv' /\ StatusInv'
  BY DEF PhaseInv, StatusInv, Moving, Why, WritePcs
<1>4. SlotInv' /\ SenseNamesTheFailure' /\ LostInv'
  BY DEF SlotInv, SenseNamesTheFailure, LostInv, TypeOK
<1> QED
  BY <1>1, <1>2, <1>3, <1>4

\* All handles are closed, and with msd_release the device is gone.
LEMMA CloseAllInv == ASSUME IInv, msd_unregister_all \/ msd_release PROVE IInv'
<1> USE DEF IInv, msd_unregister_all, msd_release, CloseAll, Idle, local, chunk, reply,
            sense, hostVars, slots
<1>1. PositionInv' /\ ResidueInv' /\ XferInv' /\ ReadInv' /\ WriteInv' /\ xfer' = NoXfer
      /\ pc = "idle"
  BY BetweenCommands
<1>2. NoXfer \in Transfer /\ dev_handle' \in [Units -> Disks \cup {NoDisk}]
  BY DEF NoDisks, Transfer, NoXfer
<1>3. TypeOK'
  <2>1. CASE msd_unregister_all
    BY <1>1, <1>2, <2>1 DEF TypeOK
  <2>2. CASE msd_release
    BY <1>1, <1>2, <2>2 DEF TypeOK
  <2> QED
    BY <2>1, <2>2
<1>4. PhaseInv' /\ StatusInv'
  BY <1>1 DEF PhaseInv, StatusInv, Moving, Why, WritePcs
<1>5. SlotInv' /\ SenseNamesTheFailure' /\ LostInv'
  BY DEF SlotInv, SenseNamesTheFailure, LostInv, NoDisks
<1> QED
  BY <1>1, <1>3, <1>4, <1>5

\* A command comes in.
LEMMA GetCbwInv == ASSUME IInv, NEW c \in Commands, get_cbw(c) PROVE IInv'
<1> USE DEF IInv, get_cbw, slots, opened, sense, Entry
<1>1. pc = "idle" /\ xfer = NoXfer /\ received = <<>>
  BY DEF XferInv, Reading, WritePcs, ReadInv
<1>2. /\ c.op \in MediaOps \cup CheckOps \cup OtherOps /\ c.lba \in Nat /\ c.num \in Nat
      /\ c.len \in 0..(U32 - 1) /\ c.lun \in Units
  BY CommandType
<1>3. csw' = [residue |-> c.len, status |-> csw.status]
  BY DEF TypeOK
<1>4. TypeOK'
  BY <1>2, <1>3 DEF TypeOK, Phases, WritePcs
<1>5. PhaseInv'
  BY <1>1, <1>2 DEF PhaseInv, WritePcs, MediaOps, CheckOps, OtherOps
<1>6. c.op \in MediaOps => csw.status = 0
  BY DEF PhaseInv, TypeOK, StatusInv, Next_op, MediaOps
<1>7. StatusInv'
  BY <1>1, <1>3, <1>6 DEF StatusInv, Moving, MediaOps
<1>8. PositionInv'
  BY <1>2 DEF PositionInv, Reading, WritePcs
<1>9. ResidueInv'
  <2>1. c.op = "WRITE_10" => csw'.residue = c.len - 0 * BlockSize /\ c.num - c.num = 0
    BY <1>2, <1>3, Sizes
  <2>2. Reading' \/ pc' = "write" => Unmoved(cbw.num - left)'
    BY <2>1 DEF Unmoved, Reading
  <2> QED
    BY <1>3, <2>2 DEF ResidueInv, Reading, Ended, RestInv, MediaOps
<1>10. XferInv' /\ LostInv' /\ SlotInv' /\ SenseNamesTheFailure'
  BY <1>1 DEF XferInv, LostInv, SlotInv, SenseNamesTheFailure
<1>11. ReadInv'
  BY <1>1 DEF ReadInv, Reading, WritePcs
<1>12. WriteInv'
  BY <1>2 DEF WriteInv, WritePcs
<1> QED
  BY <1>4, <1>5, <1>7, <1>8, <1>9, <1>10, <1>11, <1>12

\* The residue that a handler leaves.
LEMMA GoodIs ==
    ASSUME NEW n \in Int
    PROVE  /\ Good(n) \in [residue : 0..(U32 - 1), status : 0..1]
           /\ Good(n).status = 0
           /\ n \in 0..(U32 - 1) => Good(n).residue = n
BY Sizes DEF Good

\* A command that moves no blocks.
LEMMA CommandInv == ASSUME IInv, command PROVE IInv'
<1> USE DEF IInv, command, slots, opened, sense, local, chunk, hostVars
<1>1. pc = "command" /\ pc' = "csw" /\ xfer = NoXfer /\ cbw.op \notin MediaOps
      /\ received = <<>> /\ ~stalled
  BY DEF XferInv, Reading, WritePcs, ReadInv, PhaseInv, StatusInv
<1>2. /\ Lun \in Units /\ csw.residue \in 0..(U32 - 1) /\ cbw.len \in 0..(U32 - 1)
      /\ csw.residue = cbw.len
  BY <1>1, CommandType DEF TypeOK, Lun, ResidueInv
<1>3. /\ csw' \in [residue : 0..(U32 - 1), status : 0..1]
      /\ csw'.residue <= cbw.len \/ Short(cbw)
      /\ csw'.status = 0 => Short(cbw) \/ csw'.residue = Rest(cbw)
      /\ bError' \in Errors /\ UNCHANGED bSenseKey
      /\ csw'.status = 1 => Why'
  <2>1. CASE WithoutDisk
    <3>1. CASE inquiry
      <4>1. csw.residue - AtMost(csw.residue, 36) \in 0..(U32 - 1)
            /\ csw.residue - AtMost(csw.residue, 36) <= csw.residue
        BY <1>2, Sizes DEF AtMost
      <4> QED
        BY <1>2, <3>1, <4>1, GoodIs DEF inquiry, Answers, TypeOK, Rest, Counted, Moved, MediaOps
    <3>2. CASE verify \/ stop_start
      BY <1>2, <3>2, GoodIs, Sizes DEF verify, stop_start, Answers, TypeOK, Rest, Counted, MediaOps
    <3>3. CASE allow_medium_removal
      <4>1. csw' \in [residue : 0..(U32 - 1), status : 0..1] /\ csw'.residue = 0
            /\ cbw.op = "ALLOW_MEDIUM_REMOVAL"
        BY <3>3, Sizes DEF allow_medium_removal
      <4>2. bError' \in Errors /\ UNCHANGED bSenseKey /\ (csw'.status = 1 => bError' = 2)
        BY <1>2, <3>3 DEF allow_medium_removal, TypeOK, Errors
      <4> QED
        BY <1>2, <4>1, <4>2 DEF Why, CheckOps, Rest, Counted, MediaOps
    <3>4. CASE request_sense
      <4>1. CASE csw.residue = 0
        BY <1>2, <3>4, <4>1, Sizes DEF request_sense, stall_error, NOT_READY, TypeOK, Errors,
           Why, CheckOps
      <4>2. CASE csw.residue # 0
        <5>1. csw.residue - AtMost(csw.residue, 18) \in 0..(U32 - 1)
              /\ csw.residue - AtMost(csw.residue, 18) <= csw.residue
          BY <1>2, Sizes DEF AtMost
        <5> QED
          BY <1>2, <3>4, <4>2, <5>1, GoodIs
             DEF request_sense, Answers, TypeOK, Rest, Counted, Moved,
             MediaOps
      <4> QED
        BY <4>1, <4>2
    <3>5. CASE unknown_command
      BY <1>2, <3>5, Sizes DEF unknown_command, stall_error, TypeOK, Errors, Why, CheckOps
    <3> QED
      BY <2>1, <3>1, <3>2, <3>3, <3>4, <3>5 DEF WithoutDisk
  <2>2. CASE WithDisk
    <3>1. CASE Present(Lun)
      <4>1. csw.residue - 12 \in Int /\ (csw.residue >= 12 => csw.residue - 12 \in 0..(U32 - 1))
        BY <1>2, Sizes
      <4>2. CASE cbw.op = "READ_FORMAT_CAPACITIES"
        <5>1. csw' = Good(csw.residue - 12) /\ UNCHANGED <<bError, bSenseKey>>
          BY <2>2, <3>1, <4>2 DEF WithDisk, Answers, Lun
        <5> QED
          BY <1>2, <4>1, <4>2, <5>1, GoodIs DEF Short, TypeOK, Rest, Counted, Moved, MediaOps
      <4>3. CASE cbw.op # "READ_FORMAT_CAPACITIES"
        <5>1. csw' = Good(0) /\ UNCHANGED <<bError, bSenseKey>>
          BY <2>2, <3>1, <4>3 DEF WithDisk, Answers, Lun
        <5>2. Rest(cbw) = 0
          BY <1>1, <2>2, <4>3 DEF Rest, Counted, WithDisk, CheckOps
        <5> QED
          BY <1>2, <5>1, <5>2, GoodIs, Sizes DEF TypeOK
      <4> QED
        BY <4>2, <4>3
    <3>2. CASE ~Present(Lun)
      <4>1. bError' = 15 /\ UNCHANGED <<bSenseKey, cbw>> /\ cbw.op \in CheckOps
        BY <2>2, <3>2 DEF WithDisk, Lun, Offline, NotReady, stall_error
      <4>2. \E n \in {0, csw.residue} : csw' = [residue |-> n, status |-> 1]
        BY <2>2, <3>2 DEF WithDisk, Lun, Offline, NotReady, stall_error, TypeOK
      <4>3. csw' \in [residue : 0..(U32 - 1), status : 0..1] /\ csw'.residue <= cbw.len
            /\ csw'.status = 1
        BY <1>2, <4>2, Sizes
      <4>4. Why'
        BY <4>1 DEF Why, CheckOps
      <4> QED
        BY <4>1, <4>3, <4>4 DEF Errors
    <3> QED
      BY <3>1, <3>2
  <2> QED
    BY <2>1, <2>2
<1>4. dev_handle' \in [Units -> Disks \cup {NoDisk}] /\ lost' \subseteq Units
      /\ SlotInv' /\ LostInv'
  <2>1. CASE WithoutDisk /\ UNCHANGED opened
    BY <2>1 DEF TypeOK, SlotInv, LostInv
  <2>2. CASE WithDisk
    BY <2>2, <1>2, CheckedSlot DEF WithDisk, Lun
  <2> QED
    BY <2>1, <2>2
<1>5. TypeOK'
  BY <1>1, <1>3, <1>4 DEF TypeOK, Phases
<1>6. PhaseInv'
  BY <1>1 DEF PhaseInv, WritePcs
<1>7. StatusInv'
  BY <1>1, <1>3 DEF StatusInv, Moving, PhaseInv
<1>8. PositionInv' /\ XferInv' /\ WriteInv'
  BY <1>1 DEF PositionInv, XferInv, WriteInv, Reading, WritePcs, MediaOps
<1>9. ResidueInv'
  BY <1>1, <1>3 DEF ResidueInv, Reading, Ended, RestInv, MediaOps, Unmoved, Short, Rest
<1>10. ReadInv' /\ SenseNamesTheFailure'
  BY <1>1 DEF ReadInv, Reading, SenseNamesTheFailure, PhaseInv, MediaOps
<1> QED
  BY <1>4, <1>5, <1>6, <1>7, <1>8, <1>9, <1>10

\* The write loop receives a chunk, or is left.
LEMMA WriteReceiveInv == ASSUME IInv, write_receive PROVE IInv'
<1> USE DEF IInv, write_receive, slots, opened, sense, reply, hostVars
<1>1. /\ Lun \in Units /\ csw \in [residue : 0..(U32 - 1), status : 0..1]
      /\ csw.status = 0 /\ ~stalled /\ cbw.op = "WRITE_10" /\ cbw \in Commands
      /\ cbw.len \in Nat /\ cbw.num \in Nat /\ cbw.lba \in Nat /\ cbw.val \in Values
      /\ left \in Nat /\ left <= cbw.num /\ pc = "write" /\ received = <<>>
  BY CommandType DEF TypeOK, Lun, StatusInv, Moving, PhaseInv, WritePcs, ReadInv, Reading,
                     PositionInv
<1>2. num' = Chunk(left) /\ num' \in Nat /\ num' <= left /\ (num' = 0 <=> left = 0)
  BY <1>1, ChunkFits
<1>3. csw.residue = cbw.len - (cbw.num - left) * BlockSize /\ cbw.len >= cbw.num * BlockSize
  BY <1>1, CommandType DEF ResidueInv, Unmoved, MediaOps
<1>4. csw.residue >= left * BlockSize
  BY <1>1, <1>3, Bytes, Sizes
<1>5. left > 0 => csw.residue > 0 /\ Enough(num')
  <2>1. left * BlockSize \in Nat /\ (left > 0 => left * BlockSize > 0)
    BY <1>1, Bytes
  <2>2. num' * BlockSize \in Nat /\ num' * BlockSize <= left * BlockSize
    BY <1>1, <1>2, Bytes, MoreBytes
  <2> QED
    BY <1>1, <1>4, <2>1, <2>2, Sizes DEF Enough
<1>6. SlotInv' /\ LostInv' /\ SenseNamesTheFailure'
  BY DEF SlotInv, LostInv, SenseNamesTheFailure, PhaseInv
<1>7. CASE left = 0
  <2>1. pc' = "flush" /\ UNCHANGED <<reply, stalled, buf>>
    BY <1>1, <1>7
  <2>2. TypeOK' /\ PhaseInv' /\ StatusInv'
    BY <1>1, <1>2, <2>1 DEF TypeOK, PhaseInv, StatusInv, Phases, WritePcs, Moving
  <2>3. PositionInv' /\ ResidueInv'
    BY <1>1, <1>2, <1>7, <2>1
       DEF PositionInv, ResidueInv, Reading, WritePcs, Unmoved, Ended, RestInv, MediaOps, PhaseInv
  <2>4. XferInv' /\ ReadInv' /\ WriteInv'
    BY <1>1, <2>1 DEF XferInv, ReadInv, WriteInv, Reading, WritePcs, Disk, Lun, Alive, Stored
  <2> QED
    BY <1>6, <2>2, <2>3, <2>4
<1>8. CASE left > 0 /\ pc' = "store"
  <2>1. csw' = Consumed(num') /\ UNCHANGED <<sense, stalled>>
        /\ buf' = [buf EXCEPT ![bufIdx] = [i \in 1..num' |-> cbw.val]]
    BY <1>1, <1>5, <1>8
  <2>2. csw' = [residue |-> csw.residue - num' * BlockSize, status |-> 0]
    BY <1>1, <1>5, <1>8, <2>1 DEF Consumed
  <2>3. csw'.residue \in 0..(U32 - 1)
    <3>1. num' * BlockSize \in Nat /\ num' * BlockSize <= csw.residue
      BY <1>1, <1>2, <1>5, <1>8, Bytes DEF Enough
    <3>2. csw.residue \in 0..(U32 - 1)
      BY <1>1
    <3> QED
      BY <2>2, <3>1, <3>2, Sizes
  <2>4. [i \in 1..num' |-> cbw.val] \in Seq(Values)
    BY <1>1, <1>2
  <2>5. TypeOK'
    BY <1>1, <1>2, <1>8, <2>1, <2>2, <2>3, <2>4 DEF TypeOK, Phases, WritePcs
  <2>6. PhaseInv' /\ StatusInv'
    BY <1>1, <1>8, <2>1, <2>2 DEF PhaseInv, StatusInv, Moving, WritePcs
  <2>7. PositionInv'
    BY <1>1, <1>2, <1>8 DEF PositionInv, Reading, WritePcs
  <2>8. ResidueInv'
    <3>1. cbw.num - left + num' \in Nat /\ cbw.num - left \in Nat
      BY <1>1, <1>2
    <3>2. (cbw.num - left + num') * BlockSize = (cbw.num - left) * BlockSize + num' * BlockSize
          /\ (cbw.num - left) * BlockSize \in Nat /\ num' * BlockSize \in Nat
      BY <1>2, <3>1, Bytes
    <3>3. Unmoved(cbw.num - left + num)'
      BY <1>1, <1>3, <2>2, <3>2 DEF Unmoved
    <3> QED
      BY <1>1, <1>8, <3>3 DEF ResidueInv, Reading, Ended, RestInv, MediaOps, PhaseInv
  <2>9. buf'[bufIdx] = [i \in 1..num' |-> cbw.val] /\ buf'[1 - bufIdx] = buf[1 - bufIdx]
    BY <2>1 DEF TypeOK
  <2>10. XferInv'
    BY <1>1, <1>8, <2>9 DEF XferInv, Reading, WritePcs, Disk, Lun, Alive
  <2>11. ReadInv' /\ WriteInv'
    BY <1>1, <1>8, <2>2, <2>9 DEF ReadInv, WriteInv, Reading, WritePcs, Disk, Lun, Alive, Stored
  <2> QED
    BY <1>6, <2>5, <2>6, <2>7, <2>8, <2>10, <2>11
<1>9. CASE left > 0 /\ pc' # "store"
  <2>1. pc' = "flush" /\ stall_error(MEDIUM_ERROR) /\ stalled' = TRUE /\ UNCHANGED buf
    BY <1>5, <1>9
  <2>2. csw' = [residue |-> 0, status |-> 1] /\ bError' = MEDIUM_ERROR /\ UNCHANGED bSenseKey
    BY <2>1 DEF stall_error
  <2>3. TypeOK' /\ PhaseInv'
    BY <1>1, <1>2, <2>1, <2>2, Sizes DEF TypeOK, PhaseInv, Phases, WritePcs, Errors
  <2>4. StatusInv'
    BY <1>1, <2>1, <2>2 DEF StatusInv, Moving, Why, PhaseInv, CheckOps
  <2>5. PositionInv' /\ ResidueInv'
    BY <1>1, <1>2, <2>1, <2>2
       DEF PositionInv, ResidueInv, Reading, WritePcs, Ended, RestInv, MediaOps, PhaseInv
  <2>6. XferInv' /\ ReadInv' /\ WriteInv'
    BY <1>1, <2>1, <2>2 DEF XferInv, ReadInv, WriteInv, Reading, WritePcs, Disk, Lun, Alive
  <2> QED
    BY <1>6, <2>3, <2>4, <2>5, <2>6
<1> QED
  BY <1>1, <1>7, <1>8, <1>9

\* The chunk goes to the disk, or the write fails.
LEMMA WriteStoreInv == ASSUME IInv, write_store PROVE IInv'
<1> USE DEF IInv
<1>0. UNCHANGED <<active, dev_name, named, cbw, num, lastLba, lastNum, buf, online, media, host,
                  answer, received, bad>>
      /\ pc = "store" /\ check_disk_status(Lun)
  BY DEF write_store, slots, hostVars, Lun
<1>1. /\ Lun \in Units /\ csw \in [residue : 0..(U32 - 1), status : 0..1]
      /\ csw.status = 0 /\ ~stalled /\ cbw.op = "WRITE_10" /\ cbw \in Commands
      /\ cbw.len \in Nat /\ cbw.num \in Nat /\ cbw.lba \in Nat
      /\ left \in Nat /\ left <= cbw.num /\ pc = "store" /\ received = <<>>
      /\ left > 0 /\ num = Chunk(left) /\ bufIdx \in 0..1 /\ lba \in Nat
      /\ lba + left = cbw.lba + cbw.num
  BY <1>0, CommandType DEF TypeOK, Lun, StatusInv, Moving, PhaseInv, WritePcs, ReadInv, Reading,
                     PositionInv
<1>2. num \in Nat /\ num <= left /\ num > 0
  BY <1>0, <1>1, ChunkFits
<1>3. /\ dev_handle' \in [Units -> Disks \cup {NoDisk}] /\ lost' \subseteq Units
      /\ SlotInv' /\ LostInv'
      /\ Present(Lun) => dev_handle'[Lun] \in Disks /\ Alive(Lun)'
      /\ ~Present(Lun) => dev_handle'[Lun] = NoDisk
      /\ Present(Lun) /\ dev_handle[Lun] # NoDisk =>
            dev_handle' = dev_handle /\ lost' = lost /\ Alive(Lun)
  BY <1>0, <1>1, CheckedSlot DEF Lun
<1>4. SenseNamesTheFailure'
  BY <1>0, <1>1 DEF SenseNamesTheFailure, PhaseInv
<1>5. CASE pc' = "write"
  <2>1. /\ Present(Lun) /\ xfer = NoXfer /\ bufIdx' = 1 - bufIdx
        /\ xfer' = [kind |-> "write", buf |-> bufIdx, disk |-> dev_handle'[Lun],
                    lba |-> lba, num |-> num]
        /\ left' = left - num /\ lba' = lba + num
        /\ UNCHANGED <<csw, bError, bSenseKey, stalled>>
    BY <1>5 DEF write_store, reply, sense, Flip, Lun
  <2>2. dev_handle'[Lun] \in Disks /\ Alive(Lun)' /\ Disk' = dev_handle'[Lun] /\ Lun' = Lun
    BY <1>0, <1>3, <2>1 DEF Disk, Lun
  <2>3. /\ left' \in Nat /\ lba' \in Nat /\ left' <= cbw.num
        /\ lba' + left' = cbw.lba + cbw.num /\ cbw.num - left' = cbw.num - left + num
        /\ lba >= cbw.lba /\ lba' - 1 = lba + num - 1
    <3>1. left \in Nat /\ num \in Nat /\ lba \in Nat /\ cbw.num \in Nat /\ cbw.lba \in Nat
          /\ lba + left = cbw.lba + cbw.num /\ num <= left /\ left <= cbw.num
      BY <1>1, <1>2
    <3>2. left' = left - num /\ lba' = lba + num
      BY <2>1
    <3> QED
      BY <3>1, <3>2
  <2>4. xfer' \in Transfer /\ xfer'.kind # "none" /\ xfer' # NoXfer
    BY <1>0, <1>1, <1>2, <2>1, <2>2 DEF Transfer, NoXfer
  <2>5. TypeOK'
    BY <1>0, <1>3, <1>5, <2>1, <2>3, <2>4 DEF TypeOK, Phases, WritePcs
  <2>6. PhaseInv' /\ StatusInv'
    BY <1>0, <1>1, <1>5, <2>1 DEF PhaseInv, StatusInv, Moving, WritePcs
  <2>7. PositionInv'
    BY <1>0, <1>5, <2>3 DEF PositionInv, Reading, WritePcs
  <2>8. ResidueInv'
    <3> QED
      BY <1>0, <1>1, <1>5, <2>1, <2>3
         DEF ResidueInv, Reading, Ended, RestInv, MediaOps, Unmoved, PhaseInv
  <2>9. XferInv'
    BY <1>0, <1>1, <1>2, <1>5, <2>1, <2>2, <2>3, CommandType
       DEF XferInv, Reading, WritePcs, WriteInv
  <2>10. ReadInv'
    BY <1>0, <1>1, <1>5 DEF ReadInv, Reading
  <2>11. \A b \in cbw.lba..(lba - 1) : b \in bad \/ media[Disk'][b] = cbw.val
    <3>1. CASE lba > cbw.lba
      BY <1>0, <1>1, <1>3, <2>1, <2>2, <3>1 DEF WriteInv, WritePcs, Stored, Disk
    <3>2. CASE ~(lba > cbw.lba)
      BY <1>0, <1>1, <3>2
    <3> QED
      BY <3>1, <3>2
  <2>12. \A b \in cbw.lba..(lba' - 1) :
            b \in bad \/ media[Disk'][b] = cbw.val \/ b \in xfer'.lba..(xfer'.lba + xfer'.num - 1)
    <3>1. lba \in Nat /\ num \in Nat /\ cbw.lba \in Nat
      BY <1>1, <1>2
    <3>2. xfer'.lba = lba /\ xfer'.num = num
      BY <2>1
    <3>3. lba' - 1 = lba + num - 1
      BY <2>3
    <3>4. \A b \in cbw.lba..(lba + num - 1) : b \in cbw.lba..(lba - 1) \/ b \in lba..(lba + num - 1)
      BY <3>1
    <3> QED
      BY <2>11, <3>2, <3>3, <3>4
  <2>13. Disk' # NoDisk
    BY <2>2, MsdAssumption
  <2>14. WriteInv'
    BY <1>0, <1>1, <1>5, <2>1, <2>4, <2>12, <2>13 DEF WriteInv, WritePcs, Stored
  <2> QED
    BY <1>3, <1>4, <2>5, <2>6, <2>7, <2>8, <2>9, <2>10, <2>14
<1>6. CASE pc' # "write"
  <2>1. pc' = "flush" /\ Refuses /\ stall_error(MEDIUM_ERROR) /\ stalled' = TRUE
        /\ UNCHANGED <<bufIdx, left, lba>>
    BY <1>6 DEF write_store
  <2>2. csw' = [residue |-> 0, status |-> 1] /\ bError' = MEDIUM_ERROR /\ UNCHANGED bSenseKey
    BY <2>1 DEF stall_error
  <2>3. xfer # NoXfer => Disk # NoDisk /\ Alive(Lun)
    BY MsdAssumption DEF XferInv
  <2>4. xfer' = NoXfer
    BY <2>1, <2>3 DEF Refuses, Lun, Disk, Present
  <2>5. NoXfer \in Transfer
    BY DEF NoXfer, Transfer
  <2>6. TypeOK'
    <3>1. csw' \in [residue : 0..(U32 - 1), status : 0..1] /\ bError' \in Errors
      BY <2>2, Sizes DEF Errors
    <3>2. pc' \in Phases
      BY <2>1 DEF Phases, WritePcs
    <3> QED
      BY <1>0, <1>3, <2>1, <2>2, <2>4, <2>5, <3>1, <3>2 DEF TypeOK
  <2>7. PhaseInv'
    BY <1>0, <1>1, <2>1 DEF PhaseInv, WritePcs
  <2>8. StatusInv'
    BY <1>0, <1>1, <2>1, <2>2 DEF StatusInv, Moving, Why, PhaseInv, CheckOps
  <2>9. PositionInv' /\ ResidueInv'
    BY <1>0, <1>1, <1>2, <2>1, <2>2
       DEF PositionInv, ResidueInv, Reading, WritePcs, Ended, RestInv, MediaOps, PhaseInv
  <2>10. XferInv' /\ ReadInv' /\ WriteInv'
    BY <1>0, <1>1, <2>1, <2>2, <2>4 DEF XferInv, ReadInv, WriteInv, Reading, WritePcs
  <2> QED
    BY <1>3, <1>4, <2>6, <2>7, <2>8, <2>9, <2>10
<1> QED
  BY <1>5, <1>6

\* The end of a write: the disk has stored what it was given, or the write fails.
LEMMA WriteFlushInv == ASSUME IInv, write_flush PROVE IInv'
<1> USE DEF IInv, write_flush, slots, local, chunk, hostVars
<1>1. /\ Lun \in Units /\ csw \in [residue : 0..(U32 - 1), status : 0..1]
      /\ cbw.op = "WRITE_10" /\ cbw \in Commands /\ pc = "flush" /\ pc' = "csw"
      /\ cbw.len \in Nat /\ cbw.num \in Nat /\ cbw.lba \in Nat /\ left \in Nat /\ lba \in Nat
      /\ received = <<>> /\ lba + left = cbw.lba + cbw.num
      /\ (csw.status = 0 => left = 0 /\ ~stalled)
  BY CommandType DEF TypeOK, Lun, StatusInv, Moving, PhaseInv, WritePcs, ReadInv, Reading,
                     PositionInv
<1>2. /\ dev_handle' \in [Units -> Disks \cup {NoDisk}] /\ lost' \subseteq Units
      /\ SlotInv' /\ LostInv'
      /\ Present(Lun) => dev_handle'[Lun] \in Disks /\ Alive(Lun)'
      /\ ~Present(Lun) => dev_handle'[Lun] = NoDisk
      /\ Present(Lun) /\ dev_handle[Lun] # NoDisk =>
            dev_handle' = dev_handle /\ lost' = lost /\ Alive(Lun)
  BY <1>1, CheckedSlot DEF Lun
<1>3. xfer = NoXfer /\ xfer' = NoXfer
  <2>1. xfer # NoXfer => Disk # NoDisk /\ Alive(Lun)
    BY MsdAssumption DEF XferInv
  <2>2. ~Present(Lun) => xfer = NoXfer
    BY <2>1 DEF Present, Disk, Lun
  <2> QED
    BY <2>2 DEF Lun
<1>4. \/ /\ Present(Lun) /\ UNCHANGED reply
      \/ /\ ~Present(Lun) /\ stalled /\ UNCHANGED reply
      \/ /\ ~Present(Lun) /\ ~stalled /\ csw' = [residue |-> 0, status |-> 1]
         /\ bError' = MEDIUM_ERROR /\ UNCHANGED bSenseKey
  BY DEF FlushFailed, stall_error, Lun
<1>5. csw' \in [residue : 0..(U32 - 1), status : 0..1] /\ bError' \in Errors /\ bSenseKey' \in Keys
      /\ (csw'.status = 0 => csw' = csw /\ csw.status = 0 /\ Present(Lun))
      /\ (csw'.status = 1 => csw'.residue = 0 /\ Why')
  <2>1. CASE UNCHANGED reply
    <3>1. UNCHANGED <<csw, bError, bSenseKey, cbw>>
      BY <2>1 DEF reply, sense
    <3>2. csw.status = 1 => csw.residue = 0 /\ Why /\ ~(csw.status = 0)
      BY <1>1 DEF ResidueInv, StatusInv
    <3>3. csw.status = 1 => Why'
      BY <3>1, <3>2 DEF Why
    <3>4. stalled => csw.status = 1
      BY DEF StatusInv
    <3> QED
      BY <1>1, <1>4, <3>1, <3>2, <3>3, <3>4 DEF TypeOK
  <2>2. CASE ~Present(Lun) /\ ~stalled /\ csw' = [residue |-> 0, status |-> 1]
             /\ bError' = MEDIUM_ERROR /\ UNCHANGED bSenseKey
    <3>1. Why'
      BY <1>1, <2>2 DEF Why, CheckOps
    <3> QED
      BY <2>2, <3>1, Sizes DEF TypeOK, Errors
  <2> QED
    BY <1>4, <2>1, <2>2
<1>6. TypeOK' /\ PhaseInv'
  BY <1>1, <1>2, <1>3, <1>5 DEF TypeOK, PhaseInv, Phases, WritePcs
<1>7. StatusInv'
  BY <1>1, <1>5 DEF StatusInv, Moving, PhaseInv
<1>8. PositionInv'
  BY <1>1 DEF PositionInv, Reading, WritePcs
<1>9. ResidueInv'
  <2>1. csw'.status = 0 => csw'.residue = cbw.len - cbw.num * BlockSize
    BY <1>1, <1>5 DEF ResidueInv, Unmoved
  <2>2. cbw.num * BlockSize \in Nat
    BY <1>1, Bytes
  <2>3. csw'.residue <= cbw.len
    BY <1>1, <1>5, <2>1, <2>2
  <2> QED
    BY <1>1, <2>1, <2>3 DEF ResidueInv, Reading, Ended, RestInv, MediaOps, Unmoved
<1>10. XferInv' /\ ReadInv' /\ SenseNamesTheFailure'
  BY <1>1, <1>3 DEF XferInv, ReadInv, Reading, SenseNamesTheFailure, PhaseInv
<1>11. csw'.status = 0 /\ cbw.num > 0 =>
            Disk' # NoDisk /\ \A b \in cbw.lba..(cbw.lba + cbw.num - 1) : Stored(b)'
  <2> SUFFICES ASSUME csw'.status = 0, cbw.num > 0
               PROVE  Disk' # NoDisk /\ \A b \in cbw.lba..(cbw.lba + cbw.num - 1) : Stored(b)'
    OBVIOUS
  <2>1. csw.status = 0 /\ left = 0 /\ lba = cbw.lba + cbw.num /\ lba > cbw.lba /\ Present(Lun)
    BY <1>1, <1>5
  <2>2. Disk # NoDisk
    BY <1>1, <2>1 DEF WriteInv, WritePcs
  <2>3. Disk' = Disk /\ Alive(Lun)
    BY <1>2, <2>1, <2>2 DEF Disk, Lun
  <2>4. \A b \in cbw.lba..(lba - 1) : Stored(b)
    BY <1>1, <1>3, <2>1, <2>3 DEF WriteInv, WritePcs
  <2>5. \A b \in cbw.lba..(cbw.lba + cbw.num - 1) : Stored(b)
    <3>1. cbw.lba..(lba - 1) = cbw.lba..(cbw.lba + cbw.num - 1)
      BY <1>1, <2>1
    <3> QED
      BY <2>4, <3>1, Zenon
  <2> QED
    BY <1>1, <2>2, <2>3, <2>5 DEF Stored
<1>12. WriteInv'
  BY <1>1, <1>11 DEF WriteInv, WritePcs
<1> QED
  BY <1>2, <1>6, <1>7, <1>8, <1>9, <1>10, <1>12

\* The first chunk of a read is read ahead, or the read fails.
LEMMA ReadFirstInv == ASSUME IInv, read_first PROVE IInv'
<1> USE DEF IInv
<1>0. /\ UNCHANGED <<active, dev_name, named, cbw, lba, left, lastLba, lastNum, bufIdx, stalled, buf,
                     online, media, host, answer, received, bad>>
      /\ pc = "read" /\ num' = Chunk(left) /\ pc' \in {"next", "csw"}
  BY DEF read_first, slots, hostVars
<1>1. /\ Lun \in Units /\ csw \in [residue : 0..(U32 - 1), status : 0..1]
      /\ csw.status = 0 /\ ~stalled /\ cbw.op = "READ_10" /\ cbw \in Commands
      /\ received = <<>> /\ bufIdx \in 0..1 /\ xfer = NoXfer
  BY <1>0, CommandType DEF TypeOK, Lun, StatusInv, Moving, PhaseInv, WritePcs, ReadInv, Reading,
                           XferInv
<1>2. /\ cbw.len \in Nat /\ cbw.num \in Nat /\ cbw.lba \in Nat /\ left \in Nat /\ lba \in Nat
      /\ left = cbw.num /\ lba = cbw.lba /\ num' \in Nat /\ num' <= left /\ (num' = 0 <=> left = 0)
      /\ csw.residue = cbw.len
  <2>1. cbw.len \in Nat /\ cbw.num \in Nat /\ cbw.lba \in Nat /\ left \in Nat /\ lba \in Nat
        /\ left = cbw.num /\ lba + left = cbw.lba + cbw.num
    BY <1>0, <1>1, CommandType DEF TypeOK, PositionInv
  <2>2. csw.residue = cbw.len
    BY <1>0 DEF ResidueInv
  <2> QED
    BY <1>0, <2>1, <2>2, ChunkFits
<1>3. /\ dev_handle' \in [Units -> Disks \cup {NoDisk}] /\ lost' \subseteq Units
      /\ SlotInv' /\ LostInv'
      /\ left > 0 /\ Present(Lun) => dev_handle'[Lun] \in Disks /\ Alive(Lun)'
  <2>1. CASE left = 0
    <3>1. UNCHANGED <<dev_handle, lost>>
      BY <2>1 DEF read_first, opened
    <3> QED
      BY <1>0, <2>1, <3>1 DEF SlotInv, LostInv, TypeOK
  <2>2. CASE left # 0
    <3>1. check_disk_status(Lun)
      BY <2>2 DEF read_first, Lun
    <3> QED
      <4>1. Lun \in Units /\ UNCHANGED <<cbw, dev_name, named, online>>
        BY <1>0, <1>1
      <4> QED
        BY <3>1, <4>1, CheckedSlot DEF Lun
  <2> QED
    BY <2>1, <2>2
<1>4. SenseNamesTheFailure'
  BY <1>0 DEF SenseNamesTheFailure, PhaseInv
<1>5. CASE pc' = "next"
  <2>1. left > 0 /\ UNCHANGED <<csw, bError, bSenseKey>> /\ Takes("read", bufIdx, lba, num')
    BY <1>2, <1>5 DEF read_first, reply, sense
  <2>2. /\ Present(Lun)
        /\ xfer' = [kind |-> "read", buf |-> bufIdx, disk |-> dev_handle'[Lun],
                    lba |-> lba, num |-> num']
    BY <2>1 DEF Takes, Lun
  <2>3. dev_handle'[Lun] \in Disks /\ Alive(Lun)' /\ Disk' = dev_handle'[Lun] /\ Lun' = Lun
    BY <1>0, <1>3, <2>1, <2>2 DEF Disk, Lun
  <2>4. xfer' \in Transfer /\ xfer'.kind # "none" /\ xfer' # NoXfer
    BY <1>1, <1>2, <2>2, <2>3 DEF Transfer, NoXfer
  <2>5. TypeOK' /\ PhaseInv' /\ StatusInv'
    BY <1>0, <1>1, <1>2, <1>3, <1>5, <2>1, <2>4
       DEF TypeOK, PhaseInv, StatusInv, Phases, WritePcs, Moving
  <2>6. PositionInv'
    BY <1>0, <1>2, <1>5 DEF PositionInv, Reading, WritePcs
  <2>7. ResidueInv'
    <3>1. cbw.num - left = 0 /\ 0 * BlockSize = 0
      BY <1>2, Sizes
    <3>2. csw.residue = cbw.len - (cbw.num - left) * BlockSize
      BY <1>2, <3>1
    <3> QED
      BY <1>0, <1>5, <2>1, <3>2 DEF ResidueInv, Reading, Ended, RestInv, MediaOps, Unmoved, PhaseInv
  <2>8. XferInv'
    BY <1>0, <1>1, <1>2, <1>5, <2>1, <2>2, <2>3 DEF XferInv, Reading, WritePcs
  <2>9. ReadInv' /\ WriteInv'
    <3>1. Disk' # NoDisk /\ num' > 0 /\ Len(<<>>) = lba - cbw.lba
      BY <1>2, <2>1, <2>3, MsdAssumption
    <3> QED
      BY <1>0, <1>1, <1>5, <2>4, <3>1 DEF ReadInv, WriteInv, Reading, WritePcs
  <2> QED
    BY <1>3, <1>4, <2>5, <2>6, <2>7, <2>8, <2>9
<1>6. CASE pc' = "csw"
  <2>1. /\ csw' = [residue |-> 0, status |-> 1] /\ UNCHANGED bSenseKey
        /\ bError' = IF left = 0 THEN 2 ELSE MEDIUM_ERROR
        /\ xfer' = NoXfer
    BY <1>1, <1>6 DEF read_first, stall_error, Refuses
  <2>2. Why'
    <3>1. cbw.op = "READ_10" /\ cbw' = cbw
          /\ bError' = IF cbw.num = 0 THEN 2 ELSE MEDIUM_ERROR
      BY <1>0, <1>1, <1>2, <2>1
    <3> QED
      BY <1>2, <3>1 DEF Why, CheckOps
  <2>3. TypeOK' /\ PhaseInv' /\ StatusInv'
    BY <1>0, <1>1, <1>2, <1>3, <1>6, <2>1, <2>2, Sizes
       DEF TypeOK, PhaseInv, StatusInv, Phases, WritePcs, Moving, Errors
  <2>4. PositionInv' /\ ResidueInv'
    BY <1>0, <1>2, <1>6, <2>1
       DEF PositionInv, ResidueInv, Reading, WritePcs, Ended, RestInv, MediaOps, PhaseInv
  <2>5. XferInv' /\ ReadInv' /\ WriteInv'
    BY <1>0, <1>1, <1>6, <2>1 DEF XferInv, ReadInv, WriteInv, Reading, WritePcs
  <2> QED
    BY <1>3, <1>4, <2>3, <2>4, <2>5
<1> QED
  BY <1>0, <1>5, <1>6

\* A chunk goes to the host, or the read fails.
LEMMA ReadSendInv == ASSUME IInv, read_send PROVE IInv'
<1> USE DEF IInv
<1>0. /\ UNCHANGED <<active, dev_name, named, dev_handle, lost, cbw, lba, left, num, lastLba, lastNum,
                     bufIdx, stalled, buf, online, media, xfer, host, answer, bad, bSenseKey>>
      /\ pc = "send" /\ pc' \in {"next", "csw"}
  BY DEF read_send, slots, opened, local, chunk, stall_error, reply, sense
<1>1. /\ Lun \in Units /\ csw.status = 0 /\ ~stalled /\ cbw.op = "READ_10" /\ cbw \in Commands
      /\ bufIdx \in 0..1 /\ num = Chunk(left) /\ cbw.num \in Nat /\ left \in Nat
  BY <1>0, CommandType DEF TypeOK, Lun, StatusInv, Moving, PhaseInv, PositionInv, WritePcs, Reading
<1>2. SlotInv' /\ LostInv' /\ SenseNamesTheFailure'
  BY <1>0 DEF SlotInv, LostInv, SenseNamesTheFailure, PhaseInv
<1>3. CASE pc' = "next"
  <2>1. received' = received \o buf[1 - bufIdx] /\ UNCHANGED <<csw, bError>>
    BY <1>3 DEF read_send, reply, sense
  <2>2. buf[1 - bufIdx] \in Seq(Values) /\ received \in Seq(Values)
    BY <1>1 DEF TypeOK
  <2>3. received' \in Seq(Values) /\ Len(received') = Len(received) + Len(buf[1 - bufIdx])
    BY <2>1, <2>2
  <2>4. lastNum \in Nat /\ lastLba \in Nat /\ lba \in Nat /\ lastLba + lastNum = lba
        /\ cbw.lba \in Nat
    BY <1>0, <1>1, CommandType DEF TypeOK, PositionInv
  <2>5. Len(buf[1 - bufIdx]) = lastNum /\ Len(received) = lastLba - cbw.lba
    <3>1. Copied(buf[1 - bufIdx], lastLba, lastNum)
      BY <1>0 DEF ReadInv
    <3> QED
      BY <1>0, <2>4, <3>1 DEF ReadInv, Copied
  <2>6. Len(received') = lba - cbw.lba
    <3>1. Len(received') = (lastLba - cbw.lba) + lastNum
      BY <2>3, <2>5
    <3>2. (lastLba - cbw.lba) + lastNum = lba - cbw.lba
      BY <2>4
    <3> QED
      BY <3>1, <3>2
  <2>7. TypeOK' /\ PhaseInv' /\ StatusInv'
    BY <1>0, <1>1, <1>3, <2>1, <2>3 DEF TypeOK, PhaseInv, StatusInv, Phases, WritePcs, Moving
  <2>8. PositionInv' /\ ResidueInv'
    BY <1>0, <1>1, <1>3, <2>1
       DEF PositionInv, ResidueInv, Reading, WritePcs, Ended, RestInv, MediaOps, PhaseInv,
           Unmoved, Chunk
  <2>9. XferInv' /\ WriteInv'
    BY <1>0, <1>3 DEF XferInv, WriteInv, Reading, WritePcs, Disk, Lun, Alive
  <2>10. ReadInv'
    BY <1>0, <1>3, <2>6 DEF ReadInv, Reading, WritePcs, Disk, Lun, Alive, Copied
  <2> QED
    BY <1>2, <2>7, <2>8, <2>9, <2>10
<1>4. CASE pc' = "csw"
  <2>1. csw' = [residue |-> 0, status |-> 1] /\ bError' = 5 /\ SendFailed /\ UNCHANGED received
    BY <1>4 DEF read_send, stall_error
  <2>2. xfer = NoXfer
    BY <1>0, <1>1, <2>1, ChunkFits DEF SendFailed, ReadInv, Reading
  <2>3. cbw.num > 0
    <3>1. left <= cbw.num /\ lba + left = cbw.lba + cbw.num /\ lastNum > 0 /\ lastLba + lastNum = lba
          /\ lastLba >= cbw.lba
      BY <1>0 DEF PositionInv, Reading
    <3>2. lba \in Nat /\ lastNum \in Nat /\ lastLba \in Nat /\ cbw.lba \in Nat
      BY <1>1, CommandType DEF TypeOK
    <3> QED
      BY <1>1, <3>1, <3>2
  <2>4. Why'
    BY <1>0, <1>1, <2>1, <2>3 DEF Why, CheckOps
  <2>5. TypeOK' /\ PhaseInv' /\ StatusInv'
    BY <1>0, <1>1, <1>4, <2>1, <2>4, Sizes
       DEF TypeOK, PhaseInv, StatusInv, Phases, WritePcs, Moving, Errors
  <2>6. cbw.len \in Nat
    BY <1>1, CommandType
  <2>7. PositionInv' /\ ResidueInv'
    BY <1>0, <1>4, <2>1, <2>6
       DEF PositionInv, ResidueInv, Reading, WritePcs, Ended, RestInv, MediaOps, PhaseInv
  <2>8. XferInv' /\ ReadInv' /\ WriteInv'
    BY <1>0, <1>1, <1>4, <2>1, <2>2 DEF XferInv, ReadInv, WriteInv, Reading, WritePcs
  <2> QED
    BY <1>2, <2>5, <2>7, <2>8
<1> QED
  BY <1>0, <1>3, <1>4

\* The read loop goes on to the next chunk: the one before is in the buffer that
\* goes to the host, the next is being read into the other.
LEMMA ReadNextInv == ASSUME IInv, read_next PROVE IInv'
<1> USE DEF IInv
<1>0. /\ UNCHANGED <<active, dev_name, named, cbw, stalled, buf, online, media, host, answer,
                     received, bad>>
      /\ pc = "next" /\ left > 0 /\ lastNum' = num /\ lastLba' = lba /\ bufIdx' = 1 - bufIdx
      /\ lba' = lba + num /\ left' = left - num /\ num' = Chunk(left')
      /\ pc' \in {"send", "csw"}
  BY DEF read_next, slots, hostVars, Flip
<1>1. /\ Lun \in Units /\ csw \in [residue : 0..(U32 - 1), status : 0..1]
      /\ csw.status = 0 /\ ~stalled /\ cbw.op = "READ_10" /\ cbw \in Commands
      /\ bufIdx \in 0..1 /\ Disk # NoDisk
  BY <1>0, CommandType DEF TypeOK, Lun, StatusInv, Moving, PhaseInv, WritePcs, ReadInv, Reading
<1>2. /\ cbw.len \in Nat /\ cbw.num \in Nat /\ cbw.lba \in Nat /\ left \in Nat /\ lba \in Nat
      /\ num \in Nat /\ num <= left /\ num > 0 /\ left <= cbw.num
      /\ lba + left = cbw.lba + cbw.num
  <2>1. cbw.len \in Nat /\ cbw.num \in Nat /\ cbw.lba \in Nat
    BY <1>1, CommandType
  <2>2. left \in Nat /\ lba \in Nat
    BY DEF TypeOK
  <2>3. num = Chunk(left) /\ left <= cbw.num /\ lba + left = cbw.lba + cbw.num
    BY <1>0 DEF PositionInv, Reading
  <2> QED
    BY <1>0, <2>1, <2>2, <2>3, ChunkFits
<1>3. /\ left' \in Nat /\ lba' \in Nat /\ num' \in Nat /\ left' <= cbw.num /\ num' <= left'
      /\ (num' = 0 <=> left' = 0) /\ lba' + left' = cbw.lba + cbw.num /\ lba >= cbw.lba
  <2>1. left' \in Nat /\ lba' \in Nat /\ left' <= cbw.num /\ lba' + left' = cbw.lba + cbw.num
        /\ lba >= cbw.lba
    <3>1. left' = left - num /\ lba' = lba + num
      BY <1>0
    <3> QED
      BY <1>2, <3>1
  <2> QED
    BY <1>0, <2>1, ChunkFits
<1>4. /\ dev_handle' \in [Units -> Disks \cup {NoDisk}] /\ lost' \subseteq Units
      /\ SlotInv' /\ LostInv'
      /\ Present(Lun) => dev_handle' = dev_handle /\ lost' = lost /\ Alive(Lun) /\ Disk \in Disks
  <2>1. CASE UNCHANGED opened
    <3>1. UNCHANGED <<dev_handle, lost, dev_name, named, online>>
      BY <1>0, <2>1 DEF opened
    <3>2. Present(Lun) => Alive(Lun)
      BY <1>1 DEF Present, Disk
    <3>3. dev_handle \in [Units -> Disks \cup {NoDisk}] /\ lost \subseteq Units
      BY DEF TypeOK
    <3>4. SlotInv' /\ LostInv'
      BY <3>1 DEF SlotInv, LostInv
    <3> QED
      BY <1>1, <3>1, <3>2, <3>3, <3>4 DEF Disk
  <2>2. CASE check_disk_status(Lun)
    <3>1. Lun \in Units /\ UNCHANGED <<cbw, dev_name, named, online>> /\ dev_handle[Lun] # NoDisk
          /\ dev_handle[Lun] \in Disks \cup {NoDisk}
      BY <1>0, <1>1 DEF Disk, TypeOK
    <3> QED
      BY <2>2, <3>1, CheckedSlot DEF Lun, Disk
  <2>3. UNCHANGED opened \/ check_disk_status(Lun)
    BY DEF read_next, Lun
  <2> QED
    BY <2>1, <2>2, <2>3
<1>5. csw.residue > 0 /\ Enough(num) /\ csw.residue - num * BlockSize \in 0..(U32 - 1)
      /\ csw.residue - num * BlockSize = cbw.len - (cbw.num - left') * BlockSize
  <2>1. csw.residue = cbw.len - (cbw.num - left) * BlockSize /\ cbw.len >= cbw.num * BlockSize
        /\ csw.residue \in 0..(U32 - 1)
    BY <1>0, <1>1, CommandType DEF ResidueInv, Reading, Unmoved, MediaOps
  <2>2. (cbw.num - left) * BlockSize = cbw.num * BlockSize - left * BlockSize
        /\ cbw.num * BlockSize \in Nat /\ left * BlockSize \in Nat /\ num * BlockSize \in Nat
        /\ num * BlockSize <= left * BlockSize /\ num * BlockSize > 0
    BY <1>2, MoreBytes, Bytes
  <2>3. (cbw.num - left') * BlockSize = (cbw.num - left) * BlockSize + num * BlockSize
    <3>1. cbw.num - left \in Nat /\ cbw.num - (left - num) = (cbw.num - left) + num
      BY <1>2
    <3>2. ((cbw.num - left) + num) * BlockSize = (cbw.num - left) * BlockSize + num * BlockSize
      BY <1>2, <3>1, Bytes
    <3> QED
      BY <1>0, <3>1, <3>2
  <2> QED
    BY <1>2, <2>1, <2>2, <2>3, Sizes DEF Enough
<1>6. SenseNamesTheFailure'
  BY <1>0 DEF SenseNamesTheFailure, PhaseInv
<1>7. CASE pc' = "send"
  <2>1. UNCHANGED <<bError, bSenseKey>> /\ csw' = Consumed(num)
        /\ IF num' > 0 THEN Takes("read", bufIdx', lba', num')
                       ELSE Present(Lun) /\ xfer = NoXfer /\ UNCHANGED xfer
    BY <1>7 DEF read_next, sense, LastFlush, Lun
  <2>2. csw' = [residue |-> csw.residue - num * BlockSize, status |-> 0]
    BY <1>1, <1>5, <2>1 DEF Consumed
  <2>3. /\ Present(Lun) /\ xfer = NoXfer
        /\ num' = 0 => xfer' = NoXfer
        /\ num' > 0 => xfer' = [kind |-> "read", buf |-> bufIdx', disk |-> dev_handle'[Lun],
                                lba |-> lba', num |-> num']
    BY <1>3, <2>1 DEF Takes, Lun
  <2>4. dev_handle' = dev_handle /\ lost' = lost /\ Alive(Lun) /\ Disk' = Disk /\ Lun' = Lun
        /\ Alive(Lun)' /\ Disk \in Disks /\ dev_handle'[Lun] = Disk
    BY <1>0, <1>4, <2>3 DEF Disk, Lun, Alive
  <2>5. xfer' \in Transfer /\ (xfer'.kind = "none" => xfer' = NoXfer) /\ (num' > 0 => xfer' # NoXfer)
    <3>1. CASE num' = 0
      BY <2>3, <3>1 DEF Transfer, NoXfer
    <3>2. CASE num' > 0
      BY <1>0, <1>1, <1>3, <2>3, <2>4, <3>2 DEF Transfer, NoXfer
    <3> QED
      BY <1>3, <3>1, <3>2
  <2>6. TypeOK'
    <3>1. csw' \in [residue : 0..(U32 - 1), status : 0..1]
      BY <1>5, <2>2
    <3>2. lba' \in Nat /\ left' \in Nat /\ num' \in Nat /\ lastLba' \in Nat /\ lastNum' \in Nat
          /\ bufIdx' \in 0..1
      BY <1>0, <1>1, <1>2, <1>3
    <3> QED
      BY <1>0, <1>4, <1>7, <2>1, <2>5, <3>1, <3>2 DEF TypeOK, Phases
  <2>7. PhaseInv' /\ StatusInv'
    BY <1>0, <1>1, <1>7, <2>2 DEF PhaseInv, StatusInv, WritePcs, Moving
  <2>8. PositionInv'
    BY <1>0, <1>2, <1>3, <1>7 DEF PositionInv, Reading, WritePcs, Chunk
  <2>9. ResidueInv'
    BY <1>0, <1>5, <1>7, <2>2 DEF ResidueInv, Reading, Ended, RestInv, MediaOps, Unmoved, PhaseInv
  <2>10. XferInv'
    BY <1>0, <1>1, <1>3, <1>7, <2>3, <2>4 DEF XferInv, Reading, WritePcs
  <2>11. Copied(buf[1 - bufIdx'], lba, num)
    BY <1>0, <1>1, <1>2, <2>3, <2>4 DEF ReadInv, Reading
  <2>12. ReadInv'
    BY <1>0, <1>1, <1>3, <1>7, <2>3, <2>4, <2>5, <2>11 DEF ReadInv, Reading, Copied
  <2>13. WriteInv'
    BY <1>0, <1>7 DEF WriteInv, WritePcs
  <2> QED
    BY <1>4, <1>6, <2>6, <2>7, <2>8, <2>9, <2>10, <2>12, <2>13
<1>8. CASE pc' = "csw"
  <2>1. csw' = [residue |-> 0, status |-> 1] /\ bError' = MEDIUM_ERROR /\ UNCHANGED bSenseKey
        /\ Refuses
    BY <1>5, <1>8 DEF read_next, stall_error
  <2>2. xfer' = NoXfer
    <3>1. xfer # NoXfer => Alive(Lun)
      BY DEF XferInv
    <3> QED
      BY <1>1, <2>1, <3>1 DEF Refuses, Lun, Disk, Present
  <2>3. NoXfer \in Transfer
    BY DEF NoXfer, Transfer
  <2>4. Why'
    BY <1>0, <1>1, <1>2, <2>1 DEF Why, CheckOps
  <2>5. TypeOK'
    <3>1. csw' \in [residue : 0..(U32 - 1), status : 0..1] /\ bError' \in Errors
      BY <2>1, Sizes DEF Errors
    <3>2. lba' \in Nat /\ left' \in Nat /\ num' \in Nat /\ lastLba' \in Nat /\ lastNum' \in Nat
          /\ bufIdx' \in 0..1 /\ pc' \in Phases
      BY <1>0, <1>1, <1>2, <1>3, <1>8 DEF Phases
    <3> QED
      BY <1>0, <1>4, <2>1, <2>2, <2>3, <3>1, <3>2 DEF TypeOK
  <2>6. PhaseInv' /\ StatusInv'
    BY <1>0, <1>1, <1>8, <2>1, <2>4 DEF PhaseInv, StatusInv, WritePcs, Moving
  <2>7. PositionInv' /\ ResidueInv'
    BY <1>0, <1>2, <1>8, <2>1
       DEF PositionInv, ResidueInv, Reading, WritePcs, Ended, RestInv, MediaOps, PhaseInv
  <2>8. XferInv' /\ ReadInv' /\ WriteInv'
    BY <1>0, <1>1, <1>8, <2>1, <2>2 DEF XferInv, ReadInv, WriteInv, Reading, WritePcs
  <2> QED
    BY <1>4, <1>6, <2>5, <2>6, <2>7, <2>8
<1> QED
  BY <1>0, <1>7, <1>8

\* A read that is complete.
LEMMA ReadEndInv == ASSUME IInv, read_end PROVE IInv'
<1> USE DEF IInv
<1>0. /\ UNCHANGED <<active, dev_name, named, dev_handle, lost, csw, bError, bSenseKey, cbw, lba, left,
                     num, lastLba, lastNum, bufIdx, stalled, buf, online, media, xfer, host,
                     answer, received, bad>>
      /\ pc = "next" /\ left = 0 /\ pc' = "csw"
  BY DEF read_end, slots, opened, reply, sense, local, chunk, hostVars
<1>1. /\ csw.status = 0 /\ cbw.op = "READ_10" /\ ~stalled /\ cbw \in Commands
      /\ cbw.num \in Nat /\ cbw.lba \in Nat /\ cbw.len \in Nat /\ lba \in Nat
      /\ lba + left = cbw.lba + cbw.num
  BY <1>0, CommandType DEF TypeOK, StatusInv, Moving, PhaseInv, WritePcs, PositionInv, Reading
<1>2. num = 0 /\ xfer = NoXfer
  BY <1>0, ChunkFits DEF PositionInv, ReadInv, Reading
<1>3. TypeOK' /\ PhaseInv' /\ StatusInv'
  BY <1>0, <1>1 DEF TypeOK, Phases, PhaseInv, StatusInv, Moving, WritePcs
<1>4. PositionInv' /\ XferInv' /\ WriteInv' /\ SlotInv' /\ LostInv' /\ SenseNamesTheFailure'
  BY <1>0, <1>1, <1>2 DEF PositionInv, XferInv, WriteInv, Reading, WritePcs, SlotInv, LostInv,
                    SenseNamesTheFailure, PhaseInv
<1>5. csw.residue = cbw.len - cbw.num * BlockSize /\ cbw.num * BlockSize \in Nat
  <2>1. csw.residue = cbw.len - (cbw.num - left) * BlockSize
    BY <1>0 DEF ResidueInv, Reading, Unmoved
  <2>2. cbw.num - left = cbw.num
    BY <1>0, <1>1
  <2> QED
    BY <1>1, <2>1, <2>2, Bytes
<1>6. ResidueInv'
  BY <1>0, <1>1, <1>5 DEF ResidueInv, Reading, Ended, RestInv, MediaOps, Unmoved
<1>7. Len(received) = cbw.num
  BY <1>0, <1>1 DEF ReadInv
<1>8. ReadInv'
  BY <1>0, <1>7 DEF ReadInv, Reading
<1> QED
  BY <1>3, <1>4, <1>6, <1>8

\* The answer: the sense key is that of the error.
LEMMA SendCswInv == ASSUME IInv, send_csw PROVE IInv'
<1> USE DEF IInv
<1>0. /\ UNCHANGED <<active, dev_name, named, dev_handle, lost, csw, bError, cbw, online, media, xfer>>
      /\ pc = "csw" /\ pc' = "idle" /\ bSenseKey' = SenseKey /\ host' = "free"
      /\ answer' = IF host = "gone" THEN "lost"
                   ELSE IF csw.status = 0 THEN "passed" ELSE "failed"
      /\ received' = <<>> /\ lba' = 0 /\ left' = 0 /\ num' = 0 /\ lastLba' = 0 /\ lastNum' = 0
      /\ bufIdx' = 0 /\ stalled' = FALSE /\ buf' = NoData /\ bad' = {}
  BY DEF send_csw, slots, opened
<1>1. xfer = NoXfer /\ cbw \in Commands /\ active /\ csw.status \in 0..1
  BY <1>0 DEF XferInv, Reading, WritePcs, TypeOK, PhaseInv
<1>2. bSenseKey' \in Keys
  BY <1>0 DEF SenseKey, Keys, TypeOK, Errors, MEDIUM_ERROR
<1>3. TypeOK'
  <2>1. buf' \in [0..1 -> Seq(Values)] /\ received' \in Seq(Values)
    BY <1>0, EmptyBuffers
  <2>2. /\ pc' \in Phases /\ lba' \in Nat /\ left' \in Nat /\ num' \in Nat /\ lastLba' \in Nat
        /\ lastNum' \in Nat /\ bufIdx' \in 0..1
        /\ host' \in {"free", "waiting", "gone"}
        /\ answer' \in {"none", "ready", "passed", "failed", "lost"}
    BY <1>0 DEF Phases
  <2>3. stalled' \in BOOLEAN
    BY <1>0, Zenon
  <2> QED
    BY <1>0, <1>2, <2>1, <2>2, <2>3 DEF TypeOK
<1>4. PhaseInv' /\ StatusInv'
  BY <1>0, <1>1 DEF PhaseInv, StatusInv, Moving, WritePcs
<1>5. PositionInv' /\ XferInv' /\ ReadInv' /\ WriteInv'
  BY <1>0, <1>1 DEF PositionInv, XferInv, ReadInv, WriteInv, Reading, WritePcs
<1>6. ResidueInv'
  BY <1>0 DEF ResidueInv, Reading, Ended, RestInv, MediaOps, Unmoved, Short, Rest
<1>7. SlotInv' /\ LostInv'
  BY <1>0 DEF SlotInv, LostInv
<1>8. SenseNamesTheFailure'
  <2>1. answer' = "failed" => Why
    BY <1>0, <1>1 DEF StatusInv
  <2>2. cbw.num \in Nat
    BY <1>1, CommandType
  <2> QED
    BY <1>0, <2>1, <2>2 DEF SenseNamesTheFailure, Why, SenseKey, CheckOps, MEDIUM_ERROR
<1> QED
  BY <1>3, <1>4, <1>5, <1>6, <1>7, <1>8

\* The invariant holds at the start and after every step.
LEMMA InitInv == Init => IInv
<1> SUFFICES ASSUME Init PROVE IInv
  OBVIOUS
<1>1. cbw \in Commands
  BY MsdAssumption DEF Init
<1>2. TypeOK
  <2>1. csw \in [residue : 0..(U32 - 1), status : 0..1]
    BY Sizes DEF Init, ZeroCsw
  <2>2. xfer = NoXfer /\ xfer \in Transfer
    BY DEF Init, Transfer, NoXfer
  <2>3. buf \in [0..1 -> Seq(Values)] /\ received \in Seq(Values)
    BY EmptyBuffers DEF Init
  <2>4. media \in [Disks -> [0..(Capacity - 1) -> Values]]
    BY MsdAssumption DEF Init
  <2>5. dev_name \in [Units -> Disks \cup {NoDisk}] /\ dev_handle \in [Units -> Disks \cup {NoDisk}]
    BY DEF Init, NoDisks
  <2>9. named \in [Units -> Disks \cup {NoDisk}] /\ bad \subseteq Nat
    BY DEF Init, NoDisks
  <2>6. /\ bError \in Errors /\ bSenseKey \in Keys /\ pc \in Phases
        /\ lba \in Nat /\ left \in Nat /\ num \in Nat /\ lastLba \in Nat /\ lastNum \in Nat
        /\ bufIdx \in 0..1
    BY DEF Init, Errors, Keys, Phases
  <2>7. /\ online \subseteq Disks /\ lost \subseteq Units
        /\ host \in {"free", "waiting", "gone"}
        /\ answer \in {"none", "ready", "passed", "failed", "lost"}
    BY DEF Init
  <2>8. active \in BOOLEAN /\ stalled \in BOOLEAN
    BY Zenon DEF Init
  <2> QED
    BY <1>1, <2>1, <2>2, <2>3, <2>4, <2>5, <2>6, <2>7, <2>8, <2>9 DEF TypeOK
<1>3. PhaseInv /\ StatusInv /\ PositionInv /\ ResidueInv /\ SenseNamesTheFailure
  BY DEF Init, PhaseInv, StatusInv, Moving, PositionInv, ResidueInv, Reading, WritePcs, Ended,
         RestInv, MediaOps, ZeroCsw,
         SenseNamesTheFailure
<1>4. LostInv /\ SlotInv /\ XferInv /\ ReadInv /\ WriteInv
  BY DEF Init, LostInv, SlotInv, NoDisks, XferInv, ReadInv, WriteInv, Reading, WritePcs
<1> QED
  BY <1>2, <1>3, <1>4 DEF IInv

\* A step in which nothing happens.
LEMMA StutterInv == IInv /\ UNCHANGED vars => IInv'
<1> SUFFICES ASSUME IInv, UNCHANGED vars PROVE IInv'
  OBVIOUS
<1> USE DEF IInv, vars, slots, opened, sense, reply, local, chunk, hostVars
<1>1. TypeOK' /\ PhaseInv' /\ StatusInv'
  BY DEF TypeOK, PhaseInv, StatusInv, Moving, Why
<1>2. PositionInv' /\ ResidueInv'
  BY DEF PositionInv, Reading, WritePcs, Chunk, ResidueInv, Ended, RestInv, MediaOps, Unmoved,
         Short, Rest
<1>3. XferInv' /\ ReadInv' /\ WriteInv'
  BY DEF XferInv, ReadInv, WriteInv, Reading, WritePcs, Disk, Lun, Alive, Copied, Stored
<1>4. SlotInv' /\ SenseNamesTheFailure' /\ LostInv'
  BY DEF SlotInv, SenseNamesTheFailure, LostInv
<1> QED
  BY <1>1, <1>2, <1>3, <1>4

\* Every step keeps the invariant: one case for each action.
LEMMA StepInv == IInv /\ [Next]_vars => IInv'
<1> SUFFICES ASSUME IInv, [Next]_vars PROVE IInv'
  OBVIOUS
<1>1. CASE Handler
  BY <1>1, CommandInv, WriteReceiveInv, WriteStoreInv, WriteFlushInv, ReadFirstInv, ReadNextInv,
     ReadSendInv, ReadEndInv, SendCswInv DEF Handler
<1>2. CASE Registration
  BY <1>2, RegisterInv, RegisterDiskInv, UnregisterDiskInv, CloseAllInv DEF Registration
<1>3. CASE Environment
  BY <1>3, GiveUpInv, PullInv, InsertInv DEF Environment
<1>4. CASE \E c \in Commands : get_cbw(c)
  BY <1>4, GetCbwInv
<1> QED
  BY <1>1, <1>2, <1>3, <1>4, LandInv, StutterInv DEF Next

\* The inductive invariant holds in every state.
LEMMA Invariant == Spec => []IInv
BY InitInv, StepInv, PTL DEF Spec

-----------------------------------------------------------------------------
(* Theorems.                                                                *)

\* TypeOK: every variable keeps its type, the residue its 32 bits.
THEOREM TypeCorrect == Spec => []TypeOK
BY Invariant, PTL DEF IInv

\* AnsweredIsSettled: no transfer is left in the background, however a command
\* of USB_MassStorage ended.
THEOREM Settled == Spec => []AnsweredIsSettled
<1>1. IInv => AnsweredIsSettled
  BY DEF IInv, XferInv, AnsweredIsSettled, Reading, WritePcs
<1> QED
  BY <1>1, Invariant, PTL

\* BufferNotShared: the buffer that msd_write_10_async fills or msd_read_10_async
\* sends is not with the disk.
THEOREM NotShared == Spec => []BufferNotShared
<1>1. ASSUME IInv PROVE BufferNotShared
  <2>1. bufIdx \in 0..1
    BY <1>1 DEF IInv, TypeOK
  <2>2. pc = "write" /\ xfer # NoXfer => xfer.buf = 1 - bufIdx
    BY <1>1 DEF IInv, XferInv
  <2>3. pc = "send" /\ xfer # NoXfer => xfer.buf = bufIdx
    BY <1>1 DEF IInv, XferInv, Reading
  <2> QED
    BY <2>1, <2>2, <2>3 DEF BufferNotShared
<1> QED
  BY <1>1, Invariant, PTL

\* SenseNamesTheFailure: the sense key that REQUEST_SENSE will report after a
\* failed command is that of its failure, but after an unknown data-out command.
THEOREM SenseIsTrue == Spec => []SenseNamesTheFailure
BY Invariant, PTL DEF IInv

\* HandleIsOfName: the handle of a slot is that of the name registered in it last,
\* which msd_unregister_disk leaves open, and never of a name before.
THEOREM HandleOfItsName == Spec => []HandleIsOfName
<1>1. IInv => HandleIsOfName
  BY DEF IInv, SlotInv, HandleIsOfName
<1> QED
  BY <1>1, Invariant, PTL

\* ResidueIsHonest, when no host asks read_format_capacity for less than the 12
\* bytes that it subtracts.
THEOREM HonestResidue ==
    ASSUME \A c \in Commands : ~Short(c)
    PROVE  Spec => []ResidueIsHonest
<1>1. ASSUME IInv PROVE ResidueIsHonest
  <2>1. cbw \in Commands
    BY <1>1 DEF IInv, TypeOK
  <2>2. ~Short(cbw)
    BY <2>1
  <2>3. active \/ answer = "ready"
    BY <1>1 DEF IInv, PhaseInv
  <2>4. answer = "passed" => csw.status = 0
    BY <1>1, <2>3 DEF IInv, StatusInv
  <2>5. cbw.op \in MediaOps => cbw.op \in Counted /\ Moved(cbw) = cbw.num * BlockSize
    BY DEF Counted, Moved, MediaOps
  <2>6. answer = "passed" => csw.residue = IF cbw.op \in Counted THEN cbw.len - Moved(cbw) ELSE 0
    BY <1>1, <2>2, <2>4, <2>5 DEF IInv, ResidueInv, Ended, RestInv, Rest, Unmoved
  <2> QED
    BY <1>1, <2>2, <2>6 DEF IInv, ResidueInv, ResidueIsHonest, Ended
<1> QED
  BY <1>1, Invariant, PTL

-----------------------------------------------------------------------------
(* The refinement of BulkOnlyDisk.                                          *)

\* What serves the slots is a disk or nothing.
LEMMA ServesType == TypeOK => [u \in Units |-> Serves(u)] \in [Units -> Disks \cup {NoDisk}]
BY DEF TypeOK, Serves

\* The first state is one of BulkOnlyDisk.
LEMMA AbstractInit == Init => Abstract!Init
<1> SUFFICES ASSUME Init PROVE Abstract!Init
  OBVIOUS
<1>1. TypeOK
  BY InitInv DEF IInv
<1>2. [u \in Units |-> Serves(u)] \in [Units -> Disks \cup {NoDisk}]
  BY <1>1, ServesType
<1>3. media \in [Disks -> [0..(Capacity - 1) -> Values]] /\ cbw \in Commands
  BY <1>1 DEF TypeOK
<1> QED
  BY <1>2, <1>3 DEF Init, Abstract!Init

\* Whatever only changes handles and names attaches and detaches disks.
LEMMA Attaches ==
    ASSUME TypeOK', UNCHANGED <<media, cbw, received, bad, answer>>
    PROVE  Abstract!Next
<1>1. [u \in Units |-> Serves(u)]' \in [Units -> Disks \cup {NoDisk}]
  BY DEF TypeOK, Serves
<1> QED
  BY <1>1 DEF Abstract!Next, Abstract!Attach

\* What lands are blocks of the command, on the disk of its unit: a write stores
\* some of them, and those that fail are bad from then on.
LEMMA LandStores == IInv /\ Land => Abstract!Next
<1> SUFFICES ASSUME IInv, Land PROVE Abstract!Next
  OBVIOUS
<1>1. UNCHANGED <<cbw, received, answer, dev_handle, dev_name, lost, pc>> /\ xfer # NoXfer
  BY DEF Land, local, opened, slots
<1>2. [u \in Units |-> Serves(u)]' = [u \in Units |-> Serves(u)]
  BY <1>1 DEF Serves
<1>3. /\ Reading \/ pc \in WritePcs
      /\ xfer.disk = Disk /\ Disk \in Disks /\ cbw \in Commands /\ num \in Nat
      /\ lba \in Nat /\ left \in Nat /\ xfer.lba \in Nat /\ xfer.num \in Nat
      /\ answer = "none"
  BY <1>1 DEF IInv, TypeOK, Transfer, XferInv, PhaseInv, Reading, WritePcs
<1>4. lba + left = cbw.lba + cbw.num /\ left <= cbw.num
      /\ (Reading => num = Chunk(left) /\ xfer.kind = "read" /\ xfer.lba = lba /\ xfer.num = num)
  BY <1>1, <1>3 DEF IInv, PositionInv, XferInv, Reading
<1>5. cbw.lba \in Nat /\ cbw.num \in Nat /\ Lun \in Units
  BY <1>3, CommandType DEF Lun
<1>6. [u \in Units |-> Serves(u)][Lun] = Disk /\ Disk # NoDisk
  BY <1>3, <1>5, MsdAssumption DEF Serves, Disk
<1>7. pc \in WritePcs => /\ cbw.lba <= xfer.lba /\ xfer.lba + xfer.num = lba
                         /\ buf[xfer.buf] = [i \in 1..xfer.num |-> cbw.val]
                         /\ cbw.op = "WRITE_10" /\ xfer.kind = "write"
  BY <1>1 DEF IInv, XferInv, PhaseInv
<1>8. \A b \in xfer.lba..(xfer.lba + xfer.num - 1) : b \in Abstract!Blocks(cbw)
  <2>1. xfer.lba >= cbw.lba /\ xfer.lba + xfer.num <= cbw.lba + cbw.num
    <3>1. CASE Reading
      <4>1. num <= left
        BY <1>3, <1>4, <3>1, ChunkFits
      <4> QED
        BY <1>3, <1>4, <1>5, <3>1, <4>1
    <3>2. CASE pc \in WritePcs
      BY <1>3, <1>4, <1>5, <1>7, <3>2
    <3> QED
      BY <1>3, <3>1, <3>2
  <2> QED
    BY <1>3, <1>5, <2>1 DEF Abstract!Blocks
<1>9. ASSUME NEW moved \in 0..xfer.num,
             bad' = bad \cup (xfer.lba + moved)..(xfer.lba + xfer.num - 1)
      PROVE  Abstract!Fail
  <2> DEFINE F == (xfer.lba + moved)..(xfer.lba + xfer.num - 1)
  <2>1. \A b \in F : b \in xfer.lba..(xfer.lba + xfer.num - 1)
    BY <1>3
  <2>2. F \in SUBSET Abstract!Blocks(cbw)
    BY <1>8, <2>1
  <2> QED
    BY <1>3, <1>6, <1>9, <2>2 DEF Abstract!Fail, Lun
<1>10. CASE Reading
  <2>1. UNCHANGED media /\ \E moved \in 0..xfer.num :
            bad' = bad \cup (xfer.lba + moved)..(xfer.lba + xfer.num - 1)
    BY <1>4, <1>10 DEF Land
  <2>2. Abstract!Fail
    BY <1>9, <2>1
  <2> QED
    BY <1>1, <1>2, <2>1, <2>2 DEF Abstract!Skip, Abstract!Next
<1>11. CASE pc \in WritePcs
  <2> PICK moved \in 0..xfer.num :
            /\ bad' = bad \cup (xfer.lba + moved)..(xfer.lba + xfer.num - 1)
            /\ media' = [media EXCEPT ![xfer.disk] = [b \in DOMAIN @ |->
                 IF b \in xfer.lba..(xfer.lba + moved - 1)
                 THEN buf[xfer.buf][b - xfer.lba + 1] ELSE @[b]]]
    BY <1>7, <1>11 DEF Land
  <2> DEFINE S == xfer.lba..(xfer.lba + moved - 1)
  <2>1. \A b \in S : b \in xfer.lba..(xfer.lba + xfer.num - 1) /\ b - xfer.lba + 1 \in 1..xfer.num
    BY <1>3
  <2>2. \A b \in S : buf[xfer.buf][b - xfer.lba + 1] = cbw.val
    BY <1>7, <1>11, <2>1
  <2>3. [b \in DOMAIN media[Disk] |-> IF b \in S THEN buf[xfer.buf][b - xfer.lba + 1] ELSE media[Disk][b]]
        = [b \in DOMAIN media[Disk] |-> IF b \in S THEN cbw.val ELSE media[Disk][b]]
    BY <2>2
  <2>4. media' = [media EXCEPT ![Disk] =
            [b \in DOMAIN media[Disk] |-> IF b \in S THEN cbw.val ELSE media[Disk][b]]]
    BY <1>3, <2>3
  <2> HIDE DEF S
  <2>5. S \in SUBSET Abstract!Blocks(cbw)
    BY <1>8, <2>1
  <2>6. Abstract!Fail
    BY <1>9
  <2>7. PICK D : D = [u \in Units |-> Serves(u)][Lun]
    OBVIOUS
  <2>8. D = Disk
    BY <1>6, <2>7
  <2>9. media' = Abstract!Filled(D, S)
    BY <2>4, <2>8 DEF Abstract!Filled
  <2>10. media' = Abstract!Filled([u \in Units |-> Serves(u)][Lun], S)
    BY <2>7, <2>9
  <2>11. [u \in Units |-> Serves(u)][Lun] # NoDisk /\ answer = "none" /\ cbw.op = "WRITE_10"
    BY <1>3, <1>6, <1>7, <1>11
  <2>12. Abstract!Store
    BY <1>1, <1>2, <2>5, <2>6, <2>10, <2>11
       DEF Abstract!Store, Abstract!Outstanding, Lun
  <2> QED
    BY <2>12 DEF Abstract!Next
<1> QED
  BY <1>3, <1>10, <1>11

\* A chunk that is sent consists of the next blocks of the command.
LEMMA SendDelivers == IInv /\ read_send => Abstract!Next
<1> SUFFICES ASSUME IInv, read_send PROVE Abstract!Next
  OBVIOUS
<1>1. TypeOK'
  BY ReadSendInv DEF IInv
<1>2. /\ UNCHANGED <<cbw, answer, dev_handle, dev_name, lost, media, bad>> /\ pc = "send"
  BY DEF read_send, slots, opened, local
<1>3. CASE UNCHANGED received
  BY <1>1, <1>2, <1>3, Attaches
<1>4. CASE ~ UNCHANGED received
  <2>1. received' = received \o buf[1 - bufIdx]
    BY <1>4 DEF read_send
  <2>2. /\ Copied(buf[1 - bufIdx], lastLba, lastNum) /\ Len(received) = lastLba - cbw.lba
        /\ Disk # NoDisk /\ cbw.op = "READ_10" /\ answer = "none"
        /\ lastNum > 0 /\ lastLba + lastNum = lba /\ lba + left = cbw.lba + cbw.num
    BY <1>2 DEF IInv, ReadInv, Reading, PhaseInv, PositionInv
  <2>3. cbw \in Commands /\ lba \in Nat /\ left \in Nat /\ lastLba \in Nat /\ lastNum \in Nat
    BY DEF IInv, TypeOK
  <2>4. cbw.lba \in Nat /\ cbw.num \in Nat /\ Lun \in Units
    BY <2>3, CommandType DEF Lun
  <2>5. lastNum \in 1..(cbw.num - Len(received)) /\ cbw.lba + Len(received) = lastLba
    BY <2>2, <2>3, <2>4
  <2>6. [u \in Units |-> Serves(u)][Lun] = Disk
    BY <2>2, <2>4 DEF Serves, Disk
  <2>a. received \in Seq(Values) /\ buf[1 - bufIdx] \in Seq(Values)
    BY DEF IInv, TypeOK
  <2>b. /\ Len(buf[1 - bufIdx]) = lastNum /\ received' \in Seq(Values)
        /\ Len(received') = Len(received) + lastNum /\ Len(received) \in Nat
    <3>1. Len(buf[1 - bufIdx]) = lastNum
      BY <2>2 DEF Copied
    <3> QED
      BY <2>1, <2>a, <3>1, Appended
  <2>7. Len(received') \in (Len(received) + 1)..cbw.num
    BY <2>2, <2>3, <2>4, <2>b
  <2>c. ASSUME NEW i \in 1..Len(received')
        PROVE  IF i <= Len(received) THEN received'[i] = received[i]
               ELSE \/ cbw.lba + i - 1 \in bad
                    \/ received'[i] = media[[u \in Units |-> Serves(u)][Lun]][cbw.lba + i - 1]
    <3>1. CASE i <= Len(received)
      BY <2>1, <2>a, <2>b, <3>1, Appended
    <3>2. CASE ~(i <= Len(received))
      <4>1. i - Len(received) \in 1..lastNum
        BY <2>a, <2>b, <2>3, <3>2
      <4>2. received'[i] = buf[1 - bufIdx][i - Len(received)]
        BY <2>1, <2>a, <2>b, <3>2, Appended
      <4>3. lastLba + (i - Len(received)) - 1 = cbw.lba + i - 1
        <5>1. lastLba = cbw.lba + Len(received) /\ cbw.lba \in Nat /\ Len(received) \in Nat /\ i \in Int
          BY <2>4, <2>5, <2>b
        <5> QED
          BY <5>1
      <4>4. \/ lastLba + (i - Len(received)) - 1 \in bad
            \/ buf[1 - bufIdx][i - Len(received)] = media[Disk][lastLba + (i - Len(received)) - 1]
        BY <2>2, <4>1 DEF Copied
      <4> QED
        BY <2>6, <3>2, <4>2, <4>3, <4>4
    <3> QED
      BY <3>1, <3>2
  <2>8. [u \in Units |-> Serves(u)]' = [u \in Units |-> Serves(u)]
    BY <1>2 DEF Serves
  <2>9. Abstract!Deliver
    BY <1>2, <2>2, <2>6, <2>7, <2>8, <2>b, <2>c DEF Abstract!Deliver, Abstract!Outstanding, Lun
  <2> QED
    BY <2>9 DEF Abstract!Next
<1> QED
  BY <1>3, <1>4

\* A command that is answered "passed" has been carried out.
LEMMA CswAnswers == IInv /\ send_csw => Abstract!Next
<1> SUFFICES ASSUME IInv, send_csw PROVE Abstract!Next
  OBVIOUS
<1>1. /\ UNCHANGED <<cbw, dev_handle, dev_name, media>> /\ pc = "csw" /\ received' = <<>>
      /\ bad' = {}
      /\ answer' = IF host = "gone" THEN "lost"
                   ELSE IF csw.status = 0 THEN "passed" ELSE "failed"
  BY DEF send_csw, slots, opened
<1>2. cbw \in Commands /\ answer = "none"
  BY <1>1 DEF IInv, TypeOK, PhaseInv
<1>3. Lun \in Units /\ cbw.lba \in Nat /\ cbw.num \in Nat
  BY <1>2, CommandType DEF Lun
<1>4. ASSUME answer' = "passed" PROVE Abstract!Done
  <2>1. csw.status = 0
    BY <1>1, <1>4
  <2>2. cbw.op = "READ_10" => Len(received) = cbw.num
    BY <1>1, <2>1 DEF IInv, ReadInv
  <2>3. ASSUME cbw.op = "WRITE_10", cbw.num > 0
        PROVE  /\ [u \in Units |-> Serves(u)][Lun] # NoDisk
               /\ \A b \in (cbw.lba..(cbw.lba + cbw.num - 1)) \ bad :
                    media[[u \in Units |-> Serves(u)][Lun]][b] = cbw.val
    <3>1. Disk # NoDisk /\ \A b \in cbw.lba..(cbw.lba + cbw.num - 1) : Stored(b)
      BY <1>1, <2>1, <2>3 DEF IInv, WriteInv
    <3>2. [u \in Units |-> Serves(u)][Lun] = Disk
      BY <1>3, <3>1 DEF Serves, Disk
    <3> QED
      BY <3>1, <3>2 DEF Stored
  <2> QED
    BY <2>2, <2>3 DEF Abstract!Done, Abstract!Blocks, Lun
<1>5. [u \in Units |-> Serves(u)]' = [u \in Units |-> Serves(u)]
  BY <1>1 DEF Serves
<1>6. answer' \in {"passed", "failed", "lost"}
  BY <1>1
<1>7. Abstract!Answer(answer')
  BY <1>1, <1>2, <1>4, <1>5 DEF Abstract!Answer
<1> QED
  BY <1>6, <1>7 DEF Abstract!Next

\* A command that comes in is outstanding.
LEMMA CbwSubmits == ASSUME IInv, NEW c \in Commands, get_cbw(c) PROVE Abstract!Next
<1>1. UNCHANGED <<dev_handle, dev_name, media, received, bad>> /\ cbw' = c /\ answer' = "none"
      /\ answer # "none"
  BY DEF get_cbw, slots, opened, IInv, PhaseInv
<1>2. [u \in Units |-> Serves(u)]' = [u \in Units |-> Serves(u)]
  BY <1>1 DEF Serves
<1>3. Abstract!Submit(c)
  BY <1>1, <1>2 DEF Abstract!Submit
<1> QED
  BY <1>3 DEF Abstract!Next

\* msd_release: the device is taken away.
LEMMA ReleaseResets == IInv /\ msd_release => Abstract!Next
<1> SUFFICES ASSUME IInv, msd_release PROVE Abstract!Next
  OBVIOUS
<1>1. TypeOK' /\ answer # "none"
  BY CloseAllInv DEF IInv, PhaseInv, msd_release, Idle
<1>2. UNCHANGED <<cbw, media, received, bad>> /\ answer' = "ready"
  BY DEF msd_release, Idle, local
<1>3. [u \in Units |-> Serves(u)]' \in [Units -> Disks \cup {NoDisk}]
  BY <1>1 DEF TypeOK, Serves
<1> QED
  BY <1>1, <1>2, <1>3 DEF Abstract!Next, Abstract!Reset

\* Every step of the device is a step of BulkOnlyDisk or changes nothing in it.
LEMMA AbstractStep == IInv /\ [Next]_vars => [Abstract!Next]_(Abstract!vars)
<1> SUFFICES ASSUME IInv, [Next]_vars PROVE [Abstract!Next]_(Abstract!vars)
  OBVIOUS
<1>1. TypeOK'
  BY StepInv DEF IInv
<1>2. CASE Handler
  <2>1. CASE read_send
    BY <2>1, SendDelivers
  <2>2. CASE send_csw
    BY <2>2, CswAnswers
  <2>3. CASE command \/ write_receive \/ write_store \/ write_flush \/ read_first \/ read_next
             \/ read_end
    <3>1. UNCHANGED <<media, cbw, received, bad, answer>>
      BY <2>3 DEF command, write_receive, write_store, write_flush, read_first, read_next, read_end,
                  local, hostVars
    <3> QED
      BY <1>1, <3>1, Attaches
  <2> QED
    BY <1>2, <2>1, <2>2, <2>3 DEF Handler
<1>3. CASE Land
  BY <1>3, LandStores
<1>4. CASE Registration
  <2>1. CASE msd_release
    BY <2>1, ReleaseResets
  <2>2. CASE msd_register \/ msd_unregister_all
             \/ \E d \in Disks : msd_register_disk(d) \/ msd_unregister_disk(d)
    <3>1. UNCHANGED <<media, cbw, received, bad, answer>>
      BY <2>2 DEF msd_register, msd_unregister_all, msd_register_disk, msd_unregister_disk, Idle,
                  local, hostVars
    <3> QED
      BY <1>1, <3>1, Attaches
  <2> QED
    BY <1>4, <2>1, <2>2 DEF Registration
<1>5. CASE Environment
  <2>1. UNCHANGED <<media, cbw, received, bad, answer>>
    BY <1>5 DEF Environment, GiveUp, Pull, Insert, local, hostVars
  <2> QED
    BY <1>1, <2>1, Attaches
<1>6. CASE \E c \in Commands : get_cbw(c)
  BY <1>6, CbwSubmits
<1>7. CASE UNCHANGED vars
  <2>1. UNCHANGED <<media, cbw, received, bad, answer, dev_handle, dev_name>>
    BY <1>7 DEF vars, local, hostVars, opened, slots
  <2>2. [u \in Units |-> Serves(u)]' = [u \in Units |-> Serves(u)]
    BY <2>1 DEF Serves
  <2> QED
    BY <2>1, <2>2 DEF Abstract!vars
<1> QED
  BY <1>2, <1>3, <1>4, <1>5, <1>6, <1>7 DEF Next

\* ImplementsBulkOnlyDisk: to its host the device of msd.c is a disk, whatever
\* becomes of the media, the registrations and the driver; the blocks that the
\* driver of a disk that is there fails to move are excepted.
THEOREM Implements == Spec => ImplementsBulkOnlyDisk
BY AbstractInit, AbstractStep, Invariant, PTL DEF Spec, ImplementsBulkOnlyDisk, Abstract!Spec
=============================================================================
