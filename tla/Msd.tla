-------------------------------- MODULE Msd --------------------------------
(***************************************************************************)
(* The USB mass storage device of apps/common/device/usb/device/msd.c: the *)
(* bulk-only transport that USB_MassStorage serves from the main loop, one *)
(* call per command block, over the disks registered in its slots, with    *)
(* USB_MSD_BULK_DEV_USE_ASYNC: two buffers, one of them with the disk while *)
(* the other is with USB.  TCFG_DEV_MANAGER_ENABLE is 0, as by default.    *)
(*                                                                         *)
(* Around it: the host, which may give a command up; disks that come and   *)
(* go at any time; and the disk driver, which moves a buffer in the        *)
(* background.                                                             *)
(***************************************************************************)
EXTENDS Integers, Sequences

CONSTANTS
    Disks,      \* names that may be registered
    NoDisk,     \* no name, and the handle NULL
    MaxDev,     \* __get_max_msd_dev()
    Capacity,   \* blocks on a disk
    Values,     \* contents of a block
    Stale,      \* those that a buffer may hold from before
    Contents,   \* what the disks hold at the start
    BlockNum,   \* MSD_BLOCK_NUM, the blocks that a buffer holds
    BlockSize,  \* 512
    U32,        \* 2^32
    Weak,       \* a bound: the blocks at which a transfer may fail
    Commands    \* what the host may send

Units == 0..(MaxDev - 1)
MediaOps == {"READ_10", "WRITE_10"}
CheckOps == {"TEST_UNIT_READY", "MODE_SENSE", "READ_CAPACITY",
             "READ_FORMAT_CAPACITIES"}
OtherOps == {"INQUIRY", "VERIFY", "ALLOW_MEDIUM_REMOVAL", "REQUEST_SENSE",
             "START_STOP", "UNKNOWN"}

\* in: the direction flag; arg: lba[2] # 0; val: the contents of a write.
Command == [op : MediaOps \cup CheckOps \cup OtherOps, lun : Units,
            lba : 0..Capacity, num : 0..Capacity, len : 0..(U32 - 1),
            in : BOOLEAN, arg : BOOLEAN, val : Values]

ASSUME MsdAssumption ==
    /\ MaxDev \in Nat \ {0} /\ Capacity \in Nat /\ BlockNum \in Nat \ {0}
    /\ BlockSize \in Nat \ {0} /\ U32 \in Nat \ {0}
    /\ NoDisk \notin Disks /\ Commands # {}
    /\ Stale \subseteq Values /\ Stale # {}
    /\ Contents \in [Disks -> [0..(Capacity - 1) -> Values]]
    /\ \A c \in Commands :
         /\ c \in Command
         /\ c.lba + c.num <= Capacity
         /\ c.op \in MediaOps => c.len >= c.num * BlockSize

VARIABLES
    \* struct msd_info and struct usb_scsi_csw
    active,     \* msd_handle is not NULL
    dev_name,   \* by slot: the disk that is registered
    dev_handle, \* by slot: the disk that the handle was opened on
    bError,
    bSenseKey,
    csw,        \* residue and status; kept from command to command
    \* USB_MassStorage and the functions it calls
    pc,
    cbw,        \* the command
    lba, left, num,     \* position, blocks to go, blocks of the next chunk
    lastLba, lastNum,   \* the chunk that was read ahead
    bufIdx,
    stalled,    \* have_send_stall
    buf,        \* what the two buffers hold
    named,      \* history: by slot, the name that was registered last
    \* the disks and their driver
    online,     \* media that are there
    lost,       \* slots whose medium has gone since it was opened
    media,
    xfer,       \* the transfer under way in the background
    \* the host
    host,       \* "free", "waiting" for the answer, or "gone": given up
    answer,     \* what it was last told
    received,   \* the blocks it got
    bad         \* history: blocks of the command that the driver failed to move

slots == <<active, dev_name, named>>
opened == <<dev_handle, lost>>
sense == <<bError, bSenseKey>>
reply == <<csw, sense>>
chunk == <<lba, left, num, lastLba, lastNum>>
local == <<cbw, chunk, bufIdx, stalled>>
hostVars == <<host, answer, received, bad>>
vars == <<slots, opened, reply, pc, local, buf, online, media, xfer, hostVars>>

NoXfer == [kind |-> "none", buf |-> 0, disk |-> NoDisk, lba |-> 0, num |-> 0]
AtMost(a, b) == IF a < b THEN a ELSE b

NoData == [i \in 0..1 |-> <<>>]
NoDisks == [u \in Units |-> NoDisk]
ZeroCsw == [residue |-> 0, status |-> 0]

Init ==
    /\ active = FALSE
    /\ dev_name = NoDisks /\ dev_handle = NoDisks /\ named = NoDisks
    /\ bError = 0 /\ bSenseKey = "NO_SENSE" /\ csw = ZeroCsw
    /\ pc = "idle" /\ cbw = CHOOSE c \in Commands : TRUE
    /\ lba = 0 /\ left = 0 /\ num = 0 /\ lastLba = 0 /\ lastNum = 0
    /\ bufIdx = 0 /\ stalled = FALSE
    /\ buf = NoData
    /\ online = Disks /\ lost = {}
    /\ media = Contents
    /\ xfer = NoXfer
    /\ host = "free" /\ answer = "ready" /\ received = <<>> /\ bad = {}

-----------------------------------------------------------------------------
(* The environment.                                                         *)

\* A disk is pulled.  What was under way with it is lost.
Pull(d) ==
    /\ d \in online
    /\ online' = online \ {d}
    /\ lost' = lost \cup {u \in Units : dev_handle[u] = d}
    /\ xfer' = IF xfer.disk = d THEN NoXfer ELSE xfer
    /\ UNCHANGED <<slots, dev_handle, reply, pc, local, buf, media, hostVars>>

Insert(d) ==
    /\ d \notin online
    /\ online' = online \cup {d}
    /\ UNCHANGED <<slots, opened, reply, pc, local, buf, media, xfer, hostVars>>

\* The transfer in the background is over: the buffer holds the blocks, or the
\* blocks hold what is in the buffer now.  It may have failed after some of them:
\* then the rest of the buffer holds what was there before, and the rest of the
\* blocks are as they were.  Nobody is told: the result of IOCTL_FLUSH is not
\* looked at (lines 627, 694, 715), and the driver's next call need not fail.
Land ==
    /\ xfer # NoXfer
    /\ xfer' = NoXfer
    /\ \E moved \in 0..xfer.num, old \in Stale :
         /\ moved < xfer.num => xfer.lba + moved \in Weak
         /\ bad' = bad \cup (xfer.lba + moved)..(xfer.lba + xfer.num - 1)
         /\ IF xfer.kind = "read"
            THEN /\ buf' = [buf EXCEPT ![xfer.buf] = [i \in 1..xfer.num |->
                               IF i <= moved THEN media[xfer.disk][xfer.lba + i - 1]
                               ELSE old]]
                 /\ UNCHANGED media
            ELSE /\ media' = [media EXCEPT ![xfer.disk] = [b \in DOMAIN @ |->
                                IF b \in xfer.lba..(xfer.lba + moved - 1)
                                THEN buf[xfer.buf][b - xfer.lba + 1] ELSE @[b]]]
                 /\ UNCHANGED buf
    /\ UNCHANGED <<slots, opened, reply, pc, local, online, host, answer, received>>

\* The host gives a command up and resets the pipes.
GiveUp ==
    /\ host = "waiting"
    /\ host' = "gone"
    /\ UNCHANGED <<slots, opened, reply, pc, local, buf, online, media, xfer,
                   answer, received, bad>>

\* A host asks for the reason of a failure, and tests the unit after a reset.
Next_op(c) ==
    /\ answer = "failed" => c.op = "REQUEST_SENSE" /\ c.len > 0
    /\ answer = "lost" => c.op = "TEST_UNIT_READY"

-----------------------------------------------------------------------------
(* Registration; called from the main loop, between commands.               *)

Idle == pc = "idle" /\ UNCHANGED <<pc, local, buf, online, media>>

msd_register ==
    /\ Idle /\ ~active
    /\ active' = TRUE                             \* zalloc
    /\ dev_name' = NoDisks /\ dev_handle' = NoDisks /\ named' = NoDisks
    /\ bError' = 0 /\ bSenseKey' = "NO_SENSE" /\ csw' = ZeroCsw
    /\ UNCHANGED <<lost, xfer, hostVars>>

\* The first free slot; its handle is not closed but forgotten.
Forget_not(u) == dev_handle
Forget(u) == [dev_handle EXCEPT ![u] = NoDisk]
msd_register_disk(d) ==
    /\ Idle /\ active
    /\ \E u \in Units :
         /\ dev_name[u] = NoDisk
         /\ \A v \in 0..(u - 1) : dev_name[v] # NoDisk
         /\ dev_name' = [dev_name EXCEPT ![u] = d]
         /\ named' = [named EXCEPT ![u] = d]
         /\ dev_handle' = Forget(u)
    /\ UNCHANGED <<active, lost, reply, xfer, hostVars>>

\* The first slot of that name loses the name and keeps the handle.
msd_unregister_disk(d) ==
    /\ Idle /\ active
    /\ \E u \in Units :
         /\ dev_name[u] = d
         /\ \A v \in 0..(u - 1) : dev_name[v] # d
         /\ dev_name' = [dev_name EXCEPT ![u] = NoDisk]
    /\ UNCHANGED <<active, named, opened, reply, xfer, hostVars>>

CloseAll ==
    /\ dev_handle' = NoDisks
    /\ xfer' = IF xfer.disk \in {dev_handle[u] : u \in Units} THEN NoXfer ELSE xfer

msd_unregister_all ==
    /\ Idle /\ active
    /\ CloseAll
    /\ UNCHANGED <<slots, lost, reply, hostVars>>

msd_release ==
    /\ Idle /\ active
    /\ active' = FALSE
    /\ CloseAll
    /\ answer' = "ready"
    /\ UNCHANGED <<dev_name, named, lost, reply, host, received, bad>>

-----------------------------------------------------------------------------
(* Helpers of the handlers.                                                 *)

\* GET_STATUS through an open handle, or dev_open of the slot's name.
Alive(u) == dev_handle[u] \in online /\ u \notin lost
Opens(u) == dev_name[u] \in online
Present_handleIsEnough(u) == dev_handle[u] # NoDisk \/ Opens(u)
Present(u) == IF dev_handle[u] = NoDisk THEN Opens(u) ELSE Alive(u)

\* check_disk_status opens the disk, or closes it when it has gone.
check_disk_status(u) ==
    LET open == dev_handle[u] = NoDisk /\ Opens(u)
    IN  /\ dev_handle' = [dev_handle EXCEPT ![u] =
                IF open THEN dev_name[u] ELSE IF Present(u) THEN @ ELSE NoDisk]
        /\ lost' = IF open THEN lost \ {u} ELSE lost

MEDIUM_ERROR == 3
NOT_READY == 2

\* stall_error, with the unknow it calls.
stall_error(error) ==
    /\ csw' = [residue |-> 0, status |-> 1]
    /\ bError' = error
    /\ UNCHANGED bSenseKey

\* How a handler answers that did what it was asked to.
Good(residue) == [residue |-> residue % U32, status |-> 0]
Answers(c) == csw' = c /\ UNCHANGED sense

\* dev_bulk_read and dev_bulk_write: the driver takes the buffer when it is
\* done with the last one.
Takes(kind, i, from, n) ==
    /\ Present(cbw.lun)
    /\ xfer = NoXfer /\ from + n <= Capacity
    /\ xfer' = [kind |-> kind, buf |-> i, disk |-> dev_handle'[cbw.lun],
                lba |-> from, num |-> n]

\* The disk has gone, or the driver refuses and drops what it was doing.
Refuses == xfer' = IF Present(cbw.lun) THEN NoXfer ELSE xfer

-----------------------------------------------------------------------------
(* USB_MassStorage.                                                         *)

Entry(op) == IF op = "READ_10" THEN "read" ELSE IF op = "WRITE_10" THEN "write"
             ELSE "command"

\* get_cbw of a valid command; an invalid one changes nothing that is kept.
get_cbw(c) ==
    /\ active /\ pc = "idle" /\ host = "free"
    /\ Next_op(c)
    /\ cbw' = c
    /\ csw' = [csw EXCEPT !.residue = c.len]
    /\ lba' = c.lba /\ left' = c.num
    /\ pc' = Entry(c.op)
    /\ host' = "waiting" /\ answer' = "none"
    /\ UNCHANGED <<slots, opened, sense, num, lastLba, lastNum, bufIdx, stalled,
                   buf, online, media, xfer, received, bad>>

\* The handlers that need no disk.
inquiry == cbw.op = "INQUIRY" /\ Answers(Good(csw.residue - AtMost(csw.residue, 36)))
verify == cbw.op = "VERIFY" /\ Answers(Good(0))
stop_start == cbw.op = "START_STOP" /\ Answers(Good(0))
allow_medium_removal ==
    /\ cbw.op = "ALLOW_MEDIUM_REMOVAL"
    /\ csw' = [residue |-> 0, status |-> IF cbw.arg THEN 1 ELSE 0]
    /\ bError' = IF cbw.arg THEN 2 ELSE bError
    /\ UNCHANGED bSenseKey
request_sense ==
    /\ cbw.op = "REQUEST_SENSE"
    /\ IF csw.residue = 0 THEN stall_error(NOT_READY)
       ELSE Answers(Good(csw.residue - AtMost(csw.residue, 18)))
unknown_command ==
    /\ cbw.op = "UNKNOWN"
    /\ stall_error(IF cbw.in THEN 0 ELSE 1)

WithoutDisk == inquiry \/ verify \/ stop_start \/ allow_medium_removal
               \/ request_sense \/ unknown_command

\* Those that ask the disk; what they send is not part of the model.
NotReady_silent == csw' = [csw EXCEPT !.status = 1] /\ UNCHANGED sense
NotReady == csw' = [csw EXCEPT !.status = 1] /\ bError' = 15 /\ UNCHANGED bSenseKey
Offline == IF cbw.op = "TEST_UNIT_READY" THEN NotReady ELSE stall_error(15)
WithDisk ==
    /\ cbw.op \in CheckOps
    /\ check_disk_status(cbw.lun)
    /\ IF Present(cbw.lun)
       THEN Answers(Good(IF cbw.op = "READ_FORMAT_CAPACITIES"
                         THEN csw.residue - 12 ELSE 0))
       ELSE Offline

command ==
    /\ pc = "command"
    /\ \/ WithoutDisk /\ UNCHANGED opened
       \/ WithDisk
    /\ pc' = "csw"
    /\ UNCHANGED <<slots, local, buf, online, media, xfer, hostVars>>

-----------------------------------------------------------------------------
(* msd_write_10_async.                                                      *)

Chunk_wholeOnly(n) == IF n < BlockNum THEN 0 ELSE BlockNum
Chunk(n) == AtMost(n, BlockNum)
Enough_offByOne(n) == csw.residue > n * BlockSize
Enough(n) == csw.residue >= n * BlockSize
Consumed(n) == [csw EXCEPT !.residue = IF Enough(n) THEN @ - n * BlockSize ELSE @]
NoResidue == /\ csw' = [csw EXCEPT !.status = 1]
             /\ UNCHANGED sense

\* Receive a chunk, or leave the loop.
write_receive ==
    /\ pc = "write"
    /\ num' = Chunk(left)
    /\ \/ /\ left = 0
          /\ pc' = "flush"
          /\ UNCHANGED <<reply, stalled, buf>>
       \/ /\ left > 0 /\ csw.residue = 0
          /\ NoResidue
          /\ pc' = "flush"
          /\ UNCHANGED <<stalled, buf>>
       \/ /\ left > 0 /\ csw.residue > 0 /\ host = "waiting"
          /\ csw' = Consumed(num')
          /\ buf' = [buf EXCEPT ![bufIdx] = [i \in 1..num' |-> cbw.val]]
          /\ pc' = "store"
          /\ UNCHANGED <<sense, stalled>>
       \/ /\ left > 0 /\ csw.residue > 0       \* the data did not come
          /\ stall_error(MEDIUM_ERROR)
          /\ stalled' = TRUE
          /\ pc' = "flush"
          /\ UNCHANGED buf
    /\ UNCHANGED <<slots, opened, cbw, lba, left, lastLba, lastNum, bufIdx, online,
                   media, xfer, hostVars>>

\* Hand it to the disk.
Flip_not == bufIdx
Flip == 1 - bufIdx
write_store ==
    /\ pc = "store"
    /\ check_disk_status(cbw.lun)
    /\ \/ /\ Present(cbw.lun)
          /\ xfer = NoXfer
          /\ xfer' = [kind |-> "write", buf |-> bufIdx,
                      disk |-> dev_handle'[cbw.lun], lba |-> lba, num |-> num]
          /\ bufIdx' = Flip
          /\ left' = left - num
          /\ lba' = lba + num
          /\ pc' = "write"
          /\ UNCHANGED <<reply, stalled>>
       \/ /\ Refuses
          /\ stall_error(MEDIUM_ERROR)
          /\ stalled' = TRUE
          /\ pc' = "flush"
          /\ UNCHANGED <<bufIdx, left, lba>>
    /\ UNCHANGED <<slots, cbw, num, lastLba, lastNum, buf, online, media, hostVars>>

FlushFailed_silent == UNCHANGED reply
FlushFailed == IF stalled THEN UNCHANGED reply ELSE stall_error(MEDIUM_ERROR)
write_flush ==
    /\ pc = "flush"
    /\ check_disk_status(cbw.lun)
    /\ IF Present(cbw.lun) THEN xfer = NoXfer /\ UNCHANGED reply
       ELSE FlushFailed
    /\ pc' = "csw"
    /\ UNCHANGED <<slots, local, buf, online, media, xfer, hostVars>>

-----------------------------------------------------------------------------
(* msd_read_10_async.                                                       *)

\* The first chunk is read ahead.
read_first ==
    /\ pc = "read"
    /\ num' = Chunk(left)
    /\ IF left = 0
       THEN stall_error(2) /\ pc' = "csw" /\ UNCHANGED <<opened, xfer>>
       ELSE /\ check_disk_status(cbw.lun)
            /\ \/ /\ Takes("read", bufIdx, lba, num')
                  /\ pc' = "next"
                  /\ UNCHANGED reply
               \/ /\ Refuses
                  /\ stall_error(MEDIUM_ERROR)
                  /\ pc' = "csw"
    /\ UNCHANGED <<slots, cbw, lba, left, lastLba, lastNum, bufIdx, stalled, buf,
                   online, media, hostVars>>

\* One turn of the loop up to the transfer over USB: read the next chunk ahead
\* into the other buffer, or flush when there is none.
LastFlush_missing == TRUE
LastFlush == xfer = NoXfer
read_next ==
    /\ pc = "next" /\ left > 0
    /\ lastNum' = num /\ lastLba' = lba
    /\ bufIdx' = Flip
    /\ lba' = lba + num
    /\ left' = left - num
    /\ num' = Chunk(left')
    /\ \/ /\ csw.residue = 0
          /\ NoResidue
          /\ pc' = "csw"
          /\ UNCHANGED <<opened, xfer>>
       \/ /\ csw.residue > 0
          /\ check_disk_status(cbw.lun)
          /\ \/ /\ IF num' > 0
                   THEN Takes("read", bufIdx', lba', num')
                   ELSE Present(cbw.lun) /\ LastFlush /\ UNCHANGED xfer
                /\ csw' = Consumed(num)
                /\ pc' = "send"
                /\ UNCHANGED sense
             \/ /\ num' > 0 \/ ~Present(cbw.lun)
                /\ Refuses
                /\ stall_error(MEDIUM_ERROR)
                /\ pc' = "csw"
    /\ UNCHANGED <<slots, cbw, stalled, buf, online, media, hostVars>>

\* The chunk that is read ahead meanwhile is waited for.
SendFailed_noFlush == TRUE
SendFailed == num > 0 => xfer = NoXfer

\* The chunk that was read ahead goes to the host.
read_send ==
    /\ pc = "send"
    /\ \/ /\ host = "waiting"
          /\ received' = received \o buf[1 - bufIdx]
          /\ pc' = "next"
          /\ UNCHANGED reply
       \/ /\ stall_error(5)
          /\ SendFailed
          /\ pc' = "csw"
          /\ UNCHANGED received
    /\ UNCHANGED <<slots, opened, local, buf, online, media, xfer, host, answer, bad>>

read_end ==
    /\ pc = "next" /\ left = 0
    /\ pc' = "csw"
    /\ UNCHANGED <<slots, opened, reply, local, buf, online, media, xfer, hostVars>>

-----------------------------------------------------------------------------
\* The end of USB_MassStorage: the sense data of bError, and send_csw.
SenseKey ==
    CASE bError = 0 -> "NO_SENSE"
      [] bError = 2 -> "ILLEGAL_REQUEST"
      [] bError = MEDIUM_ERROR -> "MEDIUM_ERROR"
      [] bError \in {5, 15} -> "NOT_READY"
      [] bError = 6 -> "ABORTED_COMMAND"
      [] OTHER -> bSenseKey

send_csw ==
    /\ pc = "csw"
    /\ bSenseKey' = SenseKey
    /\ answer' = IF host = "gone" THEN "lost"
                 ELSE IF csw.status = 0 THEN "passed" ELSE "failed"
    /\ host' = "free" /\ received' = <<>> /\ bad' = {}
    /\ pc' = "idle"
    /\ lba' = 0 /\ left' = 0 /\ num' = 0 /\ lastLba' = 0 /\ lastNum' = 0
    /\ bufIdx' = 0 /\ stalled' = FALSE /\ buf' = NoData    \* nobody reads them again
    /\ UNCHANGED <<slots, opened, csw, bError, cbw, online, media, xfer>>

-----------------------------------------------------------------------------
Handler == \/ command \/ write_receive \/ write_store \/ write_flush
           \/ read_first \/ read_next \/ read_send \/ read_end \/ send_csw

Registration ==
    \/ msd_register \/ msd_unregister_all \/ msd_release
    \/ \E d \in Disks : msd_register_disk(d) \/ msd_unregister_disk(d)

Environment == GiveUp \/ \E d \in Disks : Pull(d) \/ Insert(d)

Next ==
    \/ Handler \/ Land \/ Registration \/ Environment
    \/ \E c \in Commands : get_cbw(c)

Spec == Init /\ [][Next]_vars

\* The main loop goes on, and so does the disk driver.
FairSpec == Spec /\ WF_vars(Handler) /\ WF_vars(Land)

-----------------------------------------------------------------------------
(* Properties.                                                              *)

\* Whatever the media, the host and the driver do: to the host the device is a
\* disk.  A command that is answered "passed" has been carried out on the disk
\* of its unit, all of it but the blocks that the driver of a disk that is there
\* failed to move in the background; no other block reaches the host, or the
\* disk, that belongs somewhere else; nothing moves once a command is answered.
Serves(u) == IF dev_handle[u] = NoDisk THEN dev_name[u] ELSE dev_handle[u]
Abstract == INSTANCE BulkOnlyDisk WITH
    cmd <- cbw, serves <- [u \in Units |-> Serves(u)]
ImplementsBulkOnlyDisk == Abstract!Spec

\* A buffer is not with USB and with the disk at the same time.
BufferNotShared ==
    /\ pc = "write" /\ left > 0 => ~(xfer # NoXfer /\ xfer.buf = bufIdx)
    /\ pc = "send" => ~(xfer # NoXfer /\ xfer.buf = 1 - bufIdx)

\* The residue of a command that passed is what was not moved, for those that
\* count it: the blocks, INQUIRY, REQUEST_SENSE and READ_FORMAT_CAPACITIES.
\* MODE_SENSE and READ_CAPACITY, whatever they moved, and those that move nothing,
\* whatever was announced, report 0 (lines 567, 866, 503, 514, 572, 915).  That of
\* any command is no more than what the host announced.
Counted == MediaOps \cup {"INQUIRY", "REQUEST_SENSE", "READ_FORMAT_CAPACITIES"}
Moved(c) ==
    CASE c.op \in MediaOps -> c.num * BlockSize
      [] c.op = "INQUIRY" -> AtMost(c.len, 36)
      [] c.op = "REQUEST_SENSE" -> AtMost(c.len, 18)
      [] c.op = "READ_FORMAT_CAPACITIES" -> 12
ResidueIsHonest ==
    host = "free" /\ answer \in {"passed", "failed"} =>
        /\ csw.residue <= cbw.len
        /\ answer = "passed" =>
               csw.residue = IF cbw.op \in Counted THEN cbw.len - Moved(cbw) ELSE 0

\* A command leaves no transfer in the background when it is answered, however
\* it ended: msd_release frees the buffers between commands.
AnsweredIsSettled == pc = "idle" => xfer = NoXfer

\* The sense data that the host asks for after a failure are those of the
\* command that failed and not of an earlier one, but for one command: one that
\* is not known and announces data to the device sets bError to 1 (line 981),
\* which the switch does not list, and the key of an earlier command stays.  The
\* NOT_READY of a REQUEST_SENSE without data is 2, to the switch an
\* ILLEGAL_REQUEST (lines 524, 992); an unknown command that asks for data
\* clears bError.
SenseNamesTheFailure ==
    host = "free" /\ answer = "failed" =>
        CASE cbw.op \in CheckOps -> bSenseKey = "NOT_READY"
          [] cbw.op \in {"ALLOW_MEDIUM_REMOVAL", "REQUEST_SENSE"} ->
                bSenseKey = "ILLEGAL_REQUEST"
          [] cbw.op = "WRITE_10" -> bSenseKey = "MEDIUM_ERROR"
          [] cbw.op = "READ_10" /\ cbw.num = 0 -> bSenseKey = "ILLEGAL_REQUEST"
          [] cbw.op = "READ_10" /\ cbw.num > 0 -> bSenseKey \in {"MEDIUM_ERROR", "NOT_READY"}
          [] cbw.op = "UNKNOWN" /\ cbw.in -> bSenseKey = "NO_SENSE"
          [] OTHER -> cbw.op = "UNKNOWN"

\* A slot never serves the disk of a name before the one that was registered in
\* it last.  That one it may go on serving when it is unregistered: line 1046
\* clears the name and leaves the handle, which check_disk_status goes on using.
HandleIsOfName == \A u \in Units : dev_handle[u] \in {NoDisk, named[u]}

\* Every command is answered, whatever becomes of disks and host.
EveryCommandIsAnswered == host # "free" ~> host = "free"
=============================================================================
