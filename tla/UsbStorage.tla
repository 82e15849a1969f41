----------------------------- MODULE UsbStorage -----------------------------
(***************************************************************************)
(* The USB disk driver of the host, apps/common/device/usb/host/           *)
(* usb_storage.c: open, close, read, write and ioctl of the device udisk0, *)
(* and set_stor_power, which the host calls when a device comes and goes.  *)
(* One action per USB transfer, so the cable may be pulled and a transfer  *)
(* may fail between any two of them.  The read-ahead options of            *)
(* usb_storage.h are 0, as by default, and so are they here.               *)
(*                                                                         *)
(* Everything runs in the main loop: a call that waits for usb_h_mutex     *)
(* waits for itself.                                                       *)
(***************************************************************************)
EXTENDS Integers, Sequences

CONSTANTS
    Media,      \* sequences of media that may be plugged in: a Unit for each lun
    Retries,    \* the tries of usb_stor_init
    MaxLba,     \* bound: the highest sector that is read or written
    MaxNum,     \* bound: sectors of one call
    MaxFaults   \* bound: transfers that go wrong with the cable in

\* A logical unit: whether its PeripheralDeviceType is 0, whether it is ready,
\* the sectors of 512 bytes in a block, and its blocks.
Unit == [disk : BOOLEAN, ready : BOOLEAN, k : Nat \ {0}, blocks : Nat \ {0}]

ASSUME UsbStorageAssumption ==
    /\ \A ms \in Media : Len(ms) \in Nat /\ \A i \in 1..Len(ms) :
          DOMAIN ms[i] \in {{0}, {0, 1}} /\ \A l \in DOMAIN ms[i] : ms[i][l] \in Unit
    /\ Retries \in Nat \ {0} /\ MaxNum \in Nat \ {0} /\ MaxLba \in Nat
    /\ MaxFaults \in Nat

VARIABLES
    port,   \* the socket: what is plugged in, whether it is mounted, faults so far
    dev,    \* the device: the phase of its bulk-only transport
    stored, \* the sectors that were written on this medium
    disk,   \* struct mass_storage
    mutex,  \* usb_h_mutex
    call,   \* the call under way: the transfers that it has still to do
    ini,    \* the locals of usb_stor_init
    hist    \* history: has no transfer failed since the mount, has no sector of
            \* the block been skipped, which medium was opened

vars == <<port, dev, stored, disk, mutex, call, ini, hist>>

NoCap == [k |-> 0, blocks |-> 0]
NoCmd == [op |-> "none", lun |-> 0, lba |-> 0, num |-> 0]
Idle == [who |-> "app", cmd |-> NoCmd, at |-> 0, num |-> 0, k |-> 0, todo |-> <<>>,
         got |-> <<>>, failed |-> FALSE, csw |-> 0, trusted |-> TRUE]
NoInit == [state |-> 0, retry |-> 0, ret |-> "ok", pick |-> 0]

mass_stor == [status |-> "IDLE", lun |-> 0, curlun |-> 0,
              capacity |-> [l \in {0, 1} |-> NoCap], sense |-> "NO_SENSE",
              remain_len |-> 0, prev_lba |-> 0]

DevIdle == [phase |-> "cmd", queue |-> <<>>, status |-> 0, cmd |-> NoCmd]

Init ==
    /\ \E ms \in Media : port = [plugged |-> FALSE, mounted |-> FALSE, gen |-> 0,
                                 media |-> ms, faults |-> 0]
    /\ dev = DevIdle /\ stored = {}
    /\ disk = mass_stor /\ mutex = 0
    /\ call = Idle /\ ini = NoInit
    /\ hist = [clean |-> TRUE, follows |-> TRUE, opened |-> 0]

-----------------------------------------------------------------------------
(* The device: the other end of the bulk-only transport.  Its phase is "cmd" *)
(* (waiting for a command), "in" (with units of data to send), "out" (waiting *)
(* for data), "stall" (the data endpoint is halted), "csw" (with the status  *)
(* to send), "dead" (it refuses everything, having got what is no command), or *)
(* "torn": it and the host have lost each other.                             *)

Faulty == port.faults < MaxFaults
Medium == port.media[port.gen]

Torn == [DevIdle EXCEPT !.phase = "torn"]
Dead == [DevIdle EXCEPT !.phase = "dead"]
InCsw(status) == [DevIdle EXCEPT !.phase = "csw", !.status = status]
Sending(q) == [DevIdle EXCEPT !.phase = "in", !.queue = q]

\* What is on sector s of lun l of the medium of generation g.
Sector(g, l, s) == [gen |-> g, lun |-> l, at |-> s, new |-> <<l, s>> \in stored]
Sectors(g, l, s, n) == [i \in 1..n |-> Sector(g, l, s + i - 1)]

\* Its answer to a command.
Accept(c) ==
    LET u == Medium[c.lun]
        there == u.ready /\ c.lba + c.num <= u.k * u.blocks
    IN  CASE c.op = "TEST_UNIT_READY" -> InCsw(IF u.ready THEN 0 ELSE 1)
          [] c.op = "INQUIRY" -> Sending(<<u.disk>>)
          [] c.op = "REQUEST_SENSE" ->
                 Sending(<<IF u.ready THEN "NO_SENSE" ELSE "NOT_READY">>)
          [] c.op = "READ_CAPACITY" /\ u.ready ->
                 Sending(<<[k |-> u.k, blocks |-> u.blocks]>>)
          [] c.op = "READ_10" /\ there ->
                 Sending(Sectors(port.gen, c.lun, c.lba, c.num))
          [] c.op = "WRITE_10" /\ there ->
                 [DevIdle EXCEPT !.phase = "out", !.cmd = c]
          [] OTHER -> [DevIdle EXCEPT !.phase = "stall"]

-----------------------------------------------------------------------------
(* A transfer: whether it succeeds, the device after it, what it brings, and *)
(* whether a fault is spent on it.                                           *)

Done(d, got, status) ==
    [ok |-> TRUE, dev |-> d, got |-> got, status |-> status, fault |-> 0]
Failed(d) == [Done(d, <<>>, 0) EXCEPT !.ok = FALSE]
Faults(S) == IF Faulty THEN {[o EXCEPT !.fault = 1] : o \in S} ELSE {}
Garbage == {Failed(Torn)} \cup {Done(Torn, <<>>, g) : g \in {0, 1}}

\* usb_bulk_only_send of the CBW.  A device that has something to send leaves it
\* waiting until it times out.
SendsCbw ==
    CASE dev.phase = "cmd" -> {Done(Accept(call.cmd), <<>>, 0)}
      [] dev.phase \in {"out", "torn"} -> Garbage
      [] OTHER -> {Failed(dev)}

\* usb_bulk_only_send of data.  The device may refuse them, or fail to store them.
SendsData ==
    CASE dev.phase = "out" ->
             {Done(InCsw(0), <<>>, 0)}
             \cup Faults({Failed(InCsw(1)), Done(InCsw(1), <<>>, 0)})
      [] dev.phase = "cmd" -> {Failed(Dead)}
      [] dev.phase = "torn" -> Garbage
      [] OTHER -> {Failed(dev)}

\* usb_bulk_only_receive of n units of data.  It is never short: after a short
\* packet it waits for the next.  The device may halt half way, or send what it
\* could not read and say so in the CSW.
ReceivesData(n) ==
    CASE dev.phase = "in" /\ n <= Len(dev.queue) ->
             LET rest == SubSeq(dev.queue, n + 1, Len(dev.queue)) IN
             {Done(IF rest = <<>> THEN InCsw(0) ELSE Sending(rest),
                   SubSeq(dev.queue, 1, n), 0)}
             \cup Faults({Failed(InCsw(1))})
             \cup (IF rest = <<>> THEN Faults({Done(InCsw(1), <<>>, 1)}) ELSE {})
      [] dev.phase = "stall" -> {Failed(InCsw(1))}
      [] dev.phase \in {"cmd", "out", "dead"} -> {Failed(dev)}
      [] OTHER -> Garbage

\* usb_bulk_only_receive of the CSW.
ReceivesCsw ==
    CASE dev.phase = "csw" -> {Done(DevIdle, <<>>, dev.status)}
      [] dev.phase = "stall" -> {Failed(InCsw(1))}
      [] dev.phase \in {"cmd", "out", "dead"} -> {Failed(dev)}
      [] OTHER -> Garbage

Writing == call.cmd.op = "WRITE_10"

\* t is "cbw", "data" or "csw", or "skip" or "skipcsw": what is left of a block.
\* Any of them may time out with nothing done.
Transfers(t) ==
    IF ~port.plugged THEN {Failed(dev)}
    ELSE Faults({Failed(dev)}) \cup
         CASE t = "cbw" -> SendsCbw
           [] t = "data" /\ Writing -> SendsData
           [] t = "data" /\ ~Writing -> ReceivesData(call.num)
           [] t = "skip" -> ReceivesData(1)
           [] t \in {"csw", "skipcsw"} -> ReceivesCsw

-----------------------------------------------------------------------------
(* A call, transfer by transfer.                                            *)

\* usb_stor_check_status lets a call through.
Usable == disk.status \notin {"IDLE", "CLOSE"}

Times(t, n) == [i \in 1..n |-> t]
Exchange(data) == <<"cbw">> \o Times("data", data) \o <<"csw">>

\* usb_init_cbw of a command without an address, on lun l.
Command(who, op, l) ==
    [Idle EXCEPT !.who = who, !.cmd = [NoCmd EXCEPT !.op = op, !.lun = l], !.num = 1,
                 !.todo = Exchange(IF op = "TEST_UNIT_READY" THEN 0 ELSE 1),
                 !.trusted = hist.clean]

\* usb_h_mutex_pend: a call that finds the mutex taken spins for ever.
Spin == [Idle EXCEPT !.cmd.op = "spin"]
Spinning == call.cmd.op = "spin"
Pend(c) == IF mutex = 1 THEN mutex' = 0 /\ call' = c ELSE UNCHANGED mutex /\ call' = Spin

\* usb_h_mutex_post, and back to the caller.
Returns == mutex' = 1 /\ call' = Idle

\* Mutant: a CSW that could not be read is taken for a good one.
Ignored_csw(t) == t \in {"skip", "skipcsw"} \/ Writing
\* A failure of these does not end the call: _usb_stor_read_block_finish does not
\* look, and _usb_stor_write compares an unsigned ret with 0.
Ignored(t) == t \in {"skip", "skipcsw"} \/ (Writing /\ t \in {"cbw", "data"})

\* The data of a transfer that succeeds, and what they are if it was torn.
Data(o) ==
    IF o.got # <<>> THEN o.got
    ELSE CASE call.cmd.op = "INQUIRY" -> <<o.status = 0>>
           [] call.cmd.op = "REQUEST_SENSE" ->
                  <<IF o.status = 0 THEN "NO_SENSE" ELSE "NOT_READY">>
           [] call.cmd.op = "READ_CAPACITY" -> <<[k |-> 1, blocks |-> 2]>>
           [] OTHER -> <<>>

\* Where a transfer leaves its data, and its share of remain_len.
Noted(t, o) ==
    IF ~o.ok THEN disk
    ELSE IF call.k > 0
    THEN CASE t = "cbw" -> [disk EXCEPT !.remain_len = call.k]
           [] t = "data" -> [disk EXCEPT !.remain_len = @ - 1]
           [] OTHER -> disk
    ELSE CASE t = "data" /\ call.cmd.op = "REQUEST_SENSE" ->
                  [disk EXCEPT !.sense = Data(o)[1]]
           [] t = "data" /\ call.cmd.op = "READ_CAPACITY" ->
                  [disk EXCEPT !.capacity[call.cmd.lun] = Data(o)[1]]
           [] OTHER -> disk

Transfer ==
    /\ call.todo # <<>>
    /\ LET t == Head(call.todo) IN \E o \in Transfers(t) :
         /\ dev' = o.dev
         /\ port' = [port EXCEPT !.faults = @ + o.fault]
         /\ stored' = IF t = "data" /\ dev.phase = "out" /\ o.dev = InCsw(0)
                      THEN stored \cup {<<dev.cmd.lun, dev.cmd.lba + i>> :
                                        i \in 0..(dev.cmd.num - 1)}
                      ELSE stored
         /\ disk' = Noted(t, o)
         /\ call' = [call EXCEPT
                !.todo = IF o.ok \/ Ignored(t) THEN Tail(@) ELSE <<>>,
                !.failed = ~o.ok /\ ~Ignored(t),
                !.got = IF t = "data" /\ o.ok THEN Data(o) ELSE @,
                !.csw = IF t = "csw" /\ o.ok THEN o.status ELSE @,
                !.trusted = @ /\ (t \in {"skip", "skipcsw"} => o.ok)]
         /\ hist' = [hist EXCEPT !.clean = @ /\ o.ok]
    /\ UNCHANGED <<mutex, ini>>

-----------------------------------------------------------------------------
(* Reading and writing.                                                     *)

Opened == disk.capacity[disk.curlun]
Access(op, lba, n) ==
    [Idle EXCEPT !.cmd = [op |-> op, lun |-> disk.curlun, lba |-> lba, num |-> n],
                 !.at = lba, !.num = n, !.todo = Exchange(1), !.trusted = hist.clean]

\* usb_stor_read, up to its first transfer, with blocks of one sector.
usb_stor_read(lba, n) ==
    /\ call = Idle
    /\ Usable /\ Opened.k <= 1
    /\ lba + n - 1 < Opened.blocks
    /\ Pend(Access("READ_10", lba, n))
    /\ disk' = [disk EXCEPT !.status = "READ"]
    /\ UNCHANGED <<port, dev, stored, ini, hist>>

\* _usb_stor_read_big_block reads a block sector by sector: the first call asks for
\* it and drops what comes before its sector, those that follow take the next one.
\* A block that was left half read is drained before the next is asked for.
Asks(lba, k) ==
    \/ lba % k = 0
    \/ lba <= disk.prev_lba
    \/ lba - disk.prev_lba > k
    \/ disk.remain_len = 0
Drain(r) == IF r = 0 THEN <<>> ELSE Times("skip", r) \o <<"skipcsw">>
\* Mutant: the CSW is not read after the last sector.
Close_not(left) == <<>>
Close(left) == IF left = 0 THEN <<"csw">> ELSE <<>>

_usb_stor_read_big_block(lba) ==
    /\ call = Idle
    /\ Usable /\ Opened.k > 1
    /\ LET k == Opened.k
           off == lba % k
           asks == Asks(lba, k)
           r == disk.remain_len
       IN  /\ Pend([Access("READ_10", lba - off, k) EXCEPT
                       !.at = lba, !.num = 1, !.k = k,
                       !.todo = IF asks
                                THEN Drain(r) \o <<"cbw">> \o Times("data", off + 1)
                                              \o Close(k - off - 1)
                                ELSE <<"data">> \o Close(r - 1)])
           /\ disk' = [disk EXCEPT !.prev_lba = lba,
                                   !.remain_len = IF asks THEN 0 ELSE @,
                                   !.status = IF asks THEN "READ" ELSE @]
           /\ hist' = [hist EXCEPT !.follows =
                          asks \/ (@ /\ lba = disk.prev_lba + 1)]
    /\ UNCHANGED <<port, dev, stored, ini>>

\* usb_stor_write, up to its first transfer.  read_only is never set: nobody calls
\* usb_stor_mode_sense6.
usb_stor_write(lba, n) ==
    /\ call = Idle
    /\ Usable /\ Opened.k <= 1
    /\ lba + n - 1 < Opened.blocks
    /\ Pend(Access("WRITE_10", lba, n))
    /\ disk' = [disk EXCEPT !.status = "WRITE"]
    /\ UNCHANGED <<port, dev, stored, ini, hist>>

Over(op) == call.cmd.op = op /\ call.todo = <<>>

ReadOver ==
    /\ Over("READ_10")
    /\ disk' = [disk EXCEPT !.status = IF @ = "CLOSE" THEN @ ELSE "OPEN"]
    /\ Returns
    /\ UNCHANGED <<port, dev, stored, ini, hist>>

\* A write that the device reports as failed asks for the sense data, for which it
\* waits for the mutex that it holds.
WriteOver ==
    /\ Over("WRITE_10")
    /\ IF ~call.failed /\ call.csw # 0
       THEN Pend(Command("app", "REQUEST_SENSE", disk.curlun)) /\ UNCHANGED disk
       ELSE /\ disk' = [disk EXCEPT !.status = IF @ = "CLOSE" THEN @ ELSE "OPEN"]
            /\ Returns
    /\ UNCHANGED <<port, dev, stored, ini, hist>>

-----------------------------------------------------------------------------
(* Opening: usb_stor_open and the loop of usb_stor_init.                     *)

Looping == [Idle EXCEPT !.cmd.op = "init"]

\* The control request get_msd_max_lun may fail; disk->lun is then 0.
usb_stor_open ==
    /\ call = Idle
    /\ disk.status = "IDLE"
    /\ LET fresh == [disk EXCEPT !.remain_len = 0, !.prev_lba = 0]
           start == [NoInit EXCEPT !.retry = Retries]
       IN  \/ /\ ~port.mounted
              /\ disk' = fresh
              /\ UNCHANGED <<port, mutex, call, ini, hist>>
           \/ /\ port.mounted
              /\ mutex' = 1 /\ call' = Looping
              /\ hist' = [hist EXCEPT !.opened = port.gen]
              /\ \/ /\ port.plugged
                    /\ ini' = start
                    /\ disk' = [fresh EXCEPT !.status = "INIT",
                                 !.lun = IF 1 \in DOMAIN Medium THEN 1 ELSE 0]
                    /\ UNCHANGED port
                 \/ /\ ~port.plugged \/ Faulty
                    /\ \E e \in {"err", "offline"} : ini' = [start EXCEPT !.ret = e]
                    /\ disk' = [fresh EXCEPT !.status = "INIT", !.lun = 0]
                    /\ port' = [port EXCEPT !.faults = IF port.plugged THEN @ + 1 ELSE @]
    /\ UNCHANGED <<dev, stored>>

\* Mutant: a round that is not counted.
Left_all(retry) == retry
Left(retry) == retry - 1
\* One round of the loop: the command of the state, from lun 0 for an inquiry.
InitRound ==
    /\ call = Looping
    /\ ini.retry > 0 /\ ini.ret # "offline" /\ ini.state < 3
    /\ ini' = [ini EXCEPT !.retry = Left(@), !.pick = IF ini.state = 0 THEN 0 ELSE @]
    /\ LET first == [disk EXCEPT !.curlun = 0]
           unknown == [disk EXCEPT !.capacity[disk.curlun] = NoCap]
       IN  \/ /\ ini.state = 0
              /\ disk' = first /\ Pend(Command("init", "INQUIRY", 0))
           \/ /\ ini.state = 1
              /\ Pend(Command("init", "TEST_UNIT_READY", disk.curlun)) /\ UNCHANGED disk
           \/ /\ ini.state = 2
              /\ disk' = unknown
              /\ Pend(Command("init", "READ_CAPACITY", disk.curlun))
    /\ UNCHANGED <<port, dev, stored, hist>>

\* The loop is over; usb_stor_open succeeds if the last thing done did.
InitOver ==
    /\ call = Looping
    /\ ini.retry = 0 \/ ini.ret = "offline" \/ ini.state = 3
    /\ disk' = [disk EXCEPT !.status = IF ini.ret = "ok" THEN "OPEN" ELSE "IDLE"]
    /\ call' = Idle
    /\ ini' = NoInit
    /\ UNCHANGED <<port, dev, stored, mutex, hist>>

InitCommand(op) == Over(op) /\ call.who = "init"
Errors == IF port.plugged THEN {"err"} ELSE {"err", "offline"}
Continue == mutex' = 1 /\ call' = Looping

\* Each lun is asked in turn; the first that is a disk is chosen.
Chosen ==
    IF call.got[1] \/ ini.pick # disk.curlun THEN ini.pick
    ELSE IF ini.pick < disk.lun THEN ini.pick + 1 ELSE 0
InquiryOver ==
    /\ InitCommand("INQUIRY")
    /\ IF call.failed
       THEN /\ ini' = [ini EXCEPT !.ret = IF ini.retry = 2 THEN "offline" ELSE "ok"]
            /\ Continue /\ UNCHANGED disk
       ELSE IF disk.curlun < disk.lun
       THEN /\ ini' = [ini EXCEPT !.pick = Chosen]
            /\ disk' = [disk EXCEPT !.curlun = @ + 1]
            /\ call' = Command("init", "INQUIRY", disk.curlun + 1)
            /\ UNCHANGED mutex
       ELSE /\ ini' = [ini EXCEPT !.ret = "ok", !.state = 1, !.pick = Chosen]
            /\ disk' = [disk EXCEPT !.curlun = Chosen]
            /\ Continue
    /\ UNCHANGED <<port, dev, stored, hist>>

\* TEST_UNIT_READY and READ_CAPACITY: on to the next state, or to the sense data.
CheckOver ==
    /\ \E op \in {"TEST_UNIT_READY", "READ_CAPACITY"} : InitCommand(op)
    /\ \/ /\ call.failed
          /\ \E e \in Errors : ini' = [ini EXCEPT !.ret = e]
          /\ Continue
       \/ /\ ~call.failed /\ call.csw # 0
          /\ call' = Command("init", "REQUEST_SENSE", disk.curlun)
          /\ UNCHANGED <<mutex, ini>>
       \/ /\ ~call.failed /\ call.csw = 0
          /\ ini' = [ini EXCEPT !.ret = "ok", !.state = @ + 1]
          /\ Continue
    /\ UNCHANGED <<port, dev, stored, disk, hist>>

\* A unit that is not ready: the next lun is tried.
SenseOver ==
    /\ InitCommand("REQUEST_SENSE")
    /\ \E e \in (IF call.failed THEN Errors ELSE {"ok"}) : ini' = [ini EXCEPT !.ret = e]
    /\ disk' = IF ini.state = 1 /\ disk.sense = "NOT_READY"
               THEN [disk EXCEPT !.curlun = IF @ + 1 > disk.lun THEN 0 ELSE @ + 1]
               ELSE disk
    /\ Continue
    /\ UNCHANGED <<port, dev, stored, hist>>

-----------------------------------------------------------------------------
(* IOCTL_SET_CUR_LUN, usb_stor_close, and the host: set_stor_power.          *)

IOCTL_SET_CUR_LUN(l) ==
    /\ call = Idle
    /\ l <= disk.lun
    /\ IF Usable
       THEN /\ disk' = [disk EXCEPT !.curlun = l, !.capacity[l] = NoCap]
            /\ Pend(Command("ioctl", "READ_CAPACITY", l))
       ELSE /\ disk' = [disk EXCEPT !.curlun = l]
            /\ UNCHANGED <<mutex, call>>
    /\ UNCHANGED <<port, dev, stored, ini, hist>>

IoctlOver ==
    /\ call.who = "ioctl" /\ call.todo = <<>>
    /\ IF ~call.failed /\ call.csw # 0 /\ call.cmd.op = "READ_CAPACITY"
       THEN call' = Command("ioctl", "REQUEST_SENSE", disk.curlun) /\ UNCHANGED mutex
       ELSE Returns
    /\ UNCHANGED <<port, dev, stored, disk, ini, hist>>

usb_stor_close ==
    /\ call = Idle
    /\ disk.status # "IDLE"
    /\ IF mutex = 1 THEN disk' = [disk EXCEPT !.status = "IDLE"] /\ UNCHANGED call
                    ELSE call' = Spin /\ UNCHANGED disk
    /\ UNCHANGED <<port, dev, stored, mutex, ini, hist>>

\* Mutant: the disk stays open when its medium goes.
PowerOff_not == disk
PowerOff == [disk EXCEPT !.status = "CLOSE"]
set_stor_power(value) ==
    IF disk.status = "IDLE" THEN UNCHANGED <<disk, call>>
    ELSE IF mutex = 0 THEN call' = Spin /\ UNCHANGED disk
    ELSE disk' = (IF value = 0 THEN PowerOff ELSE disk) /\ UNCHANGED call

Mount ==
    /\ call = Idle
    /\ port.plugged /\ ~port.mounted
    /\ port' = [port EXCEPT !.mounted = TRUE]
    /\ set_stor_power(1)
    /\ hist' = [hist EXCEPT !.clean = TRUE]
    /\ UNCHANGED <<dev, stored, mutex, ini>>

Unmount ==
    /\ call = Idle
    /\ ~port.plugged /\ port.mounted
    /\ port' = [port EXCEPT !.mounted = FALSE]
    /\ set_stor_power(0)
    /\ UNCHANGED <<dev, stored, mutex, ini, hist>>

\* A medium is plugged in; the one before it has been unmounted.
Plug ==
    /\ ~port.plugged /\ ~port.mounted /\ port.gen < Len(port.media)
    /\ port' = [port EXCEPT !.plugged = TRUE, !.gen = @ + 1]
    /\ dev' = DevIdle /\ stored' = {}
    /\ UNCHANGED <<disk, mutex, call, ini, hist>>

Unplug ==
    /\ port.plugged
    /\ port' = [port EXCEPT !.plugged = FALSE]
    /\ UNCHANGED <<dev, stored, disk, mutex, call, ini, hist>>

-----------------------------------------------------------------------------
Driver ==
    \/ Transfer \/ ReadOver \/ WriteOver \/ IoctlOver
    \/ InitRound \/ InitOver \/ InquiryOver \/ CheckOver \/ SenseOver

App ==
    \/ usb_stor_open \/ usb_stor_close
    \/ \E lba \in 0..MaxLba : _usb_stor_read_big_block(lba)
    \/ \E lba \in 0..MaxLba, n \in 1..MaxNum :
         \/ usb_stor_read(lba, n)
         \/ usb_stor_write(lba, n)
    \/ \E l \in {0, 1} : IOCTL_SET_CUR_LUN(l)

Next == Driver \/ App \/ Mount \/ Unmount \/ Plug \/ Unplug

Spec == Init /\ [][Next]_vars
FairSpec == Spec /\ WF_vars(Driver)

-----------------------------------------------------------------------------
(* Properties.                                                              *)

\* Between calls, while no transfer has failed since the mount, the device waits
\* for a command, or it has exactly remain_len sectors of a block to send and the
\* next is the one after prev_lba: what _usb_stor_read_big_block continues with.
InStep ==
    call = Idle /\ hist.clean /\ port.plugged /\ port.mounted /\ disk.status = "OPEN" =>
        /\ disk.remain_len = 0 => dev = DevIdle
        /\ disk.remain_len > 0 => /\ dev.phase = "in"
                                  /\ Len(dev.queue) = disk.remain_len
        /\ disk.remain_len > 0 /\ hist.follows =>
              Head(dev.queue) = Sector(hist.opened, disk.curlun, disk.prev_lba + 1)

\* A call that reports success although nothing failed before it.
Succeeds(op) == Over(op) /\ ~call.failed /\ call.csw = 0 /\ call.trusted

\* A read that reports success returns the sectors that were asked for, of the
\* medium that was opened, as they are now: unless a transfer failed before it, the
\* device put an error in the CSW, or the call skipped sectors of a large block
\* (usb_storage.c does not handle these three).
ReadsAreTrue ==
    Succeeds("READ_10") /\ hist.follows =>
        call.got = Sectors(hist.opened, call.cmd.lun, call.at, call.num)

\* A write that reports success is on the medium, whatever failed during it: unless
\* the device was out of step already.
WritesAreStored ==
    Succeeds("WRITE_10") =>
        \A i \in 0..(call.num - 1) : <<call.cmd.lun, call.at + i>> \in stored

\* Every call of the driver comes back, through its retries and timeouts: unless it
\* waits for the mutex that it holds itself.
EveryCallReturns == call # Idle ~> call = Idle \/ Spinning

\* No call waits for the mutex that it holds itself.
MutexIsFree == ~Spinning
=============================================================================
