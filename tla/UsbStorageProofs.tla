--------------------------- MODULE UsbStorageProofs ---------------------------
(***************************************************************************)
(* Proofs about the USB disk driver: while no transfer has failed, the     *)
(* driver and the device are in step; what is reported as read was read,   *)
(* and what is reported as written is stored.                              *)
(*                                                                         *)
(* The invariant says, for each place of a call, what the device is doing. *)
(* A place is what is left of the call, so most of it is about the shapes  *)
(* that call.todo can have: what is left of a block to skip, the CBW, m    *)
(* transfers of data, and the CSW or, when a large block is left half      *)
(* read, no CSW (e = 0).                                                   *)
(***************************************************************************)
EXTENDS UsbStorage, SequenceTheorems, TLAPS

Kinds == {"cbw", "data", "csw", "skip", "skipcsw"}
Plain == {"TEST_UNIT_READY", "INQUIRY", "REQUEST_SENSE", "READ_CAPACITY"}
Ops == Plain \cup {"READ_10", "WRITE_10", "none", "init", "spin"}
Phases == {"cmd", "in", "out", "stall", "csw", "dead", "torn"}

Caps == [k : Nat, blocks : Nat]
Senses == {"NO_SENSE", "NOT_READY"}
SectorData == [gen : Nat, lun : {0, 1}, at : Nat, new : BOOLEAN]
Items == BOOLEAN \cup Senses \cup Caps \cup SectorData

Cmds == [op : Ops, lun : {0, 1}, lba : Nat, num : Nat]
Calls == [who : {"app", "init", "ioctl"}, cmd : Cmds, at : Nat, num : Nat, k : Nat,
          todo : Seq(Kinds), got : Seq(Items), failed : BOOLEAN, csw : {0, 1},
          trusted : BOOLEAN]
Devs == [phase : Phases, queue : Seq(Items), status : {0, 1}, cmd : Cmds]
Disks == [status : {"IDLE", "CLOSE", "INIT", "OPEN", "READ", "WRITE"}, lun : {0, 1},
          curlun : {0, 1}, capacity : [{0, 1} -> Caps], sense : Senses,
          remain_len : Nat, prev_lba : Nat]

TypeOK ==
    /\ port \in [plugged : BOOLEAN, mounted : BOOLEAN, gen : Nat, media : Media,
                 faults : Nat]
    /\ dev \in Devs
    /\ disk \in Disks
    /\ mutex \in {0, 1}
    /\ call \in Calls
    /\ ini \in [state : Nat, retry : Nat, ret : {"ok", "err", "offline"}, pick : {0, 1}]
    /\ hist \in [clean : BOOLEAN, follows : BOOLEAN, opened : Nat]

-----------------------------------------------------------------------------
(* Where the driver is.                                                     *)

Active == call.cmd.op \in Plain \cup {"READ_10", "WRITE_10"}
Reading == call.cmd.op = "READ_10"
Large == call.k > 0

\* What is in the socket, and whether the driver may talk to it.
PortInv ==
    /\ port.gen <= Len(port.media)
    /\ port.plugged \/ port.mounted => port.gen >= 1
    /\ port.plugged /\ ~port.mounted => dev = DevIdle
    /\ ~Spinning /\ Usable => port.mounted /\ hist.opened = port.gen

\* The status of the disk at each kind of call.
StatusInv ==
    /\ Spinning => call = Spin
    /\ call.cmd.op = "none" => call = Idle
    /\ call.cmd.op = "init" => call = Looping
    /\ call = Idle => disk.status \in {"IDLE", "CLOSE", "OPEN"}
    /\ call = Looping \/ (Active /\ call.who = "init") => disk.status = "INIT"
    /\ Active /\ call.who = "app" => disk.status \in {"OPEN", "READ", "WRITE"}
    /\ Active /\ call.who = "ioctl" => disk.status = "OPEN"
    /\ Active => (call.who = "app" <=> call.cmd.op \in {"READ_10", "WRITE_10"})
    /\ Active => mutex = 0

\* The loop of usb_stor_init.
RoundInv ==
    /\ ini.retry <= Retries
    /\ call = Looping /\ ini.retry = Retries => ini.state = 0
    /\ Active /\ call.who = "init" => ini.retry < Retries
    /\ call = Looping \/ (Active /\ call.who = "init") =>
          disk.remain_len = 0 /\ disk.prev_lba = 0

\* Commands go to units that the medium has.
LunInv ==
    /\ ~Spinning /\ Usable /\ disk.lun = 1 => 1 \in DOMAIN Medium
    /\ Active => call.cmd.lun = disk.curlun
    /\ \/ call = Idle /\ disk.status = "OPEN"
       \/ call = Looping /\ ini.retry < Retries
       \/ Active
       => disk.curlun <= disk.lun
    /\ Active /\ call.cmd.op = "INQUIRY" => ini.pick <= disk.lun

-----------------------------------------------------------------------------
(* What is left of a call.                                                  *)

\* After its first j transfers s has m of data, and e of the CSW.
Ends(s, j, m, e) ==
    /\ Len(s) = j + m + e
    /\ \A i \in 1..m : s[j + i] = "data"
    /\ e = 1 => s[j + m + 1] = "csw"

FromData(s, m, e) == Ends(s, 0, m, e)
FromCbw(s, m, e) == Ends(s, 1, m, e) /\ s[1] = "cbw"
FromSkip(s, d, m, e) ==
    /\ Ends(s, d + 2, m, e)
    /\ \A i \in 1..d : s[i] = "skip"
    /\ s[d + 1] = "skipcsw" /\ s[d + 2] = "cbw"

AtData(m, e) == FromData(call.todo, m, e)
AtCbw(m, e) == FromCbw(call.todo, m, e)
AtSkip(d, m, e) == FromSkip(call.todo, d, m, e)

\* The medium of the socket holds what this write was told to store.
Stored == \A i \in 0..(call.num - 1) : <<call.cmd.lun, call.at + i>> \in stored

-----------------------------------------------------------------------------
(* A command, or a read or write of whole blocks.                           *)

SmallShape ==
    Active /\ ~Large =>
        /\ \/ AtCbw(0, 1) /\ call.cmd.op = "TEST_UNIT_READY"
           \/ AtCbw(1, 1) /\ call.cmd.op # "TEST_UNIT_READY"
           \/ AtData(1, 1) /\ call.cmd.op # "TEST_UNIT_READY"
           \/ AtData(0, 1)
           \/ AtData(0, 0)
        /\ call.num >= 1
        /\ call.who = "app" => call.at = call.cmd.lba /\ call.num = call.cmd.num
        /\ call.who # "app" => call.num = 1

\* What comes is the answer to the command, unless the two have lost each other.
AnswerInv ==
    Active /\ ~Large /\ ~Writing /\ AtData(1, 1) => dev = Torn \/ dev = Accept(call.cmd)

\* A call that fails is over; a read that has been trusted to here has not failed.
TrustInv ==
    /\ call.failed => call.todo = <<>>
    /\ Active /\ ~Writing /\ call.trusted /\ ~call.failed => hist.clean

\* The CSW, which the device has still to send or has sent, does not say that the
\* data are wrong.
NoError(e) == IF e = 1 THEN dev.status = 0 ELSE call.csw = 0

\* While nothing has failed the device is where the call is.  Only the first command
\* after the disk was opened, or after the unit was changed, may find it busy.
SmallClean ==
    Active /\ ~Large /\ hist.clean =>
        /\ AtCbw(0, 1) \/ AtCbw(1, 1) =>
              \/ dev = DevIdle
              \/ call.who # "app" /\ dev.phase = "in"
        /\ AtData(1, 1) => dev = Accept(call.cmd)
        /\ AtData(0, 1) => dev.phase = "csw"
        /\ AtData(0, 0) => dev = DevIdle
        /\ disk.remain_len = 0 \/ (call.who = "ioctl" /\ AtCbw(1, 1) /\ dev.phase = "in")
        /\ \A e \in {0, 1} : Reading /\ AtData(0, e) /\ NoError(e) =>
              call.got = Sectors(port.gen, call.cmd.lun, call.at, call.num)

\* A write goes on after failures.
WriteInv ==
    Active /\ Writing =>
        /\ ~Large
        /\ call.trusted =>
            /\ AtCbw(1, 1) => dev = DevIdle
            /\ AtData(1, 1) => \/ dev.phase \in {"cmd", "stall"}
                               \/ dev.phase = "out" /\ dev.cmd = call.cmd
            /\ AtData(0, 1) => \/ dev.phase \in {"cmd", "dead", "stall", "out"}
                               \/ dev.phase = "csw" /\ (dev.status = 1 \/ Stored)
            /\ AtData(0, 0) => call.failed \/ call.csw = 1 \/ Stored

-----------------------------------------------------------------------------
(* A read in a large block.                                                 *)

\* m transfers of data lead to the sector that is wanted, and the CSW is read when
\* they are the last of the block.
LargeShape ==
    Active /\ Large =>
        /\ Reading /\ call.num = 1
        /\ call.cmd.num = call.k /\ call.k = Opened.k /\ call.k > 1
        /\ disk.prev_lba = call.at
        /\ \E m \in 0..Len(call.todo), e \in {0, 1} :
             \/ /\ AtCbw(m, e) \/ \E d \in 0..Len(call.todo) : AtSkip(d, m, e)
                /\ disk.remain_len = 0
                /\ m = call.at - call.cmd.lba + 1 /\ m >= 1 /\ m <= call.k
                /\ e = 1 <=> m = call.k
             \/ /\ AtData(m, e)
                /\ m <= disk.remain_len
                /\ e = 1 => m = disk.remain_len
                /\ e = 0 /\ m > 0 => m < disk.remain_len

\* The device has n sectors of a block to send, and if the driver has followed it
\* from the beginning of the block the first is sector s of unit l.
Offers(n, g, l, s) ==
    /\ dev.phase = "in" /\ Len(dev.queue) = n
    /\ hist.follows => \A i \in 1..n : dev.queue[i] = Sector(g, l, s + i - 1)

LargeClean ==
    Active /\ Large /\ hist.clean =>
        \A m \in 0..Len(call.todo), e \in {0, 1} :
            /\ \A d \in 0..Len(call.todo) : AtSkip(d, m, e) =>
                  /\ d > 0 => dev.phase = "in" /\ Len(dev.queue) = d
                  /\ d = 0 => dev.phase = "csw"
            /\ AtCbw(m, e) => dev = DevIdle
            /\ AtData(m, e) =>
                  /\ disk.remain_len > 0 =>
                        \/ Offers(disk.remain_len, port.gen, call.cmd.lun, call.at - m + 1)
                        \/ m > 0 /\ dev.phase = "stall"
                  /\ disk.remain_len = 0 => IF e = 1 THEN dev.phase = "csw" ELSE dev = DevIdle
                  /\ m = 0 /\ hist.follows /\ NoError(e) =>
                        call.got = <<Sector(port.gen, call.cmd.lun, call.at)>>

-----------------------------------------------------------------------------
(* Between calls.                                                           *)

RestInv ==
    /\ call = Idle /\ hist.clean => dev = DevIdle \/ dev.phase = "in"
    /\ call = Idle /\ hist.clean /\ disk.status = "OPEN" =>
          /\ disk.remain_len = 0 => dev = DevIdle
          /\ disk.remain_len > 0 =>
                /\ Opened.k > 1
                /\ Offers(disk.remain_len, hist.opened, disk.curlun, disk.prev_lba + 1)
    /\ call = Looping /\ hist.clean =>
          /\ dev = DevIdle \/ dev.phase = "in"
          /\ ini.retry < Retries => dev = DevIdle

IInv ==
    /\ TypeOK /\ PortInv /\ StatusInv /\ RoundInv /\ LunInv
    /\ SmallShape /\ AnswerInv /\ TrustInv /\ SmallClean /\ WriteInv
    /\ LargeShape /\ LargeClean /\ RestInv

-----------------------------------------------------------------------------
(* Lemmas about what is left of a call.                                     *)

\* The first of a sequence and what follows it.
LEMMA Step ==
    ASSUME NEW s \in Seq(Kinds), s # <<>>
    PROVE  /\ Tail(s) \in Seq(Kinds) /\ Len(Tail(s)) = Len(s) - 1
           /\ Len(s) \in Nat \ {0} /\ Head(s) = s[1] /\ Head(s) \in Kinds
           /\ \A i \in 1..(Len(s) - 1) : Tail(s)[i] = s[i + 1]
<1>1. Len(s) \in Nat \ {0}
  BY EmptySeq
<1>2. /\ Head(s) \in Kinds /\ Tail(s) \in Seq(Kinds) /\ Len(Tail(s)) = Len(s) - 1
      /\ \A i \in 1..Len(Tail(s)) : Tail(s)[i] = s[i + 1]
  BY HeadTailProperties
<1>3. Head(s) = s[1]
  OBVIOUS
<1> QED  BY <1>1, <1>2, <1>3

\* The data come next, and then one less of them.
LEMMA FirstData ==
    ASSUME NEW s \in Seq(Kinds), NEW m \in Nat \ {0}, NEW e \in {0, 1}, FromData(s, m, e)
    PROVE  s # <<>> /\ Head(s) = "data" /\ FromData(Tail(s), m - 1, e)
<1>1. Len(s) = m + e /\ (\A i \in 1..m : s[i] = "data") /\ (e = 1 => s[m + 1] = "csw")
  BY DEF FromData, Ends
<1>2. s # <<>>
  BY <1>1
<1>3. Head(s) = "data"
  BY <1>1, <1>2, Step
<1>4. Len(Tail(s)) = (m - 1) + e
  BY <1>1, <1>2, Step
<1>5. ASSUME NEW i \in 1..(m - 1) PROVE Tail(s)[i] = "data"
  <2>1. i \in 1..(Len(s) - 1) /\ i + 1 \in 1..m
    BY <1>1
  <2> QED  BY <1>1, <1>2, <2>1, Step
<1>6. ASSUME e = 1 PROVE Tail(s)[m] = "csw"
  <2>1. m \in 1..(Len(s) - 1)
    BY <1>1, <1>6
  <2> QED  BY <1>1, <1>2, <1>6, <2>1, Step
<1>7. Ends(Tail(s), 0, m - 1, e)
  BY <1>4, <1>5, <1>6 DEF Ends
<1> QED  BY <1>2, <1>3, <1>7 DEF FromData

\* The CSW comes last.
LEMMA FirstCsw ==
    ASSUME NEW s \in Seq(Kinds), FromData(s, 0, 1)
    PROVE  s # <<>> /\ Head(s) = "csw" /\ FromData(Tail(s), 0, 0)
<1>1. Len(s) = 1 /\ s[1] = "csw"
  BY DEF FromData, Ends
<1>2. s # <<>>
  BY <1>1
<1>3. Head(s) = "csw" /\ Len(Tail(s)) = 0
  BY <1>1, <1>2, Step
<1> QED  BY <1>2, <1>3 DEF FromData, Ends

\* After a CBW come data.
LEMMA FirstCbw ==
    ASSUME NEW s \in Seq(Kinds), NEW m \in Nat, NEW e \in {0, 1}, FromCbw(s, m, e)
    PROVE  s # <<>> /\ Head(s) = "cbw" /\ FromData(Tail(s), m, e)
<1>1. /\ Len(s) = 1 + m + e /\ s[1] = "cbw"
      /\ \A i \in 1..m : s[1 + i] = "data"
      /\ e = 1 => s[1 + m + 1] = "csw"
  BY DEF FromCbw, Ends
<1>2. s # <<>>
  BY <1>1
<1>3. Head(s) = "cbw" /\ Len(Tail(s)) = m + e
  BY <1>1, <1>2, Step
<1>4. ASSUME NEW i \in 1..m PROVE Tail(s)[i] = "data"
  <2>1. i \in 1..(Len(s) - 1) /\ i + 1 = 1 + i
    BY <1>1
  <2>2. Tail(s)[i] = s[i + 1]
    BY <1>2, <2>1, Step
  <2> QED  BY <1>1, <2>1, <2>2
<1>5. ASSUME e = 1 PROVE Tail(s)[m + 1] = "csw"
  <2>1. m + 1 \in 1..(Len(s) - 1) /\ (m + 1) + 1 = 1 + m + 1
    BY <1>1, <1>5
  <2>2. Tail(s)[m + 1] = s[(m + 1) + 1]
    BY <1>2, <2>1, Step
  <2> QED  BY <1>1, <1>5, <2>1, <2>2
<1>6. Ends(Tail(s), 0, m, e)
  BY <1>3, <1>4, <1>5 DEF Ends
<1> QED  BY <1>2, <1>3, <1>6 DEF FromData

\* Skipping ends with a CSW, after which the next block is asked for.
LEMMA FirstSkip ==
    ASSUME NEW s \in Seq(Kinds), NEW d \in Nat, NEW m \in Nat, NEW e \in {0, 1},
           FromSkip(s, d, m, e)
    PROVE  /\ s # <<>>
           /\ d > 0 => Head(s) = "skip" /\ FromSkip(Tail(s), d - 1, m, e)
           /\ d = 0 => Head(s) = "skipcsw" /\ FromCbw(Tail(s), m, e)
<1>1. /\ Len(s) = d + 2 + m + e
      /\ \A i \in 1..d : s[i] = "skip"
      /\ s[d + 1] = "skipcsw" /\ s[d + 2] = "cbw"
      /\ \A i \in 1..m : s[d + 2 + i] = "data"
      /\ e = 1 => s[d + 2 + m + 1] = "csw"
  BY DEF FromSkip, Ends
<1>2. s # <<>>
  BY <1>1
<1>3. Len(Tail(s)) = d + 1 + m + e /\ Head(s) = s[1]
  BY <1>1, <1>2, Step
<1>4. ASSUME NEW i \in 1..(d + 1 + m + e) PROVE Tail(s)[i] = s[i + 1]
  <2>1. i \in 1..(Len(s) - 1)
    BY <1>1
  <2> QED  BY <1>2, <2>1, Step
<1>5. ASSUME NEW i \in 1..m PROVE Tail(s)[d + 1 + i] = "data"
  <2>1. d + 1 + i \in 1..(d + 1 + m + e) /\ (d + 1 + i) + 1 = d + 2 + i
    OBVIOUS
  <2>2. Tail(s)[d + 1 + i] = s[(d + 1 + i) + 1]
    BY <1>4, <2>1
  <2> QED  BY <1>1, <2>1, <2>2
<1>6. ASSUME e = 1 PROVE Tail(s)[d + 1 + m + 1] = "csw"
  <2>1. d + 1 + m + 1 \in 1..(d + 1 + m + e) /\ (d + 1 + m + 1) + 1 = d + 2 + m + 1
    BY <1>6
  <2>2. Tail(s)[d + 1 + m + 1] = s[(d + 1 + m + 1) + 1]
    BY <1>4, <2>1
  <2> QED  BY <1>1, <1>6, <2>1, <2>2
<1>7. Tail(s)[d + 1] = "cbw"
  <2>1. d + 1 \in 1..(d + 1 + m + e) /\ (d + 1) + 1 = d + 2
    OBVIOUS
  <2>2. Tail(s)[d + 1] = s[(d + 1) + 1]
    BY <1>4, <2>1
  <2> QED  BY <1>1, <2>1, <2>2
<1>8. ASSUME d > 0 PROVE Head(s) = "skip" /\ FromSkip(Tail(s), d - 1, m, e)
  <2>1. Head(s) = "skip"
    BY <1>1, <1>3, <1>8
  <2>2. ASSUME NEW i \in 1..(d - 1) PROVE Tail(s)[i] = "skip"
    <3>1. i \in 1..(d + 1 + m + e) /\ i + 1 \in 1..d
      OBVIOUS
    <3> QED  BY <1>1, <1>4, <3>1
  <2>3. Tail(s)[d] = "skipcsw"
    <3>1. d \in 1..(d + 1 + m + e)
      BY <1>8
    <3> QED  BY <1>1, <1>4, <3>1
  <2>4. (d - 1) + 1 = d /\ (d - 1) + 2 = d + 1
    OBVIOUS
  <2>5. Ends(Tail(s), d + 1, m, e)
    BY <1>3, <1>5, <1>6 DEF Ends
  <2>6. FromSkip(Tail(s), d - 1, m, e)
    BY <1>7, <2>2, <2>3, <2>4, <2>5 DEF FromSkip
  <2> QED  BY <2>1, <2>6
<1>9. ASSUME d = 0 PROVE Head(s) = "skipcsw" /\ FromCbw(Tail(s), m, e)
  <2>1. Head(s) = "skipcsw"
    BY <1>1, <1>3, <1>9
  <2>2. d + 1 = 1
    BY <1>9
  <2>3. Ends(Tail(s), 1, m, e)
    BY <1>3, <1>5, <1>6, <2>2 DEF Ends
  <2> QED  BY <1>7, <2>1, <2>2, <2>3 DEF FromCbw
<1> QED  BY <1>2, <1>8, <1>9

\* A call is at one place only.
LEMMA OneData ==
    ASSUME NEW s \in Seq(Kinds), NEW m \in Nat, NEW e \in {0, 1},
           NEW n \in Nat, NEW f \in {0, 1}, FromData(s, m, e), FromData(s, n, f)
    PROVE  m = n /\ e = f
<1>1. /\ m + e = n + f
      /\ \A i \in 1..m : s[i] = "data"
      /\ e = 1 => s[m + 1] = "csw"
      /\ \A i \in 1..n : s[i] = "data"
      /\ f = 1 => s[n + 1] = "csw"
  BY DEF FromData, Ends
<1>2. CASE e = 1 /\ f = 0
  <2>1. n = m + 1 /\ m + 1 \in 1..n
    BY <1>1, <1>2
  <2> QED  BY <1>1, <1>2, <2>1
<1>3. CASE e = 0 /\ f = 1
  <2>1. m = n + 1 /\ n + 1 \in 1..m
    BY <1>1, <1>3
  <2> QED  BY <1>1, <1>3, <2>1
<1>4. CASE e = f
  BY <1>1, <1>4
<1> QED  BY <1>2, <1>3, <1>4

\* A rest begins with one number of sectors to skip.
LEMMA OneSkip ==
    ASSUME NEW s \in Seq(Kinds), NEW d \in Nat, NEW m \in Nat, NEW e \in {0, 1},
           NEW c \in Nat, NEW n \in Nat, NEW f \in {0, 1},
           FromSkip(s, d, m, e), FromSkip(s, c, n, f)
    PROVE  c = d
<1>1. (\A i \in 1..d : s[i] = "skip") /\ s[d + 1] = "skipcsw"
  BY DEF FromSkip
<1>2. (\A i \in 1..c : s[i] = "skip") /\ s[c + 1] = "skipcsw"
  BY DEF FromSkip
<1>3. ~(c < d)
  <2> SUFFICES ASSUME c < d PROVE FALSE
    OBVIOUS
  <2>1. c + 1 \in 1..d
    OBVIOUS
  <2> QED  BY <1>1, <1>2, <2>1
<1>4. ~(d < c)
  <2> SUFFICES ASSUME d < c PROVE FALSE
    OBVIOUS
  <2>1. d + 1 \in 1..c
    OBVIOUS
  <2> QED  BY <1>1, <1>2, <2>1
<1> QED  BY <1>3, <1>4

\* The first transfer tells the places apart.
LEMMA Apart ==
    ASSUME NEW s \in Seq(Kinds), NEW d \in Nat, NEW m \in Nat, NEW e \in {0, 1}
    PROVE  /\ FromData(s, m, e) => s = <<>> \/ Head(s) \in {"data", "csw"}
           /\ FromCbw(s, m, e) => s # <<>> /\ Head(s) = "cbw"
           /\ FromSkip(s, d, m, e) => s # <<>> /\ Head(s) \in {"skip", "skipcsw"}
<1>1. ASSUME FromData(s, m, e) PROVE s = <<>> \/ Head(s) \in {"data", "csw"}
  <2>1. CASE m > 0
    BY <1>1, <2>1, FirstData
  <2>2. CASE m = 0 /\ e = 1
    BY <1>1, <2>2, FirstCsw
  <2>3. CASE m = 0 /\ e = 0
    <3>1. Len(s) = 0
      BY <1>1, <2>3 DEF FromData, Ends
    <3> QED  BY <3>1
  <2> QED  BY <2>1, <2>2, <2>3
<1>2. ASSUME FromCbw(s, m, e) PROVE s # <<>> /\ Head(s) = "cbw"
  BY <1>2, FirstCbw
<1>3. ASSUME FromSkip(s, d, m, e) PROVE s # <<>> /\ Head(s) \in {"skip", "skipcsw"}
  BY <1>3, FirstSkip
<1> QED  BY <1>1, <1>2, <1>3

\* Nothing is left.
LEMMA Nothing == <<>> \in Seq(Kinds) /\ FromData(<<>>, 0, 0)
BY DEF FromData, Ends

-----------------------------------------------------------------------------
(* What a call begins with.                                                 *)

\* n transfers of one kind.
LEMMA Repeated ==
    ASSUME NEW t \in Kinds, NEW n \in Nat
    PROVE  /\ Times(t, n) \in Seq(Kinds) /\ Len(Times(t, n)) = n
           /\ \A i \in 1..n : Times(t, n)[i] = t
<1>1. Times(t, n) \in [1..n -> Kinds]
  BY DEF Times
<1>2. Times(t, n) \in Seq(Kinds)
  BY <1>1, SeqDef
<1>3. Len(Times(t, n)) = n
  BY DEF Times
<1>4. \A i \in 1..n : Times(t, n)[i] = t
  BY DEF Times
<1> QED  BY <1>2, <1>3, <1>4

\* One transfer.
LEMMA Single ==
    ASSUME NEW t \in Kinds
    PROVE  <<t>> \in Seq(Kinds) /\ Len(<<t>>) = 1 /\ <<t>>[1] = t
OBVIOUS

\* The CSW is read if nothing is left of the block.
LEMMA Closing ==
    ASSUME NEW left \in Nat
    PROVE  /\ Close(left) \in Seq(Kinds)
           /\ Len(Close(left)) = IF left = 0 THEN 1 ELSE 0
           /\ left = 0 => Close(left)[1] = "csw"
<1>1. CASE left = 0
  BY <1>1 DEF Close, Kinds
<1>2. CASE left # 0
  BY <1>2, Nothing DEF Close
<1> QED  BY <1>1, <1>2

\* s followed by n transfers of data and perhaps a CSW.
LEMMA Following ==
    ASSUME NEW s \in Seq(Kinds), NEW n \in Nat, NEW c \in Seq(Kinds),
           Len(c) \in {0, 1}, Len(c) = 1 => c[1] = "csw"
    PROVE  /\ (s \o Times("data", n)) \o c \in Seq(Kinds)
           /\ Ends((s \o Times("data", n)) \o c, Len(s), n, Len(c))
           /\ \A i \in 1..Len(s) : ((s \o Times("data", n)) \o c)[i] = s[i]
<1> DEFINE t == Times("data", n)
           u == s \o t
           w == u \o c
           e == Len(c)
<1>0. e \in {0, 1} /\ (e = 1 => c[1] = "csw")
  OBVIOUS
<1>1. t \in Seq(Kinds) /\ Len(t) = n /\ (\A i \in 1..n : t[i] = "data")
  BY Repeated DEF Kinds
<1>2. Len(s) \in Nat
  OBVIOUS
<1> HIDE DEF t
<1>3. /\ u \in Seq(Kinds) /\ Len(u) = Len(s) + n
      /\ \A i \in 1..(Len(s) + n) : u[i] = IF i <= Len(s) THEN s[i] ELSE t[i - Len(s)]
  BY <1>1, ConcatProperties
<1> HIDE DEF u
<1>4. /\ w \in Seq(Kinds) /\ Len(w) = Len(s) + n + e
      /\ \A i \in 1..(Len(s) + n + e) :
            w[i] = IF i <= Len(s) + n THEN u[i] ELSE c[i - (Len(s) + n)]
  <2>1. /\ w \in Seq(Kinds) /\ Len(w) = Len(u) + Len(c)
        /\ \A i \in 1..(Len(u) + Len(c)) :
              w[i] = IF i <= Len(u) THEN u[i] ELSE c[i - Len(u)]
    <3>1. u \in Seq(Kinds)
      BY <1>3
    <3> QED  BY <3>1, ConcatProperties
  <2> HIDE DEF w
  <2> QED  BY <1>3, <2>1
<1> HIDE DEF w, e
<1>5. ASSUME NEW i \in 1..Len(s) PROVE w[i] = s[i]
  <2>1. i \in 1..(Len(s) + n) /\ i \in 1..(Len(s) + n + e) /\ i <= Len(s) /\ i <= Len(s) + n
    BY <1>0, <1>2
  <2> QED  BY <1>3, <1>4, <2>1
<1>6. ASSUME NEW i \in 1..n PROVE w[Len(s) + i] = "data"
  <2>1. /\ Len(s) + i \in 1..(Len(s) + n) /\ Len(s) + i \in 1..(Len(s) + n + e)
        /\ ~(Len(s) + i <= Len(s)) /\ Len(s) + i <= Len(s) + n
        /\ (Len(s) + i) - Len(s) = i
    BY <1>0, <1>2
  <2>2. w[Len(s) + i] = u[Len(s) + i]
    BY <1>4, <2>1
  <2>3. u[Len(s) + i] = t[(Len(s) + i) - Len(s)]
    BY <1>3, <2>1
  <2> QED  BY <1>1, <2>1, <2>2, <2>3
<1>7. ASSUME e = 1 PROVE w[Len(s) + n + 1] = "csw"
  <2>1. /\ Len(s) + n + 1 \in 1..(Len(s) + n + e)
        /\ ~(Len(s) + n + 1 <= Len(s) + n)
        /\ (Len(s) + n + 1) - (Len(s) + n) = 1
    BY <1>2, <1>7
  <2>2. w[Len(s) + n + 1] = c[(Len(s) + n + 1) - (Len(s) + n)]
    BY <1>4, <2>1
  <2> QED  BY <1>0, <1>7, <2>1, <2>2
<1>8. Ends(w, Len(s), n, e)
  BY <1>4, <1>6, <1>7 DEF Ends
<1> QED  BY <1>4, <1>5, <1>8 DEF w, u, t, e

\* A command with its data and its CSW.
LEMMA WholeExchange ==
    ASSUME NEW n \in Nat
    PROVE  Exchange(n) \in Seq(Kinds) /\ FromCbw(Exchange(n), n, 1)
<1>1. /\ <<"cbw">> \in Seq(Kinds) /\ Len(<<"cbw">>) = 1 /\ <<"cbw">>[1] = "cbw"
      /\ <<"csw">> \in Seq(Kinds) /\ Len(<<"csw">>) = 1 /\ <<"csw">>[1] = "csw"
  BY Single DEF Kinds
<1>2. Exchange(n) = (<<"cbw">> \o Times("data", n)) \o <<"csw">>
  BY DEF Exchange
<1>3. /\ Exchange(n) \in Seq(Kinds) /\ Ends(Exchange(n), 1, n, 1)
      /\ \A i \in 1..1 : Exchange(n)[i] = <<"cbw">>[i]
  <2> DEFINE s == <<"cbw">>
             c == <<"csw">>
  <2>1. /\ s \in Seq(Kinds) /\ c \in Seq(Kinds) /\ Len(s) = 1 /\ Len(c) = 1
        /\ c[1] = "csw" /\ 1 \in {0, 1} /\ 1 \in Nat
    BY <1>1
  <2> HIDE DEF s, c
  <2>2. /\ (s \o Times("data", n)) \o c \in Seq(Kinds)
        /\ Ends((s \o Times("data", n)) \o c, Len(s), n, Len(c))
        /\ \A i \in 1..Len(s) : ((s \o Times("data", n)) \o c)[i] = s[i]
    BY <2>1, Following
  <2>3. Exchange(n) = (s \o Times("data", n)) \o c
    BY <1>2 DEF s, c
  <2> QED  BY <2>1, <2>2, <2>3 DEF s
<1> QED  BY <1>1, <1>3 DEF FromCbw

\* A read that asks for a block of which r sectors are still to be skipped.
LEMMA AskingRead ==
    ASSUME NEW r \in Nat, NEW n \in Nat, NEW left \in Nat
    PROVE  LET w == Drain(r) \o <<"cbw">> \o Times("data", n) \o Close(left)
               e == IF left = 0 THEN 1 ELSE 0
           IN  /\ w \in Seq(Kinds)
               /\ r = 0 => FromCbw(w, n, e)
               /\ r > 0 => FromSkip(w, r, n, e)
<1> DEFINE e == IF left = 0 THEN 1 ELSE 0
           p == Drain(r) \o <<"cbw">>
           w == (p \o Times("data", n)) \o Close(left)
<1>1. /\ <<"cbw">> \in Seq(Kinds) /\ Len(<<"cbw">>) = 1 /\ <<"cbw">>[1] = "cbw"
      /\ <<"skipcsw">> \in Seq(Kinds) /\ Len(<<"skipcsw">>) = 1 /\ <<"skipcsw">>[1] = "skipcsw"
  BY Single DEF Kinds
<1>2. Close(left) \in Seq(Kinds) /\ Len(Close(left)) = e /\ (e = 1 => Close(left)[1] = "csw")
  BY Closing
<1>3. e \in {0, 1}
  OBVIOUS
<1>4. CASE r = 0
  <2>1. p = <<"cbw">>
    BY <1>1, <1>4, ConcatEmptySeq DEF Drain
  <2>2. p \in Seq(Kinds) /\ Len(p) = 1 /\ p[1] = "cbw"
    BY <1>1, <2>1
  <2> HIDE DEF p, e
  <2>3. w \in Seq(Kinds) /\ Ends(w, 1, n, e) /\ (\A i \in 1..1 : w[i] = p[i])
    <3>1. /\ w \in Seq(Kinds) /\ Ends(w, Len(p), n, Len(Close(left)))
          /\ \A i \in 1..Len(p) : w[i] = p[i]
      BY <1>2, <1>3, <2>2, Following
    <3> HIDE DEF w
    <3> QED  BY <1>2, <2>2, <3>1
  <2>4. FromCbw(w, n, e)
    <3> HIDE DEF w
    <3>1. w[1] = "cbw"
      BY <2>2, <2>3
    <3> QED  BY <2>3, <3>1 DEF FromCbw
  <2> QED  BY <1>4, <2>3, <2>4 DEF p, e
<1>5. CASE r > 0
  <2> DEFINE t == Times("skip", r)
             q == t \o <<"skipcsw">>
  <2>1. t \in Seq(Kinds) /\ Len(t) = r /\ (\A i \in 1..r : t[i] = "skip")
    BY Repeated DEF Kinds
  <2>2. Drain(r) = q
    BY <1>5 DEF Drain
  <2> HIDE DEF t
  <2>3. /\ q \in Seq(Kinds) /\ Len(q) = r + 1
        /\ \A i \in 1..(r + 1) : q[i] = IF i <= r THEN t[i] ELSE <<"skipcsw">>[i - r]
    BY <1>1, <2>1, ConcatProperties
  <2> HIDE DEF q
  <2>4. /\ p \in Seq(Kinds) /\ Len(p) = r + 2
        /\ \A i \in 1..(r + 2) : p[i] = IF i <= r + 1 THEN q[i] ELSE <<"cbw">>[i - (r + 1)]
    BY <1>1, <2>2, <2>3, ConcatProperties
  <2>5. (\A i \in 1..r : p[i] = "skip") /\ p[r + 1] = "skipcsw" /\ p[r + 2] = "cbw"
    <3>1. ASSUME NEW i \in 1..r PROVE p[i] = "skip"
      <4>1. i \in 1..(r + 1) /\ i \in 1..(r + 2) /\ i <= r /\ i <= r + 1
        OBVIOUS
      <4> HIDE DEF p
      <4> QED  BY <2>1, <2>3, <2>4, <4>1
    <3>2. p[r + 1] = "skipcsw"
      <4>1. /\ r + 1 \in 1..(r + 1) /\ r + 1 \in 1..(r + 2) /\ ~(r + 1 <= r)
            /\ r + 1 <= r + 1 /\ (r + 1) - r = 1
        OBVIOUS
      <4> HIDE DEF p
      <4>2. p[r + 1] = q[r + 1]
        BY <2>4, <4>1
      <4>3. q[r + 1] = <<"skipcsw">>[(r + 1) - r]
        BY <2>3, <4>1
      <4> QED  BY <1>1, <4>1, <4>2, <4>3
    <3>3. p[r + 2] = "cbw"
      <4>1. r + 2 \in 1..(r + 2) /\ ~(r + 2 <= r + 1) /\ (r + 2) - (r + 1) = 1
        OBVIOUS
      <4> HIDE DEF p
      <4>2. p[r + 2] = <<"cbw">>[(r + 2) - (r + 1)]
        BY <2>4, <4>1
      <4> QED  BY <1>1, <4>1, <4>2
    <3> QED  BY <3>1, <3>2, <3>3
  <2> HIDE DEF p, e
  <2>6. w \in Seq(Kinds) /\ Ends(w, r + 2, n, e) /\ (\A i \in 1..(r + 2) : w[i] = p[i])
    <3>1. /\ w \in Seq(Kinds) /\ Ends(w, Len(p), n, Len(Close(left)))
          /\ \A i \in 1..Len(p) : w[i] = p[i]
      BY <1>2, <1>3, <2>4, Following
    <3> HIDE DEF w
    <3> QED  BY <1>2, <2>4, <3>1
  <2>7. (\A i \in 1..r : w[i] = "skip") /\ w[r + 1] = "skipcsw" /\ w[r + 2] = "cbw"
    <3>1. r + 1 \in 1..(r + 2) /\ r + 2 \in 1..(r + 2) /\ (\A i \in 1..r : i \in 1..(r + 2))
      OBVIOUS
    <3> HIDE DEF w
    <3> QED  BY <2>5, <2>6, <3>1
  <2>8. FromSkip(w, r, n, e)
    <3> HIDE DEF w
    <3> QED  BY <2>6, <2>7 DEF FromSkip
  <2> QED  BY <1>5, <2>6, <2>8 DEF p, e
<1> QED  BY <1>4, <1>5

\* A read that goes on in its block.
LEMMA ContinuedRead ==
    ASSUME NEW left \in Nat
    PROVE  LET w == <<"data">> \o Close(left)
               e == IF left = 0 THEN 1 ELSE 0
           IN  w \in Seq(Kinds) /\ FromData(w, 1, e)
<1> DEFINE e == IF left = 0 THEN 1 ELSE 0
           w == <<"data">> \o Close(left)
<1>1. <<"data">> \in Seq(Kinds) /\ Len(<<"data">>) = 1 /\ <<"data">>[1] = "data"
  BY Single DEF Kinds
<1>2. Close(left) \in Seq(Kinds) /\ Len(Close(left)) = e /\ (e = 1 => Close(left)[1] = "csw")
  BY Closing
<1>3. e \in {0, 1}
  OBVIOUS
<1> HIDE DEF e
<1>4. /\ w \in Seq(Kinds) /\ Len(w) = 1 + e
      /\ \A i \in 1..(1 + e) : w[i] = IF i <= 1 THEN <<"data">>[i] ELSE Close(left)[i - 1]
  BY <1>1, <1>2, ConcatProperties
<1> HIDE DEF w
<1>5. w[1] = "data"
  <2>1. 1 \in 1..(1 + e)
    BY <1>3
  <2> QED  BY <1>1, <1>4, <2>1
<1>6. ASSUME e = 1 PROVE w[2] = "csw"
  <2>1. 2 \in 1..(1 + e) /\ ~(2 <= 1) /\ 2 - 1 = 1
    BY <1>6
  <2> QED  BY <1>2, <1>4, <1>6, <2>1
<1>7. Ends(w, 0, 1, e)
  BY <1>4, <1>5, <1>6 DEF Ends
<1> QED  BY <1>4, <1>7 DEF FromData, w, e
-----------------------------------------------------------------------------
(* What a transfer may come to.                                             *)

\* The states that a transfer may leave the device in.
LEMMA DeviceStates ==
    /\ DevIdle \in Devs /\ Torn \in Devs /\ Dead \in Devs
    /\ DevIdle.phase = "cmd" /\ Torn.phase = "torn" /\ Dead.phase = "dead"
    /\ DevIdle.status = 0 /\ DevIdle.queue = <<>>
    /\ \A s \in {0, 1} : /\ InCsw(s) \in Devs
                         /\ InCsw(s).phase = "csw" /\ InCsw(s).status = s
    /\ \A q \in Seq(Items) : /\ Sending(q) \in Devs /\ Sending(q).status = 0
                             /\ Sending(q).phase = "in" /\ Sending(q).queue = q
<1>1. NoCmd \in Cmds
  BY DEF NoCmd, Cmds, Ops
<1>2. <<>> \in Seq(Items)
  BY EmptySeq
<1>3. DevIdle = [phase |-> "cmd", queue |-> <<>>, status |-> 0, cmd |-> NoCmd]
  BY DEF DevIdle
<1>4. Torn = [phase |-> "torn", queue |-> <<>>, status |-> 0, cmd |-> NoCmd]
  BY <1>3 DEF Torn
<1>5. Dead = [phase |-> "dead", queue |-> <<>>, status |-> 0, cmd |-> NoCmd]
  BY <1>3 DEF Dead
<1>6. DevIdle \in Devs /\ Torn \in Devs /\ Dead \in Devs
  BY <1>1, <1>2, <1>3, <1>4, <1>5 DEF Devs, Phases
<1>7. ASSUME NEW s \in {0, 1}
      PROVE  InCsw(s) \in Devs /\ InCsw(s).phase = "csw" /\ InCsw(s).status = s
  BY <1>6, <1>7 DEF InCsw, Devs, Phases
<1>8. ASSUME NEW q \in Seq(Items)
      PROVE  /\ Sending(q) \in Devs /\ Sending(q).status = 0
             /\ Sending(q).phase = "in" /\ Sending(q).queue = q
  <2>1. DevIdle.status = 0
    BY <1>3
  <2> QED  BY <1>6, <1>8, <2>1 DEF Sending, Devs, Phases
<1> QED  BY <1>3, <1>4, <1>5, <1>6, <1>7, <1>8

\* What every outcome has.
Outcomes == [ok : BOOLEAN, dev : Devs, got : Seq(Items), status : {0, 1}, fault : {0, 1}]

\* What a transfer that ends and one that fails come to.
LEMMA OutcomeFields ==
    ASSUME NEW d \in Devs, NEW g \in Seq(Items), NEW s \in {0, 1}
    PROVE  /\ Done(d, g, s) \in Outcomes
           /\ LET o == Done(d, g, s)
              IN  o.ok /\ o.dev = d /\ o.got = g /\ o.status = s
           /\ Failed(d) \in Outcomes
           /\ LET o == Failed(d)
              IN  ~o.ok /\ o.dev = d /\ o.got = <<>> /\ o.status = 0
<1>1. <<>> \in Seq(Items)
  BY EmptySeq
<1>2. /\ Done(d, g, s) = [ok |-> TRUE, dev |-> d, got |-> g, status |-> s, fault |-> 0]
      /\ Done(d, g, s) \in Outcomes
  BY DEF Done, Outcomes
<1>3. /\ Done(d, <<>>, 0) \in Outcomes
      /\ LET o == Done(d, <<>>, 0) IN o.dev = d /\ o.got = <<>> /\ o.status = 0
  BY <1>1 DEF Done, Outcomes
<1>4. Failed(d) \in Outcomes
  BY <1>3 DEF Failed, Outcomes
<1>5. LET o == Failed(d) IN ~o.ok /\ o.dev = d /\ o.got = <<>> /\ o.status = 0
  BY <1>3 DEF Failed, Outcomes
<1> QED  BY <1>2, <1>4, <1>5

\* A transfer that fails moves nothing.
LEMMA FailedFields ==
    ASSUME NEW d \in Devs
    PROVE  /\ Failed(d) \in Outcomes /\ ~Failed(d).ok
           /\ Failed(d).dev = d /\ Failed(d).got = <<>> /\ Failed(d).status = 0
<1>1. <<>> \in Seq(Items) /\ 0 \in {0, 1}
  BY EmptySeq
<1> QED  BY <1>1, OutcomeFields

\* A transfer that ends and brings nothing.
LEMMA EmptyFields ==
    ASSUME NEW d \in Devs, NEW s \in {0, 1}
    PROVE  /\ Done(d, <<>>, s) \in Outcomes /\ Done(d, <<>>, s).ok
           /\ Done(d, <<>>, s).dev = d /\ Done(d, <<>>, s).got = <<>>
           /\ Done(d, <<>>, s).status = s
<1>1. <<>> \in Seq(Items)
  BY EmptySeq
<1> DEFINE g == <<>>
<1>2. g \in Seq(Items)
  BY <1>1
<1> HIDE DEF g
<1>3. LET o == Done(d, g, s)
      IN  o \in Outcomes /\ o.ok /\ o.dev = d /\ o.got = g /\ o.status = s
  BY <1>2, OutcomeFields
<1> QED  BY <1>3 DEF g

\* Two outcomes that differ in whether they are counted as a fault.
Like(o, p) ==
    /\ o \in Outcomes
    /\ o.ok = p.ok /\ o.dev = p.dev /\ o.got = p.got /\ o.status = p.status

\* A fault is counted and changes nothing else.
LEMMA OneFault ==
    ASSUME NEW p \in Outcomes, NEW o \in Faults({p})
    PROVE  Like(o, p)
<1>1. o = [p EXCEPT !.fault = 1]
  BY DEF Faults
<1> QED  BY <1>1 DEF Like, Outcomes

\* The same for two possible outcomes.
LEMMA OneOfTwo ==
    ASSUME NEW p \in Outcomes, NEW r \in Outcomes, NEW o \in Faults({p, r})
    PROVE  Like(o, p) \/ Like(o, r)
<1>1. o = [p EXCEPT !.fault = 1] \/ o = [r EXCEPT !.fault = 1]
  BY DEF Faults
<1> QED  BY <1>1 DEF Like, Outcomes

\* An outcome is like itself.
LEMMA Same ==
    ASSUME NEW o \in Outcomes PROVE Like(o, o)
BY DEF Like

\* The parts of Garbage.
LEMMA Rubbish ==
    ASSUME NEW o \in Garbage
    PROVE  o \in Outcomes /\ o.dev = Torn /\ o.got = <<>>
<1>1. Torn \in Devs /\ <<>> \in Seq(Items)
  BY DeviceStates, EmptySeq
<1>2. o = Failed(Torn) \/ o = Done(Torn, <<>>, 0) \/ o = Done(Torn, <<>>, 1)
  BY DEF Garbage
<1>3. /\ Failed(Torn) \in Outcomes /\ Failed(Torn).dev = Torn /\ Failed(Torn).got = <<>>
      /\ \A s \in {0, 1} :
           /\ Done(Torn, <<>>, s) \in Outcomes
           /\ Done(Torn, <<>>, s).dev = Torn /\ Done(Torn, <<>>, s).got = <<>>
  BY <1>1, FailedFields, EmptyFields
<1> QED  BY <1>2, <1>3

\* A transfer that came to nothing.
Nought(o) == o \in Outcomes /\ ~o.ok /\ o.dev = dev /\ o.got = <<>>

\* A transfer that never reaches the device is one that comes to nothing.
LEMMA NoughtFails ==
    ASSUME TypeOK
    PROVE  Nought(Failed(dev)) /\ \A o \in Faults({Failed(dev)}) : Nought(o)
<1>1. /\ ~Failed(dev).ok /\ Failed(dev).dev = dev /\ Failed(dev).got = <<>> /\ Failed(dev).status = 0
      /\ Failed(dev) \in Outcomes
  <2>1. dev \in Devs /\ <<>> \in Seq(Items)
    BY EmptySeq DEF TypeOK
  <2> QED  BY <2>1, FailedFields, EmptyFields
<1>2. Nought(Failed(dev))
  BY <1>1 DEF Nought
<1>3. ASSUME NEW o \in Faults({Failed(dev)}) PROVE Nought(o)
  <2>1. Like(o, Failed(dev))
    BY <1>1, OneFault
  <2> QED  BY <1>1, <2>1 DEF Like, Nought
<1> QED  BY <1>2, <1>3

\* What the transfer of a CBW may come to.
CbwOutcome(o) ==
    /\ o \in Outcomes /\ o.got = <<>>
    /\ \/ ~o.ok /\ o.dev = dev
       \/ o.ok /\ dev.phase = "cmd" /\ o.dev = Accept(call.cmd)
       \/ dev.phase \in {"out", "torn"} /\ o.dev = Torn

\* Every way that a CBW can go.
LEMMA CbwComesTo ==
    ASSUME TypeOK, Accept(call.cmd) \in Devs, NEW o \in Transfers("cbw")
    PROVE  CbwOutcome(o)
<1>1. CASE ~port.plugged
  BY <1>1, NoughtFails DEF Transfers, Nought, CbwOutcome
<1>2. CASE o \in Faults({Failed(dev)})
  BY <1>2, NoughtFails DEF Nought, CbwOutcome
<1>3. CASE o \in SendsCbw
  <2>1. CASE dev.phase = "cmd"
    <3>1. o = Done(Accept(call.cmd), <<>>, 0)
      BY <1>3, <2>1 DEF SendsCbw
    <3>2. <<>> \in Seq(Items)
      BY EmptySeq
    <3>3. /\ o \in Outcomes
          /\ o.ok /\ o.dev = Accept(call.cmd) /\ o.got = <<>> /\ o.status = 0
      BY <3>1, <3>2, FailedFields, EmptyFields
    <3> QED  BY <2>1, <3>3 DEF CbwOutcome
  <2>2. CASE dev.phase \in {"out", "torn"}
    BY <1>3, <2>2, Rubbish DEF SendsCbw, CbwOutcome
  <2>3. CASE dev.phase \notin {"cmd", "out", "torn"}
    BY <1>3, <2>3, NoughtFails DEF SendsCbw, Nought, CbwOutcome
  <2> QED  BY <2>1, <2>2, <2>3
<1> QED  BY <1>1, <1>2, <1>3 DEF Transfers

\* What sending data may come to.
SentOutcome(o) ==
    /\ o \in Outcomes /\ o.got = <<>>
    /\ \/ ~o.ok /\ o.dev = dev
       \/ dev.phase = "out" /\ (o.dev = InCsw(1) \/ (o.ok /\ o.dev = InCsw(0)))
       \/ ~o.ok /\ dev.phase = "cmd" /\ o.dev = Dead
       \/ dev.phase = "torn" /\ o.dev = Torn

\* Every way that data can be sent.
LEMMA SendingComesTo ==
    ASSUME TypeOK, Writing, NEW o \in Transfers("data")
    PROVE  SentOutcome(o)
<1>1. CASE ~port.plugged
  BY <1>1, NoughtFails DEF Transfers, Nought, SentOutcome
<1>2. CASE o \in Faults({Failed(dev)})
  BY <1>2, NoughtFails DEF Nought, SentOutcome
<1>3. CASE o \in SendsData
  <2>1. CASE dev.phase = "out"
    <3>1. InCsw(0) \in Devs /\ InCsw(1) \in Devs /\ <<>> \in Seq(Items)
      BY DeviceStates, EmptySeq
    <3> DEFINE a == Done(InCsw(0), <<>>, 0)
               b == Failed(InCsw(1))
               c == Done(InCsw(1), <<>>, 0)
    <3>2. /\ a.ok /\ a.dev = InCsw(0) /\ a.got = <<>> /\ a.status = 0
          /\ ~b.ok /\ b.dev = InCsw(1) /\ b.got = <<>> /\ b.status = 0
          /\ c.ok /\ c.dev = InCsw(1) /\ c.got = <<>> /\ c.status = 0
          /\ a \in Outcomes /\ b \in Outcomes /\ c \in Outcomes
      BY <3>1, FailedFields, EmptyFields
    <3>3. o = a \/ o \in Faults({b, c})
      BY <1>3, <2>1 DEF SendsData
    <3> HIDE DEF a, b, c
    <3>4. CASE o = a
      BY <2>1, <3>2, <3>4 DEF SentOutcome
    <3>5. CASE o \in Faults({b, c})
      <4>1. Like(o, b) \/ Like(o, c)
        BY <3>2, <3>5, OneOfTwo
      <4> QED  BY <2>1, <3>2, <4>1 DEF Like, SentOutcome
    <3> QED  BY <3>3, <3>4, <3>5
  <2>2. CASE dev.phase = "cmd"
    <3>1. o = Failed(Dead)
      BY <1>3, <2>2 DEF SendsData
    <3>2. /\ ~o.ok /\ o.dev = Dead /\ o.got = <<>> /\ o.status = 0
          /\ o \in Outcomes
      <4>1. Dead \in Devs /\ <<>> \in Seq(Items)
        BY DeviceStates, EmptySeq
      <4> QED  BY <3>1, <4>1, FailedFields, EmptyFields
    <3> QED  BY <2>2, <3>2 DEF SentOutcome
  <2>3. CASE dev.phase = "torn"
    BY <1>3, <2>3, Rubbish DEF SendsData, SentOutcome
  <2>4. CASE dev.phase \notin {"out", "cmd", "torn"}
    BY <1>3, <2>4, NoughtFails DEF SendsData, Nought, SentOutcome
  <2> QED  BY <2>1, <2>2, <2>3, <2>4
<1> QED  BY <1>1, <1>2, <1>3 DEF Transfers

\* What receiving n units may come to.
GotOutcome(n, o) ==
    /\ o \in Outcomes
    /\ \/ ~o.ok /\ o.got = <<>> /\ o.dev \in {dev, InCsw(1), Torn}
       \/ /\ o.ok /\ dev.phase = "in" /\ n < Len(dev.queue)
          /\ o.got = SubSeq(dev.queue, 1, n)
          /\ o.dev = Sending(SubSeq(dev.queue, n + 1, Len(dev.queue)))
       \/ /\ o.ok /\ dev.phase = "in" /\ n = Len(dev.queue)
          /\ \/ o.got = SubSeq(dev.queue, 1, n) /\ o.dev = InCsw(0)
             \/ o.got = <<>> /\ o.dev = InCsw(1)
       \/ /\ o.ok /\ o.got = <<>> /\ o.dev = Torn
          /\ dev.phase \in {"csw", "torn"} \/ (dev.phase = "in" /\ n > Len(dev.queue))

\* Data that come in, in full, or less than was asked for.
LEMMA Receiving ==
    ASSUME TypeOK, NEW n \in Nat \ {0}, NEW o \in ReceivesData(n)
    PROVE  GotOutcome(n, o)
<1> DEFINE q == dev.queue
           rest == SubSeq(q, n + 1, Len(q))
           got == SubSeq(q, 1, n)
<1>1. dev \in Devs /\ q \in Seq(Items) /\ Len(q) \in Nat /\ <<>> \in Seq(Items)
  BY EmptySeq DEF TypeOK, Devs
<1>2. InCsw(0) \in Devs /\ InCsw(1) \in Devs
  BY DeviceStates
<1>3. CASE dev.phase = "in" /\ n <= Len(q)
  <2>1. got \in Seq(Items)
    BY <1>1, <1>3, SubSeqProperties
  <2>2. /\ rest \in Seq(Items) /\ (n < Len(q) => rest # <<>>) /\ (n = Len(q) => rest = <<>>)
    <3>1. rest \in Seq(Items) /\ Len(rest) = IF n + 1 <= Len(q) THEN Len(q) - (n + 1) + 1 ELSE 0
      <4>1. n + 1 \in Int /\ Len(q) \in Int /\ \A i \in (n + 1)..Len(q) : q[i] \in Items
        BY <1>1
      <4> HIDE DEF q
      <4> QED  BY <4>1, SubSeqProperties
    <3> HIDE DEF rest
    <3> QED  BY <1>1, <3>1
  <2> DEFINE a == Done(IF rest = <<>> THEN InCsw(0) ELSE Sending(rest), got, 0)
             b == Failed(InCsw(1))
             c == Done(InCsw(1), <<>>, 1)
  <2>3. o = a \/ o \in Faults({b}) \/ (rest = <<>> /\ o \in Faults({c}))
    BY <1>3 DEF ReceivesData
  <2>4. (IF rest = <<>> THEN InCsw(0) ELSE Sending(rest)) \in Devs
    <3>1. Sending(rest) \in Devs
      <4> HIDE DEF rest
      <4> QED  BY <2>2, DeviceStates
    <3> QED  BY <1>2, <3>1
  <2>5. /\ a \in Outcomes
        /\ a.ok /\ a.got = got /\ a.status = 0
        /\ a.dev = IF rest = <<>> THEN InCsw(0) ELSE Sending(rest)
    <3> HIDE DEF got, rest
    <3> QED  BY <2>1, <2>4, OutcomeFields
  <2>6. /\ b \in Outcomes /\ c \in Outcomes
        /\ ~b.ok /\ b.dev = InCsw(1) /\ b.got = <<>> /\ b.status = 0
        /\ c.ok /\ c.dev = InCsw(1) /\ c.got = <<>> /\ c.status = 1
    BY <1>1, <1>2, FailedFields, EmptyFields
  <2> HIDE DEF a, b, c
  <2>7. CASE o = a
    <3>1. o \in Outcomes /\ o.ok /\ o.got = got
          /\ o.dev = IF rest = <<>> THEN InCsw(0) ELSE Sending(rest)
      BY <2>5, <2>7
    <3> HIDE DEF got, rest
    <3>2. CASE n < Len(q)
      BY <1>3, <2>2, <3>1, <3>2 DEF GotOutcome, got, rest
    <3>3. CASE n = Len(q)
      BY <1>3, <2>2, <3>1, <3>3 DEF GotOutcome, got
    <3> QED  BY <1>1, <1>3, <3>2, <3>3
  <2>8. CASE o \in Faults({b})
    <3>1. Like(o, b)
      BY <2>6, <2>8, OneFault
    <3> QED  BY <2>6, <3>1 DEF Like, GotOutcome
  <2>9. CASE rest = <<>> /\ o \in Faults({c})
    <3>1. Like(o, c)
      BY <2>6, <2>9, OneFault
    <3>2. n = Len(q)
      BY <1>1, <1>3, <2>2, <2>9
    <3> QED  BY <1>3, <2>6, <3>1, <3>2 DEF Like, GotOutcome
  <2> QED  BY <2>3, <2>7, <2>8, <2>9
<1>4. CASE dev.phase = "stall"
  <2>1. o = Failed(InCsw(1))
    BY <1>4 DEF ReceivesData
  <2>2. /\ ~o.ok /\ o.dev = InCsw(1) /\ o.got = <<>> /\ o.status = 0
        /\ o \in Outcomes
    BY <1>1, <1>2, <2>1, FailedFields, EmptyFields
  <2> QED  BY <2>2 DEF GotOutcome
<1>5. CASE dev.phase \in {"cmd", "out", "dead"}
  BY <1>5, NoughtFails DEF ReceivesData, Nought, GotOutcome
<1>6. CASE dev.phase \in {"csw", "torn"} \/ (dev.phase = "in" /\ n > Len(q))
  <2>1. o \in Garbage
    BY <1>1, <1>6 DEF ReceivesData
  <2> QED  BY <1>6, <2>1, Rubbish DEF GotOutcome
<1>7. dev.phase \in Phases
  BY <1>1 DEF Devs
<1> QED  BY <1>1, <1>3, <1>4, <1>5, <1>6, <1>7 DEF Phases

\* Every way that data can be received.
LEMMA ReceivingComesTo ==
    ASSUME TypeOK, ~Writing, call.num >= 1, NEW o \in Transfers("data")
    PROVE  GotOutcome(call.num, o)
<1>1. call.num \in Nat \ {0}
  BY DEF TypeOK, Calls
<1>2. CASE ~port.plugged
  BY <1>2, NoughtFails DEF Transfers, Nought, GotOutcome
<1>3. CASE o \in Faults({Failed(dev)})
  BY <1>3, NoughtFails DEF Nought, GotOutcome
<1>4. CASE o \in ReceivesData(call.num)
  BY <1>1, <1>4, Receiving
<1> QED  BY <1>2, <1>3, <1>4 DEF Transfers

\* Every way that a sector can be skipped, as _usb_stor_read_block_finish does.
LEMMA SkippingComesTo ==
    ASSUME TypeOK, NEW o \in Transfers("skip")
    PROVE  GotOutcome(1, o)
<1>1. CASE ~port.plugged
  BY <1>1, NoughtFails DEF Transfers, Nought, GotOutcome
<1>2. CASE o \in Faults({Failed(dev)})
  BY <1>2, NoughtFails DEF Nought, GotOutcome
<1>3. CASE o \in ReceivesData(1)
  BY <1>3, Receiving
<1> QED  BY <1>1, <1>2, <1>3 DEF Transfers

\* What receiving the CSW may come to.
CswOutcome(o) ==
    /\ o \in Outcomes /\ o.got = <<>>
    /\ \/ ~o.ok /\ o.dev \in {dev, InCsw(1), Torn}
       \/ o.ok /\ dev.phase = "csw" /\ o.dev = DevIdle /\ o.status = dev.status
       \/ o.ok /\ dev.phase \in {"in", "torn"} /\ o.dev = Torn

\* Every way that a CSW can be received.
LEMMA CswComesTo ==
    ASSUME TypeOK, NEW t \in {"csw", "skipcsw"}, NEW o \in Transfers(t)
    PROVE  CswOutcome(o)
<1>0. dev \in Devs /\ dev.status \in {0, 1} /\ dev.phase \in Phases /\ <<>> \in Seq(Items)
  BY EmptySeq DEF TypeOK, Devs
<1>1. CASE ~port.plugged
  BY <1>1, NoughtFails DEF Transfers, Nought, CswOutcome
<1>2. CASE o \in Faults({Failed(dev)})
  BY <1>2, NoughtFails DEF Nought, CswOutcome
<1>3. CASE o \in ReceivesCsw
  <2>1. CASE dev.phase = "csw"
    <3>1. o = Done(DevIdle, <<>>, dev.status)
      BY <1>3, <2>1 DEF ReceivesCsw
    <3>2. /\ o.ok /\ o.dev = DevIdle /\ o.got = <<>> /\ o.status = dev.status
          /\ o \in Outcomes
      BY <1>0, <3>1, DeviceStates, FailedFields, EmptyFields
    <3> QED  BY <2>1, <3>2 DEF CswOutcome
  <2>2. CASE dev.phase = "stall"
    <3>1. o = Failed(InCsw(1))
      BY <1>3, <2>2 DEF ReceivesCsw
    <3>2. /\ ~o.ok /\ o.dev = InCsw(1) /\ o.got = <<>> /\ o.status = 0
          /\ o \in Outcomes
      <4>1. InCsw(1) \in Devs
        BY DeviceStates
      <4> QED  BY <1>0, <3>1, <4>1, FailedFields, EmptyFields
    <3> QED  BY <3>2 DEF CswOutcome
  <2>3. CASE dev.phase \in {"cmd", "out", "dead"}
    BY <1>3, <2>3, NoughtFails DEF ReceivesCsw, Nought, CswOutcome
  <2>4. CASE dev.phase \in {"in", "torn"}
    <3>1. o \in Garbage
      BY <1>3, <2>4 DEF ReceivesCsw
    <3>2. o \in Outcomes /\ o.dev = Torn /\ o.got = <<>>
      BY <3>1, Rubbish
    <3>3. o.ok \/ ~o.ok
      OBVIOUS
    <3> QED  BY <2>4, <3>2, <3>3 DEF CswOutcome
  <2> QED  BY <1>0, <2>1, <2>2, <2>3, <2>4 DEF Phases
<1> QED  BY <1>1, <1>2, <1>3 DEF Transfers
-----------------------------------------------------------------------------
(* What the device has to say.                                              *)

\* One unit of data.
LEMMA OneItem ==
    ASSUME NEW x \in Items
    PROVE  <<x>> \in Seq(Items) /\ Len(<<x>>) = 1 /\ <<x>>[1] = x
OBVIOUS

\* One sector.
LEMMA SectorType ==
    ASSUME NEW g \in Nat, NEW l \in {0, 1}, NEW s \in Nat
    PROVE  Sector(g, l, s) \in Items
<1>1. Sector(g, l, s) \in SectorData
  BY DEF Sector, SectorData
<1> QED  BY <1>1 DEF Items

\* n sectors from s on.
LEMMA SectorsType ==
    ASSUME NEW g \in Nat, NEW l \in {0, 1}, NEW s \in Nat, NEW n \in Nat
    PROVE  /\ Sectors(g, l, s, n) \in Seq(Items) /\ Len(Sectors(g, l, s, n)) = n
           /\ \A i \in 1..n : Sectors(g, l, s, n)[i] = Sector(g, l, s + i - 1)
<1>1. \A i \in 1..n : s + i - 1 \in Nat
  OBVIOUS
<1>2. Sectors(g, l, s, n) \in [1..n -> Items]
  <2>1. \A i \in 1..n : Sector(g, l, s + i - 1) \in Items
    BY <1>1, SectorType
  <2> QED  BY <2>1 DEF Sectors
<1>3. Sectors(g, l, s, n) \in Seq(Items)
  BY <1>2, SeqDef
<1>4. Len(Sectors(g, l, s, n)) = n
  BY DEF Sectors
<1>5. \A i \in 1..n : Sectors(g, l, s, n)[i] = Sector(g, l, s + i - 1)
  BY DEF Sectors
<1> QED  BY <1>3, <1>4, <1>5

\* A call is about a unit of a medium that is there.
LEMMA Mounted ==
    ASSUME TypeOK, PortInv, StatusInv, Active
    PROVE  /\ ~Spinning /\ Usable /\ port.mounted /\ hist.opened = port.gen
           /\ port.gen \in 1..Len(port.media)
<1>1. ~Spinning
  BY DEF Active, Plain, Spinning
<1>2. call.who \in {"app", "init", "ioctl"}
  BY DEF TypeOK, Calls
<1>3. Usable
  BY <1>2 DEF StatusInv, Usable
<1>4. port.mounted /\ hist.opened = port.gen
  BY <1>1, <1>3 DEF PortInv
<1>5. port.gen \in Nat /\ port.media \in Media
  BY DEF TypeOK
<1>6. Len(port.media) \in Nat
  BY <1>5, UsbStorageAssumption
<1> QED  BY <1>1, <1>3, <1>4, <1>5, <1>6 DEF PortInv

\* The units of a medium.
LEMMA Units ==
    ASSUME TypeOK, port.gen \in 1..Len(port.media)
    PROVE  /\ 0 \in DOMAIN Medium
           /\ \A l \in DOMAIN Medium : Medium[l] \in Unit
<1>1. port.media \in Media
  BY DEF TypeOK
<1>2. /\ DOMAIN Medium \in {{0}, {0, 1}}
      /\ \A l \in DOMAIN Medium : Medium[l] \in Unit
  BY <1>1, UsbStorageAssumption DEF Medium
<1> QED  BY <1>2

\* The unit that a command is for.
LEMMA UnitOfCall ==
    ASSUME TypeOK, PortInv, StatusInv, LunInv, Active
    PROVE  Medium[call.cmd.lun] \in Unit
<1>1. port.gen \in 1..Len(port.media) /\ ~Spinning /\ Usable
  BY Mounted
<1>2. call.cmd.lun = disk.curlun /\ disk.curlun <= disk.lun
      /\ disk.curlun \in {0, 1} /\ disk.lun \in {0, 1}
  BY DEF LunInv, TypeOK, Disks
<1>3. call.cmd.lun \in DOMAIN Medium
  <2>1. CASE disk.curlun = 0
    BY <1>1, <1>2, <2>1, Units
  <2>2. CASE disk.curlun = 1
    <3>1. disk.lun = 1
      BY <1>2, <2>2
    <3> QED  BY <1>1, <1>2, <2>2, <3>1 DEF LunInv
  <2> QED  BY <1>2, <2>1, <2>2
<1> QED  BY <1>1, <1>3, Units

\* What it says to each command.
Replied(d, c) ==
    /\ d \in Devs /\ d.status \in {0, 1}
    /\ c.op = "TEST_UNIT_READY" => d.phase = "csw"
    /\ c.op # "TEST_UNIT_READY" => d.phase \in {"in", "out", "stall"}
    /\ c.op = "WRITE_10" => d.phase = "stall" \/ (d.phase = "out" /\ d.cmd = c)
    /\ c.op # "WRITE_10" => d.phase # "out"
    /\ c.op = "READ_10" /\ d.phase = "in" => d.queue = Sectors(port.gen, c.lun, c.lba, c.num)
    /\ c.op \in Plain /\ d.phase = "in" => Len(d.queue) = 1
    /\ c.op = "REQUEST_SENSE" /\ d.phase = "in" => d.queue[1] \in Senses
    /\ c.op = "READ_CAPACITY" /\ d.phase = "in" => d.queue[1] \in Caps

\* A device that refuses the command.
LEMMA StallState == LET d == [DevIdle EXCEPT !.phase = "stall"]
                    IN  d \in Devs /\ d.phase = "stall"
BY DeviceStates DEF Devs, Phases

\* The device accepts a command in a state that is right for it.
LEMMA Replies ==
    ASSUME TypeOK, PortInv, StatusInv, LunInv, Active
    PROVE  Replied(Accept(call.cmd), call.cmd)
<1> DEFINE c == call.cmd
           u == Medium[c.lun]
           stall == [DevIdle EXCEPT !.phase = "stall"]
<1>1. c \in Cmds /\ c.lun \in {0, 1} /\ c.lba \in Nat /\ c.num \in Nat /\ port.gen \in Nat
  BY DEF TypeOK, Calls, Cmds
<1>2. u \in Unit
  BY UnitOfCall
<1>3. stall \in Devs /\ stall.phase = "stall" /\ stall.status \in {0, 1}
  BY StallState DEF Devs
<1>4. c.op \in Plain \cup {"READ_10", "WRITE_10"}
  BY DEF Active
<1> HIDE DEF c, u, stall
<1>5. CASE c.op = "TEST_UNIT_READY"
  <2>1. Accept(c) = InCsw(IF u.ready THEN 0 ELSE 1)
    BY <1>5 DEF Accept, c, u
  <2>2. Accept(c) = InCsw(0) \/ Accept(c) = InCsw(1)
    BY <2>1
  <2>3. Accept(c) \in Devs /\ Accept(c).phase = "csw" /\ Accept(c).status \in {0, 1}
    BY <2>2, DeviceStates
  <2> QED  BY <1>5, <2>3 DEF Replied, c
<1>6. CASE c.op = "INQUIRY"
  <2>1. Accept(c) = Sending(<<u.disk>>)
    BY <1>6 DEF Accept, c, u
  <2>2. u.disk \in Items
    BY <1>2 DEF Unit, Items
  <2>3. <<u.disk>> \in Seq(Items) /\ Len(<<u.disk>>) = 1
    BY <2>2, OneItem
  <2>4. /\ Accept(c) \in Devs /\ Accept(c).phase = "in" /\ Accept(c).status = 0
        /\ Accept(c).queue = <<u.disk>>
    BY <2>1, <2>3, DeviceStates
  <2> QED  BY <1>6, <2>3, <2>4 DEF Replied, c
<1>7. CASE c.op = "REQUEST_SENSE"
  <2> DEFINE x == IF u.ready THEN "NO_SENSE" ELSE "NOT_READY"
  <2>1. Accept(c) = Sending(<<x>>)
    BY <1>7 DEF Accept, c, u
  <2>2. x \in Items /\ x \in Senses
    BY DEF Items, Senses
  <2> HIDE DEF x
  <2>3. <<x>> \in Seq(Items) /\ Len(<<x>>) = 1 /\ <<x>>[1] = x
    BY <2>2, OneItem
  <2>4. /\ Accept(c) \in Devs /\ Accept(c).phase = "in" /\ Accept(c).status = 0
        /\ Accept(c).queue = <<x>>
    BY <2>1, <2>3, DeviceStates
  <2> QED  BY <1>7, <2>2, <2>3, <2>4 DEF Replied, c
<1>8. CASE c.op = "READ_CAPACITY"
  <2>1. CASE u.ready
    <3> DEFINE x == [k |-> u.k, blocks |-> u.blocks]
    <3>1. Accept(c) = Sending(<<x>>)
      BY <1>8, <2>1 DEF Accept, c, u
    <3>2. x \in Caps
      BY <1>2 DEF Unit, Caps
    <3> HIDE DEF x
    <3>3. x \in Items
      BY <3>2 DEF Items
    <3>4. <<x>> \in Seq(Items) /\ Len(<<x>>) = 1 /\ <<x>>[1] = x
      BY <3>3, OneItem
    <3>5. /\ Accept(c) \in Devs /\ Accept(c).phase = "in" /\ Accept(c).status = 0
          /\ Accept(c).queue = <<x>>
      BY <3>1, <3>4, DeviceStates
    <3> QED  BY <1>8, <3>2, <3>4, <3>5 DEF Replied, c
  <2>2. CASE ~u.ready
    <3>1. Accept(c) = stall
      BY <1>8, <2>2 DEF Accept, c, u, stall
    <3> QED  BY <1>3, <1>8, <3>1 DEF Replied, c
  <2> QED  BY <2>1, <2>2
<1>9. CASE c.op = "READ_10"
  <2> DEFINE q == Sectors(port.gen, c.lun, c.lba, c.num)
  <2>1. Accept(c) = Sending(q) \/ Accept(c) = stall
    BY <1>9 DEF Accept, c, u, stall
  <2>2. q \in Seq(Items)
    BY <1>1, SectorsType
  <2> HIDE DEF q
  <2>3. CASE Accept(c) = Sending(q)
    <3>1. /\ Accept(c) \in Devs /\ Accept(c).phase = "in" /\ Accept(c).status = 0
          /\ Accept(c).queue = q
      BY <2>2, <2>3, DeviceStates
    <3> QED  BY <1>9, <3>1 DEF Replied, Plain, c, q
  <2>4. CASE Accept(c) = stall
    BY <1>3, <1>9, <2>4 DEF Replied, Plain, c
  <2> QED  BY <2>1, <2>3, <2>4
<1>10. CASE c.op = "WRITE_10"
  <2> DEFINE out == [DevIdle EXCEPT !.phase = "out", !.cmd = c]
  <2>1. Accept(c) = out \/ Accept(c) = stall
    BY <1>10 DEF Accept, c, u, stall
  <2>2. out \in Devs /\ out.phase = "out" /\ out.cmd = c /\ out.status \in {0, 1}
    BY <1>1, DeviceStates DEF Devs, Phases
  <2> HIDE DEF out
  <2>3. CASE Accept(c) = out
    BY <1>10, <2>2, <2>3 DEF Replied, Plain, c
  <2>4. CASE Accept(c) = stall
    BY <1>3, <1>10, <2>4 DEF Replied, Plain, c
  <2> QED  BY <2>1, <2>3, <2>4
<1> QED  BY <1>4, <1>5, <1>6, <1>7, <1>8, <1>9, <1>10 DEF Plain, c
-----------------------------------------------------------------------------
(* A transfer: what it changes.                                             *)

\* The state after transfer t comes to o, field by field.
After(t, o) ==
    /\ dev' = o.dev
    /\ port'.plugged = port.plugged /\ port'.mounted = port.mounted
    /\ port'.gen = port.gen /\ port'.media = port.media
    /\ port' \in [plugged : BOOLEAN, mounted : BOOLEAN, gen : Nat, media : Media,
                  faults : Nat]
    /\ mutex' = mutex /\ ini' = ini
    /\ stored' = IF t = "data" /\ dev.phase = "out" /\ o.dev = InCsw(0)
                 THEN stored \cup {<<dev.cmd.lun, dev.cmd.lba + i>> :
                                   i \in 0..(dev.cmd.num - 1)}
                 ELSE stored
    /\ disk' = Noted(t, o)
    /\ call'.who = call.who /\ call'.cmd = call.cmd /\ call'.at = call.at
    /\ call'.num = call.num /\ call'.k = call.k
    /\ call' = [call EXCEPT
                !.todo = call'.todo, !.failed = call'.failed, !.got = call'.got,
                !.csw = call'.csw, !.trusted = call'.trusted]
    /\ call'.todo = IF o.ok \/ Ignored(t) THEN Tail(call.todo) ELSE <<>>
    /\ call'.failed \in BOOLEAN /\ (call'.failed <=> ~o.ok /\ ~Ignored(t))
    /\ call'.got = IF t = "data" /\ o.ok THEN Data(o) ELSE call.got
    /\ call'.csw = IF t = "csw" /\ o.ok THEN o.status ELSE call.csw
    /\ call'.trusted \in BOOLEAN
    /\ call'.trusted <=> call.trusted /\ (t \in {"skip", "skipcsw"} => o.ok)
    /\ hist'.follows = hist.follows /\ hist'.opened = hist.opened
    /\ hist' \in [clean : BOOLEAN, follows : BOOLEAN, opened : Nat]
    /\ hist'.clean <=> hist.clean /\ o.ok

\* Only a call that is under way has transfers left.
LEMMA OnlyActive ==
    ASSUME TypeOK, StatusInv, call.todo # <<>>
    PROVE  Active
<1>1. call.cmd.op \in Ops
  BY DEF TypeOK, Calls, Cmds
<1>2. Idle.todo = <<>> /\ Spin.todo = <<>> /\ Looping.todo = <<>>
  BY DEF Idle, Spin, Looping
<1> QED  BY <1>1, <1>2 DEF StatusInv, Spinning, Active, Ops

\* An outcome has the type of outcomes.
LEMMA OutcomeType ==
    ASSUME TypeOK, PortInv, StatusInv, LunInv, Active, call.num >= 1,
           NEW t \in Kinds, NEW o \in Transfers(t)
    PROVE  o \in Outcomes
<1>1. Accept(call.cmd) \in Devs
  BY Replies DEF Replied
<1>2. CASE t = "cbw"
  BY <1>1, <1>2, CbwComesTo DEF CbwOutcome
<1>3. CASE t = "data" /\ Writing
  BY <1>3, SendingComesTo DEF SentOutcome
<1>4. CASE t = "data" /\ ~Writing
  BY <1>4, ReceivingComesTo DEF GotOutcome
<1>5. CASE t = "skip"
  BY <1>5, SkippingComesTo DEF GotOutcome
<1>6. CASE t \in {"csw", "skipcsw"}
  BY <1>6, CswComesTo DEF CswOutcome
<1> QED  BY <1>2, <1>3, <1>4, <1>5, <1>6 DEF Kinds

\* A call moves at least one sector at a time.
LEMMA Counts ==
    ASSUME SmallShape, LargeShape, TypeOK, Active
    PROVE  call.num >= 1
<1>1. call.k \in Nat
  BY DEF TypeOK, Calls
<1>2. CASE Large
  BY <1>2 DEF LargeShape
<1>3. CASE ~Large
  BY <1>3 DEF SmallShape
<1> QED  BY <1>2, <1>3

\* A transfer moves what is left of the call by one.
LEMMA TransferStep ==
    ASSUME IInv, Transfer
    PROVE  /\ Active /\ call.todo # <<>> /\ Head(call.todo) \in Kinds
           /\ \E o \in Transfers(Head(call.todo)) :
                 o \in Outcomes /\ After(Head(call.todo), o)
<1> DEFINE t == Head(call.todo)
<1>0. TypeOK /\ PortInv /\ StatusInv /\ LunInv /\ SmallShape /\ LargeShape
  BY DEF IInv
<1>1. call.todo # <<>>
  BY DEF Transfer
<1>2. Active
  BY <1>0, <1>1, OnlyActive
<1>3. t \in Kinds
  <2>1. call.todo \in Seq(Kinds)
    BY <1>0 DEF TypeOK, Calls
  <2> QED  BY <1>1, <2>1, Step
<1>4. PICK o \in Transfers(t) :
         /\ dev' = o.dev
         /\ port' = [port EXCEPT !.faults = @ + o.fault]
         /\ stored' = IF t = "data" /\ dev.phase = "out" /\ o.dev = InCsw(0)
                      THEN stored \cup {<<dev.cmd.lun, dev.cmd.lba + i>> :
                                        i \in 0..(dev.cmd.num - 1)}
                      ELSE stored
         /\ disk' = Noted(t, o)
         /\ call' = [call EXCEPT
                !.todo = IF o.ok \/ Ignored(t) THEN Tail(@) ELSE <<>>,
                !.failed = ~o.ok /\ ~Ignored(t),
                !.got = IF t = "data" /\ o.ok THEN Data(o) ELSE @,
                !.csw = IF t = "csw" /\ o.ok THEN o.status ELSE @,
                !.trusted = @ /\ (t \in {"skip", "skipcsw"} => o.ok)]
         /\ hist' = [hist EXCEPT !.clean = @ /\ o.ok]
  BY DEF Transfer
<1>5. mutex' = mutex /\ ini' = ini
  BY DEF Transfer
<1>6. call.num >= 1
  BY <1>0, <1>2, Counts
<1>7. o \in Outcomes
  BY <1>0, <1>2, <1>3, <1>6, OutcomeType
<1> HIDE DEF t
<1>8. /\ port'.plugged = port.plugged /\ port'.mounted = port.mounted
      /\ port'.gen = port.gen /\ port'.media = port.media
      /\ port' \in [plugged : BOOLEAN, mounted : BOOLEAN, gen : Nat, media : Media,
                    faults : Nat]
  <2>1. port \in [plugged : BOOLEAN, mounted : BOOLEAN, gen : Nat, media : Media,
                  faults : Nat]
    BY <1>0 DEF TypeOK
  <2>2. port.faults + o.fault \in Nat
    BY <1>7, <2>1 DEF Outcomes
  <2> QED  BY <1>4, <2>1, <2>2
<1>9. /\ hist'.follows = hist.follows /\ hist'.opened = hist.opened
      /\ hist' \in [clean : BOOLEAN, follows : BOOLEAN, opened : Nat]
      /\ hist'.clean <=> hist.clean /\ o.ok
  <2>1. hist \in [clean : BOOLEAN, follows : BOOLEAN, opened : Nat]
    BY <1>0 DEF TypeOK
  <2>2. hist' = [hist EXCEPT !.clean = hist.clean /\ o.ok]
    BY <1>4
  <2> QED  BY <2>1, <2>2
<1>10. /\ call'.who = call.who /\ call'.cmd = call.cmd /\ call'.at = call.at
       /\ call'.num = call.num /\ call'.k = call.k
       /\ call'.todo = IF o.ok \/ Ignored(t) THEN Tail(call.todo) ELSE <<>>
       /\ call'.failed = (~o.ok /\ ~Ignored(t))
       /\ call'.got = IF t = "data" /\ o.ok THEN Data(o) ELSE call.got
       /\ call'.csw = IF t = "csw" /\ o.ok THEN o.status ELSE call.csw
       /\ call'.trusted = (call.trusted /\ (t \in {"skip", "skipcsw"} => o.ok))
       /\ call' = [call EXCEPT
                   !.todo = call'.todo, !.failed = call'.failed, !.got = call'.got,
                   !.csw = call'.csw, !.trusted = call'.trusted]
  <2>1. call \in Calls
    BY <1>0 DEF TypeOK
  <2> DEFINE todo1 == IF o.ok \/ Ignored(t) THEN Tail(call.todo) ELSE <<>>
             failed1 == ~o.ok /\ ~Ignored(t)
             got1 == IF t = "data" /\ o.ok THEN Data(o) ELSE call.got
             csw1 == IF t = "csw" /\ o.ok THEN o.status ELSE call.csw
             trusted1 == call.trusted /\ (t \in {"skip", "skipcsw"} => o.ok)
  <2>2. call' = [call EXCEPT !.todo = todo1, !.failed = failed1, !.got = got1,
                             !.csw = csw1, !.trusted = trusted1]
    BY <1>4
  <2> HIDE DEF todo1, failed1, got1, csw1, trusted1
  <2>3. /\ call'.who = call.who /\ call'.cmd = call.cmd /\ call'.at = call.at
        /\ call'.num = call.num /\ call'.k = call.k
        /\ call'.todo = todo1 /\ call'.failed = failed1 /\ call'.got = got1
        /\ call'.csw = csw1 /\ call'.trusted = trusted1
    BY <2>1, <2>2 DEF Calls
  <2> QED  BY <2>2, <2>3 DEF todo1, failed1, got1, csw1, trusted1
<1>11. After(t, o)
  BY <1>4, <1>5, <1>8, <1>9, <1>10 DEF After
<1> QED  BY <1>1, <1>2, <1>3, <1>7, <1>11 DEF t

\* What becomes of the disk.
LEMMA NotedDisk ==
    ASSUME TypeOK, Active, NEW t \in Kinds, NEW o \in Outcomes
    PROVE  LET d == Noted(t, o)
           IN  /\ d.status = disk.status /\ d.lun = disk.lun /\ d.curlun = disk.curlun
               /\ d.prev_lba = disk.prev_lba
               /\ Large => d.capacity = disk.capacity
               /\ ~Large => d.remain_len = disk.remain_len
               /\ ~o.ok => d = disk
               /\ o.ok /\ Large => d.remain_len =
                    IF t = "cbw" THEN call.k
                    ELSE IF t = "data" THEN disk.remain_len - 1 ELSE disk.remain_len
               /\ d.remain_len \in Nat
                    /\ (~Large /\ t = "data" /\ o.ok =>
                          /\ call.cmd.op = "REQUEST_SENSE" => Data(o)[1] \in Senses
                          /\ call.cmd.op = "READ_CAPACITY" => Data(o)[1] \in Caps)
                  => d \in Disks
<1>1. disk \in Disks
  BY DEF TypeOK
<1>2. CASE ~o.ok
  <2>1. Noted(t, o) = disk
    BY <1>2 DEF Noted
  <2> QED  BY <1>1, <1>2, <2>1
<1>3. CASE o.ok /\ Large
  <2>1. CASE t = "cbw"
    <3>1. Noted(t, o) = [disk EXCEPT !.remain_len = call.k]
      BY <1>3, <2>1 DEF Noted, Large
    <3> QED  BY <1>1, <1>3, <2>1, <3>1 DEF Disks
  <2>2. CASE t = "data"
    <3>1. Noted(t, o) = [disk EXCEPT !.remain_len = disk.remain_len - 1]
      BY <1>3, <2>2 DEF Noted, Large
    <3> QED  BY <1>1, <1>3, <2>2, <3>1 DEF Disks
  <2>3. CASE t \notin {"cbw", "data"}
    <3>1. Noted(t, o) = disk
      BY <1>3, <2>3 DEF Noted, Large
    <3> QED  BY <1>1, <1>3, <2>3, <3>1
  <2> QED  BY <2>1, <2>2, <2>3
<1>4. CASE o.ok /\ ~Large
  <2>1. CASE t = "data" /\ call.cmd.op = "REQUEST_SENSE"
    <3>1. Noted(t, o) = [disk EXCEPT !.sense = Data(o)[1]]
      BY <1>4, <2>1 DEF Noted, Large
    <3> QED  BY <1>1, <1>4, <2>1, <3>1 DEF Disks
  <2>2. CASE t = "data" /\ call.cmd.op = "READ_CAPACITY"
    <3>1. Noted(t, o) = [disk EXCEPT !.capacity =
                            [disk.capacity EXCEPT ![call.cmd.lun] = Data(o)[1]]]
      BY <1>1, <1>4, <2>2 DEF Noted, Large
    <3>2. disk.capacity \in [{0, 1} -> Caps]
      BY <1>1 DEF Disks
    <3> DEFINE c == [disk.capacity EXCEPT ![call.cmd.lun] = Data(o)[1]]
    <3>3. Data(o)[1] \in Caps => c \in [{0, 1} -> Caps]
      BY <3>2
    <3> HIDE DEF c
    <3>4. Noted(t, o) = [disk EXCEPT !.capacity = c]
      BY <3>1 DEF c
    <3> QED  BY <1>1, <1>4, <2>2, <3>3, <3>4 DEF Disks
  <2>3. CASE ~(t = "data" /\ call.cmd.op \in {"REQUEST_SENSE", "READ_CAPACITY"})
    <3>1. Noted(t, o) = disk
      BY <1>4, <2>3 DEF Noted, Large
    <3> QED  BY <1>1, <1>4, <2>3, <3>1
  <2> QED  BY <2>1, <2>2, <2>3
<1> QED  BY <1>2, <1>3, <1>4
\* What a transfer is: t is the next of the call, and comes to o.
Moves(t, o) ==
    /\ Active /\ call.todo # <<>> /\ t = Head(call.todo) /\ t \in Kinds
    /\ o \in Transfers(t) /\ o \in Outcomes /\ After(t, o)

\* The call stays what it is.
LEMMA SameCall ==
    ASSUME TypeOK, NEW t, NEW o, Moves(t, o)
    PROVE  /\ Active' /\ (Large' <=> Large) /\ (Writing' <=> Writing)
           /\ (Reading' <=> Reading) /\ ~Spinning /\ ~Spinning'
           /\ call' # Idle /\ call' # Looping /\ call # Idle /\ call # Looping
           /\ disk'.status = disk.status /\ disk'.lun = disk.lun
           /\ disk'.curlun = disk.curlun /\ disk'.prev_lba = disk.prev_lba
           /\ (Large => disk'.capacity = disk.capacity)
           /\ (~Large => disk'.remain_len = disk.remain_len)
           /\ (Medium)' = Medium
<1>1. call'.cmd = call.cmd /\ call'.k = call.k /\ disk' = Noted(t, o)
  BY DEF Moves, After
<1>2. port'.gen = port.gen /\ port'.media = port.media
  BY DEF Moves, After
<1>3. Active /\ t \in Kinds /\ o \in Outcomes
  BY DEF Moves
<1>4. Active' /\ (Large' <=> Large) /\ (Writing' <=> Writing) /\ (Reading' <=> Reading)
  BY <1>1, <1>3 DEF Active, Large, Writing, Reading
<1>5. ~Spinning /\ ~Spinning'
  BY <1>1, <1>3 DEF Active, Plain, Spinning
<1>6. Idle.cmd.op = "none" /\ Looping.cmd.op = "init"
  BY DEF Idle, Looping, NoCmd
<1>7. call' # Idle /\ call' # Looping /\ call # Idle /\ call # Looping
  BY <1>1, <1>3, <1>6 DEF Active, Plain
<1>8. LET d == Noted(t, o)
      IN  /\ d.status = disk.status /\ d.lun = disk.lun /\ d.curlun = disk.curlun
          /\ d.prev_lba = disk.prev_lba
          /\ Large => d.capacity = disk.capacity
          /\ ~Large => d.remain_len = disk.remain_len
  BY <1>3, NotedDisk
<1>9. (Medium)' = Medium
  BY <1>2 DEF Medium
<1> QED  BY <1>1, <1>4, <1>5, <1>7, <1>8, <1>9

\* So do the places of the driver.
LEMMA SamePlace ==
    ASSUME IInv, NEW t, NEW o, Moves(t, o)
    PROVE  PortInv' /\ StatusInv' /\ RoundInv' /\ LunInv' /\ RestInv'
<1>0. TypeOK /\ PortInv /\ StatusInv /\ RoundInv /\ LunInv /\ LargeShape
  BY DEF IInv
<1>1. /\ Active' /\ (Large' <=> Large) /\ ~Spinning /\ ~Spinning'
      /\ call' # Idle /\ call' # Looping /\ call # Idle /\ call # Looping
      /\ disk'.status = disk.status /\ disk'.lun = disk.lun
      /\ disk'.curlun = disk.curlun /\ disk'.prev_lba = disk.prev_lba
      /\ (~Large => disk'.remain_len = disk.remain_len)
      /\ (Medium)' = Medium
  BY <1>0, SameCall
<1>2. /\ port'.plugged = port.plugged /\ port'.mounted = port.mounted
      /\ port'.gen = port.gen /\ port'.media = port.media
      /\ call'.cmd = call.cmd /\ call'.who = call.who /\ ini' = ini
      /\ hist'.opened = hist.opened /\ mutex' = mutex
  BY DEF Moves, After
<1>3. Active
  BY DEF Moves
<1>4. port.mounted /\ hist.opened = port.gen
  BY <1>0, <1>3, Mounted
<1>5. PortInv'
  BY <1>0, <1>1, <1>2, <1>4 DEF PortInv, Usable
<1>6. StatusInv'
  <2>1. call.cmd.op \notin {"none", "init"}
    BY <1>3 DEF Active, Plain
  <2> QED  BY <1>0, <1>1, <1>2, <1>3, <2>1 DEF StatusInv
<1>7. RoundInv'
  <2>1. call.who = "init" => ~Large
    BY <1>0, <1>3 DEF LargeShape, StatusInv, Reading
  <2> QED  BY <1>0, <1>1, <1>2, <1>3, <2>1 DEF RoundInv
<1>8. LunInv'
  BY <1>0, <1>1, <1>2, <1>3 DEF LunInv, Usable
<1>9. RestInv'
  BY <1>1 DEF RestInv
<1> QED  BY <1>5, <1>6, <1>7, <1>8, <1>9

\* The places of a command, and of a read or write of whole blocks, are apart.
LEMMA Places ==
    ASSUME NEW s \in Seq(Kinds)
    PROVE  /\ FromCbw(s, 0, 1) => ~FromCbw(s, 1, 1)
           /\ \A n \in {0, 1} : FromCbw(s, n, 1) =>
                 ~FromData(s, 1, 1) /\ ~FromData(s, 0, 1) /\ ~FromData(s, 0, 0)
           /\ FromData(s, 1, 1) => ~FromData(s, 0, 1) /\ ~FromData(s, 0, 0)
           /\ FromData(s, 0, 1) => ~FromData(s, 0, 0)
<1>1. FromCbw(s, 0, 1) => ~FromCbw(s, 1, 1)
  BY DEF FromCbw, Ends
<1>2. FromData(s, 1, 1) => Len(s) = 2 /\ s[1] = "data"
  BY DEF FromData, Ends
<1>3. FromData(s, 0, 1) => Len(s) = 1 /\ s[1] = "csw"
  BY DEF FromData, Ends
<1>4. FromData(s, 0, 0) => Len(s) = 0
  BY DEF FromData, Ends
<1>5. \A n \in {0, 1} : FromCbw(s, n, 1) => s[1] = "cbw" /\ Len(s) >= 2
  BY DEF FromCbw, Ends
<1> QED  BY <1>1, <1>2, <1>3, <1>4, <1>5

\* What the transfers of a command, or of a read or write of whole blocks, lead to.
SmallStep(t, o) ==
    \/ /\ t = "cbw" /\ AtCbw(0, 1) /\ AtData(0, 1)'
       /\ call.cmd.op = "TEST_UNIT_READY" /\ o.ok /\ ~call'.failed
    \/ /\ t = "cbw" /\ AtCbw(1, 1) /\ AtData(1, 1)'
       /\ call.cmd.op # "TEST_UNIT_READY" /\ (o.ok \/ Writing) /\ ~call'.failed
    \/ /\ t = "data" /\ AtData(1, 1) /\ AtData(0, 1)'
       /\ call.cmd.op # "TEST_UNIT_READY" /\ (o.ok \/ Writing) /\ ~call'.failed
    \/ t = "csw" /\ AtData(0, 1) /\ AtData(0, 0)' /\ o.ok /\ ~call'.failed
    \/ /\ ~o.ok /\ AtData(0, 0)' /\ call'.failed
       /\ Writing => t = "csw" /\ AtData(0, 1)

\* A small call stays in one of the shapes it can have.
LEMMA SmallMoves ==
    ASSUME TypeOK, SmallShape, ~Large, NEW t, NEW o, Moves(t, o)
    PROVE  SmallShape' /\ SmallStep(t, o)
<1>1. /\ call.todo \in Seq(Kinds) /\ call.todo # <<>> /\ t = Head(call.todo) /\ Active
      /\ o.ok \in BOOLEAN
  BY DEF Moves, TypeOK, Calls, Outcomes
<1>2. /\ call'.todo = IF o.ok \/ Ignored(t) THEN Tail(call.todo) ELSE <<>>
      /\ call'.failed <=> ~o.ok /\ ~Ignored(t)
      /\ call'.cmd = call.cmd /\ call'.who = call.who /\ call'.at = call.at
      /\ call'.num = call.num
  BY DEF Moves, After
<1>3. \/ FromCbw(call.todo, 0, 1) /\ call.cmd.op = "TEST_UNIT_READY"
      \/ FromCbw(call.todo, 1, 1) /\ call.cmd.op # "TEST_UNIT_READY"
      \/ FromData(call.todo, 1, 1) /\ call.cmd.op # "TEST_UNIT_READY"
      \/ FromData(call.todo, 0, 1)
      \/ FromData(call.todo, 0, 0)
  BY <1>1 DEF SmallShape, AtCbw, AtData
<1>4. ~FromData(call.todo, 0, 0)
  <2>1. Len(call.todo) # 0
    BY <1>1, EmptySeq
  <2> QED  BY <2>1 DEF FromData, Ends
<1> DEFINE s == Tail(call.todo)
<1>5. FromData(<<>>, 0, 0)
  BY Nothing
<1>6. SmallStep(t, o)
  <2>1. CASE FromCbw(call.todo, 0, 1) /\ call.cmd.op = "TEST_UNIT_READY"
    <3>1. t = "cbw" /\ FromData(s, 0, 1)
      BY <1>1, <2>1, FirstCbw
    <3>2. ~Ignored(t)
      BY <2>1, <3>1 DEF Ignored, Writing
    <3> HIDE DEF s
    <3>3. CASE o.ok
      <4>1. call'.todo = s /\ ~call'.failed
        BY <1>2, <3>3 DEF s
      <4> QED  BY <2>1, <3>1, <3>3, <4>1 DEF SmallStep, AtCbw, AtData
    <3>4. CASE ~o.ok
      <4>1. call'.todo = <<>> /\ call'.failed
        BY <1>2, <3>2, <3>4
      <4> QED  BY <1>5, <2>1, <3>4, <4>1 DEF SmallStep, AtData, Writing
    <3> QED  BY <3>3, <3>4
  <2>2. CASE FromCbw(call.todo, 1, 1) /\ call.cmd.op # "TEST_UNIT_READY"
    <3>1. t = "cbw" /\ FromData(s, 1, 1)
      BY <1>1, <2>2, FirstCbw
    <3>2. Ignored(t) <=> Writing
      BY <3>1 DEF Ignored
    <3> HIDE DEF s
    <3>3. CASE o.ok \/ Writing
      <4>1. call'.todo = s /\ ~call'.failed
        BY <1>2, <3>2, <3>3 DEF s
      <4> QED  BY <2>2, <3>1, <3>3, <4>1 DEF SmallStep, AtCbw, AtData
    <3>4. CASE ~o.ok /\ ~Writing
      <4>1. call'.todo = <<>> /\ call'.failed
        BY <1>2, <3>2, <3>4
      <4> QED  BY <1>5, <3>4, <4>1 DEF SmallStep, AtData
    <3> QED  BY <3>3, <3>4
  <2>3. CASE FromData(call.todo, 1, 1) /\ call.cmd.op # "TEST_UNIT_READY"
    <3>1. t = "data" /\ FromData(s, 0, 1)
      <4>1. FromData(s, 1 - 1, 1) /\ t = "data"
        BY <1>1, <2>3, FirstData
      <4> QED  BY <4>1
    <3>2. Ignored(t) <=> Writing
      BY <3>1 DEF Ignored
    <3> HIDE DEF s
    <3>3. CASE o.ok \/ Writing
      <4>1. call'.todo = s /\ ~call'.failed
        BY <1>2, <3>2, <3>3 DEF s
      <4> QED  BY <2>3, <3>1, <3>3, <4>1 DEF SmallStep, AtData
    <3>4. CASE ~o.ok /\ ~Writing
      <4>1. call'.todo = <<>> /\ call'.failed
        BY <1>2, <3>2, <3>4
      <4> QED  BY <1>5, <3>4, <4>1 DEF SmallStep, AtData
    <3> QED  BY <3>3, <3>4
  <2>4. CASE FromData(call.todo, 0, 1)
    <3>1. t = "csw" /\ FromData(s, 0, 0)
      BY <1>1, <2>4, FirstCsw
    <3>2. ~Ignored(t)
      BY <3>1 DEF Ignored
    <3> HIDE DEF s
    <3>3. CASE o.ok
      <4>1. call'.todo = s /\ ~call'.failed
        BY <1>2, <3>3 DEF s
      <4> QED  BY <2>4, <3>1, <3>3, <4>1 DEF SmallStep, AtData
    <3>4. CASE ~o.ok
      <4>1. call'.todo = <<>> /\ call'.failed
        BY <1>2, <3>2, <3>4
      <4> QED  BY <1>5, <2>4, <3>1, <3>4, <4>1 DEF SmallStep, AtData
    <3> QED  BY <3>3, <3>4
  <2> QED  BY <1>3, <1>4, <2>1, <2>2, <2>3, <2>4
<1>7. SmallShape'
  BY <1>1, <1>2, <1>6 DEF SmallShape, SmallStep
<1> QED  BY <1>6, <1>7

\* The command that is asked for is answered from what was there.
LEMMA SameAnswer ==
    ASSUME NEW t, NEW o, Moves(t, o), stored' = stored
    PROVE  Accept(call.cmd)' = Accept(call.cmd)
<1>1. call'.cmd = call.cmd /\ port'.gen = port.gen /\ port'.media = port.media
  BY DEF Moves, After
<1>2. Medium' = Medium
  BY <1>1 DEF Medium
<1> DEFINE c == call.cmd
<1>3. Sectors(port.gen, c.lun, c.lba, c.num)' = Sectors(port.gen, c.lun, c.lba, c.num)
  BY <1>1 DEF Sectors, Sector
<1> QED  BY <1>1, <1>2, <1>3 DEF Accept

\* Only the data of a write are stored.
LEMMA SameStored ==
    ASSUME NEW t, NEW o, Moves(t, o), t # "data" \/ dev.phase # "out"
    PROVE  stored' = stored
BY DEF Moves, After

\* What a call makes of the outcome of a transfer.
LEMMA MovedTypes ==
    ASSUME IInv, NEW t, NEW o, Moves(t, o),
           disk'.remain_len \in Nat,
           ~Large /\ t = "data" /\ o.ok =>
              /\ call.cmd.op = "REQUEST_SENSE" => Data(o)[1] \in Senses
              /\ call.cmd.op = "READ_CAPACITY" => Data(o)[1] \in Caps
    PROVE  TypeOK'
<1>0. TypeOK
  BY DEF IInv
<1>1. /\ call \in Calls /\ o \in Outcomes /\ Active /\ t \in Kinds
      /\ call.todo \in Seq(Kinds) /\ call.todo # <<>>
  BY <1>0 DEF Moves, TypeOK, Calls
<1>2. port' \in [plugged : BOOLEAN, mounted : BOOLEAN, gen : Nat, media : Media,
                 faults : Nat]
  BY DEF Moves, After
<1>3. dev' \in Devs
  BY <1>1 DEF Moves, After, Outcomes
<1>4. mutex' = mutex /\ ini' = ini
      /\ hist' \in [clean : BOOLEAN, follows : BOOLEAN, opened : Nat]
  BY DEF Moves, After
<1>5. disk' \in Disks
  <2>1. disk' = Noted(t, o)
    BY DEF Moves, After
  <2> QED  BY <1>0, <1>1, <2>1, NotedDisk
<1>6. call' \in Calls
  <2>1. call'.todo \in Seq(Kinds)
    <3>1. Tail(call.todo) \in Seq(Kinds)
      BY <1>1, Step
    <3>2. <<>> \in Seq(Kinds)
      BY EmptySeq
    <3>3. call'.todo = IF o.ok \/ Ignored(t) THEN Tail(call.todo) ELSE <<>>
      BY DEF Moves, After
    <3> QED  BY <3>1, <3>2, <3>3
  <2>2. Data(o) \in Seq(Items)
    <3>1. o.got \in Seq(Items)
      BY <1>1 DEF Outcomes
    <3>2. CASE o.got # <<>>
      BY <3>1, <3>2 DEF Data
    <3>3. CASE o.got = <<>>
      <4>1. (o.status = 0) \in Items
        BY DEF Items
      <4>2. (IF o.status = 0 THEN "NO_SENSE" ELSE "NOT_READY") \in Items
        BY DEF Items, Senses
      <4>3. [k |-> 1, blocks |-> 2] \in Items
        BY DEF Items, Caps
      <4>4. <<o.status = 0>> \in Seq(Items)
        BY <4>1, OneItem
      <4>5. <<IF o.status = 0 THEN "NO_SENSE" ELSE "NOT_READY">> \in Seq(Items)
        BY <4>2, OneItem
      <4>6. <<[k |-> 1, blocks |-> 2]>> \in Seq(Items)
        BY <4>3, OneItem
      <4>7. <<>> \in Seq(Items)
        BY EmptySeq
      <4>8. \/ Data(o) = <<o.status = 0>>
            \/ Data(o) = <<IF o.status = 0 THEN "NO_SENSE" ELSE "NOT_READY">>
            \/ Data(o) = <<[k |-> 1, blocks |-> 2]>>
            \/ Data(o) = <<>>
        BY <3>3 DEF Data
      <4> QED  BY <4>4, <4>5, <4>6, <4>7, <4>8
    <3> QED  BY <3>2, <3>3
  <2>3. call'.got \in Seq(Items)
    <3>1. call'.got = IF t = "data" /\ o.ok THEN Data(o) ELSE call.got
      BY DEF Moves, After
    <3>2. call.got \in Seq(Items)
      BY <1>1 DEF Calls
    <3> QED  BY <2>2, <3>1, <3>2
  <2>4. call'.csw \in {0, 1} /\ call'.failed \in BOOLEAN /\ call'.trusted \in BOOLEAN
    <3>1. call'.csw = IF t = "csw" /\ o.ok THEN o.status ELSE call.csw
      BY DEF Moves, After
    <3>2. call'.failed \in BOOLEAN /\ call'.trusted \in BOOLEAN
      BY DEF Moves, After
    <3>3. o.status \in {0, 1} /\ call.csw \in {0, 1}
      BY <1>1 DEF Outcomes, Calls
    <3> QED  BY <3>1, <3>2, <3>3
  <2>5. call' = [call EXCEPT
                 !.todo = call'.todo, !.failed = call'.failed, !.got = call'.got,
                 !.csw = call'.csw, !.trusted = call'.trusted]
    BY DEF Moves, After
  <2> QED  BY <1>1, <2>1, <2>3, <2>4, <2>5 DEF Calls
<1> QED  BY <1>0, <1>2, <1>3, <1>4, <1>5, <1>6 DEF TypeOK

\* The single unit of data of a command.
LEMMA OneGot ==
    ASSUME NEW q \in Seq(Items), Len(q) = 1
    PROVE  SubSeq(q, 1, 1) = q /\ q # <<>>
<1>1. q # <<>>
  BY EmptySeq
<1>2. SubSeq(q, 1, 1) = q
  <2>1. SubSeq(q, 1, Len(q)) = q
    OBVIOUS
  <2> QED  BY <2>1
<1> QED  BY <1>1, <1>2

\* What sense data and capacities are noted.
LEMMA SmallNotes ==
    ASSUME IInv, ~Large, NEW t, NEW o, Moves(t, o), t = "data", o.ok
    PROVE  /\ call.cmd.op = "REQUEST_SENSE" => Data(o)[1] \in Senses
           /\ call.cmd.op = "READ_CAPACITY" => Data(o)[1] \in Caps
<1>0. TypeOK /\ PortInv /\ StatusInv /\ LunInv /\ SmallShape /\ AnswerInv /\ Active
      /\ o \in Outcomes /\ o \in Transfers("data") /\ dev \in Devs
  BY DEF IInv, Moves, TypeOK
<1>1. CASE call.cmd.op \in {"REQUEST_SENSE", "READ_CAPACITY"}
  <2>1. ~Writing /\ call.cmd.op \in Plain
    BY <1>1 DEF Writing, Plain
  <2>2. AtData(1, 1) /\ call.num = 1
    <3>1. SmallStep(t, o)
      BY <1>0, SmallMoves
    <3>2. AtData(1, 1)
      BY <3>1 DEF SmallStep
    <3>3. call.who # "app"
      BY <1>0, <1>1 DEF StatusInv
    <3> QED  BY <1>0, <3>2, <3>3 DEF SmallShape
  <2>3. dev = Torn \/ dev = Accept(call.cmd)
    BY <1>0, <2>1, <2>2 DEF AnswerInv
  <2>4. Replied(Accept(call.cmd), call.cmd)
    BY <1>0, Replies
  <2>5. GotOutcome(1, o)
    <3>1. GotOutcome(call.num, o)
      BY <1>0, <2>1, <2>2, ReceivingComesTo
    <3> QED  BY <2>2, <3>1
  <2>6. \/ o.got = <<>>
        \/ dev.phase = "in" /\ o.got = SubSeq(dev.queue, 1, 1)
    BY <2>5 DEF GotOutcome
  <2>7. CASE o.got = <<>>
    <3>1. CASE call.cmd.op = "REQUEST_SENSE"
      BY <2>7, <3>1 DEF Data, Senses
    <3>2. CASE call.cmd.op = "READ_CAPACITY"
      <4>1. Data(o) = <<[k |-> 1, blocks |-> 2]>>
        BY <2>7, <3>2 DEF Data
      <4>2. [k |-> 1, blocks |-> 2] \in Caps
        BY DEF Caps
      <4>3. Data(o)[1] = [k |-> 1, blocks |-> 2]
        BY <4>1
      <4> QED  BY <3>2, <4>2, <4>3
    <3> QED  BY <1>1, <3>1, <3>2
  <2>8. CASE dev.phase = "in" /\ o.got = SubSeq(dev.queue, 1, 1)
    <3>1. dev = Accept(call.cmd)
      BY <2>3, <2>8, DeviceStates
    <3>2. Len(dev.queue) = 1 /\ dev.queue \in Seq(Items)
      BY <1>0, <2>1, <2>4, <2>8, <3>1 DEF Replied, Devs
    <3>3. o.got = dev.queue /\ dev.queue # <<>>
      BY <2>8, <3>2, OneGot
    <3>4. Data(o) = dev.queue
      BY <3>3 DEF Data
    <3> QED  BY <2>4, <2>8, <3>1, <3>4 DEF Replied
  <2> QED  BY <2>6, <2>7, <2>8
<1> QED  BY <1>1

\* The answer to a command is what comes.
LEMMA SmallAnswer ==
    ASSUME IInv, ~Large, NEW t, NEW o, Moves(t, o)
    PROVE  AnswerInv'
<1>0. TypeOK /\ PortInv /\ StatusInv /\ LunInv /\ SmallShape /\ Active
      /\ o \in Transfers(t) /\ o \in Outcomes
  BY DEF IInv, Moves
<1> SUFFICES ASSUME ~Writing', AtData(1, 1)'
             PROVE  dev' = Torn \/ dev' = Accept(call.cmd)'
  BY DEF AnswerInv
<1>1. ~Writing /\ call'.todo \in Seq(Kinds)
  <2>1. Tail(call.todo) \in Seq(Kinds)
    <3>1. call.todo \in Seq(Kinds) /\ call.todo # <<>>
      BY <1>0 DEF TypeOK, Calls, Moves
    <3> QED  BY <3>1, Step
  <2>2. <<>> \in Seq(Kinds)
    BY EmptySeq
  <2>3. call'.todo = IF o.ok \/ Ignored(t) THEN Tail(call.todo) ELSE <<>>
    BY DEF Moves, After
  <2> QED  BY <1>0, <2>1, <2>2, <2>3, SameCall
<1>2. ~AtData(0, 1)' /\ ~AtData(0, 0)'
  BY <1>1, Places DEF AtData
<1>3. SmallStep(t, o)
  BY <1>0, SmallMoves
<1>4. t = "cbw" /\ o.ok
  BY <1>1, <1>2, <1>3 DEF SmallStep
<1>5. CbwOutcome(o)
  <2>1. Accept(call.cmd) \in Devs
    BY <1>0, Replies DEF Replied
  <2> QED  BY <1>0, <1>4, <2>1, CbwComesTo
<1>6. dev' = o.dev
  BY DEF Moves, After
<1>7. Accept(call.cmd)' = Accept(call.cmd)
  <2>1. stored' = stored
    BY <1>4, SameStored
  <2> QED  BY <2>1, SameAnswer
<1> QED  BY <1>4, <1>5, <1>6, <1>7 DEF CbwOutcome

\* A failure ends the call, or the trust in it.
LEMMA KeptTrust ==
    ASSUME IInv, NEW t, NEW o, Moves(t, o)
    PROVE  TrustInv'
<1>1. TrustInv /\ TypeOK /\ call.todo # <<>> /\ Active /\ o.ok \in BOOLEAN
  BY DEF IInv, Moves, Outcomes
<1>2. /\ call'.todo = IF o.ok \/ Ignored(t) THEN Tail(call.todo) ELSE <<>>
      /\ call'.failed <=> ~o.ok /\ ~Ignored(t)
      /\ call'.trusted <=> call.trusted /\ (t \in {"skip", "skipcsw"} => o.ok)
      /\ hist'.clean <=> hist.clean /\ o.ok
  BY DEF Moves, After
<1>3. Writing' <=> Writing
  BY <1>1, SameCall
<1>4. call'.failed => call'.todo = <<>>
  BY <1>2
<1>5. ASSUME ~Writing', call'.trusted, ~call'.failed
      PROVE  hist'.clean
  <2>1. o.ok
    BY <1>2, <1>3, <1>5 DEF Ignored
  <2>2. hist.clean
    BY <1>1, <1>2, <1>3, <1>5 DEF TrustInv
  <2> QED  BY <1>2, <2>1, <2>2
<1> QED  BY <1>4, <1>5 DEF TrustInv

\* The whole of what the device has.
LEMMA WholeGot ==
    ASSUME NEW q \in Seq(Items)
    PROVE  SubSeq(q, 1, Len(q)) = q
OBVIOUS

\* What the answer to a command, or to a read or write of whole blocks, leads to.
LEMMA SmallData ==
    ASSUME IInv, ~Large, hist.clean, NEW o, Moves("data", o), o.ok, AtData(1, 1)
    PROVE  /\ dev'.phase = "csw"
           /\ Reading /\ dev'.status = 0 =>
                call'.got = Sectors(port.gen, call.cmd.lun, call.at, call.num)'
<1>0. TypeOK /\ PortInv /\ StatusInv /\ LunInv /\ SmallShape /\ SmallClean /\ Active
      /\ o \in Transfers("data") /\ o \in Outcomes /\ dev' = o.dev
  BY DEF IInv, Moves, After
<1>1. dev = Accept(call.cmd) /\ dev \in Devs
  BY <1>0 DEF SmallClean, TypeOK
<1>2. Replied(dev, call.cmd)
  BY <1>0, <1>1, Replies
<1>3. call.cmd.op # "TEST_UNIT_READY"
  <2>1. ~AtCbw(0, 1) /\ ~AtCbw(1, 1) /\ ~AtData(0, 1) /\ ~AtData(0, 0)
    BY <1>0, Places DEF AtData, AtCbw, TypeOK, Calls
  <2> QED  BY <1>0, <2>1 DEF SmallShape
<1>4. dev.phase \in {"in", "out", "stall"}
  BY <1>2, <1>3 DEF Replied
<1>5. CASE Writing
  <2>1. SentOutcome(o)
    BY <1>0, <1>5, SendingComesTo
  <2>2. dev'.phase = "csw"
    BY <1>0, <1>4, <2>1, DeviceStates DEF SentOutcome
  <2>3. ~Reading
    BY <1>5 DEF Reading, Writing
  <2> QED  BY <2>2, <2>3
<1>6. CASE ~Writing
  <2>1. GotOutcome(call.num, o)
    BY <1>0, <1>6, ReceivingComesTo, Counts DEF SmallShape
  <2>2. dev.phase # "out"
    BY <1>2, <1>6 DEF Replied, Writing
  <2>3. dev.phase = "in"
    BY <1>0, <1>4, <2>1, <2>2 DEF GotOutcome
  <2>4. Len(dev.queue) = call.num
    <3>1. CASE call.cmd.op \in Plain
      <4>1. call.who # "app"
        BY <1>0, <3>1 DEF StatusInv, Plain
      <4> QED  BY <1>0, <1>2, <2>3, <3>1, <4>1 DEF Replied, SmallShape
    <3>2. CASE call.cmd.op = "READ_10"
      <4>1. dev.queue = Sectors(port.gen, call.cmd.lun, call.cmd.lba, call.cmd.num)
        BY <1>2, <2>3, <3>2 DEF Replied
      <4>2. call.who = "app"
        BY <1>0, <3>2 DEF StatusInv
      <4>3. /\ port.gen \in Nat /\ call.cmd.lun \in {0, 1} /\ call.cmd.lba \in Nat
            /\ call.cmd.num \in Nat
        BY <1>0 DEF TypeOK, Calls, Cmds
      <4>4. Len(Sectors(port.gen, call.cmd.lun, call.cmd.lba, call.cmd.num)) = call.cmd.num
        BY <4>3 DEF Sectors
      <4> QED  BY <1>0, <4>1, <4>2, <4>4 DEF SmallShape
    <3> QED  BY <1>0, <1>6, <3>1, <3>2 DEF Active, Writing
  <2>5. \/ o.got = SubSeq(dev.queue, 1, call.num) /\ o.dev = InCsw(0)
        \/ o.got = <<>> /\ o.dev = InCsw(1)
    <3>1. call.num \in Nat
      BY <1>0 DEF TypeOK, Calls
    <3> QED  BY <2>1, <2>3, <2>4, <3>1 DEF GotOutcome
  <2>6. dev'.phase = "csw" /\ (dev'.status = 0 => o.got = dev.queue)
    <3>1. SubSeq(dev.queue, 1, Len(dev.queue)) = dev.queue
      BY <1>1, WholeGot DEF Devs
    <3>2. InCsw(1).status = 1 /\ InCsw(1).phase = "csw" /\ InCsw(0).phase = "csw"
      BY DeviceStates
    <3>3. SubSeq(dev.queue, 1, call.num) = dev.queue
      BY <2>4, <3>1
    <3>4. CASE o.got = SubSeq(dev.queue, 1, call.num) /\ o.dev = InCsw(0)
      BY <1>0, <3>2, <3>3, <3>4
    <3>5. CASE o.got = <<>> /\ o.dev = InCsw(1)
      BY <1>0, <3>2, <3>5
    <3> QED  BY <2>5, <3>4, <3>5
  <2>7. ASSUME Reading, dev'.status = 0
        PROVE  call'.got = Sectors(port.gen, call.cmd.lun, call.at, call.num)'
    <3>1. dev.queue = Sectors(port.gen, call.cmd.lun, call.cmd.lba, call.cmd.num)
      BY <1>2, <2>3, <2>7 DEF Replied, Reading
    <3>2. call.who = "app"
      BY <1>0, <2>7 DEF StatusInv, Reading
    <3>3. call.at = call.cmd.lba /\ call.num = call.cmd.num /\ call.num >= 1
      BY <1>0, <3>2 DEF SmallShape
    <3>4. dev.queue # <<>>
      <4>1. Len(dev.queue) # 0
        <5>1. call.num \in Nat
          BY <1>0 DEF TypeOK, Calls
        <5> QED  BY <2>4, <3>3, <5>1
      <4> QED  BY <4>1
    <3>5. call'.got = dev.queue
      <4>1. Data(o) = dev.queue
        BY <2>6, <2>7, <3>4 DEF Data
      <4>2. call'.got = Data(o)
        BY DEF Moves, After
      <4> QED  BY <4>1, <4>2
    <3>6. stored' = stored
      BY <2>3, SameStored
    <3>7. call'.cmd = call.cmd /\ port'.gen = port.gen /\ call'.at = call.at
          /\ call'.num = call.num
      BY DEF Moves, After
    <3>8. Sectors(port.gen, call.cmd.lun, call.at, call.num)'
             = Sectors(port.gen, call.cmd.lun, call.at, call.num)
      BY <3>6, <3>7 DEF Sectors, Sector
    <3> QED  BY <3>1, <3>3, <3>5, <3>8
  <2> QED  BY <2>6, <2>7
<1> QED  BY <1>5, <1>6

\* While nothing fails the device stays where the call is.
LEMMA SmallStays ==
    ASSUME IInv, ~Large, NEW t, NEW o, Moves(t, o)
    PROVE  SmallClean'
<1>0. TypeOK /\ PortInv /\ StatusInv /\ LunInv /\ SmallShape /\ SmallClean /\ Active
      /\ o \in Transfers(t) /\ o \in Outcomes /\ dev' = o.dev
  BY DEF IInv, Moves, After
<1> SUFFICES ASSUME hist'.clean
             PROVE  /\ AtCbw(0, 1)' \/ AtCbw(1, 1)' =>
                          dev' = DevIdle \/ (call'.who # "app" /\ dev'.phase = "in")
                    /\ AtData(1, 1)' => dev' = Accept(call.cmd)'
                    /\ AtData(0, 1)' => dev'.phase = "csw"
                    /\ AtData(0, 0)' => dev' = DevIdle
                    /\ disk'.remain_len = 0
                    /\ \A e \in {0, 1} : Reading' /\ AtData(0, e)' /\ NoError(e)' =>
                          call'.got = Sectors(port.gen, call.cmd.lun, call.at, call.num)'
  BY DEF SmallClean, DevIdle
<1>1. hist.clean /\ o.ok /\ disk'.remain_len = disk.remain_len /\ (Reading' <=> Reading)
  <2>1. hist'.clean <=> hist.clean /\ o.ok
    BY DEF Moves, After
  <2> QED  BY <1>0, <2>1, SameCall
<1>2. call.todo \in Seq(Kinds) /\ call'.todo \in Seq(Kinds)
  <2>1. Tail(call.todo) \in Seq(Kinds)
    <3>1. call.todo \in Seq(Kinds) /\ call.todo # <<>>
      BY <1>0 DEF TypeOK, Calls, Moves
    <3> QED  BY <3>1, Step
  <2>2. call'.todo = IF o.ok \/ Ignored(t) THEN Tail(call.todo) ELSE <<>>
    BY DEF Moves, After
  <2> QED  BY <1>0, <1>1, <2>1, <2>2 DEF TypeOK, Calls
<1>3. /\ AtCbw(0, 1) => ~AtData(1, 1) /\ ~AtCbw(1, 1) /\ ~AtData(0, 1)
      /\ AtCbw(1, 1) => ~AtData(1, 1) /\ ~AtData(0, 1)
      /\ AtData(1, 1) => ~AtCbw(1, 1) /\ ~AtData(0, 1)
      /\ AtData(0, 1) => ~AtCbw(1, 1)
  BY <1>2, Places DEF AtData, AtCbw
<1>4. /\ AtData(1, 1)' => ~AtCbw(0, 1)' /\ ~AtCbw(1, 1)' /\ ~AtData(0, 1)' /\ ~AtData(0, 0)'
      /\ AtData(0, 1)' => ~AtCbw(0, 1)' /\ ~AtCbw(1, 1)' /\ ~AtData(0, 0)'
      /\ AtData(0, 0)' => ~AtCbw(0, 1)' /\ ~AtCbw(1, 1)'
  BY <1>2, Places DEF AtData, AtCbw
<1>5. SmallStep(t, o)
  BY <1>0, SmallMoves
<1>6. Replied(Accept(call.cmd), call.cmd)
  BY <1>0, Replies
<1>7. CASE t = "cbw"
  <2>1. CbwOutcome(o)
    BY <1>0, <1>6, <1>7, CbwComesTo DEF Replied
  <2>2. (AtCbw(0, 1) \/ AtCbw(1, 1)) /\ ~AtData(0, 0)'
    BY <1>1, <1>4, <1>5, <1>7 DEF SmallStep
  <2>3. dev = DevIdle \/ (call.who # "app" /\ dev.phase = "in")
    BY <1>0, <1>1, <2>2 DEF SmallClean
  <2>4. dev.phase = "cmd" /\ dev' = Accept(call.cmd)
    BY <1>0, <1>1, <2>1, <2>3, DeviceStates DEF CbwOutcome
  <2>5. disk.remain_len = 0
    BY <1>0, <1>1, <2>4 DEF SmallClean
  <2>6. Accept(call.cmd)' = Accept(call.cmd)
    <3>1. stored' = stored
      BY <1>7, SameStored
    <3> QED  BY <3>1, SameAnswer
  <2>7. CASE AtCbw(0, 1)
    <3>1. AtData(0, 1)' /\ call.cmd.op = "TEST_UNIT_READY"
      BY <1>1, <1>3, <1>5, <1>7, <2>7 DEF SmallStep
    <3>2. dev'.phase = "csw"
      BY <1>6, <2>4, <3>1 DEF Replied
    <3>3. ~Reading
      BY <3>1 DEF Reading
    <3> QED  BY <1>1, <1>4, <2>5, <3>1, <3>2, <3>3
  <2>8. CASE AtCbw(1, 1)
    <3>1. AtData(1, 1)'
      BY <1>1, <1>3, <1>5, <1>7, <2>8 DEF SmallStep
    <3> QED  BY <1>1, <1>4, <2>4, <2>5, <2>6, <3>1
  <2> QED  BY <2>2, <2>7, <2>8
<1>8. CASE t = "data"
  <2>1. AtData(1, 1) /\ AtData(0, 1)'
    BY <1>1, <1>5, <1>8 DEF SmallStep
  <2>2. /\ dev'.phase = "csw"
        /\ Reading /\ dev'.status = 0 =>
              call'.got = Sectors(port.gen, call.cmd.lun, call.at, call.num)'
    BY <1>1, <1>8, <2>1, SmallData
  <2>3. disk.remain_len = 0
    BY <1>0, <1>1, <1>3, <2>1 DEF SmallClean
  <2> QED  BY <1>1, <1>4, <2>1, <2>2, <2>3 DEF NoError
<1>9. CASE t = "csw"
  <2>1. AtData(0, 1) /\ AtData(0, 0)'
    BY <1>1, <1>5, <1>9 DEF SmallStep
  <2>2. CswOutcome(o)
    BY <1>0, <1>9, CswComesTo
  <2>3. dev.phase = "csw"
    BY <1>0, <1>1, <2>1 DEF SmallClean
  <2>4. dev' = DevIdle /\ o.status = dev.status
    BY <1>0, <1>1, <2>2, <2>3 DEF CswOutcome
  <2>5. disk.remain_len = 0
    BY <1>0, <1>1, <1>3, <2>1 DEF SmallClean
  <2>6. call'.csw = o.status /\ call'.got = call.got
    BY <1>1, <1>9 DEF Moves, After
  <2>7. ASSUME Reading, call'.csw = 0
        PROVE  call'.got = Sectors(port.gen, call.cmd.lun, call.at, call.num)'
    <3>1. NoError(1)
      BY <2>4, <2>6, <2>7 DEF NoError
    <3>2. call.got = Sectors(port.gen, call.cmd.lun, call.at, call.num)
      BY <1>0, <1>1, <2>1, <2>7, <3>1 DEF SmallClean
    <3>3. stored' = stored
      BY <1>9, SameStored
    <3>4. call'.cmd = call.cmd /\ port'.gen = port.gen /\ call'.at = call.at
          /\ call'.num = call.num
      BY DEF Moves, After
    <3>5. Sectors(port.gen, call.cmd.lun, call.at, call.num)'
             = Sectors(port.gen, call.cmd.lun, call.at, call.num)
      BY <3>3, <3>4 DEF Sectors, Sector
    <3> QED  BY <2>6, <3>2, <3>5
  <2>8. ~AtData(1, 1)' /\ ~AtData(0, 1)'
    BY <1>4, <2>1
  <2> QED  BY <1>1, <1>4, <2>1, <2>4, <2>5, <2>7, <2>8 DEF NoError
<1> QED  BY <1>1, <1>5, <1>7, <1>8, <1>9 DEF SmallStep

\* A write stays where it is whatever fails.
LEMMA SmallWrites ==
    ASSUME IInv, ~Large, NEW t, NEW o, Moves(t, o)
    PROVE  WriteInv'
<1>0. /\ TypeOK /\ PortInv /\ StatusInv /\ LunInv /\ SmallShape /\ WriteInv /\ Active
      /\ o \in Transfers(t) /\ o \in Outcomes /\ dev' = o.dev
      /\ call'.who = call.who /\ call'.cmd = call.cmd /\ call'.at = call.at
      /\ call'.num = call.num
  BY DEF IInv, Moves, After
<1>1. (Writing' <=> Writing) /\ (Large' <=> Large)
  BY <1>0, SameCall
<1> SUFFICES ASSUME Writing, call'.trusted
             PROVE  /\ AtCbw(1, 1)' => dev' = DevIdle
                    /\ AtData(1, 1)' => \/ dev'.phase \in {"cmd", "stall"}
                                        \/ dev'.phase = "out" /\ dev'.cmd = call'.cmd
                    /\ AtData(0, 1)' => \/ dev'.phase \in {"cmd", "dead", "stall", "out"}
                                        \/ dev'.phase = "csw" /\ (dev'.status = 1 \/ Stored')
                    /\ AtData(0, 0)' => call'.failed \/ call'.csw = 1 \/ Stored'
  BY <1>1 DEF WriteInv, DevIdle
<1>2. call.todo \in Seq(Kinds) /\ call'.todo \in Seq(Kinds)
  <2>1. Tail(call.todo) \in Seq(Kinds)
    <3>1. call.todo \in Seq(Kinds) /\ call.todo # <<>>
      BY <1>0 DEF TypeOK, Calls, Moves
    <3> QED  BY <3>1, Step
  <2>2. call'.todo = IF o.ok \/ Ignored(t) THEN Tail(call.todo) ELSE <<>>
    BY DEF Moves, After
  <2>3. <<>> \in Seq(Kinds)
    BY EmptySeq
  <2> QED  BY <1>0, <2>1, <2>2, <2>3 DEF TypeOK, Calls
<1>3. /\ AtData(1, 1)' => ~AtCbw(1, 1)' /\ ~AtData(0, 1)' /\ ~AtData(0, 0)'
      /\ AtData(0, 1)' => ~AtCbw(1, 1)' /\ ~AtData(0, 0)'
      /\ AtData(0, 0)' => ~AtCbw(1, 1)'
  BY <1>2, Places DEF AtData, AtCbw
<1>4. SmallStep(t, o)
  BY <1>0, SmallMoves
<1>5. call.trusted /\ call.cmd.op = "WRITE_10"
  BY DEF Moves, After, Writing
<1>6. Replied(Accept(call.cmd), call.cmd)
  BY <1>0, Replies
<1>7. CASE t = "cbw" /\ AtCbw(1, 1) /\ AtData(1, 1)'
  <2>1. CbwOutcome(o)
    BY <1>0, <1>6, <1>7, CbwComesTo DEF Replied
  <2>2. dev = DevIdle
    BY <1>0, <1>5, <1>7 DEF WriteInv
  <2>3. \/ dev' = dev
        \/ dev' = Accept(call.cmd)
    BY <1>0, <2>1, <2>2, DeviceStates DEF CbwOutcome
  <2>4. dev'.phase \in {"cmd", "stall"} \/ (dev'.phase = "out" /\ dev'.cmd = call'.cmd)
    BY <1>0, <1>5, <1>6, <2>2, <2>3, DeviceStates DEF Replied
  <2> QED  BY <1>3, <1>7, <2>4
<1>8. CASE t = "data" /\ AtData(1, 1) /\ AtData(0, 1)'
  <2>1. SentOutcome(o)
    BY <1>0, <1>8, SendingComesTo
  <2>2. \/ dev.phase \in {"cmd", "stall"}
        \/ dev.phase = "out" /\ dev.cmd = call.cmd
    BY <1>0, <1>5, <1>8 DEF WriteInv
  <2>3. CASE dev' = dev
    BY <1>3, <1>8, <2>2, <2>3
  <2>4. CASE dev' = Dead
    BY <1>3, <1>8, <2>4, DeviceStates
  <2>5. CASE dev' = InCsw(1)
    BY <1>3, <1>8, <2>5, DeviceStates
  <2>6. CASE dev.phase = "out" /\ dev' = InCsw(0)
    <3>1. stored' = stored \cup {<<dev.cmd.lun, dev.cmd.lba + i>> :
                                 i \in 0..(dev.cmd.num - 1)}
      BY <1>0, <1>8, <2>6 DEF Moves, After
    <3>2. dev.cmd = call.cmd
      BY <2>2, <2>6
    <3>3. call.who = "app"
      BY <1>0, <1>5 DEF StatusInv
    <3>4. call.at = call.cmd.lba /\ call.num = call.cmd.num
      BY <1>0, <3>3 DEF SmallShape
    <3>5. Stored'
      BY <1>0, <3>1, <3>2, <3>4 DEF Stored
    <3>6. dev'.phase = "csw"
      BY <2>6, DeviceStates
    <3> QED  BY <1>3, <1>8, <3>5, <3>6
  <2> QED  BY <1>0, <2>1, <2>2, <2>3, <2>4, <2>5, <2>6 DEF SentOutcome
<1>9. CASE t = "csw" /\ AtData(0, 1) /\ AtData(0, 0)'
  <2>1. CswOutcome(o)
    BY <1>0, <1>9, CswComesTo
  <2>2. CASE o.ok
    <3>1. \/ dev.phase \in {"cmd", "dead", "stall", "out"}
          \/ dev.phase = "csw" /\ (dev.status = 1 \/ Stored)
      BY <1>0, <1>5, <1>9 DEF WriteInv
    <3>2. o.status = dev.status /\ dev.phase = "csw"
      BY <2>1, <2>2, <3>1 DEF CswOutcome
    <3>3. call'.csw = o.status
      BY <1>9, <2>2 DEF Moves, After
    <3>4. Stored => Stored'
      <4>1. stored' = stored
        BY <1>9, SameStored
      <4> QED  BY <1>0, <4>1 DEF Stored
    <3>5. call'.csw = 1 \/ Stored'
      BY <3>1, <3>2, <3>3, <3>4
    <3> QED  BY <1>3, <1>9, <3>5
  <2>3. CASE ~o.ok
    <3>1. call'.failed
      BY <1>4, <1>9, <2>3 DEF SmallStep
    <3> QED  BY <1>3, <1>9, <3>1
  <2> QED  BY <2>2, <2>3
<1> QED  BY <1>4, <1>5, <1>7, <1>8, <1>9 DEF SmallStep

-----------------------------------------------------------------------------
(* A transfer of a read in a large block.                                   *)

\* Where the read is before the transfer and after it.
LargeStep(t, o, d, m, e) ==
    \/ /\ t = "skip" /\ d > 0 /\ AtSkip(d, m, e) /\ AtSkip(d - 1, m, e)'
       /\ disk.remain_len = 0 /\ disk'.remain_len = 0
    \/ /\ t = "skipcsw" /\ AtSkip(0, m, e) /\ AtCbw(m, e)'
       /\ disk.remain_len = 0 /\ disk'.remain_len = 0
    \/ /\ t = "cbw" /\ AtCbw(m, e) /\ AtData(m, e)' /\ o.ok
       /\ m = call.at - call.cmd.lba + 1 /\ m >= 1 /\ m <= call.k /\ (e = 1 <=> m = call.k)
       /\ disk'.remain_len = call.k
    \/ /\ t = "data" /\ m >= 1 /\ AtData(m, e) /\ AtData(m - 1, e)' /\ o.ok
       /\ m <= disk.remain_len /\ (e = 1 => m = disk.remain_len)
       /\ (e = 0 => m < disk.remain_len)
       /\ disk'.remain_len = disk.remain_len - 1
    \/ /\ t = "csw" /\ m = 0 /\ e = 1 /\ AtData(0, 1) /\ AtData(0, 0)' /\ o.ok
       /\ disk.remain_len = 0 /\ disk'.remain_len = 0
    \/ /\ t \notin {"skip", "skipcsw"} /\ ~o.ok /\ AtData(0, 0)'
       /\ disk'.remain_len = disk.remain_len

\* A read in a large block stays in one of the shapes it can have.
LEMMA LargeMoves ==
    ASSUME TypeOK, LargeShape, Large, NEW t, NEW o, Moves(t, o)
    PROVE  /\ LargeShape'
           /\ \E d \in Nat, m \in Nat, e \in {0, 1} :
                 LargeStep(t, o, d, m, e) /\ (AtSkip(d, m, e)
                    => m = call.at - call.cmd.lba + 1 /\ m >= 1 /\ m <= call.k
                       /\ (e = 1 <=> m = call.k))
<1>1. /\ call.todo \in Seq(Kinds) /\ call.todo # <<>> /\ t = Head(call.todo) /\ Active
      /\ o.ok \in BOOLEAN /\ o \in Outcomes /\ t \in Kinds
      /\ Len(call.todo) \in Nat
  BY DEF Moves, TypeOK, Calls, Outcomes
<1>2. /\ call'.todo = IF o.ok \/ Ignored(t) THEN Tail(call.todo) ELSE <<>>
      /\ call'.cmd = call.cmd /\ call'.at = call.at /\ call'.k = call.k
      /\ call'.num = call.num
  BY DEF Moves, After
<1>3. /\ Reading /\ call.num = 1
      /\ call.cmd.num = call.k /\ call.k = Opened.k /\ call.k > 1
      /\ disk.prev_lba = call.at
  BY <1>1 DEF LargeShape
<1>4. /\ (Reading' <=> Reading) /\ (Large' <=> Large)
      /\ disk'.prev_lba = disk.prev_lba
      /\ disk'.capacity = disk.capacity /\ disk'.curlun = disk.curlun
  BY <1>1, SameCall
<1>5. Opened' = Opened
  BY <1>4 DEF Opened
<1>6. /\ ~o.ok => disk' = disk
      /\ o.ok => disk'.remain_len = IF t = "cbw" THEN call.k
                    ELSE IF t = "data" THEN disk.remain_len - 1 ELSE disk.remain_len
      /\ disk.remain_len \in Nat /\ call.k \in Nat
  <2>1. disk' = Noted(t, o)
    BY DEF Moves, After
  <2> QED  BY <1>1, <2>1, NotedDisk DEF TypeOK, Disks, Calls
<1>7. ~Writing
  BY <1>3 DEF Reading, Writing
<1> DEFINE s == Tail(call.todo)
           Wanted(m, e) == /\ m = call.at - call.cmd.lba + 1 /\ m >= 1 /\ m <= call.k
                           /\ (e = 1 <=> m = call.k)
           Got(m, e) == /\ m <= disk.remain_len
                        /\ e = 1 => m = disk.remain_len
                        /\ e = 0 /\ m > 0 => m < disk.remain_len
<1>8. PICK m \in 0..Len(call.todo), e \in {0, 1} :
        \/ /\ FromCbw(call.todo, m, e) \/ \E d \in 0..Len(call.todo) : FromSkip(call.todo, d, m, e)
           /\ disk.remain_len = 0 /\ Wanted(m, e)
        \/ FromData(call.todo, m, e) /\ Got(m, e)
  BY <1>1 DEF LargeShape, AtCbw, AtSkip, AtData
<1>9. m \in Nat
  BY <1>1
<1>10. s \in Seq(Kinds) /\ <<>> \in Seq(Kinds) /\ FromData(<<>>, 0, 0)
  BY <1>1, Step, Nothing
<1>11. call'.todo \in Seq(Kinds) /\ Len(call'.todo) \in Nat
  <2>1. call'.todo \in Seq(Kinds)
    BY <1>2, <1>10
  <2> QED  BY <2>1
<1> HIDE DEF s, Wanted, Got
\* To show where the read is afterwards.
<1>12. ASSUME NEW n \in Nat, NEW f \in {0, 1},
             \/ /\ AtCbw(n, f)' \/ \E d \in Nat : AtSkip(d, n, f)'
                /\ disk'.remain_len = 0 /\ Wanted(n, f)
             \/ /\ AtData(n, f)'
                /\ n <= disk'.remain_len
                /\ f = 1 => n = disk'.remain_len
                /\ f = 0 /\ n > 0 => n < disk'.remain_len
      PROVE  LargeShape'
  <2>1. n \in 0..Len(call'.todo)
    BY <1>11, <1>12 DEF AtCbw, AtSkip, AtData, FromCbw, FromSkip, FromData, Ends
  <2>2. ASSUME NEW d \in Nat, AtSkip(d, n, f)'
        PROVE  d \in 0..Len(call'.todo)
    BY <1>11, <2>2 DEF AtSkip, FromSkip, Ends
  <2>3. \/ /\ AtCbw(n, f)' \/ \E d \in 0..Len(call'.todo) : AtSkip(d, n, f)'
           /\ disk'.remain_len = 0
           /\ n = call'.at - call'.cmd.lba + 1 /\ n >= 1 /\ n <= call'.k
           /\ (f = 1 <=> n = call'.k)
        \/ /\ AtData(n, f)'
           /\ n <= disk'.remain_len
           /\ f = 1 => n = disk'.remain_len
           /\ f = 0 /\ n > 0 => n < disk'.remain_len
    BY <1>2, <1>12, <2>2 DEF Wanted
  <2> QED  BY <1>2, <1>3, <1>4, <1>5, <2>1, <2>3 DEF LargeShape
<1>15. ASSUME NEW d \in Nat, NEW n \in Nat, NEW f \in {0, 1},
              LargeStep(t, o, d, n, f), AtSkip(d, n, f) => Wanted(n, f), LargeShape'
       PROVE  /\ LargeShape'
              /\ \E dd \in Nat, mm \in Nat, ee \in {0, 1} :
                    LargeStep(t, o, dd, mm, ee) /\ (AtSkip(dd, mm, ee)
                       => mm = call.at - call.cmd.lba + 1 /\ mm >= 1 /\ mm <= call.k
                          /\ (ee = 1 <=> mm = call.k))
  <2>1. LargeStep(t, o, d, n, f) /\ (AtSkip(d, n, f)
           => n = call.at - call.cmd.lba + 1 /\ n >= 1 /\ n <= call.k
              /\ (f = 1 <=> n = call.k))
    BY <1>15 DEF Wanted
  <2> QED  BY <1>15, <2>1
<1>13. CASE ~o.ok /\ t \notin {"skip", "skipcsw"}
  <2>1. call'.todo = <<>>
    BY <1>2, <1>7, <1>13 DEF Ignored
  <2>2. AtData(0, 0)'
    BY <1>10, <2>1 DEF AtData
  <2>3. disk'.remain_len = disk.remain_len
    BY <1>6, <1>13
  <2>4. LargeStep(t, o, 0, 0, 0)
    BY <1>13, <2>2, <2>3 DEF LargeStep
  <2>5. LargeShape'
    BY <1>6, <1>12, <2>2, <2>3
  <2>6. ~AtSkip(0, 0, 0)
    <3>1. AtSkip(0, 0, 0) => t \in {"skip", "skipcsw"}
      BY <1>1, FirstSkip DEF AtSkip
    <3> QED  BY <1>13, <3>1
  <2> QED  BY <2>4, <2>5, <2>6
<1>14. CASE o.ok \/ t \in {"skip", "skipcsw"}
  <2>1. call'.todo = s
    BY <1>2, <1>14 DEF Ignored, s
  <2>2. CASE /\ \E d \in 0..Len(call.todo) : FromSkip(call.todo, d, m, e)
             /\ disk.remain_len = 0 /\ Wanted(m, e)
    <3>1. PICK d \in 0..Len(call.todo) : FromSkip(call.todo, d, m, e)
      BY <2>2
    <3>2. d \in Nat /\ AtSkip(d, m, e)
      BY <1>1, <3>1 DEF AtSkip
    <3>3. t \in {"skip", "skipcsw"} /\ (t = "skip" <=> d > 0)
          /\ (d > 0 => FromSkip(s, d - 1, m, e)) /\ (d = 0 => FromCbw(s, m, e))
      BY <1>1, <1>9, <3>1, <3>2, FirstSkip DEF s
    <3>4. disk'.remain_len = 0
      BY <1>6, <2>2, <3>3
    <3>5. CASE d > 0
      <4>1. AtSkip(d - 1, m, e)' /\ d - 1 \in Nat
        BY <2>1, <3>2, <3>3, <3>5 DEF AtSkip
      <4>2. LargeStep(t, o, d, m, e)
        BY <2>2, <3>2, <3>3, <3>4, <3>5, <4>1 DEF LargeStep
      <4>3. LargeShape'
        BY <1>9, <1>12, <2>2, <3>4, <4>1
      <4> QED  BY <1>9, <1>15, <2>2, <3>2, <4>2, <4>3
    <3>6. CASE d = 0
      <4>1. AtCbw(m, e)' /\ t = "skipcsw"
        BY <2>1, <3>3, <3>6 DEF AtCbw
      <4>2. LargeStep(t, o, d, m, e)
        BY <2>2, <3>2, <3>4, <3>6, <4>1 DEF LargeStep
      <4>4. AtSkip(d, m, e) => Wanted(m, e)
        BY <2>2
      <4>3. LargeShape'
        BY <1>9, <1>12, <2>2, <3>4, <4>1
      <4> QED  BY <1>9, <1>15, <3>2, <4>2, <4>3, <4>4
    <3>7. d > 0 \/ d = 0
      BY <3>2
    <3> QED  BY <3>5, <3>6, <3>7
  <2>3. CASE FromCbw(call.todo, m, e) /\ disk.remain_len = 0 /\ Wanted(m, e)
    <3>1. t = "cbw" /\ FromData(s, m, e) /\ o.ok
      BY <1>1, <1>9, <1>14, <2>3, FirstCbw DEF s
    <3>2. AtData(m, e)' /\ AtCbw(m, e) /\ disk'.remain_len = call.k
      BY <1>6, <2>1, <2>3, <3>1 DEF AtData, AtCbw
    <3>3. LargeStep(t, o, 0, m, e)
      BY <2>3, <3>1, <3>2 DEF LargeStep, Wanted
    <3>4. LargeShape'
      <4>1. m <= call.k /\ (e = 1 => m = call.k) /\ (e = 0 /\ m > 0 => m < call.k)
        BY <1>6, <1>9, <2>3 DEF Wanted
      <4> QED  BY <1>9, <1>12, <3>2, <4>1
    <3> QED  BY <1>9, <2>3, <3>3, <3>4 DEF Wanted
  <2>4. CASE FromData(call.todo, m, e) /\ Got(m, e) /\ m > 0
    <3>1. m \in Nat \ {0} /\ m - 1 \in Nat
      BY <1>9, <2>4
    <3>2. t = "data" /\ FromData(s, m - 1, e) /\ o.ok
      BY <1>1, <1>14, <2>4, <3>1, FirstData DEF s
    <3>3. AtData(m - 1, e)' /\ AtData(m, e) /\ disk'.remain_len = disk.remain_len - 1
      BY <1>6, <2>1, <2>4, <3>2 DEF AtData
    <3>4. /\ m <= disk.remain_len /\ (e = 1 => m = disk.remain_len)
          /\ (e = 0 => m < disk.remain_len)
      BY <2>4 DEF Got
    <3>5. LargeStep(t, o, 0, m, e)
      BY <3>1, <3>2, <3>3, <3>4 DEF LargeStep
    <3>6. LargeShape'
      <4>1. /\ m - 1 <= disk'.remain_len /\ (e = 1 => m - 1 = disk'.remain_len)
            /\ (e = 0 /\ m - 1 > 0 => m - 1 < disk'.remain_len)
        BY <1>6, <3>1, <3>3, <3>4
      <4> QED  BY <1>12, <3>1, <3>3, <4>1
    <3>7. ~AtSkip(0, m, e)
      <4>1. AtSkip(0, m, e) => t \in {"skip", "skipcsw"}
        BY <1>1, <1>9, FirstSkip DEF AtSkip
      <4> QED  BY <3>2, <4>1
    <3> QED  BY <1>9, <3>5, <3>6, <3>7
  <2>5. CASE FromData(call.todo, m, e) /\ Got(m, e) /\ m = 0
    <3>1. e = 1
      <4>1. Len(call.todo) # 0
        BY <1>1, EmptySeq
      <4> QED  BY <2>5, <4>1 DEF FromData, Ends
    <3>2. t = "csw" /\ FromData(s, 0, 0) /\ o.ok
      BY <1>1, <1>14, <2>5, <3>1, FirstCsw DEF s
    <3>3. AtData(0, 0)' /\ AtData(0, 1) /\ disk.remain_len = 0 /\ disk'.remain_len = 0
      BY <1>6, <2>1, <2>5, <3>1, <3>2 DEF AtData, Got
    <3>4. LargeStep(t, o, 0, 0, 1)
      BY <3>2, <3>3 DEF LargeStep
    <3>5. LargeShape'
      BY <1>12, <3>3
    <3>6. ~AtSkip(0, 0, 1)
      <4>1. AtSkip(0, 0, 1) => t \in {"skip", "skipcsw"}
        BY <1>1, FirstSkip DEF AtSkip
      <4> QED  BY <3>2, <4>1
    <3> QED  BY <3>4, <3>5, <3>6
  <2> QED  BY <1>8, <1>9, <2>2, <2>3, <2>4, <2>5
<1> QED  BY <1>1, <1>13, <1>14

\* What reading one sector of a block leads to, while nothing fails: n are left,
\* and the one that is wanted is sector s of unit l, the m-th from here.
Read(o, m, n, g, l, s) ==
    /\ stored' = stored
    /\ n > 0 => /\ dev'.phase = "in" /\ Len(dev'.queue) = n
                /\ hist.follows => \A i \in 1..n :
                      dev'.queue[i] = Sector(g, l, s - (m - 1) + 1 + i - 1)
    /\ n = 0 => dev'.phase = "csw"
    /\ m = 1 /\ hist.follows /\ (n = 0 => dev'.status = 0) =>
          call'.got = <<Sector(g, l, s)>>

\* A sector of a large block arrives: it is the one that was due.
LEMMA LargeData ==
    ASSUME NEW o, NEW m \in Nat \ {0}, NEW n \in Nat,
           NEW g \in Nat, NEW l \in {0, 1}, NEW at \in Nat,
           TypeOK, ~Writing, call.num = 1, Moves("data", o), o.ok,
           m <= disk.remain_len, n = disk.remain_len - 1,
           Offers(disk.remain_len, g, l, at - m + 1) \/ dev.phase = "stall"
    PROVE  Read(o, m, n, g, l, at)
<1> DEFINE q == dev.queue
           r == disk.remain_len
<1>1. /\ q \in Seq(Items) /\ Len(q) \in Nat /\ r \in Nat /\ r >= 1 /\ n = r - 1
      /\ o \in Outcomes /\ o \in Transfers("data") /\ dev' = o.dev
      /\ hist'.follows = hist.follows
  <2>1. q \in Seq(Items) /\ r \in Nat
    BY DEF TypeOK, Devs, Disks
  <2>2. Len(q) \in Nat /\ r >= 1 /\ n = r - 1
    BY <2>1
  <2>3. o \in Outcomes /\ o \in Transfers("data") /\ dev' = o.dev
    BY DEF Moves, After
  <2>4. hist'.follows = hist.follows
    BY DEF TypeOK, Moves, After
  <2> QED  BY <2>1, <2>2, <2>3, <2>4
<1>2. GotOutcome(1, o)
  <2>1. GotOutcome(call.num, o)
    BY <1>1, ReceivingComesTo
  <2> QED  BY <2>1
<1>3. dev.phase # "stall"
  BY <1>2 DEF GotOutcome
<1>4. /\ dev.phase = "in" /\ Len(q) = r
      /\ hist.follows => \A i \in 1..r : q[i] = Sector(g, l, at - m + 1 + i - 1)
  BY <1>3 DEF Offers
<1>5. stored' = stored
  BY <1>4, SameStored
<1>8. call'.got = Data(o)
  BY <1>1 DEF Moves, After
<1>9. m = 1 /\ hist.follows => q[1] = Sector(g, l, at)
  <2> SUFFICES ASSUME m = 1, hist.follows PROVE q[1] = Sector(g, l, at)
    OBVIOUS
  <2>1. at - m + 1 + 1 - 1 = at /\ 1 \in 1..r
    BY <1>1
  <2> QED  BY <1>4, <2>1
<1>10. ASSUME o.got = SubSeq(q, 1, 1), m = 1, hist.follows
       PROVE  call'.got = <<Sector(g, l, at)>>
  <2> HIDE DEF q, r
  <2>1. SubSeq(q, 1, 1) = <<q[1]>>
    <3>1. 1 \in Int /\ \A i \in 1..1 : q[i] \in Items
      BY <1>1, <1>4
    <3>2. /\ SubSeq(q, 1, 1) \in Seq(Items)
          /\ Len(SubSeq(q, 1, 1)) = IF 1 <= 1 THEN 1 - 1 + 1 ELSE 0
          /\ \A i \in 1..1 - 1 + 1 : SubSeq(q, 1, 1)[i] = q[1 + i - 1]
      BY <3>1, SubSeqProperties
    <3>3. Len(SubSeq(q, 1, 1)) = 1 /\ SubSeq(q, 1, 1)[1] = q[1]
      BY <3>2
    <3>4. q[1] \in Items
      BY <3>1
    <3>5. <<q[1]>> \in Seq(Items) /\ Len(<<q[1]>>) = 1 /\ <<q[1]>>[1] = q[1]
      BY <3>4, OneItem
    <3> DEFINE a == SubSeq(q, 1, 1)
               b == <<q[1]>>
    <3>6. a \in Seq(Items) /\ b \in Seq(Items) /\ Len(a) = Len(b)
      BY <3>2, <3>3, <3>5
    <3>7. \A i \in 1..Len(a) : a[i] = b[i]
      BY <3>3, <3>5
    <3> HIDE DEF a, b
    <3>8. a = b
      BY <3>6, <3>7, SeqEqual
    <3> QED  BY <3>8 DEF a, b
  <2>2. o.got # <<>>
    <3>1. Len(<<q[1]>>) = 1 /\ Len(<<>>) = 0
      OBVIOUS
    <3> QED  BY <1>10, <2>1, <3>1
  <2> QED  BY <1>8, <1>9, <1>10, <2>1, <2>2 DEF Data
<1>11. CASE r > 1
  <2>1. o.got = SubSeq(q, 1, 1) /\ o.dev = Sending(SubSeq(q, 2, Len(q)))
    BY <1>2, <1>4, <1>11 DEF GotOutcome
  <2> DEFINE rest == SubSeq(q, 2, Len(q))
  <2>2. /\ rest \in Seq(Items) /\ Len(rest) = r - 1
        /\ \A i \in 1..(r - 1) : rest[i] = q[i + 1]
    <3>1. 2 \in Int /\ Len(q) \in Int /\ \A i \in 2..Len(q) : q[i] \in Items
      BY <1>1
    <3>2. rest \in Seq(Items) /\ Len(rest) = Len(q) - 2 + 1
      <4> HIDE DEF q
      <4> QED  BY <1>1, <1>4, <1>11, <3>1, SubSeqProperties
    <3>3. \A i \in 1..(r - 1) : rest[i] = q[i + 1]
      <4>1. \A i \in 1..(Len(q) - 2 + 1) : rest[i] = q[2 + i - 1]
        <5> HIDE DEF q
        <5> QED  BY <1>1, <1>4, <1>11, <3>1, SubSeqProperties
      <4>2. ASSUME NEW i \in 1..(r - 1) PROVE rest[i] = q[i + 1]
        <5>1. i \in 1..(Len(q) - 2 + 1) /\ 2 + i - 1 = i + 1
          BY <1>1, <1>4
        <5> HIDE DEF rest, q, r
        <5>2. rest[i] = q[2 + i - 1]
          BY <4>1, <5>1
        <5> QED  BY <5>1, <5>2
      <4> QED  BY <4>2
    <3> HIDE DEF rest, q, r
    <3> QED  BY <1>1, <1>4, <3>2, <3>3
  <2>3. dev'.phase = "in" /\ dev'.queue = rest
    <3> HIDE DEF rest
    <3>1. dev' = Sending(rest)
      BY <1>1, <2>1 DEF rest
    <3> QED  BY <2>2, <3>1, DeviceStates
  <2>4. ASSUME hist.follows, NEW i \in 1..(r - 1)
        PROVE  dev'.queue[i] = Sector(g, l, at - (m - 1) + 1 + i - 1)
    <3>1. i + 1 \in 1..r /\ at - m + 1 + (i + 1) - 1 = at - (m - 1) + 1 + i - 1
      <4> HIDE DEF r, q
      <4>1. i \in Int /\ m \in Int /\ at \in Int /\ r \in Int /\ 1 <= i /\ i <= r - 1
        BY <1>1
      <4> QED  BY <4>1
    <3>2. q[i + 1] = Sector(g, l, at - m + 1 + (i + 1) - 1)
      BY <1>4, <2>4, <3>1
    <3> HIDE DEF rest, q
    <3>3. dev'.queue[i] = q[i + 1]
      BY <2>2, <2>3
    <3> QED  BY <3>1, <3>2, <3>3
  <2>5. /\ dev'.phase = "in" /\ Len(dev'.queue) = n
        /\ hist.follows => \A i \in 1..n :
              dev'.queue[i] = Sector(g, l, at - (m - 1) + 1 + i - 1)
    <3>1. Len(rest) = n /\ 1..(r - 1) = 1..n
      BY <1>1, <2>2
    <3> HIDE DEF rest, q, r
    <3>2. dev'.phase = "in" /\ Len(dev'.queue) = n
      BY <2>3, <3>1
    <3>3. hist.follows => \A i \in 1..n :
             dev'.queue[i] = Sector(g, l, at - (m - 1) + 1 + i - 1)
      BY <2>4, <3>1
    <3> QED  BY <3>2, <3>3
  <2> QED  BY <1>1, <1>5, <1>10, <1>11, <2>1, <2>5 DEF Read
<1>12. CASE r = 1
  <2>1. \/ o.got = SubSeq(q, 1, 1) /\ o.dev = InCsw(0)
        \/ o.got = <<>> /\ o.dev = InCsw(1)
    BY <1>2, <1>4, <1>12 DEF GotOutcome
  <2>2. dev'.phase = "csw" /\ (dev'.status = 0 => o.got = SubSeq(q, 1, 1))
    BY <1>1, <2>1, DeviceStates
  <2> QED  BY <1>1, <1>5, <1>10, <1>12, <2>2 DEF Read
<1> QED  BY <1>1, <1>11, <1>12 DEF Read

\* The places of a read in a large block are apart.
LEMMA LargePlaces ==
    ASSUME NEW s \in Seq(Kinds), NEW m \in Nat, NEW e \in {0, 1},
           NEW n \in Nat, NEW f \in {0, 1}, NEW c \in Nat, NEW d \in Nat
    PROVE  /\ FromData(s, m, e) => ~FromCbw(s, n, f) /\ ~FromSkip(s, c, n, f)
           /\ FromCbw(s, m, e) => ~FromData(s, n, f) /\ ~FromSkip(s, c, n, f)
           /\ FromSkip(s, d, m, e) => ~FromData(s, n, f) /\ ~FromCbw(s, n, f)
           /\ FromData(s, m, e) /\ FromData(s, n, f) => m = n /\ e = f
           /\ FromSkip(s, d, m, e) /\ FromSkip(s, c, n, f) => c = d
<1>1. /\ FromData(s, m, e) => s = <<>> \/ Head(s) \in {"data", "csw"}
      /\ FromCbw(s, m, e) => s # <<>> /\ Head(s) = "cbw"
      /\ FromSkip(s, d, m, e) => s # <<>> /\ Head(s) \in {"skip", "skipcsw"}
  BY Apart
<1>2. /\ FromData(s, n, f) => s = <<>> \/ Head(s) \in {"data", "csw"}
      /\ FromCbw(s, n, f) => s # <<>> /\ Head(s) = "cbw"
      /\ FromSkip(s, c, n, f) => s # <<>> /\ Head(s) \in {"skip", "skipcsw"}
  BY Apart
<1>3. FromData(s, m, e) /\ FromData(s, n, f) => m = n /\ e = f
  BY OneData
<1>4. FromSkip(s, d, m, e) /\ FromSkip(s, c, n, f) => c = d
  BY OneSkip
<1> QED  BY <1>1, <1>2, <1>3, <1>4

\* What the driver and the device share at each place of a read in a large block.
SkipHolds(d) ==
    /\ d > 0 => dev.phase = "in" /\ Len(dev.queue) = d
    /\ d = 0 => dev.phase = "csw"
DataHolds(m, e) ==
    /\ disk.remain_len > 0 =>
          \/ Offers(disk.remain_len, port.gen, call.cmd.lun, call.at - m + 1)
          \/ m > 0 /\ dev.phase = "stall"
    /\ disk.remain_len = 0 => IF e = 1 THEN dev.phase = "csw" ELSE dev = DevIdle
    /\ m = 0 /\ hist.follows /\ NoError(e) =>
          call.got = <<Sector(port.gen, call.cmd.lun, call.at)>>

\* LargeClean, place by place.
LargeCleanRule ==
    \A d \in Nat, m \in Nat, e \in {0, 1} :
        /\ TypeOK
        /\ \/ AtSkip(d, m, e) /\ SkipHolds(d)
           \/ AtCbw(m, e) /\ dev = DevIdle
           \/ AtData(m, e) /\ DataHolds(m, e)
        => LargeClean

\* To show LargeClean it is enough to show it for the shape the call has.
LEMMA LargeCleanIf == LargeCleanRule
<1> SUFFICES ASSUME NEW d \in Nat, NEW m \in Nat, NEW e \in {0, 1}, TypeOK,
                    \/ AtSkip(d, m, e) /\ SkipHolds(d)
                    \/ AtCbw(m, e) /\ dev = DevIdle
                    \/ AtData(m, e) /\ DataHolds(m, e)
             PROVE  LargeClean
  BY DEF LargeCleanRule
<1>1. call.todo \in Seq(Kinds)
  BY DEF TypeOK, Calls
<1> SUFFICES ASSUME NEW n \in Nat, NEW f \in {0, 1}
             PROVE  /\ \A c \in Nat : AtSkip(c, n, f) => SkipHolds(c)
                    /\ AtCbw(n, f) => dev = DevIdle
                    /\ AtData(n, f) => DataHolds(n, f)
  <2>1. Len(call.todo) \in Nat
    BY <1>1
  <2>2. \A c \in 0..Len(call.todo) : c \in Nat
    BY <2>1
  <2> QED  BY <2>2 DEF LargeClean, SkipHolds, DataHolds
<1>2. ASSUME NEW c \in Nat, AtSkip(c, n, f) PROVE SkipHolds(c)
  <2>1. ~AtCbw(m, e) /\ ~AtData(m, e)
    BY <1>1, <1>2, LargePlaces DEF AtSkip, AtCbw, AtData
  <2>2. c = d
    BY <1>1, <1>2, <2>1, LargePlaces DEF AtSkip
  <2> QED  BY <2>1, <2>2
<1>3. ASSUME AtCbw(n, f) PROVE dev = DevIdle
  <2>1. ~AtSkip(d, m, e) /\ ~AtData(m, e)
    BY <1>1, <1>3, LargePlaces DEF AtSkip, AtCbw, AtData
  <2> QED  BY <2>1
<1>4. ASSUME AtData(n, f) PROVE DataHolds(n, f)
  <2>1. ~AtSkip(d, m, e) /\ ~AtCbw(m, e)
    BY <1>1, <1>4, LargePlaces DEF AtSkip, AtCbw, AtData
  <2>2. m = n /\ e = f
    BY <1>1, <1>4, <2>1, LargePlaces DEF AtData
  <2> QED  BY <2>1, <2>2
<1> QED  BY <1>2, <1>3, <1>4

\* What LargeClean says of the shape the call has.
LEMMA LargeCleanThen ==
    ASSUME TypeOK, LargeClean, Active, Large, hist.clean,
           NEW d \in Nat, NEW m \in Nat, NEW e \in {0, 1}
    PROVE  /\ AtSkip(d, m, e) => SkipHolds(d)
           /\ AtCbw(m, e) => dev = DevIdle
           /\ AtData(m, e) => DataHolds(m, e)
<1>1. call.todo \in Seq(Kinds) /\ Len(call.todo) \in Nat
  BY DEF TypeOK, Calls
<1>2. AtSkip(d, m, e) => d \in 0..Len(call.todo) /\ m \in 0..Len(call.todo)
  BY <1>1 DEF AtSkip, FromSkip, Ends
<1>3. AtCbw(m, e) => m \in 0..Len(call.todo)
  BY <1>1 DEF AtCbw, FromCbw, Ends
<1>4. AtData(m, e) => m \in 0..Len(call.todo)
  BY <1>1 DEF AtData, FromData, Ends
<1>5. AtSkip(d, m, e) => SkipHolds(d)
  BY <1>2 DEF LargeClean, SkipHolds
<1>6. AtCbw(m, e) => dev = DevIdle
  BY <1>3 DEF LargeClean
<1>7. AtData(m, e) => DataHolds(m, e)
  BY <1>4 DEF LargeClean, DataHolds
<1> QED  BY <1>5, <1>6, <1>7

\* While nothing fails the device stays where the read is.
LEMMA LargeStays ==
    ASSUME IInv, TypeOK', Large, NEW t, NEW o, Moves(t, o),
           NEW d \in Nat, NEW m \in Nat, NEW e \in {0, 1}, LargeStep(t, o, d, m, e)
    PROVE  LargeClean'
<1>0. /\ TypeOK /\ PortInv /\ StatusInv /\ LunInv /\ LargeShape /\ LargeClean /\ Active
      /\ o \in Transfers(t) /\ o \in Outcomes /\ dev' = o.dev
      /\ call'.cmd = call.cmd /\ call'.at = call.at /\ port'.gen = port.gen
      /\ hist'.follows = hist.follows
  BY DEF IInv, Moves, After
<1>1. Reading /\ call.num = 1 /\ call.cmd.num = call.k /\ call.k > 1 /\ ~Writing
  BY <1>0 DEF LargeShape, Reading, Writing
<1>2. /\ call.cmd.lun \in {0, 1} /\ port.gen \in Nat /\ call.cmd.lba \in Nat
      /\ call.at \in Nat /\ call.k \in Nat /\ disk.remain_len \in Nat
      /\ disk'.remain_len \in Nat
  BY <1>0 DEF TypeOK, Calls, Cmds, Disks
<1> SUFFICES ASSUME hist'.clean PROVE LargeClean'
  BY DEF LargeClean
<1>3. hist.clean /\ o.ok
  BY DEF Moves, After
<1>4. LargeCleanRule'
  BY LargeCleanIf, PTL
<1>5. /\ AtSkip(d, m, e) => SkipHolds(d)
      /\ AtCbw(m, e) => dev = DevIdle
      /\ AtData(m, e) => DataHolds(m, e)
  BY <1>0, <1>3, LargeCleanThen
<1>6. CASE t = "skip" /\ d > 0 /\ AtSkip(d, m, e) /\ AtSkip(d - 1, m, e)'
  <2>1. dev.phase = "in" /\ Len(dev.queue) = d
    BY <1>5, <1>6 DEF SkipHolds
  <2>2. GotOutcome(1, o)
    BY <1>0, <1>6, SkippingComesTo
  <2>3. /\ dev.queue \in Seq(Items) /\ d - 1 \in Nat
        /\ dev' = IF d > 1 THEN Sending(SubSeq(dev.queue, 2, Len(dev.queue))) ELSE dev'
        /\ d = 1 => dev' \in {InCsw(0), InCsw(1)}
    BY <1>0, <1>3, <1>6, <2>1, <2>2 DEF GotOutcome, TypeOK, Devs
  <2>4. (d - 1 > 0 => dev'.phase = "in" /\ Len(dev'.queue) = d - 1)
        /\ (d - 1 = 0 => dev'.phase = "csw")
    <3>1. CASE d > 1
      <4> DEFINE q == dev.queue
                 rest == SubSeq(q, 2, Len(q))
      <4>1. 2 \in Int /\ Len(q) \in Int /\ \A i \in 2..Len(q) : q[i] \in Items
        BY <2>3
      <4>2. rest \in Seq(Items) /\ Len(rest) = d - 1
        <5>1. rest \in Seq(Items) /\ Len(rest) = IF 2 <= Len(q) THEN Len(q) - 2 + 1 ELSE 0
          <6> HIDE DEF q
          <6> QED  BY <4>1, SubSeqProperties
        <5> HIDE DEF rest
        <5> QED  BY <2>1, <3>1, <5>1
      <4>3. dev' = Sending(rest)
        BY <2>3, <3>1
      <4> HIDE DEF rest, q
      <4>4. dev'.phase = "in" /\ dev'.queue = rest
        BY <4>2, <4>3, DeviceStates
      <4> QED  BY <3>1, <4>2, <4>4
    <3>2. CASE d = 1
      BY <2>3, <3>2, DeviceStates
    <3> QED  BY <1>6, <3>1, <3>2
  <2>5. d - 1 \in Nat /\ AtSkip(d - 1, m, e)' /\ SkipHolds(d - 1)'
    BY <1>6, <2>3, <2>4 DEF SkipHolds
  <2> QED  BY <1>4, <2>5 DEF LargeCleanRule
<1>7. CASE t = "skipcsw" /\ AtSkip(0, m, e) /\ AtCbw(m, e)'
  <2>1. SkipHolds(0)
    BY <1>0, <1>3, <1>7, LargeCleanThen
  <2>2. CswOutcome(o)
    BY <1>0, <1>7, CswComesTo
  <2>3. dev' = DevIdle
    BY <1>0, <1>3, <2>1, <2>2 DEF SkipHolds, CswOutcome
  <2>4. AtCbw(m, e)' /\ (dev = DevIdle)'
    BY <1>7, <2>3 DEF DevIdle
  <2> QED  BY <1>4, <2>4 DEF LargeCleanRule
<1>8. CASE /\ t = "cbw" /\ AtCbw(m, e) /\ AtData(m, e)'
           /\ m = call.at - call.cmd.lba + 1 /\ m >= 1 /\ disk'.remain_len = call.k
  <2>1. Replied(Accept(call.cmd), call.cmd)
    BY <1>0, Replies
  <2>2. CbwOutcome(o)
    BY <1>0, <1>8, <2>1, CbwComesTo DEF Replied
  <2>3. dev' = Accept(call.cmd)
    BY <1>0, <1>3, <1>5, <1>8, <2>2, DeviceStates DEF CbwOutcome
  <2>4. call.cmd.op = "READ_10"
    BY <1>1 DEF Reading
  <2>5. CASE dev'.phase = "in"
    <3>1. dev'.queue = Sectors(port.gen, call.cmd.lun, call.cmd.lba, call.k)
      BY <1>1, <2>1, <2>3, <2>4, <2>5 DEF Replied
    <3>2. Len(dev'.queue) = call.k
      BY <1>2, <3>1 DEF Sectors
    <3>3. stored' = stored
      BY <1>8, SameStored
    <3>4. ASSUME NEW i \in 1..call.k
          PROVE  dev'.queue[i] = Sector(port.gen, call.cmd.lun, call.at - m + 1 + i - 1)'
      <4>1. call.at - m + 1 + i - 1 = call.cmd.lba + i - 1
        BY <1>2, <1>8
      <4>2. dev'.queue[i] = Sector(port.gen, call.cmd.lun, call.cmd.lba + i - 1)
        BY <3>1 DEF Sectors
      <4>3. Sector(port.gen, call.cmd.lun, call.at - m + 1 + i - 1)'
               = Sector(port.gen, call.cmd.lun, call.at - m + 1 + i - 1)
        BY <1>0, <3>3 DEF Sector
      <4> QED  BY <4>1, <4>2, <4>3
    <3>5. Offers(disk.remain_len, port.gen, call.cmd.lun, call.at - m + 1)'
      BY <1>8, <2>5, <3>2, <3>4 DEF Offers
    <3>6. DataHolds(m, e)'
      BY <1>1, <1>2, <1>8, <3>5 DEF DataHolds
    <3> QED  BY <1>4, <1>8, <3>6 DEF LargeCleanRule
  <2>6. CASE dev'.phase = "stall"
    <3>1. DataHolds(m, e)'
      BY <1>1, <1>2, <1>8, <2>6 DEF DataHolds
    <3> QED  BY <1>4, <1>8, <3>1 DEF LargeCleanRule
  <2>7. dev'.phase \in {"in", "stall"}
    BY <2>1, <2>3, <2>4 DEF Replied
  <2> QED  BY <2>5, <2>6, <2>7
<1>9. CASE /\ t = "data" /\ m >= 1 /\ AtData(m, e) /\ AtData(m - 1, e)'
           /\ m <= disk.remain_len /\ (e = 1 => m = disk.remain_len)
           /\ (e = 0 => m < disk.remain_len)
           /\ disk'.remain_len = disk.remain_len - 1
  <2> DEFINE n == disk'.remain_len
  <2>1. /\ m \in Nat \ {0} /\ m - 1 \in Nat /\ n \in Nat /\ n = disk.remain_len - 1
        /\ disk.remain_len > 0
    BY <1>2, <1>9
  <2>2. \/ Offers(disk.remain_len, port.gen, call.cmd.lun, call.at - m + 1)
        \/ dev.phase = "stall"
    BY <1>5, <1>9, <2>1 DEF DataHolds
  <2>3. PICK g \in Nat, l \in {0, 1}, at \in Nat :
           g = port.gen /\ l = call.cmd.lun /\ at = call.at
    BY <1>2
  <2>4. PICK k \in Nat : k = n
    BY <2>1
  <2>5. /\ Offers(disk.remain_len, g, l, at - m + 1) \/ dev.phase = "stall"
        /\ k = disk.remain_len - 1 /\ m <= disk.remain_len /\ Moves("data", o)
        /\ TypeOK /\ ~Writing /\ call.num = 1 /\ o.ok /\ m \in Nat \ {0}
    BY <1>0, <1>1, <1>3, <1>9, <2>1, <2>2, <2>3, <2>4
  <2>6. /\ stored' = stored
        /\ k > 0 => /\ dev'.phase = "in" /\ Len(dev'.queue) = k
                    /\ hist.follows => \A i \in 1..k :
                          dev'.queue[i] = Sector(g, l, at - (m - 1) + 1 + i - 1)
        /\ k = 0 => dev'.phase = "csw"
        /\ m = 1 /\ hist.follows /\ (k = 0 => dev'.status = 0) =>
              call'.got = <<Sector(g, l, at)>>
    <3>1. Read(o, m, k, g, l, at)
      BY <2>5, LargeData
    <3> QED  BY <3>1 DEF Read
  <2>7. port'.gen = g /\ call'.cmd.lun = l /\ call'.at = at /\ disk'.remain_len = k
    BY <1>0, <2>3, <2>4
  <2>8. disk'.remain_len > 0 =>
           Offers(disk.remain_len, port.gen, call.cmd.lun, call.at - (m - 1) + 1)'
    BY <1>0, <2>6, <2>7 DEF Offers, Sector
  <2>9. disk'.remain_len = 0 => e = 1 /\ dev'.phase = "csw"
    BY <1>2, <1>9, <2>1, <2>6, <2>7
  <2>10. ASSUME m - 1 = 0, hist'.follows, NoError(e)'
         PROVE  call'.got = <<Sector(port.gen, call.cmd.lun, call.at)>>'
    <3>1. k = 0 => dev'.status = 0
      BY <2>7, <2>9, <2>10 DEF NoError
    <3>2. call'.got = <<Sector(g, l, at)>>
      BY <1>0, <2>1, <2>6, <2>10, <3>1
    <3> QED  BY <2>6, <2>7, <3>2 DEF Sector
  <2>11. DataHolds(m - 1, e)'
    BY <2>8, <2>9, <2>10 DEF DataHolds
  <2> QED  BY <1>4, <1>9, <2>1, <2>11 DEF LargeCleanRule
<1>10. CASE t = "csw" /\ m = 0 /\ e = 1 /\ AtData(0, 1) /\ AtData(0, 0)'
            /\ disk.remain_len = 0 /\ disk'.remain_len = 0
  <2>1. DataHolds(0, 1)
    BY <1>5, <1>10
  <2>2. CswOutcome(o)
    BY <1>0, <1>10, CswComesTo
  <2>3. dev.phase = "csw"
    BY <1>10, <2>1 DEF DataHolds
  <2>4. dev' = DevIdle /\ o.status = dev.status
    BY <1>0, <1>3, <2>2, <2>3 DEF CswOutcome
  <2>5. call'.csw = o.status /\ call'.got = call.got
    BY <1>3, <1>10 DEF Moves, After
  <2>6. stored' = stored
    BY <1>10, SameStored
  <2>7. DataHolds(0, 0)'
    <3>1. ASSUME hist'.follows, call'.csw = 0
          PROVE  call'.got = <<Sector(port.gen, call.cmd.lun, call.at)>>'
      <4>1. call.got = <<Sector(port.gen, call.cmd.lun, call.at)>>
        BY <1>0, <2>1, <2>4, <2>5, <3>1 DEF DataHolds, NoError
      <4> QED  BY <1>0, <2>5, <2>6, <4>1 DEF Sector
    <3> QED  BY <1>10, <2>4, <3>1 DEF DataHolds, NoError, DevIdle
  <2> QED  BY <1>4, <1>10, <2>7 DEF LargeCleanRule
<1> QED  BY <1>3, <1>6, <1>7, <1>8, <1>9, <1>10 DEF LargeStep

\* A transfer keeps the invariant.
LEMMA TransferKeeps ==
    ASSUME IInv, Transfer
    PROVE  IInv'
<1>0. /\ TypeOK /\ SmallShape /\ LargeShape
      /\ WriteInv
  BY DEF IInv
<1>1. PICK o : Moves(Head(call.todo), o)
  BY TransferStep DEF Moves
<1> DEFINE t == Head(call.todo)
<1>2. Moves(t, o)
  BY <1>1
<1> HIDE DEF t
<1>3. /\ Active /\ Active' /\ (Large' <=> Large) /\ (Writing' <=> Writing)
      /\ (~Large => disk'.remain_len = disk.remain_len)
  BY <1>0, <1>2, SameCall DEF Moves
<1>4. PortInv' /\ StatusInv' /\ RoundInv' /\ LunInv' /\ RestInv'
  BY <1>2, SamePlace
<1>5. TrustInv'
  BY <1>2, KeptTrust
<1>6. disk.remain_len \in Nat /\ call.k \in Nat
  BY <1>0 DEF TypeOK, Disks, Calls
<1>7. CASE ~Large
  <2>1. TypeOK'
    BY <1>2, <1>3, <1>6, <1>7, MovedTypes, SmallNotes
  <2>2. SmallShape'
    BY <1>0, <1>2, <1>7, SmallMoves
  <2>3. AnswerInv'
    BY <1>2, <1>7, SmallAnswer
  <2>4. SmallClean'
    BY <1>2, <1>7, SmallStays
  <2>5. WriteInv'
    BY <1>2, <1>7, SmallWrites
  <2>6. LargeShape' /\ LargeClean'
    BY <1>3, <1>7 DEF LargeShape, LargeClean
  <2> QED  BY <1>4, <1>5, <2>1, <2>2, <2>3, <2>4, <2>5, <2>6 DEF IInv
<1>8. CASE Large
  <2>1. /\ LargeShape'
        /\ \E d \in Nat, m \in Nat, e \in {0, 1} : LargeStep(t, o, d, m, e)
    BY <1>0, <1>2, <1>8, LargeMoves
  <2>2. PICK d \in Nat, m \in Nat, e \in {0, 1} : LargeStep(t, o, d, m, e)
    BY <2>1
  <2>3. disk'.remain_len \in Nat
    BY <1>6, <2>2 DEF LargeStep
  <2>4. TypeOK'
    BY <1>2, <1>8, <2>3, MovedTypes
  <2>5. LargeClean'
    BY <1>2, <1>8, <2>2, <2>4, LargeStays
  <2>6. ~Writing'
    BY <1>0, <1>3, <1>8 DEF LargeShape, Reading, Writing
  <2>7. SmallShape' /\ AnswerInv' /\ SmallClean' /\ WriteInv'
    BY <1>3, <1>8, <2>6 DEF SmallShape, AnswerInv, SmallClean, WriteInv
  <2> QED  BY <1>4, <1>5, <2>1, <2>4, <2>5, <2>7 DEF IInv
<1> QED  BY <1>7, <1>8

-----------------------------------------------------------------------------
(* Where calls begin and end.                                               *)

\* No call that talks to the device is under way.
AtRest == call \in {Idle, Looping, Spin}

\* The three calls in which nothing is under way.
LEMMA RestTypes ==
    /\ Idle \in Calls /\ Looping \in Calls /\ Spin \in Calls
    /\ Idle.cmd.op = "none" /\ Looping.cmd.op = "init" /\ Spin.cmd.op = "spin"
    /\ \A c \in {Idle, Looping, Spin} :
          c.todo = <<>> /\ c.failed = FALSE /\ c.who = "app" /\ c.k = 0
<1>1. NoCmd \in Cmds /\ NoCmd.op = "none"
  BY DEF NoCmd, Cmds, Ops
<1>2. <<>> \in Seq(Kinds) /\ <<>> \in Seq(Items)
  BY EmptySeq
<1>3. Idle \in Calls /\ Idle.cmd = NoCmd /\ Idle.todo = <<>> /\ Idle.failed = FALSE
      /\ Idle.who = "app" /\ Idle.k = 0
  BY <1>1, <1>2 DEF Idle, Calls
<1>4. ASSUME NEW op \in Ops
      PROVE  LET c == [Idle EXCEPT !.cmd.op = op]
             IN  c \in Calls /\ c.cmd.op = op /\ c.todo = <<>> /\ c.failed = FALSE
                 /\ c.who = "app" /\ c.k = 0
  <2> DEFINE d == [Idle.cmd EXCEPT !.op = op]
             c == [Idle EXCEPT !.cmd = d]
  <2>1. d \in Cmds /\ d.op = op
    BY <1>1, <1>3, <1>4 DEF Cmds
  <2> HIDE DEF d
  <2>2. c \in Calls /\ c.cmd = d /\ c.todo = <<>> /\ c.failed = FALSE
        /\ c.who = "app" /\ c.k = 0
    BY <1>3, <2>1 DEF Calls
  <2>3. c = [Idle EXCEPT !.cmd.op = op]
    BY DEF d
  <2> QED  BY <2>1, <2>2, <2>3
<1>5. "init" \in Ops /\ "spin" \in Ops
  BY DEF Ops
<1>6. /\ Looping \in Calls /\ Looping.cmd.op = "init" /\ Looping.todo = <<>>
      /\ Looping.failed = FALSE /\ Looping.who = "app" /\ Looping.k = 0
  BY <1>4, <1>5 DEF Looping
<1>7. /\ Spin \in Calls /\ Spin.cmd.op = "spin" /\ Spin.todo = <<>>
      /\ Spin.failed = FALSE /\ Spin.who = "app" /\ Spin.k = 0
  BY <1>4, <1>5 DEF Spin
<1> QED  BY <1>1, <1>3, <1>6, <1>7

\* At rest nothing is asked of the device.
AtRestRule ==
    AtRest => /\ ~Active /\ call \in Calls
              /\ SmallShape /\ AnswerInv /\ TrustInv /\ SmallClean /\ WriteInv
              /\ LargeShape /\ LargeClean
              /\ (Spinning <=> call = Spin) /\ (call = Idle <=> call.cmd.op = "none")
              /\ (call = Looping <=> call.cmd.op = "init")

\* When nothing is under way most of the invariant says nothing.
LEMMA Resting == AtRestRule
<1> SUFFICES ASSUME AtRest
             PROVE  /\ ~Active /\ call \in Calls
                    /\ SmallShape /\ AnswerInv /\ TrustInv /\ SmallClean /\ WriteInv
                    /\ LargeShape /\ LargeClean
                    /\ (Spinning <=> call = Spin) /\ (call = Idle <=> call.cmd.op = "none")
                    /\ (call = Looping <=> call.cmd.op = "init")
  BY DEF AtRestRule
<1>1. call \in {Idle, Looping, Spin}
  BY DEF AtRest
<1>2. call.cmd.op \in {"none", "init", "spin"} /\ call.todo = <<>> /\ call \in Calls
  BY <1>1, RestTypes
<1>3. ~Active
  BY <1>2 DEF Active, Plain
<1>4. /\ SmallShape /\ AnswerInv /\ SmallClean /\ WriteInv
      /\ LargeShape /\ LargeClean
  BY <1>3 DEF SmallShape, AnswerInv, SmallClean, WriteInv, LargeShape, LargeClean
<1>5. TrustInv
  BY <1>2, <1>3 DEF TrustInv
<1>6. /\ (Spinning <=> call = Spin) /\ (call = Idle <=> call.cmd.op = "none")
      /\ (call = Looping <=> call.cmd.op = "init")
  BY <1>1, RestTypes DEF Spinning
<1> QED  BY <1>2, <1>3, <1>4, <1>5, <1>6

\* A command that begins, or a read or write of whole blocks.
Fresh ==
    /\ TypeOK /\ Active /\ ~Large /\ call.num >= 1 /\ ~call.failed
    /\ call.trusted <=> hist.clean
    /\ \/ AtCbw(0, 1) /\ call.cmd.op = "TEST_UNIT_READY"
       \/ AtCbw(1, 1) /\ call.cmd.op # "TEST_UNIT_READY"
    /\ call.who = "app" => call.at = call.cmd.lba /\ call.num = call.cmd.num
    /\ call.who # "app" => call.num = 1
    /\ Writing => call.who = "app"
    /\ hist.clean =>
          /\ dev = DevIdle \/ (call.who # "app" /\ dev.phase = "in")
          /\ \/ disk.remain_len = 0
             \/ /\ call.who = "ioctl" /\ call.cmd.op # "TEST_UNIT_READY"
                /\ dev.phase = "in"

FreshRule ==
    Fresh => /\ SmallShape /\ AnswerInv /\ TrustInv /\ SmallClean /\ WriteInv
             /\ LargeShape /\ LargeClean /\ RestInv

\* When a command is about to begin its CBW is the place it is at.
LEMMA Freshly == FreshRule
<1> SUFFICES ASSUME Fresh
             PROVE  /\ SmallShape /\ AnswerInv /\ TrustInv /\ SmallClean /\ WriteInv
                    /\ LargeShape /\ LargeClean /\ RestInv
  BY DEF FreshRule
<1>1. call.todo \in Seq(Kinds)
  BY DEF Fresh, TypeOK, Calls
<1>2. ~AtData(1, 1) /\ ~AtData(0, 1) /\ ~AtData(0, 0)
  BY <1>1, Places DEF Fresh, AtData, AtCbw
<1>3. SmallShape
  BY DEF Fresh, SmallShape
<1>4. AnswerInv /\ SmallClean
  <2>1. \A e \in {0, 1} : ~AtData(0, e)
    BY <1>2
  <2> QED  BY <1>2, <2>1 DEF Fresh, AnswerInv, SmallClean
<1>5. TrustInv
  BY DEF Fresh, TrustInv
<1>6. WriteInv
  BY <1>2 DEF Fresh, WriteInv
<1>7. LargeShape /\ LargeClean
  BY DEF Fresh, LargeShape, LargeClean
<1>8. RestInv
  <2>1. call # Idle /\ call # Looping
    BY RestTypes DEF Fresh, Active, Plain
  <2> QED  BY <2>1 DEF RestInv
<1> QED  BY <1>3, <1>4, <1>5, <1>6, <1>7, <1>8

\* A command as it begins.
Commands(c, who, op, l) ==
    /\ c \in Calls /\ c.who = who /\ c.cmd.op = op /\ c.cmd.lun = l
    /\ c.k = 0 /\ c.num = 1 /\ c.failed = FALSE
    /\ c.trusted = hist.clean
    /\ FromCbw(c.todo, IF op = "TEST_UNIT_READY" THEN 0 ELSE 1, 1)

\* A command that moves no blocks.
LEMMA CommandFields ==
    ASSUME TypeOK, NEW who \in {"app", "init", "ioctl"}, NEW op \in Plain, NEW l \in {0, 1}
    PROVE  Commands(Command(who, op, l), who, op, l)
<1> DEFINE n == IF op = "TEST_UNIT_READY" THEN 0 ELSE 1
           w == Exchange(n)
           d == [NoCmd EXCEPT !.op = op, !.lun = l]
           c == [Idle EXCEPT !.who = who, !.cmd = d, !.num = 1, !.todo = w,
                             !.trusted = hist.clean]
<1>1. w \in Seq(Kinds) /\ FromCbw(w, n, 1)
  <2>1. n \in Nat
    OBVIOUS
  <2> HIDE DEF n
  <2> QED  BY <2>1, WholeExchange
<1>2. d \in Cmds /\ d.op = op /\ d.lun = l
  BY DEF NoCmd, Cmds, Ops
<1>3. hist.clean \in BOOLEAN
  BY DEF TypeOK
<1>4. Command(who, op, l) = c
  BY DEF Command
<1> HIDE DEF w, d, n
<1>5. /\ c \in Calls /\ c.who = who /\ c.cmd = d /\ c.k = 0 /\ c.num = 1
      /\ c.failed = FALSE /\ c.trusted = hist.clean /\ c.todo = w
  <2>1. Idle \in Calls /\ Idle.k = 0 /\ Idle.failed = FALSE
    BY RestTypes
  <2> QED  BY <1>1, <1>2, <1>3, <2>1 DEF Calls
<1> HIDE DEF c
<1> QED  BY <1>1, <1>2, <1>4, <1>5 DEF n, Commands

\* A read or write as it begins.
Accesses(c, op, lba, n) ==
    /\ c \in Calls /\ c.who = "app" /\ c.cmd.op = op
    /\ c.cmd.lun = disk.curlun /\ c.cmd.lba = lba /\ c.cmd.num = n
    /\ c.at = lba /\ c.num = n /\ c.k = 0 /\ c.failed = FALSE
    /\ c.trusted = hist.clean /\ FromCbw(c.todo, 1, 1)

\* A read or write of small blocks.
LEMMA AccessFields ==
    ASSUME TypeOK, NEW op \in {"READ_10", "WRITE_10"}, NEW lba \in Nat, NEW n \in Nat
    PROVE  Accesses(Access(op, lba, n), op, lba, n)
<1> DEFINE w == Exchange(1)
           d == [op |-> op, lun |-> disk.curlun, lba |-> lba, num |-> n]
           c == [Idle EXCEPT !.cmd = d, !.at = lba, !.num = n, !.todo = w,
                             !.trusted = hist.clean]
<1>1. w \in Seq(Kinds) /\ FromCbw(w, 1, 1)
  BY WholeExchange
<1>2. d \in Cmds /\ d.op = op /\ d.lun = disk.curlun /\ d.lba = lba /\ d.num = n
  BY DEF TypeOK, Disks, Cmds, Ops
<1>3. hist.clean \in BOOLEAN
  BY DEF TypeOK
<1>4. Access(op, lba, n) = c
  BY DEF Access
<1> HIDE DEF w, d
<1>5. /\ c \in Calls /\ c.who = "app" /\ c.cmd = d /\ c.k = 0 /\ c.num = n /\ c.at = lba
      /\ c.failed = FALSE /\ c.trusted = hist.clean /\ c.todo = w
  <2>1. Idle \in Calls /\ Idle.k = 0 /\ Idle.failed = FALSE /\ Idle.who = "app"
    BY RestTypes
  <2> QED  BY <1>1, <1>2, <1>3, <2>1 DEF Calls
<1> HIDE DEF c
<1> QED  BY <1>1, <1>2, <1>4, <1>5 DEF Accesses

\* A call that waits for ever.
LEMMA Spins ==
    ASSUME call' = Spin, TypeOK', PortInv', ini'.retry <= Retries
    PROVE  IInv'
<1>1. AtRest' /\ AtRestRule'
  <2>1. AtRestRule'
    BY Resting, PTL
  <2>2. (call \in {Idle, Looping, Spin})'
    BY DEF Spin, Idle
  <2> QED  BY <2>1, <2>2 DEF AtRest
<1>2. call'.cmd.op = "spin"
  BY RestTypes
<1>3. /\ ~Active' /\ (call # Idle)' /\ (call # Looping)' /\ Spinning' /\ (call = Spin)'
      /\ SmallShape' /\ AnswerInv' /\ TrustInv' /\ SmallClean' /\ WriteInv'
      /\ LargeShape' /\ LargeClean'
  BY <1>1, <1>2 DEF AtRestRule, Spinning
<1>4. StatusInv'
  BY <1>2, <1>3 DEF StatusInv
<1>5. RoundInv' /\ LunInv' /\ RestInv'
  BY <1>3 DEF RoundInv, LunInv, RestInv
<1> QED  BY <1>3, <1>4, <1>5 DEF IInv

\* A call that is over.
LEMMA Rests ==
    ASSUME call' = Idle, TypeOK', PortInv', LunInv', RestInv', ini'.retry <= Retries,
           disk'.status \in {"IDLE", "CLOSE", "OPEN"}
    PROVE  IInv'
<1>1. AtRest' /\ AtRestRule'
  <2>1. AtRestRule'
    BY Resting, PTL
  <2>2. (call \in {Idle, Looping, Spin})'
    BY DEF Idle
  <2> QED  BY <2>1, <2>2 DEF AtRest
<1>2. call'.cmd.op = "none"
  BY RestTypes
<1>3. /\ ~Active' /\ (call = Idle)' /\ (call # Looping)' /\ ~Spinning'
      /\ SmallShape' /\ AnswerInv' /\ TrustInv' /\ SmallClean' /\ WriteInv'
      /\ LargeShape' /\ LargeClean'
  BY <1>1, <1>2 DEF AtRestRule, Spinning
<1>4. StatusInv'
  BY <1>2, <1>3 DEF StatusInv
<1>5. RoundInv'
  BY <1>3 DEF RoundInv
<1> QED  BY <1>3, <1>4, <1>5 DEF IInv

\* A round of usb_stor_init that is over.
LEMMA Loops ==
    ASSUME call' = Looping, TypeOK', PortInv', RoundInv', LunInv', RestInv',
           disk'.status = "INIT"
    PROVE  IInv'
<1>1. AtRest' /\ AtRestRule'
  <2>1. AtRestRule'
    BY Resting, PTL
  <2>2. (call \in {Idle, Looping, Spin})'
    BY DEF Looping, Idle
  <2> QED  BY <2>1, <2>2 DEF AtRest
<1>2. call'.cmd.op = "init"
  BY RestTypes
<1>3. /\ ~Active' /\ (call # Idle)' /\ (call = Looping)' /\ ~Spinning'
      /\ SmallShape' /\ AnswerInv' /\ TrustInv' /\ SmallClean' /\ WriteInv'
      /\ LargeShape' /\ LargeClean'
  BY <1>1, <1>2 DEF AtRestRule, Spinning
<1>4. StatusInv'
  BY <1>2, <1>3 DEF StatusInv
<1> QED  BY <1>3, <1>4 DEF IInv

\* A call that begins.
LEMMA Begins ==
    ASSUME Fresh', PortInv', StatusInv', RoundInv', LunInv'
    PROVE  IInv'
<1>1. FreshRule'
  BY Freshly, PTL
<1>2. TypeOK'
  BY DEF Fresh
<1>3. /\ SmallShape' /\ AnswerInv' /\ TrustInv' /\ SmallClean' /\ WriteInv'
      /\ LargeShape' /\ LargeClean' /\ RestInv'
  BY <1>1 DEF FreshRule
<1> QED  BY <1>2, <1>3 DEF IInv

\* What there is between calls.
LEMMA Between ==
    ASSUME IInv, call = Idle
    PROVE  /\ TypeOK /\ PortInv /\ LunInv /\ RestInv
           /\ ~Spinning /\ ini.retry <= Retries
           /\ disk.status \in {"IDLE", "CLOSE", "OPEN"}
           /\ Usable => disk.status = "OPEN" /\ disk.curlun <= disk.lun /\ port.mounted
           /\ hist.clean => dev = DevIdle \/ dev.phase = "in"
           /\ hist.clean /\ Usable =>
                 /\ disk.remain_len = 0 => dev = DevIdle
                 /\ disk.remain_len > 0 =>
                       /\ Opened.k > 1 /\ dev.phase = "in"
                       /\ Offers(disk.remain_len, hist.opened, disk.curlun, disk.prev_lba + 1)
<1>1. TypeOK /\ PortInv /\ StatusInv /\ RoundInv /\ LunInv /\ RestInv
  BY DEF IInv
<1>2. ~Spinning
  BY RestTypes DEF Spinning
<1>3. disk.status \in {"IDLE", "CLOSE", "OPEN"} /\ ini.retry <= Retries
  BY <1>1 DEF StatusInv, RoundInv
<1>4. Usable => disk.status = "OPEN" /\ disk.curlun <= disk.lun /\ port.mounted
  BY <1>1, <1>2, <1>3 DEF Usable, LunInv, PortInv
<1>5. /\ hist.clean => dev = DevIdle \/ dev.phase = "in"
      /\ hist.clean /\ disk.status = "OPEN" =>
            /\ disk.remain_len = 0 => dev = DevIdle
            /\ disk.remain_len > 0 =>
                  /\ Opened.k > 1
                  /\ Offers(disk.remain_len, hist.opened, disk.curlun, disk.prev_lba + 1)
  BY <1>1 DEF RestInv
<1>6. \A n, g, l, s : Offers(n, g, l, s) => dev.phase = "in"
  BY DEF Offers
<1> QED  BY <1>1, <1>2, <1>3, <1>4, <1>5, <1>6

-----------------------------------------------------------------------------
(* The calls of the application.                                            *)

\* The port is left alone, and the disk is as open as it was.
LEMMA SamePort ==
    ASSUME PortInv, ~Spinning, port' = port, dev' = dev, hist'.opened = hist.opened,
           Usable' => Usable
    PROVE  PortInv'
BY DEF PortInv

\* usb_stor_read and usb_stor_write, with blocks of one sector.
LEMMA AccessKeeps ==
    ASSUME IInv, NEW op \in {"READ_10", "WRITE_10"}, NEW st \in {"READ", "WRITE"},
           NEW lba \in 0..MaxLba, NEW n \in 1..MaxNum,
           call = Idle, Usable, Opened.k <= 1, Pend(Access(op, lba, n)),
           disk' = [disk EXCEPT !.status = st],
           port' = port, dev' = dev, stored' = stored, ini' = ini, hist' = hist
    PROVE  IInv'
<1>1. /\ TypeOK /\ PortInv /\ LunInv /\ ~Spinning /\ ini.retry <= Retries
      /\ disk.curlun <= disk.lun
      /\ hist.clean => dev = DevIdle /\ disk.remain_len = 0
  <2>1. Opened.k \in Nat /\ disk.remain_len \in Nat
    BY Between DEF Opened, TypeOK, Disks, Caps
  <2>2. ~(Opened.k > 1)
    BY <2>1
  <2> QED  BY <2>1, <2>2, Between
<1>2. disk' \in Disks /\ disk'.lun = disk.lun /\ disk'.curlun = disk.curlun
      /\ disk'.remain_len = disk.remain_len /\ disk'.prev_lba = disk.prev_lba
      /\ disk'.status = st
  BY <1>1 DEF TypeOK, Disks
<1>3. PortInv'
  BY <1>1, SamePort
<1>4. (call' = Spin \/ call' = Access(op, lba, n)) /\ mutex' \in {0, 1}
  BY <1>1 DEF Pend, TypeOK
<1>5. lba \in Nat /\ n \in Nat /\ n >= 1
  BY UsbStorageAssumption
<1> DEFINE c == Access(op, lba, n)
<1>6. /\ c \in Calls /\ c.who = "app" /\ c.cmd.op = op
      /\ c.cmd.lun = disk.curlun /\ c.cmd.lba = lba /\ c.cmd.num = n
      /\ c.at = lba /\ c.num = n /\ c.k = 0 /\ c.failed = FALSE
      /\ c.trusted = hist.clean /\ FromCbw(c.todo, 1, 1)
  <2>1. Accesses(c, op, lba, n)
    BY <1>1, <1>5, AccessFields
  <2> QED  BY <2>1 DEF Accesses
<1>7. TypeOK'
  BY <1>1, <1>2, <1>4, <1>6, RestTypes DEF TypeOK
<1> HIDE DEF c
<1>8. CASE call' = Spin
  BY <1>1, <1>3, <1>7, <1>8, Spins
<1>9. CASE call' = Access(op, lba, n)
  <2>1. call' = c
    BY <1>9 DEF c
  <2>2. mutex' = 0
    <3>1. c # Spin
      BY <1>6, RestTypes
    <3> QED  BY <1>9, <3>1 DEF Pend, c
  <2>3. Active' /\ ~Large' /\ ~Spinning'
    BY <1>6, <2>1 DEF Active, Large, Spinning
  <2>4. Fresh'
    BY <1>1, <1>2, <1>5, <1>6, <1>7, <2>1, <2>3 DEF Fresh, AtCbw, Plain, DevIdle
  <2>5. StatusInv'
    BY <1>2, <1>6, <2>1, <2>2, <2>3, RestTypes DEF StatusInv
  <2>6. RoundInv'
    BY <1>1, <1>6, <2>1, RestTypes DEF RoundInv
  <2>7. LunInv'
    BY <1>1, <1>2, <1>6, <2>1, <2>3, RestTypes DEF LunInv, Medium
  <2> QED  BY <1>3, <2>4, <2>5, <2>6, <2>7, Begins
<1> QED  BY <1>4, <1>8, <1>9

\* The block of a sector.
LEMMA Blocks ==
    ASSUME NEW lba \in Nat, NEW k \in Nat \ {0}
    PROVE  lba % k \in 0..(k - 1) /\ lba - (lba % k) \in Nat
<1>1. lba % k \in 0..(k - 1)
  OBVIOUS
<1>2. CASE lba < k
  <2>1. lba % k = lba
    BY <1>2
  <2> QED  BY <1>1, <2>1
<1>3. CASE lba >= k
  BY <1>1, <1>3
<1> QED  BY <1>2, <1>3

\* A read in a large block as it begins.
BigCall(lba, k, w) ==
    [Access("READ_10", lba - (lba % k), k) EXCEPT
         !.at = lba, !.num = 1, !.k = k, !.todo = w]

Bigs(c, lba, off, k, w) ==
    /\ c \in Calls /\ c.who = "app" /\ c.cmd.op = "READ_10"
    /\ c.cmd.lun = disk.curlun /\ c.cmd.lba = lba - off /\ c.cmd.num = k
    /\ c.at = lba /\ c.num = 1 /\ c.k = k /\ c.failed = FALSE
    /\ c.trusted = hist.clean /\ c.todo = w

\* Its fields.
LEMMA BigFields ==
    ASSUME TypeOK, NEW lba \in Nat, NEW k \in Nat \ {0}, NEW w \in Seq(Kinds)
    PROVE  Bigs(BigCall(lba, k, w), lba, lba % k, k, w)
<1> DEFINE b == Access("READ_10", lba - (lba % k), k)
           c == BigCall(lba, k, w)
<1>1. Accesses(b, "READ_10", lba - (lba % k), k)
  <2>1. lba - (lba % k) \in Nat
    BY Blocks
  <2> HIDE DEF b
  <2>2. \A a \in Nat : Accesses(Access("READ_10", a, k), "READ_10", a, k)
    BY AccessFields
  <2> QED  BY <2>1, <2>2 DEF b
<1>2. c = [b EXCEPT !.at = lba, !.num = 1, !.k = k, !.todo = w]
  BY DEF BigCall
<1> HIDE DEF b, c
<1>3. b \in Calls
  BY <1>1 DEF Accesses
<1>4. /\ c \in Calls /\ c.who = b.who /\ c.cmd = b.cmd /\ c.failed = b.failed
      /\ c.trusted = b.trusted /\ c.at = lba /\ c.num = 1 /\ c.k = k /\ c.todo = w
  BY <1>2, <1>3 DEF Calls
<1>5. Bigs(c, lba, lba % k, k, w)
  BY <1>1, <1>4 DEF Accesses, Bigs
<1> QED  BY <1>5 DEF c

\* What _usb_stor_read_big_block has left to do.
BigTodo(lba, k) ==
    IF Asks(lba, k)
    THEN Drain(disk.remain_len) \o <<"cbw">> \o Times("data", (lba % k) + 1)
             \o Close(k - (lba % k) - 1)
    ELSE <<"data">> \o Close(disk.remain_len - 1)

\* Where it begins: e = 1 if the CSW is read.
BigPlace(w, asks, r, off, k, e) ==
    /\ asks => /\ e = 1 <=> off + 1 = k
               /\ r = 0 => FromCbw(w, off + 1, e)
               /\ r > 0 => FromSkip(w, r, off + 1, e)
    /\ ~asks => (e = 1 <=> r = 1) /\ FromData(w, 1, e)

\* It begins at one of the places.
LEMMA BigShape ==
    ASSUME TypeOK, NEW lba \in Nat, NEW k \in Nat \ {0}
    PROVE  /\ BigTodo(lba, k) \in Seq(Kinds)
           /\ \E e \in {0, 1} : BigPlace(BigTodo(lba, k), Asks(lba, k), disk.remain_len,
                                         lba % k, k, e)
<1> DEFINE r == disk.remain_len
           off == lba % k
           asks == Asks(lba, k)
<1>1. r \in Nat
  BY DEF TypeOK, Disks
<1>2. off \in 0..(k - 1) /\ off + 1 \in Nat /\ k - off - 1 \in Nat
  <2>1. off \in 0..(k - 1)
    BY Blocks
  <2> HIDE DEF off
  <2> QED  BY <2>1
<1>3. CASE asks
  <2> DEFINE w == Drain(r) \o <<"cbw">> \o Times("data", off + 1) \o Close(k - off - 1)
             e == IF k - off - 1 = 0 THEN 1 ELSE 0
  <2>1. BigTodo(lba, k) = w
    BY <1>3 DEF BigTodo
  <2>2. /\ w \in Seq(Kinds) /\ (r = 0 => FromCbw(w, off + 1, e))
        /\ (r > 0 => FromSkip(w, r, off + 1, e))
    <3> HIDE DEF r, off
    <3>1. r \in Nat /\ off + 1 \in Nat /\ k - off - 1 \in Nat
      BY <1>1, <1>2
    <3> QED  BY <3>1, AskingRead
  <2>3. e \in {0, 1} /\ (e = 1 <=> off + 1 = k)
    <3> HIDE DEF off
    <3> QED  BY <1>2
  <2> HIDE DEF w, e, r, off, asks
  <2>4. BigPlace(w, asks, r, off, k, e)
    BY <1>3, <2>2, <2>3 DEF BigPlace
  <2> QED  BY <2>1, <2>2, <2>3, <2>4 DEF r, off, asks
<1>4. CASE ~asks
  <2> DEFINE w == <<"data">> \o Close(r - 1)
             e == IF r - 1 = 0 THEN 1 ELSE 0
  <2>1. BigTodo(lba, k) = w
    BY <1>4 DEF BigTodo
  <2>2. r # 0 /\ r - 1 \in Nat
    BY <1>1, <1>4 DEF Asks
  <2>3. w \in Seq(Kinds) /\ FromData(w, 1, e)
    <3> HIDE DEF r
    <3> QED  BY <2>2, ContinuedRead
  <2>4. e \in {0, 1} /\ (e = 1 <=> r = 1)
    BY <1>1
  <2> HIDE DEF w, e, r, off, asks
  <2>5. BigPlace(w, asks, r, off, k, e)
    BY <1>4, <2>3, <2>4 DEF BigPlace
  <2> QED  BY <2>1, <2>3, <2>4, <2>5 DEF r, off, asks
<1> QED  BY <1>3, <1>4

\* _usb_stor_read_big_block, once it has the mutex.
LEMMA BigBegins ==
    ASSUME IInv, NEW lba \in Nat, NEW k \in Nat \ {0}, call = Idle, Usable, k = Opened.k, k > 1,
           call' = BigCall(lba, k, BigTodo(lba, k)), mutex' = 0,
           disk' \in Disks, disk'.lun = disk.lun, disk'.curlun = disk.curlun,
           disk'.capacity = disk.capacity, disk'.prev_lba = lba,
           disk'.remain_len = (IF Asks(lba, k) THEN 0 ELSE disk.remain_len),
           disk'.status \in {"OPEN", "READ"},
           hist' \in [clean : BOOLEAN, follows : BOOLEAN, opened : Nat],
           hist'.clean = hist.clean, hist'.opened = hist.opened,
           hist'.follows => Asks(lba, k) \/ (hist.follows /\ lba = disk.prev_lba + 1),
           port' = port, dev' = dev, stored' = stored, ini' = ini
    PROVE  IInv'
<1>1. /\ TypeOK /\ PortInv /\ LunInv /\ ~Spinning /\ ini.retry <= Retries
      /\ disk.curlun <= disk.lun /\ disk.remain_len \in Nat
      /\ hist.opened = port.gen
  BY Between DEF PortInv, TypeOK, Disks
<1>2. /\ hist.clean /\ disk.remain_len = 0 => dev = DevIdle
      /\ hist.clean /\ disk.remain_len > 0 =>
            dev.phase = "in" /\ Offers(disk.remain_len, port.gen, disk.curlun, disk.prev_lba + 1)
  BY <1>1, Between
<1>3. /\ BigTodo(lba, k) \in Seq(Kinds)
      /\ \E e \in {0, 1} :
            BigPlace(BigTodo(lba, k), Asks(lba, k), disk.remain_len, lba % k, k, e)
      /\ lba % k \in 0..(k - 1) /\ lba - (lba % k) \in Nat
  BY <1>1, BigShape, Blocks
<1>4. PICK w \in Seq(Kinds), e \in {0, 1}, r \in Nat, off \in 0..(k - 1), asks \in BOOLEAN :
         /\ w = BigTodo(lba, k) /\ r = disk.remain_len /\ off = lba % k
         /\ asks <=> Asks(lba, k)
         /\ BigPlace(w, asks, r, off, k, e) /\ lba - off \in Nat
  <2>1. PICK e \in {0, 1} :
            BigPlace(BigTodo(lba, k), Asks(lba, k), disk.remain_len, lba % k, k, e)
    BY <1>3
  <2>2. Asks(lba, k) \in BOOLEAN
    BY DEF Asks
  <2> DEFINE t == BigTodo(lba, k)
             b == lba % k
             a == Asks(lba, k)
  <2>3. /\ t \in Seq(Kinds) /\ b \in 0..(k - 1) /\ a \in BOOLEAN
        /\ BigPlace(t, a, disk.remain_len, b, k, e) /\ lba - b \in Nat
    BY <1>3, <2>1, <2>2
  <2> HIDE DEF t, b, a
  <2>4. PICK f \in {0, 1}, r \in Nat : f = e /\ r = disk.remain_len
    BY <1>1
  <2>5. BigPlace(t, a, r, b, k, f)
    BY <2>3, <2>4
  <2> QED  BY SMTT(30), <2>3, <2>4, <2>5 DEF t, b, a
<1>5. Bigs(call', lba, off, k, w)
  BY <1>1, <1>4, BigFields
<1>6. /\ call' \in Calls /\ call'.who = "app" /\ call'.cmd.op = "READ_10"
      /\ call'.cmd.lun = disk.curlun /\ call'.cmd.lba = lba - off /\ call'.cmd.num = k
      /\ call'.at = lba /\ call'.num = 1 /\ call'.k = k /\ call'.failed = FALSE
      /\ call'.trusted = hist.clean /\ call'.todo = w
  BY <1>5 DEF Bigs
<1>7. Active' /\ Large' /\ Reading' /\ ~Writing' /\ ~Spinning'
  BY <1>6 DEF Active, Large, Reading, Writing, Spinning
<1>8. PortInv'
  BY <1>1, SamePort
<1>9. TypeOK'
  BY <1>1, <1>6 DEF TypeOK
<1>10. StatusInv'
  BY <1>6, <1>7, RestTypes DEF StatusInv
<1>11. RoundInv'
  BY <1>1, <1>6, RestTypes DEF RoundInv
<1>12. LunInv'
  BY <1>1, <1>6, <1>7, RestTypes DEF LunInv, Medium
<1>13. /\ SmallShape' /\ AnswerInv' /\ SmallClean' /\ WriteInv' /\ TrustInv'
  BY <1>6, <1>7 DEF SmallShape, AnswerInv, SmallClean, WriteInv, TrustInv
<1>14. RestInv'
  BY <1>6, RestTypes DEF RestInv
<1>15. PICK m \in Nat : m = IF asks THEN off + 1 ELSE 1
  OBVIOUS
<1>16. m >= 1 /\ (~asks => r > 0 /\ m = 1) /\ (asks => m = lba - (lba - off) + 1 /\ m <= k)
  <2>1. ~asks => r > 0
    BY <1>4 DEF Asks
  <2>2. lba \in Nat /\ off \in Nat /\ k \in Nat /\ off + 1 <= k
    BY <1>4
  <2>3. asks => m = off + 1
    BY <1>15
  <2>4. ~asks => m = 1
    BY <1>15
  <2>5. off + 1 = lba - (lba - off) + 1
    BY <2>2
  <2> QED  BY <2>1, <2>2, <2>3, <2>4, <2>5
<1>17. /\ asks => /\ e = 1 <=> m = k
                  /\ r = 0 => FromCbw(w, m, e)
                  /\ r > 0 => FromSkip(w, r, m, e)
       /\ ~asks => (e = 1 <=> r = 1) /\ FromData(w, m, e)
  BY <1>4, <1>15 DEF BigPlace
<1>18. /\ Len(w) \in Nat /\ m \in 0..Len(w)
       /\ r > 0 /\ asks => r \in 0..Len(w)
  <2>1. Len(w) \in Nat
    BY <1>4
  <2>2. CASE asks /\ r = 0
    BY <1>17, <2>1, <2>2 DEF FromCbw, Ends
  <2>3. CASE asks /\ r > 0
    BY <1>17, <2>1, <2>3 DEF FromSkip, Ends
  <2>4. CASE ~asks
    BY <1>17, <2>1, <2>4 DEF FromData, Ends
  <2> QED  BY <2>2, <2>3, <2>4
<1>19. disk'.remain_len = IF asks THEN 0 ELSE r
  BY <1>4
<1>20. LargeShape'
  <2>1. Opened' = Opened
    BY DEF Opened
  <2>2. \/ /\ AtCbw(m, e)' \/ \E d \in 0..Len(w) : AtSkip(d, m, e)'
           /\ disk'.remain_len = 0
           /\ m = call'.at - call'.cmd.lba + 1 /\ m >= 1 /\ m <= call'.k
           /\ (e = 1 <=> m = call'.k)
        \/ /\ AtData(m, e)'
           /\ m <= disk'.remain_len
           /\ e = 1 => m = disk'.remain_len
           /\ e = 0 /\ m > 0 => m < disk'.remain_len
    <3>1. CASE asks /\ r = 0
      <4>1. AtCbw(m, e)'
        BY <1>6, <1>17, <3>1 DEF AtCbw
      <4> QED  BY <1>6, <1>16, <1>17, <1>19, <3>1, <4>1
    <3>2. CASE asks /\ r > 0
      <4>1. AtSkip(r, m, e)' /\ r \in 0..Len(w)
        BY <1>6, <1>17, <1>18, <3>2 DEF AtSkip
      <4>2. \E d \in 0..Len(w) : AtSkip(d, m, e)'
        BY <4>1
      <4> QED  BY <1>6, <1>16, <1>17, <1>19, <3>2, <4>2
    <3>3. CASE ~asks
      <4>1. AtData(m, e)'
        BY <1>6, <1>17, <3>3 DEF AtData
      <4> QED  BY SMTT(30), <1>4, <1>6, <1>16, <1>17, <1>19, <3>3, <4>1
    <3> QED  BY <1>4, <3>1, <3>2, <3>3
  <2>3. \E n \in 0..Len(call'.todo), f \in {0, 1} :
           \/ /\ AtCbw(n, f)' \/ \E d \in 0..Len(call'.todo) : AtSkip(d, n, f)'
              /\ disk'.remain_len = 0
              /\ n = call'.at - call'.cmd.lba + 1 /\ n >= 1 /\ n <= call'.k
              /\ (f = 1 <=> n = call'.k)
           \/ /\ AtData(n, f)'
              /\ n <= disk'.remain_len
              /\ f = 1 => n = disk'.remain_len
              /\ f = 0 /\ n > 0 => n < disk'.remain_len
    BY <1>6, <1>18, <2>2
  <2> QED  BY <1>6, <1>7, <2>1, <2>3 DEF LargeShape
<1>21. LargeClean'
  <2> SUFFICES ASSUME hist'.clean PROVE LargeClean'
    BY DEF LargeClean
  <2>1. LargeCleanRule'
    BY LargeCleanIf, PTL
  <2>2. CASE asks /\ r = 0
    <3>1. AtCbw(m, e)' /\ (dev = DevIdle)'
      BY <1>2, <1>4, <1>6, <1>17, <2>2 DEF AtCbw, DevIdle
    <3> QED  BY <1>9, <2>1, <3>1 DEF LargeCleanRule
  <2>3. CASE asks /\ r > 0
    <3>1. AtSkip(r, m, e)'
      BY <1>6, <1>17, <2>3 DEF AtSkip
    <3>2. SkipHolds(r)'
      BY <1>2, <1>4, <2>3 DEF SkipHolds, Offers
    <3> QED  BY <1>9, <2>1, <3>1, <3>2 DEF LargeCleanRule
  <2>4. CASE ~asks
    <3>1. AtData(m, e)'
      BY <1>6, <1>17, <2>4 DEF AtData
    <3>2. r > 0 /\ m = 1 /\ disk'.remain_len = r
      BY <1>16, <1>19, <2>4
    <3>3. Offers(r, port.gen, disk.curlun, disk.prev_lba + 1)
      BY <1>2, <1>4, <3>2
    <3>4. (Offers(disk.remain_len, port.gen, call.cmd.lun, call.at - m + 1))'
      <4>1. dev'.phase = "in" /\ Len(dev'.queue) = r
        BY <3>3 DEF Offers
      <4>2. ASSUME hist'.follows, NEW i \in 1..r
            PROVE  dev'.queue[i] = Sector(port.gen, disk.curlun, lba - m + 1 + i - 1)'
        <5>1. hist.follows /\ lba = disk.prev_lba + 1
          BY <1>4, <2>4, <4>2
        <5>2. dev.queue[i] = Sector(port.gen, disk.curlun, disk.prev_lba + 1 + i - 1)
          BY <3>3, <4>2, <5>1 DEF Offers
        <5>3. lba - m + 1 = disk.prev_lba + 1
          BY <3>2, <5>1
        <5> QED  BY <5>2, <5>3 DEF Sector
      <4> QED  BY <1>6, <3>2, <4>1, <4>2 DEF Offers
    <3>5. DataHolds(m, e)'
      BY <3>2, <3>4 DEF DataHolds
    <3> QED  BY <1>9, <2>1, <3>1, <3>5 DEF LargeCleanRule
  <2> QED  BY <1>4, <2>2, <2>3, <2>4
<1> QED  BY <1>8, <1>9, <1>10, <1>11, <1>12, <1>13, <1>14, <1>20, <1>21 DEF IInv

\* _usb_stor_read_big_block.
LEMMA BigKeeps ==
    ASSUME IInv, NEW lba \in 0..MaxLba, _usb_stor_read_big_block(lba)
    PROVE  IInv'
<1>1. /\ call = Idle /\ Usable /\ Opened.k > 1
      /\ port' = port /\ dev' = dev /\ stored' = stored /\ ini' = ini
  BY DEF _usb_stor_read_big_block
<1>2. PICK k \in Nat \ {0} : k = Opened.k /\ k > 1
  <2>1. Opened.k \in Nat
    BY DEF IInv, TypeOK, Disks, Opened, Caps
  <2> QED  BY <1>1, <2>1
<1>3. Pend(BigCall(lba, k, BigTodo(lba, k)))
  BY <1>2 DEF _usb_stor_read_big_block, BigCall, BigTodo
<1>4. /\ disk' = [disk EXCEPT !.prev_lba = lba,
                              !.remain_len = IF Asks(lba, k) THEN 0 ELSE @,
                              !.status = IF Asks(lba, k) THEN "READ" ELSE @]
      /\ hist' = [hist EXCEPT !.follows =
                     Asks(lba, k) \/ (@ /\ lba = disk.prev_lba + 1)]
  BY <1>2 DEF _usb_stor_read_big_block
<1>5. lba \in Nat
  BY UsbStorageAssumption
<1>6. /\ TypeOK /\ PortInv /\ ~Spinning /\ ini.retry <= Retries /\ disk.status = "OPEN"
  BY <1>1, Between
<1>7. Asks(lba, k) \in BOOLEAN
  BY DEF Asks
<1>8. /\ disk' \in Disks /\ disk'.lun = disk.lun /\ disk'.curlun = disk.curlun
      /\ disk'.capacity = disk.capacity /\ disk'.prev_lba = lba
      /\ disk'.remain_len = (IF Asks(lba, k) THEN 0 ELSE disk.remain_len)
      /\ disk'.status \in {"OPEN", "READ"}
  BY <1>4, <1>5, <1>6, <1>7 DEF TypeOK, Disks
<1>9. /\ hist' \in [clean : BOOLEAN, follows : BOOLEAN, opened : Nat]
      /\ hist'.clean = hist.clean /\ hist'.opened = hist.opened
      /\ hist'.follows => Asks(lba, k) \/ (hist.follows /\ lba = disk.prev_lba + 1)
  BY <1>4, <1>6, <1>7 DEF TypeOK
<1>10. CASE mutex = 1
  <2>1. mutex' = 0 /\ call' = BigCall(lba, k, BigTodo(lba, k))
    BY <1>3, <1>10 DEF Pend
  <2> QED  BY <1>1, <1>2, <1>5, <1>8, <1>9, <2>1, BigBegins
<1>11. CASE mutex # 1
  <2>1. mutex' = mutex /\ call' = Spin
    BY <1>3, <1>11 DEF Pend
  <2>2. TypeOK'
    BY <1>1, <1>6, <1>8, <1>9, <2>1, RestTypes DEF TypeOK
  <2>3. PortInv'
    BY <1>1, <1>6, <1>9, SamePort
  <2> QED  BY <1>1, <1>6, <2>1, <2>2, <2>3, Spins
<1> QED  BY <1>10, <1>11

\* A call of the driver that ends: the device waits for a command, or for the next
\* sector of a large block to be asked for.
LEMMA ReadOverKeeps ==
    ASSUME IInv, ReadOver
    PROVE  IInv'
<1>1. /\ call.cmd.op = "READ_10" /\ call.todo = <<>>
      /\ disk' = [disk EXCEPT !.status = IF @ = "CLOSE" THEN @ ELSE "OPEN"]
      /\ mutex' = 1 /\ call' = Idle
      /\ port' = port /\ dev' = dev /\ stored' = stored /\ ini' = ini /\ hist' = hist
  BY DEF ReadOver, Over, Returns
<1>2. /\ TypeOK /\ PortInv /\ StatusInv /\ RoundInv /\ LunInv
      /\ SmallShape /\ SmallClean /\ LargeShape /\ LargeClean
  BY DEF IInv
<1>3. Active /\ Reading /\ ~Writing /\ ~Spinning /\ call.who = "app"
      /\ disk.status \in {"OPEN", "READ", "WRITE"}
  <2>1. Active /\ Reading /\ ~Writing /\ ~Spinning
    BY <1>1 DEF Active, Reading, Writing, Spinning
  <2> QED  BY <1>1, <1>2, <2>1 DEF StatusInv
<1>4. /\ disk' \in Disks /\ disk'.lun = disk.lun /\ disk'.curlun = disk.curlun
      /\ disk'.remain_len = disk.remain_len /\ disk'.prev_lba = disk.prev_lba
      /\ disk'.capacity = disk.capacity /\ disk'.status = "OPEN"
  BY <1>1, <1>2, <1>3 DEF TypeOK, Disks
<1>5. TypeOK'
  BY <1>1, <1>2, <1>4, RestTypes DEF TypeOK
<1>6. Usable /\ port.mounted /\ hist.opened = port.gen
  BY <1>2, <1>3 DEF PortInv, Usable
<1>7. PortInv'
  BY <1>1, <1>2, <1>3, <1>6, SamePort
<1>8. call'.cmd.op = "none" /\ ~Active' /\ call' # Looping
  BY <1>1, RestTypes DEF Active, Plain
<1>9. LunInv'
  BY <1>1, <1>2, <1>3, <1>4, <1>6, <1>8 DEF LunInv, Medium
<1>10. disk.remain_len \in Nat /\ AtData(0, 0)
  BY <1>1, <1>2 DEF TypeOK, Disks, AtData, FromData, Ends
<1>11. ASSUME hist.clean
       PROVE  /\ disk.remain_len = 0 => dev = DevIdle
              /\ disk.remain_len > 0 =>
                    /\ Opened.k > 1
                    /\ Offers(disk.remain_len, hist.opened, disk.curlun, disk.prev_lba + 1)
  <2>1. CASE ~Large
    BY <1>2, <1>3, <1>10, <1>11, <2>1 DEF SmallClean
  <2>2. CASE Large
    <3>1. DataHolds(0, 0)
      <4>1. \A m \in Nat, e \in {0, 1} : AtData(m, e) => DataHolds(m, e)
        BY <1>2, <1>3, <1>11, <2>2, LargeCleanThen
      <4> QED  BY <1>10, <4>1
    <3>2. call.k = Opened.k /\ call.k > 1 /\ disk.prev_lba = call.at
      BY <1>2, <1>3, <2>2 DEF LargeShape
    <3>3. call.cmd.lun = disk.curlun
      BY <1>2, <1>3 DEF LunInv
    <3>4. call.at - 0 + 1 = call.at + 1
      BY <1>2 DEF TypeOK, Calls
    <3> QED  BY <1>6, <1>10, <3>1, <3>2, <3>3, <3>4 DEF DataHolds
  <2> QED  BY <2>1, <2>2
<1>12. RestInv'
  <2>1. hist'.clean => dev' = DevIdle \/ dev'.phase = "in"
    BY <1>1, <1>10, <1>11 DEF Offers
  <2>2. hist'.clean => /\ disk'.remain_len = 0 => dev' = DevIdle
                       /\ disk'.remain_len > 0 =>
                             /\ Opened'.k > 1
                             /\ Offers(disk.remain_len, hist.opened, disk.curlun,
                                       disk.prev_lba + 1)'
    BY <1>1, <1>4, <1>11 DEF Offers, Opened, Sector, DevIdle
  <2>3. (dev = DevIdle)' <=> dev' = DevIdle
    BY DEF DevIdle
  <2> QED  BY <1>8, <2>1, <2>2, <2>3 DEF RestInv
<1>13. ini'.retry <= Retries
  BY <1>1, <1>2 DEF RoundInv
<1> QED  BY <1>1, <1>4, <1>5, <1>7, <1>9, <1>12, <1>13, Rests

\* A command, or a read or write of whole blocks, that is over: the device waits for
\* the next command.
LEMMA SmallOver ==
    ASSUME IInv, Active, ~Large, call.todo = <<>>
    PROVE  /\ mutex = 0 /\ ~Spinning /\ call.cmd.lun = disk.curlun
           /\ disk.curlun <= disk.lun
           /\ hist.clean => dev = DevIdle /\ disk.remain_len = 0
<1>1. TypeOK /\ StatusInv /\ LunInv /\ SmallClean
  BY DEF IInv
<1>2. mutex = 0 /\ ~Spinning /\ call.cmd.lun = disk.curlun /\ disk.curlun <= disk.lun
  BY <1>1 DEF StatusInv, LunInv, Active, Spinning, Plain
<1>3. AtData(0, 0)
  BY DEF AtData, FromData, Ends
<1>4. ~AtCbw(1, 1)
  <2>1. Len(call.todo) = 0
    OBVIOUS
  <2> QED  BY <2>1 DEF AtCbw, FromCbw, Ends
<1>5. hist.clean => dev = DevIdle /\ disk.remain_len = 0
  BY <1>1, <1>3, <1>4 DEF SmallClean
<1> QED  BY <1>2, <1>5

\* A write that is over: it returns, or waits for the mutex that it holds.
LEMMA WriteOverKeeps ==
    ASSUME IInv, WriteOver
    PROVE  IInv'
<1>1. /\ call.cmd.op = "WRITE_10" /\ call.todo = <<>>
      /\ port' = port /\ dev' = dev /\ stored' = stored /\ ini' = ini /\ hist' = hist
      /\ \/ Pend(Command("app", "REQUEST_SENSE", disk.curlun)) /\ disk' = disk
         \/ /\ disk' = [disk EXCEPT !.status = IF @ = "CLOSE" THEN @ ELSE "OPEN"]
            /\ mutex' = 1 /\ call' = Idle
  BY DEF WriteOver, Over, Returns
<1>2. TypeOK /\ PortInv /\ StatusInv /\ RoundInv /\ LunInv /\ WriteInv
  BY DEF IInv
<1>3. Active /\ Writing /\ ~Large /\ call.who = "app" /\ disk.status \in {"OPEN", "READ", "WRITE"}
  <2>1. Active /\ Writing
    BY <1>1 DEF Active, Writing
  <2> QED  BY <1>1, <1>2, <2>1 DEF StatusInv, WriteInv
<1>4. /\ mutex = 0 /\ ~Spinning /\ disk.curlun <= disk.lun
      /\ hist.clean => dev = DevIdle /\ disk.remain_len = 0
  BY <1>1, <1>3, SmallOver
<1>5. Usable /\ ini'.retry <= Retries
  BY <1>1, <1>2, <1>3 DEF Usable, RoundInv
<1>6. CASE Pend(Command("app", "REQUEST_SENSE", disk.curlun)) /\ disk' = disk
  <2>1. mutex' = 0 /\ call' = Spin
    BY <1>4, <1>6 DEF Pend
  <2>2. TypeOK'
    BY <1>1, <1>2, <1>6, <2>1, RestTypes DEF TypeOK
  <2>3. PortInv'
    BY <1>1, <1>2, <1>4, <1>5, SamePort
  <2> QED  BY <1>5, <2>1, <2>2, <2>3, Spins
<1>7. CASE /\ disk' = [disk EXCEPT !.status = IF @ = "CLOSE" THEN @ ELSE "OPEN"]
           /\ mutex' = 1 /\ call' = Idle
  <2>1. /\ disk' \in Disks /\ disk'.lun = disk.lun /\ disk'.curlun = disk.curlun
        /\ disk'.remain_len = disk.remain_len /\ disk'.status = "OPEN"
    BY <1>2, <1>3, <1>7 DEF TypeOK, Disks
  <2>2. TypeOK'
    BY <1>1, <1>2, <1>7, <2>1, RestTypes DEF TypeOK
  <2>3. PortInv'
    BY <1>1, <1>2, <1>4, <1>5, SamePort
  <2>4. call'.cmd.op = "none" /\ ~Active' /\ call' # Looping
    BY <1>7, RestTypes DEF Active, Plain
  <2>5. LunInv'
    BY <1>1, <1>2, <1>4, <1>5, <2>1, <2>4 DEF LunInv, Medium
  <2>6. RestInv'
    BY <1>1, <1>4, <2>1, <2>4 DEF RestInv, DevIdle
  <2> QED  BY <1>5, <1>7, <2>1, <2>2, <2>3, <2>5, <2>6, Rests
<1> QED  BY <1>1, <1>6, <1>7

-----------------------------------------------------------------------------
(* Opening the disk, and commands that ask for no sectors.                  *)

\* Everything but the call and the mutex.
Typed ==
    /\ port \in [plugged : BOOLEAN, mounted : BOOLEAN, gen : Nat, media : Media,
                 faults : Nat]
    /\ dev \in Devs
    /\ disk \in Disks
    /\ ini \in [state : Nat, retry : Nat, ret : {"ok", "err", "offline"}, pick : {0, 1}]
    /\ hist \in [clean : BOOLEAN, follows : BOOLEAN, opened : Nat]

\* A command of usb_stor_init or of the ioctl may be sent.
MayAsk(who, op) ==
    /\ Typed /\ PortInv /\ ini.retry <= Retries
    /\ disk.curlun <= disk.lun
    /\ disk.lun = 1 => 1 \in DOMAIN Medium
    /\ hist.clean => \/ disk.remain_len = 0 /\ dev = DevIdle
                     \/ disk.remain_len = 0 /\ dev.phase = "in"
                     \/ who = "ioctl" /\ op # "TEST_UNIT_READY" /\ dev.phase = "in"
    /\ who = "ioctl" => disk.status = "OPEN"
    /\ who = "init" => /\ disk.status = "INIT" /\ ini.retry < Retries
                       /\ disk.remain_len = 0 /\ disk.prev_lba = 0
    /\ op = "INQUIRY" => ini.pick <= disk.lun

\* A command that begins.
LEMMA Asked ==
    ASSUME TypeOK, NEW who \in {"init", "ioctl"}, NEW op \in Plain, MayAsk(who, op)',
           hist'.clean = hist.clean, call' = Command(who, op, disk'.curlun), mutex' = 0
    PROVE  IInv'
<1>1. /\ Typed' /\ PortInv' /\ ini'.retry <= Retries
      /\ disk'.curlun <= disk'.lun
      /\ disk'.lun = 1 => (1 \in DOMAIN Medium)'
      /\ hist'.clean => \/ disk'.remain_len = 0 /\ (dev = DevIdle)'
                        \/ disk'.remain_len = 0 /\ dev'.phase = "in"
                        \/ who = "ioctl" /\ op # "TEST_UNIT_READY" /\ dev'.phase = "in"
      /\ who = "ioctl" => disk'.status = "OPEN"
      /\ who = "init" => /\ disk'.status = "INIT" /\ ini'.retry < Retries
                         /\ disk'.remain_len = 0 /\ disk'.prev_lba = 0
      /\ op = "INQUIRY" => ini'.pick <= disk'.lun
  BY DEF MayAsk
<1>2. disk'.curlun \in {0, 1} /\ disk'.remain_len \in Nat
  BY <1>1 DEF Typed, Disks
<1>3. Commands(call', who, op, disk'.curlun)
  BY <1>2, CommandFields
<1>4. /\ call' \in Calls /\ call'.who = who /\ call'.cmd.op = op
      /\ call'.cmd.lun = disk'.curlun
      /\ call'.k = 0 /\ call'.num = 1 /\ call'.failed = FALSE
      /\ call'.trusted = hist'.clean
      /\ op = "TEST_UNIT_READY" => FromCbw(call'.todo, 0, 1)
      /\ op # "TEST_UNIT_READY" => FromCbw(call'.todo, 1, 1)
  BY <1>3 DEF Commands
<1>5. Active' /\ ~Large' /\ ~Spinning' /\ ~Writing'
  BY <1>4 DEF Active, Large, Spinning, Writing, Plain
<1>6. TypeOK'
  BY <1>1, <1>4 DEF TypeOK, Typed
<1>7. Fresh'
  BY <1>1, <1>4, <1>5, <1>6 DEF Fresh, AtCbw
<1>8. StatusInv'
  BY <1>1, <1>4, <1>5, RestTypes DEF StatusInv, Plain
<1>9. RoundInv'
  BY <1>1, <1>4, <1>5, RestTypes DEF RoundInv, Plain
<1>10. LunInv'
  <2>1. disk'.lun = 1 => (1 \in DOMAIN Medium)'
    BY <1>1
  <2>2. call'.cmd.lun = disk'.curlun /\ disk'.curlun <= disk'.lun
    BY <1>1, <1>4
  <2>3. call'.cmd.op = "INQUIRY" => ini'.pick <= disk'.lun
    BY <1>1, <1>4
  <2> QED  BY <2>1, <2>2, <2>3 DEF LunInv
<1> QED  BY <1>1, <1>7, <1>8, <1>9, <1>10, Begins

\* The same when the call must first have the mutex.
LEMMA Pends ==
    ASSUME TypeOK, NEW who \in {"init", "ioctl"}, NEW op \in Plain, MayAsk(who, op)',
           hist'.clean = hist.clean, Pend(Command(who, op, disk'.curlun))
    PROVE  IInv'
<1>1. CASE mutex = 1
  <2>1. mutex' = 0 /\ call' = Command(who, op, disk'.curlun)
    BY <1>1 DEF Pend
  <2> QED  BY <2>1, Asked
<1>2. CASE mutex # 1
  <2>1. mutex' = mutex /\ call' = Spin
    BY <1>2 DEF Pend
  <2>2. Typed' /\ PortInv' /\ ini'.retry <= Retries
    BY DEF MayAsk
  <2>3. TypeOK'
    BY <2>1, <2>2, RestTypes DEF TypeOK, Typed
  <2> QED  BY <2>1, <2>2, <2>3, Spins
<1> QED  BY <1>1, <1>2

\* usb_stor_open.
LEMMA OpenKeeps ==
    ASSUME IInv, usb_stor_open
    PROVE  IInv'
<1>1. call = Idle /\ disk.status = "IDLE" /\ dev' = dev /\ stored' = stored
  BY DEF usb_stor_open
<1>2. /\ TypeOK /\ PortInv /\ LunInv /\ ~Spinning /\ ini.retry <= Retries
      /\ hist.clean => dev = DevIdle \/ dev.phase = "in"
  BY <1>1, Between
<1> DEFINE fresh == [disk EXCEPT !.remain_len = 0, !.prev_lba = 0]
<1>3. /\ fresh \in Disks /\ fresh.remain_len = 0 /\ fresh.prev_lba = 0
      /\ fresh.status = "IDLE" /\ fresh.lun = disk.lun /\ fresh.curlun = disk.curlun
  BY <1>1, <1>2 DEF TypeOK, Disks
<1>4. \/ /\ disk' = fresh
         /\ port' = port /\ mutex' = mutex /\ call' = call /\ ini' = ini /\ hist' = hist
      \/ /\ port.mounted /\ mutex' = 1 /\ call' = Looping
         /\ hist' = [hist EXCEPT !.opened = port.gen]
         /\ ini' \in [state : {0}, retry : {Retries}, ret : {"ok", "err", "offline"},
                      pick : {0}]
         /\ \E l \in {0, 1} :
               /\ disk' = [fresh EXCEPT !.status = "INIT", !.lun = l]
               /\ l = 1 => 1 \in DOMAIN Medium
         /\ \/ port' = port
            \/ port' = [port EXCEPT !.faults = IF port.plugged THEN @ + 1 ELSE @]
  <2> DEFINE start == [NoInit EXCEPT !.retry = Retries]
             Starts == [state : {0}, retry : {Retries}, ret : {"ok", "err", "offline"}, pick : {0}]
  <2>1. start \in Starts
    BY DEF NoInit
  <2>5. \A e \in {"err", "offline"} : [start EXCEPT !.ret = e] \in Starts
    BY <2>1
  <2> HIDE DEF fresh, start, Starts
  <2>2. \/ /\ disk' = fresh
           /\ port' = port /\ mutex' = mutex /\ call' = call /\ ini' = ini /\ hist' = hist
        \/ /\ port.mounted /\ mutex' = 1 /\ call' = Looping
           /\ hist' = [hist EXCEPT !.opened = port.gen]
           /\ \/ /\ ini' = start
                 /\ disk' = [fresh EXCEPT !.status = "INIT",
                              !.lun = IF 1 \in DOMAIN Medium THEN 1 ELSE 0]
                 /\ port' = port
              \/ /\ \E e \in {"err", "offline"} : ini' = [start EXCEPT !.ret = e]
                 /\ disk' = [fresh EXCEPT !.status = "INIT", !.lun = 0]
                 /\ port' = [port EXCEPT !.faults = IF port.plugged THEN @ + 1 ELSE @]
    BY DEF usb_stor_open, fresh, start
  <2>3. CASE /\ ini' = start
             /\ disk' = [fresh EXCEPT !.status = "INIT",
                          !.lun = IF 1 \in DOMAIN Medium THEN 1 ELSE 0]
    <3>1. ini' \in Starts
      BY <2>1, <2>3
    <3>2. \E l \in {0, 1} : /\ disk' = [fresh EXCEPT !.status = "INIT", !.lun = l]
                            /\ l = 1 => 1 \in DOMAIN Medium
      <4>1. CASE 1 \in DOMAIN Medium
        BY <2>3, <4>1
      <4>2. CASE 1 \notin DOMAIN Medium
        BY <2>3, <4>2
      <4> QED  BY <4>1, <4>2
    <3> QED  BY <2>2, <3>1, <3>2 DEF Starts
  <2>4. CASE /\ \E e \in {"err", "offline"} : ini' = [start EXCEPT !.ret = e]
             /\ disk' = [fresh EXCEPT !.status = "INIT", !.lun = 0]
    <3>1. ini' \in Starts
      BY <2>4, <2>5
    <3>2. \E l \in {0, 1} : /\ disk' = [fresh EXCEPT !.status = "INIT", !.lun = l]
                            /\ l = 1 => 1 \in DOMAIN Medium
      BY <2>4
    <3> QED  BY <2>2, <3>1, <3>2 DEF Starts
  <2> QED  BY <2>2, <2>3, <2>4
<1>5. CASE /\ disk' = fresh
           /\ port' = port /\ mutex' = mutex /\ call' = call /\ ini' = ini /\ hist' = hist
  <2>1. TypeOK'
    BY <1>1, <1>2, <1>3, <1>5 DEF TypeOK
  <2>2. ~Usable' /\ disk'.status = "IDLE"
    BY <1>3, <1>5 DEF Usable
  <2>3. PortInv'
    BY <1>1, <1>2, <1>5, <2>2, SamePort
  <2>4. call' = Idle /\ call'.cmd.op = "none" /\ ~Active' /\ call' # Looping
    BY <1>1, <1>5, RestTypes DEF Active, Plain
  <2>5. LunInv' /\ RestInv'
    BY <1>1, <1>2, <1>5, <2>2, <2>4 DEF LunInv, RestInv, DevIdle
  <2> QED  BY <1>2, <1>5, <2>1, <2>2, <2>3, <2>4, <2>5, Rests
<1>6. CASE /\ port.mounted /\ mutex' = 1 /\ call' = Looping
           /\ hist' = [hist EXCEPT !.opened = port.gen]
           /\ ini' \in [state : {0}, retry : {Retries}, ret : {"ok", "err", "offline"},
                        pick : {0}]
           /\ \E l \in {0, 1} :
                 /\ disk' = [fresh EXCEPT !.status = "INIT", !.lun = l]
                 /\ l = 1 => 1 \in DOMAIN Medium
           /\ \/ port' = port
              \/ port' = [port EXCEPT !.faults = IF port.plugged THEN @ + 1 ELSE @]
  <2>1. /\ port' \in [plugged : BOOLEAN, mounted : BOOLEAN, gen : Nat, media : Media,
                      faults : Nat]
        /\ port'.gen = port.gen /\ port'.media = port.media
        /\ port'.plugged = port.plugged /\ port'.mounted
    <3>1. port \in [plugged : BOOLEAN, mounted : BOOLEAN, gen : Nat, media : Media,
                    faults : Nat]
      BY <1>2 DEF TypeOK
    <3>2. CASE port' = port
      BY <1>6, <3>1, <3>2
    <3>3. CASE port' = [port EXCEPT !.faults = IF port.plugged THEN @ + 1 ELSE @]
      BY <1>6, <3>1, <3>3
    <3> QED  BY <1>6, <3>2, <3>3
  <2>2. /\ ini' \in [state : Nat, retry : Nat, ret : {"ok", "err", "offline"}, pick : {0, 1}]
        /\ ini'.state = 0 /\ ini'.retry = Retries
    BY <1>6, UsbStorageAssumption DEF NoInit
  <2>3. /\ disk' \in Disks /\ disk'.status = "INIT"
        /\ disk'.remain_len = 0 /\ disk'.prev_lba = 0
        /\ disk'.lun = 1 => 1 \in DOMAIN Medium
    <3> HIDE DEF fresh
    <3> QED  BY <1>3, <1>6 DEF Disks
  <2>4. /\ hist' \in [clean : BOOLEAN, follows : BOOLEAN, opened : Nat]
        /\ hist'.clean = hist.clean /\ hist'.opened = port.gen
    BY <1>2, <1>6 DEF TypeOK
  <2>5. TypeOK'
    BY <1>1, <1>2, <1>6, <2>1, <2>2, <2>3, <2>4, RestTypes DEF TypeOK
  <2>6. PortInv'
    BY <1>1, <1>2, <1>6, <2>1, <2>4 DEF PortInv, DevIdle
  <2>7. call'.cmd.op = "init" /\ ~Active' /\ call' # Idle
    BY <1>6, RestTypes DEF Active, Plain
  <2>8. RoundInv'
    BY <2>2, <2>3, <2>7, UsbStorageAssumption DEF RoundInv
  <2>9. LunInv'
    BY <2>1, <2>2, <2>3, <2>7 DEF LunInv, Medium
  <2>10. RestInv'
    BY <1>1, <1>2, <2>2, <2>4, <2>7 DEF RestInv, DevIdle
  <2> QED  BY <1>6, <2>3, <2>5, <2>6, <2>8, <2>9, <2>10, Loops
<1> QED  BY <1>4, <1>5, <1>6

\* Where the loop of usb_stor_init is.
LEMMA InLoop ==
    ASSUME IInv, call = Looping
    PROVE  /\ Typed /\ TypeOK /\ PortInv /\ ~Spinning /\ Usable /\ disk.status = "INIT"
           /\ ini.retry <= Retries /\ disk.remain_len = 0 /\ disk.prev_lba = 0
           /\ ini.retry = Retries => ini.state = 0
           /\ ini.retry < Retries => disk.curlun <= disk.lun
           /\ disk.lun = 1 => 1 \in DOMAIN Medium
           /\ hist.clean => dev = DevIdle \/ dev.phase = "in"
           /\ hist.clean /\ ini.retry < Retries => dev = DevIdle
<1>1. TypeOK /\ PortInv /\ StatusInv /\ RoundInv /\ LunInv /\ RestInv
  BY DEF IInv
<1>2. ~Spinning /\ Usable /\ disk.status = "INIT"
  BY <1>1, RestTypes DEF Spinning, StatusInv, Usable
<1>3. Typed
  BY <1>1 DEF TypeOK, Typed
<1>4. /\ ini.retry <= Retries /\ disk.remain_len = 0 /\ disk.prev_lba = 0
      /\ ini.retry = Retries => ini.state = 0
  BY <1>1 DEF RoundInv
<1>5. /\ ini.retry < Retries => disk.curlun <= disk.lun
      /\ disk.lun = 1 => 1 \in DOMAIN Medium
  BY <1>1, <1>2 DEF LunInv
<1>6. /\ hist.clean => dev = DevIdle \/ dev.phase = "in"
      /\ hist.clean /\ ini.retry < Retries => dev = DevIdle
  BY <1>1 DEF RestInv
<1> QED  BY <1>1, <1>2, <1>3, <1>4, <1>5, <1>6

\* A round of usb_stor_init.
LEMMA RoundKeeps ==
    ASSUME IInv, InitRound
    PROVE  IInv'
<1>1. /\ call = Looping /\ ini.retry > 0 /\ ini.state < 3
      /\ ini' = [ini EXCEPT !.retry = ini.retry - 1,
                            !.pick = IF ini.state = 0 THEN 0 ELSE ini.pick]
      /\ port' = port /\ dev' = dev /\ stored' = stored /\ hist' = hist
      /\ \/ /\ ini.state = 0
            /\ disk' = [disk EXCEPT !.curlun = 0]
            /\ Pend(Command("init", "INQUIRY", 0))
         \/ /\ ini.state = 1 /\ disk' = disk
            /\ Pend(Command("init", "TEST_UNIT_READY", disk.curlun))
         \/ /\ ini.state = 2
            /\ disk' = [disk EXCEPT !.capacity[disk.curlun] = NoCap]
            /\ Pend(Command("init", "READ_CAPACITY", disk.curlun))
  BY DEF InitRound, Left
<1>2. /\ Typed /\ TypeOK /\ PortInv /\ ~Spinning /\ Usable /\ disk.status = "INIT"
      /\ ini.retry <= Retries /\ disk.remain_len = 0 /\ disk.prev_lba = 0
      /\ ini.retry = Retries => ini.state = 0
      /\ ini.retry < Retries => disk.curlun <= disk.lun
      /\ disk.lun = 1 => 1 \in DOMAIN Medium
      /\ hist.clean => dev = DevIdle \/ dev.phase = "in"
  BY <1>1, InLoop
<1>3. /\ ini' \in [state : Nat, retry : Nat, ret : {"ok", "err", "offline"}, pick : {0, 1}]
      /\ ini'.retry < Retries /\ (ini.state = 0 => ini'.pick = 0)
  <2>1. ini.retry \in Nat
    BY <1>2 DEF Typed
  <2>2. ini.retry - 1 \in Nat /\ ini.retry - 1 < Retries
    BY <1>1, <1>2, <2>1, UsbStorageAssumption
  <2> QED  BY <1>1, <1>2, <2>2 DEF Typed
<1>4. /\ disk' \in Disks /\ disk'.lun = disk.lun /\ disk'.status = "INIT"
      /\ disk'.remain_len = 0 /\ disk'.prev_lba = 0
      /\ ini.state = 0 => disk'.curlun = 0
      /\ ini.state # 0 => disk'.curlun = disk.curlun
  <2>1. disk \in Disks
    BY <1>2 DEF Typed
  <2>2. CASE disk' = [disk EXCEPT !.curlun = 0] /\ ini.state = 0
    BY <1>2, <2>1, <2>2 DEF Disks
  <2>3. CASE disk' = disk /\ ini.state = 1
    BY <1>2, <2>1, <2>3
  <2>4. CASE disk' = [disk EXCEPT !.capacity[disk.curlun] = NoCap] /\ ini.state = 2
    <3>1. NoCap \in Caps
      BY DEF NoCap, Caps
    <3> QED  BY <1>2, <2>1, <2>4, <3>1 DEF Disks
  <2> QED  BY <1>1, <2>2, <2>3, <2>4
<1>5. Typed'
  BY <1>1, <1>2, <1>3, <1>4 DEF Typed
<1>6. PortInv'
  BY <1>1, <1>2, SamePort
<1>7. disk'.curlun <= disk'.lun
  <2>1. CASE ini.state = 0
    BY <1>4, <1>5, <2>1 DEF Typed, Disks
  <2>2. CASE ini.state # 0
    <3>1. ini.retry < Retries
      BY <1>2, <2>2, UsbStorageAssumption DEF Typed
    <3> QED  BY <1>2, <1>4, <2>2, <3>1
  <2> QED  BY <2>1, <2>2
<1>8. (disk'.lun = 1 => 1 \in DOMAIN Medium') /\ (dev = DevIdle)' = (dev = DevIdle)
  BY <1>1, <1>2, <1>4 DEF Medium, DevIdle
<1>9. ASSUME NEW op \in Plain, op = "INQUIRY" => ini.state = 0
      PROVE  MayAsk("init", op)'
  <2>1. op = "INQUIRY" => ini'.pick <= disk'.lun
    BY <1>3, <1>5, <1>9 DEF Typed, Disks
  <2>2. ini'.retry <= Retries
    BY <1>3, UsbStorageAssumption
  <2> QED  BY <1>1, <1>2, <1>3, <1>4, <1>5, <1>6, <1>7, <1>8, <2>1, <2>2 DEF MayAsk
<1>10. \E op \in Plain : /\ op = "INQUIRY" => ini.state = 0
                         /\ Pend(Command("init", op, disk'.curlun))
  BY <1>1, <1>4 DEF Plain
<1>11. PICK op \in Plain : /\ op = "INQUIRY" => ini.state = 0
                           /\ Pend(Command("init", op, disk'.curlun))
  BY <1>10
<1>12. MayAsk("init", op)'
  BY <1>9, <1>11
<1> QED  BY <1>1, <1>2, <1>11, <1>12, Pends

\* The loop of usb_stor_init ends.
LEMMA InitOverKeeps ==
    ASSUME IInv, InitOver
    PROVE  IInv'
<1>1. /\ call = Looping
      /\ ini.retry = 0 \/ ini.ret = "offline" \/ ini.state = 3
      /\ disk' = [disk EXCEPT !.status = IF ini.ret = "ok" THEN "OPEN" ELSE "IDLE"]
      /\ call' = Idle /\ ini' = NoInit
      /\ port' = port /\ dev' = dev /\ stored' = stored /\ mutex' = mutex /\ hist' = hist
  BY DEF InitOver
<1>2. /\ Typed /\ TypeOK /\ PortInv /\ ~Spinning /\ Usable
      /\ ini.retry <= Retries /\ disk.remain_len = 0
      /\ ini.retry = Retries => ini.state = 0
      /\ ini.retry < Retries => disk.curlun <= disk.lun
      /\ disk.lun = 1 => 1 \in DOMAIN Medium
      /\ hist.clean => dev = DevIdle \/ dev.phase = "in"
      /\ hist.clean /\ ini.retry < Retries => dev = DevIdle
  BY <1>1, InLoop
<1>3. ini.ret = "ok" => ini.retry < Retries
  <2>1. ini.retry \in Nat
    BY <1>2 DEF Typed
  <2> QED  BY <1>1, <1>2, <2>1, UsbStorageAssumption
<1>4. /\ disk' \in Disks /\ disk'.lun = disk.lun /\ disk'.curlun = disk.curlun
      /\ disk'.remain_len = 0 /\ disk'.status \in {"OPEN", "IDLE"}
      /\ disk'.status = "OPEN" => ini.ret = "ok"
  BY <1>1, <1>2 DEF TypeOK, Disks
<1>5. /\ ini' \in [state : Nat, retry : Nat, ret : {"ok", "err", "offline"}, pick : {0, 1}]
      /\ ini'.retry <= Retries
  BY <1>1, UsbStorageAssumption DEF NoInit
<1>6. TypeOK'
  BY <1>1, <1>2, <1>4, <1>5, RestTypes DEF TypeOK
<1>7. PortInv'
  BY <1>1, <1>2, SamePort
<1>8. call'.cmd.op = "none" /\ ~Active' /\ call' # Looping
  BY <1>1, RestTypes DEF Active, Plain
<1>9. LunInv'
  BY <1>1, <1>2, <1>3, <1>4, <1>8 DEF LunInv, Medium
<1>10. RestInv'
  BY <1>1, <1>2, <1>3, <1>4, <1>8 DEF RestInv, DevIdle
<1> QED  BY <1>1, <1>4, <1>5, <1>6, <1>7, <1>9, <1>10, Rests

\* A command of usb_stor_init that is over.
LEMMA InCommand ==
    ASSUME IInv, NEW op \in Plain, InitCommand(op)
    PROVE  /\ Typed /\ TypeOK /\ PortInv /\ ~Spinning /\ Usable /\ disk.status = "INIT"
           /\ ini.retry < Retries /\ disk.remain_len = 0 /\ disk.prev_lba = 0
           /\ disk.curlun <= disk.lun /\ mutex = 0
           /\ disk.lun = 1 => 1 \in DOMAIN Medium
           /\ hist.clean => dev = DevIdle
           /\ op = "INQUIRY" => ini.pick <= disk.lun
<1>1. call.cmd.op = op /\ call.todo = <<>> /\ call.who = "init"
  BY DEF InitCommand, Over
<1>2. TypeOK /\ PortInv /\ StatusInv /\ RoundInv /\ LunInv /\ LargeShape
  BY DEF IInv
<1>3. Typed
  BY <1>2 DEF TypeOK, Typed
<1>4. Active /\ ~Spinning /\ ~Large
  <2>1. Active /\ ~Spinning /\ ~Reading
    BY <1>1 DEF Active, Spinning, Reading, Plain
  <2> QED  BY <1>2, <2>1 DEF LargeShape
<1>5. disk.status = "INIT" /\ Usable
  BY <1>1, <1>2, <1>4 DEF StatusInv, Usable
<1>6. ini.retry < Retries /\ disk.remain_len = 0 /\ disk.prev_lba = 0
  BY <1>1, <1>2, <1>4 DEF RoundInv
<1>7. /\ disk.lun = 1 => 1 \in DOMAIN Medium
      /\ op = "INQUIRY" => ini.pick <= disk.lun
  BY <1>1, <1>2, <1>4, <1>5 DEF LunInv
<1>8. mutex = 0 /\ disk.curlun <= disk.lun /\ (hist.clean => dev = DevIdle)
  BY <1>1, <1>4, SmallOver
<1> QED  BY <1>2, <1>3, <1>4, <1>5, <1>6, <1>7, <1>8

\* Back to the loop of usb_stor_init.
LEMMA Continues ==
    ASSUME IInv, NEW op \in Plain, InitCommand(op), Continue, Typed',
           port' = port, dev' = dev, hist' = hist, ini'.retry = ini.retry,
           disk'.status = disk.status, disk'.lun = disk.lun, disk'.curlun <= disk.lun,
           disk'.remain_len = disk.remain_len, disk'.prev_lba = disk.prev_lba
    PROVE  IInv'
<1>1. mutex' = 1 /\ call' = Looping
  BY DEF Continue
<1>2. /\ PortInv /\ ~Spinning /\ Usable /\ disk.status = "INIT"
      /\ ini.retry < Retries /\ disk.remain_len = 0 /\ disk.prev_lba = 0
      /\ disk.lun = 1 => 1 \in DOMAIN Medium
      /\ hist.clean => dev = DevIdle
  BY InCommand
<1>3. TypeOK'
  BY <1>1, RestTypes DEF TypeOK, Typed
<1>4. PortInv'
  BY <1>2, SamePort
<1>5. call'.cmd.op = "init" /\ ~Active' /\ call' # Idle
  BY <1>1, RestTypes DEF Active, Plain
<1>6. ini'.retry \in Nat /\ ini'.retry < Retries /\ ini'.retry <= Retries
      /\ ini'.retry # Retries
  BY <1>2, UsbStorageAssumption DEF Typed
<1>7. RoundInv'
  BY <1>2, <1>5, <1>6 DEF RoundInv
<1>8. LunInv'
  BY <1>2, <1>5 DEF LunInv, Medium
<1>9. RestInv'
  BY <1>2, <1>5 DEF RestInv, DevIdle
<1> QED  BY <1>1, <1>2, <1>3, <1>4, <1>7, <1>8, <1>9, Loops

\* The next command of the same round.
LEMMA AsksAgain ==
    ASSUME IInv, NEW op \in Plain, InitCommand(op), NEW next \in Plain, Typed',
           call' = Command("init", next, disk'.curlun), mutex' = mutex,
           port' = port, dev' = dev, hist' = hist, ini'.retry = ini.retry,
           disk'.status = disk.status, disk'.lun = disk.lun, disk'.curlun <= disk.lun,
           disk'.remain_len = disk.remain_len, disk'.prev_lba = disk.prev_lba,
           next = "INQUIRY" => ini'.pick <= disk.lun
    PROVE  IInv'
<1>1. /\ TypeOK /\ PortInv /\ ~Spinning /\ Usable /\ disk.status = "INIT"
      /\ ini.retry < Retries /\ disk.remain_len = 0 /\ disk.prev_lba = 0
      /\ disk.lun = 1 => 1 \in DOMAIN Medium
      /\ hist.clean => dev = DevIdle
      /\ mutex = 0
  BY InCommand
<1>2. PortInv'
  BY <1>1, SamePort
<1>3. ini'.retry < Retries /\ ini'.retry <= Retries
  BY <1>1, UsbStorageAssumption DEF Typed
<1>4. /\ disk'.lun = 1 => 1 \in DOMAIN Medium'
      /\ hist'.clean => (dev = DevIdle)'
  BY <1>1 DEF Medium, DevIdle
<1>5. MayAsk("init", next)'
  BY <1>1, <1>2, <1>3, <1>4 DEF MayAsk
<1> QED  BY <1>1, <1>5, Asked

\* The inquiry of each lun.
LEMMA InquiryOverKeeps ==
    ASSUME IInv, InquiryOver
    PROVE  IInv'
<1>1. /\ InitCommand("INQUIRY")
      /\ \/ /\ ini' = [ini EXCEPT !.ret = IF ini.retry = 2 THEN "offline" ELSE "ok"]
            /\ Continue /\ disk' = disk
         \/ /\ disk.curlun < disk.lun
            /\ ini' = [ini EXCEPT !.pick = Chosen]
            /\ disk' = [disk EXCEPT !.curlun = disk.curlun + 1]
            /\ call' = Command("init", "INQUIRY", disk.curlun + 1)
            /\ mutex' = mutex
         \/ /\ ini' = [ini EXCEPT !.ret = "ok", !.state = 1, !.pick = Chosen]
            /\ disk' = [disk EXCEPT !.curlun = Chosen]
            /\ Continue
      /\ port' = port /\ dev' = dev /\ stored' = stored /\ hist' = hist
  BY DEF InquiryOver
<1>2. Typed /\ disk.curlun <= disk.lun /\ ini.pick <= disk.lun
  BY <1>1, InCommand DEF Plain
<1>3. /\ disk \in Disks /\ disk.lun \in {0, 1} /\ disk.curlun \in {0, 1} /\ ini.pick \in {0, 1}
  BY <1>2 DEF Typed, Disks
<1>4. Chosen \in {0, 1} /\ Chosen <= disk.lun
  <2>1. \/ Chosen = ini.pick
        \/ Chosen = ini.pick + 1 /\ ini.pick < disk.lun
        \/ Chosen = 0
    BY DEF Chosen
  <2> QED  BY <1>2, <1>3, <2>1
<1> DEFINE chosen == Chosen
<1> HIDE DEF chosen
<1>5. CASE /\ ini' = [ini EXCEPT !.ret = IF ini.retry = 2 THEN "offline" ELSE "ok"]
           /\ Continue /\ disk' = disk
  <2>1. Typed' /\ ini'.retry = ini.retry
    BY <1>1, <1>2, <1>5 DEF Typed
  <2> QED  BY <1>1, <1>2, <1>5, <2>1, Continues DEF Plain
<1>6. CASE /\ disk.curlun < disk.lun
           /\ ini' = [ini EXCEPT !.pick = Chosen]
           /\ disk' = [disk EXCEPT !.curlun = disk.curlun + 1]
           /\ call' = Command("init", "INQUIRY", disk.curlun + 1)
           /\ mutex' = mutex
  <2>1. ini' = [ini EXCEPT !.pick = chosen] /\ chosen \in {0, 1} /\ chosen <= disk.lun
    BY <1>4, <1>6 DEF chosen
  <2>2. /\ disk' \in Disks /\ disk'.curlun = disk.curlun + 1 /\ disk'.curlun <= disk.lun
        /\ disk'.status = disk.status /\ disk'.lun = disk.lun
        /\ disk'.remain_len = disk.remain_len /\ disk'.prev_lba = disk.prev_lba
    BY <1>3, <1>6 DEF Disks
  <2>3. Typed' /\ ini'.retry = ini.retry /\ ini'.pick <= disk.lun
    BY <1>1, <1>2, <2>1, <2>2 DEF Typed
  <2> QED  BY <1>1, <1>6, <2>2, <2>3, AsksAgain DEF Plain
<1>7. CASE /\ ini' = [ini EXCEPT !.ret = "ok", !.state = 1, !.pick = Chosen]
           /\ disk' = [disk EXCEPT !.curlun = Chosen]
           /\ Continue
  <2>1. /\ ini' = [ini EXCEPT !.ret = "ok", !.state = 1, !.pick = chosen]
        /\ disk' = [disk EXCEPT !.curlun = chosen]
        /\ chosen \in {0, 1} /\ chosen <= disk.lun
    BY <1>4, <1>7 DEF chosen
  <2>2. /\ disk' \in Disks /\ disk'.curlun <= disk.lun
        /\ disk'.status = disk.status /\ disk'.lun = disk.lun
        /\ disk'.remain_len = disk.remain_len /\ disk'.prev_lba = disk.prev_lba
    BY <1>3, <2>1 DEF Disks
  <2>3. Typed' /\ ini'.retry = ini.retry
    BY <1>1, <1>2, <2>1, <2>2 DEF Typed
  <2> QED  BY <1>1, <1>7, <2>2, <2>3, Continues DEF Plain
<1> QED  BY <1>1, <1>5, <1>6, <1>7

\* TEST_UNIT_READY and READ_CAPACITY.
LEMMA CheckOverKeeps ==
    ASSUME IInv, CheckOver
    PROVE  IInv'
<1>1. PICK op \in {"TEST_UNIT_READY", "READ_CAPACITY"} : InitCommand(op)
  BY DEF CheckOver
<1>2. /\ port' = port /\ dev' = dev /\ stored' = stored /\ disk' = disk /\ hist' = hist
      /\ \/ (\E e \in Errors : ini' = [ini EXCEPT !.ret = e]) /\ Continue
         \/ /\ call' = Command("init", "REQUEST_SENSE", disk.curlun)
            /\ mutex' = mutex /\ ini' = ini
         \/ ini' = [ini EXCEPT !.ret = "ok", !.state = ini.state + 1] /\ Continue
  BY DEF CheckOver
<1>3. op \in Plain
  BY DEF Plain
<1>4. Typed /\ disk.curlun <= disk.lun
  BY <1>1, <1>3, InCommand
<1>5. CASE (\E e \in Errors : ini' = [ini EXCEPT !.ret = e]) /\ Continue
  <2>1. Typed' /\ ini'.retry = ini.retry
    BY <1>2, <1>4, <1>5 DEF Typed, Errors
  <2> QED  BY <1>1, <1>2, <1>3, <1>4, <1>5, <2>1, Continues
<1>6. CASE /\ call' = Command("init", "REQUEST_SENSE", disk.curlun)
           /\ mutex' = mutex /\ ini' = ini
  <2>1. Typed' /\ "REQUEST_SENSE" \in Plain
    BY <1>2, <1>4, <1>6 DEF Typed, Plain
  <2> QED  BY <1>1, <1>2, <1>3, <1>4, <1>6, <2>1, AsksAgain
<1>7. CASE ini' = [ini EXCEPT !.ret = "ok", !.state = ini.state + 1] /\ Continue
  <2>1. ini.state + 1 \in Nat
    BY <1>4 DEF Typed
  <2>2. /\ ini' \in [state : Nat, retry : Nat, ret : {"ok", "err", "offline"}, pick : {0, 1}]
        /\ ini'.retry = ini.retry
    BY <1>4, <1>7, <2>1 DEF Typed
  <2>3. Typed'
    BY <1>2, <1>4, <2>2 DEF Typed
  <2> QED  BY <1>1, <1>2, <1>3, <1>4, <1>7, <2>2, <2>3, Continues
<1> QED  BY <1>2, <1>5, <1>6, <1>7

\* The sense data.
LEMMA SenseOverKeeps ==
    ASSUME IInv, SenseOver
    PROVE  IInv'
<1>1. /\ InitCommand("REQUEST_SENSE") /\ Continue
      /\ \E e \in {"ok", "err", "offline"} : ini' = [ini EXCEPT !.ret = e]
      /\ \/ disk' = disk
         \/ disk' = [disk EXCEPT !.curlun = IF disk.curlun + 1 > disk.lun THEN 0
                                             ELSE disk.curlun + 1]
      /\ port' = port /\ dev' = dev /\ stored' = stored /\ hist' = hist
  BY DEF SenseOver, Errors
<1>2. Typed /\ disk.curlun <= disk.lun
  BY <1>1, InCommand DEF Plain
<1>3. disk \in Disks /\ disk.lun \in {0, 1} /\ disk.curlun \in {0, 1}
  BY <1>2 DEF Typed, Disks
<1>4. /\ disk' \in Disks /\ disk'.curlun <= disk.lun
      /\ disk'.status = disk.status /\ disk'.lun = disk.lun
      /\ disk'.remain_len = disk.remain_len /\ disk'.prev_lba = disk.prev_lba
  <2>1. CASE disk' = disk
    BY <1>2, <1>3, <2>1
  <2>2. CASE disk' = [disk EXCEPT !.curlun = IF disk.curlun + 1 > disk.lun THEN 0
                                              ELSE disk.curlun + 1]
    BY <1>3, <2>2 DEF Disks
  <2> QED  BY <1>1, <2>1, <2>2
<1>5. Typed' /\ ini'.retry = ini.retry
  BY <1>1, <1>2, <1>4 DEF Typed
<1> QED  BY <1>1, <1>4, <1>5, Continues DEF Plain

-----------------------------------------------------------------------------
(* The ioctl, the close and the host.                                       *)

\* Back to the caller, or nothing done at all, with the disk not open.
LEMMA StaysClosed ==
    ASSUME IInv, call = Idle, call' = Idle, Typed', PortInv', mutex' \in {0, 1},
           ini' = ini, disk'.status \in {"IDLE", "CLOSE"},
           hist'.clean => (dev = DevIdle \/ dev.phase = "in")'
    PROVE  IInv'
<1>1. TypeOK' /\ ini'.retry <= Retries
  BY Between, RestTypes DEF TypeOK, Typed
<1>2. ~Usable' /\ call'.cmd.op = "none" /\ ~Active' /\ call' # Looping
  BY RestTypes DEF Usable, Active, Plain
<1>3. LunInv' /\ RestInv'
  BY <1>2 DEF LunInv, RestInv
<1> QED  BY <1>1, <1>3, Rests

\* IOCTL_SET_CUR_LUN.
LEMMA IoctlKeeps ==
    ASSUME IInv, NEW l \in {0, 1}, IOCTL_SET_CUR_LUN(l)
    PROVE  IInv'
<1>1. /\ call = Idle /\ l <= disk.lun
      /\ \/ /\ Usable
            /\ disk' = [disk EXCEPT !.curlun = l, !.capacity[l] = NoCap]
            /\ Pend(Command("ioctl", "READ_CAPACITY", l))
         \/ /\ ~Usable
            /\ disk' = [disk EXCEPT !.curlun = l]
            /\ mutex' = mutex /\ call' = call
      /\ port' = port /\ dev' = dev /\ stored' = stored /\ ini' = ini /\ hist' = hist
  BY DEF IOCTL_SET_CUR_LUN
<1>2. /\ TypeOK /\ PortInv /\ LunInv /\ ~Spinning /\ ini.retry <= Retries
      /\ Usable => disk.status = "OPEN"
      /\ hist.clean => dev = DevIdle \/ dev.phase = "in"
      /\ hist.clean /\ Usable =>
            /\ disk.remain_len = 0 => dev = DevIdle
            /\ disk.remain_len > 0 => dev.phase = "in"
  BY <1>1, Between
<1>3. disk \in Disks /\ disk.remain_len \in Nat
  BY <1>2 DEF TypeOK, Disks
<1>4. /\ disk' \in Disks /\ disk'.curlun = l
      /\ disk'.status = disk.status /\ disk'.lun = disk.lun
      /\ disk'.remain_len = disk.remain_len
  <2>1. CASE disk' = [disk EXCEPT !.curlun = l, !.capacity[l] = NoCap]
    <3>1. NoCap \in Caps
      BY DEF NoCap, Caps
    <3> QED  BY <1>3, <2>1, <3>1 DEF Disks
  <2>2. CASE disk' = [disk EXCEPT !.curlun = l]
    BY <1>3, <2>2 DEF Disks
  <2> QED  BY <1>1, <2>1, <2>2
<1>5. Typed'
  BY <1>1, <1>2, <1>4 DEF TypeOK, Typed
<1>6. Usable' <=> Usable
  BY <1>4 DEF Usable
<1>7. PortInv'
  BY <1>1, <1>2, <1>6, SamePort
<1>8. CASE Usable /\ Pend(Command("ioctl", "READ_CAPACITY", l))
  <2>1. disk.lun = 1 => 1 \in DOMAIN Medium
    BY <1>2, <1>8 DEF LunInv
  <2>2. hist'.clean => \/ disk'.remain_len = 0 /\ (dev = DevIdle)'
                       \/ dev'.phase = "in"
    BY <1>1, <1>2, <1>3, <1>4, <1>8 DEF DevIdle
  <2>3. MayAsk("ioctl", "READ_CAPACITY")'
    BY <1>1, <1>2, <1>4, <1>5, <1>7, <1>8, <2>1, <2>2 DEF MayAsk, Medium
  <2>4. "READ_CAPACITY" \in Plain
    BY DEF Plain
  <2> QED  BY <1>1, <1>2, <1>4, <1>8, <2>3, <2>4, Pends
<1>9. CASE ~Usable /\ mutex' = mutex /\ call' = call
  <2>1. disk'.status \in {"IDLE", "CLOSE"}
    BY <1>4, <1>9 DEF Usable
  <2>2. hist'.clean => (dev = DevIdle \/ dev.phase = "in")'
    BY <1>1, <1>2 DEF DevIdle
  <2>3. mutex' \in {0, 1}
    BY <1>2, <1>9 DEF TypeOK
  <2> QED  BY <1>1, <1>5, <1>7, <1>9, <2>1, <2>2, <2>3, StaysClosed
<1> QED  BY <1>1, <1>8, <1>9

\* A command of the ioctl is over.
LEMMA IoctlOverKeeps ==
    ASSUME IInv, IoctlOver
    PROVE  IInv'
<1>1. /\ call.who = "ioctl" /\ call.todo = <<>>
      /\ \/ call' = Command("ioctl", "REQUEST_SENSE", disk.curlun) /\ mutex' = mutex
         \/ mutex' = 1 /\ call' = Idle
      /\ port' = port /\ dev' = dev /\ stored' = stored /\ disk' = disk /\ ini' = ini
      /\ hist' = hist
  BY DEF IoctlOver, Returns
<1>2. TypeOK /\ PortInv /\ StatusInv /\ RoundInv /\ LunInv /\ LargeShape
  BY DEF IInv
<1>3. Active
  <2>1. ~Spinning /\ call.cmd.op # "none" /\ call.cmd.op # "init"
    BY <1>1, <1>2, RestTypes DEF StatusInv
  <2>2. call.cmd.op \in Ops
    BY <1>2 DEF TypeOK, Calls, Cmds
  <2> QED  BY <2>1, <2>2 DEF Active, Ops, Spinning
<1>4. disk.status = "OPEN" /\ Usable /\ ~Reading /\ ~Large
  <2>1. disk.status = "OPEN" /\ ~Reading
    BY <1>1, <1>2, <1>3 DEF StatusInv, Reading
  <2> QED  BY <1>2, <1>3, <2>1 DEF Usable, LargeShape
<1>5. /\ mutex = 0 /\ ~Spinning /\ disk.curlun <= disk.lun
      /\ hist.clean => dev = DevIdle /\ disk.remain_len = 0
  BY <1>1, <1>3, <1>4, SmallOver
<1>6. disk.lun = 1 => 1 \in DOMAIN Medium
  BY <1>2, <1>4, <1>5 DEF LunInv
<1>7. PortInv' /\ ini'.retry <= Retries
  BY <1>1, <1>2, <1>4, <1>5, SamePort DEF RoundInv
<1>8. Typed'
  BY <1>1, <1>2 DEF TypeOK, Typed
<1>9. CASE call' = Command("ioctl", "REQUEST_SENSE", disk.curlun) /\ mutex' = mutex
  <2>1. hist'.clean => disk'.remain_len = 0 /\ (dev = DevIdle)'
    BY <1>1, <1>5 DEF DevIdle
  <2>2. MayAsk("ioctl", "REQUEST_SENSE")'
    BY <1>1, <1>4, <1>5, <1>6, <1>7, <1>8, <2>1 DEF MayAsk, Medium
  <2>3. "REQUEST_SENSE" \in Plain
    BY DEF Plain
  <2> QED  BY <1>1, <1>2, <1>5, <1>9, <2>2, <2>3, Asked
<1>10. CASE mutex' = 1 /\ call' = Idle
  <2>1. TypeOK'
    BY <1>8, <1>10, RestTypes DEF TypeOK, Typed
  <2>2. call'.cmd.op = "none" /\ ~Active' /\ call' # Looping
    BY <1>10, RestTypes DEF Active, Plain
  <2>3. LunInv'
    BY <1>1, <1>5, <1>6, <2>2 DEF LunInv, Medium
  <2>4. RestInv'
    BY <1>1, <1>5, <2>2 DEF RestInv, DevIdle
  <2> QED  BY <1>1, <1>4, <1>7, <1>10, <2>1, <2>3, <2>4, Rests
<1> QED  BY <1>1, <1>9, <1>10

\* usb_stor_close.
LEMMA CloseKeeps ==
    ASSUME IInv, usb_stor_close
    PROVE  IInv'
<1>1. /\ call = Idle /\ mutex' = mutex
      /\ \/ disk' = [disk EXCEPT !.status = "IDLE"] /\ call' = call
         \/ call' = Spin /\ disk' = disk
      /\ port' = port /\ dev' = dev /\ stored' = stored /\ ini' = ini /\ hist' = hist
  BY DEF usb_stor_close
<1>2. /\ TypeOK /\ PortInv /\ ~Spinning /\ ini.retry <= Retries
      /\ hist.clean => dev = DevIdle \/ dev.phase = "in"
  BY <1>1, Between
<1>3. CASE disk' = [disk EXCEPT !.status = "IDLE"] /\ call' = call
  <2>1. disk' \in Disks /\ disk'.status = "IDLE"
    BY <1>2, <1>3 DEF TypeOK, Disks
  <2>2. Typed' /\ mutex' \in {0, 1}
    BY <1>1, <1>2, <2>1 DEF TypeOK, Typed
  <2>3. PortInv'
    <3>1. ~Usable'
      BY <2>1 DEF Usable
    <3> QED  BY <1>1, <1>2, <3>1, SamePort
  <2>4. hist'.clean => (dev = DevIdle \/ dev.phase = "in")'
    BY <1>1, <1>2 DEF DevIdle
  <2> QED  BY <1>1, <1>3, <2>1, <2>2, <2>3, <2>4, StaysClosed
<1>4. CASE call' = Spin /\ disk' = disk
  <2>1. TypeOK'
    BY <1>1, <1>2, <1>4, RestTypes DEF TypeOK
  <2>2. PortInv'
    BY <1>1, <1>2, <1>4, SamePort DEF Usable
  <2> QED  BY <1>1, <1>2, <1>4, <2>1, <2>2, Spins
<1> QED  BY <1>1, <1>3, <1>4

\* set_stor_power, when the host mounts the disk.
LEMMA MountKeeps ==
    ASSUME IInv, Mount
    PROVE  IInv'
<1>1. /\ call = Idle /\ port.plugged /\ ~port.mounted
      /\ port' = [port EXCEPT !.mounted = TRUE]
      /\ hist' = [hist EXCEPT !.clean = TRUE]
      /\ dev' = dev /\ stored' = stored /\ mutex' = mutex /\ ini' = ini
      /\ disk' = disk /\ (call' = call \/ call' = Spin)
  BY DEF Mount, set_stor_power
<1>2. /\ TypeOK /\ PortInv /\ ~Spinning /\ ini.retry <= Retries
      /\ disk.status \in {"IDLE", "CLOSE", "OPEN"}
  BY <1>1, Between
<1>3. dev = DevIdle /\ ~Usable /\ port.gen >= 1
  BY <1>1, <1>2 DEF PortInv
<1>4. /\ port' \in [plugged : BOOLEAN, mounted : BOOLEAN, gen : Nat, media : Media,
                    faults : Nat]
      /\ port'.plugged = port.plugged /\ port'.mounted
      /\ port'.gen = port.gen /\ port'.media = port.media
  BY <1>1, <1>2 DEF TypeOK
<1>5. hist' \in [clean : BOOLEAN, follows : BOOLEAN, opened : Nat]
  BY <1>1, <1>2 DEF TypeOK
<1>6. Typed' /\ mutex' \in {0, 1}
  BY <1>1, <1>2, <1>4, <1>5 DEF TypeOK, Typed
<1>7. ~Usable' /\ disk'.status \in {"IDLE", "CLOSE"}
  BY <1>1, <1>2, <1>3 DEF Usable
<1>8. PortInv'
  BY <1>1, <1>2, <1>3, <1>4, <1>7 DEF PortInv, DevIdle
<1>9. hist'.clean => (dev = DevIdle \/ dev.phase = "in")'
  BY <1>1, <1>3 DEF DevIdle
<1>10. CASE call' = call
  BY <1>1, <1>6, <1>7, <1>8, <1>9, <1>10, StaysClosed
<1>11. CASE call' = Spin
  <2>1. TypeOK'
    BY <1>6, <1>11, RestTypes DEF TypeOK, Typed
  <2> QED  BY <1>1, <1>2, <1>8, <1>11, <2>1, Spins
<1> QED  BY <1>1, <1>10, <1>11

\* set_stor_power, when the disk is gone.
LEMMA UnmountKeeps ==
    ASSUME IInv, Unmount
    PROVE  IInv'
<1>1. /\ call = Idle /\ ~port.plugged /\ port.mounted
      /\ port' = [port EXCEPT !.mounted = FALSE]
      /\ dev' = dev /\ stored' = stored /\ mutex' = mutex /\ ini' = ini /\ hist' = hist
      /\ \/ disk.status = "IDLE" /\ disk' = disk /\ call' = call
         \/ disk' = disk /\ call' = Spin
         \/ disk' = [disk EXCEPT !.status = "CLOSE"] /\ call' = call
  BY DEF Unmount, set_stor_power, PowerOff
<1>2. /\ TypeOK /\ PortInv /\ ~Spinning /\ ini.retry <= Retries
      /\ hist.clean => dev = DevIdle \/ dev.phase = "in"
  BY <1>1, Between
<1>3. /\ port' \in [plugged : BOOLEAN, mounted : BOOLEAN, gen : Nat, media : Media,
                    faults : Nat]
      /\ ~port'.plugged /\ ~port'.mounted
      /\ port'.gen = port.gen /\ port'.media = port.media
  BY <1>1, <1>2 DEF TypeOK
<1>4. hist'.clean => (dev = DevIdle \/ dev.phase = "in")'
  BY <1>1, <1>2 DEF DevIdle
<1>5. CASE disk' = disk /\ call' = Spin
  <2>1. TypeOK'
    BY <1>1, <1>2, <1>3, <1>5, RestTypes DEF TypeOK
  <2>2. Spinning'
    BY <1>5, RestTypes DEF Spinning
  <2>3. PortInv'
    BY <1>1, <1>2, <1>3, <2>2 DEF PortInv
  <2> QED  BY <1>1, <1>2, <1>5, <2>1, <2>3, Spins
<1>6. CASE /\ call' = call
           /\ \/ disk.status = "IDLE" /\ disk' = disk
              \/ disk' = [disk EXCEPT !.status = "CLOSE"]
  <2>1. disk' \in Disks /\ disk'.status \in {"IDLE", "CLOSE"}
    BY <1>2, <1>6 DEF TypeOK, Disks
  <2>2. Typed' /\ mutex' \in {0, 1}
    BY <1>1, <1>2, <1>3, <2>1 DEF TypeOK, Typed
  <2>3. ~Usable'
    BY <2>1 DEF Usable
  <2>4. PortInv'
    BY <1>2, <1>3, <2>3 DEF PortInv
  <2> QED  BY <1>1, <1>4, <1>6, <2>1, <2>2, <2>4, StaysClosed
<1> QED  BY <1>1, <1>5, <1>6

\* A medium is plugged in: nothing is under way then, but a call that waits for ever.
LEMMA PlugKeeps ==
    ASSUME IInv, Plug
    PROVE  IInv'
<1>1. /\ ~port.plugged /\ ~port.mounted /\ port.gen < Len(port.media)
      /\ port' = [port EXCEPT !.plugged = TRUE, !.gen = @ + 1]
      /\ dev' = DevIdle /\ stored' = {}
      /\ disk' = disk /\ mutex' = mutex /\ call' = call /\ ini' = ini /\ hist' = hist
  BY DEF Plug
<1>2. TypeOK /\ PortInv /\ StatusInv /\ RoundInv
  BY DEF IInv
<1>3. /\ port' \in [plugged : BOOLEAN, mounted : BOOLEAN, gen : Nat, media : Media,
                    faults : Nat]
      /\ ~port'.mounted /\ port'.gen = port.gen + 1 /\ port'.media = port.media
  <2>1. port \in [plugged : BOOLEAN, mounted : BOOLEAN, gen : Nat, media : Media,
                  faults : Nat]
    BY <1>2 DEF TypeOK
  <2>2. port.gen + 1 \in Nat
    BY <2>1
  <2>3. port' = [port EXCEPT !.plugged = TRUE, !.gen = port.gen + 1]
    BY <1>1
  <2> QED  BY <1>1, <2>1, <2>2, <2>3
<1>4. port'.gen >= 1 /\ port'.gen <= Len(port'.media)
  <2>1. port.gen \in Nat /\ Len(port.media) \in Nat
    BY <1>2, UsbStorageAssumption DEF TypeOK
  <2> QED  BY <1>1, <1>3, <2>1
<1>5. dev' \in Devs /\ (dev = DevIdle)'
  <2>1. <<>> \in Seq(Items) /\ NoCmd \in Cmds
    BY EmptySeq DEF NoCmd, Cmds, Ops
  <2> QED  BY <1>1, <2>1 DEF DevIdle, Devs, Phases
<1>6. Typed' /\ mutex' \in {0, 1} /\ TypeOK'
  BY <1>1, <1>2, <1>3, <1>5 DEF TypeOK, Typed
<1>7. CASE Spinning
  <2>1. call' = Spin /\ Spinning'
    BY <1>1, <1>2, <1>7 DEF StatusInv, Spinning
  <2>2. PortInv'
    BY <1>3, <1>4, <1>5, <2>1 DEF PortInv
  <2> QED  BY <1>1, <1>2, <1>6, <2>1, <2>2, Spins DEF RoundInv
<1>8. CASE ~Spinning
  <2>1. ~Usable
    BY <1>1, <1>2, <1>8 DEF PortInv
  <2>2. ~Active /\ call # Looping
    <3>1. call.who \in {"app", "init", "ioctl"}
      BY <1>2 DEF TypeOK, Calls
    <3> QED  BY <1>2, <2>1, <3>1 DEF StatusInv, Usable
  <2>3. call = Idle
    <3>1. call.cmd.op \in Ops
      BY <1>2 DEF TypeOK, Calls, Cmds
    <3>2. call.cmd.op \in {"none", "init", "spin"}
      BY <2>2, <3>1 DEF Active, Ops
    <3> QED  BY <1>2, <1>8, <2>2, <3>2 DEF StatusInv, Spinning
  <2>4. ~Usable' /\ disk'.status \in {"IDLE", "CLOSE"}
    BY <1>1, <2>1 DEF Usable
  <2>5. PortInv'
    BY <1>3, <1>4, <1>5, <2>4 DEF PortInv
  <2> QED  BY <1>1, <1>5, <1>6, <2>3, <2>4, <2>5, StaysClosed
<1> QED  BY <1>7, <1>8

\* Only the socket changes, and it is the same medium: the cable is pulled, or nothing
\* happens at all.
LEMMA FrameKeeps ==
    ASSUME IInv,
           port' \in [plugged : BOOLEAN, mounted : BOOLEAN, gen : Nat, media : Media,
                      faults : Nat],
           port'.gen = port.gen, port'.media = port.media, port'.mounted = port.mounted,
           port'.plugged => port.plugged,
           dev' = dev, stored' = stored, disk' = disk, mutex' = mutex, call' = call,
           ini' = ini, hist' = hist
    PROVE  IInv'
<1>1. TypeOK'
  BY DEF IInv, TypeOK
<1>2. PortInv'
  <2>1. (Spinning' <=> Spinning) /\ (Usable' <=> Usable) /\ (dev = DevIdle)' = (dev = DevIdle)
    BY DEF Spinning, Usable, DevIdle
  <2> QED  BY <2>1 DEF IInv, PortInv
<1>3. StatusInv' /\ RoundInv'
  BY DEF IInv, StatusInv, RoundInv, Spinning, Active, Idle, Looping, Spin
<1>4. /\ (Active' <=> Active) /\ (Reading' <=> Reading) /\ (Large' <=> Large)
      /\ (Writing' <=> Writing) /\ (Spinning' <=> Spinning) /\ (Usable' <=> Usable)
      /\ Medium' = Medium /\ Opened' = Opened
  BY DEF Active, Reading, Large, Writing, Spinning, Usable, Medium, Opened
<1>5. LunInv'
  <2>1. (call = Idle)' = (call = Idle) /\ (call = Looping)' = (call = Looping)
    BY DEF Idle, Looping
  <2> QED  BY <1>4, <2>1 DEF IInv, LunInv
<1>6. /\ \A m, e : (AtData(m, e)' <=> AtData(m, e)) /\ (AtCbw(m, e)' <=> AtCbw(m, e))
      /\ \A d, m, e : AtSkip(d, m, e)' <=> AtSkip(d, m, e)
      /\ \A e : NoError(e)' <=> NoError(e)
      /\ Stored' <=> Stored
  BY DEF AtData, AtCbw, AtSkip, NoError, Stored
<1>7. \A g, l, s : Sector(g, l, s)' = Sector(g, l, s)
  BY DEF Sector
<1>8. \A g, l, s, n : Sectors(g, l, s, n)' = Sectors(g, l, s, n)
  BY DEF Sectors, Sector
<1>9. \A n, g, l, s : Offers(n, g, l, s)' <=> Offers(n, g, l, s)
  BY DEF Offers, Sector
<1>10. \A c : Accept(c)' = Accept(c)
  BY <1>4, <1>8 DEF Accept, InCsw, Sending, DevIdle
<1>11. SmallShape' /\ AnswerInv' /\ TrustInv'
  <2>1. SmallShape'
    BY <1>4, <1>6 DEF IInv, SmallShape
  <2>2. AnswerInv'
    BY <1>4, <1>6, <1>10 DEF IInv, AnswerInv, Torn, DevIdle
  <2>3. TrustInv'
    BY <1>4 DEF IInv, TrustInv
  <2> QED  BY <2>1, <2>2, <2>3
<1>12. SmallClean'
  BY <1>4, <1>6, <1>8, <1>10 DEF IInv, SmallClean, DevIdle
<1>13. WriteInv'
  BY <1>4, <1>6 DEF IInv, WriteInv, DevIdle
<1>14. LargeShape'
  BY <1>4, <1>6 DEF IInv, LargeShape
<1>15. LargeClean'
  BY <1>4, <1>6, <1>7, <1>9 DEF IInv, LargeClean, DevIdle
<1>16. RestInv'
  BY <1>4, <1>9 DEF IInv, RestInv, DevIdle, Idle, Looping
<1> QED  BY <1>1, <1>2, <1>3, <1>5, <1>11, <1>12, <1>13, <1>14, <1>15, <1>16 DEF IInv

-----------------------------------------------------------------------------
(* The theorems.                                                            *)

\* The disk as it starts: nothing is plugged in and nothing is open.
LEMMA InitInv ==
    ASSUME Init
    PROVE  IInv
<1>1. PICK ms \in Media : port = [plugged |-> FALSE, mounted |-> FALSE, gen |-> 0,
                                  media |-> ms, faults |-> 0]
  BY DEF Init
<1>2. /\ dev = DevIdle /\ disk = mass_stor /\ mutex = 0 /\ call = Idle /\ ini = NoInit
      /\ hist = [clean |-> TRUE, follows |-> TRUE, opened |-> 0]
  BY DEF Init
<1>3. NoCap \in Caps /\ <<>> \in Seq(Items) /\ NoCmd \in Cmds
  BY EmptySeq DEF NoCap, Caps, NoCmd, Cmds, Ops
<1>4. disk \in Disks /\ disk.status = "IDLE"
  BY <1>2, <1>3 DEF mass_stor, Disks, Senses
<1>5. dev \in Devs
  BY <1>2, <1>3 DEF DevIdle, Devs, Phases
<1>6. /\ ini \in [state : Nat, retry : Nat, ret : {"ok", "err", "offline"}, pick : {0, 1}]
      /\ ini.retry <= Retries
  BY <1>2, UsbStorageAssumption DEF NoInit
<1>7. TypeOK
  BY <1>1, <1>2, <1>4, <1>5, <1>6, RestTypes DEF TypeOK
<1>8. ~Usable /\ AtRest
  BY <1>2, <1>4 DEF Usable, AtRest
<1>9. /\ ~Active /\ SmallShape /\ AnswerInv /\ TrustInv /\ SmallClean /\ WriteInv
      /\ LargeShape /\ LargeClean /\ ~Spinning /\ call # Looping
  <2>1. AtRestRule
    BY Resting
  <2> QED  BY <1>2, <1>8, <2>1, RestTypes DEF AtRestRule
<1>10. PortInv
  <2>1. Len(ms) \in Nat
    BY UsbStorageAssumption
  <2> QED  BY <1>1, <1>8, <2>1 DEF PortInv
<1>11. StatusInv /\ RoundInv /\ LunInv /\ RestInv
  <2>1. StatusInv
    BY <1>2, <1>4, <1>9, RestTypes DEF StatusInv
  <2>2. RoundInv
    BY <1>6, <1>9 DEF RoundInv
  <2>3. LunInv
    BY <1>4, <1>8, <1>9 DEF LunInv
  <2>4. RestInv
    BY <1>2, <1>4, <1>9 DEF RestInv
  <2> QED  BY <2>1, <2>2, <2>3, <2>4
<1> QED  BY <1>7, <1>9, <1>10, <1>11 DEF IInv

\* Every step keeps the invariant.
LEMMA Inductive ==
    ASSUME IInv, [Next]_vars
    PROVE  IInv'
<1>1. CASE Transfer
  BY <1>1, TransferKeeps
<1>2. CASE ReadOver
  BY <1>2, ReadOverKeeps
<1>3. CASE WriteOver
  BY <1>3, WriteOverKeeps
<1>4. CASE IoctlOver
  BY <1>4, IoctlOverKeeps
<1>5. CASE InitRound
  BY <1>5, RoundKeeps
<1>6. CASE InitOver
  BY <1>6, InitOverKeeps
<1>7. CASE InquiryOver
  BY <1>7, InquiryOverKeeps
<1>8. CASE CheckOver
  BY <1>8, CheckOverKeeps
<1>9. CASE SenseOver
  BY <1>9, SenseOverKeeps
<1>10. CASE usb_stor_open
  BY <1>10, OpenKeeps
<1>11. CASE usb_stor_close
  BY <1>11, CloseKeeps
<1>12. ASSUME NEW lba \in 0..MaxLba, _usb_stor_read_big_block(lba) PROVE IInv'
  BY <1>12, BigKeeps
<1>13. ASSUME NEW lba \in 0..MaxLba, NEW n \in 1..MaxNum, usb_stor_read(lba, n) PROVE IInv'
  <2>1. /\ call = Idle /\ Usable /\ Opened.k <= 1 /\ Pend(Access("READ_10", lba, n))
        /\ disk' = [disk EXCEPT !.status = "READ"]
        /\ port' = port /\ dev' = dev /\ stored' = stored /\ ini' = ini /\ hist' = hist
    BY <1>13 DEF usb_stor_read
  <2> QED  BY <2>1, AccessKeeps
<1>14. ASSUME NEW lba \in 0..MaxLba, NEW n \in 1..MaxNum, usb_stor_write(lba, n) PROVE IInv'
  <2>1. /\ call = Idle /\ Usable /\ Opened.k <= 1 /\ Pend(Access("WRITE_10", lba, n))
        /\ disk' = [disk EXCEPT !.status = "WRITE"]
        /\ port' = port /\ dev' = dev /\ stored' = stored /\ ini' = ini /\ hist' = hist
    BY <1>14 DEF usb_stor_write
  <2> QED  BY <2>1, AccessKeeps
<1>15. ASSUME NEW l \in {0, 1}, IOCTL_SET_CUR_LUN(l) PROVE IInv'
  BY <1>15, IoctlKeeps
<1>16. CASE Mount
  BY <1>16, MountKeeps
<1>17. CASE Unmount
  BY <1>17, UnmountKeeps
<1>18. CASE Plug
  BY <1>18, PlugKeeps
<1>19. CASE Unplug
  <2>1. port \in [plugged : BOOLEAN, mounted : BOOLEAN, gen : Nat, media : Media,
                  faults : Nat]
    BY DEF IInv, TypeOK
  <2>2. /\ port' = [port EXCEPT !.plugged = FALSE]
        /\ dev' = dev /\ stored' = stored /\ disk' = disk /\ mutex' = mutex
        /\ call' = call /\ ini' = ini /\ hist' = hist
    BY <1>19 DEF Unplug
  <2>3. /\ port' \in [plugged : BOOLEAN, mounted : BOOLEAN, gen : Nat, media : Media,
                      faults : Nat]
        /\ port'.gen = port.gen /\ port'.media = port.media
        /\ port'.mounted = port.mounted /\ ~port'.plugged
    BY <2>1, <2>2
  <2> QED  BY <2>2, <2>3, FrameKeeps
<1>20. CASE UNCHANGED vars
  <2>1. port \in [plugged : BOOLEAN, mounted : BOOLEAN, gen : Nat, media : Media,
                  faults : Nat]
    BY DEF IInv, TypeOK
  <2> QED  BY <1>20, <2>1, FrameKeeps DEF vars
<1>21. CASE Driver
  BY <1>1, <1>2, <1>3, <1>4, <1>5, <1>6, <1>7, <1>8, <1>9, <1>21 DEF Driver
<1>22. CASE App
  BY <1>10, <1>11, <1>12, <1>13, <1>14, <1>15, <1>22 DEF App
<1> QED  BY <1>16, <1>17, <1>18, <1>19, <1>20, <1>21, <1>22 DEF Next

\* The inductive invariant of the driver and of the device.
LEMMA Always == Spec => []IInv
<1>1. Init => IInv
  BY InitInv
<1>2. IInv /\ [Next]_vars => IInv'
  BY Inductive
<1> QED  BY <1>1, <1>2, PTL DEF Spec

\* Every variable keeps to its type: the lun and the capacities of the disk, the phase
\* of the device, and what is left of the call.
THEOREM TypeCorrect == Spec => []TypeOK
<1>1. IInv => TypeOK
  BY DEF IInv
<1> QED  BY <1>1, Always, PTL

\* Between the calls of usb_stor_read and the others, while no transfer has failed, the
\* driver and the device are in step: what _usb_stor_read_big_block will continue with
\* is what the device will send.
THEOREM StaysInStep == Spec => []InStep
<1>1. IInv => InStep
  <2> SUFFICES ASSUME IInv, call = Idle, hist.clean, port.plugged, port.mounted,
                      disk.status = "OPEN"
               PROVE  /\ disk.remain_len = 0 => dev = DevIdle
                      /\ disk.remain_len > 0 => /\ dev.phase = "in"
                                                /\ Len(dev.queue) = disk.remain_len
                      /\ disk.remain_len > 0 /\ hist.follows =>
                            Head(dev.queue) = Sector(hist.opened, disk.curlun, disk.prev_lba + 1)
    BY DEF InStep
  <2>1. RestInv /\ disk.remain_len \in Nat /\ disk.prev_lba \in Nat /\ dev.queue \in Seq(Items)
    BY DEF IInv, TypeOK, Disks, Devs
  <2>2. /\ disk.remain_len = 0 => dev = DevIdle
        /\ disk.remain_len > 0 =>
              Offers(disk.remain_len, hist.opened, disk.curlun, disk.prev_lba + 1)
    BY <2>1 DEF RestInv
  <2>3. ASSUME disk.remain_len > 0, hist.follows
        PROVE  Head(dev.queue) = Sector(hist.opened, disk.curlun, disk.prev_lba + 1)
    <3>1. Len(dev.queue) = disk.remain_len /\ 1 \in 1..disk.remain_len
      BY <2>1, <2>2, <2>3 DEF Offers
    <3>2. dev.queue[1] = Sector(hist.opened, disk.curlun, disk.prev_lba + 1 + 1 - 1)
      BY <2>2, <2>3, <3>1 DEF Offers
    <3>3. disk.prev_lba + 1 + 1 - 1 = disk.prev_lba + 1
      BY <2>1
    <3>4. Head(dev.queue) = dev.queue[1]
      BY <2>1, <2>3, <3>1
    <3> QED  BY <3>2, <3>3, <3>4
  <2> QED  BY <2>2, <2>3 DEF Offers
<1> QED  BY <1>1, Always, PTL

\* The data of one sector.
LEMMA OneSector ==
    ASSUME NEW g, NEW l, NEW s \in Nat
    PROVE  Sectors(g, l, s, 1) = <<Sector(g, l, s)>>
<1> DEFINE x == Sector(g, l, s)
<1>1. Sectors(g, l, s, 1) = [i \in 1..1 |-> x]
  <2>1. \A i \in 1..1 : s + i - 1 = s
    OBVIOUS
  <2> QED  BY <2>1 DEF Sectors
<1> HIDE DEF x
<1>2. [i \in 1..1 |-> x] = <<x>>
  OBVIOUS
<1> QED  BY <1>1, <1>2 DEF x

\* A read that reports success, by usb_stor_read or _usb_stor_read_big_block, returns
\* the sectors that were asked for as they are on the medium.
THEOREM ReadsTheMedium == Spec => []ReadsAreTrue
<1>1. IInv => ReadsAreTrue
  <2> SUFFICES ASSUME IInv, Succeeds("READ_10"), hist.follows
               PROVE  call.got = Sectors(hist.opened, call.cmd.lun, call.at, call.num)
    BY DEF ReadsAreTrue
  <2>1. /\ call.cmd.op = "READ_10" /\ call.todo = <<>>
        /\ ~call.failed /\ call.csw = 0 /\ call.trusted
    BY DEF Succeeds, Over
  <2>2. /\ TypeOK /\ PortInv /\ StatusInv /\ TrustInv /\ SmallShape /\ SmallClean
        /\ LargeShape /\ LargeClean
    BY DEF IInv
  <2>3. Active /\ Reading /\ ~Writing /\ ~Spinning
    BY <2>1 DEF Active, Reading, Writing, Spinning
  <2>4. hist.clean
    BY <2>1, <2>2, <2>3 DEF TrustInv
  <2>5. AtData(0, 0) /\ NoError(0)
    BY <2>1 DEF AtData, FromData, Ends, NoError
  <2>6. hist.opened = port.gen
    <3>1. call.who = "app"
      BY <2>1, <2>2, <2>3 DEF StatusInv
    <3>2. Usable
      BY <2>2, <2>3, <3>1 DEF StatusInv, Usable
    <3> QED  BY <2>2, <2>3, <3>2 DEF PortInv
  <2>7. CASE ~Large
    <3>1. call.got = Sectors(port.gen, call.cmd.lun, call.at, call.num)
      BY <2>2, <2>3, <2>4, <2>5, <2>7 DEF SmallClean
    <3> QED  BY <2>6, <3>1
  <2>8. CASE Large
    <3>1. DataHolds(0, 0)
      <4>1. \A m \in Nat, e \in {0, 1} : AtData(m, e) => DataHolds(m, e)
        BY <2>2, <2>3, <2>4, <2>8, LargeCleanThen
      <4> QED  BY <2>5, <4>1
    <3>2. call.got = <<Sector(port.gen, call.cmd.lun, call.at)>>
      BY <2>5, <3>1 DEF DataHolds
    <3>3. call.num = 1
      BY <2>2, <2>3, <2>8 DEF LargeShape
    <3>4. Sectors(port.gen, call.cmd.lun, call.at, 1)
            = <<Sector(port.gen, call.cmd.lun, call.at)>>
      <4>1. call.at \in Nat
        BY <2>2 DEF TypeOK, Calls
      <4> QED  BY <4>1, OneSector
    <3> QED  BY <2>6, <3>2, <3>3, <3>4
  <2> QED  BY <2>7, <2>8
<1> QED  BY <1>1, Always, PTL

\* A write that usb_stor_write reports as done is on the medium, whatever failed
\* during it.
THEOREM StoresTheWrites == Spec => []WritesAreStored
<1>1. IInv => WritesAreStored
  <2> SUFFICES ASSUME IInv, Succeeds("WRITE_10")
               PROVE  Stored
    BY DEF WritesAreStored, Stored
  <2>1. /\ call.cmd.op = "WRITE_10" /\ call.todo = <<>>
        /\ ~call.failed /\ call.csw = 0 /\ call.trusted
    BY DEF Succeeds, Over
  <2>2. Active /\ Writing
    BY <2>1 DEF Active, Writing
  <2>3. AtData(0, 0)
    BY <2>1 DEF AtData, FromData, Ends
  <2> QED  BY <2>1, <2>2, <2>3 DEF IInv, WriteInv
<1> QED  BY <1>1, Always, PTL
=============================================================================
