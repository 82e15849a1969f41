--------------------------- MODULE UsbHostProofs ---------------------------
(***************************************************************************)
(* Proofs about UsbHost, for any devices, retries, lengths and faults: a   *)
(* bulk transfer that reports success is complete, a mount that succeeds   *)
(* is true, and the application knows of every disk that is mounted.       *)
(*                                                                         *)
(* The invariant ties the flag usb_host_sem to the packet it answers while *)
(* no packet has been given up, counts the packets of a bulk transfer, and *)
(* says what the device must have obeyed at each request of a mount if it  *)
(* is still the device whose bus was reset.                                *)
(***************************************************************************)
EXTENDS UsbHost, FiniteSetTheorems, TLAPS

Pcs == {"none", "wait", "csr", "pend", "exit", "done"}
Reqs == {"none", "get_device_descriptor", "set_address", "get_config_descriptor",
         "set_configuration", "usb_clear_feature"}
Rets == {"ok", "TIMEOUT", "OFFLINE", "CONTROL_STALL", "CONTROL", "stall", "error"}
MountPcs == {"idle", "round", "desc", "addr", "desc2", "head", "all", "conf",
             "notify", "fail"}
Xfers == [kind : {"none", "ctl", "rx", "tx"}, pc : Pcs, req : Reqs,
          stage : {"SETUP", "IN", "OUT"}, len : Nat, total : Nat, moved : Nat,
          empty : BOOLEAN, again : BOOLEAN, ret : Rets]

TransferOK ==
    /\ cable \in [in : BOOLEAN, gen : Nat, faults : Nat]
    /\ func \in [addr : {0, 1}, configured : BOOLEAN]
    /\ devnum \in {0, 1} /\ sem \in {0, 1}
    /\ ep \in {"none", "sent", "ready", "stall", "error"}
    /\ urb \in [len : Nat, msg : {"ok", "OFFLINE", "stall", "error"}]
    /\ xfer \in Xfers
    /\ late \in BOOLEAN

HostOK ==
    /\ device \in Seq({"disk", "malformed", "known", "unknown"})
    /\ host_dev \in [status : {0, 1}, disks : SUBSET Nat]
    /\ mount \in [pc : MountPcs, notify : BOOLEAN, i : Nat, gen : Nat]
    /\ bmUsbEvent \in BOOLEAN
    /\ otg \in [seen : BOOLEAN, event : {"none", "IN", "OUT"}]
    /\ app \in [has : BOOLEAN, silent : BOOLEAN]

TypeOK == TransferOK /\ HostOK

\* How far a transfer is.
PcInv ==
    /\ At("none") <=> xfer.kind = "none"
    /\ At("none") => xfer = NoXfer
    /\ xfer.kind = "ctl" => xfer.pc \in {"wait", "csr", "exit", "done"}
    /\ Bulk => xfer.pc \in {"pend", "exit", "done"}
    /\ xfer.pc \in {"none", "done"} => ep = "none"
    /\ xfer.kind = "ctl" /\ At("exit") => xfer.ret # "ok"
    /\ xfer.kind = "ctl" /\ xfer.total = 0 => xfer.stage # "OUT"

\* While no packet was given up, the flag belongs to the packet of the transfer
\* under way.  An unmount sets it as well, and the next mount clears it.
SemInv ==
    /\ xfer.pc \in {"none", "done"} => sem = 0 \/ (host_dev.status = 0 /\ mount.pc = "idle")
    /\ xfer.pc \in {"wait", "pend"} => (sem = 0 <=> ep = "sent")
    /\ xfer.pc \in {"csr", "exit"} => sem = 0 /\ ep # "sent"

\* The packets of a bulk transfer.
MovedInv ==
    /\ xfer.kind = "rx" /\ ep = "sent" => urb.len > 0 /\ xfer.moved + urb.len = xfer.total
    /\ xfer.kind = "tx" /\ ep = "sent" => xfer.moved + urb.len + 1 = xfer.total
    /\ xfer.pc \in {"pend", "exit"} => xfer.ret = "ok"
    /\ Bulk /\ xfer.pc \in {"pend", "exit"} /\ ep # "sent" /\ urb.msg = "ok"
         => Complete
    /\ Bulk /\ At("done") /\ xfer.ret = "ok" => Complete

\* Which request a mount is at.
Requests == {"desc", "addr", "desc2", "head", "all", "conf"}
Addressed == {"desc2", "head", "all", "conf"}
MountInv ==
    /\ mount.pc \in Requests => xfer.kind = "ctl"
    /\ mount.pc \in {"round", "notify", "fail"} => At("none")
    /\ mount.pc = "idle" => xfer.req \in {"none", "usb_clear_feature"}
    /\ mount.pc = "addr" => xfer.req = "set_address" /\ xfer.total = 0
    /\ mount.pc \in {"desc2", "head", "all"}
         => xfer.req \notin {"set_address", "set_configuration"}
    /\ mount.pc = "conf" => xfer.req = "set_configuration" /\ xfer.total = 0
    /\ mount.pc \in Addressed => devnum = 1
    /\ mount.gen <= cable.gen

\* What the device has done of it, if it is the one whose bus was reset.
SameDevice == cable.in /\ cable.gen = mount.gen
Obeyed == (xfer.stage = "IN" /\ ep = "ready") \/ (At("done") /\ xfer.ret = "ok")
FuncInv ==
    SameDevice =>
        /\ mount.pc = "addr" /\ Obeyed => func.addr = 1
        /\ mount.pc \in Addressed => func.addr = 1
        /\ mount.pc = "conf" /\ Obeyed => func.configured

\* What the application knows.
AppInv ==
    /\ host_dev.status = 1 => mount.pc \in {"idle", "notify"}
    /\ host_dev.status = 1 /\ mount.pc = "idle" /\ HasDisk /\ ~app.silent => app.has

IInv ==
    /\ TypeOK /\ PcInv /\ MountInv /\ FuncInv /\ AppInv
    /\ ~late => SemInv /\ MovedInv

-----------------------------------------------------------------------------
(* What stays when its variables stay.                                      *)

\* The invariants of the host, under a step that leaves the host alone.
LEMMA HostStays ==
    ASSUME HostOK, AppInv, UNCHANGED hvars
    PROVE  HostOK' /\ AppInv'
BY DEF HostOK, AppInv, HasDisk, hvars

\* The first state.
LEMMA InitInv == Init => IInv
<1> SUFFICES ASSUME Init PROVE IInv
  OBVIOUS
<1>1. TransferOK
  BY DEF Init, TransferInit, TransferOK, NoXfer, NoUrb, Xfers, Pcs, Reqs, Rets
<1>2. HostOK
  <2>1. device \in Seq({"disk", "malformed", "known", "unknown"})
    BY DEF Init
  <2>2. host_dev \in [status : {0, 1}, disks : SUBSET Nat]
    BY DEF Init, Unmounted
  <2>3. mount \in [pc : MountPcs, notify : BOOLEAN, i : Nat, gen : Nat]
    BY DEF Init, NoMount, MountPcs
  <2> QED
    BY <2>1, <2>2, <2>3 DEF Init, HostOK
<1>3. PcInv /\ SemInv /\ MovedInv
  BY DEF Init, TransferInit, NoXfer, PcInv, SemInv, MovedInv, At, Bulk
<1>4. MountInv
  BY DEF Init, TransferInit, NoXfer, NoMount, MountInv, Requests, Addressed, At
<1>5. FuncInv /\ AppInv
  BY DEF Init, NoMount, Unmounted, FuncInv, AppInv, Addressed
<1> QED
  BY <1>1, <1>2, <1>3, <1>4, <1>5 DEF IInv, TypeOK

-----------------------------------------------------------------------------
(* Transfers.                                                               *)

\* A control request begins with its SETUP stage.
LEMMA ControlBegins ==
    ASSUME NEW req \in Reqs, NEW len \in Nat, usb_control_msg(req, len)
    PROVE  /\ xfer' \in Xfers /\ xfer'.kind = "ctl" /\ xfer'.pc = "wait" /\ ep' = "sent"
           /\ xfer'.req = req /\ xfer'.total = len /\ xfer'.stage = "SETUP"
           /\ xfer'.ret = "ok"
BY DEF usb_control_msg, NoXfer, Xfers, Pcs, Rets

\* A stage that is over is the last one, or is followed by the next.
LEMMA StageMoves ==
    ASSUME xfer \in Xfers, NEW ret \in Rets, StageOver(ret)
    PROVE  /\ xfer' \in Xfers
           /\ xfer'.kind = xfer.kind /\ xfer'.req = xfer.req /\ xfer'.total = xfer.total
           /\ \/ /\ xfer'.pc = "done" /\ xfer'.ret = ret /\ xfer'.stage = xfer.stage
                 /\ ep' = "none" /\ (ret = "ok" => Last)
              \/ /\ xfer'.pc = "wait" /\ ep' = "sent" /\ ret = "ok" /\ ~Last
                 /\ xfer'.stage = IF xfer.stage = "SETUP" THEN "IN" ELSE "OUT"
<1>1. CASE ret # "ok" \/ Last
  <2>1. xfer' = [xfer EXCEPT !.pc = "done", !.ret = ret] /\ ep' = "none"
    BY <1>1 DEF StageOver
  <2> QED
    BY <1>1, <2>1 DEF Xfers, Pcs
<1>2. CASE ~(ret # "ok" \/ Last)
  <2>1. /\ xfer' = [xfer EXCEPT !.pc = "wait", !.again = FALSE,
                                !.stage = IF @ = "SETUP" THEN "IN" ELSE "OUT"]
        /\ ep' = "sent"
    BY <1>2 DEF StageOver
  <2> QED
    BY <1>2, <2>1 DEF Xfers, Pcs
<1> QED
  BY <1>1, <1>2

\* The mount under a step of the control request it waits for.
LEMMA RequestStays ==
    ASSUME PcInv, MountInv, FuncInv, UNCHANGED <<cable, func, devnum, mount>>,
           xfer.kind = "ctl", xfer'.kind = "ctl",
           xfer'.req = xfer.req, xfer'.total = xfer.total,
           Obeyed' => Obeyed
    PROVE  MountInv' /\ FuncInv'
<1>1. mount.pc \notin {"round", "notify", "fail"}
  BY DEF MountInv, PcInv
<1> QED
  BY <1>1 DEF MountInv, FuncInv, SameDevice, At, Requests, Addressed

\* The wait of a control transfer.
LEMMA CtlWaitStep == ASSUME IInv, CtlWait, UNCHANGED hvars PROVE IInv'
<1>0. /\ xfer.kind = "ctl" /\ xfer.pc = "wait"
      /\ UNCHANGED <<cable, func, devnum, ep, urb, host_dev, mount>>
  BY DEF CtlWait, Waiting, At, hvars
<1>1. TypeOK /\ PcInv /\ MountInv /\ FuncInv /\ AppInv /\ (~late => SemInv /\ MovedInv)
  BY DEF IInv
<1>2. xfer \in Xfers /\ sem \in {0, 1}
  BY <1>1 DEF TypeOK, TransferOK
<1>3. \/ /\ xfer' = [xfer EXCEPT !.pc = "csr"] /\ sem = 1 /\ sem' = 0 /\ late' = late
      \/ \E ret \in {"TIMEOUT", "OFFLINE"} :
            xfer' = [xfer EXCEPT !.pc = "exit", !.ret = ret] /\ sem' = sem /\ late' = TRUE
  BY DEF CtlWait, PendOk, PendTimeout, Consumed
<1>4. /\ xfer' \in Xfers /\ xfer'.kind = "ctl" /\ xfer'.pc \in {"csr", "exit"}
      /\ xfer'.req = xfer.req /\ xfer'.total = xfer.total /\ xfer'.stage = xfer.stage
      /\ xfer'.pc = "exit" => xfer'.ret # "ok" /\ late'
      /\ xfer'.pc = "csr" => sem = 1 /\ sem' = 0 /\ late' = late /\ xfer'.ret = xfer.ret
  BY <1>0, <1>2, <1>3 DEF Xfers, Pcs, Rets
<1>5. TypeOK' /\ AppInv'
  <2>1. TransferOK'
    BY ZenonT(30), <1>0, <1>1, <1>3, <1>4 DEF TypeOK, TransferOK
  <2> QED
    BY <1>1, <2>1, HostStays DEF TypeOK
<1>6. PcInv'
  BY <1>0, <1>1, <1>4 DEF PcInv, At, Bulk
<1>7. MountInv' /\ FuncInv'
  <2>1. Obeyed' => Obeyed
    BY <1>0, <1>4 DEF Obeyed, At
  <2> QED
    BY <1>0, <1>1, <1>4, <2>1, RequestStays
<1>8. ~late' => SemInv' /\ MovedInv'
  <2> SUFFICES ASSUME ~late' PROVE SemInv' /\ MovedInv'
    OBVIOUS
  <2>1. SemInv /\ MovedInv /\ xfer'.pc = "csr" /\ sem' = 0 /\ ep # "sent"
    BY <1>0, <1>1, <1>4 DEF SemInv
  <2> QED
    BY <1>0, <1>4, <2>1 DEF SemInv, MovedInv, Complete, At, Bulk
<1> QED
  BY <1>5, <1>6, <1>7, <1>8 DEF IInv

\* The end of a stage, however it ends: the request that goes on has been obeyed if
\* this was its last.
LEMMA StageOverStep ==
    ASSUME IInv, UNCHANGED <<cable, func, devnum, sem, urb, late>>, UNCHANGED hvars,
           xfer.kind = "ctl", xfer.pc \in {"csr", "exit"},
           NEW ret \in Rets, StageOver(ret),
           ret = "ok" => ep = "ready"
    PROVE  IInv'
<1>0. UNCHANGED <<host_dev, mount>>
  BY DEF hvars
<1>1. TypeOK /\ PcInv /\ MountInv /\ FuncInv /\ AppInv /\ (~late => SemInv /\ MovedInv)
  BY DEF IInv
<1>2. xfer \in Xfers
  BY <1>1 DEF TypeOK, TransferOK
<1>3. /\ xfer' \in Xfers
      /\ xfer'.kind = "ctl" /\ xfer'.req = xfer.req /\ xfer'.total = xfer.total
      /\ \/ /\ xfer'.pc = "done" /\ xfer'.ret = ret /\ xfer'.stage = xfer.stage
            /\ ep' = "none" /\ (ret = "ok" => Last)
         \/ /\ xfer'.pc = "wait" /\ ep' = "sent" /\ ret = "ok" /\ ~Last
            /\ xfer'.stage = IF xfer.stage = "SETUP" THEN "IN" ELSE "OUT"
  BY <1>2, StageMoves
<1>4. TypeOK' /\ AppInv'
  <2>1. TransferOK'
    BY <1>1, <1>3 DEF TypeOK, TransferOK
  <2> QED
    BY <1>1, <2>1, HostStays DEF TypeOK
<1>5. xfer.total = 0 => xfer.stage # "OUT"
  BY <1>1 DEF PcInv
<1>6. PcInv'
  <2>1. xfer'.total = 0 => xfer'.stage # "OUT"
    BY <1>2, <1>3, <1>5 DEF Last, Xfers
  <2> QED
    BY <1>3, <2>1 DEF PcInv, At, Bulk
<1>7. MountInv' /\ FuncInv'
  <2>1. ASSUME xfer.total = 0 PROVE Obeyed' => Obeyed
    BY <1>3, <1>5, <2>1 DEF Obeyed, At, Last
  <2>2. UNCHANGED <<cable, func, devnum, mount>>
    BY <1>0
  <2>3. CASE xfer.total = 0
    BY <1>1, <1>3, <2>1, <2>2, <2>3, RequestStays
  <2>4. CASE xfer.total # 0
    <3>1. mount.pc \notin {"round", "notify", "fail", "addr", "conf"}
      BY <1>1, <2>4 DEF PcInv, MountInv
    <3>2. MountInv'
      BY <1>1, <1>3, <2>2, <3>1 DEF MountInv, At
    <3> QED
      BY <1>1, <2>2, <3>1, <3>2 DEF FuncInv, SameDevice
  <2> QED
    BY <2>3, <2>4
<1>8. ~late' => SemInv' /\ MovedInv'
  <2> SUFFICES ASSUME ~late' PROVE SemInv' /\ MovedInv'
    OBVIOUS
  <2>2. SemInv /\ MovedInv /\ sem = 0 /\ sem' = 0
    BY <1>1 DEF SemInv
  <2>3. SemInv'
    BY <1>3, <2>2 DEF SemInv
  <2> QED
    BY <1>3, <2>2, <2>3 DEF MovedInv, At, Bulk
<1> QED
  BY <1>4, <1>6, <1>7, <1>8 DEF IInv

\* CSR0 after the wait.
LEMMA CtlReadStep == ASSUME IInv, CtlRead, UNCHANGED hvars PROVE IInv'
<1>0. /\ xfer.kind = "ctl" /\ xfer.pc = "csr"
      /\ UNCHANGED <<cable, func, devnum, sem, urb, late>> /\ UNCHANGED <<host_dev, mount>>
  BY DEF CtlRead, Waiting, At, hvars
<1>1. CASE \E ret \in Rets : StageOver(ret) /\ (ret = "ok" => ep = "ready")
  BY <1>0, <1>1, StageOverStep
<1>2. CASE /\ xfer' = [xfer EXCEPT !.pc = "wait", !.len = xfer.len - 1, !.again = TRUE]
           /\ ep' = "sent" /\ xfer.len > 1
  <2>1. TypeOK /\ PcInv /\ MountInv /\ FuncInv /\ AppInv /\ (~late => SemInv /\ MovedInv)
    BY DEF IInv
  <2>2. xfer \in Xfers
    BY <2>1 DEF TypeOK, TransferOK
  <2>3. xfer.len - 1 \in Nat
    BY <1>2, <2>2 DEF Xfers
  <2>4. /\ xfer' \in Xfers /\ xfer'.kind = "ctl" /\ xfer'.pc = "wait"
        /\ xfer'.req = xfer.req /\ xfer'.total = xfer.total /\ xfer'.stage = xfer.stage
    BY <1>0, <1>2, <2>2, <2>3 DEF Xfers, Pcs
  <2>5. TypeOK' /\ AppInv'
    <3>1. TransferOK'
      BY <1>0, <1>2, <2>1, <2>4 DEF TypeOK, TransferOK
    <3> QED
      BY <2>1, <3>1, HostStays DEF TypeOK
  <2>6. PcInv'
    BY <1>0, <2>1, <2>4 DEF PcInv, At, Bulk
  <2>7. MountInv' /\ FuncInv'
    <3>1. Obeyed' => Obeyed
      BY <1>2, <2>4 DEF Obeyed, At
    <3> QED
      BY <1>0, <2>1, <2>4, <3>1, RequestStays
  <2>8. ~late' => SemInv' /\ MovedInv'
    BY <1>0, <1>2, <2>1, <2>4 DEF SemInv, MovedInv, Complete, At, Bulk
  <2> QED
    BY <2>5, <2>6, <2>7, <2>8 DEF IInv
<1>3. CASE /\ xfer' = [xfer EXCEPT !.pc = "wait", !.again = TRUE]
           /\ ep = "sent" /\ ep' = ep
  <2>1. TypeOK /\ PcInv /\ MountInv /\ FuncInv /\ AppInv /\ (~late => SemInv /\ MovedInv)
    BY DEF IInv
  <2>2. xfer \in Xfers
    BY <2>1 DEF TypeOK, TransferOK
  <2>3. late
    BY <1>0, <1>3, <2>1 DEF SemInv
  <2>4. /\ xfer' \in Xfers /\ xfer'.kind = "ctl" /\ xfer'.pc = "wait"
        /\ xfer'.req = xfer.req /\ xfer'.total = xfer.total /\ xfer'.stage = xfer.stage
    BY <1>0, <1>3, <2>2 DEF Xfers, Pcs
  <2>5. TypeOK' /\ AppInv'
    <3>1. TransferOK'
      BY <1>0, <1>3, <2>1, <2>4 DEF TypeOK, TransferOK
    <3> QED
      BY <2>1, <3>1, HostStays DEF TypeOK
  <2>6. PcInv'
    BY <1>0, <2>1, <2>4 DEF PcInv, At, Bulk
  <2>7. MountInv' /\ FuncInv'
    <3>1. Obeyed' => Obeyed
      BY <1>3, <2>4 DEF Obeyed, At
    <3> QED
      BY <1>0, <2>1, <2>4, <3>1, RequestStays
  <2> QED
    BY <1>0, <2>3, <2>5, <2>6, <2>7 DEF IInv
<1>4. \/ ep = "stall" /\ StageOver("CONTROL_STALL")
      \/ ep = "error" /\ StageOver("CONTROL")
      \/ ep = "ready" /\ StageOver("ok")
      \/ /\ ep = "ready" /\ xfer.len > 1
         /\ xfer' = [xfer EXCEPT !.pc = "wait", !.len = xfer.len - 1, !.again = TRUE]
         /\ ep' = "sent"
      \/ /\ ep = "sent" /\ ep' = ep
         /\ xfer' = [xfer EXCEPT !.pc = "wait", !.again = TRUE]
  BY DEF CtlRead
<1>5. {"CONTROL_STALL", "CONTROL", "ok"} \subseteq Rets
  BY DEF Rets
<1> QED
  BY <1>1, <1>2, <1>3, <1>4, <1>5

\* A stage that was given up.
LEMMA CtlExitStep == ASSUME IInv, CtlExit, UNCHANGED hvars PROVE IInv'
<1>1. /\ xfer.kind = "ctl" /\ xfer.pc = "exit" /\ StageOver(xfer.ret)
      /\ UNCHANGED <<cable, func, devnum, sem, urb, late>>
  BY DEF CtlExit, Waiting, At
<1>2. xfer.ret \in Rets /\ xfer.ret # "ok"
  BY <1>1 DEF IInv, TypeOK, TransferOK, Xfers, PcInv, At
<1> QED
  BY <1>1, <1>2, StageOverStep

\* The mount while the disk driver transfers.
LEMMA NoRequest ==
    ASSUME IInv, Bulk PROVE mount.pc = "idle"
BY DEF IInv, TypeOK, HostOK, MountPcs, PcInv, MountInv, Requests, Bulk, At

\* What the mount says between mounts.
LEMMA IdleStays ==
    ASSUME IInv, mount.pc = "idle", UNCHANGED <<cable.gen, mount>>,
           xfer'.req \in {"none", "usb_clear_feature"}
    PROVE  MountInv' /\ FuncInv'
BY DEF IInv, MountInv, FuncInv, Requests, Addressed

\* The wait of a bulk transfer.
LEMMA BulkPendStep == ASSUME IInv, BulkPend, UNCHANGED hvars PROVE IInv'
<1>0. /\ Bulk /\ xfer.pc = "pend"
      /\ UNCHANGED <<cable, func, devnum, ep, urb, host_dev, mount>>
  BY DEF BulkPend, At, hvars
<1>1. TypeOK /\ PcInv /\ MountInv /\ FuncInv /\ AppInv /\ (~late => SemInv /\ MovedInv)
  BY DEF IInv
<1>2. xfer \in Xfers /\ sem \in {0, 1}
  BY <1>1 DEF TypeOK, TransferOK
<1>3. \/ /\ xfer' = [xfer EXCEPT !.pc = "exit"] /\ sem = 1 /\ sem' = 0 /\ late' = late
      \/ /\ xfer' = [xfer EXCEPT !.pc = "exit", !.ret = "TIMEOUT"]
         /\ sem' = sem /\ late' = TRUE
  BY DEF BulkPend, PendOk, PendTimeout, Consumed
<1>4. /\ xfer' \in Xfers /\ xfer'.kind = xfer.kind /\ xfer'.pc = "exit"
      /\ xfer'.req = xfer.req /\ xfer'.total = xfer.total /\ xfer'.moved = xfer.moved
      /\ xfer'.empty = xfer.empty
      /\ ~late' => sem = 1 /\ sem' = 0 /\ ~late /\ xfer'.ret = xfer.ret
  <2>1. CASE xfer' = [xfer EXCEPT !.pc = "exit"] /\ sem = 1 /\ sem' = 0 /\ late' = late
    BY <1>2, <2>1 DEF Xfers, Pcs, Rets
  <2>2. CASE xfer' = [xfer EXCEPT !.pc = "exit", !.ret = "TIMEOUT"] /\ late' = TRUE
    BY <1>2, <2>2 DEF Xfers, Pcs, Rets
  <2> QED
    BY <1>3, <2>1, <2>2
<1>5. TypeOK' /\ AppInv'
  <2>1. TransferOK'
    BY ZenonT(30), <1>0, <1>1, <1>3, <1>4 DEF TypeOK, TransferOK
  <2> QED
    BY <1>1, <2>1, HostStays DEF TypeOK
<1>6. PcInv'
  BY <1>0, <1>1, <1>4 DEF PcInv, At, Bulk
<1>7. MountInv' /\ FuncInv'
  <2>1. mount.pc = "idle" /\ xfer.req \in {"none", "usb_clear_feature"}
    BY <1>0, <1>1, NoRequest DEF MountInv
  <2> QED
    BY <1>0, <1>4, <2>1, IdleStays
<1>8. ~late' => SemInv' /\ MovedInv'
  <2> SUFFICES ASSUME ~late' PROVE SemInv' /\ MovedInv'
    OBVIOUS
  <2>1. SemInv /\ MovedInv /\ sem' = 0 /\ ep # "sent"
    BY <1>0, <1>1, <1>4 DEF SemInv
  <2> QED
    BY <1>0, <1>4, <2>1 DEF SemInv, MovedInv, Complete, At, Bulk
<1> QED
  BY <1>5, <1>6, <1>7, <1>8 DEF IInv

\* The end of a bulk transfer.
LEMMA BulkExitStep == ASSUME IInv, BulkExit, UNCHANGED hvars PROVE IInv'
<1> DEFINE ret == IF xfer.ret # "ok" THEN xfer.ret ELSE urb.msg
<1>0. /\ Bulk /\ xfer.pc = "exit"
      /\ UNCHANGED <<cable, func, devnum, sem, late, host_dev, mount>> /\ urb' = NoUrb
      /\ IF ret = "stall" THEN usb_control_msg("usb_clear_feature", 0)
         ELSE xfer' = [xfer EXCEPT !.pc = "done", !.ret = ret] /\ ep' = "none"
  BY DEF BulkExit, At, hvars
<1>1. TypeOK /\ PcInv /\ MountInv /\ FuncInv /\ AppInv /\ (~late => SemInv /\ MovedInv)
  BY DEF IInv
<1>2. xfer \in Xfers /\ urb.msg \in {"ok", "OFFLINE", "stall", "error"} /\ ret \in Rets
  BY <1>1 DEF TypeOK, TransferOK, Xfers, Rets
<1>3. urb' \in [len : Nat, msg : {"ok", "OFFLINE", "stall", "error"}]
  BY <1>0 DEF NoUrb
<1>4. mount.pc = "idle" /\ xfer.req \in {"none", "usb_clear_feature"}
  BY <1>0, <1>1, NoRequest DEF MountInv
<1>5. CASE ret = "stall"
  <2>1. "usb_clear_feature" \in Reqs /\ 0 \in Nat
    BY DEF Reqs
  <2>2. /\ xfer' \in Xfers /\ xfer'.kind = "ctl" /\ xfer'.pc = "wait" /\ ep' = "sent"
        /\ xfer'.req = "usb_clear_feature" /\ xfer'.total = 0 /\ xfer'.stage = "SETUP"
    BY <1>0, <1>5, <2>1, ControlBegins
  <2>3. TransferOK'
    BY <1>0, <1>1, <1>3, <2>2 DEF TypeOK, TransferOK
  <2>4. PcInv'
    BY <2>2 DEF PcInv, At, Bulk
  <2>5. ~late' => SemInv' /\ MovedInv'
    BY <1>0, <1>1, <2>2 DEF SemInv, MovedInv, Complete, At, Bulk
  <2> QED
    BY <1>0, <1>1, <1>4, <2>2, <2>3, <2>4, <2>5, HostStays, IdleStays DEF IInv, TypeOK
<1>6. CASE ret # "stall"
  <2>1. xfer' = [xfer EXCEPT !.pc = "done", !.ret = ret] /\ ep' = "none"
    BY <1>0, <1>6
  <2>2. /\ xfer' \in Xfers /\ xfer'.kind = xfer.kind /\ xfer'.pc = "done"
        /\ xfer'.req = xfer.req /\ xfer'.total = xfer.total /\ xfer'.moved = xfer.moved
        /\ xfer'.ret = ret /\ xfer'.empty = xfer.empty
    BY <1>2, <2>1 DEF Xfers, Pcs
  <2>3. TransferOK'
    BY <1>0, <1>1, <1>3, <2>1, <2>2 DEF TypeOK, TransferOK
  <2>4. PcInv'
    BY <1>0, <2>1, <2>2 DEF PcInv, At, Bulk
  <2>5. ~late' => SemInv' /\ MovedInv'
    <3> SUFFICES ASSUME ~late' PROVE SemInv' /\ MovedInv'
      OBVIOUS
    <3>1. SemInv /\ MovedInv /\ sem' = 0 /\ ep # "sent" /\ xfer.ret = "ok" /\ ret = urb.msg
      BY <1>0, <1>1 DEF SemInv, MovedInv
    <3>2. ret = "ok" => Complete
      BY <1>0, <3>1 DEF MovedInv
    <3> QED
      BY <2>1, <2>2, <3>1, <3>2 DEF SemInv, MovedInv, Complete, At, Bulk
  <2> QED
    BY <1>0, <1>1, <1>4, <2>2, <2>3, <2>4, <2>5, HostStays, IdleStays DEF IInv, TypeOK
<1> QED
  BY <1>5, <1>6

\* The count of a bulk transfer that is waited for.
LEMMA MovedMoves ==
    ASSUME xfer'.pc = "pend", xfer'.ret = "ok",
           xfer'.kind = "rx" /\ ep' = "sent"
             => urb'.len > 0 /\ xfer'.moved + urb'.len = xfer'.total,
           xfer'.kind = "tx" /\ ep' = "sent" => xfer'.moved + urb'.len + 1 = xfer'.total,
           ep' # "sent" /\ urb'.msg = "ok" => Complete'
    PROVE  MovedInv'
BY DEF MovedInv, At

\* The device answers a packet of a bulk transfer.
LEMMA BulkIsrStep ==
    ASSUME IInv, Bulk, ep = "sent", NEW answer \in Answers,
           BulkIsr(answer),
           cable' \in [in : BOOLEAN, gen : Nat, faults : Nat], UNCHANGED cable.gen,
           UNCHANGED <<func, devnum, late>>, UNCHANGED hvars
    PROVE  IInv'
<1> DEFINE ok == answer = "ready"
<1>0. UNCHANGED <<host_dev, mount>>
  BY DEF hvars
<1>1. TypeOK /\ PcInv /\ MountInv /\ FuncInv /\ AppInv /\ (~late => SemInv /\ MovedInv)
  BY DEF IInv
<1>2. /\ xfer \in Xfers /\ sem \in {0, 1}
      /\ urb \in [len : Nat, msg : {"ok", "OFFLINE", "stall", "error"}]
  BY <1>1 DEF TypeOK, TransferOK
<1>3. /\ urb' = [len |-> IF ok /\ urb.len > 0 THEN urb.len - 1 ELSE 0,
                 msg |-> IF answer \in {"ready", "empty"} THEN "ok" ELSE answer]
      /\ sem' = IF Posts(urb.len, ok) THEN 1 ELSE sem
      /\ ep' = IF Posts(urb.len, ok) THEN "none" ELSE "sent"
      /\ xfer' = [xfer EXCEPT !.moved = IF ok THEN xfer.moved + 1 ELSE xfer.moved,
                              !.empty = (answer = "empty")]
  BY DEF BulkIsr
<1>4. /\ urb' \in [len : Nat, msg : {"ok", "OFFLINE", "stall", "error"}]
      /\ urb'.msg = "ok" <=> ok \/ answer = "empty"
      /\ answer = "empty" => xfer.kind = "rx" /\ ~ok
      /\ urb'.len = IF ok /\ urb.len > 0 THEN urb.len - 1 ELSE 0
  BY <1>2, <1>3 DEF Answers
<1>5. xfer.moved \in Nat /\ (IF ok THEN xfer.moved + 1 ELSE xfer.moved) \in Nat
  BY <1>2 DEF Xfers
<1>6. /\ xfer' \in Xfers /\ xfer'.kind = xfer.kind /\ xfer'.pc = xfer.pc
      /\ xfer'.req = xfer.req /\ xfer'.total = xfer.total /\ xfer'.ret = xfer.ret
      /\ xfer'.stage = xfer.stage
      /\ xfer'.moved = IF ok THEN xfer.moved + 1 ELSE xfer.moved
      /\ xfer'.empty = (answer = "empty")
  BY <1>2, <1>3, <1>5 DEF Xfers
<1>7. TypeOK' /\ AppInv'
  <2>1. TransferOK'
    BY <1>1, <1>3, <1>4, <1>6 DEF TypeOK, TransferOK
  <2> QED
    BY <1>1, <2>1, HostStays DEF TypeOK
<1>8. xfer.pc \in {"pend", "exit"}
  BY <1>1 DEF PcInv, Bulk
<1>9. PcInv'
  BY <1>1, <1>6, <1>8 DEF PcInv, At, Bulk
<1>10. MountInv' /\ FuncInv'
  <2>1. mount.pc = "idle" /\ xfer.req \in {"none", "usb_clear_feature"}
    BY <1>1, NoRequest DEF MountInv
  <2> QED
    BY <1>0, <1>6, <2>1, IdleStays
<1>11. ~late' => SemInv' /\ MovedInv'
  <2> SUFFICES ASSUME ~late PROVE SemInv' /\ MovedInv'
    OBVIOUS
  <2>1. xfer.pc = "pend" /\ sem = 0 /\ xfer.ret = "ok"
    BY <1>1, <1>8 DEF SemInv, MovedInv
  <2>2. SemInv'
    BY <1>3, <1>6, <2>1 DEF SemInv
  <2>3. xfer.total \in Nat /\ urb.len \in Nat /\ xfer.moved \in Nat
    BY <1>2 DEF Xfers
  <2>4. CASE xfer.kind = "rx"
    <3>1. urb.len > 0 /\ xfer.moved + urb.len = xfer.total
      BY <1>1, <2>4 DEF MovedInv
    <3>2. Posts(urb.len, ok) <=> ~ok \/ urb.len = 1
      BY <2>4 DEF Posts
    <3>3. CASE ok /\ urb.len # 1
      <4>1. ep' = "sent" /\ urb'.len = urb.len - 1 /\ xfer'.moved = xfer.moved + 1
        BY <1>3, <1>4, <1>6, <3>1, <3>2, <3>3
      <4>2. urb'.len > 0 /\ xfer'.moved + urb'.len = xfer.total
        BY <2>3, <3>1, <3>3, <4>1
      <4> QED
        BY <1>6, <2>1, <2>2, <2>4, <4>1, <4>2, MovedMoves
    <3>4. CASE ok /\ urb.len = 1
      <4>1. ep' = "none" /\ xfer'.moved = xfer.total
        BY <1>3, <1>6, <2>3, <3>1, <3>2, <3>4
      <4>2. Complete'
        BY <1>6, <4>1 DEF Complete
      <4> QED
        BY <1>6, <2>1, <2>2, <2>4, <4>1, <4>2, MovedMoves
    <3>5. CASE ~ok
      <4>1. ep' = "none" /\ (urb'.msg = "ok" => answer = "empty")
        BY <1>3, <1>4, <3>2, <3>5
      <4>2. ASSUME answer = "empty" PROVE Complete'
        <5>1. xfer'.kind = "rx" /\ xfer'.empty /\ xfer'.moved = xfer.moved
          BY <1>6, <2>4, <3>5, <4>2
        <5>2. xfer.moved < xfer.total
          BY <2>3, <3>1
        <5> QED
          BY <1>6, <5>1, <5>2 DEF Complete
      <4> QED
        BY <1>6, <2>1, <2>2, <2>4, <4>1, <4>2, MovedMoves
    <3> QED
      BY <3>3, <3>4, <3>5
  <2>5. CASE xfer.kind = "tx"
    <3>1. xfer.moved + urb.len + 1 = xfer.total
      BY <1>1, <2>5 DEF MovedInv
    <3>2. Posts(urb.len, ok) <=> ~ok \/ urb.len = 0
      BY <2>5 DEF Posts
    <3>3. CASE ok /\ urb.len # 0
      <4>1. ep' = "sent" /\ urb'.len = urb.len - 1 /\ xfer'.moved = xfer.moved + 1
        BY <1>3, <1>4, <1>6, <2>3, <3>2, <3>3
      <4>2. xfer'.moved + urb'.len + 1 = xfer.total
        BY <2>3, <3>1, <3>3, <4>1
      <4> QED
        BY <1>6, <2>1, <2>2, <2>5, <4>1, <4>2, MovedMoves
    <3>4. CASE ok /\ urb.len = 0
      <4>1. ep' = "none" /\ xfer'.moved = xfer.total
        BY <1>3, <1>6, <2>3, <3>1, <3>2, <3>4
      <4>2. Complete'
        BY <1>6, <4>1 DEF Complete
      <4> QED
        BY <1>6, <2>1, <2>2, <2>5, <4>1, <4>2, MovedMoves
    <3>5. CASE ~ok
      <4>1. ep' = "none" /\ urb'.msg # "ok"
        BY <1>3, <1>4, <2>5, <3>2, <3>5
      <4> QED
        BY <1>6, <2>1, <2>2, <2>5, <4>1, MovedMoves
    <3> QED
      BY <3>3, <3>4, <3>5
  <2> QED
    BY <2>4, <2>5 DEF Bulk
<1> QED
  BY <1>7, <1>9, <1>10, <1>11 DEF IInv

\* What a control request does to a device that has answered its last stage.
LEMMA ObeysMoves ==
    ASSUME TransferOK
    PROVE  /\ Obeys \in [addr : {0, 1}, configured : BOOLEAN]
           /\ func.addr = 1 => Obeys.addr = 1
           /\ xfer.stage = "IN" /\ xfer.total = 0 /\ xfer.req = "set_address"
                => Obeys.addr = 1
           /\ xfer.stage = "IN" /\ xfer.total = 0 /\ xfer.req = "set_configuration"
                => Obeys.configured
<1>1. func \in [addr : {0, 1}, configured : BOOLEAN] /\ xfer.total \in Nat
  BY DEF TransferOK, Xfers
<1>2. CASE xfer.stage # "IN" \/ xfer.total > 0
  BY <1>1, <1>2 DEF Obeys
<1>3. CASE ~(xfer.stage # "IN" \/ xfer.total > 0)
  BY <1>1, <1>3 DEF Obeys
<1> QED
  BY <1>2, <1>3

\* The device answers a packet of a control transfer.
LEMMA CtlPacketStep ==
    ASSUME IInv, ~Bulk, ep = "sent", NEW answer \in {"ready", "stall", "error"},
           sem' = 1, ep' = answer, UNCHANGED <<urb, xfer>>,
           func' = IF xfer.kind = "ctl" /\ answer = "ready" THEN Obeys ELSE func,
           cable' \in [in : BOOLEAN, gen : Nat, faults : Nat],
           UNCHANGED <<cable.in, cable.gen>>,
           UNCHANGED <<devnum, late>>, UNCHANGED hvars
    PROVE  IInv'
<1>0. UNCHANGED <<host_dev, mount>>
  BY DEF hvars
<1>1. TypeOK /\ PcInv /\ MountInv /\ FuncInv /\ AppInv /\ (~late => SemInv /\ MovedInv)
  BY DEF IInv
<1>2. xfer \in Xfers /\ TransferOK
  BY <1>1 DEF TypeOK, TransferOK
<1>3. xfer.kind = "ctl" /\ xfer.pc \in {"wait", "csr", "exit"}
  BY <1>1, <1>2 DEF PcInv, Bulk, Xfers, Pcs, At
<1>4. /\ func' \in [addr : {0, 1}, configured : BOOLEAN]
      /\ func.addr = 1 => func'.addr = 1
      /\ answer = "ready" => func' = Obeys
  BY <1>2, <1>3, ObeysMoves DEF TransferOK
<1>5. TypeOK' /\ AppInv'
  <2>1. TransferOK'
    BY <1>2, <1>4 DEF TransferOK
  <2> QED
    BY <1>1, <2>1, HostStays DEF TypeOK
<1>6. PcInv'
  BY <1>1, <1>3 DEF PcInv, At, Bulk
<1>7. MountInv'
  BY <1>0, <1>1 DEF MountInv, At
<1>8. FuncInv'
  <2> SUFFICES ASSUME SameDevice'
               PROVE  /\ mount.pc = "addr" /\ Obeyed' => func'.addr = 1
                      /\ mount.pc \in Addressed => func'.addr = 1
                      /\ mount.pc = "conf" /\ Obeyed' => func'.configured
    BY <1>0 DEF FuncInv
  <2>1. SameDevice
    BY <1>0 DEF SameDevice
  <2>2. Obeyed' <=> xfer.stage = "IN" /\ answer = "ready"
    BY <1>3 DEF Obeyed, At
  <2>3. mount.pc = "addr" /\ Obeyed' => func'.addr = 1
    BY <1>1, <1>2, <1>4, <2>2, ObeysMoves DEF MountInv
  <2>4. mount.pc = "conf" /\ Obeyed' => func'.configured
    BY <1>1, <1>2, <1>4, <2>2, ObeysMoves DEF MountInv
  <2> QED
    BY <1>1, <1>4, <2>1, <2>3, <2>4 DEF FuncInv
<1>9. ~late' => SemInv' /\ MovedInv'
  BY <1>1, <1>3 DEF SemInv, MovedInv, Complete, At, Bulk
<1> QED
  BY <1>5, <1>6, <1>7, <1>8, <1>9 DEF IInv

\* The device answers a packet.
LEMMA PacketStep == ASSUME IInv, Packet, UNCHANGED hvars PROVE IInv'
<1>1. PICK answer \in Answers :
        /\ cable' = [cable EXCEPT !.faults = IF answer = "ready" THEN @ ELSE @ + 1]
        /\ IF Bulk THEN BulkIsr(answer)
                   ELSE sem' = 1 /\ ep' = answer /\ UNCHANGED <<urb, xfer>>
        /\ func' = IF xfer.kind = "ctl" /\ answer = "ready" THEN Obeys ELSE func
  BY DEF Packet
<1>2. ep = "sent" /\ UNCHANGED <<devnum, late>>
  BY DEF Packet
<1>3. cable \in [in : BOOLEAN, gen : Nat, faults : Nat]
  BY DEF IInv, TypeOK, TransferOK
<1>4. /\ cable' \in [in : BOOLEAN, gen : Nat, faults : Nat]
      /\ UNCHANGED <<cable.in, cable.gen>>
  BY <1>1, <1>3
<1>5. CASE Bulk
  <2>1. xfer.kind # "ctl"
    BY <1>5 DEF Bulk
  <2> QED
    BY <1>1, <1>2, <1>4, <1>5, <2>1, BulkIsrStep
<1>6. CASE ~Bulk
  <2>1. answer \in {"ready", "stall", "error"}
    BY <1>6 DEF Answers, Bulk
  <2> QED
    BY <1>1, <1>2, <1>4, <1>6, <2>1, CtlPacketStep
<1> QED
  BY <1>5, <1>6

\* The cable is pulled.
LEMMA UnplugStep == ASSUME IInv, Unplug, UNCHANGED hvars PROVE IInv'
<1>0. /\ UNCHANGED <<devnum, sem, ep, urb, xfer, late, host_dev, mount>>
      /\ cable' = [cable EXCEPT !.in = FALSE] /\ func' = [addr |-> 0, configured |-> FALSE]
  BY DEF Unplug, hvars
<1>1. TypeOK /\ PcInv /\ MountInv /\ AppInv /\ (~late => SemInv /\ MovedInv)
  BY DEF IInv
<1>2. cable \in [in : BOOLEAN, gen : Nat, faults : Nat]
  BY <1>1 DEF TypeOK, TransferOK
<1>3. /\ cable' \in [in : BOOLEAN, gen : Nat, faults : Nat]
      /\ ~cable'.in /\ UNCHANGED cable.gen
  BY <1>0, <1>2
<1>4. TypeOK' /\ AppInv'
  <2>1. TransferOK'
    BY <1>0, <1>1, <1>3 DEF TypeOK, TransferOK
  <2> QED
    BY <1>1, <2>1, HostStays DEF TypeOK
<1>5. PcInv' /\ MountInv'
  BY <1>0, <1>1, <1>3 DEF PcInv, MountInv, At, Bulk
<1>6. FuncInv'
  BY <1>3 DEF FuncInv, SameDevice
<1>7. ~late' => SemInv' /\ MovedInv'
  BY <1>0, <1>1 DEF SemInv, MovedInv, Complete, At, Bulk
<1> QED
  BY <1>4, <1>5, <1>6, <1>7 DEF IInv

-----------------------------------------------------------------------------
(* The host.                                                                *)

\* Between transfers.
LEMMA Rests ==
    ASSUME xfer' = NoXfer, ep' = "none"
    PROVE  /\ xfer' \in Xfers /\ PcInv' /\ MovedInv' /\ ~Obeyed'
           /\ xfer'.pc = "none" /\ xfer'.req = "none"
           /\ sem' = 0 => SemInv'
BY DEF NoXfer, Xfers, Pcs, Reqs, Rets, PcInv, MovedInv, SemInv, Obeyed, At, Bulk

\* After the start of a control request.
LEMMA Asks ==
    ASSUME NEW req \in Reqs, NEW len \in Nat, usb_control_msg(req, len)
    PROVE  /\ xfer' \in Xfers /\ PcInv' /\ MovedInv' /\ ~Obeyed' /\ ep' = "sent"
           /\ xfer'.kind = "ctl" /\ xfer'.req = req /\ xfer'.total = len
           /\ sem' = 0 => SemInv'
<1>1. /\ xfer' \in Xfers /\ xfer'.kind = "ctl" /\ xfer'.pc = "wait" /\ ep' = "sent"
      /\ xfer'.req = req /\ xfer'.total = len /\ xfer'.stage = "SETUP"
      /\ xfer'.ret = "ok"
  BY ControlBegins
<1> QED
  BY <1>1 DEF PcInv, MovedInv, SemInv, Obeyed, At, Bulk

\* A mount that is between two requests, or over: nothing of it is claimed.
LEMMA NoClaim ==
    ASSUME mount'.pc \in {"idle", "round", "notify", "fail"}, xfer'.pc = "none",
           xfer'.req = "none", mount'.gen <= cable'.gen
    PROVE  MountInv' /\ FuncInv'
BY DEF MountInv, FuncInv, Requests, Addressed, At

\* Another round, or none.
LEMMA Rounds ==
    ASSUME HostOK
    PROVE  /\ Fails \in [pc : MountPcs, notify : BOOLEAN, i : Nat, gen : Nat]
           /\ NextRound \in [pc : MountPcs, notify : BOOLEAN, i : Nat, gen : Nat]
           /\ Fails.pc = "fail" /\ NextRound.pc = "round"
           /\ Fails.gen = mount.gen /\ NextRound.gen = mount.gen
<1>1. mount \in [pc : MountPcs, notify : BOOLEAN, i : Nat, gen : Nat]
  BY DEF HostOK
<1>2. mount.i + 1 \in Nat
  BY <1>1
<1> QED
  BY <1>1, <1>2 DEF Fails, NextRound, MountPcs

\* A request of a mount is answered, and the next one sent.
LEMMA ChecksStep ==
    ASSUME IInv, mount.pc \in Requests, At("done"), NEW ret,
           NEW next \in Requests, NEW req \in Reqs, NEW len \in Nat,
           Checks(ret, next, req, len),
           UNCHANGED <<cable, func, sem, urb, late, device, host_dev, bmUsbEvent, otg, app>>,
           devnum' \in {0, 1},
           next = "addr" => req = "set_address" /\ len = 0,
           next \in {"desc2", "head", "all"} => req \notin {"set_address", "set_configuration"},
           next = "conf" => req = "set_configuration" /\ len = 0,
           ret = "ok" /\ next \in Addressed => devnum' = 1 /\ (SameDevice => func.addr = 1)
    PROVE  IInv'
<1>1. TypeOK /\ PcInv /\ MountInv /\ FuncInv /\ AppInv /\ (~late => SemInv /\ MovedInv)
  BY DEF IInv
<1>2. TransferOK /\ HostOK
  BY <1>1 DEF TypeOK
<1>3. mount \in [pc : MountPcs, notify : BOOLEAN, i : Nat, gen : Nat]
      /\ host_dev.status \in {0, 1} /\ mount.pc \notin {"idle", "notify"}
  BY <1>2 DEF HostOK, Requests
<1>4. host_dev.status = 0
  BY <1>1, <1>3 DEF AppInv
<1>5. ~late => sem' = 0
  BY <1>1, <1>3 DEF SemInv, At
<1>6. AppInv'
  BY <1>4 DEF AppInv
<1>7. CASE ret = "ok"
  <2>1. mount' = [mount EXCEPT !.pc = next] /\ usb_control_msg(req, len)
    BY <1>7 DEF Checks
  <2>2. /\ mount' \in [pc : MountPcs, notify : BOOLEAN, i : Nat, gen : Nat]
        /\ mount'.pc = next /\ mount'.gen = mount.gen
    BY <1>3, <2>1 DEF MountPcs, Requests
  <2>3. /\ xfer' \in Xfers /\ PcInv' /\ MovedInv' /\ ~Obeyed' /\ ep' = "sent"
        /\ xfer'.kind = "ctl" /\ xfer'.req = req /\ xfer'.total = len
        /\ sem' = 0 => SemInv'
    BY <2>1, Asks
  <2>4. TypeOK'
    BY <1>2, <2>2, <2>3 DEF TypeOK, TransferOK, HostOK
  <2>5. MountInv'
    BY <1>1, <1>7, <2>2, <2>3 DEF MountInv, Requests, Addressed
  <2>6. FuncInv'
    <3>1. SameDevice' <=> SameDevice
      BY <2>2 DEF SameDevice
    <3> QED
      BY <1>7, <2>2, <2>3, <3>1 DEF FuncInv
  <2> QED
    BY <1>5, <1>6, <2>3, <2>4, <2>5, <2>6 DEF IInv
<1>8. CASE ret # "ok"
  <2>1. mount' \in {Fails, NextRound} /\ xfer' = NoXfer /\ ep' = "none"
    BY <1>8 DEF Checks
  <2>2. /\ mount' \in [pc : MountPcs, notify : BOOLEAN, i : Nat, gen : Nat]
        /\ mount'.pc \in {"fail", "round"} /\ mount'.gen = mount.gen
    BY <1>2, <2>1, Rounds
  <2>3. /\ xfer' \in Xfers /\ PcInv' /\ MovedInv'
        /\ xfer'.pc = "none" /\ xfer'.req = "none"
        /\ sem' = 0 => SemInv'
    BY <2>1, Rests
  <2>4. TypeOK'
    BY <1>2, <2>1, <2>2, <2>3 DEF TypeOK, TransferOK, HostOK
  <2>5. MountInv' /\ FuncInv'
    <3>1. mount'.gen <= cable'.gen
      BY <1>1, <2>2 DEF MountInv
    <3> QED
      BY <2>2, <2>3, <3>1, NoClaim
  <2> QED
    BY <1>5, <1>6, <2>3, <2>4, <2>5 DEF IInv
<1> QED
  BY <1>7, <1>8

\* The requests of a mount before the last.
LEMMA RequestsStep ==
    ASSUME IInv, GotDescriptor \/ GotAddress \/ GotMore PROVE IInv'
<1>1. {"get_device_descriptor", "set_address", "get_config_descriptor", "set_configuration"}
        \subseteq Reqs /\ {0, 1, 2} \subseteq Nat
      /\ {"desc", "addr", "desc2", "head", "all", "conf"} \subseteq Requests
  BY DEF Reqs, Requests
<1>2. devnum \in {0, 1} /\ MountInv /\ FuncInv
  BY DEF IInv, TypeOK, TransferOK
<1>3. CASE GotDescriptor
  <2>1. /\ mount.pc = "desc" /\ At("done") /\ Checks("ok", "addr", "set_address", 0)
        /\ UNCHANGED <<cable, func, devnum, sem, urb, late, device, host_dev, bmUsbEvent, otg, app>>
    BY <1>3 DEF GotDescriptor, Answered
  <2> QED
    BY <1>1, <1>2, <2>1, ChecksStep DEF Addressed
<1>4. CASE GotAddress
  <2>1. /\ mount.pc = "addr" /\ At("done")
        /\ Checks(xfer.ret, "desc2", "get_device_descriptor", 2)
        /\ devnum' = IF xfer.ret = "ok" THEN 1 ELSE devnum
        /\ UNCHANGED <<cable, func, sem, urb, late, device, host_dev, bmUsbEvent, otg, app>>
    BY <1>4 DEF GotAddress, Answered
  <2>2. xfer.ret = "ok" => devnum' = 1 /\ (SameDevice => func.addr = 1)
    BY <1>2, <2>1 DEF FuncInv, Obeyed
  <2> QED
    BY <1>1, <1>2, <2>1, <2>2, ChecksStep
<1>5. CASE GotMore
  <2>1. /\ At("done")
        /\ UNCHANGED <<cable, func, devnum, sem, urb, late, device, host_dev, bmUsbEvent, otg, app>>
        /\ \/ mount.pc = "desc2" /\ Checks(xfer.ret, "head", "get_config_descriptor", 1)
           \/ mount.pc = "head" /\ Checks(xfer.ret, "all", "get_config_descriptor", 1)
           \/ mount.pc = "all" /\ Checks(xfer.ret, "conf", "set_configuration", 0)
    BY <1>5 DEF GotMore, Answered
  <2>2. devnum' = 1 /\ (SameDevice => func.addr = 1)
    BY <1>2, <2>1 DEF FuncInv, MountInv, Addressed
  <2>3. CASE mount.pc = "desc2" /\ Checks(xfer.ret, "head", "get_config_descriptor", 1)
    BY <1>1, <1>2, <2>1, <2>2, <2>3, ChecksStep
  <2>4. CASE mount.pc = "head" /\ Checks(xfer.ret, "all", "get_config_descriptor", 1)
    BY <1>1, <1>2, <2>1, <2>2, <2>4, ChecksStep
  <2>5. CASE mount.pc = "all" /\ Checks(xfer.ret, "conf", "set_configuration", 0)
    BY <1>1, <1>2, <2>1, <2>2, <2>5, ChecksStep
  <2> QED
    BY <2>1, <2>3, <2>4, <2>5
<1> QED
  BY <1>3, <1>4, <1>5

\* The indices of the disks are numbers.
LEMMA DisksType ==
    ASSUME NEW d \in Seq({"disk", "malformed", "known", "unknown"})
    PROVE  Disks(d) \subseteq Nat
<1> SUFFICES ASSUME NEW i \in FirstDisk(d) PROVE Cardinality(Known(d, i)) \in Nat
  BY DEF Disks
<1>1. i \in Int
  BY DEF FirstDisk
<1>2. IsFiniteSet(1..(i - 1))
  BY <1>1, FS_Interval
<1>3. Known(d, i) \subseteq 1..(i - 1)
  BY DEF Known
<1>4. IsFiniteSet(Known(d, i))
  BY <1>2, <1>3, FS_Subset
<1> QED
  BY <1>4, FS_CardinalityType

\* What is known between transfers while a mount is under way: the flag is clear.
LEMMA RoundFacts ==
    ASSUME IInv, mount.pc \in {"round", "notify", "fail"}
    PROVE  /\ xfer = NoXfer /\ ep = "none" /\ xfer.pc = "none" /\ xfer.req = "none"
           /\ ~late => sem = 0
<1>1. PcInv /\ MountInv /\ (~late => SemInv)
  BY DEF IInv
<1>2. xfer.pc = "none" /\ xfer = NoXfer /\ ep = "none"
  BY <1>1 DEF PcInv, MountInv, At
<1>3. ~late => sem = 0
  BY <1>1, <1>2 DEF SemInv
<1> QED
  BY <1>2, <1>3 DEF NoXfer

\* A round begins with a reset of the bus, or fails at once.
LEMMA RoundStep == ASSUME IInv, Round PROVE IInv'
<1>0. /\ mount.pc = "round"
      /\ UNCHANGED <<sem, urb, late, device, bmUsbEvent, otg, app>>
  BY DEF Round
<1>1. TransferOK /\ HostOK /\ MountInv /\ AppInv
  BY DEF IInv, TypeOK
<1>2. /\ xfer = NoXfer /\ ep = "none" /\ xfer.pc = "none" /\ xfer.req = "none"
      /\ ~late => sem = 0
  BY <1>0, RoundFacts
<1>3. /\ cable \in [in : BOOLEAN, gen : Nat, faults : Nat]
      /\ mount \in [pc : MountPcs, notify : BOOLEAN, i : Nat, gen : Nat]
      /\ host_dev \in [status : {0, 1}, disks : SUBSET Nat]
      /\ host_dev.status = 0
  BY <1>0, <1>1 DEF TransferOK, HostOK, AppInv
<1>4. CASE /\ func' = [addr |-> 0, configured |-> FALSE]
           /\ mount' = [mount EXCEPT !.pc = "desc", !.gen = cable.gen]
           /\ host_dev' = [host_dev EXCEPT !.status = 0]
           /\ devnum' = 0
           /\ usb_control_msg("get_device_descriptor", 2)
           /\ UNCHANGED cable
  <2>1. /\ mount' \in [pc : MountPcs, notify : BOOLEAN, i : Nat, gen : Nat]
        /\ mount'.pc = "desc" /\ mount'.gen = cable.gen
    BY <1>3, <1>4 DEF MountPcs
  <2>2. host_dev' \in [status : {0, 1}, disks : SUBSET Nat] /\ host_dev'.status = 0
    BY <1>3, <1>4
  <2>3. "get_device_descriptor" \in Reqs /\ 2 \in Nat
    BY DEF Reqs
  <2>4. /\ xfer' \in Xfers /\ PcInv' /\ MovedInv' /\ ~Obeyed' /\ ep' = "sent"
        /\ xfer'.kind = "ctl"
        /\ sem' = 0 => SemInv'
    BY <1>4, <2>3, Asks
  <2>5. TypeOK'
    BY <1>0, <1>1, <1>4, <2>1, <2>2, <2>4 DEF TypeOK, TransferOK, HostOK
  <2>6. cable'.gen <= cable'.gen
    BY <1>3, <1>4
  <2>7. MountInv' /\ FuncInv' /\ AppInv'
    BY <1>4, <2>1, <2>2, <2>4, <2>6 DEF MountInv, FuncInv, AppInv, Requests, Addressed
  <2> QED
    BY <1>0, <1>2, <1>4, <2>4, <2>5, <2>7 DEF IInv
<1>5. CASE /\ cable' = [cable EXCEPT !.faults = IF cable.in THEN @ + 1 ELSE @]
           /\ mount' = NextRound
           /\ UNCHANGED <<func, host_dev, devnum, xfer, ep>>
  <2>1. cable' \in [in : BOOLEAN, gen : Nat, faults : Nat] /\ cable'.gen = cable.gen
    BY <1>3, <1>5
  <2>2. /\ mount' \in [pc : MountPcs, notify : BOOLEAN, i : Nat, gen : Nat]
        /\ mount'.pc = "round" /\ mount'.gen = mount.gen
    BY <1>1, <1>5, Rounds
  <2>3. /\ xfer' \in Xfers /\ PcInv' /\ MovedInv'
        /\ xfer'.pc = "none" /\ xfer'.req = "none"
        /\ sem' = 0 => SemInv'
    BY <1>2, <1>5, Rests
  <2>4. TypeOK'
    BY <1>0, <1>1, <1>5, <2>1, <2>2, <2>3 DEF TypeOK, TransferOK, HostOK
  <2>5. MountInv' /\ FuncInv'
    <3>1. mount'.gen <= cable'.gen
      BY <1>1, <2>1, <2>2 DEF MountInv
    <3> QED
      BY <2>2, <2>3, <3>1, NoClaim
  <2>6. AppInv'
    BY <1>3, <1>5 DEF AppInv
  <2> QED
    BY <1>0, <1>2, <2>3, <2>4, <2>5, <2>6 DEF IInv
<1> QED
  BY <1>4, <1>5 DEF Round

\* The last request is answered, and the descriptors are parsed.
LEMMA ConfiguredStep == ASSUME IInv, Configured PROVE IInv'
<1> DEFINE ret == Both(xfer.ret, Valid(device))
<1>0. /\ mount.pc = "conf" /\ At("done")
      /\ host_dev' = [status |-> IF ret = "ok" THEN 1 ELSE 0,
                      disks |-> host_dev.disks \cup Disks(device)]
      /\ mount' = CASE ret = "ok" -> [mount EXCEPT !.pc = "notify"]
                    [] ret = "OFFLINE" -> Fails
                    [] OTHER -> NextRound
      /\ xfer' = NoXfer /\ ep' = "none"
      /\ UNCHANGED <<cable, func, devnum, sem, urb, late, device, bmUsbEvent, otg, app>>
  BY DEF Configured, Answered
<1>1. TransferOK /\ HostOK /\ MountInv /\ (~late => SemInv)
  BY DEF IInv, TypeOK
<1>2. /\ mount' \in [pc : MountPcs, notify : BOOLEAN, i : Nat, gen : Nat]
      /\ mount'.gen = mount.gen
      /\ mount'.pc = IF ret = "ok" THEN "notify" ELSE mount'.pc
      /\ mount'.pc \in {"notify", "fail", "round"}
  <2>1. mount \in [pc : MountPcs, notify : BOOLEAN, i : Nat, gen : Nat]
    BY <1>1 DEF HostOK
  <2>2. CASE ret = "ok"
    BY <1>0, <2>1, <2>2 DEF MountPcs
  <2>3. CASE ret # "ok"
    <3>1. mount' \in {Fails, NextRound}
      BY <1>0, <2>3
    <3> QED
      BY <1>1, <2>3, <3>1, Rounds
  <2> QED
    BY <2>2, <2>3
<1>3. host_dev' \in [status : {0, 1}, disks : SUBSET Nat]
      /\ (host_dev'.status = 1 => mount'.pc = "notify")
  <2>1. Disks(device) \subseteq Nat /\ host_dev.disks \subseteq Nat
    BY <1>1, DisksType DEF HostOK
  <2> QED
    BY <1>0, <1>2, <2>1
<1>4. /\ xfer' \in Xfers /\ PcInv' /\ MovedInv'
      /\ xfer'.pc = "none" /\ xfer'.req = "none"
      /\ sem' = 0 => SemInv'
  BY <1>0, Rests
<1>5. TypeOK'
  BY <1>0, <1>1, <1>2, <1>3, <1>4 DEF TypeOK, TransferOK, HostOK
<1>6. MountInv' /\ FuncInv'
  <2>1. mount'.gen <= cable'.gen
    BY <1>0, <1>1, <1>2 DEF MountInv
  <2> QED
    BY <1>2, <1>4, <2>1, NoClaim
<1>7. AppInv'
  BY <1>3 DEF AppInv
<1>8. ~late => sem' = 0
  BY <1>0, <1>1 DEF SemInv, At
<1> QED
  BY <1>0, <1>4, <1>5, <1>6, <1>7, <1>8 DEF IInv

\* The end of a mount: the application is told, or knows already.
LEMMA NotifyStep == ASSUME IInv, Notify PROVE IInv'
<1>0. /\ mount.pc = "notify" /\ mount' = NoMount
      /\ UNCHANGED <<cable, func, devnum, sem, ep, urb, xfer, late, device, host_dev, otg>>
      /\ \/ NotifyIn
         \/ app' = [app EXCEPT !.silent = TRUE] /\ UNCHANGED bmUsbEvent
  BY DEF Notify, tvars
<1>1. TransferOK /\ HostOK
  BY DEF IInv, TypeOK
<1>2. /\ xfer = NoXfer /\ ep = "none" /\ xfer.pc = "none" /\ xfer.req = "none"
      /\ ~late => sem = 0
  BY <1>0, RoundFacts
<1>3. /\ xfer' \in Xfers /\ PcInv' /\ MovedInv'
      /\ sem' = 0 => SemInv'
  BY <1>0, <1>2, Rests
<1>4. app \in [has : BOOLEAN, silent : BOOLEAN] /\ bmUsbEvent \in BOOLEAN
  BY <1>1 DEF HostOK
<1>5. /\ app' \in [has : BOOLEAN, silent : BOOLEAN] /\ bmUsbEvent' \in BOOLEAN
      /\ HasDisk => app'.has \/ app'.silent
  <2>1. CASE HasDisk /\ bmUsbEvent' = TRUE /\ app' = [has |-> TRUE, silent |-> FALSE]
    BY <2>1
  <2>2. CASE ~HasDisk /\ UNCHANGED bmUsbEvent /\ app' = [app EXCEPT !.silent = FALSE]
    BY <1>4, <2>2
  <2>3. CASE app' = [app EXCEPT !.silent = TRUE] /\ UNCHANGED bmUsbEvent
    BY <1>4, <2>3
  <2> QED
    BY <1>0, <2>1, <2>2, <2>3 DEF NotifyIn
<1>6. /\ mount' \in [pc : MountPcs, notify : BOOLEAN, i : Nat, gen : Nat]
      /\ mount'.pc = "idle" /\ mount'.gen = 0
  BY <1>0 DEF NoMount, MountPcs
<1>7. TypeOK'
  BY <1>0, <1>1, <1>5, <1>6 DEF TypeOK, TransferOK, HostOK
<1>8. MountInv' /\ FuncInv'
  <2>1. mount'.gen <= cable'.gen
    BY <1>0, <1>1, <1>6 DEF TransferOK
  <2> QED
    BY <1>0, <1>2, <1>6, <2>1, NoClaim
<1>9. AppInv'
  BY <1>0, <1>5, <1>6 DEF AppInv, HasDisk
<1> QED
  BY <1>0, <1>2, <1>3, <1>7, <1>8, <1>9 DEF IInv

\* A mount that is given up.
LEMMA FailedStep == ASSUME IInv, Failed PROVE IInv'
<1>0. /\ mount.pc \in {"fail", "round"} /\ mount' = NoMount
      /\ host_dev' = [host_dev EXCEPT !.status = 0]
      /\ UNCHANGED <<cable, func, devnum, sem, ep, urb, xfer, late, device, bmUsbEvent, otg, app>>
  BY DEF Failed, tvars
<1>1. TransferOK /\ HostOK
  BY DEF IInv, TypeOK
<1>2. /\ xfer = NoXfer /\ ep = "none" /\ xfer.pc = "none" /\ xfer.req = "none"
      /\ ~late => sem = 0
  BY <1>0, RoundFacts
<1>3. /\ xfer' \in Xfers /\ PcInv' /\ MovedInv'
      /\ sem' = 0 => SemInv'
  BY <1>0, <1>2, Rests
<1>4. host_dev' \in [status : {0, 1}, disks : SUBSET Nat] /\ host_dev'.status = 0
  BY <1>0, <1>1 DEF HostOK
<1>5. /\ mount' \in [pc : MountPcs, notify : BOOLEAN, i : Nat, gen : Nat]
      /\ mount'.pc = "idle" /\ mount'.gen = 0
  BY <1>0 DEF NoMount, MountPcs
<1>6. TypeOK'
  BY SMTT(30), <1>0, <1>1, <1>4, <1>5 DEF TypeOK, TransferOK, HostOK
<1>7. MountInv' /\ FuncInv'
  <2>1. mount'.gen <= cable'.gen
    BY <1>0, <1>1, <1>5 DEF TransferOK
  <2> QED
    BY <1>0, <1>2, <1>5, <2>1, NoClaim
<1>8. AppInv'
  BY <1>4 DEF AppInv
<1> QED
  BY <1>0, <1>2, <1>3, <1>6, <1>7, <1>8 DEF IInv

\* What is known between calls.
LEMMA IdleFacts ==
    ASSUME IInv, Idle
    PROVE  /\ mount.pc = "idle" /\ xfer = NoXfer /\ ep = "none"
           /\ xfer.pc = "none" /\ xfer.req = "none"
BY DEF Idle, IInv, PcInv, NoXfer

\* Mounting and remounting clear the flag, and what was given up is forgotten.
LEMMA BeginsStep ==
    ASSUME IInv, Idle, NEW notify \in BOOLEAN, Begins(notify),
           sem' = 0, late' = FALSE, devnum' \in {0, 1},
           host_dev' \in [status : {0, 1}, disks : SUBSET Nat], host_dev'.status = 0,
           otg' \in [seen : BOOLEAN, event : {"none", "IN", "OUT"}],
           UNCHANGED <<cable, func, ep, urb, xfer, device, bmUsbEvent, app>>
    PROVE  IInv'
<1>1. TransferOK /\ HostOK
  BY DEF IInv, TypeOK
<1>2. xfer = NoXfer /\ ep = "none" /\ xfer.pc = "none" /\ xfer.req = "none"
  BY IdleFacts
<1>3. /\ xfer' \in Xfers /\ PcInv' /\ MovedInv'
      /\ sem' = 0 => SemInv'
  BY <1>2, Rests
<1>4. /\ mount' \in [pc : MountPcs, notify : BOOLEAN, i : Nat, gen : Nat]
      /\ mount'.pc = "round" /\ mount'.gen = 0
  BY DEF Begins, NoMount, MountPcs
<1>5. TypeOK'
  BY ZenonT(30), <1>1, <1>4 DEF TypeOK, TransferOK, HostOK
<1>6. MountInv' /\ FuncInv'
  <2>1. mount'.gen <= cable'.gen
    BY <1>1, <1>4 DEF TransferOK
  <2> QED
    BY <1>2, <1>4, <2>1, NoClaim
<1>7. AppInv'
  BY DEF AppInv
<1> QED
  BY <1>3, <1>5, <1>6, <1>7 DEF IInv

\* An event of the detection is handled by a mount,
LEMMA MountStep == ASSUME IInv, usb_host_mount PROVE IInv'
<1>1. HostOK
  BY DEF IInv, TypeOK
<1>2. otg' \in [seen : BOOLEAN, event : {"none", "IN", "OUT"}]
  BY <1>1 DEF HostOK, usb_host_mount
<1>3. host_dev' \in [status : {0, 1}, disks : SUBSET Nat] /\ host_dev'.status = 0
  BY DEF usb_host_mount, Unmounted
<1> QED
  BY <1>2, <1>3, BeginsStep DEF usb_host_mount

\* and a disk driver in trouble may ask for another.
LEMMA RemountStep ==
    ASSUME IInv, NEW notify \in BOOLEAN, usb_host_remount(notify) PROVE IInv'
<1>1. TransferOK /\ HostOK
  BY DEF IInv, TypeOK
<1>2. host_dev' \in [status : {0, 1}, disks : SUBSET Nat] /\ host_dev'.status = 0
  BY <1>1 DEF HostOK, usb_host_remount, _usb_host_unmount, Left
<1>3. /\ Idle /\ Begins(notify) /\ sem' = 0 /\ late' = FALSE
      /\ UNCHANGED <<cable, func, devnum, ep, urb, xfer, device, bmUsbEvent, otg, app>>
  BY DEF usb_host_remount
<1>4. devnum' \in {0, 1} /\ otg' \in [seen : BOOLEAN, event : {"none", "IN", "OUT"}]
  BY <1>1, <1>3 DEF TransferOK, HostOK
<1> QED
  BY <1>2, <1>3, <1>4, BeginsStep

\* A device that is gone is unmounted, which sets the flag.
LEMMA UnmountStep == ASSUME IInv, usb_host_unmount PROVE IInv'
<1>0. /\ Idle /\ otg' = [otg EXCEPT !.event = "none"]
      /\ _usb_host_unmount /\ NotifyOut /\ sem' = 1
      /\ UNCHANGED <<cable, func, devnum, ep, urb, xfer, late, device, mount>>
  BY DEF usb_host_unmount, Unmounts
<1>1. TransferOK /\ HostOK /\ MountInv
  BY DEF IInv, TypeOK
<1>2. /\ mount.pc = "idle" /\ xfer = NoXfer /\ ep = "none"
      /\ xfer.pc = "none" /\ xfer.req = "none"
  BY <1>0, IdleFacts
<1>3. xfer' \in Xfers /\ PcInv' /\ MovedInv'
  BY <1>0, <1>2, Rests
<1>4. host_dev' \in [status : {0, 1}, disks : SUBSET Nat] /\ host_dev'.status = 0
  BY <1>0, <1>1 DEF HostOK, _usb_host_unmount, Left
<1>5. /\ otg' \in [seen : BOOLEAN, event : {"none", "IN", "OUT"}]
      /\ app' \in [has : BOOLEAN, silent : BOOLEAN] /\ bmUsbEvent' \in BOOLEAN
  <2>1. /\ otg \in [seen : BOOLEAN, event : {"none", "IN", "OUT"}]
        /\ app.has \in BOOLEAN
    BY <1>1 DEF HostOK
  <2> QED
    BY <1>0, <2>1 DEF NotifyOut
<1>6. TypeOK'
  BY <1>0, <1>1, <1>4, <1>5 DEF TypeOK, TransferOK, HostOK
<1>7. MountInv' /\ FuncInv'
  BY <1>0, <1>1, <1>2, NoClaim DEF MountInv
<1>8. AppInv'
  BY <1>4 DEF AppInv
<1>9. SemInv'
  BY <1>0, <1>2, <1>4 DEF SemInv
<1> QED
  BY <1>3, <1>6, <1>7, <1>8, <1>9 DEF IInv

\* The disk driver starts a transfer,
LEMMA BulkStep ==
    ASSUME IInv, NEW kind \in {"rx", "tx"}, NEW n \in 1..MaxLen, usb_bulk(kind, n)
    PROVE  IInv'
<1>0. /\ Idle /\ host_dev.status = 1 /\ usb_bulk_only(kind, n)
      /\ UNCHANGED <<cable, func, devnum, sem, late, host_dev, mount>> /\ UNCHANGED hvars
  BY DEF usb_bulk, hvars
<1>1. TransferOK /\ HostOK /\ AppInv /\ (~late => SemInv)
  BY DEF IInv, TypeOK
<1>2. mount.pc = "idle" /\ xfer.pc = "none"
  BY <1>0, IdleFacts
<1>3. n \in Nat /\ n > 0
  BY UsbTransferAssumption
<1>4. /\ urb' \in [len : Nat, msg : {"ok", "OFFLINE", "stall", "error"}]
      /\ urb'.len = IF kind = "tx" THEN n - 1 ELSE n
      /\ urb'.msg = "OFFLINE"
  BY <1>0, <1>3 DEF usb_bulk_only
<1>5. /\ xfer' \in Xfers /\ xfer'.kind = kind /\ xfer'.pc = "pend" /\ xfer'.req = "none"
      /\ xfer'.total = n /\ xfer'.moved = 0 /\ xfer'.ret = "ok" /\ ep' = "sent"
  BY <1>0, <1>3 DEF usb_bulk_only, NoXfer, Xfers, Pcs, Reqs, Rets
<1>6. TypeOK' /\ AppInv'
  <2>1. TransferOK'
    BY <1>0, <1>1, <1>4, <1>5 DEF TransferOK
  <2> QED
    BY <1>0, <1>1, <2>1, HostStays DEF TypeOK
<1>7. PcInv'
  BY <1>5 DEF PcInv, At, Bulk
<1>8. MountInv' /\ FuncInv'
  BY <1>0, <1>2, <1>5, IdleStays
<1>9. ~late => SemInv'
  BY <1>0, <1>1, <1>2, <1>5 DEF SemInv
<1>10. MovedInv'
  <2>1. kind = "rx" => urb'.len > 0 /\ 0 + urb'.len = n
    BY <1>3, <1>4
  <2>2. kind = "tx" => 0 + urb'.len + 1 = n
    BY <1>3, <1>4
  <2> QED
    BY <1>5, <2>1, <2>2, MovedMoves
<1> QED
  BY <1>0, <1>6, <1>7, <1>8, <1>9, <1>10 DEF IInv

\* and gets its result.
LEMMA ReturnsStep == ASSUME IInv, Returns PROVE IInv'
<1>0. /\ mount.pc = "idle" /\ xfer.pc = "done" /\ xfer' = NoXfer
      /\ UNCHANGED <<cable, func, devnum, sem, ep, urb, late, host_dev, mount>>
      /\ UNCHANGED hvars
  BY DEF Returns, At, hvars
<1>1. TransferOK /\ HostOK /\ PcInv /\ AppInv /\ (~late => SemInv)
  BY DEF IInv, TypeOK
<1>2. ep' = "none"
  BY <1>0, <1>1 DEF PcInv
<1>3. /\ xfer' \in Xfers /\ PcInv' /\ MovedInv' /\ xfer'.pc = "none" /\ xfer'.req = "none"
  BY <1>0, <1>2, Rests
<1>4. TypeOK' /\ AppInv'
  <2>1. TransferOK'
    BY <1>0, <1>1, <1>3 DEF TransferOK
  <2> QED
    BY <1>0, <1>1, <2>1, HostStays DEF TypeOK
<1>5. MountInv' /\ FuncInv'
  BY <1>0, <1>3, IdleStays
<1>6. ~late => SemInv'
  BY <1>0, <1>1, <1>3 DEF SemInv
<1> QED
  BY <1>0, <1>3, <1>4, <1>5, <1>6 DEF IInv

\* The detection of a device or of its absence touches neither.
LEMMA DetectStep == ASSUME IInv, Detect PROVE IInv'
<1>0. /\ otg' = [seen |-> cable.in, event |-> IF cable.in THEN "IN" ELSE "OUT"]
      /\ UNCHANGED <<cable, func, devnum, sem, ep, urb, xfer, late>>
      /\ UNCHANGED <<device, host_dev, mount, bmUsbEvent, app>>
  BY DEF Detect, tvars
<1>1. /\ TransferOK /\ HostOK /\ PcInv /\ MountInv /\ FuncInv /\ AppInv
      /\ ~late => SemInv /\ MovedInv
  BY DEF IInv, TypeOK
<1>2. otg' \in [seen : BOOLEAN, event : {"none", "IN", "OUT"}]
  BY <1>0, <1>1 DEF TransferOK
<1>3. TypeOK'
  BY <1>0, <1>1, <1>2 DEF TypeOK, TransferOK, HostOK
<1>4. PcInv' /\ MountInv' /\ AppInv'
  BY <1>0, <1>1 DEF PcInv, MountInv, AppInv, HasDisk, At, Bulk
<1>5. FuncInv'
  BY <1>0, <1>1 DEF FuncInv, SameDevice, Obeyed, At
<1>6. ~late' => SemInv' /\ MovedInv'
  BY <1>0, <1>1 DEF SemInv, MovedInv, Complete, At, Bulk
<1> QED
  BY <1>3, <1>4, <1>5, <1>6 DEF IInv

\* Another device is plugged in.
LEMMA PlugStep == ASSUME IInv, Plug PROVE IInv'
<1>0. /\ cable' = [cable EXCEPT !.in = TRUE, !.gen = @ + 1]
      /\ device' \in Devices /\ func' = [addr |-> 0, configured |-> FALSE]
      /\ UNCHANGED <<devnum, sem, ep, urb, xfer, late>>
      /\ UNCHANGED <<host_dev, mount, bmUsbEvent, otg, app>>
  BY DEF Plug
<1>1. /\ TransferOK /\ HostOK /\ PcInv /\ MountInv /\ AppInv
      /\ ~late => SemInv /\ MovedInv
  BY DEF IInv, TypeOK
<1>2. /\ cable \in [in : BOOLEAN, gen : Nat, faults : Nat]
      /\ mount.gen \in Nat /\ mount.gen <= cable.gen
  BY <1>1 DEF TransferOK, HostOK, MountInv
<1>3. /\ cable' \in [in : BOOLEAN, gen : Nat, faults : Nat]
      /\ cable'.gen = cable.gen + 1
  <2>1. cable.gen + 1 \in Nat
    BY <1>2
  <2>2. cable' = [cable EXCEPT !.in = TRUE, !.gen = cable.gen + 1]
    BY <1>0
  <2> QED
    BY <1>2, <2>1, <2>2
<1>4. mount.gen <= cable'.gen /\ cable'.gen # mount.gen
  BY <1>2, <1>3
<1>5. device' \in Seq({"disk", "malformed", "known", "unknown"})
  BY <1>0, UsbHostAssumption
<1>6. func' \in [addr : {0, 1}, configured : BOOLEAN]
  BY <1>0
<1>7. TypeOK'
  BY <1>0, <1>1, <1>3, <1>5, <1>6 DEF TypeOK, TransferOK, HostOK
<1>8. PcInv' /\ MountInv' /\ AppInv'
  BY <1>0, <1>1, <1>4 DEF PcInv, MountInv, AppInv, HasDisk, At, Bulk
<1>9. FuncInv'
  BY <1>0, <1>4 DEF FuncInv, SameDevice
<1>10. ~late' => SemInv' /\ MovedInv'
  BY <1>0, <1>1 DEF SemInv, MovedInv, Complete, At, Bulk
<1> QED
  BY <1>7, <1>8, <1>9, <1>10 DEF IInv

\* Every step keeps the invariant.
LEMMA StepInv == ASSUME IInv, [Next]_vars PROVE IInv'
<1>1. CASE Transferring /\ UNCHANGED hvars
  BY <1>1, CtlWaitStep, CtlReadStep, CtlExitStep, BulkPendStep, BulkExitStep DEF Transferring
<1>2. CASE Host /\ ~(Transferring /\ UNCHANGED hvars)
  BY <1>2, RoundStep, RequestsStep, ConfiguredStep, NotifyStep, FailedStep, ReturnsStep DEF Host
<1>3. CASE App \/ Detect \/ Plug
  BY <1>3, MountStep, UnmountStep, DetectStep, PlugStep DEF App
<1>4. CASE \E notify \in BOOLEAN : usb_host_remount(notify)
  BY <1>4, RemountStep
<1>5. CASE \E kind \in {"rx", "tx"}, n \in 1..MaxLen : usb_bulk(kind, n)
  BY <1>5, BulkStep
<1>6. CASE (Packet \/ Unplug) /\ UNCHANGED hvars
  BY <1>6, PacketStep, UnplugStep
<1>7. CASE UNCHANGED vars
  <2>1. /\ UNCHANGED <<cable, func, devnum, sem, ep, urb, xfer, late>> /\ UNCHANGED hvars
        /\ UNCHANGED <<host_dev, mount>>
    BY <1>7 DEF vars, tvars, hvars
  <2>2. TypeOK' /\ AppInv'
    <3>1. TransferOK'
      BY <2>1 DEF IInv, TypeOK, TransferOK
    <3> QED
      BY <2>1, <3>1, HostStays DEF IInv, TypeOK
  <2>3. PcInv' /\ MountInv'
    BY <2>1 DEF IInv, PcInv, MountInv, At, Bulk
  <2>4. FuncInv'
    BY <2>1 DEF IInv, FuncInv, SameDevice, Obeyed, At
  <2>5. ~late' => SemInv' /\ MovedInv'
    BY <2>1 DEF IInv, SemInv, MovedInv, Complete, At, Bulk
  <2> QED
    BY <2>2, <2>3, <2>4, <2>5 DEF IInv
<1> QED
  BY <1>1, <1>2, <1>3, <1>4, <1>5, <1>6, <1>7 DEF Next

\* The invariant holds of every behaviour.
LEMMA Inductive == Spec => []IInv
<1>1. IInv /\ [Next]_vars => IInv'
  BY StepInv
<1> QED
  BY <1>1, InitInv, PTL DEF Spec

-----------------------------------------------------------------------------
(* Theorems.                                                                *)

\* Type correctness.
THEOREM TypeCorrect == Spec => []TypeOK
BY Inductive, PTL DEF IInv

\* SuccessIsComplete: a bulk transfer that reports success has moved all of its
\* packets, for transfers of any length and whatever the device answers, until a
\* packet has been given up.
THEOREM SuccessMeansMoved == Spec => []SuccessIsComplete
<1>1. IInv => SuccessIsComplete
  BY DEF IInv, MovedInv, SuccessIsComplete, Succeeds
<1> QED
  BY <1>1, Inductive, PTL

\* AppKnowsTheDisk: between calls the application knows of a mounted disk, for any
\* devices and however often they were mounted, remounted and exchanged before.
THEOREM DiskIsKnown == Spec => []AppKnowsTheDisk
<1>1. IInv => AppKnowsTheDisk
  <2> SUFFICES ASSUME IInv, Idle, host_dev.status = 1, NEW n \in host_dev.disks \ Left,
                      ~app.silent
               PROVE  app.has
    BY DEF AppKnowsTheDisk
  <2>1. mount.pc = "idle" /\ n \in Nat /\ ~(n >= MAX_HOST_INTERFACE)
    BY DEF Idle, Left, IInv, TypeOK, HostOK
  <2>2. HasDisk
    BY <2>1 DEF HasDisk, MAX_HOST_INTERFACE
  <2> QED
    BY <2>1, <2>2 DEF IInv, AppInv
<1> QED
  BY <1>1, Inductive, PTL

\* MountIsTrue: a device is taken as mounted only when it has the address that the
\* host uses and was configured since the last reset of the bus, for any number of
\* retries and faults, unless it was exchanged meanwhile.
THEOREM MountsAreTrue == Spec => MountIsTrue
<1>1. ASSUME IInv, [Next]_vars, host_dev.status = 0, host_dev'.status = 1,
             cable.in, cable.gen = mount.gen
      PROVE  func.configured /\ func.addr = devnum
  <2>1. Configured
    <3>1. host_dev' # host_dev
      BY <1>1
    <3>2. ~(Round \/ GotDescriptor \/ GotAddress \/ GotMore \/ Notify \/ Failed \/ Returns)
      BY <1>1, <3>1 DEF Round, GotDescriptor, GotAddress, GotMore, Notify, Failed, Returns,
                        hvars, IInv, TypeOK, HostOK
    <3>3. ~(App \/ Detect \/ Plug)
      <4>1. ~usb_host_mount
        <5>1. usb_host_mount => host_dev' = Unmounted
          BY DEF usb_host_mount
        <5> QED
          BY <1>1, <5>1 DEF Unmounted
      <4>2. ~usb_host_unmount
        BY <1>1 DEF usb_host_unmount, Unmounts, _usb_host_unmount
      <4>3. ~Detect /\ ~Plug
        BY <3>1 DEF Detect, Plug
      <4> QED
        BY <4>1, <4>2, <4>3 DEF App
    <3>4. /\ ~\E notify \in BOOLEAN : usb_host_remount(notify)
          /\ ~\E kind \in {"rx", "tx"}, n \in 1..MaxLen : usb_bulk(kind, n)
      BY <1>1, <3>1 DEF usb_host_remount, _usb_host_unmount, usb_bulk, hvars
    <3>5. ~UNCHANGED vars /\ ~UNCHANGED hvars
      BY <3>1 DEF vars, hvars
    <3> QED
      BY <1>1, <3>2, <3>3, <3>4, <3>5 DEF Next, Host
  <2>2. mount.pc = "conf" /\ At("done") /\ Both(xfer.ret, Valid(device)) = "ok"
    BY <1>1, <2>1 DEF Configured, Answered
  <2>3. xfer.ret = "ok"
    BY <2>2 DEF Both
  <2> QED
    BY <1>1, <2>2, <2>3 DEF IInv, FuncInv, MountInv, SameDevice, Obeyed, Addressed
<1> QED
  BY <1>1, Inductive, PTL DEF Spec, MountIsTrue
=============================================================================
