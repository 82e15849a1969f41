---------------------------- MODULE UsbTransfer ----------------------------
(***************************************************************************)
(* Transfers of the USB host: usb_ctrl_transfer.c, usb_bulk_transfer.c and *)
(* the semaphore of usb_host.c, against the interrupt of usb_host_config.c.*)
(*                                                                         *)
(* A call starts a packet and waits on one flag, usb_host_sem, that the    *)
(* interrupt sets.  The interrupt may come at any point after the start,   *)
(* also between the end of a wait that timed out and the line that masks   *)
(* the endpoint.  Lengths are counted in packets.                          *)
(***************************************************************************)
EXTENDS Integers

CONSTANTS
    MaxLen,     \* bound: packets of a bulk transfer
    MaxFaults   \* bound: packets that stall, fail, come empty or come late with the
                \* cable in

ASSUME UsbTransferAssumption == MaxLen \in Nat \ {0} /\ MaxFaults \in Nat

VARIABLES
    cable,  \* what is plugged in: the device's number, and the faults so far
    func,   \* the device: its address, and whether it is configured
    devnum, \* host_dev->private_data.devnum: the address the host uses
    sem,    \* usb_host_sem
    ep,     \* the packet on the endpoint, "none" while the interrupt is masked
    urb,    \* struct usb_request_block, which all bulk transfers share
    xfer,   \* the transfer under way
    late    \* history: has a packet been given up since usb_sem_init

tvars == <<cable, func, devnum, sem, ep, urb, xfer, late>>

NoUrb == [len |-> 0, msg |-> "ok"]
NoXfer == [kind |-> "none", pc |-> "none", req |-> "none", stage |-> "SETUP", len |-> 0,
           total |-> 0, moved |-> 0, empty |-> FALSE, again |-> FALSE, ret |-> "ok"]

TransferInit ==
    /\ cable = [in |-> FALSE, gen |-> 0, faults |-> 0]
    /\ func = [addr |-> 0, configured |-> FALSE]
    /\ devnum = 0 /\ sem = 0 /\ ep = "none"
    /\ urb = NoUrb
    /\ xfer = NoXfer /\ late = FALSE

At(pc) == xfer.pc = pc
Bulk == xfer.kind \in {"rx", "tx"}

\* The interrupt of a bulk packet posts the semaphore when nothing is left.  A send
\* has one interrupt more than packets in urb.len: its first packet is not in it.
Posts(len, ok) ==
    \/ ~ok
    \/ xfer.kind = "rx" /\ len = 1
    \/ xfer.kind = "tx" /\ len = 0

\* usb_bulk_rx_isr and usb_bulk_tx_isr.  A packet without data ends a receive and
\* counts as no error.
BulkIsr(answer) ==
    LET ok == answer = "ready" IN
    /\ urb' = [len |-> IF ok /\ urb.len > 0 THEN urb.len - 1 ELSE 0,
               msg |-> IF answer \in {"ready", "empty"} THEN "ok" ELSE answer]
    /\ sem' = IF Posts(urb.len, ok) THEN 1 ELSE sem
    /\ ep' = IF Posts(urb.len, ok) THEN "none" ELSE "sent"
    /\ xfer' = [xfer EXCEPT !.moved = IF ok THEN @ + 1 ELSE @, !.empty = (answer = "empty")]

\* What control requests do to the device, once their last stage is through.
Obeys ==
    IF xfer.stage # "IN" \/ xfer.total > 0 THEN func
    ELSE CASE xfer.req = "set_address" -> [func EXCEPT !.addr = 1]
           [] xfer.req = "set_configuration" -> [func EXCEPT !.configured = TRUE]
           [] OTHER -> func

Hears == cable.in /\ (xfer.kind = "ctl" => func.addr = devnum)

Answers == {"ready", "stall", "error"} \cup (IF xfer.kind = "rx" THEN {"empty"} ELSE {})

\* The device answers the packet, and usb_h_isr runs.  What comes when the interrupt
\* is masked is lost.
Packet ==
    /\ ep = "sent" /\ Hears
    /\ \E answer \in Answers :
         /\ answer # "ready" => cable.faults < MaxFaults
         /\ cable' = [cable EXCEPT !.faults = IF answer = "ready" THEN @ ELSE @ + 1]
         /\ IF Bulk THEN BulkIsr(answer)
                    ELSE sem' = 1 /\ ep' = answer /\ UNCHANGED <<urb, xfer>>
         /\ func' = IF xfer.kind = "ctl" /\ answer = "ready" THEN Obeys ELSE func
    /\ UNCHANGED <<devnum, late>>

-----------------------------------------------------------------------------
(* usb_sem_pend.                                                             *)

\* Mutant: the flag is left set.
Consumed_not == sem
Consumed == 0
PendOk(next) == sem = 1 /\ sem' = Consumed /\ xfer' = [xfer EXCEPT !.pc = next] /\ UNCHANGED late

\* The packet has not been answered in time.
PendTimeout(next) ==
    /\ sem = 0
    /\ xfer' = [xfer EXCEPT !.pc = "exit", !.ret = next]
    /\ late' = TRUE
    /\ UNCHANGED sem

-----------------------------------------------------------------------------
(* Control transfers: usb_ctlXfer for each stage, usb_control_transfers.     *)

Waiting(kind, pc) == xfer.kind = kind /\ At(pc)

usb_control_msg(req, len) ==
    /\ xfer' = [NoXfer EXCEPT !.kind = "ctl", !.pc = "wait", !.req = req, !.len = len,
                              !.total = len]
    /\ ep' = "sent"

\* The loop of usb_ctlXfer, up to the end of its wait: the 500 jiffies are over, the
\* device is gone, or the semaphore is waited for.
CtlWait ==
    /\ Waiting("ctl", "wait")
    /\ \/ /\ \/ xfer.again /\ xfer' = [xfer EXCEPT !.pc = "exit", !.ret = "TIMEOUT"]
             \/ ~cable.in /\ xfer' = [xfer EXCEPT !.pc = "exit", !.ret = "OFFLINE"]
          /\ late' = TRUE /\ UNCHANGED sem
       \/ cable.in /\ (PendOk("csr") \/ PendTimeout("OFFLINE"))
    /\ UNCHANGED <<cable, func, devnum, ep, urb>>

\* A stage is over: the interrupt is masked, and the next stage begins: SETUP, IN if
\* there are data, and the status stage the other way.  No request sends data.
Last == xfer.stage = "OUT" \/ (xfer.stage = "IN" /\ xfer.total = 0)
StageOver(ret) ==
    IF ret # "ok" \/ Last
    THEN xfer' = [xfer EXCEPT !.pc = "done", !.ret = ret] /\ ep' = "none"
    ELSE /\ xfer' = [xfer EXCEPT !.pc = "wait", !.again = FALSE,
                                 !.stage = IF @ = "SETUP" THEN "IN" ELSE "OUT"]
         /\ ep' = "sent"

\* CSR0 after the wait.  The packet need not have been answered: the flag may be one
\* that an earlier transfer left.
CtlRead ==
    /\ Waiting("ctl", "csr")
    /\ \/ ep = "stall" /\ StageOver("CONTROL_STALL")
       \/ ep = "error" /\ StageOver("CONTROL")
       \/ ep = "ready" /\ StageOver("ok")
       \/ /\ ep = "ready" /\ xfer.stage = "IN" /\ xfer.len > 1
          /\ xfer' = [xfer EXCEPT !.pc = "wait", !.len = @ - 1, !.again = TRUE]
          /\ ep' = "sent"
       \/ /\ ep = "sent"
          /\ xfer' = [xfer EXCEPT !.pc = "wait", !.again = TRUE]
          /\ UNCHANGED ep
    /\ UNCHANGED <<cable, func, devnum, sem, urb, late>>

\* A stage that was given up.
CtlExit ==
    /\ Waiting("ctl", "exit")
    /\ StageOver(xfer.ret)
    /\ UNCHANGED <<cable, func, devnum, sem, urb, late>>

-----------------------------------------------------------------------------
(* Bulk transfers: usb_bulk_only_receive and usb_bulk_only_send.             *)

\* The start: usb_bulk_only_receive_async (rx) has all packets in urb.len, and
\* usb_bulk_only_send_async (tx) all but the one that it writes itself.
usb_bulk_only(kind, n) ==
    /\ urb' = [len |-> IF kind = "tx" THEN n - 1 ELSE n, msg |-> "OFFLINE"]
    /\ xfer' = [NoXfer EXCEPT !.kind = kind, !.pc = "pend", !.total = n]
    /\ ep' = "sent"

BulkPend ==
    /\ Bulk /\ At("pend")
    /\ PendOk("exit") \/ PendTimeout("TIMEOUT")
    /\ UNCHANGED <<cable, func, devnum, ep, urb>>

\* The interrupt is masked; the result is urb.msg, and after a stall the endpoint is
\* cleared by a control request, whose failure is returned instead.  Nothing reads urb
\* before the next transfer sets it.
BulkExit ==
    /\ Bulk /\ At("exit")
    /\ LET ret == IF xfer.ret # "ok" THEN xfer.ret ELSE urb.msg IN
       IF ret = "stall" THEN usb_control_msg("usb_clear_feature", 0)
       ELSE xfer' = [xfer EXCEPT !.pc = "done", !.ret = ret] /\ ep' = "none"
    /\ urb' = NoUrb
    /\ UNCHANGED <<cable, func, devnum, sem, late>>

Succeeds == At("done") /\ xfer.ret = "ok" /\ xfer.req # "usb_clear_feature"

Unplug ==
    /\ cable.in
    /\ cable' = [cable EXCEPT !.in = FALSE]
    /\ func' = [addr |-> 0, configured |-> FALSE]
    /\ UNCHANGED <<devnum, sem, ep, urb, xfer, late>>

Transferring == CtlWait \/ CtlRead \/ CtlExit \/ BulkPend \/ BulkExit

-----------------------------------------------------------------------------
(* Properties.                                                              *)

\* A bulk transfer that reports success has moved all of its packets, whatever came
\* between its start, its wait and the masking of its interrupt; unless the flag was
\* left by an earlier packet that was given up, or the device ended a receive with
\* an empty packet: usb_bulk_rx_isr takes l = 0 for the last packet and
\* usb_bulk_transfer.c:140 returns the length that was asked for.
Complete ==
    \/ xfer.moved = xfer.total
    \/ xfer.kind = "rx" /\ xfer.empty /\ xfer.moved < xfer.total
SuccessIsComplete == Succeeds /\ Bulk /\ ~late => Complete

\* A send that reports success has sent all of its packets, whatever happened before.
ReturnsWhatWasSent == Succeeds /\ xfer.kind = "tx" => xfer.moved = xfer.total
=============================================================================
