------------------------------ MODULE UsbHost ------------------------------
(***************************************************************************)
(* The USB host, apps/common/device/usb/host/usb_host.c: mounting with     *)
(* retries, unmounting, remounting, the events it sends to the application,*)
(* and the application's handler of the hot-plug events (app_main.c).  The *)
(* requests of a mount are the transfers of UsbTransfer, one step at a     *)
(* time; a mounted disk is read and written with bulk transfers.           *)
(*                                                                         *)
(* Of the classes only the disk driver is in the build.                    *)
(***************************************************************************)
EXTENDS UsbTransfer, Sequences, FiniteSets

CONSTANTS
    Devices,    \* the devices: sequences of interfaces
    Retry,      \* MOUNT_RETRY
    MaxPlugs    \* bound: how often a device is plugged in

\* An interface is a disk, a disk with a malformed endpoint, of a class that the
\* parser knows but that has no driver (audio, HID), or of no class it knows.
ASSUME UsbHostAssumption ==
    /\ \A d \in Devices : d \in Seq({"disk", "malformed", "known", "unknown"})
    /\ Retry \in Nat \ {0} /\ MaxPlugs \in Nat

MAX_HOST_INTERFACE == 4

VARIABLES
    device,     \* the interfaces of what is plugged in
    host_dev,   \* private_data.status, and which interface_info are the disk's
    mount,      \* the mount under way
    bmUsbEvent, \* are the events of this class to be undone
    otg,        \* the hot-plug detection: what it has seen, and its event
    app         \* the application: has it been told of a disk

hvars == <<device, host_dev, mount, bmUsbEvent, otg, app>>
vars == <<tvars, hvars>>

NoMount == [pc |-> "idle", notify |-> TRUE, i |-> 0, gen |-> 0]
Unmounted == [status |-> 0, disks |-> {}]

Init ==
    /\ TransferInit
    /\ device = <<>>
    /\ host_dev = Unmounted /\ mount = NoMount
    /\ bmUsbEvent = FALSE
    /\ otg = [seen |-> FALSE, event |-> "none"]
    /\ app = [has |-> FALSE, silent |-> FALSE]

Idle == mount.pc = "idle" /\ xfer = NoXfer

-----------------------------------------------------------------------------
(* usb_descriptor_parser.  A parsed disk ends the walk: usb_msd_parser returns *)
(* the length of the endpoints without that of the interface, so that the walk *)
(* goes on in the middle of an endpoint descriptor, where it reads a 0.       *)

IsDisk(c) == c \in {"disk", "malformed"}
Known(d, i) == {j \in 1..(i - 1) : d[j] = "known"}
Reached(d, i) == \A j \in 1..(i - 1) : ~IsDisk(d[j])
FirstDisk(d) == {i \in 1..Len(d) : IsDisk(d[i]) /\ Reached(d, i)}

\* The index in interface_info that a disk gets.
Disks(d) == {Cardinality(Known(d, i)) : i \in FirstDisk(d)}
\* have_find_valid_class: a malformed disk is registered, but not valid.
Valid(d) == \E i \in 1..Len(d) : Reached(d, i) /\ d[i] \in {"disk", "known"}

-----------------------------------------------------------------------------
(* usb_event_notify.                                                         *)

\* Mutant: only the first interface is looked at.
HasDisk_first == 0 \in host_dev.disks
HasDisk == \E n \in host_dev.disks : n < MAX_HOST_INTERFACE

\* IN (0) or CHANGE (1): one event for a class.
NotifyIn ==
    IF HasDisk THEN bmUsbEvent' = TRUE /\ app' = [has |-> TRUE, silent |-> FALSE]
    ELSE UNCHANGED bmUsbEvent /\ app' = [app EXCEPT !.silent = FALSE]

\* OUT (2): what was announced and not undone yet.
NotifyOut ==
    /\ bmUsbEvent' = FALSE
    /\ app' = [has |-> IF bmUsbEvent THEN FALSE ELSE app.has, silent |-> FALSE]

-----------------------------------------------------------------------------
(* usb_host_mount: a step for each request of _usb_host_mount.               *)

Begins(notify) == mount' = [NoMount EXCEPT !.pc = "round", !.notify = notify]

usb_host_mount ==
    /\ Idle /\ otg.event = "IN"
    /\ otg' = [otg EXCEPT !.event = "none"]
    /\ host_dev' = Unmounted
    /\ devnum' = 0 /\ sem' = 0 /\ late' = FALSE
    /\ Begins(TRUE)
    /\ UNCHANGED <<cable, func, ep, urb, xfer, device, bmUsbEvent, app>>

Fails == [mount EXCEPT !.pc = "fail"]
\* Mutant: a round that fails is not counted.
NextRound_same == [mount EXCEPT !.pc = "round"]
NextRound == [mount EXCEPT !.pc = "round", !.i = @ + 1]

\* usb_host_init resets the bus, and the first request is sent, to address 0.
Round ==
    /\ mount.pc = "round" /\ mount.i < Retry
    /\ \/ /\ cable.in
          /\ func' = [addr |-> 0, configured |-> FALSE]
          /\ mount' = [mount EXCEPT !.pc = "desc", !.gen = cable.gen]
          /\ host_dev' = [host_dev EXCEPT !.status = 0]
          /\ devnum' = 0
          /\ usb_control_msg("get_device_descriptor", 2)
          /\ UNCHANGED cable
       \/ /\ ~cable.in \/ cable.faults < MaxFaults
          /\ cable' = [cable EXCEPT !.faults = IF cable.in THEN @ + 1 ELSE @]
          /\ mount' = NextRound
          /\ UNCHANGED <<func, host_dev, devnum, xfer, ep>>
    /\ UNCHANGED <<sem, urb, late, device, bmUsbEvent, otg, app>>

\* check_usb_mount: on with the next request, or another round, unless offline.
Answered(pc) == mount.pc = pc /\ At("done")
Checks(ret, next, req, len) ==
    \/ /\ ret = "ok"
       /\ mount' = [mount EXCEPT !.pc = next]
       /\ usb_control_msg(req, len)
    \/ /\ ret # "ok"
       /\ mount' = IF ret = "OFFLINE" THEN Fails ELSE NextRound
       /\ xfer' = NoXfer /\ ep' = "none"

\* The first descriptor is asked for, and its result is not looked at.
GotDescriptor ==
    /\ Answered("desc")
    /\ Checks("ok", "addr", "set_address", 0)
    /\ UNCHANGED <<cable, func, devnum, sem, urb, late, device, host_dev, bmUsbEvent, otg, app>>

GotAddress ==
    /\ Answered("addr")
    /\ Checks(xfer.ret, "desc2", "get_device_descriptor", 2)
    /\ devnum' = IF xfer.ret = "ok" THEN 1 ELSE devnum
    /\ UNCHANGED <<cable, func, sem, urb, late, device, host_dev, bmUsbEvent, otg, app>>

\* The descriptor again, and that of the configuration: its head, and all of it.
GotMore ==
    /\ \/ Answered("desc2") /\ Checks(xfer.ret, "head", "get_config_descriptor", 1)
       \/ Answered("head") /\ Checks(xfer.ret, "all", "get_config_descriptor", 1)
       \/ Answered("all") /\ Checks(xfer.ret, "conf", "set_configuration", 0)
    /\ UNCHANGED <<cable, func, devnum, sem, urb, late, device, host_dev, bmUsbEvent, otg, app>>

\* Mutant: the parser's result stands for both.
Both_parser(ret, valid) == IF valid THEN "ok" ELSE "class"
\* ret |= usb_descriptor_parser(..): an offline device is not that any more if the
\* parser fails as well.
Both(ret, valid) == IF ~valid THEN "class" ELSE ret

\* The parser registers the disk whether or not the round succeeds.  A mount that
\* does switches the interfaces on, and tells the application.
Configured ==
    /\ Answered("conf")
    /\ LET ret == Both(xfer.ret, Valid(device)) IN
       /\ host_dev' = [status |-> IF ret = "ok" THEN 1 ELSE 0,
                       disks |-> host_dev.disks \cup Disks(device)]
       /\ mount' = CASE ret = "ok" -> [mount EXCEPT !.pc = "notify"]
                     [] ret = "OFFLINE" -> Fails
                     [] OTHER -> NextRound
    /\ xfer' = NoXfer /\ ep' = "none"
    /\ UNCHANGED <<cable, func, devnum, sem, urb, late, device, bmUsbEvent, otg, app>>

\* A remount without notice leaves the application with what it knew.
Notify ==
    /\ mount.pc = "notify"
    /\ \/ mount.notify /\ NotifyIn
       \/ /\ ~mount.notify
          /\ app' = [app EXCEPT !.silent = TRUE] /\ UNCHANGED bmUsbEvent
    /\ mount' = NoMount
    /\ UNCHANGED <<tvars, device, host_dev, otg>>

\* The rounds are over, or the device is gone.
Failed ==
    /\ mount.pc = "fail" \/ (mount.pc = "round" /\ mount.i = Retry)
    /\ host_dev' = [host_dev EXCEPT !.status = 0]
    /\ mount' = NoMount
    /\ UNCHANGED <<tvars, device, bmUsbEvent, otg, app>>

-----------------------------------------------------------------------------
(* usb_host_unmount and usb_host_remount.                                    *)

\* _usb_host_unmount: a waiting transfer would be woken, and set_power ends every
\* interface that has it.
Left == {n \in host_dev.disks : n >= MAX_HOST_INTERFACE}
_usb_host_unmount == host_dev' = [status |-> 0, disks |-> Left]

\* Mutant: a device that is not mounted is not unmounted.
Unmounts_mounted == host_dev.status = 1
Unmounts == TRUE
usb_host_unmount ==
    /\ Idle /\ otg.event = "OUT"
    /\ otg' = [otg EXCEPT !.event = "none"]
    /\ IF Unmounts THEN _usb_host_unmount /\ NotifyOut
                   ELSE UNCHANGED <<host_dev, bmUsbEvent, app>>
    /\ sem' = 1
    /\ UNCHANGED <<cable, func, devnum, ep, urb, xfer, late, device, mount>>

usb_host_remount(notify) ==
    /\ Idle /\ host_dev.status = 1
    /\ _usb_host_unmount
    /\ sem' = 0 /\ late' = FALSE
    /\ Begins(notify)
    /\ UNCHANGED <<cable, func, devnum, ep, urb, xfer, device, bmUsbEvent, otg, app>>

-----------------------------------------------------------------------------
(* The disk driver, the detection of a device, and the cable.                *)

usb_bulk(kind, n) ==
    /\ Idle /\ host_dev.status = 1 /\ HasDisk
    /\ usb_bulk_only(kind, n)
    /\ UNCHANGED <<cable, func, devnum, sem, late, hvars>>

Returns ==
    /\ mount.pc = "idle" /\ At("done")
    /\ xfer' = NoXfer
    /\ UNCHANGED <<cable, func, devnum, sem, ep, urb, late, hvars>>

Detect ==
    /\ mount.pc = "idle" /\ otg.event = "none" /\ otg.seen # cable.in
    /\ otg' = [seen |-> cable.in, event |-> IF cable.in THEN "IN" ELSE "OUT"]
    /\ UNCHANGED <<tvars, device, host_dev, mount, bmUsbEvent, app>>

Plug ==
    /\ ~cable.in /\ cable.gen < MaxPlugs
    /\ cable' = [cable EXCEPT !.in = TRUE, !.gen = @ + 1]
    /\ \E d \in Devices : device' = d
    /\ func' = [addr |-> 0, configured |-> FALSE]
    /\ UNCHANGED <<devnum, sem, ep, urb, xfer, late, host_dev, mount, bmUsbEvent, otg, app>>

Host ==
    \/ Transferring /\ UNCHANGED hvars
    \/ Round \/ GotDescriptor \/ GotAddress \/ GotMore \/ Configured \/ Notify \/ Failed
    \/ Returns

App == usb_host_mount \/ usb_host_unmount

Next ==
    \/ Host \/ App \/ Detect
    \/ \E notify \in BOOLEAN : usb_host_remount(notify)
    \/ \E kind \in {"rx", "tx"}, n \in 1..MaxLen : usb_bulk(kind, n)
    \/ (Packet \/ Unplug) /\ UNCHANGED hvars
    \/ Plug

\* The main loop runs, time passes, and the detection is a timer.  Events are taken
\* between the calls of the disk, however many there are.
Fairness == WF_vars(Host) /\ SF_vars(App) /\ WF_vars(Detect)
Spec == Init /\ [][Next]_vars
FairSpec == Spec /\ Fairness

-----------------------------------------------------------------------------
(* Properties.                                                              *)

\* A device is taken as mounted only when it has the address that the host uses and
\* was configured since the last reset of the bus, whatever stalled, timed out or was
\* retried before: unless it was exchanged meanwhile.
MountIsTrue ==
    [][host_dev.status = 0 /\ host_dev'.status = 1 /\ cable.in /\ cable.gen = mount.gen
         => func.configured /\ func.addr = devnum]_vars

\* Between calls the application knows of a mounted disk, however often it was mounted
\* and exchanged before: unless somebody remounted without notice.
AppKnowsTheDisk ==
    Idle /\ host_dev.status = 1 /\ host_dev.disks \ Left # {} /\ ~app.silent => app.has

\* A disk that is pulled is taken back from the application, also when a mount or a
\* remount has failed since: unless it is plugged in again.
OutFollows == app.has /\ ~cable.in ~> ~app.has \/ cable.in

\* Every mount, with all its retries, and every transfer comes to an end.
EveryCallReturns == ~Idle ~> Idle
=============================================================================
