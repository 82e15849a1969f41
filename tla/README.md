# Verification of the AC82N / CD09 MCU SDK

TLA+ models, TLC runs and TLAPS proofs for the SDK under `src/sdk`: a superloop program for one
core of a JieLi MCU, with the drivers and services around it.  Paths below are relative to
`src/sdk` unless they begin with `src/`.

Contents: [the system](#the-system) · [the modules](#the-modules) · [runs](#runs) ·
[proofs](#proofs) · [what the checks found](#what-the-checks-found) ·
[known behaviour without a run](#known-behaviour-that-no-run-states) ·
[not modelled](#not-modelled) · [plan](#plan).

To check: `tlc -config X.cfg M`, with `X.cfg` and `M` from the table of runs, and
`tlapm M.tla` for a module of proofs.

## The system

There is one core and no scheduler.  Code runs in one of these contexts, from low to high:

| context | what runs there |
|---|---|
| main loop (`apps/gp_mcu/app_main.c`) | takes events from the event queue (`SYS_KEY_EVENT`, `SYS_MSG_EVENT`, `SYS_DEVICE_EVENT`) and calls handlers; callbacks of `sys_timer`/`sys_timeout` run here too |
| software interrupt | `decode_run`, one frame of a tone per request |
| timer interrupt | callbacks of `usr_timer`: key scans, the ADC's `adc_scan` |
| device interrupts | audio output (`decode_isr_callback`), ADC (`adc_isr`), USB, infrared capture and pulses |

A higher context runs between any two steps of a lower one, and what a lower one has read before
may be stale afterwards.  Nothing is locked but by disabling an interrupt or by setting a flag in
a good order, so **the order of assignments is the concurrency control** of this code.  That is
why the modules have one action per step of an operation that an interrupt can see.

### Components

For each: its state; its operations; whom it talks to; what is hard; what makes it correct.

**Tone decoder** — `apps/common/decode/decode.c`, modelled.
State: `decode_info` (`init_ok`, `play_status`, `decode_status`), the PCM ring `decode_cbuf`, the
file and three buffers.  Operations: `decode_init`/`decode_uninit`, `a_player_tonebyindex`,
`a_player_pause`, `a_player_stop`, and the two interrupts.  It sends `MSG_EVENT_DECODE_END`.
Hard: three contexts share the state without locks; `a_player_stop` frees what the interrupts use;
six acquisitions may fail one after another; `a_player_stop(1)` spins.  Correct when interrupts
only touch live memory, no samples are lost, nothing leaks or is freed twice, an end is reported
when all has been played, and every wait ends.

**Voice list player** — `apps/common/decode/voice.c` with the handler in `app_main.c`, modelled.
State: `playfilelist`, `currentfile`, `allplayfile`.  Operations: `app_play_set_and_begin`,
`make_voice_list_and_play`, `app_msg_event_handler` (→ `app_play_file_loop`).  It calls the decoder
and is moved on by its events.  Hard: events are handled later than they are sent and name no tone.
Correct when each tone of a list sounds once, in order, to its end; every list ends; a number is
spoken as it was measured.

**External NOR flash** — `cpu/cd09/norflash.c`, modelled.
State: one cached 4K sector with its address, dirty flag and timeout; the open count; the partition
table.  Operations: open, close, bulk and byte read and write, ioctls (flush, erase, capacity), the
60 ms write-back.  Hard: the cache stands in for the chip at many places; a command to the chip may
time out; power may fail between an erase and the program that follows it.  Correct when it is a
memory: a read returns what was written last, a write changes what it is told to and nothing else,
and a power cut costs one sector at most; what was written reaches the chip.

**SAR ADC** — `cpu/cd09/gpadc.c`, CPU mode modelled, multi-channel DMA mode not.
State: a queue of channels with their samples, the slot being converted, `blocking`, the
converter's registers.  Operations: `adc_add_sample_ch`, `adc_remove_sample_ch`, `adc_get_value`,
`adc_get_value_by_blocking`, `clock_critical_enter/exit`, DMA mode, the 10 ms `adc_scan` and
`adc_isr`.  Users: battery, ad keys, touch keys.  Hard: the main loop takes the converter from two
interrupts and gives it back in several steps.  Correct when nobody gets another channel's sample
and scanning never stops for good.

**Key driver** — `apps/common/device/key/key_driver.c`, modelled.
State: a `key_driver_para` for each kind of key.  One operation, `key_driver_scan`, in the timer
interrupt; sends `SYS_KEY_EVENT`.  Hard: bounces, clicks of several keys, long presses, u8 counters
in any order.  Correct when readings are debounced, each report has the right key and number and
comes in order, and every press is reported.

**Infrared remote control** — `cpu/components/ir_encoder.c`, `ir_decoder.c`, `apps/common/device/key/irkey.c`,
modelled but for what nothing calls.  State: the frame being sent and its place; the bits received
and `command_count`, the codes that wait.  Operations: `ir_encoder_tx`, `ir_encoder_repeat_stop` and
the 563 us interrupt; the capture interrupt; `ir_get_key_value` in the key scan.  Hard: codes are
counted in an interrupt and taken in a scan of about the same period as the repeat codes; bursts get
lost.  Correct when a key that is read is one that was sent, no more often than it was sent, and an
undisturbed press is read.

**Other key readers** — `adkey.c`, `iokey.c`, `touch_key.c`.  Tables from a level or a sample to a key
value; `KeyDriver` takes any value.

**USB mass storage device** — `apps/common/device/usb/device/msd.c`, modelled.
State: CBW, CSW, sense data, `bError`, two buffers, per-disk names and handles.  Operations: one per
SCSI command, disk registration, `USB_MassStorage` in the main loop.  Hard: errors in the middle of a
transfer whose other half is with the disk, disks that go away, hosts that give up, sense data that
must belong to the last command.  Correct when it is a disk: each command is answered once, "passed"
means done but for blocks that the driver of a disk that is there fails to move in the background, the
residue is what the command's handler counts, and no handle is of a disk before the last registered.

**USB disk driver** — `apps/common/device/usb/host/usb_storage.c`, modelled.
State: `udisk_device` (status, capacities, `remain_len`, `prev_lba`), the mutex.  Operations:
`usb_stor_init`, open, close, read, write, ioctl, `set_stor_power`.  Hard: command, data and status of
the bulk-only transport must stay in step with the device over errors; blocks larger than a sector
leave a read half done between two calls; retries; media that are exchanged.  Correct when what is
reported as read or written is, and every call returns.

**USB host** — `usb_host.c`, `usb_ctrl_transfer.c`, `usb_bulk_transfer.c`, `usb_host_config.c` in the
same directory, modelled for the classes that are built.  State: `host_devices`, interfaces, the
semaphore, addresses.  Operations: mount, unmount, remount, transfers that wait for an interrupt or a
timeout, and the hot-plug handler of `app_main.c`.  Hard: an interrupt after the timeout, unplugging
during a transfer, a mount that fails after its disk was registered, the retry after a reset.
Correct when a mounted device is a configured one and the application knows of exactly the disks that
are there.

**EEPROM** — `apps/common/eeprom/iic_eeprom.c`, modelled.  No state of its own; `eeprom_write` and
`eeprom_read` drive a chip that has a page buffer, a write cycle during which it is deaf, and may
refuse bytes.  Correct when a write that was acknowledged is stored and no other byte changes.

**USB device modes** — `usb_device.c`, `task_pc.c`; **audio, CDC, HID classes** — `uac1.c`,
`uac_stream.c`, `cdc.c`, `hid.c`, `custom_hid.c`: not modelled.

**Battery** — `apps/common/battery/battery.c`: a level that moves by one per 30 s scan, a message
when it is 0; uses the ADC's queue and polled reads; not modelled.

**Others, not modelled**: AT commands, displays and fonts, bus, pin and PWM drivers, power
management, the high-precision ADC, firmware update, demos, cJSON, and libraries that come without
source (event queue, timers, heap, ring buffer, decoders, USB controller).

### How they interact

* decoder → event queue → main loop → voice list → decoder.  `VoicePlayer` composes these, and
  `VoiceReport` puts the numbers to be spoken in front.
* ADC ← battery, ad keys, touch keys: callers add and remove channels.  `GpAdc` has the callers as
  calls in any order.
* key readers → key driver → event queue → application.  `IrKeys` composes remote control, air,
  receiver and scan; `KeyDriver` takes any reading.
* file system or mass storage → norflash through `device_operations`.  `NorFlash` has calls in any
  order.
* USB host → disk driver → transfers → USB interrupt.  `UsbHost` EXTENDS `UsbTransfer`; `UsbStorage` has
  a transfer as one step that succeeds, stalls, fails or times out.
* PC → mass storage device → disk driver.  `Msd` has any host and a driver that moves a buffer in the
  background.

## The modules

| module | what it is | source |
|---|---|---|
| `Decode` | the decoder and its two interrupts, with the most general client | `decode.c` |
| `VoicePlayer` | EXTENDS `Decode`; the list and the main loop as the client | `voice.c`, `app_main.c` |
| `Playlist` | abstract: tones of a list sound in order, then it is quiet | what `voice_demo.c` says |
| `VoiceList` | pure: the tones that speak a reading | `voice.c` |
| `VoiceReport` | EXTENDS `VoicePlayer`, `VoiceList`; from a reading to the tones that are heard | `voice.c` |
| `NorFlash` | the cache and its operations, command by command | `norflash.c` |
| `FlatMemory` | abstract: a memory with writes, erases and power cuts | what callers rely on |
| `NorFlashParts` | the partition table | `norflash.c` |
| `GpAdc` | CPU-mode scanning against polled reads, clock switches, DMA mode | `gpadc.c` |
| `KeyDriver` | the key scan | `key_driver.c` |
| `KeyEvents` | abstract: presses, releases and what is reported | what the application relies on |
| `Nec`, `IrEncoder`, `IrDecoder` | the words of the code; transmitter; receiver and key reader | `ir_encoder.c`, `ir_decoder.c`, `irkey.c` |
| `IrKeys` | EXTENDS both: a remote control, the air and the scan | the same |
| `Msd` | the mass storage device with host, media and disk driver around it | `msd.c` |
| `BulkOnlyDisk` | abstract: a disk that answers one command at a time | what a host relies on |
| `UsbStorage` | the disk driver against a device on the bulk-only transport | `usb_storage.c` |
| `UsbTransfer` | transfers, packet by packet, against interrupt and timeout | `usb_*_transfer.c`, `usb_host_config.c` |
| `UsbHost` | EXTENDS `UsbTransfer`; mount, unmount, remount and the application | `usb_host.c`, `app_main.c` |
| `Eeprom` | the EEPROM driver against its chip | `iic_eeprom.c` |
| `MC*` | the instances for TLC | |
| `VoicePlayerProofs` | theorems about the decoder, the list player and the report | |
| `NorFlashProofs` | theorems about `NorFlash` and `NorFlashParts` | |
| `GpAdcProofs`, `KeyDriverProofs`, `MsdProofs`, `UsbHostProofs`, `UsbStorageProofs`, `EepromProofs` | theorems about the module of that name | |

Variables and actions keep the names of the C fields and functions.  A function that another
context can interrupt is split at the points where that shows, its steps named after what they do
(`tone_dec`, `tone_pcm`, …, `stop_spin`, `stop_halt`; `block_ie`, `block_select`, …), with a
variable (`call`, `pc`) for where the main loop is.  `PROJECT.json` maps each definition to its
lines.  An operator whose name is that of another one plus an underscore and a hint
(`Restart_keepsCount`, `Full_offByOne`) is a plausible bug in it, kept to show that a property
notices; no specification uses it.

### Decode

*Contexts.*  `call` is where the main loop is, `soft` where `decode_run` is.  The audio interrupt
is atomic, and so is each step of the others.  A lower context moves only when the higher ones are
not running.  *Data.*  The ring holds an amount of sound, a tone is a number of frames.
Resources (`mem`) are null, live or freed with the pointer kept; freeing a freed one adds
it to `doubleFree`, and is taken to leave the rest of the heap alone.  *Client.*  Any order of calls in the main loop; `Fails` says which acquisitions may
fail, `Calls` what the client uses.  *Not in it:* resampling, mixing, volume, formats; what a
resampled frame can at most occupy is not derived but assumed to be `FrameLen`, with
`Threshold - 1 + FrameLen <= CbufSize` (in the code 720·2, 18·64·2 and 18·64·4 bytes).

### VoicePlayer, VoiceReport and Playlist

`VoicePlayer` adds `currentfile` and `allplayfile` to `Decode` and replaces its client by the main
loop: it starts lists, handles end events and may stop at any time; `Calls` and `Fails` say
what of this an instance uses.  `VoiceReport` starts with the numbers: `make_voice_list_and_play`
turns a reading into tones (`VoiceList`) and the player plays them; `heard` is history.  `Says` is what a
listener makes of tones: each digit of the number stands once, at the weight that the word after it
(or a hundred before it) gives it, and no other digit stands there; `Number` is where the number after
a label is.  `Phase` maps
decoder and queue to what a listener notices — starting, sounding, ended, quiet — and
`ImplementsPlaylist` says the whole is a `Playlist`, with its fairness.  A playlist may be cut short,
by a stop or by a tone that cannot be played; it never skips a tone, repeats one or goes back.

### NorFlash and FlatMemory

A write is a loop over chunks that end at sector ends.  Each chunk may have to write back the
cached sector (erase, program page by page), load another, copy, and write back again or set the
timeout.  `pc` is the next command to the chip, `after` what follows a write-back.  A unit of data
is a page of the chip.  The module keeps data as model values and writes one value per call: what
matters is which unit holds old, new or blank data.  A read fills a buffer, `out`, which the next step
of the driver clears; `ReadsInto` says whether it may run into the dirty cached sector from below.
`PowerCut` can come between any two commands
(and forgets RAM); `PowerOn` begins again.  `_norflash_wait_ok` has its `timeout--` and the
comparison after it, with the counter's width.  `Contents` is the cached sector in RAM and the rest
on the chip; under this mapping the driver refines `FlatMemory`.

### NorFlashParts

Registers any table of partitions in any order, then opens the chip; addresses have a width
(`AddrWidth`), so the end of a partition may wrap.  Its names differ from those of `NorFlash`
(`PartsSpec`, `PartsTypeOK`), as one module proves both.

### GpAdc

A sample *is* the channel it was taken from, so that "whose sample is this" can be asked.
Registers: the selected channel `mux`, bit 15 `pend`, bit 13 `ie`, the result `res`.  `Convert` is
the hardware finishing a conversion.  Interrupts come between any two steps of the main loop and
do not nest (`adc_isr` and the timer of `adc_scan` are both installed with priority 0).  With
`DmaRuns` the interrupt also comes when `ie` is off, because the DMA interrupt shares the handler.

### KeyDriver and KeyEvents

`level` is what the key reader returns; it changes at any time to anything.  A scan has one action
per way through `key_driver_scan`, joined in `Outcome`.  `read` and `same` are history: the last
reading and for how many scans it has lasted.  `KeyEvents` is the same without scans: what is held,
whether it has been reported as long, the series of clicks and the last report.  A scan that only
filters, waits or counts is a stutter of it.

### Msd and BulkOnlyDisk

One action per stage of a command: the CBW, the checks of each SCSI command, every chunk of its data
phase, the CSW.  The asynchronous build has two buffers: `xfer` is what the disk driver moves in the
background (`Land` ends it) while the other buffer is with USB.  `Land` may fail after any number of
blocks though the disk is there, and nobody is told: `msd.c` drops what IOCTL_FLUSH returns (lines 627,
694, 715).  The history `bad` collects the blocks that failed, `named` the disk registered last in each
slot, which its handle may outlive.  The contents of a block are a value, so that a block that lands in
the wrong place shows.  Disks are pulled and inserted, registered and unregistered at any time between
two actions of the main loop's caller; the host may give up at any transfer.  `BulkOnlyDisk` has a
command outstanding or not, the disks, and the answer; `Serves` maps slots to disks; a command that
passed is true of all its blocks but those in `bad`.  *Assumed of the environment:* the host's length
covers the blocks it asks for; it asks for the sense data after a failed command and for the unit after
it has given up; a medium that was pulled is not alive again through the handle it had; the driver moves
one buffer at a time, and drops it when its disk goes.

### UsbStorage

`call` is the call in progress with the stage it is at; each stage is one USB transfer.  The device
(`dev`) is external: it expects a command, has sectors to send or expects some, then has a status to
send; it answers nothing out of turn, stalls what it refuses, and after garbage in place of a command is
dead until it is mounted anew; it sends no empty packets in place of data or a status.  A block may be
`k` sectors of 512 bytes; the driver reads a large block a sector at a time and leaves the rest to the
next read, and `InStep` relates its `remain_len` to what the device really has left.  `port` is what the
host has told the driver and `hist` what was opened and whether a transfer failed since the mount.
Everything runs in the main loop, so a call that waits for a mutex that is taken waits forever
(`Spinning`).

### UsbTransfer and UsbHost

A packet is started, the flag `usb_host_sem` awaited, the endpoint masked.  The interrupt may come at
each of these points, also after the time is up.  In place of data the
device may send an empty packet, which ends a receive (`xfer.empty`).  `UsbHost` runs the requests of a mount one after
another — reset, descriptor, address, configuration, the walk over the interfaces — with their
retries; `func` is the device's view: its address and whether it has been configured since the last
reset.  The application mounts and unmounts on the events of the cable, remounts on its own, and
learns of disks by the events that `app.has` counts.  An interface is a disk, a disk with a malformed
endpoint, of a class without a driver, or unknown.

### Eeprom

One action per byte on the bus.  The chip (external) keeps the bytes of a page until the stop, wraps
in the page, hears nothing while it writes, forgets the page at a second start, and may refuse a
byte.  `continue` in `do { } while (0)` leaves the loop, so a refused byte is never sent again: its
chunk is passed over.  The instance asks for ranges whose chunks stay in pages (`InPages`).

### IrEncoder, IrDecoder and IrKeys

Time is counted in units of 563 us.  `IrEncoder` is the transmitter's interrupt, which keeps a count
of units of carrier and of pause; `IrDecoder` the capture interrupt, which knows the time since the
burst before, compared in microseconds with the 10 % that the code allows.  In `IrKeys` each unit may
begin a burst, which is captured or lost; a scan comes at any time between units, in three steps:
test the count, decrement it, take the data.  `press` is history: the command whose head was heard
last, how many of its codes have been on the air and not been read, whether all of it was heard.
`missed` is history too: the bursts lost since a head was captured.

## Runs

| run | module / cfg | properties | shows | states |
|---|---|---|---|---|
| `decode` | `MCDecode` | `InterruptsUseLiveMemory`, `FrameFits`, `StoppedHoldsNothing`, `FreedOnce`, `ReportedEndIsComplete`, `StopReturns` | the decoder is safe under any client and any failure; one pointer is freed twice, after a failed format check | 11,392 |
| `voice_list` | `MCVoiceReport` | `ImplementsPlaylist`, `ReportIsHeard`, `QuietHoldsNothing` | readings are spoken as measured, lists keep their order, whatever fails or is stopped | 564,289 |
| `norflash` | `MCNorFlash` | `CleanCacheIsFlash`, `DirtyHasTimeout`, `ImplementsMemory` | the cache is a memory to whoever reads and writes it, also across power cuts | 68,128 |
| `norflash_parts` | `MCNorFlashParts` | `AscendingDisjoint`, `CapacityExists` | tables listed by address have no overlap that is not noticed | 57,649 |
| `gpadc` | `MCGpAdc` | `SamplesAreOwn`, `PolledIsOwn`, `ScanGoesOn`, `EveryChannelSampled` | nobody gets another's sample; scanning goes on | 18,782 |
| `key` | `MCKeyDriver` | `Debounced`, `ImplementsKeyEvents`, `EveryPressReported` | readings are debounced and reported as promised | 76,068 |
| `ir_keys` | `MCIrKeys` | `ReadsAreSent`, `EveryPressIsRead` | what is read was sent, as often at most, but for what two bursts lost, or one of a head over a waiting code, do until the next head; an undisturbed press is read | 1,777,372 |
| `msd` | `MCMsd` | `BufferNotShared`, `ResidueIsHonest`, `AnsweredIsSettled`, `SenseNamesTheFailure`, `HandleIsOfName`, `ImplementsBulkOnlyDisk`, `EveryCommandIsAnswered` | the device is a disk whatever host and media do, and what it passes is done but for background failures, which it does not notice | 714,216 |
| `usb_storage` | `MCUsbStorage` | `InStep`, `ReadsAreTrue`, `WritesAreStored`, `EveryCallReturns` | driver and device stay in step, success is true | 114,739 |
| `usb_storage_mutex` | `MCUsbStorageWrite.cfg` | ¬`MutexIsFree` | see below | |
| `usb_host` | `MCUsbHost` | `SuccessIsComplete`, `AppKnowsTheDisk`, `MountIsTrue`, `EveryCallReturns`, `OutFollows` | mounted means configured; the application is told of every disk | 360,603 |
| `eeprom` | `MCEeprom` | `CallsAreTrue` | what was acknowledged is stored and read, no other byte changes | 144,311 |

`PROJECT.json` names for each property a bug, put into one definition, with which it fails.

These configurations are kept beside the runs and can be given to TLC in the same way:

| configuration | module | outcome |
|---|---|---|
| `MCEeprom.cfg` with `PROPERTY EveryCallReturns` | `MCEeprom` | holds: every call ends, for a chip that ends its write cycles |
| `MCDecodePause.cfg` | `MCDecode` | `EndReportedOnce` is violated |
| `MCVoiceOverlap.cfg` | `VoicePlayer` | `AdvanceOnlyAfterEnd` is violated |
| `MCNorFlashRead.cfg` | `MCNorFlash` | `ImplementsMemory` is violated when a read may run into the dirty cached sector |
| `MCGpAdcDma.cfg` | `MCGpAdc` | `VbgIsVbg` is violated |
| `MCUsbHostStale.cfg` | `MCUsbHost` | `ReturnsWhatWasSent` is violated |
| `MCIrKeys.cfg` with `Nested = TRUE` | `MCIrKeys` | `ReadsAreSent` is violated when the capture interrupt may come inside a scan |

### Bounds, and why they are enough

* `decode`: a frame is larger than what one interrupt reads (5 and 2), and just fits above the
  threshold (3 − 1 + 5 = 7), as in the code; three frames fill the ring, drain it below the
  threshold and end with a part of a read; two unread events let an old end wait while a tone plays.
* `voice_list`: 39 readings with a zero and no zero in every place, numbers of one to three digits,
  and those that have no tone; tones of up to two frames.
* `norflash`: three sectors of two pages, so that a write begins inside a sector, covers one and
  ends inside a third; one value besides blank, because only old or new matters.  `norflash_parts`:
  three slots and four names, so that the table overflows.
* `gpadc`: three slots for three channels, so that the queue can be full, have holes and hold a
  channel twice; two samples in a polled read, so that one is not the last.
* `key`: two keys, one of them value 0, to which the zeroed fields are equal; `long_time` and
  `hold_time` two scans apart, a counter of clicks that wraps at 7 for 256.
* `ir_keys`: bytes of two bits, so frames of eight bits and every shift of them; the
  pauses after an end and a repeat are shorter than in the code but still unlike any pulse; two
  commands; two bursts lost or switchings-off, so that a fault can follow another and a captured head
  can end what they did; the user leaves 25 units (14 ms) between presses, which the transmitter does
  not see to itself; at most two codes wait for a scan (the code's scan comes every 110 ms, its repeat
  codes every 110.3 ms).
* `msd`: one slot and two disks that follow each other in it; five blocks and buffers of two, so that
  a transfer has a first, a middle and a shorter last chunk; fifteen commands, one or more of each
  kind; a transfer in the background may fail at two of the blocks (`Weak`), that is in the first chunk
  of a read, in its middle one and in the last of the write; `U32` is smaller than 2^32 but above every length.
* `usb_storage`: a disk with blocks of four sectors that is exchanged for a stick, a card reader whose
  first unit is no disk, and a reader that is not ready; sectors up to 5, two to a call; one transfer
  that goes wrong with the cable in, and the cable pulled at any time; the five tries of the code.
* `usb_host`: a device is plugged in twice, two tries to a mount, bulk transfers of up to two packets,
  one packet that stalls, fails or is late; a device whose disk comes after an interface without a
  driver, and one whose disk is malformed.
* `eeprom`: two pages of three bytes; seven ranges that begin, end and cross pages; two refusals.

### Fairness

* `Decode`: the audio hardware keeps interrupting while a tone plays and a pending software
  interrupt is taken (WF).  The main loop does not stop inside a function (WF of `Proceed`): nothing
  there blocks but `a_player_stop(1)`, whose end is the property.  In `VoicePlayer` the interrupts
  come and go, so the main loop needs SF: they take a part of the time, never all of it.
* `GpAdc`: conversions end, both interrupts are served, an operation that has begun goes on.
* `KeyDriver`: the timer calls the scan.  Nothing is assumed of keys: `EveryPressReported` is about
  the behaviours in which they come to rest.
* `IrKeys`: time passes although scans come in between (SF), interrupts and scans are served (WF).
  Nothing is assumed of the user.
* `Msd`: the main loop goes on with a command (its USB calls have timeouts), and the disk driver ends
  what it does in the background.  Nothing is assumed of the host: it may give up.
* `UsbStorage`: a call that has begun goes on; each transfer has a timeout.
* `UsbHost`: a call goes on (WF), the application takes its events in the end though calls come in
  between (SF), the cable's state is noticed (WF).
* `Eeprom`: the driver goes on, and a write cycle ends.
* `NorFlash`: none; its run is about safety.

`MCNorFlashParts`, `MCUsbStorage` and `MCUsbHost` turn off the check for deadlock: the program stops
at a failed ASSERT; a main loop that waits for its own mutex stays there; and when the cable has been
plugged in as often as the bound allows there is nothing left to do.

## Proofs

All are for every value of the constants that meets the named ASSUMEs.

**`VoicePlayerProofs`** — of the decoder with any client: `TypeCorrect`, `InterruptsAreSafe`,
`NoSampleLost`, `NothingLeaks`, `ReleasedOnce`, `EndIsComplete`; of the list player: `QuietIsReleased`
and `PlaysTheList` (the safety part of the refinement of `Playlist`).  Assumption of
`PlaysTheList`: `~Overlap`, no list is begun over another one (see below).  None of
the properties is inductive: that an interrupt finds live memory follows from where the main loop can
be.  `IInv` has four parts: `MainInv`, the labels possible in each `play_status`; `SoftInv`, a
pending software interrupt means an unfinished decoder and a ring below the threshold; `LeftInv`,
nothing is left to decode once the decoder has ended; `MemInv`, what is acquired at each label.
One lemma per context, then one step per action.  The list adds `QuietInv`, a finished tone has an
end event that nobody has read; `EndedInv`, a tone starts, sounds or has ended, and there is one
unread end at most; `IndexInv`, where `currentfile` is in each case.

Of the report: `ReportSaysReading`, for readings of any size and under the same assumption, and
`ReportPlaysTheList`, that a report is a behaviour of the list player, so that `QuietIsReleased` and
`PlaysTheList` hold of it.  The first has two halves.  The tones of a number say it (`NumberIsSaid`): by
the hundreds, tens and units apart (`TonesOfNumber`) there are six cases of zeros, and in each of them
the weight of a digit follows from its neighbours; `ListLaidOut` says where the three numbers are in
a list, and `NumberAt` that each ends at the next label.  What is heard is the list (`ReportInv`):
`HeardSoFar` says that the tones heard are the first ones of `playfilelist`, up to `currentfile` or with
it, depending on whether the tone at `currentfile` has begun to sound.

**`NorFlashProofs`** — `TypeCorrect`, `CleanCache`, `DirtyData`, `MemoryImplemented` (the refinement of
`FlatMemory`, reads included).  Assumptions: `QuickChip`, every command is done before the last poll,
`~EraseCached`, no erase ioctl hits the cached sector, and for the refinement `~ReadsInto`, no read
runs into the dirty cached sector from below; without any of them the properties do not hold.
`IInv`: `ReqInv`, what a write in progress has left stays inside the chip; `OpenInv`, when there is
a cache; `CleanInv`, what the cached sector on the chip holds, page by page during a write-back;
`TimerInv`.  The refinement rests on how `Todo`, the part of a write that is not visible yet,
shrinks by exactly the chunk that is copied; so it also proves that a write which ends has written
everything; and on `SectorsInOrder`, by which a read that begins in the cached sector or above it
never comes back to it.

**`GpAdcProofs`** — `TypeCorrect`, `PolledReads`, `ScanProceeds` with and without DMA mode;
`OwnSamples` under `~DmaRuns`, without which it is false (`MCGpAdcDma.cfg`).  `PolledInv` says
what the converter does at each label of a polled read, `VbgInv` that the reference is in slot 0
and nowhere else, `OwnInv` whose conversion may end next, and where it would be stored.  That a
smallest occupied slot exists comes from the well-foundedness of `<`.

**`KeyDriverProofs`** — `TypeCorrect`, `DebouncedReading`, `EventsImplemented` (the refinement of
`KeyEvents`), for any keys and times that fit in a byte.  The invariant adds to the types that
`filter_cnt` never exceeds the number of equal readings.  It would fail for times beyond a byte or
`hold_time <= long_time`; the four tables of the SDK meet the assumption.

The same module proves of `NorFlashParts`: `TableTypeCorrect`; `ListedByAddress`, for any table and any
width of an address: comparing each partition with those before it is enough when they are listed by address;
`PartitionsFit`, under `NoWrap`, which the run's sizes meet: where a start and a size add up to more
than an address holds, the end wraps and the comparison with the chip passes.  The invariant keeps
what the two ASSERTs have seen: `EnteredApart`, `EndsKnown`, `OpenFits`.

**`MsdProofs`** — `TypeCorrect`, `Settled`, `NotShared`, `SenseIsTrue`, `HandleOfItsName`,
`HonestResidue`, and `Implements` (the refinement of `BulkOnlyDisk`), for any disks, commands, block and
buffer sizes.  `HonestResidue` is for hosts that do not ask `read_format_capacity` for less than the 12
bytes that it subtracts; with less the residue wraps.  It gives the count of reads, writes, INQUIRY,
REQUEST_SENSE and READ_FORMAT_CAPACITIES, and 0 for the others.  `SenseIsTrue` excepts the one command
whose sense key is an earlier one's, `HandleOfItsName` has the handle of an unregistered slot in it.
The refinement shows that what is answered is true of every block that is not in `bad`, so the invariant
has to follow each block: `PositionInv` and `ResidueInv` say what of a command is done at each stage;
`XferInv` that the transfer in the background is with a disk that is there, for the chunk the stage says
and in the other buffer; `ReadInv` that what was received and what is in both buffers are copies of the
right blocks of the disk, but for those in `bad`; `WriteInv` that each block that was taken is on the
disk, with its driver or in `bad`; `StatusInv` which error a failed command has left; `LostInv` that a
handle whose medium has gone stays dead.

**`UsbHostProofs`** — `TypeCorrect`; `SuccessMeansMoved`, `DiskIsKnown`, `MountsAreTrue`, for any
devices, retries, lengths and faults.  `SemInv` ties `usb_host_sem` to the packet under way.  It is lost
when a packet is given up, as the late interrupt sets the flag for the next one, until a mount clears
the flag: so it and `MovedInv`, how far a bulk transfer is, stand under `~late`.  `FuncInv` says at each
request of a mount what the device must have done, if it is still the one whose bus was reset; it needs
no `~late`, for a control request asks the endpoint and not the flag for the result.  `AppInv` relates
the disks of a mounted device to what the application was told.

**`UsbStorageProofs`** — `TypeCorrect`; `StaysInStep`, `ReadsTheMedium`, `StoresTheWrites`, for any
media, units, capacities and sizes of blocks, any number of sectors, retries and faults.  The place
of a call is what is left of it: sectors of an old block to skip with their CSW, the CBW, `m` transfers
of data, and the CSW or, in a block that is left half read, none (`Ends`).  The invariant says for each
place what the device is doing, apart for calls of whole blocks (`SmallShape`, `SmallClean`), reads in
large blocks (`LargeShape`, `LargeClean`) and between calls (`RestInv`): `Offers` says that the sectors
it has still to send are the ones from the wanted one on.  This is needed because a read trusts
whatever comes, and its data belong to the command of a read before it.  `WriteInv` has no "while
nothing has failed": a write goes on after a failure, and is still true because a device that missed
the CBW or data sends no status, or one with an error.  `PortInv`, `StatusInv`, `RoundInv` and `LunInv` are
about the disk in the socket, the status at each kind of call, the rounds of `usb_stor_init`, and
units that the medium has.

**`EepromProofs`** — `TypeCorrect`; `CallsDoWhatTheySay`, for any size of a page and of the chip, any
ranges and any refusals.  A page of the chip wraps at its end and goes to the cells when nobody looks,
so the invariant says where each byte of a write is: those of the chunks that are over in the cells or
the page about to be written (`SentInv`), those of the chunk before `i` in the page being collected
(`ChunkInv`), if none was refused; and, refused or not, that no page holds a byte for a cell outside
the range (`OutsideInv`).  It rests on each chunk lying in one page (`RangeInv`), which `InPages` gives
the first chunk and the step of a page the others; and on `BusyInv`, the chip is deaf only while the
driver polls it, so that no byte of the next chunk goes to a deaf chip.

**Model-checked only:** liveness (`StopReturns`, `EveryChannelSampled`, `EveryPressReported`,
`EveryPressIsRead`, `EveryCommandIsAnswered`, `EveryCallReturns`, `OutFollows`, and the fairness of
`Playlist`), which the prover does not reach; and `ReadsAreSent` of `IrKeys`, the one safety property
of a run without a theorem.  It excepts what `missed` counts: two bursts lost since the last captured
head, or one of a head while a code waits.  Without the first exception TLC finds a trace in which the
last bit of a frame and the head of the next are lost, the first bit of the next frame completes the
old one because no timeout clears `bit_count`, and the shifted word passes the check of its
complement; without the second, one in which a scan returns a code of the press before.  A theorem would
have to relate the word in the decoder to the word being sent bit by bit, with powers of two of a
symbolic width, about which the provers know only single numbers; that proof has not been written.

## What the checks found

A run of its own:

* **`usb_storage_mutex`**, `usb_storage.c:1546`.  When the CSW of a write reports a failure, the error
  path asks for the sense data while it holds `usb_h_mutex`, and `request_sense` waits for that
  mutex; in a single main loop nobody gives it back.

Configurations beside the runs (see the table above):

* `MCNorFlashRead.cfg`, `norflash.c:364`.  Only the sector in which a read begins is looked up in the
  cache.  A read that begins below a dirty cached sector and runs into it returns old data; `norflash.c:149` calls the
  cache the same as the flash.
* `MCDecodePause.cfg`, `decode.c:288`.  `a_player_pause` tests `play_status` and stores `MAD_PAUSE`
  later.  When the tone ends in between, the next `a_player_pause` brings it back, and its end is
  reported twice; `voice_demo.c:12` has one event per tone.
* `MCVoiceOverlap.cfg`, `app_main.c:78`.  An end event still queued when a new list starts skips the
  new list's first tone.
* `MCGpAdcDma.cfg`, `gpadc.c:639`.  `blocking` is cleared before `cur_ch` is reset; a DMA interrupt in
  between stores the polled sample in the interrupted slot, which may be the reference's.
* `MCUsbHostStale.cfg`, `usb_host.c:93`.  The flag of a transfer that timed out and ended late is still
  set when the next one waits: a send of several packets reports fewer than it has sent.
* `MCIrKeys.cfg` with `Nested = TRUE`, `ir_decoder.c:155`.  If the capture interrupt can come
  inside the key scan, the
  head of a new frame clears the count between its test and its use, and a key is read once more.
  Whether it can is decided by the timer library; the run takes it that it cannot.

## Known behaviour that no run states

Where an assumption is named, the model contains the behaviour and the assumption keeps it out of the
runs and proofs above; the rest was met while modelling and lies outside what the properties say, or
is excepted by name in them.

* The format check's failure (`"format" \in Fails`) frees the decoder's buffer and leaves its
  pointer, so the error path frees it again (`decode.c:391`, `433`).  `FreedOnce` excepts this one
  pointer; what the second free does to the heap is not modelled, so the other properties speak of an
  allocator that survives it.
* A tone that cannot be opened sends no event, so its list ends there without notice (`voice.c:60`);
  `a_player_stop` does the same (`decode.c:303`).  `Playlist` calls both cut short.
* `currentfile` is a u8 (`voice.c:58`): after 256 single tones an old list begins again.
* A chip that is ready at the last poll counts as failed, and one that is never ready as done
  (`norflash.c:190`): `QuickChip`.  With the former a write-back stops after its erase, although
  `flash_cache_is_dirty` is already clear.
* Erase ioctls bypass the cache (`norflash.c:626`): `EraseCached`.
* Partitions that overlap are noticed when the later one starts inside an earlier one, so a table
  that is not in the order of addresses may pass: `Ascending`.
* A full ADC queue is not reported (`gpadc.c:426`), and a channel may take two slots.
* Without memory, entering single-channel DMA mode leaves `dma_conti_mode` set (`gpadc.c:544`).
* A key that was reported as long and changes straight into another one gets no up event
  (`key_driver.c:60`), a click followed by one of another key is dropped (as `key_driver.c:63`
  says), and 256 clicks count as none (`key_driver.c:68`).
* Mass storage device: `read_10` and `write_10` never set `bCSWStatus` to 0 themselves; a failed command
  sets the residue to 0 (`msd.c:483`), and so do MODE_SENSE (567) and READ_CAPACITY (866), whatever they
  moved; the results of IOCTL_FLUSH are ignored (627, 694, 715), so a write passes without the blocks
  that failed in the background, a read sends what the buffer held; an unknown command with data to the
  device sets `bError` to 1 (981), which the switch does not list, so the host gets the sense key of an
  earlier command; REQUEST_SENSE without data sets NOT_READY, which is 2 and reads as ILLEGAL_REQUEST
  (524, 992); a slot that is unregistered goes on serving through its handle (1046, 299);
  a data-in command that is not known gives NO_SENSE; `bError` is
  cleared by private commands only; `residue -= 12` of `read_format_capacity` may go below 0; a length
  shorter than the blocks leaves a read outstanding; INQUIRY, REQUEST SENSE and READ CAPACITY ignore a
  failed USB write; `msd_register_disk` returns -1 on success and forgets an open handle; starting a
  class twice fills a second slot with the same disk.
* USB disk driver: the result of `_usb_stor_write` is unsigned (`usb_storage.c:1422`); a read does not
  look at `bCSWStatus`; after a read that stalled or timed out the CSW is unread and commands fail
  until the next mount; large blocks: a read that skips forward returns the wrong sector although the
  comment at line 859 says it is handled, more than one sector to a call is wrong, changing the unit
  or closing in the middle of a block loses step, nothing checks the bound; `usb_stor_init` can succeed
  after five rounds without a ready unit, with the capacity of before; `capacity` has room for two
  units only; a disk stays DEV_CLOSE after it was pulled until it is closed.  `ReadsAreTrue` and
  `InStep` name these exceptions.
* USB host: a receive that an empty packet ends is returned as the length that was asked for
  (`usb_bulk_transfer.c:79`, `140`), data or status; the check of `interface_num` is off by one (`usb_host.c:242`) and `set_power(1)` reads past
  the array; `desc_buf` is lost when the second request for the configuration fails; the result of the
  first descriptor request is ignored; a failed remount reports no removal before the unmount; a disk
  is registered although its round fails; with `retry` 0 the mount would report success; the parser of
  a disk leaves out the interface's own nine bytes, so the walk ends at the first disk; endpoint
  numbers are not given back between rounds.
* EEPROM: a chunk with a refused byte is passed over in silence; a read that is refused leaves its
  buffer as it was; a write that crosses a page from inside wraps in it; the wait for the chip has no
  limit; a length of 0 underflows.
* Infrared: a head that is lost while a code waits leaves `command_count` while the next frame shifts
  in, so that a scan may take a mixture of two frames for a command (`ir_decoder.c:104`, `155`), and
  two lost bursts may complete one frame with the bits of another: `missed`.  Presses less than 14 ms apart run into each other, and the capture of one extra burst
  shifts the frame to another command that passes the check (`ir_encoder.c:247` has no pause);
  likewise a burst from elsewhere that splits a 1.  A second `ir_encoder_tx` before the first
  interrupt replaces the frame, and the transmitter counts as idle until then.  The scan's period
  (110 ms) and that of the repeat codes (110.3 ms) slip.  Command 0xff is never read, and 0x15 is
  listed twice (`irkey.c:27`), so IR_09 is never returned.
* Battery: `battery_uninit` removes another channel than the one that is read (`battery.c:102`).

## Not modelled

* Multi-channel DMA mode of the ADC, whose buffer and pending flag depend on what the hardware does
  with requests already under way, and the conversion of samples to voltages.
* Of the infrared module: `ir_encoder_deinit`, and the accessors for addresses and unchecked values
  (each of which takes a code); nothing calls them.
* Of USB: the read-ahead options and asynchronous receives of the host, `usb_stor_reset`,
  `usb_stor_resume` and `mode_sense6`, which the default build does not have or call; the private
  commands of the device, which reset the chip; the synchronous build of `msd.c`; audio, HID and ADB
  on the host, which are not in the build; a packet that cannot even be started.
* Device modes and the audio, CDC and HID classes of the device: descriptors and endpoint I/O around a
  controller library and ring buffers that come without source.
* The battery's level, AT commands, displays, fonts, bus and pin drivers, power management, the
  high-precision ADC, firmware update: register programming, drawing or formatting, with little state
  that outlives a call.  Most of the SDK's lines are of these kinds, or are headers of registers and
  tables of glyphs; the map therefore covers about a tenth of the lines, some 5000 of 46061.
* Libraries without source: the event queue is a counter of unread events, a timeout is a state of a
  timer, the heap an acquisition that may fail.
* Loss of events when the event queue is full: its size and policy are in a library.
* What a compiler may do to accesses: there is one core, and each access to a shared field is taken as
  atomic and in program order.  `play_status` and `decode_status` are volatile; the fields of
  `gpadc.c` are not; where a compiler could swap two of them (`blocking` and `cur_ch` at the end of a
  polled read) the order of the source, which is the more dangerous one, is modelled.  `command_count`
  of `ir_decoder.c` is read and written in a scan: `take` may use the value that was tested or a new
  one, as builds differ.

## Plan

Done: the modules above, and the proofs named above.  Left: the parts under
[not modelled](#not-modelled), of which the battery and the other key readers would come first.
