-------------------------------- MODULE IrKeys --------------------------------
(***************************************************************************)
(* A remote control made of IrEncoder, the air, and the infrared keys made *)
(* of IrDecoder, which a timer interrupt scans as apps/common/device/key/  *)
(* irkey.c and key_driver.c set it up.                                     *)
(*                                                                         *)
(* Time passes in units of 563 us (Tick).  A burst that begins is captured *)
(* or lost before the next unit; a scan comes at any time and is over      *)
(* before the next unit too, so at most one burst begins during it.  Any   *)
(* burst may be lost, those of a head while codes wait included.           *)
(***************************************************************************)
EXTENDS IrEncoder, IrDecoder

CONSTANTS
    Addresses, Commands,    \* what the keys of the remote control send
    Nested,         \* whether the capture interrupt may come inside a scan
    Pause,          \* units the user leaves between two presses, after the last
                    \* burst that was captured; ir_encoder_tx asks for none
    MaxFaults,      \* bound: bursts that are lost, and ends that are switched off
    MaxWaiting      \* bound: a scan comes before more codes than these wait for it

ASSUME IrKeysAssumption ==
    /\ Addresses \subseteq Bytes /\ Commands \subseteq Bytes
    /\ Nested \in BOOLEAN /\ Pause \in 0..Timeout
    /\ MaxFaults \in Nat /\ MaxWaiting \in 1..255

VARIABLES
    edge,           \* a burst has begun in this unit
    faults,
    asked,          \* history: the command of the last call of ir_encoder_tx
    press,          \* history: the press whose head was sent last
    missed          \* history: bursts that were lost since a head was captured; two
                    \* for one of a head while a code waited for a scan

vars == <<encoder, decoder, edge, faults, asked, press, missed>>

\* What is told of a press: its command, how many of its codes have been on the
\* air and not been read, whether any has been read, and whether nothing of it was
\* lost.
Press(cmd) ==
    [cmd |-> cmd, owed |-> 0, read |-> FALSE, clean |-> PulseType(gap) = "HEAD"]

Init ==
    /\ EncoderInit /\ DecoderInit
    /\ edge = FALSE /\ faults = 0
    /\ asked = NO_KEY /\ press = [Press(NO_KEY) EXCEPT !.clean = FALSE]
    /\ missed = 0

-----------------------------------------------------------------------------
(* Time, the air and the scan.                                              *)

\* Everything that belongs to this unit has been done.
UnitOver == ~edge /\ scan = "idle"

Tick ==
    /\ UnitOver /\ ir_decode.command_count < MaxWaiting
    /\ IF timer THEN ir_encode_irq ELSE UNCHANGED encoder
    /\ edge' = (~pwm /\ pwm')
    /\ gap' = Elapse(gap)
    /\ UNCHANGED <<ir_decode, capturing, scan, tested, faults, asked, press, missed>>

\* The burst that has just begun begins the head of a frame, or ends it, or
\* ends a code.
Heads == ir_encode.state = "DATA" /\ ir_encode.bit_count = 0
Opens == ir_encode.state = "DATA" /\ ir_encode.bit_count = 1
Ends == ir_encode.state = "REPEAT"

OnAir ==
    CASE ~capturing -> press
      [] capturing /\ Opens -> Press(asked)
      [] capturing /\ Ends -> [press EXCEPT !.owed = IF @ < MaxWaiting THEN @ + 1 ELSE @]
      [] OTHER -> press

Capture ==
    /\ edge /\ (Nested \/ scan = "idle")
    /\ edge' = FALSE
    /\ IF capturing THEN ir_decode_irq ELSE UNCHANGED decoder
    /\ press' = OnAir
    /\ missed' = IF capturing /\ Opens /\ PulseType(gap) = "HEAD" THEN 0 ELSE missed
    /\ UNCHANGED <<encoder, faults, asked>>

\* A burst is lost.
Lose ==
    /\ edge /\ scan = "idle"
    /\ faults < MaxFaults
    /\ edge' = FALSE /\ faults' = faults + 1
    /\ press' = [OnAir EXCEPT !.clean = FALSE]
    /\ missed' = IF missed > 0 \/ (ir_decode.command_count > 0 /\ (Heads \/ Opens))
                 THEN 2 ELSE missed + 1
    /\ UNCHANGED <<encoder, decoder, asked>>

Scan ==
    /\ ir_get_key_value
    /\ UNCHANGED <<encoder, edge, faults, asked, press, missed>>

Take ==
    /\ take
    /\ UNCHANGED <<encoder, edge, faults, asked, press, missed>>

Data ==
    /\ data
    /\ press' = IF KeyValue = NO_KEY THEN press
                ELSE [press EXCEPT !.owed = IF @ > 0 THEN @ - 1 ELSE 0, !.read = TRUE]
    /\ UNCHANGED <<encoder, edge, faults, asked, missed>>

-----------------------------------------------------------------------------
(* The user of the remote control, and the receiver switched off and on.    *)

Ask ==
    /\ gap >= Pause
    /\ \E a \in Addresses, c \in Commands, r \in BOOLEAN :
            ir_encoder_tx(a, c, r) /\ asked' = c
    /\ UNCHANGED <<decoder, edge, faults, press, missed>>

LetGo ==
    /\ ir_encode.repeat_en
    /\ ir_encoder_repeat_stop
    /\ UNCHANGED <<decoder, edge, faults, asked, press, missed>>

\* The receiver is switched off, at any time.
Off ==
    /\ scan = "idle" /\ faults < MaxFaults
    /\ ir_decoder_deinit
    /\ faults' = faults + 1
    /\ press' = [press EXCEPT !.clean = FALSE]
    /\ UNCHANGED <<encoder, edge, asked, missed>>

\* The receiver is switched on while the air is quiet.
On ==
    /\ scan = "idle" /\ ~timer /\ ~edge
    /\ ir_decoder_init
    /\ press' = [press EXCEPT !.clean = FALSE]
    /\ missed' = 0
    /\ UNCHANGED <<encoder, edge, faults, asked>>

-----------------------------------------------------------------------------
Next ==
    \/ Tick \/ Capture \/ Scan \/ Take \/ Data
    \/ Lose \/ Ask \/ LetGo \/ Off \/ On

\* Both interrupts of the receiver are served, and time passes: scans take a
\* part of it, never all.
Fairness ==
    /\ SF_vars(Tick) /\ WF_vars(Capture)
    /\ WF_vars(Scan) /\ WF_vars(Take) /\ WF_vars(Data)

Spec == Init /\ [][Next]_vars
FairSpec == Spec /\ Fairness

-----------------------------------------------------------------------------
(* Properties.                                                              *)

TypeOK ==
    /\ ir_encode.state \in States /\ ir_encode.ir_data \in Words
    /\ ir_encode.high_level_count \in 0..16 /\ ir_encode.low_level_count \in 0..255
    /\ ir_encode.bit_count \in 0..NBits
    /\ ir_decode.ir_data \in Words
    /\ ir_decode.bit_count \in 0..255 /\ ir_decode.command_count \in 0..255
    /\ gap \in 0..Timeout /\ faults \in 0..MaxFaults
    /\ scan \in {"idle", "take", "data"} /\ tested \in 0..255
    /\ press.owed \in 0..MaxWaiting /\ missed \in 0..2

\* irkey.c:53: a scan that returns a key returns the one that was pressed last,
\* and no more often than its frame and repeat codes have been sent, although
\* a burst was lost or the receiver was off for a while.  What may go wrong is over
\* with the next head that is captured, and takes one of two things before it.
\* Two bursts lost: no timeout clears bit_count, so the frame after one that has
\* lost a bit, its own head lost, completes it.  Or a head that is lost while a
\* code waits: command_count stays (ir_decoder.c:104) while the bits of the next
\* frame shift into ir_data, and a scan takes the old code or the mixture.
ReadsAreSent ==
    [][Data /\ missed < 2 => /\ KeyValue \in {NO_KEY, press.cmd}
                             /\ KeyValue # NO_KEY => press.owed > 0]_vars

\* ir_decoder.c:106: a press of which nothing is lost is read, unless the head
\* of the next one forgets its codes before a scan has come.
EveryPressIsRead ==
    (press.cmd \in Listed /\ press.clean /\ press.owed > 0)
        ~> (press.read \/ ~press.clean \/ press.owed = 0)
=============================================================================
