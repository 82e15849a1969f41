------------------------------ MODULE IrDecoder ------------------------------
(***************************************************************************)
(* The infrared receiver of cpu/components/ir_decoder.c and the key reader *)
(* on top of it, apps/common/device/key/irkey.c.  The capture interrupt    *)
(* comes at the start of each burst and knows the time since the burst     *)
(* before; the key scan takes what has been received, one code a scan.     *)
(* Time is in units of 563 us, which is exact for a transmitter with the   *)
(* same clock.                                                             *)
(***************************************************************************)
EXTENDS Nec

CONSTANTS
    Timeout,        \* NEC_TIMEOUT_MS in units; 267 in the code
    Listed,         \* the commands in IRTabFF00; each is its own key value
    NO_KEY

ASSUME IrDecoderAssumption ==
    /\ Timeout \in Nat
    /\ Listed \subseteq 0..(2^Width - 2) /\ NO_KEY \notin Listed

VARIABLES
    ir_decode,      \* the struct: ir_data, bit_count, command_count
    capturing,      \* whether the capture timer runs
    gap,            \* units since the last burst that was captured, up to
                    \* Timeout
    scan,           \* where ir_get_key_value is: "idle", "take", "data"
    tested          \* the command_count it has tested

decoder == <<ir_decode, capturing, gap, scan, tested>>

Empty == [ir_data |-> 0, bit_count |-> 0, command_count |-> 0]

DecoderInit ==
    /\ ir_decode = Empty /\ capturing = TRUE /\ gap = 0
    /\ scan = "idle" /\ tested = 0

Elapse(t) == IF t < Timeout THEN t + 1 ELSE t

\* is_time_within, in us.
Deviation == 10
Abs(n) == IF n < 0 THEN -n ELSE n
Within(t, center) == Abs(563 * (t - center)) < (563 * center * Deviation) \div 100

\* ir_decoder_pulse_check
PulseType(t) ==
    CASE Within(t, 24) -> "HEAD"
      [] Within(t, 2) -> "BIT_0"
      [] Within(t, 4) -> "BIT_1"
      [] Within(t, 20) -> "REPEAT"
      [] OTHER -> "ERROR"

\* ir_decoder_bit_count_check: a code is complete.
Counted_always(d) == [d EXCEPT !.command_count = (@ + 1) % 256]
Counted(d) ==
    IF d.bit_count = NBits THEN [d EXCEPT !.command_count = (@ + 1) % 256] ELSE d

Shifted_notCounted(d, bit) ==
    [d EXCEPT !.ir_data = (@ \div 2) + bit * 2^(NBits - 1), !.bit_count = (@ + 1) % 256]
Shifted(d, bit) ==
    Counted([d EXCEPT !.ir_data = (@ \div 2) + bit * 2^(NBits - 1),
                      !.bit_count = (@ + 1) % 256])

Headed(d) == [d EXCEPT !.bit_count = 0, !.command_count = 0]

\* The capture interrupt.  Only the time is taken of a burst after a pause.
ir_decode_irq ==
    /\ gap' = 0
    /\ ir_decode' =
        IF gap >= Timeout THEN ir_decode
        ELSE CASE PulseType(gap) = "HEAD" -> Headed(ir_decode)
               [] PulseType(gap) = "BIT_1" -> Shifted(ir_decode, 1)
               [] PulseType(gap) = "BIT_0" -> Shifted(ir_decode, 0)
               [] PulseType(gap) = "REPEAT" -> Counted(ir_decode)
               [] OTHER -> ir_decode
    /\ UNCHANGED <<capturing, scan, tested>>

\* ir_decoder_get_command_value, with its check, and the table of irkey.c.
Byte(n) == (ir_decode.ir_data \div 2^(n * Width)) % 2^Width
Checked == Byte(2) + Byte(3) = 2^Width - 1
KeyValue == IF Checked /\ Byte(2) \in Listed THEN Byte(2) ELSE NO_KEY

\* ir_get_key_value: test the count, ...
ir_get_key_value ==
    /\ scan = "idle"
    /\ tested' = ir_decode.command_count
    /\ scan' = IF ir_decode.command_count = 0 THEN scan ELSE "take"   \* or return NO_KEY
    /\ UNCHANGED <<ir_decode, capturing, gap>>

\* ... decrement it, which a build may do with the value it has tested, ...
take ==
    /\ scan = "take" /\ scan' = "data"
    /\ \E count \in {tested, ir_decode.command_count} :
            ir_decode' = [ir_decode EXCEPT !.command_count = (count + 255) % 256]
    /\ tested' = 0
    /\ UNCHANGED <<capturing, gap>>

\* ... and take the data: the scan returns KeyValue.
data ==
    /\ scan = "data" /\ scan' = "idle"
    /\ UNCHANGED <<ir_decode, capturing, gap, tested>>

ir_decoder_deinit ==
    /\ capturing /\ capturing' = FALSE
    /\ UNCHANGED <<ir_decode, gap, scan, tested>>

ir_decoder_init ==
    /\ ~capturing /\ capturing' = TRUE
    /\ ir_decode' = Empty /\ gap' = 0
    /\ UNCHANGED <<scan, tested>>
=============================================================================
