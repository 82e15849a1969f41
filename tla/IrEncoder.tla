------------------------------ MODULE IrEncoder ------------------------------
(***************************************************************************)
(* The infrared transmitter of cpu/components/ir_encoder.c.  A timer of    *)
(* 563 us drives it: each interrupt makes one unit of the pulse that is    *)
(* being sent and, at its end, chooses the next one.  A frame is a head,   *)
(* the bits of an address and a command each followed by its complement,   *)
(* low bit first, and an end; while it is asked to, it goes on with        *)
(* repeat codes.  A byte has Width bits.                                   *)
(***************************************************************************)
EXTENDS Nec

CONSTANTS
    EndRepeatLow,   \* IR_NEC_END_REPEAT_L; 75 in the code
    RepeatEndLow    \* IR_NEC_REPEAT_END_L; 175 in the code

ASSUME IrEncoderAssumption == EndRepeatLow \in 1..255 /\ RepeatEndLow \in 1..255

VARIABLES
    ir_encode,      \* the struct; state and the flags as in the code
    timer,          \* whether the timer's interrupt comes
    pwm             \* whether the carrier is on

encoder == <<ir_encode, timer, pwm>>

States == {"IDLE", "HEAD", "DATA", "END", "REPEAT", "REPEAT_END"}
Cleared == [ir_data |-> 0, state |-> "IDLE", high_level_count |-> 0, low_level_count |-> 0,
            repeat_en |-> FALSE, pwm_high_ctrl |-> FALSE, pwm_low_ctrl |-> FALSE,
            bit_count |-> 0]

EncoderInit == ir_encode = Cleared /\ timer = FALSE /\ pwm = FALSE

Not(b) == 2^Width - 1 - b
Word(addr, cmd) == addr + 2^Width * (Not(addr) + 2^Width * (cmd + 2^Width * Not(cmd)))

\* One unit of the pulse: switch the carrier on, keep it, switch it off, keep.
ir_pwm_ctrl ==
    LET e == ir_encode IN
    CASE e.pwm_high_ctrl ->
            [e EXCEPT !.pwm_high_ctrl = FALSE, !.high_level_count = @ - 1]
      [] ~e.pwm_high_ctrl /\ e.high_level_count > 0 ->
            [e EXCEPT !.high_level_count = @ - 1]
      [] ~e.pwm_high_ctrl /\ e.high_level_count = 0 /\ e.pwm_low_ctrl ->
            [e EXCEPT !.pwm_low_ctrl = FALSE, !.low_level_count = @ - 1]
      [] ~e.pwm_high_ctrl /\ e.high_level_count = 0 /\ ~e.pwm_low_ctrl
            /\ e.low_level_count > 0 ->
            [e EXCEPT !.low_level_count = @ - 1]
      [] OTHER -> e

Carrier ==
    \/ ir_encode.pwm_high_ctrl
    \/ pwm /\ (ir_encode.high_level_count > 0 \/ ~ir_encode.pwm_low_ctrl)

\* ir_encode_tx_bit, and the state after it.
Pulse(e, high, low, next) ==
    [e EXCEPT !.high_level_count = high, !.low_level_count = low,
              !.pwm_high_ctrl = TRUE, !.pwm_low_ctrl = TRUE, !.state = next]

LastBit(e) == e.bit_count + 1 = NBits

\* What the interrupt makes of the struct when the pulse in e is over.
NextPulse(e) ==
    CASE e.state = "IDLE" -> [e EXCEPT !.state = "HEAD"]
      [] e.state = "HEAD" -> [Pulse(e, 16, 8, "DATA") EXCEPT !.bit_count = 0]
      [] e.state = "DATA" ->
            [Pulse(e, 1, IF e.ir_data % 2 = 1 THEN 3 ELSE 1, IF LastBit(e) THEN "END" ELSE "DATA")
                EXCEPT !.ir_data = @ \div 2, !.bit_count = @ + 1]
      [] e.state = "END" -> Pulse(e, 1, IF e.repeat_en THEN EndRepeatLow ELSE 1, "REPEAT")
      [] e.state = "REPEAT" -> IF e.repeat_en THEN Pulse(e, 16, 4, "REPEAT_END")
                                              ELSE [e EXCEPT !.state = "IDLE"]
      [] e.state = "REPEAT_END" -> Pulse(e, 1, RepeatEndLow, "REPEAT")

\* The timer's interrupt.  After the last pulse it stops its own timer.
ir_encode_irq ==
    /\ timer
    /\ pwm' = Carrier
    /\ LET e == ir_pwm_ctrl
           over == e.low_level_count = 0
       IN  /\ ir_encode' = IF over THEN NextPulse(e) ELSE e
           /\ timer' = ~(over /\ e.state = "REPEAT" /\ ~e.repeat_en)

\* ir_encoder_tx: refused while a frame is being sent.  Until the first
\* interrupt the state is still idle, and another call replaces the frame.
Free == ir_encode.state = "IDLE"
ir_encoder_tx(addr, cmd, repeat) ==
    /\ Free
    /\ ir_encode' = [ir_encode EXCEPT !.ir_data = Word(addr, cmd), !.repeat_en = repeat]
    /\ timer' = TRUE
    /\ UNCHANGED pwm

ir_encoder_repeat_stop ==
    /\ ir_encode' = [ir_encode EXCEPT !.repeat_en = FALSE]
    /\ UNCHANGED <<timer, pwm>>
=============================================================================
