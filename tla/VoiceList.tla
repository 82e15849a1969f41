----------------------------- MODULE VoiceList -----------------------------
(***************************************************************************)
(* The spoken report of apps/common/decode/voice.c: the list of tones that *)
(* make_voice_list_and_play strings together for a blood pressure reading. *)
(* The unit is PRESSURE_UNIT_MMHG, as PRESSURE_UNIR_MODE selects.  A tone  *)
(* is its index in enum INDEX_TONE; a digit's tone is the digit.           *)
(***************************************************************************)
EXTENDS Integers, Sequences

BAI == 12           \* hundred
BEGIN == 14
MAIBO == 23         \* pulse
MMHG == 24
REGISTER == 28
SHI == 29           \* ten
SHOUSUOYA == 30     \* systolic pressure
SHUZHANGYA == 31    \* diastolic pressure
ATTENTION == 34

ListSize == 30      \* playfilelist[30]

\* The hundreds: a digit, the word for hundred, and a zero when the tens are
\* skipped.
Hundreds_noZero(num) == IF num < 100 THEN <<>> ELSE <<num \div 100, BAI>>
Hundreds(num) ==
    IF num < 100 THEN <<>>
    ELSE <<num \div 100, BAI>>
         \o IF (num % 100) \div 10 = 0 /\ num % 10 # 0 THEN <<0>> ELSE <<>>

Tens(num) == IF num < 10 THEN <<>> ELSE <<num \div 10, SHI>>

Units(num) == IF num > 0 THEN <<num>> ELSE <<>>

num_to_voice(num) ==
    IF num >= 1000 THEN <<>>
    ELSE LET rest == num % 100
         IN  Hundreds(num) \o Tens(rest) \o Units(rest % 10)

app_play_set_and_begin == <<ATTENTION, REGISTER, BEGIN>>

make_voice_list(pulse, sbp, dbp) ==
       <<SHOUSUOYA>>  \o num_to_voice(sbp) \o <<MMHG>>
    \o <<SHUZHANGYA>> \o num_to_voice(dbp) \o <<MMHG>>
    \o <<MAIBO>>      \o num_to_voice(pulse)
=============================================================================
