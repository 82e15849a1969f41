---------------------------- MODULE VoiceReport ----------------------------
(***************************************************************************)
(* The spoken report of a blood pressure reading, from the numbers to the  *)
(* loudspeaker: make_voice_list_and_play strings the tones together        *)
(* (VoiceList) and VoicePlayer plays them on the decoder.                  *)
(***************************************************************************)
EXTENDS VoicePlayer, VoiceList

CONSTANT Readings       \* the readings that may be reported: pulse, sbp and dbp

ASSUME VoiceReportAssumption ==
    /\ Readings \subseteq [pulse : Nat, sbp : Nat, dbp : Nat]
    /\ Len(app_play_set_and_begin) \in Lengths
    /\ \A r \in Readings : Len(make_voice_list(r.pulse, r.sbp, r.dbp)) \in Lengths

VARIABLES
    playfilelist,
    reading,    \* history: what the list reports, <<>> for the tones of the start
    heard       \* history: the tones of this list that have begun to sound

reportVars == <<playfilelist, reading, heard>>

ReportInit == VoiceInit /\ playfilelist = <<>> /\ reading = <<>> /\ heard = <<>>

Plays(list, what) ==
    /\ app_play_files(Len(list))
    /\ playfilelist' = list /\ reading' = what /\ heard' = <<>>

Hears == ~Sounding /\ play_status' = "MAD_PLAY"
Player_goes_on ==
    /\ Player \/ app_msg_event_handler \/ app_stop
    /\ heard' = IF Hears THEN Append(heard, playfilelist[currentfile + 1]) ELSE heard
    /\ UNCHANGED <<playfilelist, reading>>

ReportNext ==
    \/ \E r \in Readings : Plays(make_voice_list(r.pulse, r.sbp, r.dbp), r)
    \/ Plays(app_play_set_and_begin, <<>>)
    \/ Player_goes_on

ReportSpec ==
    ReportInit /\ [][ReportNext]_<<allVars, reportVars>> /\ VoiceFairness

-----------------------------------------------------------------------------
(* What a listener makes of the tones: a digit counts what the word after it  *)
(* says; a digit right after "hundred" and before no word counts tens, unless *)
(* a zero was said.                                                           *)

Weight(s, i) ==
    IF i < Len(s) /\ s[i + 1] = BAI THEN 100
    ELSE IF i < Len(s) /\ s[i + 1] = SHI THEN 10
    ELSE IF i > 1 /\ s[i - 1] = BAI THEN 10
    ELSE 1

\* Where the number after a label is: up to the next label.
Number(s, label) ==
    {i \in DOMAIN s : \E l \in 1..(i - 1) :
        s[l] = label /\ \A j \in (l + 1)..i : s[j] \notin {MMHG, MAIBO}}

\* The tones at the positions P say value: each digit of it once and at its weight,
\* but for the zeros, and no other.  What no tone can say is left out.
Digit(value, weight) == (value \div weight) % 10
Says(s, P, value) ==
    \A weight \in {1, 10, 100} :
        LET said == {i \in P : s[i] \in 1..9 /\ Weight(s, i) = weight}
            digit == IF value >= 1000 THEN 0 ELSE Digit(value, weight)
        IN  IF digit = 0 THEN said = {} ELSE \E i \in P : said = {i} /\ s[i] = digit

\* When the list is over, the tones that were heard say the reading as it was
\* measured; a value that no tone can say is left out rather than said wrong.  The
\* list never outgrows playfilelist.
ReportIsHeard ==
    /\ Len(playfilelist) <= ListSize
    /\ ~Playing /\ call = "idle" /\ reading # <<>> /\ currentfile >= allplayfile =>
          /\ Says(heard, Number(heard, SHOUSUOYA), reading.sbp)
          /\ Says(heard, Number(heard, SHUZHANGYA), reading.dbp)
          /\ Says(heard, Number(heard, MAIBO), reading.pulse)
=============================================================================
