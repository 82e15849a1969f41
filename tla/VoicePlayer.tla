---------------------------- MODULE VoicePlayer ----------------------------
(***************************************************************************)
(* The voice module of apps/common/decode/voice.c in the main loop of      *)
(* apps/gp_mcu/app_main.c: the tones of a list are played one after the    *)
(* other, the next one when MSG_EVENT_DECODE_END of the previous arrives.  *)
(* It is composed with Decode, whose client the main loop is.              *)
(***************************************************************************)
EXTENDS Decode

CONSTANTS
    Lengths,        \* the lengths of the lists the application plays
    IndexLimit,     \* currentfile counts modulo this; 256 in the code (u8)
    Overlap         \* whether a list may be started before the last one ended

ASSUME VoicePlayerAssumption ==
    /\ IndexLimit \in Nat \ {0}
    /\ Lengths \subseteq 1..(IndexLimit - 1)
    /\ Overlap \in BOOLEAN

VARIABLES
    currentfile,    \* index of the tone of the list that plays
    allplayfile     \* number of tones in the list

voiceVars == <<currentfile, allplayfile>>
allVars == <<vars, voiceVars>>

VoiceInit ==
    /\ Init
    /\ currentfile = 0
    /\ allplayfile = 0

\* The states in which a tone is on its way to the loudspeaker.
ToneLabels == {"tone_dec", "tone_pcm", "tone_fopen", "tone_format", "tone_rs",
               "tone_ing", "tone_play"}
Starting == call \in ToneLabels
            \/ (call \in {"spin", "halt", "clear", "free"} /\ ret = "tone_dec")
Sounding == play_status \in {"MAD_PLAY", "MAD_PAUSE"}
Playing == Starting \/ Sounding \/ msgs > 0

-----------------------------------------------------------------------------
\* app_play_set_and_begin and make_voice_list_and_play fill the list with n
\* tones and go through app_play_files.
app_play_files(n) ==
    /\ At("idle")
    /\ Overlap \/ ~Playing
    /\ msgs < MaxMsgs
    /\ currentfile' = 0
    /\ allplayfile' = n
    /\ EnterTone
    /\ UNCHANGED <<decode_status, cbuf, left, mem, swi, soft, msgs, reported,
                   doubleFree>>

\* currentfile++ in app_play_file_loop.
NextFile_unwrapped == currentfile + 1
NextFile == (currentfile + 1) % IndexLimit

\* The end of the list releases the player.
ListDone_leftOpen == call' = call /\ ret' = ret
ListDone == EnterStop(play_status, TRUE, "idle")

\* MSG_EVENT_DECODE_END: play the next tone of the list, or stop.  What
\* a_player_tonebyindex returns is ignored.
app_msg_event_handler ==
    /\ At("idle")
    /\ msgs > 0
    /\ msgs' = msgs - 1
    /\ currentfile' = NextFile
    /\ IF currentfile' < allplayfile
       THEN EnterTone
       ELSE /\ ListDone
            /\ UNCHANGED <<init_ok, play_status>>
    /\ UNCHANGED <<decode_status, cbuf, left, mem, swi, soft, reported,
                   doubleFree, allplayfile>>

\* The application stops the player on its own account.
app_stop ==
    /\ \E wait \in BOOLEAN : a_player_stop(wait)
    /\ UNCHANGED voiceVars

Player == (decode_isr_callback \/ decode_run \/ Proceed) /\ UNCHANGED voiceVars

App == (\E n \in Lengths : app_play_files(n)) \/ app_stop

VoiceNext == Player \/ app_msg_event_handler \/ App

\* The main loop keeps reading events; the interrupts leave it time to run.
VoiceFairness ==
    /\ WF_allVars(decode_isr_callback /\ UNCHANGED voiceVars)
    /\ WF_allVars(decode_run /\ UNCHANGED voiceVars)
    /\ SF_allVars(Proceed /\ UNCHANGED voiceVars)
    /\ SF_allVars(app_msg_event_handler)

VoiceSpec == VoiceInit /\ [][VoiceNext]_allVars
VoiceFairSpec == VoiceSpec /\ VoiceFairness

-----------------------------------------------------------------------------
(* Properties.                                                              *)

\* The player implements a playlist: the tones of a list sound in order, none is
\* skipped or repeated, each to its end, the next only when the one before it has
\* ended; and every list ends, with its last tone or where it was cut short.
Phase ==
    IF Starting THEN "starting"
    ELSE IF Sounding THEN "sounding"
    ELSE IF msgs > 0 THEN "ended" ELSE "quiet"

List == INSTANCE Playlist WITH
    total <- allplayfile,
    item  <- IF currentfile < allplayfile \/ allplayfile = 0
             THEN currentfile ELSE allplayfile - 1,
    phase <- Phase

ImplementsPlaylist == List!FairSpec

\* The list moves on only when the tone it is at has ended: the event that is
\* handled belongs to that tone and not to one that was replaced meanwhile.
AdvanceOnlyAfterEnd ==
    [][currentfile' = currentfile + 1 => play_status = "MAD_END"]_allVars

\* Nothing is forgotten: once no tone is starting, sounding or still to be
\* reported, the main loop has released everything the player held, whatever
\* was called and whatever failed.
QuietHoldsNothing ==
    call = "idle" /\ ~Playing => \A r \in Pointers : mem[r] = "null"
=============================================================================
