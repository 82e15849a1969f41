------------------------- MODULE VoicePlayerProofs -------------------------
(***************************************************************************)
(* Proofs about the decoder and the list player.                           *)
(*                                                                         *)
(* Decode, for every value of its constants: the interrupts use live       *)
(* memory only, no samples are lost, nothing leaks and no pointer is freed *)
(* twice but one, after a failed format check.  The inductive invariant    *)
(* says who is where: the main loop can only be at a few labels while a    *)
(* tone plays, a software interrupt is pending only while the ring is      *)
(* below the threshold, and each label of a_player_tonebyindex knows what  *)
(* has been acquired before it.                                            *)
(*                                                                         *)
(* VoicePlayer, for lists of any lengths: the player holds nothing when it *)
(* is quiet, and, when no list is started before the last one is over, it  *)
(* plays the tones of a list in order (Playlist).  On top of the invariant *)
(* of the decoder: a tone that has ended and whose event is not read is    *)
(* the only reason for the event queue to hold anything, and the index is  *)
(* inside the list while the list plays.                                   *)
(*                                                                         *)
(* VoiceReport, for any readings: what is heard says the reading.  First   *)
(* what the tones of a number say, and where they are in the list; then    *)
(* that the tones heard are the first ones of the list.                    *)
(***************************************************************************)
EXTENDS VoiceReport, SequenceTheorems, TLAPS

-----------------------------------------------------------------------------
(* The decoder.                                                             *)

\* The labels the main loop can be at, for each play_status.
MainInv ==
    /\ play_status = "MAD_PLAY" => call \in {"idle", "spin", "halt", "pause"}
    /\ play_status = "MAD_END" => call \in {"idle", "spin", "halt", "pause"}
    /\ play_status = "MAD_PAUSE" => call \in {"idle", "spin", "halt"}
    /\ play_status = "MAD_STOP" => call \notin {"spin", "halt", "pause"}
    /\ call = "tone_play" => decode_status = "DEC_ING"
    /\ ~init_ok => play_status = "MAD_STOP" /\ call = "idle"

\* When the software interrupt can be pending or running.
SoftInv ==
    /\ soft # "idle" => swi
    /\ swi => play_status \in {"MAD_PLAY", "MAD_END"}
    /\ swi /\ soft \in {"idle", "run"} => decode_status = "DEC_ING" /\ cbuf < Threshold

\* Everything is decoded once the decoder has said so.
LeftInv ==
    /\ soft = "end" => left = 0
    /\ play_status # "MAD_STOP" /\ decode_status = "DEC_END" => left = 0

\* What is acquired at each point.
MemInv ==
    /\ \A r \in Pointers : mem[r] = "freed" =>
            r = "ump3_decode_buf" /\ call = "free" /\ "format" \in Fails
    /\ call \in {"tone_pcm", "tone_fopen"} => mem["ump3_decode_buf"] = "live"
    /\ call = "tone_fopen" => mem["pcm_obuf"] = "live"
    /\ play_status # "MAD_STOP" \/ call \in {"tone_format", "tone_rs", "tone_ing", "tone_play"}
         => \A r \in Playable : mem[r] = "live"
    /\ play_status = "MAD_STOP" /\ call \in {"idle", "close", "tone_dec"}
         => \A r \in Pointers : mem[r] = "null"

IInv == TypeOK /\ MainInv /\ SoftInv /\ LeftInv /\ MemInv /\ FreedOnce


-----------------------------------------------------------------------------
LEMMA InitInv == Init => IInv
<1> SUFFICES ASSUME Init PROVE IInv
    OBVIOUS
<1>1. FlagsOK
    BY DEF Init, FlagsOK
<1>2. StateOK
    BY DecodeAssumption DEF Init, StateOK, PlayStatus, DecodeStatus, Labels
<1>3. MainInv /\ SoftInv /\ LeftInv
    BY DEF Init, MainInv, SoftInv, LeftInv
<1>4. MemInv /\ FreedOnce
    BY DEF Init, MemInv, Pointers, Playable, FreedOnce
<1> QED
    BY <1>1, <1>2, <1>3, <1>4 DEF IInv, TypeOK

\* The flags are booleans whatever step is taken.
LEMMA FlagsStep == TypeOK /\ Next => FlagsOK'
BY DEF TypeOK, FlagsOK, Next, decode_isr_callback, ToneOver, ReportEnd,
       decode_run, decode_run_enter, decode_run_frame, decode_run_end,
       decode_run_clear, Proceed, stop_spin, stop_halt, stop_clear, release,
       Acquire, tone_dec, tone_pcm, tone_fopen, tone_format, tone_rs, tone_ing,
       tone_play, pause_store, uninit_close, Client, a_player_tonebyindex,
       EnterTone, EnterStop, a_player_pause, a_player_stop, decode_uninit,
       ReadMsg

\* The audio interrupt: it may set the software interrupt, below the threshold,
\* and it ends the tone, with an empty ring.
LEMMA IsrStep ==
    IInv /\ decode_isr_callback
    => StateOK' /\ MainInv' /\ SoftInv' /\ LeftInv' /\ MemInv' /\ FreedOnce'
<1> SUFFICES ASSUME IInv, decode_isr_callback
             PROVE  StateOK' /\ MainInv' /\ SoftInv' /\ LeftInv' /\ MemInv'
                    /\ FreedOnce'
    OBVIOUS
<1> USE DEF IInv, TypeOK, decode_isr_callback, ToneOver, ReportEnd
<1>1. StateOK'
    BY DecodeAssumption DEF StateOK, BufLen, Smaller, PlayStatus
<1>2. MainInv' /\ LeftInv'
    BY DEF MainInv, LeftInv
<1>3. SoftInv'
    <2>1. cbuf < Threshold => cbuf' < Threshold
        BY DecodeAssumption DEF StateOK, BufLen, Smaller
    <2>2. swi' => swi \/ (cbuf' < Threshold /\ decode_status = "DEC_ING")
        OBVIOUS
    <2> QED
        BY <2>1, <2>2 DEF SoftInv
<1>4. MemInv' /\ FreedOnce'
    BY DEF MemInv, FreedOnce
<1> QED
    BY <1>1, <1>2, <1>3, <1>4

\* The software interrupt: it writes a frame below the threshold only.
LEMMA SoftStep ==
    IInv /\ decode_run
    => StateOK' /\ MainInv' /\ SoftInv' /\ LeftInv' /\ MemInv' /\ FreedOnce'
<1> SUFFICES ASSUME IInv, decode_run
             PROVE  StateOK' /\ MainInv' /\ SoftInv' /\ LeftInv' /\ MemInv'
                    /\ FreedOnce'
    OBVIOUS
<1> USE DEF IInv, TypeOK, decode_run, decode_run_enter, decode_run_frame,
            decode_run_end, decode_run_clear
<1>1. StateOK'
    BY DecodeAssumption DEF StateOK, Smaller, DecodeStatus
<1>2. MainInv' /\ SoftInv' /\ LeftInv'
    BY DEF StateOK, DecodeStatus, MainInv, SoftInv, LeftInv
<1>3. MemInv' /\ FreedOnce'
    BY DEF MemInv, FreedOnce
<1> QED
    BY <1>1, <1>2, <1>3

\* The steps of a_player_stop, of the release of resources, of the second half
\* of a_player_pause and of decode_uninit.
LEMMA StopStep ==
    IInv /\ (stop_spin \/ stop_halt \/ stop_clear \/ release \/ pause_store
             \/ uninit_close)
    => StateOK' /\ MainInv' /\ SoftInv' /\ LeftInv' /\ MemInv' /\ FreedOnce'
<1> SUFFICES ASSUME IInv,
                    stop_spin \/ stop_halt \/ stop_clear \/ release
                    \/ pause_store \/ uninit_close
             PROVE  StateOK' /\ MainInv' /\ SoftInv' /\ LeftInv' /\ MemInv'
                    /\ FreedOnce'
    OBVIOUS
<1> USE DEF IInv, TypeOK, At, stop_spin, stop_halt, stop_clear, release, Held,
            PointerAfterFree, pause_store, uninit_close
<1>1. StateOK'
    BY DecodeAssumption DEF StateOK, PlayStatus, Labels
<1>2. MainInv' /\ SoftInv' /\ LeftInv'
    BY DEF StateOK, PlayStatus, MainInv, SoftInv, LeftInv
<1>3. MemInv'
    BY DEF StateOK, PlayStatus, MainInv, MemInv, Pointers, Playable
<1>4. FreedOnce'
    BY ZenonT(30) DEF StateOK, FreedOnce, MemInv, Pointers
<1> QED
    BY <1>1, <1>2, <1>3, <1>4

\* The steps of a_player_tonebyindex, each of which acquires one resource more.
LEMMA ToneStep ==
    ASSUME IInv,
           tone_dec \/ tone_pcm \/ tone_fopen \/ tone_format \/ tone_rs
           \/ tone_ing \/ tone_play
    PROVE  StateOK' /\ MainInv' /\ SoftInv' /\ LeftInv' /\ MemInv' /\ FreedOnce'
<1> USE DEF IInv, TypeOK, At, Acquire, tone_dec, tone_pcm, tone_fopen,
            tone_format, tone_rs, tone_ing, tone_play
<1>1. StateOK'
    <2>1. /\ play_status' \in PlayStatus /\ decode_status' \in DecodeStatus
          /\ call' \in Labels /\ ret' \in {"idle", "tone_dec", "close"}
        BY DEF StateOK, PlayStatus, DecodeStatus, Labels
    <2>2. cbuf' \in 0..CbufSize /\ left' \in 0..MaxFrames
        BY DecodeAssumption DEF StateOK
    <2>3. mem' \in [Pointers -> {"null", "live", "freed"}]
        BY DEF StateOK, Pointers
    <2>4. soft' = soft /\ msgs' = msgs /\ doubleFree' = doubleFree
        OBVIOUS
    <2> QED
        BY <2>1, <2>2, <2>3, <2>4 DEF StateOK
<1>2. MainInv' /\ SoftInv' /\ LeftInv'
    BY DEF StateOK, PlayStatus, DecodeStatus, MainInv, SoftInv, LeftInv
<1>3. MemInv'
    BY DEF StateOK, PlayStatus, MainInv, MemInv, Pointers, Playable
<1>4. FreedOnce'
    BY DEF FreedOnce
<1> QED
    BY <1>1, <1>2, <1>3, <1>4

\* a_player_tonebyindex is entered, and an event may be read before it.
LEMMA EnterToneStep ==
    ASSUME IInv, At("idle"), EnterTone, msgs' \in Nat,
           UNCHANGED <<decode_status, cbuf, left, mem, swi, soft, reported, doubleFree>>
    PROVE  IInv'
<1> USE DEF IInv, TypeOK, At, EnterTone, EnterStop
<1>1. FlagsOK'
    BY DEF FlagsOK
<1>2. CASE init_ok /\ play_status # "MAD_STOP"
    <2>1. play_status' = play_status /\ call' = "halt" /\ ret' = "tone_dec"
        BY <1>2
    <2> QED
        BY <1>1, <2>1, <1>2 DEF StateOK, PlayStatus, Labels, MainInv, SoftInv, LeftInv,
                    MemInv, FreedOnce, Pointers, Playable
<1>3. CASE ~init_ok \/ play_status = "MAD_STOP"
    <2>1. play_status' = "MAD_STOP" /\ call' = "tone_dec" /\ ret' = ret
        BY <1>3
    <2> QED
        BY <1>1, <2>1, <1>3 DEF StateOK, PlayStatus, Labels, MainInv, SoftInv, LeftInv,
                    MemInv, FreedOnce, Pointers, Playable
<1> QED
    BY <1>2, <1>3

\* a_player_stop is entered, and an event may be read before it.
LEMMA EnterStopStep ==
    ASSUME IInv, At("idle"), msgs' \in Nat, NEW wait \in BOOLEAN, NEW next \in {"idle", "close"},
           next = "close" => init_ok, EnterStop(play_status, wait, next),
           UNCHANGED <<init_ok, play_status, decode_status, cbuf, left, mem, swi, soft, reported,
                       doubleFree>>
    PROVE  IInv'
<1> USE DEF IInv, TypeOK, At, EnterStop
<1>1. FlagsOK'
    BY DEF FlagsOK
<1> QED
    BY <1>1 DEF StateOK, PlayStatus, Labels, MainInv, SoftInv, LeftInv, MemInv, FreedOnce

\* The calls of the client.
LEMMA ClientStep == IInv /\ Client => IInv'
<1> SUFFICES ASSUME IInv, Client PROVE IInv'
    OBVIOUS
<1>0. msgs \in Nat /\ "idle" \in {"idle", "close"} /\ "close" \in {"idle", "close"}
    BY DEF IInv, TypeOK, StateOK
<1>1. CASE a_player_tonebyindex
    BY <1>0, <1>1, EnterToneStep DEF a_player_tonebyindex
<1>2. CASE a_player_pause
    BY <1>2 DEF a_player_pause, IInv, TypeOK, FlagsOK, StateOK, At, PlayStatus, Labels, MainInv,
                SoftInv, LeftInv, MemInv, FreedOnce
<1>3. CASE \E wait \in BOOLEAN : a_player_stop(wait)
    BY <1>0, <1>3, EnterStopStep DEF a_player_stop
<1>4. CASE decode_uninit
    BY <1>0, <1>4, EnterStopStep DEF decode_uninit
<1>5. CASE ReadMsg
    BY <1>5 DEF ReadMsg, IInv, TypeOK, FlagsOK, StateOK, MainInv, SoftInv, LeftInv, MemInv, FreedOnce
<1> QED
    BY <1>1, <1>2, <1>3, <1>4, <1>5 DEF Client

\* IInv is inductive.
LEMMA StepInv ==
    ASSUME IInv, [Next]_vars
    PROVE  IInv'
<1>1. CASE Next
    <2>1. FlagsOK'
        BY <1>1, FlagsStep DEF IInv
    <2>2. CASE ~Client
        <3>1. StateOK' /\ MainInv' /\ SoftInv' /\ LeftInv' /\ MemInv' /\ FreedOnce'
            BY <1>1, <2>2, IsrStep, SoftStep, StopStep, ToneStep DEF Next, Proceed
        <3> QED
            BY <2>1, <3>1 DEF IInv, TypeOK
    <2>3. CASE Client
        BY <2>3, ClientStep
    <2> QED
        BY <2>2, <2>3
<1>2. CASE UNCHANGED vars
    BY <1>2 DEF vars, IInv, TypeOK, FlagsOK, StateOK, MainInv, SoftInv, LeftInv,
                MemInv, FreedOnce
<1> QED
    BY <1>1, <1>2

LEMMA Inductive == Spec => []IInv
<1>1. IInv /\ [Next]_vars => IInv'
    BY StepInv
<1> QED
    BY <1>1, InitInv, PTL DEF Spec

-----------------------------------------------------------------------------
\* Every variable keeps its type: decode_cbuf never holds a negative amount or
\* more than its size.
THEOREM TypeCorrect == Spec => []TypeOK
BY Inductive, PTL DEF IInv

\* decode_isr_callback and decode_run never use a buffer or a file that
\* a_player_stop or a_player_tonebyindex has released or not yet acquired.
THEOREM InterruptsAreSafe ==
    Spec => []InterruptsUseLiveMemory
<1>1. IInv => InterruptsUseLiveMemory
    BY DEF IInv, TypeOK, StateOK, SoftInv, MemInv, InterruptsUseLiveMemory, Pointers,
           Playable
<1> QED
    BY <1>1, Inductive, PTL

\* decode_run always has room for the frame it decodes.
THEOREM NoSampleLost == Spec => []FrameFits
<1>1. IInv => FrameFits
    BY DecodeAssumption DEF IInv, TypeOK, StateOK, SoftInv, FrameFits
<1> QED
    BY <1>1, Inductive, PTL

\* a_player_stop and the error path of a_player_tonebyindex release everything.
THEOREM NothingLeaks ==
    Spec => []StoppedHoldsNothing
<1>1. IInv => StoppedHoldsNothing
    BY DEF IInv, MemInv, StoppedHoldsNothing
<1> QED
    BY <1>1, Inductive, PTL

\* No pointer is freed twice but the decoder's buffer, and that one only where the
\* format check may fail.
THEOREM ReleasedOnce == Spec => []FreedOnce
<1>1. IInv => FreedOnce
    BY DEF IInv
<1> QED
    BY <1>1, Inductive, PTL

\* MSG_EVENT_DECODE_END is sent only when the whole tone has been played.
THEOREM EndIsComplete ==
    Spec => ReportedEndIsComplete
<1>1. ASSUME IInv, decode_isr_callback, msgs' > msgs
      PROVE  left = 0 /\ cbuf = 0 /\ decode_status = "DEC_END"
    BY <1>1, DecodeAssumption
    DEF IInv, TypeOK, StateOK, LeftInv, decode_isr_callback, ToneOver, BufLen, Smaller
<1>2. ASSUME IInv, [Next]_vars, ~decode_isr_callback PROVE ~(msgs' > msgs)
    <2>1. msgs \in Nat
        BY <1>2 DEF IInv, TypeOK, StateOK
    <2>2. msgs' = msgs \/ msgs' = msgs - 1
        BY <1>2
        DEF vars, Next, decode_run, decode_run_enter, decode_run_frame,
            decode_run_end, decode_run_clear, Proceed, stop_spin, stop_halt,
            stop_clear, release, Acquire, tone_dec, tone_pcm, tone_fopen,
            tone_format, tone_rs, tone_ing, tone_play, pause_store, uninit_close,
            Client, a_player_tonebyindex, a_player_pause, a_player_stop,
            decode_uninit, ReadMsg
    <2> QED
        BY <2>1, <2>2
<1>3. IInv /\ [Next]_vars
      => [msgs' > msgs => left = 0 /\ cbuf = 0 /\ decode_status = "DEC_END"]_vars
    BY <1>1, <1>2
<1> QED
    BY <1>3, Inductive, PTL DEF Spec, ReportedEndIsComplete

-----------------------------------------------------------------------------
(* The list player.                                                         *)

\* The main loop neither pauses nor closes the driver, and an ended tone that
\* nobody is releasing has its event in the queue.
QuietInv ==
    /\ play_status # "MAD_PAUSE"
    /\ call \notin {"pause", "close"} /\ ret # "close"
    /\ play_status = "MAD_END" /\ call = "idle" => msgs > 0

\* A tone is on its way, sounds or has ended, and only one of these.
EndedInv ==
    /\ msgs <= 1
    /\ msgs > 0 => ~Starting /\ ~Sounding
    /\ Starting => ~Sounding

\* Where the list is.
IndexInv ==
    /\ currentfile \in 0..(IndexLimit - 1)
    /\ allplayfile \in Lengths \cup {0}
    /\ allplayfile = 0 => currentfile = 0 /\ ~Playing
    /\ Playing => currentfile < allplayfile
    /\ currentfile <= allplayfile

ListInv == IInv /\ QuietInv /\ EndedInv /\ IndexInv

-----------------------------------------------------------------------------
(* The invariant of the decoder.                                            *)

\* Starting a list enters a_player_tonebyindex.
LEMMA PlayFilesStep == ASSUME IInv, NEW n \in Lengths, app_play_files(n) PROVE IInv'
<1>1. msgs' \in Nat
  BY DEF IInv, TypeOK, StateOK, app_play_files
<1> QED
  BY <1>1, EnterToneStep DEF app_play_files

\* The end of a tone enters a_player_tonebyindex, that of the list a_player_stop.
LEMMA EventStep == ASSUME IInv, app_msg_event_handler PROVE IInv'
<1>1. msgs' \in Nat
  BY DEF IInv, TypeOK, StateOK, app_msg_event_handler
<1>2. At("idle") /\ UNCHANGED <<decode_status, cbuf, left, mem, swi, soft, reported, doubleFree>>
  BY DEF app_msg_event_handler
<1>3. CASE EnterTone
  BY <1>1, <1>2, <1>3, EnterToneStep
<1>4. CASE ListDone /\ UNCHANGED <<init_ok, play_status>>
  <2>1. EnterStop(play_status, TRUE, "idle")
    BY <1>4 DEF ListDone
  <2>2. TRUE \in BOOLEAN /\ "idle" \in {"idle", "close"} /\ ("idle" = "close" => init_ok)
    OBVIOUS
  <2> QED
    BY <1>1, <1>2, <1>4, <2>1, <2>2, EnterStopStep
<1> QED
  BY <1>3, <1>4 DEF app_msg_event_handler

\* Every step keeps the invariant of the decoder.
LEMMA VoiceStep ==
    ASSUME IInv, [VoiceNext]_allVars
    PROVE  IInv'
<1>1. CASE Player
  BY <1>1, StepInv DEF Player, Next
<1>2. CASE app_msg_event_handler
  BY <1>2, EventStep
<1>3. CASE \E n \in Lengths : app_play_files(n)
  BY <1>3, PlayFilesStep
<1>4. CASE app_stop
  <2>1. PICK wait \in BOOLEAN : a_player_stop(wait)
    BY <1>4 DEF app_stop
  <2>2. msgs' \in Nat /\ "idle" \in {"idle", "close"}
    BY <2>1 DEF a_player_stop, IInv, TypeOK, StateOK
  <2> QED
    BY <2>1, <2>2, EnterStopStep DEF a_player_stop
<1>5. CASE UNCHANGED allVars
  <2>1. UNCHANGED vars
    BY <1>5 DEF allVars
  <2> QED
    BY <2>1, StepInv
<1> QED
  BY <1>1, <1>2, <1>3, <1>4, <1>5 DEF VoiceNext, App

-----------------------------------------------------------------------------
(* Quiet means released.                                                    *)

\* The steps of the interrupts and of a call in progress.
LEMMA PlayerQuiet == IInv /\ QuietInv /\ Player => QuietInv'
<1> SUFFICES ASSUME IInv, QuietInv, Player PROVE QuietInv'
  OBVIOUS
<1>1. CASE decode_isr_callback
  <2>1. msgs \in Nat
    BY DEF IInv, TypeOK, StateOK
  <2>2. UNCHANGED <<call, ret>>
    BY <1>1 DEF decode_isr_callback
  <2>3. CASE ToneOver(BufLen)
    <3>1. play_status' = "MAD_END" /\ msgs' = msgs + 1
      BY <1>1, <2>3 DEF decode_isr_callback, ReportEnd
    <3>2. msgs' > 0
      BY <2>1, <3>1
    <3> QED
      BY <2>2, <3>1, <3>2 DEF QuietInv
  <2>4. CASE ~ToneOver(BufLen)
    <3>1. UNCHANGED <<play_status, msgs>>
      BY <1>1, <2>4 DEF decode_isr_callback
    <3> QED
      BY <2>2, <3>1 DEF QuietInv
  <2> QED
    BY <2>3, <2>4
<1>2. CASE decode_run
  BY <1>2 DEF QuietInv, decode_run, decode_run_enter, decode_run_frame, decode_run_end, decode_run_clear
<1>3. CASE Proceed
  <2>1. CASE release
    <3>1. play_status # "MAD_END" /\ ret \in {"idle", "tone_dec"} /\ call = "free"
      BY <2>1 DEF release, At, IInv, MainInv, TypeOK, StateOK, QuietInv
    <3>2. UNCHANGED <<play_status, msgs, ret>> /\ (call' = ret \/ call' = call)
      BY <2>1 DEF release
    <3> QED
      BY <3>1, <3>2 DEF QuietInv
  <2>2. CASE stop_spin \/ stop_halt \/ stop_clear \/ pause_store \/ uninit_close
    BY <2>2 DEF stop_spin, stop_halt, stop_clear, pause_store, uninit_close, At, QuietInv
  <2>3. CASE tone_dec \/ tone_pcm \/ tone_fopen \/ tone_format \/ tone_rs \/ tone_ing \/ tone_play
    BY <2>3 DEF tone_dec, tone_pcm, tone_fopen, tone_format, tone_rs, tone_ing, tone_play, Acquire, QuietInv
  <2> QED
    BY <1>3, <2>1, <2>2, <2>3 DEF Proceed
<1> QED
  BY <1>1, <1>2, <1>3 DEF Player

\* The steps of the main loop: whoever takes the event of an ended tone goes on to
\* release it.
LEMMA QuietStep == IInv /\ QuietInv /\ [VoiceNext]_allVars => QuietInv'
<1> SUFFICES ASSUME IInv, QuietInv, [VoiceNext]_allVars PROVE QuietInv'
  OBVIOUS
<1> USE DEF QuietInv
<1>1. CASE Player
  BY <1>1, PlayerQuiet
<1>2. ASSUME EnterTone PROVE QuietInv'
  BY <1>2 DEF EnterTone, EnterStop
<1>3. CASE app_msg_event_handler
  <2>1. CASE ListDone /\ UNCHANGED <<init_ok, play_status>>
    BY <1>3, <2>1 DEF ListDone, EnterStop, app_msg_event_handler, At
  <2> QED
    BY <1>2, <1>3, <2>1 DEF app_msg_event_handler
<1>4. CASE App
  BY <1>2, <1>4 DEF App, app_play_files, app_stop, a_player_stop, EnterStop, At
<1>5. CASE UNCHANGED allVars
  BY <1>5 DEF allVars, vars
<1> QED
  BY <1>1, <1>3, <1>4, <1>5 DEF VoiceNext

\* The first state is quiet.
LEMMA QuietInit == VoiceInit => IInv /\ QuietInv
BY InitInv DEF VoiceInit, Init, QuietInv

\* QuietHoldsNothing: when no tone is starting, sounding or to be reported, all
\* that a_player_tonebyindex acquired has been released, also when lists are
\* started while others play.
THEOREM QuietIsReleased ==
    VoiceSpec => []QuietHoldsNothing
<1>1. IInv /\ QuietInv /\ [VoiceNext]_allVars => (IInv /\ QuietInv)'
  BY VoiceStep, QuietStep
<1>2. IInv /\ QuietInv => QuietHoldsNothing
  <2> SUFFICES ASSUME IInv, QuietInv, call = "idle", ~Playing
               PROVE  \A r \in Pointers : mem[r] = "null"
    BY DEF QuietHoldsNothing
  <2>1. msgs = 0 /\ play_status \in PlayStatus
    BY DEF Playing, IInv, TypeOK, StateOK
  <2>2. play_status = "MAD_STOP"
    BY <2>1 DEF QuietInv, Playing, Sounding, PlayStatus
  <2> QED
    BY <2>2 DEF IInv, MemInv
<1> QED
  BY <1>1, <1>2, QuietInit, PTL DEF VoiceSpec

-----------------------------------------------------------------------------
(* The phases of a tone.                                                    *)

\* What a step may do with the tone of the list.
Keeps == (Starting' <=> Starting) /\ (Sounding' <=> Sounding) /\ msgs' = msgs
Sounds == Starting /\ ~Starting' /\ Sounding' /\ msgs' = msgs
Ends == Sounding /\ ~Starting' /\ ~Sounding' /\ msgs' = msgs + 1
Cuts == (Starting \/ Sounding) /\ ~Starting' /\ ~Sounding' /\ msgs' = msgs

\* A call in progress and the interrupts take a tone from one phase to the next,
\* or cut it short; they never start one.
LEMMA PlayerMoves ==
    IInv /\ QuietInv /\ EndedInv /\ Player => Keeps \/ Sounds \/ Ends \/ Cuts
<1> SUFFICES ASSUME IInv, QuietInv, EndedInv, Player
             PROVE  Keeps \/ Sounds \/ Ends \/ Cuts
  OBVIOUS
<1>1. CASE decode_isr_callback
  <2>1. UNCHANGED <<call, ret>> /\ Sounding /\ ~Starting
    BY <1>1 DEF decode_isr_callback, Sounding, EndedInv
  <2>2. ~Starting'
    BY <2>1 DEF Starting
  <2>3. CASE ToneOver(BufLen)
    <3>1. play_status' = "MAD_END" /\ msgs' = msgs + 1
      BY <1>1, <2>3 DEF decode_isr_callback, ReportEnd
    <3> QED
      BY <2>1, <2>2, <3>1 DEF Ends, Sounding
  <2>4. CASE ~ToneOver(BufLen)
    <3>1. UNCHANGED <<play_status, msgs>>
      BY <1>1, <2>4 DEF decode_isr_callback
    <3> QED
      BY <2>1, <2>2, <3>1 DEF Keeps, Sounding
  <2> QED
    BY <2>3, <2>4
<1>2. CASE decode_run
  <2>1. UNCHANGED <<call, ret, play_status, msgs>>
    BY <1>2 DEF decode_run, decode_run_enter, decode_run_frame, decode_run_end, decode_run_clear
  <2> QED
    BY <2>1 DEF Keeps, Starting, Sounding
<1>3. CASE release
  <2>1. UNCHANGED <<play_status, msgs, ret>> /\ (call' = ret \/ call' = call) /\ call = "free"
    BY <1>3 DEF release, At
  <2>2. ret \in {"idle", "tone_dec"}
    BY DEF IInv, TypeOK, StateOK, QuietInv
  <2> QED
    BY <2>1, <2>2 DEF Keeps, Starting, Sounding, ToneLabels
<1>4. CASE stop_spin \/ stop_clear
  <2>1. UNCHANGED <<play_status, msgs, ret>>
    BY <1>4 DEF stop_spin, stop_clear
  <2>2. call \in {"spin", "clear"} /\ call' \in {"halt", "free"}
    BY <1>4 DEF stop_spin, stop_clear, At
  <2> QED
    BY <2>1, <2>2 DEF Keeps, Starting, Sounding, ToneLabels
<1>5. CASE stop_halt
  <2>1. UNCHANGED <<msgs, ret>> /\ call = "halt" /\ call' = "clear" /\ play_status' = "MAD_STOP"
    BY <1>5 DEF stop_halt, At
  <2>2. ~Sounding' /\ (Starting' <=> Starting)
    BY <2>1 DEF Starting, Sounding, ToneLabels
  <2>3. CASE Sounding
    <3>1. ~Starting
      BY <2>3 DEF EndedInv
    <3> QED
      BY <2>1, <2>2, <2>3, <3>1 DEF Cuts
  <2>4. CASE ~Sounding
    BY <2>1, <2>2, <2>4 DEF Keeps
  <2> QED
    BY <2>3, <2>4
<1>6. CASE pause_store \/ uninit_close
  BY <1>6 DEF pause_store, uninit_close, At, QuietInv
<1>7. CASE tone_play
  <2>1. call = "tone_play" /\ call' = "idle" /\ play_status' = "MAD_PLAY" /\ msgs' = msgs
    BY <1>7 DEF tone_play, At
  <2> QED
    BY <2>1 DEF Sounds, Starting, Sounding, ToneLabels
<1>8. CASE tone_dec \/ tone_pcm \/ tone_fopen \/ tone_format \/ tone_rs \/ tone_ing
  <2>1. UNCHANGED <<play_status, msgs>> /\ call \in ToneLabels
    BY <1>8 DEF tone_dec, tone_pcm, tone_fopen, tone_format, tone_rs, tone_ing, Acquire, At, ToneLabels
  <2>2. call' \in ToneLabels \/ (call' = "free" /\ ret' = "idle")
    BY <1>8 DEF tone_dec, tone_pcm, tone_fopen, tone_format, tone_rs, tone_ing, Acquire, ToneLabels
  <2>3. Starting /\ (Sounding' <=> Sounding) /\ ~Sounding
    BY <2>1 DEF Starting, Sounding, EndedInv
  <2>4. CASE call' \in ToneLabels
    BY <2>1, <2>3, <2>4 DEF Keeps, Starting
  <2>5. CASE call' = "free" /\ ret' = "idle"
    BY <2>1, <2>3, <2>5 DEF Cuts, Starting, ToneLabels
  <2> QED
    BY <2>2, <2>4, <2>5
<1> QED
  BY <1>1, <1>2, <1>3, <1>4, <1>5, <1>6, <1>7, <1>8 DEF Player, Proceed

\* a_player_tonebyindex, called when nothing sounds, puts a tone on its way.
LEMMA EnterToneStarts == IInv /\ ~Sounding /\ EnterTone => Starting' /\ ~Sounding'
<1> SUFFICES ASSUME IInv, ~Sounding, EnterTone PROVE Starting' /\ ~Sounding'
  OBVIOUS
<1>1. ~init_ok => play_status = "MAD_STOP"
  BY DEF IInv, MainInv
<1>2. play_status' = play_status
  BY <1>1 DEF EnterTone
<1>3. call' = "tone_dec" \/ (call' = "halt" /\ ret' = "tone_dec")
  BY DEF EnterTone, EnterStop
<1> QED
  BY <1>2, <1>3 DEF Starting, Sounding, ToneLabels

\* The event handler takes the event of the tone that has ended, and either puts
\* the next one of the list on its way or leaves the list.
LEMMA HandlerMoves ==
    ASSUME ~Overlap, ListInv, app_msg_event_handler
    PROVE  /\ msgs = 1 /\ msgs' = 0 /\ ~Starting /\ ~Sounding /\ ~Sounding'
           /\ currentfile < allplayfile
           /\ currentfile' = currentfile + 1 /\ UNCHANGED allplayfile
           /\ Starting' <=> currentfile + 1 < allplayfile
<1>1. msgs \in Nat /\ msgs > 0 /\ msgs <= 1 /\ msgs' = msgs - 1 /\ At("idle")
  BY DEF ListInv, IInv, TypeOK, StateOK, EndedInv, app_msg_event_handler
<1>2. msgs = 1 /\ msgs' = 0
  BY <1>1
<1>3. ~Starting /\ ~Sounding /\ Playing
  BY <1>1 DEF ListInv, EndedInv, Playing
<1>4. /\ currentfile \in 0..(IndexLimit - 1) /\ currentfile < allplayfile
      /\ allplayfile \in Lengths \cup {0}
  BY <1>3 DEF ListInv, IndexInv
<1>5. IndexLimit \in Nat /\ allplayfile \in 0..(IndexLimit - 1)
  <2>1. IndexLimit \in Nat \ {0} /\ Lengths \subseteq 1..(IndexLimit - 1)
    BY VoicePlayerAssumption
  <2> QED
    BY <1>4, <2>1
<1>6. currentfile + 1 < IndexLimit /\ currentfile + 1 \in Nat
  BY <1>4, <1>5
<1>7. (currentfile + 1) % IndexLimit = currentfile + 1
  BY <1>5, <1>6
<1>8. currentfile' = currentfile + 1 /\ UNCHANGED allplayfile
  BY <1>7 DEF app_msg_event_handler, NextFile
<1>9. CASE currentfile + 1 < allplayfile
  <2>1. EnterTone
    BY <1>8, <1>9 DEF app_msg_event_handler
  <2> QED
    BY <1>2, <1>3, <1>4, <1>8, <1>9, <2>1, EnterToneStarts DEF ListInv
<1>10. CASE ~(currentfile + 1 < allplayfile)
  <2>1. EnterStop(play_status, TRUE, "idle") /\ UNCHANGED play_status /\ call = "idle"
    BY <1>8, <1>10 DEF app_msg_event_handler, ListDone, At
  <2>2. call' = "idle" \/ (call' = "spin" /\ ret' = "idle")
    BY <2>1 DEF EnterStop
  <2>3. ~Starting' /\ ~Sounding'
    BY <1>3, <2>1, <2>2 DEF Starting, Sounding, ToneLabels
  <2> QED
    BY <1>2, <1>3, <1>4, <1>8, <1>10, <2>3
<1> QED
  BY <1>9, <1>10

\* The application starts a list when the last one is over.
LEMMA BeginMoves ==
    ASSUME ~Overlap, ListInv, NEW n \in Lengths, app_play_files(n)
    PROVE  /\ msgs = 0 /\ msgs' = 0 /\ Starting' /\ ~Sounding'
           /\ currentfile' = 0 /\ allplayfile' = n
<1>1. ~Playing /\ msgs \in Nat /\ UNCHANGED msgs
  BY DEF app_play_files, ListInv, IInv, TypeOK, StateOK
<1>2. msgs = 0 /\ ~Sounding
  BY <1>1 DEF Playing
<1> QED
  BY <1>1, <1>2, EnterToneStarts DEF app_play_files, ListInv

\* A stop of the application leaves the tone alone until stop_halt.
LEMMA StopMoves == ListInv /\ app_stop => Keeps /\ UNCHANGED voiceVars
<1> SUFFICES ASSUME ListInv, app_stop PROVE Keeps /\ UNCHANGED voiceVars
  OBVIOUS
<1>1. PICK wait \in BOOLEAN : a_player_stop(wait) /\ UNCHANGED voiceVars
  BY DEF app_stop
<1>2. /\ call = "idle" /\ UNCHANGED <<play_status, msgs>>
      /\ call' = "idle" \/ (call' \in {"spin", "halt"} /\ ret' = "idle")
  BY <1>1 DEF a_player_stop, EnterStop, At
<1>3. ~Starting /\ ~Starting'
  BY <1>2 DEF Starting, ToneLabels
<1> QED
  BY <1>1, <1>2, <1>3 DEF Keeps, Sounding

-----------------------------------------------------------------------------
(* The invariant of the list.                                               *)

\* The first state plays no list.
LEMMA ListInit == VoiceInit => ListInv
<1> SUFFICES ASSUME VoiceInit PROVE ListInv
  OBVIOUS
<1>1. /\ call = "idle" /\ ret = "idle" /\ msgs = 0 /\ play_status = "MAD_STOP"
      /\ currentfile = 0 /\ allplayfile = 0
  BY DEF VoiceInit, Init
<1>2. ~Starting /\ ~Sounding /\ ~Playing
  BY <1>1 DEF Starting, Sounding, Playing, ToneLabels
<1>3. EndedInv
  BY <1>1, <1>2 DEF EndedInv
<1>4. IndexInv
  BY <1>1, <1>2, VoicePlayerAssumption DEF IndexInv
<1> QED
  BY <1>3, <1>4, QuietInit DEF ListInv

\* The lengths fit the counter.
LEMMA LengthsFit ==
    IndexInv => currentfile \in Nat /\ allplayfile \in Nat /\ allplayfile < IndexLimit
<1> SUFFICES ASSUME IndexInv
             PROVE  currentfile \in Nat /\ allplayfile \in Nat /\ allplayfile < IndexLimit
  OBVIOUS
<1>1. IndexLimit \in Nat \ {0} /\ Lengths \subseteq 1..(IndexLimit - 1)
  BY VoicePlayerAssumption
<1>2. currentfile \in 0..(IndexLimit - 1) /\ allplayfile \in Lengths \cup {0}
  BY DEF IndexInv
<1> QED
  BY <1>1, <1>2

\* Whatever a call in progress or an interrupt does to the tone, the list stays
\* where it is.
LEMMA MoveKeepsList ==
    ASSUME ListInv, UNCHANGED voiceVars, Keeps \/ Sounds \/ Ends \/ Cuts
    PROVE  EndedInv' /\ IndexInv'
<1>1. msgs \in Nat /\ UNCHANGED <<currentfile, allplayfile>>
  BY DEF ListInv, IInv, TypeOK, StateOK, voiceVars
<1>2. /\ msgs <= 1
      /\ msgs > 0 => ~Starting /\ ~Sounding
      /\ Starting => ~Sounding
  BY DEF ListInv, EndedInv
<1>3. (msgs = 0 \/ msgs = 1) /\ (Starting \/ Sounding => msgs = 0)
  BY <1>1, <1>2
<1>4. /\ msgs' = 0 \/ msgs' = 1
      /\ msgs' = 1 => ~Starting' /\ ~Sounding'
      /\ Starting' => ~Sounding'
      /\ Starting' \/ Sounding' \/ msgs' = 1 => Starting \/ Sounding \/ msgs = 1
  <2>1. CASE Keeps
    BY <1>2, <1>3, <2>1 DEF Keeps
  <2>2. CASE Sounds
    BY <1>3, <2>2 DEF Sounds
  <2>3. CASE Ends
    BY <1>3, <2>3 DEF Ends
  <2>4. CASE Cuts
    BY <1>3, <2>4 DEF Cuts
  <2> QED
    BY <2>1, <2>2, <2>3, <2>4
<1>5. EndedInv'
  BY <1>4 DEF EndedInv
<1>6. Playing' => Playing
  BY <1>4 DEF Playing
<1> QED
  BY <1>1, <1>5, <1>6 DEF ListInv, IndexInv

\* The main loop keeps the invariant of the list.
LEMMA ListStep ==
    ASSUME ~Overlap, ListInv, [VoiceNext]_allVars
    PROVE  ListInv'
<1>1. IInv' /\ QuietInv'
  BY VoiceStep, QuietStep DEF ListInv
<1>2. IndexLimit \in Nat \ {0} /\ Lengths \subseteq 1..(IndexLimit - 1)
  BY VoicePlayerAssumption
<1>3. CASE Player
  BY <1>1, <1>3, PlayerMoves, MoveKeepsList DEF ListInv, Player
<1>4. CASE app_stop
  BY <1>1, <1>4, StopMoves, MoveKeepsList DEF ListInv
<1>5. CASE UNCHANGED allVars
  <2>1. UNCHANGED voiceVars /\ UNCHANGED <<call, ret, msgs, play_status>>
    BY <1>5 DEF allVars, vars
  <2>2. Keeps
    BY <2>1 DEF Keeps, Starting, Sounding
  <2> QED
    BY <1>1, <2>1, <2>2, MoveKeepsList DEF ListInv
<1>6. CASE app_msg_event_handler
  <2>1. /\ msgs' = 0 /\ ~Sounding' /\ currentfile < allplayfile
        /\ currentfile' = currentfile + 1 /\ allplayfile' = allplayfile
        /\ Starting' <=> currentfile + 1 < allplayfile
    BY <1>6, HandlerMoves
  <2>2. EndedInv' /\ (Playing' <=> Starting')
    BY <2>1 DEF EndedInv, Playing
  <2>3. currentfile \in Nat /\ allplayfile \in Nat /\ allplayfile < IndexLimit
    BY LengthsFit DEF ListInv
  <2>4. /\ currentfile' \in 0..(IndexLimit - 1) /\ currentfile' <= allplayfile'
        /\ allplayfile' # 0
    BY <1>2, <2>1, <2>3
  <2>5. allplayfile' \in Lengths \cup {0}
    BY <2>1 DEF ListInv, IndexInv
  <2> QED
    BY <1>1, <2>1, <2>2, <2>4, <2>5 DEF ListInv, IndexInv
<1>7. ASSUME NEW n \in Lengths, app_play_files(n) PROVE ListInv'
  <2>1. msgs' = 0 /\ Starting' /\ ~Sounding' /\ currentfile' = 0 /\ allplayfile' = n
    BY <1>7, BeginMoves
  <2>2. EndedInv'
    BY <2>1 DEF EndedInv
  <2>3. n \in Nat /\ n > 0
    BY <1>2
  <2>4. IndexInv'
    BY <1>2, <2>1, <2>3 DEF IndexInv
  <2> QED
    BY <1>1, <2>2, <2>4 DEF ListInv
<1> QED
  BY <1>3, <1>4, <1>5, <1>6, <1>7 DEF VoiceNext, App

-----------------------------------------------------------------------------
(* The playlist.                                                            *)

\* The index the playlist shows: the last tone's once the list is over.
Item == IF currentfile < allplayfile \/ allplayfile = 0
        THEN currentfile ELSE allplayfile - 1

\* The initial state is that of the playlist.
LEMMA ListBegins == VoiceInit => List!Init
<1> SUFFICES ASSUME VoiceInit PROVE List!Init
  OBVIOUS
<1>1. /\ call = "idle" /\ msgs = 0 /\ play_status = "MAD_STOP"
      /\ currentfile = 0 /\ allplayfile = 0
  BY DEF VoiceInit, Init
<1>2. ~Starting /\ ~Sounding
  BY <1>1 DEF Starting, Sounding, ToneLabels
<1> QED
  BY <1>1, <1>2 DEF List!Init, Phase

\* What happens to a tone is a step of the playlist or none.
LEMMA MoveIsListStep ==
    ASSUME ListInv, UNCHANGED voiceVars, Keeps \/ Sounds \/ Ends \/ Cuts
    PROVE  [List!Next]_List!vars
<1>1. msgs \in Nat /\ UNCHANGED <<currentfile, allplayfile>>
  BY DEF ListInv, IInv, TypeOK, StateOK, voiceVars
<1>2. (msgs = 0 \/ msgs = 1) /\ (Starting \/ Sounding => msgs = 0)
      /\ (Starting => ~Sounding)
  BY <1>1 DEF ListInv, EndedInv
<1>3. UNCHANGED Item
  BY <1>1 DEF Item
<1>4. CASE Keeps
  <2>1. UNCHANGED Phase
    BY <1>4 DEF Keeps, Phase
  <2> QED
    BY <1>1, <1>3, <2>1 DEF List!vars, Item
<1>5. CASE Sounds
  <2>1. Phase = "starting" /\ Phase' = "sounding"
    BY <1>5 DEF Sounds, Phase
  <2> QED
    BY <1>1, <1>3, <2>1 DEF List!Next, List!Progress, List!Sound, Item
<1>6. CASE Ends
  <2>1. Phase = "sounding" /\ Phase' = "ended"
    BY <1>2, <1>6 DEF Ends, Phase
  <2> QED
    BY <1>1, <1>3, <2>1 DEF List!Next, List!Progress, List!ToneEnds, Item
<1>7. CASE Cuts
  <2>1. Phase \in {"starting", "sounding"} /\ Phase' = "quiet"
    BY <1>2, <1>7 DEF Cuts, Phase
  <2> QED
    BY <1>1, <1>3, <2>1 DEF List!Next, List!CutShort, Item
<1> QED
  BY <1>4, <1>5, <1>6, <1>7

\* Every step of the main loop is a step of the playlist or none.
LEMMA ListSimulates ==
    ASSUME ~Overlap, ListInv, [VoiceNext]_allVars
    PROVE  [List!Next]_List!vars
<1>1. CASE Player
  BY <1>1, PlayerMoves, MoveIsListStep DEF ListInv, Player
<1>2. CASE app_stop
  BY <1>2, StopMoves, MoveIsListStep
<1>3. CASE UNCHANGED allVars
  <2>1. UNCHANGED voiceVars /\ UNCHANGED <<call, ret, msgs, play_status>>
    BY <1>3 DEF allVars, vars
  <2>2. Keeps
    BY <2>1 DEF Keeps, Starting, Sounding
  <2> QED
    BY <2>1, <2>2, MoveIsListStep
<1>4. CASE app_msg_event_handler
  <2>1. /\ msgs = 1 /\ msgs' = 0 /\ ~Starting /\ ~Sounding /\ ~Sounding'
        /\ currentfile < allplayfile
        /\ currentfile' = currentfile + 1 /\ allplayfile' = allplayfile
        /\ Starting' <=> currentfile + 1 < allplayfile
    BY <1>4, HandlerMoves
  <2>2. currentfile \in Nat /\ allplayfile \in Nat
    BY LengthsFit DEF ListInv
  <2>3. Phase = "ended" /\ Item = currentfile
    BY <2>1 DEF Phase, Item
  <2>4. CASE currentfile + 1 < allplayfile
    <3>1. Phase' = "starting" /\ Item' = Item + 1
      BY <2>1, <2>3, <2>4 DEF Phase, Item
    <3> QED
      BY <2>1, <2>3, <2>4, <3>1 DEF List!Next, List!Progress, List!NextTone, Item
  <2>5. CASE ~(currentfile + 1 < allplayfile)
    <3>1. currentfile + 1 = allplayfile /\ allplayfile # 0
      BY <2>1, <2>2, <2>5
    <3>2. Phase' = "quiet"
      BY <2>1, <2>5 DEF Phase
    <3>3. Item' = allplayfile - 1
      BY <2>1, <2>5, <3>1 DEF Item
    <3>4. Item' = Item /\ Item + 1 >= allplayfile
      BY <2>2, <2>3, <3>1, <3>3
    <3> QED
      BY <2>1, <2>3, <3>2, <3>4 DEF List!Next, List!Progress, List!ListEnds, Item
  <2> QED
    BY <2>4, <2>5
<1>5. ASSUME NEW n \in Lengths, app_play_files(n) PROVE [List!Next]_List!vars
  <2>1. msgs' = 0 /\ Starting' /\ ~Sounding' /\ currentfile' = 0 /\ allplayfile' = n
    BY <1>5, BeginMoves
  <2>2. n \in Nat /\ n > 0
    <3>1. IndexLimit \in Nat \ {0} /\ Lengths \subseteq 1..(IndexLimit - 1)
      BY VoicePlayerAssumption
    <3> QED
      BY <3>1
  <2>3. Phase' = "starting" /\ Item' = 0
    BY <2>1, <2>2 DEF Phase, Item
  <2>4. List!Begin(n)
    BY <2>1, <2>3 DEF List!Begin, Item
  <2> QED
    BY <2>4 DEF List!Next
<1> QED
  BY <1>1, <1>2, <1>3, <1>4, <1>5 DEF VoiceNext, App

\* The player implements the playlist of the voice module, its liveness apart:
\* the tones of a list sound in order, none skipped or repeated, each to its end
\* unless the list is cut short there, for lists of any lengths that the index,
\* a byte, can count.
THEOREM PlaysTheList ==
    ASSUME ~Overlap PROVE VoiceSpec => List!Spec
<1>1. ListInv /\ [VoiceNext]_allVars => ListInv'
  BY ListStep
<1>2. ListInv /\ [VoiceNext]_allVars => [List!Next]_List!vars
  BY ListSimulates
<1> QED
  BY <1>1, <1>2, ListInit, ListBegins, PTL DEF VoiceSpec, List!Spec

-----------------------------------------------------------------------------
(* The tones of a number.                                                   *)

\* The digits of a number below 1000.
LEMMA Digits ==
    ASSUME NEW num \in 0..999
    PROVE  LET h == num \div 100
               t == (num % 100) \div 10
               u == num % 10
           IN  /\ h \in 0..9 /\ t \in 0..9 /\ u \in 0..9
               /\ num = 100 * h + 10 * t + u /\ (num % 100) % 10 = u
               /\ Digit(num, 100) = h /\ Digit(num, 10) = t /\ Digit(num, 1) = u
BY DEF Digit

LEMMA EachDigit ==
    ASSUME NEW num \in 0..999
    PROVE  /\ Digit(num, 100) = num \div 100
           /\ Digit(num, 10) = (num % 100) \div 10
           /\ Digit(num, 1) = num % 10
BY DEF Digit

\* What stands where in two sequences that are joined.
LEMMA Joined ==
    ASSUME NEW s \in Seq(Int), NEW t \in Seq(Int)
    PROVE  /\ s \o t \in Seq(Int) /\ Len(s \o t) = Len(s) + Len(t)
           /\ \A i \in 1..Len(s) : (s \o t)[i] = s[i]
           /\ \A j \in 1..Len(t) : (s \o t)[Len(s) + j] = t[j]
<1>1. /\ s \o t \in Seq(Int) /\ Len(s \o t) = Len(s) + Len(t)
      /\ \A i \in 1..Len(s) + Len(t) : (s \o t)[i] = IF i <= Len(s) THEN s[i] ELSE t[i - Len(s)]
  BY ConcatProperties
<1>2. Len(s) \in Nat /\ Len(t) \in Nat
  OBVIOUS
<1>3. ASSUME NEW i \in 1..Len(s) PROVE (s \o t)[i] = s[i]
  <2>1. i \in 1..Len(s) + Len(t) /\ i <= Len(s)
    BY <1>2
  <2> QED  BY <1>1, <2>1
<1>4. ASSUME NEW j \in 1..Len(t) PROVE (s \o t)[Len(s) + j] = t[j]
  <2> DEFINE i == Len(s) + j
  <2>1. i \in 1..Len(s) + Len(t) /\ ~(i <= Len(s)) /\ i - Len(s) = j
    BY <1>2
  <2> HIDE DEF i
  <2>2. (s \o t)[i] = t[i - Len(s)]
    BY <1>1, <2>1
  <2> QED  BY <2>1, <2>2 DEF i
<1> QED  BY <1>1, <1>3, <1>4

\* The sequence of no tones.
LEMMA Silence == <<>> \in Seq(Int) /\ Len(<<>>) = 0
OBVIOUS

\* The tones of the hundreds h, with the zero that is said when only the tens are.
LEMMA HundredsTones ==
    ASSUME NEW num \in 0..999
    PROVE  LET h == num \div 100
               a == Len(Hundreds(num))
           IN  /\ Hundreds(num) \in Seq(Int)
               /\ a = IF h = 0 THEN 0
                      ELSE IF (num % 100) \div 10 = 0 /\ num % 10 # 0 THEN 3 ELSE 2
               /\ a >= 2 => Hundreds(num)[1] = h /\ Hundreds(num)[2] = BAI
               /\ a = 3 => Hundreds(num)[3] = 0
<1> DEFINE h == num \div 100
           z == IF (num % 100) \div 10 = 0 /\ num % 10 # 0 THEN <<0>> ELSE <<>>
           w == <<h, BAI>>
<1>1. h \in 0..9
  BY Digits
<1>2. CASE num < 100
  <2>1. h = 0 /\ Hundreds(num) = <<>>
    BY <1>2 DEF Hundreds
  <2> HIDE DEF h
  <2>2. Hundreds(num) \in Seq(Int) /\ Len(Hundreds(num)) = 0
    BY <2>1
  <2> QED  BY <2>1, <2>2 DEF h
<1>3. CASE ~(num < 100)
  <2>1. h # 0 /\ Hundreds(num) = w \o z
    BY <1>3 DEF Hundreds
  <2>2. /\ w \in Seq(Int) /\ Len(w) = 2 /\ w[1] = h /\ w[2] = BAI
    <3> HIDE DEF h
    <3> QED  BY <1>1 DEF BAI
  <2>3. /\ z \in Seq(Int)
        /\ Len(z) = IF (num % 100) \div 10 = 0 /\ num % 10 # 0 THEN 1 ELSE 0
        /\ Len(z) = 1 => z[1] = 0
    <3>1. CASE (num % 100) \div 10 = 0 /\ num % 10 # 0
      <4>1. z = <<0>>
        BY <3>1
      <4> HIDE DEF z
      <4> QED  BY <3>1, <4>1
    <3>2. CASE ~((num % 100) \div 10 = 0 /\ num % 10 # 0)
      <4>1. z = <<>>
        BY <3>2
      <4> HIDE DEF z
      <4> QED  BY <3>2, <4>1
    <3> QED  BY <3>1, <3>2
  <2> HIDE DEF w, z
  <2>4. /\ Hundreds(num) \in Seq(Int) /\ Len(Hundreds(num)) = Len(w) + Len(z)
        /\ \A i \in 1..Len(w) : Hundreds(num)[i] = w[i]
        /\ \A j \in 1..Len(z) : Hundreds(num)[Len(w) + j] = z[j]
    <3>1. w \in Seq(Int) /\ z \in Seq(Int)
      BY <2>2, <2>3
    <3>2. /\ w \o z \in Seq(Int) /\ Len(w \o z) = Len(w) + Len(z)
          /\ \A i \in 1..Len(w) : (w \o z)[i] = w[i]
          /\ \A j \in 1..Len(z) : (w \o z)[Len(w) + j] = z[j]
      BY <3>1, Joined
    <3> QED  BY <2>1, <3>2
  <2>5. Hundreds(num)[1] = h /\ Hundreds(num)[2] = BAI
    BY <2>2, <2>4
  <2>6. ASSUME Len(z) = 1 PROVE Hundreds(num)[3] = 0
    <3>1. 1 \in 1..Len(z) /\ Len(w) + 1 = 3
      BY <2>2, <2>6
    <3>2. Hundreds(num)[Len(w) + 1] = z[1]
      BY <2>4, <3>1
    <3> QED  BY <2>3, <2>6, <3>1, <3>2
  <2> HIDE DEF h
  <2>7. Len(Hundreds(num)) = IF (num % 100) \div 10 = 0 /\ num % 10 # 0 THEN 3 ELSE 2
    BY <2>2, <2>3, <2>4
  <2>8. ASSUME Len(Hundreds(num)) = 3 PROVE Hundreds(num)[3] = 0
    <3>1. (num % 100) \div 10 = 0 /\ num % 10 # 0
      BY <2>7, <2>8
    <3>2. Len(z) = 1
      BY <2>3, <3>1
    <3> QED  BY <2>6, <3>2
  <2> QED  BY <2>1, <2>4, <2>5, <2>7, <2>8 DEF h
<1> QED  BY <1>2, <1>3

\* Those of the tens and the units.
LEMMA TensTones ==
    ASSUME NEW num \in 0..999
    PROVE  LET t == (num % 100) \div 10
           IN  /\ Tens(num % 100) \in Seq(Int)
               /\ Len(Tens(num % 100)) = IF t = 0 THEN 0 ELSE 2
               /\ t # 0 => Tens(num % 100)[1] = t /\ Tens(num % 100)[2] = SHI
<1> DEFINE t == (num % 100) \div 10
<1>1. t \in 0..9 /\ (num % 100 < 10 <=> t = 0)
  BY Digits
<1>2. Tens(num % 100) = IF t = 0 THEN <<>> ELSE <<t, SHI>>
  BY <1>1 DEF Tens
<1> HIDE DEF t
<1>3. CASE t = 0
  <2>1. Tens(num % 100) = <<>>
    BY <1>2, <1>3
  <2>2. Tens(num % 100) \in Seq(Int) /\ Len(Tens(num % 100)) = 0
    BY <2>1, Silence
  <2> QED  BY <1>3, <2>2 DEF t
<1>4. CASE t # 0
  <2>1. Tens(num % 100) = <<t, SHI>>
    BY <1>2, <1>4
  <2>2. <<t, SHI>> \in Seq(Int) /\ Len(<<t, SHI>>) = 2 /\ <<t, SHI>>[1] = t /\ <<t, SHI>>[2] = SHI
    BY <1>1 DEF SHI
  <2> QED  BY ZenonT(30), <1>4, <2>1, <2>2 DEF t
<1> QED  BY <1>3, <1>4

\* The unit is left out when it is zero.
LEMMA UnitsTones ==
    ASSUME NEW u \in 0..9
    PROVE  /\ Units(u) \in Seq(Int) /\ Len(Units(u)) = IF u = 0 THEN 0 ELSE 1
           /\ u # 0 => Units(u)[1] = u
<1>1. CASE u = 0
  <2>1. Units(u) = <<>>
    BY <1>1 DEF Units
  <2>2. Units(u) \in Seq(Int) /\ Len(Units(u)) = 0
    BY <2>1, Silence
  <2> QED  BY <1>1, <2>2
<1>2. CASE u # 0
  <2>1. Units(u) = <<u>>
    BY <1>2 DEF Units
  <2> QED  BY <1>2, <2>1
<1> QED  BY <1>1, <1>2

\* What stands where in the tones of a number.
LEMMA TonesOfNumber ==
    ASSUME NEW num \in 0..999
    PROVE  LET N == num_to_voice(num)
               h == num \div 100
               t == (num % 100) \div 10
               u == num % 10
               a == IF h = 0 THEN 0 ELSE IF t = 0 /\ u # 0 THEN 3 ELSE 2
               b == IF t = 0 THEN 0 ELSE 2
               c == IF u = 0 THEN 0 ELSE 1
           IN  /\ N \in Seq(Int) /\ Len(N) = a + b + c
               /\ h # 0 => N[1] = h /\ N[2] = BAI
               /\ a = 3 => N[3] = 0
               /\ t # 0 => N[a + 1] = t /\ N[a + 2] = SHI
               /\ u # 0 => N[a + b + 1] = u
<1> DEFINE h == num \div 100
           t == (num % 100) \div 10
           u == num % 10
           a == IF h = 0 THEN 0 ELSE IF t = 0 /\ u # 0 THEN 3 ELSE 2
           b == IF t = 0 THEN 0 ELSE 2
           c == IF u = 0 THEN 0 ELSE 1
           H == Hundreds(num)
           T == Tens(num % 100)
           U == Units(u)
           N == num_to_voice(num)
<1>1. h \in 0..9 /\ t \in 0..9 /\ u \in 0..9 /\ (num % 100) % 10 = u
  BY SMTT(30), Digits
<1>2. N = (H \o T) \o U
  BY SMTT(30), <1>1 DEF num_to_voice
<1>3. /\ H \in Seq(Int) /\ Len(H) = a
      /\ a >= 2 => H[1] = h /\ H[2] = BAI
      /\ a = 3 => H[3] = 0
  BY ZenonT(30), HundredsTones
<1>4. T \in Seq(Int) /\ Len(T) = b /\ (t # 0 => T[1] = t /\ T[2] = SHI)
  BY ZenonT(30), TensTones
<1>5. U \in Seq(Int) /\ Len(U) = c /\ (u # 0 => U[1] = u)
  <2> HIDE DEF u
  <2> QED  BY <1>1, UnitsTones
<1>6. /\ a \in {0, 2, 3} /\ b \in {0, 2} /\ c \in {0, 1}
      /\ h # 0 <=> a >= 2
      /\ t # 0 <=> b = 2
      /\ u # 0 <=> c = 1
  OBVIOUS
<1> HIDE DEF h, t, u, a, b, c, H, T, U, N
<1> DEFINE M == H \o T
<1>7. /\ M \in Seq(Int) /\ Len(M) = Len(H) + Len(T)
      /\ \A i \in 1..Len(H) : M[i] = H[i]
      /\ \A j \in 1..Len(T) : M[Len(H) + j] = T[j]
  BY <1>3, <1>4, Joined
<1>8. N = M \o U
  BY <1>2
<1> HIDE DEF M
<1>9. /\ N \in Seq(Int) /\ Len(N) = Len(M) + Len(U)
      /\ \A i \in 1..Len(M) : N[i] = M[i]
      /\ \A j \in 1..Len(U) : N[Len(M) + j] = U[j]
  BY <1>5, <1>7, <1>8, Joined
<1>10. /\ Len(H) = a /\ Len(M) = a + b /\ Len(N) = a + b + c
  BY <1>3, <1>4, <1>5, <1>7, <1>9
<1>11. ASSUME NEW i \in 1..a PROVE N[i] = H[i]
  <2>1. i \in 1..Len(H) /\ i \in 1..Len(M)
    BY <1>6, <1>10
  <2> QED  BY <1>7, <1>9, <2>1
<1>12. ASSUME NEW j \in 1..b PROVE N[a + j] = T[j]
  <2>1. j \in 1..Len(T) /\ a + j \in 1..Len(M)
    BY <1>4, <1>6, <1>10
  <2>2. M[Len(H) + j] = T[j] /\ N[a + j] = M[a + j]
    BY <1>7, <1>9, <2>1
  <2> QED  BY <1>10, <2>2
<1>13. ASSUME NEW j \in 1..c PROVE N[a + b + j] = U[j]
  <2>1. j \in 1..Len(U)
    BY <1>5
  <2>2. N[Len(M) + j] = U[j]
    BY <1>9, <2>1
  <2> QED  BY <1>10, <2>2
<1>14. h # 0 => N[1] = h /\ N[2] = BAI
  <2>1. a >= 2 => 1 \in 1..a /\ 2 \in 1..a
    BY <1>6
  <2> QED  BY <1>3, <1>6, <1>11, <2>1
<1>15. a = 3 => N[3] = 0
  <2>1. a = 3 => 3 \in 1..a
    OBVIOUS
  <2> QED  BY <1>3, <1>11, <2>1
<1>16. t # 0 => N[a + 1] = t /\ N[a + 2] = SHI
  <2>1. t # 0 => 1 \in 1..b /\ 2 \in 1..b
    BY <1>6
  <2> QED  BY <1>4, <1>12, <2>1
<1>17. u # 0 => N[a + b + 1] = u
  <2>1. u # 0 => 1 \in 1..c
    BY <1>6
  <2> QED  BY <1>5, <1>13, <2>1
<1> QED  BY <1>9, <1>10, <1>14, <1>15, <1>16, <1>17 DEF N, h, t, u, a, b, c

\* The words of a number are its digits, "hundred" and "ten"; there are five at most,
\* and none for a number that has no tones.
LEMMA WordsOfNumber ==
    ASSUME NEW num \in Nat
    PROVE  /\ num_to_voice(num) \in Seq(Int) /\ Len(num_to_voice(num)) \in 0..5
           /\ \A k \in 1..Len(num_to_voice(num)) :
                 num_to_voice(num)[k] \in (0..9) \cup {BAI, SHI}
           /\ num >= 1000 => Len(num_to_voice(num)) = 0
<1>1. CASE num >= 1000
  <2>1. num_to_voice(num) = <<>>
    BY <1>1 DEF num_to_voice
  <2>2. num_to_voice(num) \in Seq(Int) /\ Len(num_to_voice(num)) = 0
    BY <2>1, Silence
  <2> QED  BY <1>1, <2>2
<1>2. CASE ~(num >= 1000)
  <2> DEFINE N == num_to_voice(num)
             h == num \div 100
             t == (num % 100) \div 10
             u == num % 10
             a == IF h = 0 THEN 0 ELSE IF t = 0 /\ u # 0 THEN 3 ELSE 2
             b == IF t = 0 THEN 0 ELSE 2
             c == IF u = 0 THEN 0 ELSE 1
  <2>0. num \in 0..999
    BY <1>2
  <2>1. h \in 0..9 /\ t \in 0..9 /\ u \in 0..9
    BY <2>0, Digits
  <2>2. /\ N \in Seq(Int) /\ Len(N) = a + b + c
        /\ h # 0 => N[1] = h /\ N[2] = BAI
        /\ a = 3 => N[3] = 0
        /\ t # 0 => N[a + 1] = t /\ N[a + 2] = SHI
        /\ u # 0 => N[a + b + 1] = u
    BY ZenonT(30), <2>0, TonesOfNumber
  <2>3. /\ a \in {0, 2, 3} /\ b \in {0, 2} /\ c \in {0, 1}
        /\ h # 0 <=> a >= 2
        /\ t # 0 <=> b = 2
        /\ u # 0 <=> c = 1
    OBVIOUS
  <2> HIDE DEF N, h, t, u, a, b, c
  <2>4. Len(N) \in 0..6 /\ (Len(N) = 6 => a = 3 /\ b = 2)
    BY <2>2, <2>3
  <2>5. a = 3 => b = 0
    BY DEF a, b
  <2>6. ASSUME NEW k \in 1..Len(N)
        PROVE  N[k] \in (0..9) \cup {BAI, SHI}
    <3>1. \/ k = 1 /\ a >= 2
          \/ k = 2 /\ a >= 2
          \/ k = 3 /\ a = 3
          \/ k = a + 1 /\ b = 2
          \/ k = a + 2 /\ b = 2
          \/ k = a + b + 1 /\ c = 1
      BY <2>2, <2>3
    <3>2. CASE k = 1 /\ a >= 2
      BY <2>1, <2>2, <2>3, <3>2
    <3>3. CASE k = 2 /\ a >= 2
      BY <2>2, <2>3, <3>3
    <3>4. CASE k = 3 /\ a = 3
      BY <2>2, <3>4
    <3>5. CASE k = a + 1 /\ b = 2
      BY <2>1, <2>2, <2>3, <3>5
    <3>6. CASE k = a + 2 /\ b = 2
      BY <2>2, <2>3, <3>6
    <3>7. CASE k = a + b + 1 /\ c = 1
      BY <2>1, <2>2, <2>3, <3>7
    <3> QED  BY <3>1, <3>2, <3>3, <3>4, <3>5, <3>6, <3>7
  <2>7. Len(N) \in 0..5
    BY <2>3, <2>4, <2>5
  <2> QED  BY <1>2, <2>2, <2>6, <2>7 DEF N
<1> QED  BY <1>1, <1>2

\* Where the tones of a number stand between others, they say that number.
LEMMA NumberIsSaid ==
    ASSUME NEW num \in Nat, NEW s \in Seq(Int), NEW l \in 1..Len(s),
           l + Len(num_to_voice(num)) <= Len(s),
           \A k \in 1..Len(num_to_voice(num)) : s[l + k] = num_to_voice(num)[k],
           s[l] # BAI,
           l + Len(num_to_voice(num)) < Len(s) =>
              s[l + Len(num_to_voice(num)) + 1] \notin {BAI, SHI}
    PROVE  Says(s, (l + 1)..(l + Len(num_to_voice(num))), num)
<1> DEFINE n == Len(num_to_voice(num))
           P == (l + 1)..(l + n)
           said(w) == {i \in P : s[i] \in 1..9 /\ Weight(s, i) = w}
<1>0. n \in 0..5 /\ l \in Nat /\ Len(s) \in Nat
  BY WordsOfNumber
<1>1. CASE num >= 1000
  <2>1. n = 0
    BY <1>1, WordsOfNumber
  <2>2. P = {}
    BY <1>0, <2>1
  <2> HIDE DEF P
  <2>3. \A w \in {1, 10, 100} : said(w) = {}
    BY <2>2
  <2> QED  BY SMTT(30), <1>1, <2>3 DEF Says, P
<1>2. CASE ~(num >= 1000)
  <2> DEFINE N == num_to_voice(num)
             h == num \div 100
             t == (num % 100) \div 10
             u == num % 10
             a == IF h = 0 THEN 0 ELSE IF t = 0 /\ u # 0 THEN 3 ELSE 2
             b == IF t = 0 THEN 0 ELSE 2
             c == IF u = 0 THEN 0 ELSE 1
  <2>0. num \in 0..999
    BY <1>2
  <2>1. /\ h \in 0..9 /\ t \in 0..9 /\ u \in 0..9
        /\ Digit(num, 100) = h /\ Digit(num, 10) = t /\ Digit(num, 1) = u
    <3>1. h \in 0..9 /\ t \in 0..9 /\ u \in 0..9
        BY <2>0
    <3>2. Digit(num, 100) = h /\ Digit(num, 10) = t /\ Digit(num, 1) = u
        <4> HIDE DEF n, P, said, N, a, b, c
        <4> QED
            BY ZenonT(30), <2>0, EachDigit
    <3> QED
        BY <3>1, <3>2
  <2>2. /\ n = a + b + c
        /\ h # 0 => N[1] = h /\ N[2] = BAI
        /\ a = 3 => N[3] = 0
        /\ t # 0 => N[a + 1] = t /\ N[a + 2] = SHI
        /\ u # 0 => N[a + b + 1] = u
    BY ZenonT(30), <2>0, TonesOfNumber
  <2>3. /\ a \in {0, 2, 3} /\ b \in {0, 2} /\ c \in {0, 1}
        /\ h # 0 <=> a >= 2
        /\ t # 0 <=> b = 2
        /\ u # 0 <=> c = 1
        /\ c = 1 /\ b = 0 => a # 2
    OBVIOUS
  <2>4. /\ \A k \in 1..n : s[l + k] = N[k]
        /\ l + n <= Len(s) /\ s[l] # BAI
        /\ l + n < Len(s) => s[l + n + 1] \notin {BAI, SHI}
    OBVIOUS
  <2> HIDE DEF N, h, t, u, a, b, c, n
  <2>5. a >= 2 => s[l + 1] = h /\ s[l + 2] = BAI
    <3>1. a >= 2 => 1 \in 1..n /\ 2 \in 1..n
      BY <2>2, <2>3
    <3> QED  BY <2>2, <2>3, <2>4, <3>1
  <2>6. a = 3 => s[l + 3] = 0
    <3>1. a = 3 => 3 \in 1..n
      BY <2>2, <2>3
    <3> QED  BY <2>2, <2>4, <3>1
  <2>7. b = 2 => s[l + a + 1] = t /\ s[l + a + 2] = SHI
    <3>1. b = 2 => a + 1 \in 1..n /\ a + 2 \in 1..n
      BY <2>2, <2>3
    <3>2. b = 2 => s[l + (a + 1)] = t /\ s[l + (a + 2)] = SHI
      BY <2>2, <2>3, <2>4, <3>1
    <3>3. l + (a + 1) = l + a + 1 /\ l + (a + 2) = l + a + 2
      BY <1>0, <2>3
    <3> QED  BY <3>2, <3>3
  <2>8. c = 1 => s[l + a + b + 1] = u
    <3>1. c = 1 => a + b + 1 \in 1..n
      BY <2>2, <2>3
    <3>2. c = 1 => s[l + (a + b + 1)] = u
      BY <2>2, <2>3, <2>4, <3>1
    <3>3. l + (a + b + 1) = l + a + b + 1
      BY <1>0, <2>3
    <3> QED  BY <3>2, <3>3
  <2>9. a >= 2 => Weight(s, l + 1) = 100
    <3>1. a >= 2 => l + 1 < Len(s) /\ (l + 1) + 1 = l + 2
      BY <1>0, <2>2, <2>3, <2>4
    <3> QED  BY <2>5, <3>1 DEF Weight
  <2>10. b = 2 => Weight(s, l + a + 1) = 10
    <3>1. b = 2 => l + a + 1 < Len(s) /\ (l + a + 1) + 1 = l + a + 2
      BY <1>0, <2>2, <2>3, <2>4
    <3> QED  BY SMTT(30), <2>7, <3>1 DEF Weight, BAI, SHI
  <2>11. ASSUME c = 1 PROVE Weight(s, l + a + b + 1) = 1
    <3> DEFINE i == l + a + b + 1
    <3>1. i = l + n /\ i \in Nat
      BY <1>0, <2>2, <2>3, <2>11
    <3>2. i < Len(s) => s[i + 1] \notin {BAI, SHI}
      BY <2>4, <3>1
    <3>3. s[i - 1] # BAI
      <4>1. CASE b = 2
        <5>1. i - 1 = l + a + 2
          BY <1>0, <2>3, <4>1
        <5> QED  BY <2>7, <4>1, <5>1 DEF BAI, SHI
      <4>2. CASE b = 0 /\ a = 3
        <5>1. i - 1 = l + 3
          BY <1>0, <4>2
        <5> QED  BY <2>6, <4>2, <5>1 DEF BAI
      <4>3. CASE b = 0 /\ a = 0
        <5>1. i - 1 = l
          BY <1>0, <4>3
        <5> QED  BY <2>4, <5>1
      <4> QED  BY <2>3, <2>11, <4>1, <4>2, <4>3
    <3> HIDE DEF i
    <3>4. Weight(s, i) = 1
      BY <3>2, <3>3 DEF Weight
    <3> QED  BY <3>4 DEF i
  <2>12. ASSUME NEW i \in P
         PROVE  \/ i = l + 1 /\ a >= 2
                \/ i = l + 2 /\ a >= 2
                \/ i = l + 3 /\ a = 3
                \/ i = l + a + 1 /\ b = 2
                \/ i = l + a + 2 /\ b = 2
                \/ i = l + a + b + 1 /\ c = 1
    BY <1>0, <2>2, <2>3
  <2>13. ASSUME NEW i \in P, s[i] \in 1..9
         PROVE  \/ i = l + 1 /\ a >= 2 /\ Weight(s, i) = 100
                \/ i = l + a + 1 /\ b = 2 /\ Weight(s, i) = 10
                \/ i = l + a + b + 1 /\ c = 1 /\ Weight(s, i) = 1
    <3>1. ~(i = l + 2 /\ a >= 2) /\ ~(i = l + 3 /\ a = 3) /\ ~(i = l + a + 2 /\ b = 2)
      <4>1. ASSUME i = l + 2, a >= 2 PROVE FALSE
        <5>1. s[i] = BAI
          BY <2>5, <4>1
        <5> QED  BY <2>13, <5>1 DEF BAI
      <4>2. ASSUME i = l + 3, a = 3 PROVE FALSE
        <5>1. s[i] = 0
          BY <2>6, <4>2
        <5> QED  BY <2>13, <5>1
      <4>3. ASSUME i = l + a + 2, b = 2 PROVE FALSE
        <5>1. s[i] = SHI
          BY <2>7, <4>3
        <5> QED  BY <2>13, <5>1 DEF SHI
      <4> QED  BY <4>1, <4>2, <4>3
    <3> QED  BY <2>9, <2>10, <2>11, <2>12, <3>1
  <2>14. /\ a >= 2 => l + 1 \in P
         /\ b = 2 => l + a + 1 \in P
         /\ c = 1 => l + a + b + 1 \in P
    BY <1>0, <2>2, <2>3
  <2> HIDE DEF P
  <2>15. IF h = 0 THEN said(100) = {} ELSE \E i \in P : said(100) = {i} /\ s[i] = h
    <3>0. ASSUME NEW i \in said(100)
          PROVE  i \in P /\ i = l + 1 /\ h # 0
      <4>1. i \in P /\ s[i] \in 1..9 /\ Weight(s, i) = 100
        BY <3>0
      <4>2. \/ i = l + 1 /\ a >= 2 /\ Weight(s, i) = 100
            \/ i = l + a + 1 /\ b = 2 /\ Weight(s, i) = 10
            \/ i = l + a + b + 1 /\ c = 1 /\ Weight(s, i) = 1
        BY <2>13, <4>1
      <4> QED  BY <2>3, <4>1, <4>2
    <3>1. CASE h = 0
      <4>1. said(100) = {}
        <5> HIDE DEF said
        <5> QED  BY <3>0, <3>1
      <4> QED  BY <3>1, <4>1
    <3>2. CASE h # 0
      <4>1. l + 1 \in P /\ s[l + 1] = h /\ h \in 1..9 /\ Weight(s, l + 1) = 100
        BY <2>1, <2>3, <2>5, <2>9, <2>14, <3>2
      <4>2. l + 1 \in said(100)
        BY <4>1
      <4>3. said(100) = {l + 1}
        <5> HIDE DEF said
        <5> QED  BY <3>0, <4>2
      <4> QED  BY <3>2, <4>1, <4>3
    <3> QED  BY <3>1, <3>2
  <2>16. IF t = 0 THEN said(10) = {} ELSE \E i \in P : said(10) = {i} /\ s[i] = t
    <3>0. ASSUME NEW i \in said(10)
          PROVE  i \in P /\ i = l + a + 1 /\ t # 0
      <4>1. i \in P /\ s[i] \in 1..9 /\ Weight(s, i) = 10
        BY <3>0
      <4>2. \/ i = l + 1 /\ a >= 2 /\ Weight(s, i) = 100
            \/ i = l + a + 1 /\ b = 2 /\ Weight(s, i) = 10
            \/ i = l + a + b + 1 /\ c = 1 /\ Weight(s, i) = 1
        BY <2>13, <4>1
      <4> QED  BY <2>3, <4>1, <4>2
    <3>1. CASE t = 0
      <4>1. said(10) = {}
        <5> HIDE DEF said
        <5> QED  BY <3>0, <3>1
      <4> QED  BY <3>1, <4>1
    <3>2. CASE t # 0
      <4>1. /\ l + a + 1 \in P /\ s[l + a + 1] = t /\ t \in 1..9
            /\ Weight(s, l + a + 1) = 10
        BY <2>1, <2>3, <2>7, <2>10, <2>14, <3>2
      <4>2. l + a + 1 \in said(10)
        BY <4>1
      <4>3. said(10) = {l + a + 1}
        <5> HIDE DEF said
        <5> QED  BY <3>0, <4>2
      <4> QED  BY <3>2, <4>1, <4>3
    <3> QED  BY <3>1, <3>2
  <2>17. IF u = 0 THEN said(1) = {} ELSE \E i \in P : said(1) = {i} /\ s[i] = u
    <3>0. ASSUME NEW i \in said(1)
          PROVE  i \in P /\ i = l + a + b + 1 /\ u # 0
      <4>1. i \in P /\ s[i] \in 1..9 /\ Weight(s, i) = 1
        BY <3>0
      <4>2. \/ i = l + 1 /\ a >= 2 /\ Weight(s, i) = 100
            \/ i = l + a + 1 /\ b = 2 /\ Weight(s, i) = 10
            \/ i = l + a + b + 1 /\ c = 1 /\ Weight(s, i) = 1
        BY <2>13, <4>1
      <4> QED  BY <2>3, <4>1, <4>2
    <3>1. CASE u = 0
      <4>1. said(1) = {}
        <5> HIDE DEF said
        <5> QED  BY <3>0, <3>1
      <4> QED  BY <3>1, <4>1
    <3>2. CASE u # 0
      <4>1. /\ l + a + b + 1 \in P /\ s[l + a + b + 1] = u /\ u \in 1..9
            /\ Weight(s, l + a + b + 1) = 1
        BY <2>1, <2>3, <2>8, <2>11, <2>14, <3>2
      <4>2. l + a + b + 1 \in said(1)
        BY <4>1
      <4>3. said(1) = {l + a + b + 1}
        <5> HIDE DEF said
        <5> QED  BY <3>0, <4>2
      <4> QED  BY <3>2, <4>1, <4>3
    <3> QED  BY <3>1, <3>2
  <2>18. ASSUME NEW w \in {1, 10, 100}
         PROVE  IF Digit(num, w) = 0 THEN said(w) = {}
                ELSE \E i \in P : said(w) = {i} /\ s[i] = Digit(num, w)
    <3> HIDE DEF said
    <3>1. CASE w = 100
      BY <2>1, <2>15, <3>1
    <3>2. CASE w = 10
      BY <2>1, <2>16, <3>2
    <3>3. CASE w = 1
      BY <2>1, <2>17, <3>3
    <3> QED  BY <3>1, <3>2, <3>3
  <2>19. Says(s, P, num)
    <3> SUFFICES ASSUME NEW w \in {1, 10, 100}
                 PROVE  LET digit == IF num >= 1000 THEN 0 ELSE Digit(num, w)
                        IN  IF digit = 0 THEN said(w) = {}
                            ELSE \E i \in P : said(w) = {i} /\ s[i] = digit
      BY DEF Says
    <3> HIDE DEF said
    <3>1. (IF num >= 1000 THEN 0 ELSE Digit(num, w)) = Digit(num, w)
      BY <1>2
    <3>2. IF Digit(num, w) = 0 THEN said(w) = {}
          ELSE \E i \in P : said(w) = {i} /\ s[i] = Digit(num, w)
      BY <2>18
    <3> QED  BY <3>1, <3>2
  <2> QED  BY <2>19 DEF P, n
<1> QED  BY <1>1, <1>2

-----------------------------------------------------------------------------
(* The list of a report.                                                    *)

\* A sequence of one tone.
LEMMA OneTone ==
    ASSUME NEW x \in Int
    PROVE  <<x>> \in Seq(Int) /\ Len(<<x>>) = 1 /\ <<x>>[1] = x
OBVIOUS

\* The length of two sequences that are joined.
LEMMA JoinedLength ==
    ASSUME NEW s \in Seq(Int), NEW t \in Seq(Int)
    PROVE  s \o t \in Seq(Int) /\ Len(s \o t) = Len(s) + Len(t)
BY Joined

\* A part of a sequence stays where it is when the sequence is made longer.
LEMMA StaysInPlace ==
    ASSUME NEW s \in Seq(Int), NEW t \in Seq(Int), NEW whole \in Seq(Int),
           Len(s) + Len(t) <= Len(whole),
           \A i \in 1..(Len(s) + Len(t)) : whole[i] = (s \o t)[i]
    PROVE  /\ Len(s) <= Len(whole) /\ \A i \in 1..Len(s) : whole[i] = s[i]
           /\ \A j \in 1..Len(t) : whole[Len(s) + j] = t[j]
<1>1. Len(s) \in Nat /\ Len(t) \in Nat /\ Len(whole) \in Nat
  OBVIOUS
<1>2. /\ \A i \in 1..Len(s) : (s \o t)[i] = s[i]
      /\ \A j \in 1..Len(t) : (s \o t)[Len(s) + j] = t[j]
  BY Joined
<1>3. ASSUME NEW i \in 1..Len(s) PROVE whole[i] = s[i]
  <2>1. i \in 1..(Len(s) + Len(t))
    BY <1>1
  <2> QED  BY <1>2, <2>1
<1>4. ASSUME NEW j \in 1..Len(t) PROVE whole[Len(s) + j] = t[j]
  <2>1. Len(s) + j \in 1..(Len(s) + Len(t))
    BY <1>1
  <2> QED  BY <1>2, <2>1
<1> QED  BY <1>1, <1>3, <1>4

\* What stands where in a list L of three numbers A, B and C.
LaidOut(L, A, B, C) ==
    /\ L \in Seq(Int) /\ Len(L) = Len(A) + Len(B) + Len(C) + 5
    /\ L[1] = SHOUSUOYA
    /\ \A k \in 1..Len(A) : L[1 + k] = A[k]
    /\ L[Len(A) + 2] = MMHG
    /\ L[Len(A) + 3] = SHUZHANGYA
    /\ \A k \in 1..Len(B) : L[Len(A) + 3 + k] = B[k]
    /\ L[Len(A) + Len(B) + 4] = MMHG
    /\ L[Len(A) + Len(B) + 5] = MAIBO
    /\ \A k \in 1..Len(C) : L[Len(A) + Len(B) + 5 + k] = C[k]

\* The list of a report has its three numbers, each after its label.
LEMMA ListLaidOut ==
    ASSUME NEW pulse \in Nat, NEW sbp \in Nat, NEW dbp \in Nat
    PROVE  LaidOut(make_voice_list(pulse, sbp, dbp),
                   num_to_voice(sbp), num_to_voice(dbp), num_to_voice(pulse))
<1> DEFINE A == num_to_voice(sbp)
           B == num_to_voice(dbp)
           C == num_to_voice(pulse)
           L == make_voice_list(pulse, sbp, dbp)
           S == <<SHOUSUOYA>>
           M == <<MMHG>>
           Z == <<SHUZHANGYA>>
           P == <<MAIBO>>
           s2 == S \o A
           s3 == s2 \o M
           s4 == s3 \o Z
           s5 == s4 \o B
           s6 == s5 \o M
           s7 == s6 \o P
<1>1. L = s7 \o C
  BY DEF make_voice_list
<1>2. A \in Seq(Int) /\ B \in Seq(Int) /\ C \in Seq(Int)
  BY WordsOfNumber
<1>3. /\ S \in Seq(Int) /\ Len(S) = 1 /\ S[1] = SHOUSUOYA
      /\ M \in Seq(Int) /\ Len(M) = 1 /\ M[1] = MMHG
      /\ Z \in Seq(Int) /\ Len(Z) = 1 /\ Z[1] = SHUZHANGYA
      /\ P \in Seq(Int) /\ Len(P) = 1 /\ P[1] = MAIBO
  <2>1. SHOUSUOYA \in Int /\ MMHG \in Int /\ SHUZHANGYA \in Int /\ MAIBO \in Int
    BY DEF SHOUSUOYA, MMHG, SHUZHANGYA, MAIBO
  <2> QED  BY <2>1, OneTone
<1> HIDE DEF A, B, C, L, S, M, Z, P, s2, s3, s4, s5, s6, s7
<1>4. s2 \in Seq(Int) /\ Len(s2) = 1 + Len(A)
  <2>1. S \in Seq(Int) /\ A \in Seq(Int) /\ Len(S) = 1
    BY <1>2, <1>3
  <2>2. S \o A \in Seq(Int) /\ Len(S \o A) = Len(S) + Len(A)
    BY <2>1, JoinedLength
  <2> QED  BY <2>1, <2>2 DEF s2
<1>5. s3 \in Seq(Int) /\ Len(s3) = Len(s2) + 1
  <2>1. s2 \in Seq(Int) /\ M \in Seq(Int) /\ Len(M) = 1
    BY <1>3, <1>4
  <2>2. s2 \o M \in Seq(Int) /\ Len(s2 \o M) = Len(s2) + Len(M)
    BY <2>1, JoinedLength
  <2> QED  BY <2>1, <2>2 DEF s3
<1>6. s4 \in Seq(Int) /\ Len(s4) = Len(s3) + 1
  <2>1. s3 \in Seq(Int) /\ Z \in Seq(Int) /\ Len(Z) = 1
    BY <1>3, <1>5
  <2>2. s3 \o Z \in Seq(Int) /\ Len(s3 \o Z) = Len(s3) + Len(Z)
    BY <2>1, JoinedLength
  <2> QED  BY <2>1, <2>2 DEF s4
<1>7. s5 \in Seq(Int) /\ Len(s5) = Len(s4) + Len(B)
  <2>1. s4 \in Seq(Int) /\ B \in Seq(Int)
    BY <1>2, <1>6
  <2>2. s4 \o B \in Seq(Int) /\ Len(s4 \o B) = Len(s4) + Len(B)
    BY <2>1, JoinedLength
  <2> QED  BY <2>1, <2>2 DEF s5
<1>8. s6 \in Seq(Int) /\ Len(s6) = Len(s5) + 1
  <2>1. s5 \in Seq(Int) /\ M \in Seq(Int) /\ Len(M) = 1
    BY <1>3, <1>7
  <2>2. s5 \o M \in Seq(Int) /\ Len(s5 \o M) = Len(s5) + Len(M)
    BY <2>1, JoinedLength
  <2> QED  BY <2>1, <2>2 DEF s6
<1>9. s7 \in Seq(Int) /\ Len(s7) = Len(s6) + 1
  <2>1. s6 \in Seq(Int) /\ P \in Seq(Int) /\ Len(P) = 1
    BY <1>3, <1>8
  <2>2. s6 \o P \in Seq(Int) /\ Len(s6 \o P) = Len(s6) + Len(P)
    BY <2>1, JoinedLength
  <2> QED  BY <2>1, <2>2 DEF s7
<1>10. L \in Seq(Int) /\ Len(L) = Len(s7) + Len(C) /\ Len(L) \in Nat
  <2>1. s7 \in Seq(Int) /\ C \in Seq(Int)
    BY <1>2, <1>9
  <2>2. s7 \o C \in Seq(Int) /\ Len(s7 \o C) = Len(s7) + Len(C)
    BY <2>1, JoinedLength
  <2> QED  BY <2>1, <2>2, <1>1
<1>11. /\ Len(s7) <= Len(L) /\ \A i \in 1..Len(s7) : L[i] = s7[i]
       /\ \A k \in 1..Len(C) : L[Len(s7) + k] = C[k]
  <2>1. Len(s7) + Len(C) <= Len(L) /\ \A i \in 1..(Len(s7) + Len(C)) : L[i] = (s7 \o C)[i]
    BY <1>1, <1>10
  <2>2. s7 \in Seq(Int) /\ C \in Seq(Int) /\ L \in Seq(Int)
    BY <1>2, <1>9, <1>10
  <2> QED  BY <2>1, <2>2, StaysInPlace
<1>12. /\ Len(s6) <= Len(L) /\ \A i \in 1..Len(s6) : L[i] = s6[i]
       /\ \A k \in 1..Len(P) : L[Len(s6) + k] = P[k]
  <2>1. Len(s6) + Len(P) <= Len(L) /\ \A i \in 1..(Len(s6) + Len(P)) : L[i] = (s6 \o P)[i]
    BY <1>3, <1>9, <1>11 DEF s7
  <2>2. s6 \in Seq(Int) /\ P \in Seq(Int) /\ L \in Seq(Int)
    BY <1>3, <1>8, <1>10
  <2> QED  BY <2>1, <2>2, StaysInPlace
<1>13. /\ Len(s5) <= Len(L) /\ \A i \in 1..Len(s5) : L[i] = s5[i]
       /\ \A k \in 1..Len(M) : L[Len(s5) + k] = M[k]
  <2>1. Len(s5) + Len(M) <= Len(L) /\ \A i \in 1..(Len(s5) + Len(M)) : L[i] = (s5 \o M)[i]
    BY <1>3, <1>8, <1>12 DEF s6
  <2>2. s5 \in Seq(Int) /\ M \in Seq(Int) /\ L \in Seq(Int)
    BY <1>3, <1>7, <1>10
  <2> QED  BY <2>1, <2>2, StaysInPlace
<1>14. /\ Len(s4) <= Len(L) /\ \A i \in 1..Len(s4) : L[i] = s4[i]
       /\ \A k \in 1..Len(B) : L[Len(s4) + k] = B[k]
  <2>1. Len(s4) + Len(B) <= Len(L) /\ \A i \in 1..(Len(s4) + Len(B)) : L[i] = (s4 \o B)[i]
    BY <1>2, <1>7, <1>13 DEF s5
  <2>2. s4 \in Seq(Int) /\ B \in Seq(Int) /\ L \in Seq(Int)
    BY <1>2, <1>6, <1>10
  <2> QED  BY <2>1, <2>2, StaysInPlace
<1>15. /\ Len(s3) <= Len(L) /\ \A i \in 1..Len(s3) : L[i] = s3[i]
       /\ \A k \in 1..Len(Z) : L[Len(s3) + k] = Z[k]
  <2>1. Len(s3) + Len(Z) <= Len(L) /\ \A i \in 1..(Len(s3) + Len(Z)) : L[i] = (s3 \o Z)[i]
    BY <1>3, <1>6, <1>14 DEF s4
  <2>2. s3 \in Seq(Int) /\ Z \in Seq(Int) /\ L \in Seq(Int)
    BY <1>3, <1>5, <1>10
  <2> QED  BY <2>1, <2>2, StaysInPlace
<1>16. /\ Len(s2) <= Len(L) /\ \A i \in 1..Len(s2) : L[i] = s2[i]
       /\ \A k \in 1..Len(M) : L[Len(s2) + k] = M[k]
  <2>1. Len(s2) + Len(M) <= Len(L) /\ \A i \in 1..(Len(s2) + Len(M)) : L[i] = (s2 \o M)[i]
    BY <1>3, <1>5, <1>15 DEF s3
  <2>2. s2 \in Seq(Int) /\ M \in Seq(Int) /\ L \in Seq(Int)
    BY <1>3, <1>4, <1>10
  <2> QED  BY <2>1, <2>2, StaysInPlace
<1>17. /\ \A i \in 1..Len(S) : L[i] = S[i]
       /\ \A k \in 1..Len(A) : L[Len(S) + k] = A[k]
  <2>1. Len(S) + Len(A) <= Len(L) /\ \A i \in 1..(Len(S) + Len(A)) : L[i] = (S \o A)[i]
    BY <1>2, <1>3, <1>4, <1>16 DEF s2
  <2>2. S \in Seq(Int) /\ A \in Seq(Int) /\ L \in Seq(Int)
    BY <1>2, <1>3, <1>10
  <2> QED  BY <2>1, <2>2, StaysInPlace
<1>18. Len(A) \in Nat /\ Len(B) \in Nat /\ Len(C) \in Nat
  BY <1>2
<1>19. /\ Len(s2) = Len(A) + 1 /\ Len(s3) = Len(A) + 2 /\ Len(s4) = Len(A) + 3
       /\ Len(s5) = Len(A) + Len(B) + 3 /\ Len(s6) = Len(A) + Len(B) + 4
       /\ Len(s7) = Len(A) + Len(B) + 5 /\ Len(L) = Len(A) + Len(B) + Len(C) + 5
  BY <1>4, <1>5, <1>6, <1>7, <1>8, <1>9, <1>10, <1>18
<1>20. 1 \in 1..1
  OBVIOUS
<1>21. /\ L[1] = SHOUSUOYA /\ L[Len(s2) + 1] = MMHG /\ L[Len(s3) + 1] = SHUZHANGYA
       /\ L[Len(s5) + 1] = MMHG /\ L[Len(s6) + 1] = MAIBO
  BY <1>3, <1>12, <1>13, <1>15, <1>16, <1>17, <1>20
<1>22. /\ Len(s2) + 1 = Len(A) + 2 /\ Len(s3) + 1 = Len(A) + 3
       /\ Len(s5) + 1 = Len(A) + Len(B) + 4 /\ Len(s6) + 1 = Len(A) + Len(B) + 5
  BY <1>18, <1>19
<1>23. /\ \A k \in 1..Len(A) : L[1 + k] = A[k]
       /\ \A k \in 1..Len(B) : L[Len(A) + 3 + k] = B[k]
       /\ \A k \in 1..Len(C) : L[Len(A) + Len(B) + 5 + k] = C[k]
  BY <1>3, <1>11, <1>14, <1>17, <1>19
<1>24. LaidOut(L, A, B, C)
  BY <1>10, <1>19, <1>21, <1>22, <1>23 DEF LaidOut
<1> QED  BY <1>24 DEF A, B, C, L

\* The n tones after the only place l of a label, up to the next label or the end.
Follow(s, label, l, n) ==
    /\ l + n <= Len(s) /\ s[l] = label
    /\ \A i \in 1..Len(s) : s[i] = label => i = l
    /\ \A k \in 1..n : s[l + k] \notin {MMHG, MAIBO}
    /\ l + n < Len(s) => s[l + n + 1] \in {MMHG, MAIBO}

\* Those tones are the number of the label.
LEMMA NumberAt ==
    ASSUME NEW s \in Seq(Int), NEW label, NEW l \in 1..Len(s), NEW n \in Nat,
           Follow(s, label, l, n)
    PROVE  Number(s, label) = (l + 1)..(l + n)
<1>0. /\ l + n <= Len(s) /\ s[l] = label
      /\ \A i \in 1..Len(s) : s[i] = label => i = l
      /\ \A k \in 1..n : s[l + k] \notin {MMHG, MAIBO}
      /\ l + n < Len(s) => s[l + n + 1] \in {MMHG, MAIBO}
  BY DEF Follow
<1>1. Len(s) \in Nat /\ DOMAIN s = 1..Len(s)
  OBVIOUS
<1>2. ASSUME NEW i \in Number(s, label) PROVE i \in (l + 1)..(l + n)
  <2>1. PICK m \in 1..(i - 1) : s[m] = label /\ \A j \in (m + 1)..i : s[j] \notin {MMHG, MAIBO}
    BY DEF Number
  <2>2. i \in 1..Len(s)
    BY <1>1 DEF Number
  <2>3. m \in 1..Len(s)
    BY <1>1, <2>2
  <2>4. m = l
    BY <1>0, <2>1, <2>3
  <2>5. l + 1 <= i
    BY <2>2, <2>4
  <2>6. ASSUME i > l + n PROVE FALSE
    <3>1. l + n < Len(s) /\ l + n + 1 \in (m + 1)..i
      BY <1>0, <1>1, <2>2, <2>4, <2>6
    <3> QED  BY <1>0, <2>1, <3>1
  <2> QED  BY <2>2, <2>5, <2>6
<1>3. ASSUME NEW i \in (l + 1)..(l + n) PROVE i \in Number(s, label)
  <2>1. i \in 1..Len(s) /\ l \in 1..(i - 1)
    BY <1>0, <1>1
  <2>2. ASSUME NEW j \in (l + 1)..i PROVE s[j] \notin {MMHG, MAIBO}
    <3> DEFINE k == j - l
    <3>1. k \in 1..n /\ l + k = j
      BY <1>1
    <3> HIDE DEF k
    <3>2. s[l + k] \notin {MMHG, MAIBO}
      BY <1>0, <3>1
    <3> QED  BY <3>1, <3>2
  <2> QED  BY <1>0, <1>1, <2>1, <2>2 DEF Number
<1> QED  BY <1>2, <1>3

\* The list of a report says the reading, and playfilelist has room for it.
LEMMA ListIsSaid ==
    ASSUME NEW pulse \in Nat, NEW sbp \in Nat, NEW dbp \in Nat
    PROVE  LET L == make_voice_list(pulse, sbp, dbp)
           IN  /\ L \in Seq(Int) /\ Len(L) <= ListSize
               /\ Says(L, Number(L, SHOUSUOYA), sbp)
               /\ Says(L, Number(L, SHUZHANGYA), dbp)
               /\ Says(L, Number(L, MAIBO), pulse)
<1> DEFINE A == num_to_voice(sbp)
           B == num_to_voice(dbp)
           C == num_to_voice(pulse)
           L == make_voice_list(pulse, sbp, dbp)
           a == Len(A)
           b == Len(B)
           c == Len(C)
           words == (0..9) \cup {BAI, SHI}
<1>1. /\ a \in 0..5 /\ b \in 0..5 /\ c \in 0..5
      /\ \A k \in 1..a : A[k] \in words
      /\ \A k \in 1..b : B[k] \in words
      /\ \A k \in 1..c : C[k] \in words
  BY WordsOfNumber
<1>2. /\ L \in Seq(Int) /\ Len(L) = a + b + c + 5
      /\ L[1] = SHOUSUOYA
      /\ \A k \in 1..a : L[1 + k] = A[k]
      /\ L[a + 2] = MMHG
      /\ L[a + 3] = SHUZHANGYA
      /\ \A k \in 1..b : L[a + 3 + k] = B[k]
      /\ L[a + b + 4] = MMHG
      /\ L[a + b + 5] = MAIBO
      /\ \A k \in 1..c : L[a + b + 5 + k] = C[k]
  <2>1. LaidOut(L, A, B, C)
    BY ListLaidOut
  <2> HIDE DEF A, B, C, L
  <2> QED  BY <2>1 DEF LaidOut
<1> HIDE DEF A, B, C, L, a, b, c
<1>0. /\ a \in 0..5 /\ b \in 0..5 /\ c \in 0..5
      /\ L \in Seq(Int) /\ Len(L) = a + b + c + 5
  BY <1>1, <1>2
<1>3. /\ \A k \in 1..a : L[1 + k] \in words
      /\ \A k \in 1..b : L[a + 3 + k] \in words
      /\ \A k \in 1..c : L[a + b + 5 + k] \in words
  BY <1>1, <1>2
<1>4. ASSUME NEW i \in 1..Len(L)
      PROVE  \/ i = 1 /\ L[i] = SHOUSUOYA
             \/ i = a + 2 /\ L[i] = MMHG
             \/ i = a + 3 /\ L[i] = SHUZHANGYA
             \/ i = a + b + 4 /\ L[i] = MMHG
             \/ i = a + b + 5 /\ L[i] = MAIBO
             \/ L[i] \in words
  <2>1. CASE i \in 2..(a + 1)
    <3> DEFINE k == i - 1
    <3>1. k \in 1..a /\ 1 + k = i
      BY <1>1, <2>1
    <3> HIDE DEF k, words
    <3>2. L[1 + k] \in words
      BY <1>3, <3>1
    <3> QED  BY <3>1, <3>2
  <2>2. CASE i \in (a + 4)..(a + b + 3)
    <3> DEFINE k == i - (a + 3)
    <3>1. k \in 1..b /\ a + 3 + k = i
      BY <1>1, <2>2
    <3> HIDE DEF k, words
    <3>2. L[a + 3 + k] \in words
      BY <1>3, <3>1
    <3> QED  BY <3>1, <3>2
  <2>3. CASE i \in (a + b + 6)..(a + b + c + 5)
    <3> DEFINE k == i - (a + b + 5)
    <3>1. k \in 1..c /\ a + b + 5 + k = i
      BY <1>1, <2>3
    <3> HIDE DEF k, words
    <3>2. L[a + b + 5 + k] \in words
      BY <1>3, <3>1
    <3> QED  BY <3>1, <3>2
  <2>4. \/ i \in {1, a + 2, a + 3, a + b + 4, a + b + 5}
        \/ i \in 2..(a + 1)
        \/ i \in (a + 4)..(a + b + 3)
        \/ i \in (a + b + 6)..(a + b + c + 5)
    BY <1>1, <1>2
  <2> HIDE DEF words
  <2>5. CASE i \in {1, a + 2, a + 3, a + b + 4, a + b + 5}
    BY <1>2, <2>5
  <2> QED  BY <2>1, <2>2, <2>3, <2>4, <2>5
<1>5. /\ \A i \in 1..Len(L) : L[i] = SHOUSUOYA => i = 1
      /\ \A i \in 1..Len(L) : L[i] = SHUZHANGYA => i = a + 3
      /\ \A i \in 1..Len(L) : L[i] = MAIBO => i = a + b + 5
  <2>1. /\ SHOUSUOYA \notin words \cup {SHUZHANGYA, MAIBO, MMHG}
        /\ SHUZHANGYA \notin words \cup {SHOUSUOYA, MAIBO, MMHG}
        /\ MAIBO \notin words \cup {SHOUSUOYA, SHUZHANGYA, MMHG}
    BY DEF SHOUSUOYA, SHUZHANGYA, MAIBO, MMHG, BAI, SHI
  <2> HIDE DEF words
  <2> QED  BY <1>4, <2>1
<1>6. \A x \in words : x \notin {MMHG, MAIBO}
  BY DEF MMHG, MAIBO, BAI, SHI
<1>7. Len(L) <= ListSize
  BY <1>0 DEF ListSize
<1> HIDE DEF words
<1>8. Says(L, Number(L, SHOUSUOYA), sbp)
  <2>1. 1 \in 1..Len(L) /\ a \in Nat /\ 1 + a < Len(L) /\ 1 + a + 1 = a + 2
    BY <1>0
  <2>2. \A k \in 1..a : L[1 + k] \notin {MMHG, MAIBO}
    BY <1>3, <1>6
  <2>3. L[1 + a + 1] = MMHG
    BY <1>2, <2>1
  <2>4. Number(L, SHOUSUOYA) = (1 + 1)..(1 + a)
    <3>1. L[1] = SHOUSUOYA /\ L \in Seq(Int) /\ 1 + a <= Len(L)
      BY <1>2, <2>1
    <3>2. Follow(L, SHOUSUOYA, 1, a)
      BY <1>5, <2>1, <2>2, <2>3, <3>1 DEF Follow
    <3> QED  BY <2>1, <3>1, <3>2, NumberAt
  <2>5. Says(L, (1 + 1)..(1 + a), sbp)
    <3>1. /\ L \in Seq(Int) /\ 1 + Len(num_to_voice(sbp)) <= Len(L)
          /\ \A k \in 1..Len(num_to_voice(sbp)) : L[1 + k] = num_to_voice(sbp)[k]
          /\ L[1] # BAI
      BY <1>2, <2>1 DEF a, A, SHOUSUOYA, BAI
    <3>2. L[1 + Len(num_to_voice(sbp)) + 1] \notin {BAI, SHI}
      BY <2>3 DEF a, A, MMHG, BAI, SHI
    <3>3. Says(L, (1 + 1)..(1 + Len(num_to_voice(sbp))), sbp)
      BY <2>1, <3>1, <3>2, NumberIsSaid
    <3> QED  BY <3>3 DEF a, A
  <2> QED  BY <2>4, <2>5
<1>9. Says(L, Number(L, SHUZHANGYA), dbp)
  <2> DEFINE l == a + 3
  <2>1. l \in 1..Len(L) /\ b \in Nat /\ l + b < Len(L) /\ l + b + 1 = a + b + 4
    BY <1>0
  <2>2. L[l] = SHUZHANGYA /\ \A k \in 1..b : L[l + k] = B[k]
    BY <1>2
  <2>3. \A k \in 1..b : L[l + k] \notin {MMHG, MAIBO}
    BY <1>3, <1>6
  <2>4. \A i \in 1..Len(L) : L[i] = SHUZHANGYA => i = l
    BY <1>5
  <2> HIDE DEF l
  <2>5. L[l + b + 1] = MMHG
    BY <1>2, <2>1
  <2>6. Number(L, SHUZHANGYA) = (l + 1)..(l + b)
    <3>1. L \in Seq(Int) /\ l + b <= Len(L) /\ L[l] = SHUZHANGYA
      BY <1>0, <2>1, <2>2
    <3>2. l + b < Len(L) => L[l + b + 1] \in {MMHG, MAIBO}
      BY <2>5
    <3>3. l \in 1..Len(L) /\ b \in Nat
      BY <2>1
    <3>4. Follow(L, SHUZHANGYA, l, b)
      BY <2>3, <2>4, <3>1, <3>2, <3>3 DEF Follow
    <3> QED  BY <3>1, <3>3, <3>4, NumberAt
  <2>7. Says(L, (l + 1)..(l + b), dbp)
    <3>1. /\ L \in Seq(Int) /\ l + Len(num_to_voice(dbp)) <= Len(L)
          /\ \A k \in 1..Len(num_to_voice(dbp)) : L[l + k] = num_to_voice(dbp)[k]
          /\ L[l] # BAI
      BY <1>2, <2>1, <2>2 DEF b, B, SHUZHANGYA, BAI
    <3>2. L[l + Len(num_to_voice(dbp)) + 1] \notin {BAI, SHI}
      BY <2>5 DEF b, B, MMHG, BAI, SHI
    <3>3. Says(L, (l + 1)..(l + Len(num_to_voice(dbp))), dbp)
      BY <2>1, <3>1, <3>2, NumberIsSaid
    <3> QED  BY <3>3 DEF b, B
  <2> QED  BY <2>6, <2>7
<1>10. Says(L, Number(L, MAIBO), pulse)
  <2> DEFINE l == a + b + 5
  <2>1. l \in 1..Len(L) /\ c \in Nat /\ l + c = Len(L)
    BY <1>0
  <2>2. L[l] = MAIBO /\ \A k \in 1..c : L[l + k] = C[k]
    BY <1>2
  <2>3. \A k \in 1..c : L[l + k] \notin {MMHG, MAIBO}
    BY <1>3, <1>6
  <2>4. \A i \in 1..Len(L) : L[i] = MAIBO => i = l
    BY <1>5
  <2> HIDE DEF l
  <2>5. L \in Seq(Int) /\ l + c <= Len(L) /\ ~(l + c < Len(L))
    BY <1>2, <2>1
  <2>6. Number(L, MAIBO) = (l + 1)..(l + c)
    <3>1. L[l] = MAIBO
      BY <2>2
    <3>2. l + c < Len(L) => L[l + c + 1] \in {MMHG, MAIBO}
      BY <2>5
    <3>3. l \in 1..Len(L) /\ c \in Nat /\ L \in Seq(Int) /\ l + c <= Len(L)
      BY <2>1, <2>5
    <3>4. Follow(L, MAIBO, l, c)
      BY <2>3, <2>4, <3>1, <3>2, <3>3 DEF Follow
    <3> QED  BY <3>1, <3>3, <3>4, NumberAt
  <2>7. Says(L, (l + 1)..(l + c), pulse)
    <3>1. /\ L \in Seq(Int) /\ l + Len(num_to_voice(pulse)) <= Len(L)
          /\ ~(l + Len(num_to_voice(pulse)) < Len(L))
          /\ \A k \in 1..Len(num_to_voice(pulse)) : L[l + k] = num_to_voice(pulse)[k]
          /\ L[l] # BAI
      BY <2>2, <2>5 DEF c, C, MAIBO, BAI
    <3>2. Says(L, (l + 1)..(l + Len(num_to_voice(pulse))), pulse)
      BY <2>1, <3>1, NumberIsSaid
    <3> QED  BY <3>2 DEF c, C
  <2> QED  BY <2>6, <2>7
<1> QED  BY <1>2, <1>7, <1>8, <1>9, <1>10 DEF L

-----------------------------------------------------------------------------
(* The report is heard.                                                     *)

\* What playfilelist holds.
ListHeld ==
    /\ playfilelist \in Seq(Int) /\ Len(playfilelist) <= ListSize
    /\ Len(playfilelist) = allplayfile
    /\ reading # <<>> =>
          /\ reading \in Readings
          /\ playfilelist = make_voice_list(reading.pulse, reading.sbp, reading.dbp)

\* What has been heard of it: all before the tone the list is at, and that one once
\* it has begun to sound.
HeardSoFar ==
    /\ heard \in Seq(Int) /\ \A i \in 1..Len(heard) : heard[i] = playfilelist[i]
    /\ Len(heard) \in {currentfile, currentfile + 1}
    /\ Starting => Len(heard) = currentfile
    /\ Sounding \/ msgs > 0 => Len(heard) = currentfile + 1
    /\ currentfile >= allplayfile => Len(heard) = allplayfile

ReportInv == ListInv /\ ListHeld /\ HeardSoFar

\* The list of a reading, and that of the start, are lists the player counts.
LEMMA ReadingsFit ==
    ASSUME NEW r \in Readings
    PROVE  /\ r.pulse \in Nat /\ r.sbp \in Nat /\ r.dbp \in Nat
           /\ Len(make_voice_list(r.pulse, r.sbp, r.dbp)) \in Lengths
<1>1. r \in [pulse : Nat, sbp : Nat, dbp : Nat]
  BY VoiceReportAssumption
<1> QED  BY <1>1, VoiceReportAssumption

\* The tones of the start.
LEMMA StartFits ==
    /\ app_play_set_and_begin \in Seq(Int) /\ Len(app_play_set_and_begin) = 3
    /\ Len(app_play_set_and_begin) \in Lengths
<1>1. Len(app_play_set_and_begin) \in Lengths
  BY VoiceReportAssumption
<1>2. ATTENTION \in Int /\ REGISTER \in Int /\ BEGIN \in Int
  BY DEF ATTENTION, REGISTER, BEGIN
<1>3. app_play_set_and_begin \in Seq(Int) /\ Len(app_play_set_and_begin) = 3
  BY <1>2 DEF app_play_set_and_begin
<1> QED  BY <1>1, <1>3

\* A step of the report is one of the list player.
LEMMA ReportIsVoice == [ReportNext]_<<allVars, reportVars>> => [VoiceNext]_allVars
<1> SUFFICES ASSUME [ReportNext]_<<allVars, reportVars>> PROVE [VoiceNext]_allVars
  OBVIOUS
<1>1. ASSUME NEW r \in Readings, Plays(make_voice_list(r.pulse, r.sbp, r.dbp), r)
      PROVE  VoiceNext
  BY <1>1, ReadingsFit DEF Plays, VoiceNext, App
<1>2. CASE Plays(app_play_set_and_begin, <<>>)
  BY <1>2, StartFits DEF Plays, VoiceNext, App
<1>3. CASE Player_goes_on
  BY <1>3 DEF Player_goes_on, VoiceNext, App
<1>4. CASE UNCHANGED <<allVars, reportVars>>
  BY <1>4
<1> QED  BY <1>1, <1>2, <1>3, <1>4 DEF ReportNext

\* A new list is held and nothing of it has been heard.
LEMMA PlaysStep ==
    ASSUME ~Overlap, ReportInv, NEW list \in Seq(Int), NEW what,
           Plays(list, what), Len(list) \in Lengths, Len(list) <= ListSize,
           what # <<>> => /\ what \in Readings
                          /\ list = make_voice_list(what.pulse, what.sbp, what.dbp)
    PROVE  ListHeld' /\ HeardSoFar'
<1>1. /\ app_play_files(Len(list))
      /\ playfilelist' = list /\ reading' = what /\ heard' = <<>>
  BY DEF Plays
<1>2. msgs' = 0 /\ Starting' /\ ~Sounding' /\ currentfile' = 0 /\ allplayfile' = Len(list)
  BY <1>1, BeginMoves DEF ReportInv
<1>3. Len(list) > 0
  <2>1. IndexLimit \in Nat \ {0} /\ Lengths \subseteq 1..(IndexLimit - 1)
    BY VoicePlayerAssumption
  <2> QED  BY <2>1
<1>4. ListHeld'
  BY <1>1, <1>2 DEF ListHeld
<1>5. HeardSoFar'
  <2>1. heard' \in Seq(Int) /\ Len(heard') = 0
    BY <1>1, Silence
  <2> QED  BY <1>2, <1>3, <2>1 DEF HeardSoFar
<1> QED  BY <1>4, <1>5

\* Hearing a tone is its beginning to sound.
LEMMA HearsTheTone ==
    ASSUME ReportInv, QuietInv', Keeps \/ Sounds \/ Ends \/ Cuts
    PROVE  Hears <=> Sounds
<1>1. Starting => ~Sounding
  BY DEF ReportInv, ListInv, EndedInv
<1>2. Sounding' => play_status' = "MAD_PLAY"
  BY DEF QuietInv, Sounding
<1>3. play_status' = "MAD_PLAY" => Sounding'
  BY DEF Sounding
<1> QED  BY <1>1, <1>2, <1>3 DEF Hears, Keeps, Sounds, Ends, Cuts

\* A listener hears the tones that begin to sound.
Listens ==
    /\ UNCHANGED <<playfilelist, reading>>
    /\ heard' = IF Hears THEN Append(heard, playfilelist[currentfile + 1]) ELSE heard

\* Whatever becomes of the tone the list is at, what has been heard fits.
LEMMA MoveIsHeard ==
    ASSUME ReportInv, QuietInv', UNCHANGED voiceVars, Listens,
           Keeps \/ Sounds \/ Ends \/ Cuts
    PROVE  ListHeld' /\ HeardSoFar'
<1>1. UNCHANGED <<currentfile, allplayfile, playfilelist, reading>>
  BY DEF voiceVars, Listens
<1>2. ListHeld'
  BY <1>1 DEF ReportInv, ListHeld
<1>3. /\ msgs \in Nat /\ msgs <= 1
      /\ msgs > 0 => ~Starting /\ ~Sounding
      /\ Starting => ~Sounding
  BY DEF ReportInv, ListInv, IInv, TypeOK, StateOK, EndedInv
<1>4. /\ currentfile \in Nat /\ allplayfile \in Nat
      /\ Starting \/ Sounding \/ msgs > 0 => currentfile < allplayfile
  BY LengthsFit DEF ReportInv, ListInv, IndexInv, Playing
<1>5. /\ heard \in Seq(Int) /\ Len(heard) \in Nat
      /\ \A i \in 1..Len(heard) : heard[i] = playfilelist[i]
      /\ Len(heard) \in {currentfile, currentfile + 1}
      /\ Starting => Len(heard) = currentfile
      /\ Sounding \/ msgs > 0 => Len(heard) = currentfile + 1
      /\ currentfile >= allplayfile => Len(heard) = allplayfile
  BY DEF ReportInv, HeardSoFar
<1>6. Hears <=> Sounds
  BY HearsTheTone
<1>7. CASE Sounds
  <2>1. /\ heard' = Append(heard, playfilelist[currentfile + 1])
        /\ Starting /\ ~Starting' /\ Sounding' /\ msgs' = msgs
    BY <1>6, <1>7 DEF Sounds, Listens
  <2>2. Len(heard) = currentfile /\ currentfile < allplayfile
    BY <1>4, <1>5, <2>1
  <2>3. playfilelist \in Seq(Int) /\ Len(playfilelist) = allplayfile
    BY DEF ReportInv, ListHeld
  <2>4. currentfile + 1 \in 1..Len(playfilelist)
    BY <1>4, <2>2, <2>3
  <2>5. playfilelist[currentfile + 1] \in Int
    BY <2>3, <2>4
  <2>6. /\ heard' \in Seq(Int) /\ Len(heard') = Len(heard) + 1
        /\ \A i \in 1..Len(heard) : heard'[i] = heard[i]
        /\ heard'[Len(heard) + 1] = playfilelist[currentfile + 1]
    BY <1>5, <2>1, <2>5, AppendProperties
  <2>7. \A i \in 1..Len(heard') : heard'[i] = playfilelist'[i]
    BY <1>1, <1>5, <2>2, <2>6
  <2>8. Len(heard') = currentfile' + 1 /\ ~(currentfile' >= allplayfile')
    BY <1>1, <1>4, <2>2, <2>6
  <2> QED  BY <1>2, <2>1, <2>6, <2>7, <2>8 DEF HeardSoFar
<1>8. CASE ~Sounds
  <2>1. heard' = heard
    BY <1>6, <1>8 DEF Listens
  <2>2. Starting' => Starting
    BY <1>8 DEF Keeps, Ends, Cuts
  <2>3. Sounding' \/ msgs' > 0 => Sounding \/ msgs > 0
    BY <1>3, <1>8 DEF Keeps, Ends, Cuts
  <2>4. /\ heard' \in Seq(Int) /\ \A i \in 1..Len(heard') : heard'[i] = playfilelist'[i]
        /\ Len(heard') \in {currentfile', currentfile' + 1}
        /\ currentfile' >= allplayfile' => Len(heard') = allplayfile'
    BY <1>1, <1>5, <2>1
  <2>5. /\ Starting' => Len(heard') = currentfile'
        /\ Sounding' \/ msgs' > 0 => Len(heard') = currentfile' + 1
    BY <1>1, <1>5, <2>1, <2>2, <2>3
  <2> QED  BY <1>2, <2>4, <2>5 DEF HeardSoFar
<1> QED  BY <1>7, <1>8

\* When the list moves on, the tone it leaves has been heard.
LEMMA HandlerIsHeard ==
    ASSUME ~Overlap, ReportInv, app_msg_event_handler, Listens
    PROVE  ListHeld' /\ HeardSoFar'
<1>1. /\ msgs = 1 /\ msgs' = 0 /\ ~Sounding' /\ currentfile < allplayfile
      /\ currentfile' = currentfile + 1 /\ allplayfile' = allplayfile
  BY HandlerMoves DEF ReportInv
<1>2. heard' = heard /\ UNCHANGED <<playfilelist, reading>>
  BY <1>1 DEF Hears, Sounding, Listens
<1>3. currentfile \in Nat /\ allplayfile \in Nat
  BY LengthsFit DEF ReportInv, ListInv
<1>4. /\ heard \in Seq(Int) /\ \A i \in 1..Len(heard) : heard[i] = playfilelist[i]
      /\ Len(heard) = currentfile + 1
  BY <1>1 DEF ReportInv, HeardSoFar
<1>5. ListHeld'
  BY <1>1, <1>2 DEF ReportInv, ListHeld
<1>6. currentfile' >= allplayfile' => Len(heard') = allplayfile'
  BY <1>1, <1>2, <1>3, <1>4
<1>7. HeardSoFar'
  BY <1>1, <1>2, <1>4, <1>6 DEF HeardSoFar
<1> QED  BY <1>5, <1>7

\* Every step keeps the invariant of the report.
LEMMA ReportStep ==
    ASSUME ~Overlap, ReportInv,
           [ReportNext]_<<allVars, reportVars>>
    PROVE  ReportInv'
<1>1. ListInv' /\ QuietInv'
  BY ReportIsVoice, ListStep DEF ReportInv, ListInv
<1> SUFFICES ListHeld' /\ HeardSoFar'
  BY <1>1 DEF ReportInv
<1>2. ASSUME NEW r \in Readings, Plays(make_voice_list(r.pulse, r.sbp, r.dbp), r)
      PROVE  ListHeld' /\ HeardSoFar'
  <2> DEFINE list == make_voice_list(r.pulse, r.sbp, r.dbp)
  <2>1. r.pulse \in Nat /\ r.sbp \in Nat /\ r.dbp \in Nat /\ Len(list) \in Lengths
    BY ReadingsFit
  <2>2. list \in Seq(Int) /\ Len(list) <= ListSize
    BY <2>1, ListIsSaid
  <2>3. Plays(list, r)
    BY <1>2
  <2>4. r # <<>> => r \in Readings /\ list = make_voice_list(r.pulse, r.sbp, r.dbp)
    OBVIOUS
  <2> HIDE DEF list
  <2> QED  BY <2>1, <2>2, <2>3, <2>4, PlaysStep
<1>3. CASE Plays(app_play_set_and_begin, <<>>)
  <2>1. Len(app_play_set_and_begin) <= ListSize
    BY StartFits DEF ListSize
  <2> DEFINE list == app_play_set_and_begin
             what == <<>>
  <2>2. list \in Seq(Int) /\ Len(list) \in Lengths /\ Len(list) <= ListSize
    BY <2>1, StartFits
  <2>3. Plays(list, what)
    BY <1>3
  <2>4. what = <<>>
    OBVIOUS
  <2> HIDE DEF list, what
  <2> QED  BY <2>2, <2>3, <2>4, PlaysStep
<1>4. CASE Player_goes_on
  <2>1. Listens
    BY <1>4 DEF Player_goes_on, Listens
  <2>2. CASE Player
    <3>1. UNCHANGED voiceVars /\ (Keeps \/ Sounds \/ Ends \/ Cuts)
      BY <2>2, PlayerMoves DEF ReportInv, ListInv, Player
    <3> QED  BY <1>1, <2>1, <3>1, MoveIsHeard
  <2>3. CASE app_msg_event_handler
    BY <2>1, <2>3, HandlerIsHeard
  <2>4. CASE app_stop
    <3>1. UNCHANGED voiceVars /\ Keeps
      BY <2>4, StopMoves DEF ReportInv
    <3> QED  BY <1>1, <2>1, <3>1, MoveIsHeard
  <2> QED  BY <1>4, <2>2, <2>3, <2>4 DEF Player_goes_on
<1>5. CASE UNCHANGED <<allVars, reportVars>>
  <2>1. UNCHANGED reportVars /\ UNCHANGED <<currentfile, allplayfile, call, ret, msgs, play_status>>
    BY <1>5 DEF allVars, vars, voiceVars
  <2>2. (Starting' <=> Starting) /\ (Sounding' <=> Sounding)
    BY <2>1 DEF Starting, Sounding
  <2>3. UNCHANGED <<playfilelist, reading, heard, currentfile, allplayfile, msgs>>
    BY <2>1 DEF reportVars
  <2>4. ListHeld'
    BY <2>3 DEF ReportInv, ListHeld
  <2>5. HeardSoFar'
    BY <2>2, <2>3 DEF ReportInv, HeardSoFar
  <2> QED  BY <2>4, <2>5
<1> QED  BY <1>2, <1>3, <1>4, <1>5 DEF ReportNext

\* At first there is no list.
LEMMA ReportBegins == ReportInit => ReportInv
<1> SUFFICES ASSUME ReportInit PROVE ReportInv
  OBVIOUS
<1>1. /\ currentfile = 0 /\ allplayfile = 0 /\ call = "idle" /\ ret = "idle" /\ msgs = 0
      /\ play_status = "MAD_STOP" /\ playfilelist = <<>> /\ reading = <<>> /\ heard = <<>>
  BY DEF ReportInit, VoiceInit, Init
<1>2. ~Starting /\ ~Sounding
  BY <1>1 DEF Starting, Sounding, ToneLabels
<1>3. /\ playfilelist \in Seq(Int) /\ Len(playfilelist) = 0
      /\ heard \in Seq(Int) /\ Len(heard) = 0
  BY <1>1, Silence
<1>4. ListHeld
  BY <1>1, <1>3 DEF ListHeld, ListSize
<1>5. HeardSoFar
  BY <1>1, <1>2, <1>3 DEF HeardSoFar
<1> QED  BY <1>4, <1>5, ListInit DEF ReportInv, ReportInit

\* What was heard of a list that is over is the whole of it.
LEMMA AllIsHeard ==
    ASSUME ReportInv, currentfile >= allplayfile
    PROVE  heard = playfilelist
<1>1. /\ heard \in Seq(Int) /\ playfilelist \in Seq(Int)
      /\ Len(heard) = Len(playfilelist)
      /\ \A i \in 1..Len(heard) : heard[i] = playfilelist[i]
  BY DEF ReportInv, ListHeld, HeardSoFar
<1> QED  BY <1>1, SeqEqual

\* ReportIsHeard: when the list of a report is over, the tones that were heard say
\* the pressures and the pulse as they were measured, each digit at its weight and
\* none too many, for every reading; make_voice_list_and_play never writes past the
\* end of playfilelist.
THEOREM ReportSaysReading ==
    ASSUME ~Overlap PROVE ReportSpec => []ReportIsHeard
<1>1. ReportInv /\ [ReportNext]_<<allVars, reportVars>> => ReportInv'
  BY ReportStep
<1>2. ReportInv => ReportIsHeard
  <2> SUFFICES ASSUME ReportInv PROVE ReportIsHeard
    OBVIOUS
  <2>1. Len(playfilelist) <= ListSize
    BY DEF ReportInv, ListHeld
  <2>2. ASSUME reading # <<>>, currentfile >= allplayfile
        PROVE  /\ Says(heard, Number(heard, SHOUSUOYA), reading.sbp)
               /\ Says(heard, Number(heard, SHUZHANGYA), reading.dbp)
               /\ Says(heard, Number(heard, MAIBO), reading.pulse)
    <3>1. reading \in Readings
          /\ heard = make_voice_list(reading.pulse, reading.sbp, reading.dbp)
      BY <2>2, AllIsHeard DEF ReportInv, ListHeld
    <3>2. reading.pulse \in Nat /\ reading.sbp \in Nat /\ reading.dbp \in Nat
      BY <3>1, ReadingsFit
    <3> QED  BY <3>1, <3>2, ListIsSaid
  <2> QED  BY <2>1, <2>2 DEF ReportIsHeard
<1> QED  BY <1>1, <1>2, ReportBegins, PTL DEF ReportSpec

\* The report is a behaviour of the list player, so what holds of the player, that
\* it plays the tones in order and holds nothing when it is quiet, holds of the
\* report.
THEOREM ReportPlaysTheList == ReportSpec => VoiceSpec
BY ReportIsVoice, PTL DEF ReportSpec, ReportInit, VoiceSpec
=============================================================================
