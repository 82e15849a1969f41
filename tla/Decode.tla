------------------------------- MODULE Decode -------------------------------
(***************************************************************************)
(* The UMP3 tone player of apps/common/decode/decode.c.                    *)
(*                                                                         *)
(* Three contexts share decode_info on one core.  From low to high         *)
(* priority: the main loop, which runs the a_player_* functions; the       *)
(* software interrupt decode_run, which decodes one frame into the ring    *)
(* buffer decode_cbuf; and the audio (APA) interrupt decode_isr_callback,  *)
(* which drains the ring, asks for more frames and reports the end of the  *)
(* tone.  A higher context runs between any two steps of a lower one and   *)
(* a lower one waits until the higher ones have returned.                  *)
(*                                                                         *)
(* Audio data is abstracted to its amount.  The module is closed by the    *)
(* most general client: any legal order of calls of decode.h, in the main  *)
(* loop.                                                                   *)
(***************************************************************************)
EXTENDS Integers

CONSTANTS
    Threshold,  \* DEC_THRESHOLD_VALUE: the ring level that asks for a frame
    FrameLen,   \* what one call of ump3_ops->run writes into the ring
    CbufSize,   \* OBUF_SIZE: the capacity of the ring
    IsrLen,     \* what one APA interrupt wants to read
    MaxFrames,  \* bound on the number of frames of a tone
    MaxMsgs,    \* bound on the MSG_EVENT_DECODE_END the client leaves unread
    Fails,      \* the steps of a_player_tonebyindex that may fail
    Calls       \* the functions of decode.h the client uses

ASSUME DecodeAssumption ==
    /\ Threshold \in Nat \ {0} /\ FrameLen \in Nat \ {0}
    /\ CbufSize \in Nat /\ IsrLen \in Nat \ {0}
    /\ Threshold - 1 + FrameLen <= CbufSize
    /\ MaxFrames \in Nat /\ MaxMsgs \in Nat \ {0}

\* What a_player_tonebyindex acquires, and the order in which it is released.
Pointers == {"decode_fp", "ump3_decode_buf", "pcm_obuf", "rs_buf"}
Rank == [decode_fp |-> 1, ump3_decode_buf |-> 2, pcm_obuf |-> 3, rs_buf |-> 4]

VARIABLES
    init_ok,        \* decode_info.init_ok: the APA driver is open
    play_status,    \* decode_info.play_status
    decode_status,  \* decode_info.decode_status
    cbuf,           \* decode_cbuf.data_len
    left,           \* frames of the open tone that are not decoded yet
    mem,            \* each resource's pointer: null, live, or freed but kept
    swi,            \* the software interrupt is pending
    soft,           \* where decode_run is; "idle" when it is not running
    call,           \* where the main loop is in decode.c; "idle" outside it
    ret,            \* where a_player_stop or the release of buffers returns to
    msgs,           \* MSG_EVENT_DECODE_END in the event queue
    reported,       \* history: the end of the current tone has been reported
    doubleFree      \* history: the pointers that were freed twice

vars == <<init_ok, play_status, decode_status, cbuf, left, mem, swi, soft,
          call, ret, msgs, reported, doubleFree>>

PlayStatus == {"MAD_STOP", "MAD_PLAY", "MAD_PAUSE", "MAD_END"}
DecodeStatus == {"DEC_END", "DEC_ING"}

\* Where the main loop can be inside decode.c.
Labels == {"idle", "spin", "halt", "clear", "free", "close", "pause",
           "tone_dec", "tone_pcm", "tone_fopen", "tone_format", "tone_rs",
           "tone_ing", "tone_play"}

Init ==
    /\ init_ok = FALSE
    /\ play_status = "MAD_STOP"
    /\ decode_status = "DEC_END"
    /\ cbuf = 0
    /\ left = 0
    /\ mem = [r \in Pointers |-> "null"]
    /\ swi = FALSE
    /\ soft = "idle"
    /\ call = "idle"
    /\ ret = "idle"
    /\ msgs = 0
    /\ reported = TRUE
    /\ doubleFree = {}

-----------------------------------------------------------------------------
(* The APA interrupt.  While nothing plays it only zeroes its own buffer.   *)

Smaller(a, b) == IF a <= b THEN a ELSE b

\* How much of the ring one interrupt takes.
BufLen == Smaller(cbuf, IsrLen)

\* The tone is over: everything is decoded and the ring is used up.
ToneOver_anyUnderrun(n) == n = 0
ToneOver(n) == n = 0 /\ decode_status = "DEC_END"

ReportEnd_statusKept ==
    msgs' = msgs + 1 /\ reported' = TRUE /\ UNCHANGED play_status
ReportEnd ==
    msgs' = msgs + 1 /\ reported' = TRUE /\ play_status' = "MAD_END"

decode_isr_callback ==
    /\ init_ok
    /\ play_status = "MAD_PLAY"
    /\ cbuf' = cbuf - BufLen
    /\ swi' = (swi \/ (cbuf' < Threshold /\ decode_status = "DEC_ING"))
    /\ IF ToneOver(BufLen)
       THEN ReportEnd
       ELSE UNCHANGED <<play_status, msgs, reported>>
    /\ UNCHANGED <<init_ok, decode_status, left, mem, soft, call, ret, doubleFree>>

-----------------------------------------------------------------------------
(* The software interrupt decode_run, which the APA interrupt may preempt.  *)

decode_run_enter ==
    /\ swi /\ soft = "idle"
    /\ soft' = IF decode_status = "DEC_ING" THEN "run" ELSE "clear"
    /\ UNCHANGED <<init_ok, play_status, decode_status, cbuf, left, mem, swi,
                   call, ret, msgs, reported, doubleFree>>

\* ump3_ops->run writes one frame and returns 0, or finds the end of the file.
\* A frame that does not fit is cut by cbuf_write.
decode_run_frame ==
    /\ soft = "run"
    /\ IF left > 0
       THEN /\ left' = left - 1
            /\ cbuf' = Smaller(cbuf + FrameLen, CbufSize)
            /\ soft' = "clear"
       ELSE /\ soft' = "end"
            /\ UNCHANGED <<left, cbuf>>
    /\ UNCHANGED <<init_ok, play_status, decode_status, mem, swi, call, ret,
                   msgs, reported, doubleFree>>

decode_run_end_lost ==
    /\ soft = "end"
    /\ soft' = "clear"
    /\ UNCHANGED <<init_ok, play_status, decode_status, cbuf, left, mem, swi,
                   call, ret, msgs, reported, doubleFree>>

decode_run_end ==
    /\ soft = "end"
    /\ decode_status' = "DEC_END"
    /\ soft' = "clear"
    /\ UNCHANGED <<init_ok, play_status, cbuf, left, mem, swi, call, ret, msgs,
                   reported, doubleFree>>

decode_run_clear_missing ==
    /\ soft = "clear"
    /\ soft' = "idle"
    /\ UNCHANGED <<init_ok, play_status, decode_status, cbuf, left, mem, swi,
                   call, ret, msgs, reported, doubleFree>>

\* bit_clr_swi also drops a request made while decode_run was running.
decode_run_clear ==
    /\ soft = "clear"
    /\ swi' = FALSE
    /\ soft' = "idle"
    /\ UNCHANGED <<init_ok, play_status, decode_status, cbuf, left, mem, call,
                   ret, msgs, reported, doubleFree>>

decode_run ==
    decode_run_enter \/ decode_run_frame \/ decode_run_end \/ decode_run_clear

-----------------------------------------------------------------------------
(* The main loop.  It runs only when no interrupt is pending or running.    *)

At(label) == call = label /\ ~swi /\ soft = "idle"

\* Enter a_player_stop(wait), which goes on with `next`.  It returns at once
\* when nothing is open.
EnterStop(status, wait, next) ==
    IF status = "MAD_STOP"
    THEN call' = next /\ UNCHANGED ret
    ELSE /\ call' = IF wait THEN "spin" ELSE "halt"
         /\ ret' = next

a_player_stop(wait) ==
    /\ At("idle")
    /\ EnterStop(play_status, wait, "idle")
    /\ UNCHANGED <<init_ok, play_status, decode_status, cbuf, left, mem, swi,
                   soft, msgs, reported, doubleFree>>

\* while (wait && (play_status == MAD_PLAY));
stop_spin ==
    /\ At("spin")
    /\ play_status # "MAD_PLAY"
    /\ call' = "halt"
    /\ UNCHANGED <<init_ok, play_status, decode_status, cbuf, left, mem, swi,
                   soft, ret, msgs, reported, doubleFree>>

stop_halt_unset ==
    /\ At("halt")
    /\ call' = "clear"
    /\ UNCHANGED <<init_ok, play_status, decode_status, cbuf, left, mem, swi,
                   soft, ret, msgs, reported, doubleFree>>

stop_halt ==
    /\ At("halt")
    /\ play_status' = "MAD_STOP"
    /\ call' = "clear"
    /\ UNCHANGED <<init_ok, decode_status, cbuf, left, mem, swi, soft, ret,
                   msgs, reported, doubleFree>>

stop_clear ==
    /\ At("clear")
    /\ cbuf' = 0
    /\ call' = "free"
    /\ UNCHANGED <<init_ok, play_status, decode_status, left, mem, swi, soft,
                   ret, msgs, reported, doubleFree>>

\* Release what is held, one pointer a step.  a_player_stop and the error path
\* of a_player_tonebyindex do it in the same order.
Held_noResampler == {r \in Pointers \ {"rs_buf"} : mem[r] # "null"}
Held == {r \in Pointers : mem[r] # "null"}

\* The pointer is set to NULL once it is freed.
PointerAfterFree_kept == "freed"
PointerAfterFree == "null"

release ==
    /\ At("free")
    /\ IF Held = {}
       THEN /\ call' = ret
            /\ UNCHANGED <<mem, doubleFree>>
       ELSE \E r \in Held :
            /\ \A s \in Held : Rank[r] <= Rank[s]
            /\ mem' = [mem EXCEPT ![r] = PointerAfterFree]
            /\ doubleFree' = doubleFree \cup {p \in {r} : mem[p] = "freed"}
            /\ UNCHANGED call
    /\ UNCHANGED <<init_ok, play_status, decode_status, cbuf, left, swi, soft,
                   ret, msgs, reported>>

\* decode_init runs first; on its first call it opens the APA driver.
EnterTone ==
    LET status == IF init_ok THEN play_status ELSE "MAD_STOP"
    IN  /\ init_ok' = TRUE
        /\ play_status' = status
        /\ EnterStop(status, FALSE, "tone_dec")

a_player_tonebyindex ==
    /\ At("idle")
    /\ EnterTone
    /\ UNCHANGED <<decode_status, cbuf, left, mem, swi, soft, msgs, reported,
                   doubleFree>>

\* Acquire resource r at `label` and go on at `next`, or take the error path.
Acquire(label, r, next) ==
    /\ At(label)
    /\ \/ /\ mem' = [mem EXCEPT ![r] = "live"]
          /\ call' = next
          /\ UNCHANGED ret
       \/ /\ r \in Fails
          /\ call' = "free" /\ ret' = "idle"
          /\ UNCHANGED mem
    /\ UNCHANGED <<init_ok, play_status, decode_status, swi, soft, msgs,
                   reported, doubleFree>>

tone_dec ==
    /\ Acquire("tone_dec", "ump3_decode_buf", "tone_pcm")
    /\ UNCHANGED <<cbuf, left>>

\* cbuf_init follows the allocation of the ring.
tone_pcm ==
    /\ Acquire("tone_pcm", "pcm_obuf", "tone_fopen")
    /\ cbuf' = IF call' = "tone_fopen" THEN 0 ELSE cbuf
    /\ UNCHANGED left

tone_fopen ==
    /\ Acquire("tone_fopen", "decode_fp", "tone_format")
    /\ left' \in 0..MaxFrames
    /\ UNCHANGED cbuf

\* A failed format check frees the decoder's buffer and keeps the pointer.  The
\* second free, at line 433, is taken to leave the rest of the heap alone.
tone_format ==
    /\ At("tone_format")
    /\ \/ /\ call' = "tone_rs"
          /\ UNCHANGED <<mem, ret>>
       \/ /\ "format" \in Fails
          /\ mem' = [mem EXCEPT !["ump3_decode_buf"] = "freed"]
          /\ call' = "free" /\ ret' = "idle"
    /\ UNCHANGED <<init_ok, play_status, decode_status, cbuf, left, swi, soft,
                   msgs, reported, doubleFree>>

\* A tone whose sample rate is not the DAC's needs a resampler.
tone_rs ==
    /\ At("tone_rs")
    /\ \/ /\ call' = "tone_ing"
          /\ \/ mem' = [mem EXCEPT !["rs_buf"] = "live"]
             \/ UNCHANGED mem
          /\ UNCHANGED ret
       \/ /\ \/ /\ "rs_buf" \in Fails
                /\ UNCHANGED mem
             \/ /\ "rs_open" \in Fails
                /\ mem' = [mem EXCEPT !["rs_buf"] = "live"]
          /\ call' = "free" /\ ret' = "idle"
    /\ UNCHANGED <<init_ok, play_status, decode_status, cbuf, left, swi, soft,
                   msgs, reported, doubleFree>>

tone_ing ==
    /\ At("tone_ing")
    /\ decode_status' = "DEC_ING"
    /\ call' = "tone_play"
    /\ UNCHANGED <<init_ok, play_status, cbuf, left, mem, swi, soft, ret, msgs,
                   reported, doubleFree>>

tone_play ==
    /\ At("tone_play")
    /\ play_status' = "MAD_PLAY"
    /\ reported' = FALSE
    /\ call' = "idle"
    /\ UNCHANGED <<init_ok, decode_status, cbuf, left, mem, swi, soft, ret,
                   msgs, doubleFree>>

\* a_player_pause tests play_status and then stores to it; the APA interrupt
\* can end the tone in between.
a_player_pause ==
    /\ At("idle")
    /\ \/ /\ play_status = "MAD_PAUSE"
          /\ play_status' = "MAD_PLAY"
          /\ UNCHANGED call
       \/ /\ play_status = "MAD_PLAY"
          /\ call' = "pause"
          /\ UNCHANGED play_status
    /\ UNCHANGED <<init_ok, decode_status, cbuf, left, mem, swi, soft, ret,
                   msgs, reported, doubleFree>>

pause_store ==
    /\ At("pause")
    /\ play_status' = "MAD_PAUSE"
    /\ call' = "idle"
    /\ UNCHANGED <<init_ok, decode_status, cbuf, left, mem, swi, soft, ret,
                   msgs, reported, doubleFree>>

decode_uninit ==
    /\ At("idle")
    /\ init_ok
    /\ EnterStop(play_status, FALSE, "close")
    /\ UNCHANGED <<init_ok, play_status, decode_status, cbuf, left, mem, swi,
                   soft, msgs, reported, doubleFree>>

\* decode_drv->close() and unrequest_irq: no more interrupts.
uninit_close ==
    /\ At("close")
    /\ init_ok' = FALSE
    /\ call' = "idle"
    /\ UNCHANGED <<play_status, decode_status, cbuf, left, mem, swi, soft, ret,
                   msgs, reported, doubleFree>>

\* The steps of a call of decode.c that is in progress.
Proceed ==
    \/ stop_spin \/ stop_halt \/ stop_clear \/ release
    \/ tone_dec \/ tone_pcm \/ tone_fopen \/ tone_format \/ tone_rs
    \/ tone_ing \/ tone_play \/ pause_store \/ uninit_close

-----------------------------------------------------------------------------
(* The most general client.                                                 *)

\* sys_event_get hands the event to a main loop that ignores it.
ReadMsg ==
    /\ At("idle")
    /\ msgs > 0
    /\ msgs' = msgs - 1
    /\ UNCHANGED <<init_ok, play_status, decode_status, cbuf, left, mem, swi,
                   soft, call, ret, reported, doubleFree>>

Client ==
    \/ "tone" \in Calls /\ msgs < MaxMsgs /\ a_player_tonebyindex
    \/ "pause" \in Calls /\ msgs < MaxMsgs /\ a_player_pause
    \/ "stop" \in Calls /\ \E wait \in BOOLEAN : a_player_stop(wait)
    \/ "uninit" \in Calls /\ decode_uninit
    \/ ReadMsg

Next == decode_isr_callback \/ decode_run \/ Proceed \/ Client

\* The hardware keeps raising the APA interrupt, a pending software interrupt
\* is taken, and the main loop does not stop inside decode.c.
Fairness ==
    /\ WF_vars(decode_isr_callback)
    /\ WF_vars(decode_run)
    /\ WF_vars(Proceed)

Spec == Init /\ [][Next]_vars
FairSpec == Spec /\ Fairness

-----------------------------------------------------------------------------
(* Properties.                                                              *)

FlagsOK ==
    /\ init_ok \in BOOLEAN
    /\ swi \in BOOLEAN
    /\ reported \in BOOLEAN

StateOK ==
    /\ play_status \in PlayStatus
    /\ decode_status \in DecodeStatus
    /\ cbuf \in 0..CbufSize
    /\ left \in 0..MaxFrames
    /\ mem \in [Pointers -> {"null", "live", "freed"}]
    /\ soft \in {"idle", "run", "end", "clear"}
    /\ call \in Labels
    /\ ret \in {"idle", "tone_dec", "close"}
    /\ msgs \in Nat
    /\ doubleFree \subseteq Pointers

TypeOK == FlagsOK /\ StateOK

Playable == {"decode_fp", "ump3_decode_buf", "pcm_obuf"}

\* An interrupt never touches memory that the main loop has released or not
\* yet acquired: the ring is live whenever decode_isr_callback may read it, and
\* the file and both buffers are live whenever decode_run may decode.
InterruptsUseLiveMemory ==
    /\ play_status = "MAD_PLAY" => mem["pcm_obuf"] = "live"
    /\ (soft = "run" \/ (soft = "idle" /\ swi /\ decode_status = "DEC_ING"))
         => \A r \in Playable : mem[r] = "live"

\* decode_run never loses samples: when it decodes a frame the ring has room
\* for all of it, however the two interrupts and the main loop interleave.
FrameFits == soft = "run" => cbuf + FrameLen <= CbufSize

\* The player leaks nothing: back in the main loop with the player stopped,
\* after a normal end, a stop or a failure at any step, no resource is held.
StoppedHoldsNothing ==
    call = "idle" /\ play_status = "MAD_STOP" => \A r \in Pointers : mem[r] = "null"

\* decode.c:315 and 427: what is held is released exactly once, whatever fails and
\* whenever the player is stopped: but for the decoder's buffer, which a failed
\* format check frees at line 391 and the error path frees again.
FreedOnce ==
    doubleFree \subseteq IF "format" \in Fails THEN {"ump3_decode_buf"} ELSE {}

\* The end of a tone is reported only after its last frame was decoded and its
\* last sample was taken out of the ring.
ReportedEndIsComplete ==
    [][msgs' > msgs => left = 0 /\ cbuf = 0 /\ decode_status = "DEC_END"]_vars

\* MSG_EVENT_DECODE_END is sent at most once for a tone.
EndReportedOnce == [][msgs' > msgs => ~reported]_vars

\* a_player_stop(1) does not hang the main loop: a tone that plays comes to its
\* end, the wait is over and the player is released.
StopReturns == call = "spin" ~> call = "idle"
=============================================================================
