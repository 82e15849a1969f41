-------------------------------- MODULE GpAdc --------------------------------
(***************************************************************************)
(* cpu/cd09/gpadc.c in CPU mode: a queue of channels that a 10 ms timer    *)
(* interrupt begins to scan and the converter's interrupt carries on, while *)
(* the main loop adds and removes channels, reads a channel by polling,    *)
(* switches the clock and enters and leaves single-channel DMA mode.       *)
(*                                                                         *)
(* Interrupts run between any two steps of the main loop and not inside    *)
(* one another.  A sample is the channel it was taken from: the properties *)
(* are about whose sample is returned, not about its value.                *)
(***************************************************************************)
EXTENDS Integers

CONSTANTS
    Channels,       \* enum AD_CH
    Vbg,            \* AD_ANA_PMU_CH_VBG, which adc_init adds and nobody removes
    Removable,      \* the channels that callers remove
    None,           \* no channel, no sample
    Length,         \* ADC_MAX_CH; 10 in the code
    Times,          \* samples of a polled read; 8 in the callers
    DmaRuns         \* whether DMA mode is used beside CPU mode

ASSUME GpAdcAssumption ==
    /\ Vbg \in Channels /\ None \notin Channels
    /\ Removable \subseteq Channels \ {Vbg}
    /\ Length \in Nat \ {0} /\ Times \in Nat \ {0}

ASSUME GpAdcFlags == DmaRuns \in BOOLEAN

Slots == 0..(Length - 1)

VARIABLES
    queued,         \* adc_queue[i].ch
    adc_value,      \* adc_queue[i].adc_value
    adc_vbg,        \* the sample that every voltage is computed from
    cur_ch,         \* the slot being converted, Length between scans
    blocking,
    dma_conti_mode,
    init_ok,
    mux,            \* the selected channel
    pend,           \* ADC_CON bit 15: the conversion is over
    ie,             \* ADC_CON bit 13: and interrupts
    res,            \* JL_ADC->RES
    pc,             \* where the main loop is in an operation; "idle" outside
    want, left, got \* of a polled read: its channel, the samples to come, and
                    \* those it has added up

hardware == <<mux, pend, ie, res>>
polled == <<want, left, got>>
vars == <<queued, adc_value, adc_vbg, cur_ch, blocking, dma_conti_mode, init_ok,
          hardware, pc, polled>>

-----------------------------------------------------------------------------
(* Scanning.                                                                *)

\* The slots that are still to be scanned.
Ahead == {i \in Slots : queued[i] # None /\ (cur_ch = Length \/ i > cur_ch)}
Ahead_skip == {i \in Slots : queued[i] # None /\ (cur_ch = Length \/ i > cur_ch + 1)}

adc_get_next_ch_skips ==
    IF Ahead_skip = {} THEN Length
    ELSE CHOOSE i \in Ahead_skip : \A j \in Ahead_skip : i <= j
adc_get_next_ch ==
    IF Ahead = {} THEN Length ELSE CHOOSE i \in Ahead : \A j \in Ahead : i <= j

\* Go on to the next slot, or end the scan.
NextSample ==
    /\ cur_ch' = adc_get_next_ch
    /\ IF adc_get_next_ch < Length
       THEN mux' = queued[adc_get_next_ch] /\ pend' = FALSE /\ ie' = TRUE
       ELSE ie' = FALSE /\ UNCHANGED <<mux, pend>>
    /\ UNCHANGED res

\* The timer's interrupt.
ScanAllowed_always == TRUE
ScanAllowed == ~blocking /\ ~dma_conti_mode

adc_scan ==
    /\ init_ok /\ cur_ch = Length /\ ScanAllowed
    /\ Ahead # {}
    /\ NextSample
    /\ UNCHANGED <<queued, adc_value, adc_vbg, blocking, dma_conti_mode, init_ok, pc, polled>>

\* The converter's interrupt, which DMA mode shares: it looks at bit 15 whether
\* or not the interrupt of CPU mode is enabled.
Stored_late == adc_get_next_ch
Stored == cur_ch

adc_isr ==
    /\ init_ok /\ pend
    /\ ie \/ DmaRuns
    /\ IF dma_conti_mode \/ blocking
       THEN ie' = FALSE /\ UNCHANGED <<mux, pend, res, cur_ch, adc_value, adc_vbg>>
       ELSE /\ IF Stored < Length
               THEN /\ adc_value' = [adc_value EXCEPT ![Stored] = res]
                    /\ adc_vbg' = IF queued[Stored] = Vbg THEN res ELSE adc_vbg
               ELSE UNCHANGED <<adc_value, adc_vbg>>
            /\ NextSample
    /\ UNCHANGED <<queued, blocking, dma_conti_mode, init_ok, pc, polled>>

\* The converter ends the conversion that clearing bit 15 has begun.
Convert ==
    /\ init_ok /\ ~pend
    /\ pend' = TRUE
    /\ res' = mux
    /\ UNCHANGED <<queued, adc_value, adc_vbg, cur_ch, blocking, dma_conti_mode, init_ok,
                  mux, ie, pc, polled>>

-----------------------------------------------------------------------------
(* The queue.                                                               *)

\* The queue after adding c: nothing changes if c comes before the first free
\* slot or if there is none.
First(S) == {i \in S : \A j \in S : i <= j}
Added(c) == [i \in Slots |-> IF i \in First({j \in Slots : queued[j] \in {c, None}})
                             THEN c ELSE queued[i]]

adc_add_sample_ch(c) ==
    /\ pc = "idle" /\ init_ok
    /\ queued' = Added(c)
    /\ UNCHANGED <<adc_value, adc_vbg, cur_ch, blocking, dma_conti_mode, init_ok, hardware,
                  pc, polled>>

adc_remove_sample_ch(c) ==
    /\ pc = "idle" /\ init_ok
    /\ queued' = [i \in Slots |-> IF i \in First({j \in Slots : queued[j] = c})
                                  THEN None ELSE queued[i]]
    /\ UNCHANGED <<adc_value, adc_vbg, cur_ch, blocking, dma_conti_mode, init_ok, hardware,
                  pc, polled>>

\* The sample of the first slot that holds c.
adc_get_value(c) ==
    IF \E i \in Slots : queued[i] = c
    THEN adc_value[CHOOSE i \in First({j \in Slots : queued[j] = c}) : TRUE]
    ELSE None

-----------------------------------------------------------------------------
(* Operations of the main loop that take several steps.                     *)

\* From one step to the next.
Go(from, to) == pc = from /\ pc' = to
Scan == <<queued, adc_value, adc_vbg, init_ok>>

\* adc_get_value_by_blocking: stop the scan, select the channel, convert and
\* poll, and let the timer scan from the start again.
adc_get_value_by_blocking(c) ==
    /\ init_ok /\ ~dma_conti_mode
    /\ Go("idle", "block_ie")
    /\ blocking' = TRUE
    /\ want' = c /\ left' = Times /\ got' = {}
    /\ UNCHANGED <<Scan, cur_ch, dma_conti_mode, hardware>>

block_ie ==
    /\ Go("block_ie", "block_select")
    /\ ie' = FALSE
    /\ UNCHANGED <<Scan, cur_ch, blocking, dma_conti_mode, mux, pend, res, polled>>

block_select ==
    /\ Go("block_select", "block_start")
    /\ mux' = want
    /\ UNCHANGED <<Scan, cur_ch, blocking, dma_conti_mode, ie, pend, res, polled>>

block_start ==
    /\ Go("block_start", "block_wait")
    /\ pend' = FALSE
    /\ UNCHANGED <<Scan, cur_ch, blocking, dma_conti_mode, mux, ie, res, polled>>

MoreSamples == left > 1

block_wait ==
    /\ pend
    /\ Go("block_wait", IF MoreSamples THEN "block_start" ELSE "unblock")
    /\ left' = left - 1
    /\ got' = got \cup {res}
    /\ UNCHANGED <<Scan, cur_ch, blocking, dma_conti_mode, hardware, want>>

unblock ==
    /\ Go("unblock", "reset")
    /\ blocking' = FALSE
    /\ UNCHANGED <<Scan, cur_ch, dma_conti_mode, hardware, polled>>

Reset_not == cur_ch
Reset == Length

reset ==
    /\ Go("reset", "idle")
    /\ cur_ch' = Reset
    /\ want' = None /\ left' = 0 /\ got' = {}
    /\ UNCHANGED <<Scan, blocking, dma_conti_mode, hardware>>

\* clock_critical_enter and clock_critical_exit around a change of the clock.
clock_critical_enter ==
    /\ init_ok
    /\ Go("idle", "clock_ie")
    /\ blocking' = TRUE
    /\ UNCHANGED <<Scan, cur_ch, dma_conti_mode, hardware, polled>>

clock_ie ==
    /\ Go("clock_ie", "clock_wait")
    /\ ie' = FALSE
    /\ UNCHANGED <<Scan, cur_ch, blocking, dma_conti_mode, mux, pend, res, polled>>

clock_wait ==
    /\ pend
    /\ Go("clock_wait", "unblock")
    /\ UNCHANGED <<Scan, cur_ch, blocking, dma_conti_mode, hardware, polled>>

\* adc_dma_enter_single_ch_sample.  Without memory it returns with the mode set.
adc_dma_enter_single_ch_sample ==
    /\ init_ok /\ ~dma_conti_mode
    /\ Go("idle", "enter_ie")
    /\ dma_conti_mode' = TRUE
    /\ UNCHANGED <<Scan, cur_ch, blocking, hardware, polled>>

enter_ie ==
    /\ \/ Go("enter_ie", "enter_wait") /\ ie' = FALSE
       \/ Go("enter_ie", "idle") /\ UNCHANGED ie
    /\ UNCHANGED <<Scan, cur_ch, blocking, dma_conti_mode, mux, pend, res, polled>>

enter_wait ==
    /\ pend
    /\ Go("enter_wait", "idle")
    /\ UNCHANGED <<Scan, cur_ch, blocking, dma_conti_mode, hardware, polled>>

adc_dma_exit_single_ch_sample ==
    /\ init_ok
    /\ Go("idle", "reset")
    /\ dma_conti_mode' = FALSE
    /\ UNCHANGED <<Scan, cur_ch, blocking, hardware, polled>>

\* adc_init begins the first scan, adc_uninit stops the converter and the timer.
\* The queue outlives both.
adc_init ==
    /\ pc = "idle" /\ ~init_ok
    /\ init_ok' = TRUE
    /\ queued' = Added(Vbg)
    /\ pend' = FALSE
    /\ IF ScanAllowed
       THEN cur_ch' = 0 /\ mux' = Vbg /\ ie' = TRUE
       ELSE cur_ch' = Length /\ UNCHANGED <<mux, ie>>
    /\ UNCHANGED <<adc_value, adc_vbg, blocking, dma_conti_mode, res, pc, polled>>

adc_uninit ==
    /\ pc = "idle" /\ init_ok
    /\ init_ok' = FALSE
    /\ pend' = FALSE /\ ie' = FALSE
    /\ UNCHANGED <<queued, adc_value, adc_vbg, cur_ch, blocking, dma_conti_mode, mux, res,
                  pc, polled>>
-----------------------------------------------------------------------------
Init ==
    /\ queued = [i \in Slots |-> None]
    /\ adc_value = [i \in Slots |-> None]
    /\ adc_vbg = None
    /\ cur_ch = 0
    /\ blocking = FALSE /\ dma_conti_mode = FALSE /\ init_ok = FALSE
    /\ mux = Vbg /\ pend = FALSE /\ ie = FALSE /\ res = None
    /\ pc = "idle"
    /\ want = None /\ left = 0 /\ got = {}

Interrupts == adc_scan \/ adc_isr \/ Convert
Steps == block_ie \/ block_select \/ block_start \/ block_wait \/ unblock \/ reset
            \/ clock_ie \/ clock_wait \/ enter_ie \/ enter_wait
Calls ==
    \/ \E c \in Channels : adc_add_sample_ch(c) \/ adc_get_value_by_blocking(c)
    \/ \E c \in Removable : adc_remove_sample_ch(c)
    \/ clock_critical_enter
    \/ adc_dma_enter_single_ch_sample
    \/ adc_dma_exit_single_ch_sample
    \/ adc_init
    \/ adc_uninit

Next == Interrupts \/ Steps \/ Calls

\* The hardware converts and interrupts, and an operation that has begun goes on.
Fairness ==
    /\ WF_vars(Convert) /\ WF_vars(adc_scan) /\ WF_vars(adc_isr)
    /\ WF_vars(Steps)

Spec == Init /\ [][Next]_vars
FairSpec == Spec /\ Fairness

-----------------------------------------------------------------------------
(* Properties.                                                              *)

Labels == {"idle", "block_ie", "block_select", "block_start", "block_wait", "unblock",
           "reset", "clock_ie", "clock_wait", "enter_ie", "enter_wait"}
Samples == Channels \cup {None}

TypeOK ==
    /\ queued \in [Slots -> Samples] /\ adc_value \in [Slots -> Samples]
    /\ adc_vbg \in Samples
    /\ cur_ch \in 0..Length
    /\ blocking \in BOOLEAN /\ dma_conti_mode \in BOOLEAN /\ init_ok \in BOOLEAN
    /\ mux \in Samples /\ pend \in BOOLEAN /\ ie \in BOOLEAN /\ res \in Samples
    /\ pc \in Labels
    /\ want \in Samples /\ left \in 0..Times /\ got \subseteq Samples

\* gpadc.c:54: the sample that every voltage is computed from is one of Vbg,
\* whatever interrupts a scan and wherever it is interrupted.
VbgIsVbg == adc_vbg \in {None, Vbg}

\* A channel is never reported with another one's sample, unless that other one
\* has been removed and left its slot and its sample to it.
SamplesAreOwn ==
    /\ VbgIsVbg
    /\ \A i \in Slots : queued[i] # None =>
            adc_value[i] \in {None, queued[i]} \cup Removable

\* A polled read adds up samples of its own channel only.
PolledIsOwn == got \subseteq {want}

\* A scan that is under way outside an operation has its interrupt enabled, so
\* that it goes on: the timer does not start one while it lasts.
ScanGoesOn ==
    init_ok /\ pc = "idle" /\ ~dma_conti_mode /\ cur_ch < Length => ie

\* Once the main loop leaves the converter alone, every queued channel gets and
\* keeps a sample of its own.
Settled == init_ok /\ pc = "idle" /\ ~dma_conti_mode
EveryChannelSampled ==
    \A c \in Channels :
        <>[](Settled /\ \E i \in Slots : queued[i] = c) => <>[](adc_get_value(c) = c)
=============================================================================
