----------------------------- MODULE GpAdcProofs -----------------------------
(***************************************************************************)
(* Proofs about GpAdc for every set of channels, every length of the queue *)
(* and every number of polled samples.                                     *)
(*                                                                         *)
(* The main loop takes the converter away from the interrupts by setting   *)
(* `blocking` and by disabling the interrupt, in two steps, and gives it   *)
(* back in two others.  The invariant says what each interrupt may find in *)
(* between.                                                                *)
(***************************************************************************)
EXTENDS GpAdc, WellFoundedInduction, TLAPS

USE DEF Go, Scan, hardware, polled

\* Where the main loop has taken the converter.
Taken == {"block_ie", "block_select", "block_start", "block_wait", "unblock",
          "clock_ie", "clock_wait"}

Flags ==
    /\ blocking \in BOOLEAN /\ dma_conti_mode \in BOOLEAN /\ init_ok \in BOOLEAN
    /\ pend \in BOOLEAN /\ ie \in BOOLEAN

Types ==
    /\ queued \in [Slots -> Samples] /\ adc_value \in [Slots -> Samples]
    /\ adc_vbg \in Samples
    /\ cur_ch \in 0..Length
    /\ mux \in Channels /\ res \in Samples
    /\ pc \in Labels
    /\ want \in Samples /\ left \in 0..Times /\ got \subseteq Samples
    /\ pc \in {"block_ie", "block_select", "block_start", "block_wait"} =>
            left > 0 /\ want # None

\* The converter during a polled read.
PolledInv ==
    /\ blocking <=> pc \in Taken
    /\ pc \in {"block_start", "block_wait"} => mux = want
    /\ pc = "block_wait" /\ pend => res = want
    /\ got \subseteq {want}
    /\ pc \in {"enter_ie", "enter_wait"} => dma_conti_mode

\* The reference is in slot 0 and nowhere else.
VbgInv ==
    /\ queued[0] \in {Vbg, None}
    /\ init_ok => queued[0] = Vbg
    /\ \A i \in Slots : queued[i] = Vbg => i = 0

IInv == Flags /\ Types /\ PolledInv /\ VbgInv /\ ScanGoesOn

-----------------------------------------------------------------------------
(* Helpers.                                                                 *)

LEMMA SlotsNat == Slots \subseteq Nat /\ 0 \in Slots /\ Length \in Nat
BY GpAdcAssumption DEF Slots

\* A nonempty set of slots has a first one.
LEMMA FirstExists ==
    ASSUME NEW S, S \subseteq Slots, S # {}
    PROVE  \E i \in S : \A j \in S : i <= j
<1>1. PICK i \in S : \A j \in S : ~(<<j, i>> \in OpToRel(<, Nat))
    BY SlotsNat, NatLessThanWellFounded, WFMin
<1>2. \A j \in S : ~(j < i)
    BY <1>1, SlotsNat DEF OpToRel
<1> QED
    BY <1>2, SlotsNat

\* The next slot to be scanned comes after the current one and holds a channel.
LEMMA NextSlot ==
    /\ adc_get_next_ch \in 0..Length
    /\ adc_get_next_ch < Length => /\ adc_get_next_ch \in Slots
                                   /\ queued[adc_get_next_ch] # None
<1>1. CASE Ahead = {}
    BY <1>1, GpAdcAssumption DEF adc_get_next_ch
<1>2. CASE Ahead # {}
    <2>1. \E i \in Ahead : \A j \in Ahead : i <= j
        BY <1>2, FirstExists DEF Ahead
    <2>2. adc_get_next_ch \in Ahead
        BY <1>2, <2>1 DEF adc_get_next_ch
    <2> QED
        BY <2>2, GpAdcAssumption DEF Ahead, Slots
<1> QED
    BY <1>1, <1>2

-----------------------------------------------------------------------------
(* The interrupts.                                                          *)

LEMMA adc_scan_Inv == ASSUME IInv, adc_scan PROVE IInv'
<1>1. Flags'
    BY DEF IInv, Flags, adc_scan, ScanAllowed, NextSample
<1>2. Types'
    BY NextSlot DEF IInv, Types, Labels, Samples, adc_scan, ScanAllowed, NextSample
<1>3. PolledInv'
    BY DEF IInv, PolledInv, Taken, adc_scan, ScanAllowed, NextSample
<1>4. VbgInv'
    BY DEF IInv, VbgInv, adc_scan, ScanAllowed, NextSample
<1>5. ScanGoesOn'
    BY DEF IInv, ScanGoesOn, adc_scan, ScanAllowed, NextSample
<1> QED
    BY <1>1, <1>2, <1>3, <1>4, <1>5 DEF IInv

LEMMA adc_isr_Inv == ASSUME IInv, adc_isr PROVE IInv'
<1>1. Flags'
    BY DEF IInv, Flags, adc_isr, Stored, NextSample
<1>2. Types'
    BY NextSlot DEF IInv, Types, Labels, Samples, adc_isr, Stored, NextSample
<1>3. PolledInv'
    BY DEF IInv, PolledInv, Taken, adc_isr, Stored, NextSample
<1>4. VbgInv'
    BY DEF IInv, VbgInv, adc_isr, Stored, NextSample
<1>5. ScanGoesOn'
    BY NextSlot DEF IInv, ScanGoesOn, PolledInv, Taken, adc_isr, Stored, NextSample
<1> QED
    BY <1>1, <1>2, <1>3, <1>4, <1>5 DEF IInv

LEMMA Convert_Inv == ASSUME IInv, Convert PROVE IInv'
<1>1. Flags'
    BY DEF IInv, Flags, Convert
<1>2. Types'
    BY DEF IInv, Types, Labels, Samples, Convert
<1>3. PolledInv'
    BY DEF IInv, PolledInv, Taken, Convert
<1>4. VbgInv'
    BY DEF IInv, VbgInv, Convert
<1>5. ScanGoesOn'
    BY DEF IInv, ScanGoesOn, Convert
<1> QED
    BY <1>1, <1>2, <1>3, <1>4, <1>5 DEF IInv

-----------------------------------------------------------------------------
(* The queue.                                                               *)

\* Adding a channel puts the reference into slot 0 and nowhere else.
LEMMA AddedQueue ==
    ASSUME IInv, NEW c \in Channels
    PROVE  /\ Added(c) \in [Slots -> Samples]
           /\ queued[0] = Vbg \/ c = Vbg => Added(c)[0] = Vbg
           /\ \A i \in Slots : Added(c)[i] = Vbg => i = 0
<1>1. 0 \in Slots /\ Vbg \in Channels /\ None \notin Channels /\ \A j \in Slots : 0 <= j
    BY SlotsNat, GpAdcAssumption DEF Slots
<1>2. Added(c) \in [Slots -> Samples]
    BY DEF Added, IInv, Types, Samples
<1>3. c = Vbg => First({j \in Slots : queued[j] \in {c, None}}) = {0}
    BY <1>1, SlotsNat DEF First, IInv, VbgInv
<1>4. queued[0] = Vbg \/ c = Vbg => Added(c)[0] = Vbg
    <2>1. queued[0] = Vbg => Added(c)[0] \in {c, Vbg}
        BY <1>1 DEF Added
    <2>2. queued[0] = Vbg /\ c # Vbg => 0 \notin {j \in Slots : queued[j] \in {c, None}}
        BY <1>1
    <2> QED
        BY <1>1, <1>3, <2>1, <2>2 DEF Added, First
<1>5. \A i \in Slots : Added(c)[i] = Vbg => i = 0
    BY <1>3 DEF Added, IInv, VbgInv
<1> QED
    BY <1>2, <1>4, <1>5

LEMMA adc_add_Inv == ASSUME IInv, NEW c \in Channels, adc_add_sample_ch(c) PROVE IInv'
<1>1. Flags'
    BY DEF IInv, Flags, adc_add_sample_ch
<1>2. Types'
    BY AddedQueue DEF IInv, Types, Labels, Samples, adc_add_sample_ch
<1>3. PolledInv'
    BY DEF IInv, PolledInv, Taken, adc_add_sample_ch
<1>4. VbgInv'
    BY AddedQueue, SlotsNat DEF IInv, VbgInv, adc_add_sample_ch
<1>5. ScanGoesOn'
    BY DEF IInv, ScanGoesOn, adc_add_sample_ch
<1> QED
    BY <1>1, <1>2, <1>3, <1>4, <1>5 DEF IInv

LEMMA adc_remove_Inv == ASSUME IInv, NEW c \in Removable, adc_remove_sample_ch(c) PROVE IInv'
<1>1. Flags'
    BY DEF IInv, Flags, adc_remove_sample_ch
<1>2. Types'
    BY DEF IInv, Types, Labels, Samples, adc_remove_sample_ch
<1>3. PolledInv'
    BY DEF IInv, PolledInv, Taken, adc_remove_sample_ch
<1>4. VbgInv'
    BY SlotsNat, GpAdcAssumption DEF IInv, VbgInv, First, adc_remove_sample_ch
<1>5. ScanGoesOn'
    BY DEF IInv, ScanGoesOn, adc_remove_sample_ch
<1> QED
    BY <1>1, <1>2, <1>3, <1>4, <1>5 DEF IInv

LEMMA adc_init_Inv == ASSUME IInv, adc_init PROVE IInv'
<1>1. Flags'
    BY DEF IInv, Flags, adc_init
<1>2. Types'
    BY AddedQueue, SlotsNat, GpAdcAssumption DEF IInv, Types, Labels, Samples, adc_init
<1>3. PolledInv'
    BY DEF IInv, PolledInv, Taken, adc_init
<1>4. VbgInv'
    BY AddedQueue, GpAdcAssumption DEF IInv, VbgInv, adc_init
<1>5. ScanGoesOn'
    BY GpAdcAssumption DEF IInv, ScanGoesOn, PolledInv, Taken, ScanAllowed, adc_init
<1> QED
    BY <1>1, <1>2, <1>3, <1>4, <1>5 DEF IInv

LEMMA adc_uninit_Inv == ASSUME IInv, adc_uninit PROVE IInv'
<1>1. Flags'
    BY DEF IInv, Flags, adc_uninit
<1>2. Types'
    BY DEF IInv, Types, Labels, Samples, adc_uninit
<1>3. PolledInv'
    BY DEF IInv, PolledInv, Taken, adc_uninit
<1>4. VbgInv'
    BY DEF IInv, VbgInv, adc_uninit
<1>5. ScanGoesOn'
    BY DEF IInv, ScanGoesOn, adc_uninit
<1> QED
    BY <1>1, <1>2, <1>3, <1>4, <1>5 DEF IInv

-----------------------------------------------------------------------------
(* Operations of several steps.                                             *)

LEMMA begin_polled_Inv == ASSUME IInv, NEW c \in Channels, adc_get_value_by_blocking(c) PROVE IInv'
<1>1. Flags'
    BY DEF IInv, Flags, adc_get_value_by_blocking
<1>2. Types'
    BY GpAdcAssumption DEF IInv, Types, Labels, Samples, adc_get_value_by_blocking
<1>3. PolledInv'
    BY DEF IInv, PolledInv, Taken, adc_get_value_by_blocking
<1>4. VbgInv'
    BY DEF IInv, VbgInv, adc_get_value_by_blocking
<1>5. ScanGoesOn'
    BY DEF IInv, ScanGoesOn, adc_get_value_by_blocking
<1> QED
    BY <1>1, <1>2, <1>3, <1>4, <1>5 DEF IInv

LEMMA block_ie_Inv == ASSUME IInv, block_ie PROVE IInv'
<1>1. Flags'
    BY DEF IInv, Flags, block_ie
<1>2. Types'
    BY DEF IInv, Types, Labels, Samples, block_ie
<1>3. PolledInv'
    BY DEF IInv, PolledInv, Taken, block_ie
<1>4. VbgInv'
    BY DEF IInv, VbgInv, block_ie
<1>5. ScanGoesOn'
    BY DEF IInv, ScanGoesOn, block_ie
<1> QED
    BY <1>1, <1>2, <1>3, <1>4, <1>5 DEF IInv

LEMMA block_select_Inv == ASSUME IInv, block_select PROVE IInv'
<1>1. Flags'
    BY DEF IInv, Flags, block_select
<1>2. Types'
    BY DEF IInv, Types, Labels, Samples, block_select
<1>3. PolledInv'
    BY DEF IInv, PolledInv, Taken, block_select
<1>4. VbgInv'
    BY DEF IInv, VbgInv, block_select
<1>5. ScanGoesOn'
    BY DEF IInv, ScanGoesOn, block_select
<1> QED
    BY <1>1, <1>2, <1>3, <1>4, <1>5 DEF IInv

LEMMA block_start_Inv == ASSUME IInv, block_start PROVE IInv'
<1>1. Flags'
    BY DEF IInv, Flags, block_start
<1>2. Types'
    BY DEF IInv, Types, Labels, Samples, block_start
<1>3. PolledInv'
    BY DEF IInv, PolledInv, Taken, block_start
<1>4. VbgInv'
    BY DEF IInv, VbgInv, block_start
<1>5. ScanGoesOn'
    BY DEF IInv, ScanGoesOn, block_start
<1> QED
    BY <1>1, <1>2, <1>3, <1>4, <1>5 DEF IInv

LEMMA block_wait_Inv == ASSUME IInv, block_wait PROVE IInv'
<1>1. Flags'
    BY DEF IInv, Flags, block_wait, MoreSamples
<1>2. Types'
    BY GpAdcAssumption DEF IInv, Types, Labels, Samples, block_wait, MoreSamples
<1>3. PolledInv'
    BY DEF IInv, PolledInv, Taken, block_wait, MoreSamples
<1>4. VbgInv'
    BY DEF IInv, VbgInv, block_wait, MoreSamples
<1>5. ScanGoesOn'
    BY DEF IInv, ScanGoesOn, block_wait, MoreSamples
<1> QED
    BY <1>1, <1>2, <1>3, <1>4, <1>5 DEF IInv

LEMMA unblock_Inv == ASSUME IInv, unblock PROVE IInv'
<1>1. Flags'
    BY DEF IInv, Flags, unblock
<1>2. Types'
    BY DEF IInv, Types, Labels, Samples, unblock
<1>3. PolledInv'
    BY DEF IInv, PolledInv, Taken, unblock
<1>4. VbgInv'
    BY DEF IInv, VbgInv, unblock
<1>5. ScanGoesOn'
    BY DEF IInv, ScanGoesOn, unblock
<1> QED
    BY <1>1, <1>2, <1>3, <1>4, <1>5 DEF IInv

LEMMA reset_Inv == ASSUME IInv, reset PROVE IInv'
<1>1. Flags'
    BY DEF IInv, Flags, reset, Reset
<1>2. Types'
    BY GpAdcAssumption DEF IInv, Types, Labels, Samples, reset, Reset
<1>3. PolledInv'
    BY DEF IInv, PolledInv, Taken, reset, Reset
<1>4. VbgInv'
    BY DEF IInv, VbgInv, reset, Reset
<1>5. ScanGoesOn'
    BY GpAdcAssumption DEF IInv, ScanGoesOn, reset, Reset
<1> QED
    BY <1>1, <1>2, <1>3, <1>4, <1>5 DEF IInv

LEMMA clock_critical_enter_Inv == ASSUME IInv, clock_critical_enter PROVE IInv'
<1>1. Flags'
    BY DEF IInv, Flags, clock_critical_enter
<1>2. Types'
    BY DEF IInv, Types, Labels, Samples, clock_critical_enter
<1>3. PolledInv'
    BY DEF IInv, PolledInv, Taken, clock_critical_enter
<1>4. VbgInv'
    BY DEF IInv, VbgInv, clock_critical_enter
<1>5. ScanGoesOn'
    BY DEF IInv, ScanGoesOn, clock_critical_enter
<1> QED
    BY <1>1, <1>2, <1>3, <1>4, <1>5 DEF IInv

LEMMA clock_ie_Inv == ASSUME IInv, clock_ie PROVE IInv'
<1>1. Flags'
    BY DEF IInv, Flags, clock_ie
<1>2. Types'
    BY DEF IInv, Types, Labels, Samples, clock_ie
<1>3. PolledInv'
    BY DEF IInv, PolledInv, Taken, clock_ie
<1>4. VbgInv'
    BY DEF IInv, VbgInv, clock_ie
<1>5. ScanGoesOn'
    BY DEF IInv, ScanGoesOn, clock_ie
<1> QED
    BY <1>1, <1>2, <1>3, <1>4, <1>5 DEF IInv

LEMMA clock_wait_Inv == ASSUME IInv, clock_wait PROVE IInv'
<1>1. Flags'
    BY DEF IInv, Flags, clock_wait
<1>2. Types'
    BY DEF IInv, Types, Labels, Samples, clock_wait
<1>3. PolledInv'
    BY DEF IInv, PolledInv, Taken, clock_wait
<1>4. VbgInv'
    BY DEF IInv, VbgInv, clock_wait
<1>5. ScanGoesOn'
    BY DEF IInv, ScanGoesOn, clock_wait
<1> QED
    BY <1>1, <1>2, <1>3, <1>4, <1>5 DEF IInv

LEMMA adc_dma_enter_single_ch_sample_Inv == ASSUME IInv, adc_dma_enter_single_ch_sample PROVE IInv'
<1>1. Flags'
    BY DEF IInv, Flags, adc_dma_enter_single_ch_sample
<1>2. Types'
    BY DEF IInv, Types, Labels, Samples, adc_dma_enter_single_ch_sample
<1>3. PolledInv'
    BY DEF IInv, PolledInv, Taken, adc_dma_enter_single_ch_sample
<1>4. VbgInv'
    BY DEF IInv, VbgInv, adc_dma_enter_single_ch_sample
<1>5. ScanGoesOn'
    BY DEF IInv, ScanGoesOn, adc_dma_enter_single_ch_sample
<1> QED
    BY <1>1, <1>2, <1>3, <1>4, <1>5 DEF IInv

LEMMA enter_ie_Inv == ASSUME IInv, enter_ie PROVE IInv'
<1>1. Flags'
    BY DEF IInv, Flags, enter_ie
<1>2. Types'
    BY DEF IInv, Types, Labels, Samples, enter_ie
<1>3. PolledInv'
    BY DEF IInv, PolledInv, Taken, enter_ie
<1>4. VbgInv'
    BY DEF IInv, VbgInv, enter_ie
<1>5. ScanGoesOn'
    BY DEF IInv, ScanGoesOn, PolledInv, enter_ie
<1> QED
    BY <1>1, <1>2, <1>3, <1>4, <1>5 DEF IInv

LEMMA enter_wait_Inv == ASSUME IInv, enter_wait PROVE IInv'
<1>1. Flags'
    BY DEF IInv, Flags, enter_wait
<1>2. Types'
    BY DEF IInv, Types, Labels, Samples, enter_wait
<1>3. PolledInv'
    BY DEF IInv, PolledInv, Taken, enter_wait
<1>4. VbgInv'
    BY DEF IInv, VbgInv, enter_wait
<1>5. ScanGoesOn'
    BY DEF IInv, ScanGoesOn, PolledInv, enter_wait
<1> QED
    BY <1>1, <1>2, <1>3, <1>4, <1>5 DEF IInv

LEMMA adc_dma_exit_single_ch_sample_Inv == ASSUME IInv, adc_dma_exit_single_ch_sample PROVE IInv'
<1>1. Flags'
    BY DEF IInv, Flags, adc_dma_exit_single_ch_sample
<1>2. Types'
    BY DEF IInv, Types, Labels, Samples, adc_dma_exit_single_ch_sample
<1>3. PolledInv'
    BY DEF IInv, PolledInv, Taken, adc_dma_exit_single_ch_sample
<1>4. VbgInv'
    BY DEF IInv, VbgInv, adc_dma_exit_single_ch_sample
<1>5. ScanGoesOn'
    BY DEF IInv, ScanGoesOn, adc_dma_exit_single_ch_sample
<1> QED
    BY <1>1, <1>2, <1>3, <1>4, <1>5 DEF IInv

-----------------------------------------------------------------------------
LEMMA InitInv == Init => IInv
<1> SUFFICES ASSUME Init PROVE IInv
    OBVIOUS
<1>1. Flags
    BY DEF Init, Flags
<1>2. Types
    BY GpAdcAssumption DEF Init, Types, Labels, Samples
<1>3. PolledInv
    BY DEF Init, PolledInv, Taken
<1>4. VbgInv
    BY SlotsNat, GpAdcAssumption DEF Init, VbgInv
<1>5. ScanGoesOn
    BY DEF Init, ScanGoesOn
<1> QED
    BY <1>1, <1>2, <1>3, <1>4, <1>5 DEF IInv

LEMMA StutterInv == ASSUME IInv, UNCHANGED vars PROVE IInv'
<1> USE DEF vars
<1>1. Flags'
    BY DEF IInv, Flags
<1>2. Types'
    BY DEF IInv, Types
<1>3. PolledInv'
    BY DEF IInv, PolledInv
<1>4. VbgInv'
    BY DEF IInv, VbgInv
<1>5. ScanGoesOn'
    BY DEF IInv, ScanGoesOn
<1> QED
    BY <1>1, <1>2, <1>3, <1>4, <1>5 DEF IInv

LEMMA StepInv == ASSUME IInv, [Next]_vars PROVE IInv'
<1>1. CASE Interrupts
    BY <1>1, adc_scan_Inv, adc_isr_Inv, Convert_Inv DEF Interrupts
<1>2. CASE Steps
    BY <1>2, block_ie_Inv, block_select_Inv, block_start_Inv, block_wait_Inv, unblock_Inv,
       reset_Inv, clock_ie_Inv, clock_wait_Inv, enter_ie_Inv, enter_wait_Inv
    DEF Steps
<1>3. CASE Calls
    BY <1>3, adc_add_Inv, adc_remove_Inv, adc_init_Inv, adc_uninit_Inv, begin_polled_Inv,
       clock_critical_enter_Inv, adc_dma_enter_single_ch_sample_Inv,
       adc_dma_exit_single_ch_sample_Inv
    DEF Calls
<1>4. CASE UNCHANGED vars
    BY <1>4, StutterInv
<1> QED
    BY <1>1, <1>2, <1>3, <1>4 DEF Next

LEMMA Inductive == Spec => []IInv
BY InitInv, StepInv, PTL DEF Spec

\* The driver's variables always have their types; the slot being converted is
\* one of the queue.
THEOREM TypeCorrect == Spec => []TypeOK
<1>1. IInv => TypeOK
    BY GpAdcAssumption DEF IInv, Flags, Types, Samples, TypeOK
<1> QED
    BY <1>1, Inductive, PTL

\* A polled read adds up samples of its own channel only, whatever interrupts it.
THEOREM PolledReads == Spec => []PolledIsOwn
<1>1. IInv => PolledIsOwn
    BY DEF IInv, PolledInv, PolledIsOwn
<1> QED
    BY <1>1, Inductive, PTL

\* A scan that has been interrupted goes on or is given up, it never gets stuck.
THEOREM ScanProceeds == Spec => []ScanGoesOn
<1>1. IInv => ScanGoesOn
    BY DEF IInv
<1> QED
    BY <1>1, Inductive, PTL

-----------------------------------------------------------------------------
(* Whose sample a slot holds.                                               *)

\* What the interrupt will find when it stores the sample under conversion: it
\* is the current slot's, or that of a channel that has been removed.
InFlight ==
    /\ pend => res = mux
    /\ mux \in {queued[cur_ch]} \cup Removable
    /\ queued[cur_ch] = Vbg => mux = Vbg

OwnInv ==
    /\ adc_vbg \in {None, Vbg}
    /\ \A i \in Slots : adc_value[i] \in {None, queued[i]} \cup Removable
    /\ ie /\ cur_ch < Length => InFlight
    /\ pc \in Taken \ {"block_ie", "clock_ie"} => ~ie

LEMMA adc_scan_Own ==
    ASSUME ~DmaRuns, IInv, OwnInv, adc_scan
    PROVE  OwnInv'
BY DEF IInv, PolledInv, Taken, OwnInv, InFlight, adc_scan, ScanAllowed, NextSample

LEMMA adc_isr_Own ==
    ASSUME ~DmaRuns, IInv, OwnInv, adc_isr
    PROVE  OwnInv'
BY NextSlot, SlotsNat
    DEF IInv, PolledInv, Taken, OwnInv, InFlight, Types, Samples, VbgInv, adc_isr,
        Stored, NextSample

LEMMA Convert_Own ==
    ASSUME ~DmaRuns, IInv, OwnInv, Convert
    PROVE  OwnInv'
BY DEF IInv, PolledInv, Taken, OwnInv, InFlight, Convert

LEMMA adc_add_Own ==
    ASSUME ~DmaRuns, IInv, OwnInv, NEW c \in Channels, adc_add_sample_ch(c)
    PROVE  OwnInv'
<1>1. /\ UNCHANGED <<adc_value, adc_vbg, cur_ch, ie, pend, res, mux, pc>>
      /\ queued' = Added(c) /\ init_ok
    BY DEF adc_add_sample_ch
<1>2. \A i \in Slots : queued'[i] = queued[i] \/ queued[i] = None
    BY <1>1 DEF Added, First
<1>3. \A i \in Slots : adc_value'[i] \in {None, queued'[i]} \cup Removable
    BY <1>1, <1>2 DEF OwnInv
<1>4. ASSUME ie, cur_ch < Length PROVE InFlight'
    <2>1. InFlight /\ cur_ch \in Slots
        BY <1>4, SlotsNat DEF OwnInv, IInv, Types, Slots
    <2>2. mux \in {queued'[cur_ch]} \cup Removable
        BY <1>2, <2>1, GpAdcAssumption DEF InFlight, IInv, Types
    <2>3. queued'[cur_ch] = Vbg => mux = Vbg
        BY <1>1, <2>1, AddedQueue DEF InFlight, IInv, VbgInv
    <2> QED
        BY <1>1, <2>1, <2>2, <2>3 DEF InFlight
<1> QED
    BY <1>1, <1>3, <1>4 DEF OwnInv

LEMMA adc_remove_Own ==
    ASSUME ~DmaRuns, IInv, OwnInv, NEW c \in Removable, adc_remove_sample_ch(c)
    PROVE  OwnInv'
<1>1. /\ UNCHANGED <<adc_value, adc_vbg, cur_ch, ie, pend, res, mux, pc>>
      /\ queued' = [i \in Slots |-> IF i \in First({j \in Slots : queued[j] = c})
                                    THEN None ELSE queued[i]]
    BY DEF adc_remove_sample_ch
<1>2. \A i \in Slots : queued'[i] = queued[i] \/ (queued[i] \in Removable /\ queued'[i] = None)
    BY <1>1 DEF First
<1>3. \A i \in Slots : adc_value'[i] \in {None, queued'[i]} \cup Removable
    BY <1>1, <1>2 DEF OwnInv
<1>4. ASSUME ie, cur_ch < Length PROVE InFlight'
    <2>1. InFlight /\ cur_ch \in Slots
        BY <1>4, SlotsNat DEF OwnInv, IInv, Types, Slots
    <2>2. mux \in {queued'[cur_ch]} \cup Removable
        BY <1>2, <2>1 DEF InFlight
    <2>3. queued'[cur_ch] = Vbg => mux = Vbg
        BY <1>2, <2>1, GpAdcAssumption DEF InFlight
    <2> QED
        BY <1>1, <2>1, <2>2, <2>3 DEF InFlight
<1> QED
    BY <1>1, <1>3, <1>4 DEF OwnInv

LEMMA adc_init_Own ==
    ASSUME ~DmaRuns, IInv, OwnInv, adc_init
    PROVE  OwnInv'
BY AddedQueue, SlotsNat, GpAdcAssumption
    DEF IInv, PolledInv, Taken, OwnInv, InFlight, VbgInv, Types, Added, adc_init

LEMMA adc_uninit_Own ==
    ASSUME ~DmaRuns, IInv, OwnInv, adc_uninit
    PROVE  OwnInv'
BY DEF IInv, PolledInv, Taken, OwnInv, InFlight, adc_uninit

LEMMA begin_polled_Own ==
    ASSUME ~DmaRuns, IInv, OwnInv, NEW c \in Channels, adc_get_value_by_blocking(c)
    PROVE  OwnInv'
BY DEF IInv, PolledInv, Taken, OwnInv, InFlight, adc_get_value_by_blocking

LEMMA block_ie_Own ==
    ASSUME ~DmaRuns, IInv, OwnInv, block_ie
    PROVE  OwnInv'
BY DEF IInv, PolledInv, Taken, OwnInv, InFlight, block_ie

LEMMA block_select_Own ==
    ASSUME ~DmaRuns, IInv, OwnInv, block_select
    PROVE  OwnInv'
BY DEF IInv, PolledInv, Taken, OwnInv, InFlight, block_select

LEMMA block_start_Own ==
    ASSUME ~DmaRuns, IInv, OwnInv, block_start
    PROVE  OwnInv'
BY DEF IInv, PolledInv, Taken, OwnInv, InFlight, block_start

LEMMA block_wait_Own ==
    ASSUME ~DmaRuns, IInv, OwnInv, block_wait
    PROVE  OwnInv'
BY DEF IInv, PolledInv, Taken, OwnInv, InFlight, block_wait, MoreSamples

LEMMA unblock_Own ==
    ASSUME ~DmaRuns, IInv, OwnInv, unblock
    PROVE  OwnInv'
BY DEF IInv, PolledInv, Taken, OwnInv, InFlight, unblock

LEMMA reset_Own ==
    ASSUME ~DmaRuns, IInv, OwnInv, reset
    PROVE  OwnInv'
BY GpAdcAssumption
    DEF IInv, PolledInv, Taken, OwnInv, InFlight, reset, Reset

LEMMA clock_critical_enter_Own ==
    ASSUME ~DmaRuns, IInv, OwnInv, clock_critical_enter
    PROVE  OwnInv'
BY DEF IInv, PolledInv, Taken, OwnInv, InFlight, clock_critical_enter

LEMMA clock_ie_Own ==
    ASSUME ~DmaRuns, IInv, OwnInv, clock_ie
    PROVE  OwnInv'
BY DEF IInv, PolledInv, Taken, OwnInv, InFlight, clock_ie

LEMMA clock_wait_Own ==
    ASSUME ~DmaRuns, IInv, OwnInv, clock_wait
    PROVE  OwnInv'
BY DEF IInv, PolledInv, Taken, OwnInv, InFlight, clock_wait

LEMMA adc_dma_enter_single_ch_sample_Own ==
    ASSUME ~DmaRuns, IInv, OwnInv, adc_dma_enter_single_ch_sample
    PROVE  OwnInv'
BY DEF IInv, PolledInv, Taken, OwnInv, InFlight, adc_dma_enter_single_ch_sample

LEMMA enter_ie_Own ==
    ASSUME ~DmaRuns, IInv, OwnInv, enter_ie
    PROVE  OwnInv'
BY DEF IInv, PolledInv, Taken, OwnInv, InFlight, enter_ie

LEMMA enter_wait_Own ==
    ASSUME ~DmaRuns, IInv, OwnInv, enter_wait
    PROVE  OwnInv'
BY DEF IInv, PolledInv, Taken, OwnInv, InFlight, enter_wait

LEMMA adc_dma_exit_single_ch_sample_Own ==
    ASSUME ~DmaRuns, IInv, OwnInv, adc_dma_exit_single_ch_sample
    PROVE  OwnInv'
BY DEF IInv, PolledInv, Taken, OwnInv, InFlight, adc_dma_exit_single_ch_sample

LEMMA StepOwn == ASSUME ~DmaRuns, IInv, OwnInv, [Next]_vars PROVE OwnInv'
<1>1. CASE Interrupts
    BY <1>1, adc_scan_Own, adc_isr_Own, Convert_Own DEF Interrupts
<1>2. CASE Steps
    BY <1>2, block_ie_Own, block_select_Own, block_start_Own, block_wait_Own, unblock_Own,
       reset_Own, clock_ie_Own, clock_wait_Own, enter_ie_Own, enter_wait_Own
    DEF Steps
<1>3. CASE Calls
    BY <1>3, adc_add_Own, adc_remove_Own, adc_init_Own, adc_uninit_Own, begin_polled_Own,
       clock_critical_enter_Own, adc_dma_enter_single_ch_sample_Own,
       adc_dma_exit_single_ch_sample_Own
    DEF Calls
<1>4. CASE UNCHANGED vars
    BY <1>4 DEF vars, OwnInv, InFlight
<1> QED
    BY <1>1, <1>2, <1>3, <1>4 DEF Next

\* Without DMA mode a channel is reported with samples of its own, or with those
\* of a removed channel whose slot it has taken over, and the reference only with
\* its own.
THEOREM OwnSamples == ASSUME ~DmaRuns PROVE Spec => []SamplesAreOwn
<1>1. Init => OwnInv
    BY DEF Init, OwnInv
<1>2. IInv /\ OwnInv /\ [Next]_vars => OwnInv'
    BY StepOwn
<1>3. OwnInv => SamplesAreOwn
    BY DEF OwnInv, SamplesAreOwn, VbgIsVbg
<1> QED
    BY <1>1, <1>2, <1>3, Inductive, PTL DEF Spec
=============================================================================
