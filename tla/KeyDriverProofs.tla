--------------------------- MODULE KeyDriverProofs ---------------------------
(***************************************************************************)
(* Proofs about KeyDriver for any keys and any times that meet the         *)
(* assumptions: the fields keep their ranges, a reading counts only when   *)
(* it has lasted, and the scan implements KeyEvents.                       *)
(***************************************************************************)
EXTENDS KeyDriver, TLAPS

\* What debouncing rests on: after the first scan filter_value is the last
\* reading, and filter_cnt never runs ahead of how long that has lasted.
Filtered ==
    /\ filter_time > 0 /\ same > 0 => filter_value = read
    /\ filter_cnt <= same

Inv == TypeOK /\ Filtered

\* The counter of key_driver.c:103 has room: it is reset before it could wrap.
LEMMA PressCounter ==
    ASSUME TypeOK, press_cnt + 1 # hold_time
    PROVE  /\ (press_cnt + 1) % CntMod = press_cnt + 1
           /\ press_cnt + 1 \in 0 .. hold_time - 1
BY TimesAssumption DEF TypeOK

\* click_cnt stays a byte.
LEMMA ClickCounter ==
    ASSUME TypeOK
    PROVE  (click_cnt + 1) % CntMod \in 0 .. CntMod - 1
BY TimesAssumption DEF TypeOK

\* The initial states satisfy the invariant.
LEMMA InitInv == Init => Inv
BY KeysAssumption, TimesAssumption DEF Init, Inv, TypeOK, Filtered, Readings, Event

\* Every outcome of a scan keeps the driver's fields in range.
LEMMA OutcomeType ==
    ASSUME TypeOK, Outcome, UNCHANGED level
    PROVE  /\ last_key' \in Readings /\ filter_value' \in Readings
           /\ filter_cnt' \in 0 .. filter_time
           /\ press_cnt' \in 0 .. hold_time - 1
           /\ click_cnt' \in 0 .. CntMod - 1
           /\ click_delay_cnt' \in 0 .. click_delay_time + 1
           /\ notify_value' \in Readings
           /\ event' \in [what : {"none", "long", "hold", "up", "clicks"},
                          key : Readings, times : 0 .. 5]
<1> USE TimesAssumption, KeysAssumption DEF TypeOK, Readings
<1>1. CASE Restart
    BY <1>1 DEF Restart, clicks
<1>2. CASE Filter
    BY <1>2 DEF Filter, clicks
<1>3. CASE Press
    BY <1>3, ClickCounter DEF Press, Accepted, filter
<1>4. CASE Release
    BY <1>4 DEF Release, Accepted, filter, clicks
<1>5. CASE ReleaseLong
    BY <1>5 DEF ReleaseLong, Accepted, Notify, Event, filter
<1>6. CASE NothingToReport
    BY <1>6 DEF NothingToReport, Waiting, Accepted, filter, clicks
<1>7. CASE Delay
    BY <1>7 DEF Delay, Waiting, Accepted, filter, clicks
<1>8. CASE ReportClicks
    BY <1>8 DEF ReportClicks, Waiting, Accepted, Notify, Event, filter
<1>9. CASE Long
    BY <1>9 DEF Long, Held, Accepted, Notify, Event, filter
<1>10. CASE Hold
    BY <1>10 DEF Hold, Held, Accepted, Notify, Event, filter
<1>11. CASE StillHeld
    BY <1>11, PressCounter DEF StillHeld, Held, Accepted, filter, clicks
<1> QED
    BY <1>1, <1>2, <1>3, <1>4, <1>5, <1>6, <1>7, <1>8, <1>9, <1>10, <1>11 DEF Outcome

\* Only an accepted reading becomes last_key, and only when it has lasted.
LEMMA AcceptedLasted ==
    ASSUME Inv, key_driver_scan, last_key' # last_key
    PROVE  same' > filter_time /\ last_key' = read'
<1>1. Accepted
    BY DEF key_driver_scan, Outcome, Restart, Filter, Press, Release, ReleaseLong,
           NothingToReport, Delay, ReportClicks, Waiting, Long, Hold, StillHeld, Held
<1>2. last_key' = level /\ read' = level /\ level = level'
    BY <1>1 DEF Accepted, key_driver_scan
<1>3. CASE filter_time = 0
    BY <1>2, <1>3, TimesAssumption DEF Inv, TypeOK, key_driver_scan, Longer
<1>4. CASE filter_time # 0
    <2>1. same >= filter_time /\ filter_time > 0
        BY <1>1, <1>4, TimesAssumption DEF Accepted, Inv, TypeOK, Filtered
    <2>2. level = read
        BY <1>1, <1>4, <2>1, TimesAssumption DEF Accepted, Differs, Inv, TypeOK, Filtered
    <2> QED
        BY <1>2, <2>1, <2>2, TimesAssumption DEF Inv, TypeOK, key_driver_scan, Longer
<1> QED
    BY <1>2, <1>3, <1>4

\* A scan keeps what debouncing rests on.
LEMMA ScanFiltered ==
    ASSUME Inv, key_driver_scan
    PROVE  Filtered' /\ same' \in 0 .. filter_time + 1 /\ read' \in Readings
<1> USE TimesAssumption DEF Inv, TypeOK, Filtered, key_driver_scan, Longer
<1>1. same' \in 0 .. filter_time + 1 /\ read' \in Readings
    OBVIOUS
<1>2. CASE Restart
    BY <1>2 DEF Restart
<1>3. CASE Filter
    <2>1. filter_time > 0 /\ level = filter_value
        BY <1>3 DEF Filter, Differs
    <2>2. CASE same = 0
        BY <1>3, <2>1, <2>2 DEF Filter
    <2>3. CASE same > 0
        BY <1>3, <2>1, <2>3 DEF Filter
    <2> QED
        BY <2>2, <2>3
<1>4. CASE Accepted
    <2>1. UNCHANGED <<filter_value, filter_cnt>>
        BY <1>4 DEF Accepted, filter
    <2>2. CASE filter_time = 0
        BY <2>1, <2>2
    <2>3. CASE filter_time > 0
        <3>1. same > 0 /\ level = read /\ filter_value = read
            BY <1>4, <2>3 DEF Accepted, Differs
        <3> QED
            BY <2>1, <3>1
    <2> QED
        BY <2>2, <2>3
<1>5. Restart \/ Filter \/ Accepted
    BY DEF Outcome, Press, Release, ReleaseLong, NothingToReport, Delay, ReportClicks,
           Waiting, Long, Hold, StillHeld, Held
<1> QED
    BY <1>1, <1>2, <1>3, <1>4, <1>5

\* Every step preserves the invariant.
LEMMA NextInv == Inv /\ [Next]_vars => Inv'
<1> SUFFICES ASSUME Inv, [Next]_vars PROVE Inv'
    OBVIOUS
<1>1. CASE Input
    BY <1>1 DEF Input, Inv, TypeOK, Filtered, filter, clicks, history
<1>2. CASE key_driver_scan
    <2>1. UNCHANGED level
        BY <1>2 DEF key_driver_scan
    <2> QED
        BY <1>2, <2>1, OutcomeType, ScanFiltered DEF Inv, TypeOK, key_driver_scan
<1>3. CASE UNCHANGED vars
    BY <1>3 DEF vars, Inv, TypeOK, Filtered, filter, clicks, history
<1> QED
    BY <1>1, <1>2, <1>3 DEF Next

\* Every scan keeps the invariant.
LEMMA Invariance == Spec => []Inv
BY InitInv, NextInv, PTL DEF Spec

\* The fields of key_driver_para stay in range; of all counters only click_cnt
\* can reach the limit of its type.
THEOREM TypeCorrect == Spec => []TypeOK
<1>1. Inv => TypeOK
    BY DEF Inv
<1> QED
    BY <1>1, Invariance, PTL

\* What key_driver_scan takes for pressed or released has been read in more than
\* filter_time scans in a row.
THEOREM DebouncedReading == Spec => Debounced
<1>1. Inv /\ [Next]_vars
        => [last_key' # last_key => same' > filter_time /\ last_key' = read']_vars
    BY AcceptedLasted DEF Next, Input, vars
<1> QED
    BY <1>1, Invariance, PTL DEF Spec, Debounced

-----------------------------------------------------------------------------
(***************************************************************************)
(* KeyEvents is implemented.                                               *)
(***************************************************************************)
\* An outcome of the scan after which neither the keys nor the clicks differ
\* is none of the application's business.
LEMMA Quiet ==
    ASSUME UNCHANGED <<last_key, long, clicks, event>>
    PROVE  UNCHANGED Promise!vars
BY DEF Promise!vars, long, series, clicks

\* A key that goes down, whether another one was down before or not.
LEMMA PressImplements ==
    ASSUME TypeOK, Press, UNCHANGED level
    PROVE  Promise!Press(level) /\ level \in Keys
<1> USE TimesAssumption, KeysAssumption DEF Press, Accepted
<1>1. ~long'
    BY DEF long
<1>2. click_cnt' = IF level = series THEN (click_cnt + 1) % CntMod ELSE 1
    BY DEF series, TypeOK
<1>3. series' = IF click_cnt' = 0 THEN NO_KEY ELSE level
    BY DEF series
<1>4. level \in Keys
    BY DEF TypeOK, Readings
<1> QED
    BY <1>1, <1>2, <1>3, <1>4 DEF Promise!Press, long, series

\* An event ends the series.
LEMMA NotifyImplements ==
    ASSUME NEW kind, NEW key, NEW times, Notify(kind, key, times)
    PROVE  Promise!Report(kind, key, times)
BY DEF Notify, Event, Promise!Report, series

\* Every outcome of the scan is a step the application may see, or none.
LEMMA OutcomeImplements ==
    ASSUME TypeOK, Outcome, UNCHANGED level
    PROVE  Promise!Next \/ UNCHANGED Promise!vars
<1> USE TimesAssumption, KeysAssumption DEF TypeOK
<1>1. CASE Restart
    BY <1>1, Quiet DEF Restart, long, clicks
<1>2. CASE Filter
    BY <1>2, Quiet DEF Filter, long, clicks
<1>3. CASE Press
    BY <1>3, PressImplements DEF Promise!Next
<1>4. CASE Release
    <2>1. last_key # NO_KEY /\ ~long /\ last_key' = NO_KEY /\ ~long'
        BY <1>4 DEF Release, Accepted, long
    <2>2. Promise!Release
        BY <1>4, <2>1 DEF Release, Promise!Release, long, series, clicks
    <2> QED
        BY <2>2 DEF Promise!Next
<1>5. CASE ReleaseLong
    <2>1. last_key # NO_KEY /\ long /\ last_key' = NO_KEY /\ ~long'
        BY <1>5 DEF ReleaseLong, Accepted, long
    <2>2. Promise!Report("up", last_key, 0)
        BY <1>5, NotifyImplements DEF ReleaseLong
    <2> QED
        BY <2>1, <2>2 DEF Promise!Next, Promise!Up, long
<1>6. CASE NothingToReport
    BY <1>6, Quiet DEF NothingToReport, Waiting, Accepted, long, clicks
<1>7. CASE Delay
    BY <1>7, Quiet DEF Delay, Waiting, Accepted, long, clicks
<1>8. CASE ReportClicks
    <2>1. last_key = NO_KEY /\ last_key' = NO_KEY /\ ~long /\ ~long' /\ click_cnt > 0
        BY <1>8 DEF ReportClicks, Waiting, Accepted, long
    <2>2. Promise!Report("clicks", series, IF click_cnt < 5 THEN click_cnt ELSE 5)
        BY <1>8, NotifyImplements DEF ReportClicks, series
    <2> QED
        BY <2>1, <2>2 DEF Promise!Next, Promise!Click, long, series
<1>9. CASE Long
    <2>1. last_key # NO_KEY /\ last_key' = last_key /\ ~long /\ long'
        BY <1>9 DEF Long, Held, Accepted, long
    <2>2. Promise!Report("long", last_key, 0)
        BY <1>9, NotifyImplements DEF Long, Held, Accepted
    <2> QED
        BY <2>1, <2>2 DEF Promise!Next, Promise!Long, long
<1>10. CASE Hold
    <2>1. last_key # NO_KEY /\ last_key' = last_key /\ long /\ long'
        BY <1>10 DEF Hold, Held, Accepted, long
    <2>2. Promise!Report("hold", last_key, 0)
        BY <1>10, NotifyImplements DEF Hold, Held, Accepted
    <2> QED
        BY <2>1, <2>2 DEF Promise!Next, Promise!Hold, long
<1>11. CASE StillHeld
    <2>1. press_cnt' = press_cnt + 1 /\ press_cnt + 1 # long_time
        BY <1>11, PressCounter DEF StillHeld
    <2>2. last_key' = last_key /\ long' = long
        BY <1>11, <2>1 DEF StillHeld, Held, Accepted, long
    <2> QED
        BY <1>11, <2>2, Quiet DEF StillHeld, clicks
<1> QED
    BY <1>1, <1>2, <1>3, <1>4, <1>5, <1>6, <1>7, <1>8, <1>9, <1>10, <1>11 DEF Outcome

\* With time and bouncing contacts left out, the scan is KeyEvents: which presses
\* make one report, in which order reports come, and which key each is about.
THEOREM EventsImplemented == Spec => ImplementsKeyEvents
<1>1. Init => Promise!Init
    BY DEF Init, Promise!Init, Event, long, series
<1>2. Inv /\ [Next]_vars => [Promise!Next]_(Promise!vars)
    <2> SUFFICES ASSUME Inv, [Next]_vars
                 PROVE  Promise!Next \/ UNCHANGED Promise!vars
        OBVIOUS
    <2>1. CASE Input
        BY <2>1, Quiet DEF Input, long, clicks
    <2>2. CASE key_driver_scan
        BY <2>2, OutcomeImplements DEF key_driver_scan, Inv
    <2>3. CASE UNCHANGED vars
        BY <2>3, Quiet DEF vars, long, clicks
    <2> QED
        BY <2>1, <2>2, <2>3 DEF Next
<1> QED
    BY <1>1, <1>2, Invariance, PTL DEF Spec, Promise!Spec, ImplementsKeyEvents
=============================================================================
