------------------------------ MODULE KeyDriver ------------------------------
(***************************************************************************)
(* The key scan of apps/common/device/key/key_driver.c.  The hardware      *)
(* timer calls key_driver_scan every scan_time for each kind of key; a     *)
(* kind has its own key_driver_para and the scans of two kinds share       *)
(* nothing, so one is modelled.  A scan reads the key, waits until the     *)
(* reading has been the same for filter_time scans, and derives the event. *)
(* key_event_remap is the weak one, which lets every event pass.           *)
(***************************************************************************)
EXTENDS Naturals

CONSTANTS
    Keys,               \* the key values get_value returns
    Zero,               \* the key whose value is 0, as in a zeroed field
    NO_KEY,             \* 0xff, what get_value returns when none is pressed
    filter_time,        \* scans a new reading must last; 0 for infrared keys
    long_time,          \* scans after which a press is long
    hold_time,          \* scans after which it is reported as held
    click_delay_time,   \* scans to wait for another click
    CntMod              \* counters are u8: 256

ASSUME KeysAssumption == Zero \in Keys /\ NO_KEY \notin Keys
ASSUME TimesAssumption ==
    /\ {filter_time, long_time, hold_time, click_delay_time, CntMod} \subseteq Nat
    /\ 1 < long_time /\ long_time < hold_time
    /\ hold_time < CntMod /\ filter_time < CntMod
    /\ click_delay_time + 1 < CntMod /\ CntMod > 5

Readings == Keys \cup {NO_KEY}

VARIABLES
    level,              \* what get_value returns now
    last_key, filter_value, filter_cnt, press_cnt,
    click_cnt, click_delay_cnt, notify_value,   \* fields of key_driver_para
    event,              \* the last event notified
    read, same          \* history: the last reading, and for how many scans
                        \* it has been the same, up to filter_time + 1

filter == <<filter_value, filter_cnt>>
clicks == <<click_cnt, notify_value>>
history == <<read, same>>
vars == <<level, last_key, filter, press_cnt, clicks, click_delay_cnt, event, history>>

Event(kind, key, times) == [what |-> kind, key |-> key, times |-> times]

\* The kinds define last_key; the other fields are zero.
Init ==
    /\ level \in Readings
    /\ last_key = NO_KEY
    /\ filter_value = Zero /\ filter_cnt = 0
    /\ press_cnt = 0
    /\ click_cnt = 0 /\ click_delay_cnt = 0 /\ notify_value = Zero
    /\ event = Event("none", NO_KEY, 0)
    /\ read = NO_KEY /\ same = 0

\* A finger, a bouncing contact, or the remote control.
Input ==
    /\ \E r \in Readings \ {level} : level' = r
    /\ UNCHANGED <<last_key, filter, press_cnt, clicks, click_delay_cnt, event, history>>

-----------------------------------------------------------------------------
(***************************************************************************)
(* The scan, one action for each of its outcomes.                          *)
(***************************************************************************)
Differs == filter_time # 0 /\ level # filter_value

\* A mutant: if a changed reading did not reset the counter.
Restart_keepsCount ==
    /\ Differs
    /\ filter_value' = level
    /\ UNCHANGED <<filter_cnt, last_key, press_cnt, clicks, click_delay_cnt, event>>

\* The reading has changed: filtering begins again.
Restart ==
    /\ Differs
    /\ filter_cnt' = 0
    /\ filter_value' = level
    /\ UNCHANGED <<last_key, press_cnt, clicks, click_delay_cnt, event>>

Filter ==
    /\ ~Differs
    /\ filter_cnt < filter_time
    /\ filter_cnt' = filter_cnt + 1
    /\ UNCHANGED <<filter_value, last_key, press_cnt, clicks, click_delay_cnt, event>>

\* The reading is accepted; every way on ends at _scan_end.
Accepted ==
    /\ ~Differs /\ filter_cnt >= filter_time
    /\ last_key' = level
    /\ UNCHANGED filter

\* From _notify on.
Notify(kind, key, times) ==
    /\ event' = Event(kind, key, times)
    /\ click_cnt' = 0
    /\ notify_value' = NO_KEY

Press ==
    /\ Accepted /\ level # last_key /\ level # NO_KEY
    /\ press_cnt' = 1
    /\ click_cnt' = IF level = notify_value THEN (click_cnt + 1) % CntMod ELSE 1
    /\ notify_value' = level
    /\ UNCHANGED <<click_delay_cnt, event>>

Release ==
    /\ Accepted /\ level # last_key /\ level = NO_KEY
    /\ press_cnt < long_time
    /\ click_delay_cnt' = 1
    /\ UNCHANGED <<press_cnt, clicks, event>>

\* A mutant: if the release of a long press waited for clicks like any other.
ReleaseLong_silent ==
    /\ Accepted /\ level # last_key /\ level = NO_KEY
    /\ press_cnt >= long_time
    /\ click_delay_cnt' = 1
    /\ UNCHANGED <<press_cnt, clicks, event>>

ReleaseLong ==
    /\ Accepted /\ level # last_key /\ level = NO_KEY
    /\ press_cnt >= long_time
    /\ Notify("up", last_key, 0)
    /\ UNCHANGED <<press_cnt, click_delay_cnt>>

\* No key is pressed: after the delay the clicks are reported.
Waiting == Accepted /\ level = last_key /\ level = NO_KEY /\ UNCHANGED press_cnt

NothingToReport ==
    /\ Waiting
    /\ click_cnt = 0
    /\ UNCHANGED <<clicks, click_delay_cnt, event>>

\* A mutant: if the delay were not counted.
Delay_stands ==
    /\ Waiting
    /\ click_cnt > 0 /\ click_delay_cnt <= click_delay_time
    /\ UNCHANGED <<click_delay_cnt, clicks, event>>

Delay ==
    /\ Waiting
    /\ click_cnt > 0 /\ click_delay_cnt <= click_delay_time
    /\ click_delay_cnt' = click_delay_cnt + 1
    /\ UNCHANGED <<clicks, event>>

ReportClicks ==
    /\ Waiting
    /\ click_cnt > 0 /\ click_delay_cnt > click_delay_time
    /\ Notify("clicks", notify_value, IF click_cnt >= 5 THEN 5 ELSE click_cnt)
    /\ UNCHANGED click_delay_cnt

\* The key is still pressed.
Held == Accepted /\ level = last_key /\ level # NO_KEY /\ UNCHANGED click_delay_cnt

Long ==
    /\ Held
    /\ press_cnt + 1 = long_time
    /\ press_cnt' = press_cnt + 1
    /\ Notify("long", level, 0)

Hold ==
    /\ Held
    /\ press_cnt + 1 = hold_time
    /\ press_cnt' = long_time
    /\ Notify("hold", level, 0)

StillHeld ==
    /\ Held
    /\ press_cnt + 1 \notin {long_time, hold_time}
    /\ press_cnt' = (press_cnt + 1) % CntMod
    /\ UNCHANGED <<clicks, event>>

Outcome ==
    \/ Restart \/ Filter
    \/ Press \/ Release \/ ReleaseLong
    \/ NothingToReport \/ Delay \/ ReportClicks
    \/ Long \/ Hold \/ StillHeld

Longer(n) == IF n > filter_time THEN n ELSE n + 1

key_driver_scan ==
    /\ Outcome
    /\ read' = level
    /\ same' = IF level = read THEN Longer(same) ELSE 1
    /\ UNCHANGED level

Next == Input \/ key_driver_scan

Spec == Init /\ [][Next]_vars

\* The hardware timer keeps calling the scan; nothing is assumed of the keys.
FairSpec == Spec /\ WF_vars(key_driver_scan)

-----------------------------------------------------------------------------
(***************************************************************************)
(* Properties.                                                             *)
(***************************************************************************)
\* The fields of key_driver_para stay in the range the code counts in: no
\* counter but click_cnt, which only people bound, ever comes to its u8 limit.
TypeOK ==
    /\ level \in Readings
    /\ last_key \in Readings
    /\ filter_value \in Readings
    /\ filter_cnt \in 0 .. filter_time
    /\ press_cnt \in 0 .. hold_time - 1
    /\ click_cnt \in 0 .. CntMod - 1
    /\ click_delay_cnt \in 0 .. click_delay_time + 1
    /\ notify_value \in Readings
    /\ event \in [what : {"none", "long", "hold", "up", "clicks"},
                  key : Readings, times : 0 .. 5]
    /\ read \in Readings
    /\ same \in 0 .. filter_time + 1

\* A key counts as pressed or released only after the reading has been the
\* same in more than filter_time scans in a row, whatever it did before.
Debounced ==
    [][last_key' # last_key => same' > filter_time /\ last_key' = read']_vars

\* What the application may know of the state: whether the pressed key has been
\* reported as long, and whose clicks are being counted.
long == last_key # NO_KEY /\ press_cnt >= long_time
series == IF click_cnt = 0 THEN NO_KEY ELSE notify_value
Promise == INSTANCE KeyEvents WITH held <- last_key, count <- click_cnt

\* With time and contacts left out the scan is KeyEvents: what is pressed, which
\* presses count as clicks of which key, what is reported and in which order.
ImplementsKeyEvents == Promise!Spec

\* When the key comes to rest, pressed or not, no click stays unreported.
EveryPressReported ==
    (\E r \in Readings : <>[](level = r)) => <>[](click_cnt = 0)
=============================================================================
