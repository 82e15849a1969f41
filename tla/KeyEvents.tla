------------------------------ MODULE KeyEvents ------------------------------
(***************************************************************************)
(* What the key driver (apps/common/device/key/key_driver.c) promises the  *)
(* application, with no scans, filters or counters of time in it.  A key   *)
(* is pressed and released.  One that is held long enough is reported as   *)
(* "long", then as "hold" any number of times, and as "up" when it is      *)
(* released.  Short presses of one key are counted, and after a pause they *)
(* are reported as one event with their number, five standing for more.    *)
(***************************************************************************)
EXTENDS Naturals

CONSTANTS
    Keys,       \* the keys
    NO_KEY,     \* no key, the value read when none is pressed
    CntMod      \* presses are counted modulo this

VARIABLES
    held,       \* the key that is pressed, or NO_KEY
    long,       \* whether it has been reported as long
    series,     \* the key whose short presses are being counted, or NO_KEY
    count,      \* how many there were
    event       \* the last event reported: what, of which key, for clicks how many

vars == <<held, long, series, count, event>>


Init ==
    /\ held = NO_KEY
    /\ long = FALSE
    /\ series = NO_KEY
    /\ count = 0
    /\ event = [what |-> "none", key |-> NO_KEY, times |-> 0]

\* An event ends the series that was being counted.
Report(what, key, times) ==
    /\ event' = [what |-> what, key |-> key, times |-> times]
    /\ series' = NO_KEY
    /\ count' = 0

\* A press of another key begins a new series, and the old one is forgotten.
Press(key) ==
    /\ held # key
    /\ held' = key
    /\ long' = FALSE
    /\ count' = IF key = series THEN (count + 1) % CntMod ELSE 1
    /\ series' = IF count' = 0 THEN NO_KEY ELSE key
    /\ UNCHANGED event

Release ==
    /\ held # NO_KEY /\ ~long
    /\ held' = NO_KEY
    /\ UNCHANGED <<long, series, count, event>>

Long ==
    /\ held # NO_KEY /\ ~long
    /\ Report("long", held, 0)
    /\ long' = TRUE
    /\ UNCHANGED held

Hold ==
    /\ held # NO_KEY /\ long
    /\ Report("hold", held, 0)
    /\ UNCHANGED <<held, long>>

Up ==
    /\ held # NO_KEY /\ long
    /\ Report("up", held, 0)
    /\ held' = NO_KEY
    /\ long' = FALSE

Click ==
    /\ held = NO_KEY /\ count > 0
    /\ Report("clicks", series, IF count < 5 THEN count ELSE 5)
    /\ UNCHANGED <<held, long>>

Next ==
    \/ \E key \in Keys : Press(key)
    \/ Release
    \/ Long
    \/ Hold
    \/ Up
    \/ Click

Spec == Init /\ [][Next]_vars
=============================================================================
