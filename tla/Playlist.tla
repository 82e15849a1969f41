------------------------------ MODULE Playlist ------------------------------
(***************************************************************************)
(* What the voice module promises (voice_demo.c, voice.h): the tones of a  *)
(* list sound one after the other, each to its end, and then it is quiet.  *)
(* A list may be cut short, when it is stopped or a tone cannot be played, *)
(* but it never skips a tone or goes back.                                 *)
(***************************************************************************)
EXTENDS Integers

CONSTANT Lengths        \* the lengths a list may have

VARIABLES
    total,  \* length of the current list
    item,   \* index of the tone that is starting, sounds or has just ended
    phase   \* what becomes of that tone

vars == <<total, item, phase>>

Init == total = 0 /\ item = 0 /\ phase = "quiet"

\* A new list replaces whatever was played.
Begin(n) ==
    /\ total' = n
    /\ item' = 0
    /\ phase' = "starting"

Sound ==
    /\ phase = "starting"
    /\ phase' = "sounding"
    /\ UNCHANGED <<total, item>>

ToneEnds ==
    /\ phase = "sounding"
    /\ phase' = "ended"
    /\ UNCHANGED <<total, item>>

NextTone ==
    /\ phase = "ended"
    /\ item + 1 < total
    /\ item' = item + 1
    /\ phase' = "starting"
    /\ UNCHANGED total

ListEnds ==
    /\ phase = "ended"
    /\ item + 1 >= total
    /\ phase' = "quiet"
    /\ UNCHANGED <<total, item>>

\* A tone that cannot be played, or is stopped, is the last of its list.
CutShort ==
    /\ phase \in {"starting", "sounding"}
    /\ phase' = "quiet"
    /\ UNCHANGED <<total, item>>

Progress == Sound \/ ToneEnds \/ NextTone \/ ListEnds
Next == Progress \/ CutShort \/ \E n \in Lengths : Begin(n)

Spec == Init /\ [][Next]_vars
FairSpec == Spec /\ WF_vars(Progress)

TypeOK ==
    /\ total \in Lengths \cup {0}
    /\ item \in Nat
    /\ phase \in {"quiet", "starting", "sounding", "ended"}

\* The promise in one formula: it becomes quiet after every list.
BecomesQuiet == phase # "quiet" ~> phase = "quiet"
=============================================================================
