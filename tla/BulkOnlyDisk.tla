---------------------------- MODULE BulkOnlyDisk ----------------------------
(***************************************************************************)
(* What a mass storage device promises its host: commands are answered one *)
(* at a time; a command that is answered "passed" has been carried out on  *)
(* the disk of its unit; blocks change by the command that is outstanding  *)
(* and by nothing else; the host never gets a block that is not on the     *)
(* disk.  Blocks that the medium fails to move are excepted, as the device *)
(* need not notice.                                                        *)
(***************************************************************************)
EXTENDS Integers, Sequences

CONSTANTS
    Disks,      \* the media
    NoDisk,     \* what a unit without a disk is served by
    Units,      \* the logical units
    Capacity,   \* blocks on a disk
    Values,     \* contents of a block
    Commands    \* what the host may send

VARIABLES
    media,      \* media[d][b] is block b of disk d
    serves,     \* serves[u] is the disk of unit u
    cmd,        \* the outstanding command; the last one when it is answered
    received,   \* the blocks that the host has got for it
    bad,        \* blocks that the medium has failed to move for it
    answer      \* "none" while a command is outstanding

vars == <<media, serves, cmd, received, bad, answer>>

Blocks(c) == c.lba..(c.lba + c.num - 1)
Outstanding(op) == answer = "none" /\ cmd.op = op

Init ==
    /\ media \in [Disks -> [0..(Capacity - 1) -> Values]]
    /\ serves \in [Units -> Disks \cup {NoDisk}]
    /\ cmd \in Commands
    /\ received = <<>> /\ bad = {}
    /\ answer = "ready"

\* Disks are attached to units and taken away.
Attach ==
    /\ serves' \in [Units -> Disks \cup {NoDisk}]
    /\ UNCHANGED <<media, cmd, received, bad, answer>>

Submit(c) ==
    /\ answer # "none"
    /\ cmd' = c
    /\ answer' = "none"
    /\ UNCHANGED <<media, serves, received, bad>>

\* Some of the blocks that the command is about cannot be moved.
Fail ==
    /\ answer = "none" /\ serves[cmd.lun] # NoDisk
    /\ \E F \in SUBSET Blocks(cmd) : bad' = bad \cup F

\* The media once the blocks S of disk d hold the value of the command.
Filled(d, S) == [media EXCEPT ![d] = [b \in DOMAIN @ |-> IF b \in S THEN cmd.val ELSE @[b]]]

\* Some of the blocks that a write is about take their new value.
Store ==
    /\ Outstanding("WRITE_10")
    /\ UNCHANGED <<serves, cmd, received, answer>>
    /\ Fail
    /\ \E S \in SUBSET Blocks(cmd) : media' = Filled(serves[cmd.lun], S)

\* A read goes on without those.
Skip == UNCHANGED <<media, serves, cmd, received, answer>> /\ Fail

\* The host receives the next blocks.
Deliver ==
    /\ Outstanding("READ_10")
    /\ serves[cmd.lun] # NoDisk
    /\ received' \in Seq(Values)
    /\ Len(received') \in (Len(received) + 1)..cmd.num
    /\ \A i \in 1..Len(received') :
         LET b == cmd.lba + i - 1
         IN  IF i <= Len(received) THEN received'[i] = received[i]
             ELSE b \in bad \/ received'[i] = media[serves[cmd.lun]][b]
    /\ UNCHANGED <<media, serves, cmd, bad, answer>>

Done ==
    /\ cmd.op = "WRITE_10" /\ cmd.num > 0 =>
         /\ serves[cmd.lun] # NoDisk
         /\ \A b \in Blocks(cmd) \ bad : media[serves[cmd.lun]][b] = cmd.val
    /\ cmd.op = "READ_10" => Len(received) = cmd.num

Answer(result) ==
    /\ answer = "none"
    /\ result = "passed" => Done
    /\ answer' = result
    /\ received' = <<>> /\ bad' = {}
    /\ UNCHANGED <<media, serves, cmd>>

\* The device is taken away and comes back.
Reset ==
    /\ answer # "none"
    /\ answer' = "ready"
    /\ serves' \in [Units -> Disks \cup {NoDisk}]
    /\ UNCHANGED <<media, cmd, received, bad>>

\* "lost": the host has given the command up.
Next ==
    \/ Attach \/ Store \/ Skip \/ Deliver \/ Reset
    \/ \E c \in Commands : Submit(c)
    \/ \E result \in {"passed", "failed", "lost"} : Answer(result)

Spec == Init /\ [][Next]_vars
=============================================================================
