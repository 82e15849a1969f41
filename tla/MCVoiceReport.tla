--------------------------- MODULE MCVoiceReport ---------------------------
(* VoiceReport over readings with every pattern of zeros, any acquisition may *)
(* fail and the application may stop the player.                              *)
EXTENDS VoiceReport

MCFails == {"decode_fp", "ump3_decode_buf", "pcm_obuf", "format", "rs_buf", "rs_open"}
MCCalls == {"stop"}

Numbers == {0, 7, 10, 20, 60, 99, 100, 101, 110, 119, 500, 999, 1000}
MCReadings == {[pulse |-> n, sbp |-> 119, dbp |-> 80] : n \in Numbers}
    \cup {[pulse |-> 72, sbp |-> n, dbp |-> 101] : n \in Numbers}
    \cup {[pulse |-> 60, sbp |-> 100, dbp |-> n] : n \in Numbers}
=============================================================================
