------------------------------ MODULE MCDecode ------------------------------
(* Decode on a small instance: a frame is larger than what one interrupt     *)
(* reads, and a frame just fits above the threshold, as in decode.c (720*2,  *)
(* 18*64*2 and 18*64*4 bytes).                                               *)
EXTENDS Decode

AllFails == {"ump3_decode_buf", "pcm_obuf", "decode_fp", "format", "rs_buf", "rs_open"}
AllCalls == {"tone", "pause", "stop", "uninit"}
=============================================================================
