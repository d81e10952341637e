----------------------------- MODULE MCChecksum -----------------------------
(* Checksum with words of four bits: sums count modulo 15, an accumulator  *)
(* has 256 values, and a segment has as many words as it holds without a   *)
(* lost carry.  The number of UDP does not fit four bits; another stands   *)
(* for it.                                                                 *)
EXTENDS Checksum
=============================================================================
