---------------------------- MODULE MCListRewrite ----------------------------
(* Instance of ListRewrite: Uint64 arithmetic modulo 2^8, streams of up to *)
(* two elements 0 or 1, counts 0 .. 2.                                     *)
EXTENDS ListRewrite

MCUintMod == 2^8
==============================================================================
