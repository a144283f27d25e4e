----------------------------- MODULE MCLocalMove -----------------------------
(* Small instances of LocalMove.                                              *)
EXTENDS LocalMove, TLC
=============================================================================
