----------------------------- MODULE MCWatchlist -----------------------------
(* Small instances of Watchlist.                                              *)
EXTENDS Watchlist, TLC
=============================================================================
