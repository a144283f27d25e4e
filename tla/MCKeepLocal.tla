---------------------------- MODULE MCKeepLocal -----------------------------
(* Small instances of KeepLocal.  Workers and clients are interchangeable.   *)
EXTENDS KeepLocal, TLC

Symmetry == Permutations(Workers) \cup Permutations(Clients)
=============================================================================
