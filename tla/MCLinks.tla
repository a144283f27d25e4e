------------------------------ MODULE MCLinks --------------------------------
(* Small instances of Links.                                                  *)
EXTENDS Links, TLC
=============================================================================
