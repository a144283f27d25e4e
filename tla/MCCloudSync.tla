----------------------------- MODULE MCCloudSync -----------------------------
(* Small instances of CloudSync.                                              *)
EXTENDS CloudSync, TLC
=============================================================================
