--------------------------- MODULE LocalLifecycle ---------------------------
(***************************************************************************)
(* What "keep local" promises about one entry and its file on disk,        *)
(* without workers, calls, sync passes or crashes: an entry is requested,  *)
(* downloaded and finished or failed; once finished it stays finished, and *)
(* its file stays on disk, until somebody asks for it to be forgotten      *)
(* ("Local copies are never deleted by sync", README).                     *)
(***************************************************************************)
CONSTANT Files

VARIABLES
  entry,  \* status of the entry: "none" when there is none
  kept    \* files of which a complete copy is on disk

vars == <<entry, kept>>

Init == entry = [f \in Files |-> "none"] /\ kept = {}

\* The only ways an entry changes.
Change(f, from, to) ==
  /\ entry[f] \in from
  /\ entry' = [entry EXCEPT ![f] = to]
  /\ UNCHANGED kept

Request(f) == Change(f, {"none", "failed"}, "queued")
Begin(f)   == Change(f, {"queued"}, "downloading")
Fail(f)    == Change(f, {"downloading"}, "failed")
Finish(f)  == f \in kept /\ Change(f, {"downloading"}, "done")
Forget(f)  == Change(f, {"queued", "downloading", "done", "failed"}, "none")

\* A restart queues unfinished downloads again, and touches nothing else.
Interrupt ==
  /\ entry' = [f \in Files |-> IF entry[f] = "downloading" THEN "queued" ELSE entry[f]]
  /\ UNCHANGED kept

\* A copy arrives for an entry being downloaded, or forgotten meanwhile; it is
\* deleted only once its entry is forgotten.
Keep(f) == entry[f] \in {"downloading", "none"} /\ kept' = kept \cup {f} /\ UNCHANGED entry
Drop(f) == entry[f] = "none" /\ kept' = kept \ {f} /\ UNCHANGED entry

Next ==
  \/ \E f \in Files : Request(f) \/ Begin(f) \/ Fail(f) \/ Finish(f) \/ Forget(f)
                        \/ Keep(f) \/ Drop(f)
  \/ Interrupt

Spec == Init /\ [][Next]_vars

\* A finished entry always has its file: what the contract is for.
FinishedIsKept == \A f \in Files : entry[f] = "done" => f \in kept
=============================================================================
