----------------------------- MODULE LocalFiles -----------------------------
(***************************************************************************)
(* The rows of table local_files (internal/store/local.go) seen one row at *)
(* a time: each operator maps the status of a row to what one SQL          *)
(* statement leaves in it.  "none" stands for a row that does not exist;   *)
(* an UPDATE whose WHERE clause selects nothing leaves the row as it was.  *)
(* Every statement is a single SQLite write on the store's only            *)
(* connection, so a module that uses these operators makes each of them    *)
(* one atomic step.                                                        *)
(***************************************************************************)

\* LocalQueued ... LocalMoving, and no row at all.
Status == {"none", "queued", "downloading", "done", "failed", "moving"}

\* LocalFile.HasCopy
HasCopy(s) == s \in {"done", "moving"}

\* EnqueueLocal inserts a new row or re-queues a failed one ...
Enqueueable(s) == s \in {"none", "failed"}

\* ... and leaves every other row alone.
EnqueueLocal(s) == IF Enqueueable(s) THEN "queued" ELSE s

\* Variant: a restart that only ends moves.
ResetOnlyMoves(s) == IF s = "moving" THEN "done" ELSE s

\* ResetInterruptedLocal: downloads cut off by a restart are queued again, a
\* cut-off move ends with the copy at its old path.
ResetInterruptedLocal(s) ==
  CASE s = "downloading" -> "queued"
    [] s = "moving"      -> "done"
    [] OTHER             -> s

\* SetLocalFailed and SetLocalDone update the row whatever its status is ...
SetLocalFailed(s) == IF s = "none" THEN s ELSE "failed"
SetLocalDone(s)   == IF s = "none" THEN s ELSE "done"

\* ... while StartMove, FinishMove and EndMove name the status they expect and
\* report whether a row was changed.
StartMove(s) == IF s = "done" THEN "moving" ELSE s
EndMove(s)   == IF s = "moving" THEN "done" ELSE s
FinishMove(s) == EndMove(s)
=============================================================================
