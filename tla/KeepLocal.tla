----------------------------- MODULE KeepLocal ------------------------------
(***************************************************************************)
(* "Keep local": the download queue of internal/download/download.go, with *)
(* the row statements of internal/store/local.go, the file operations of   *)
(* internal/strm/local.go and the sync pass of internal/strm/writer.go as  *)
(* far as one file's .strm and local copy are concerned.                   *)
(*                                                                         *)
(* Who runs at the same time: Concurrency download workers, HTTP handlers  *)
(* serving POST and DELETE /api/local (one call per client at a time), the *)
(* sync loop, the debrid cloud (files come and go), and the operator who   *)
(* stops, kills and starts the server.  The database and the disk survive  *)
(* a restart; everything else is lost.                                     *)
(*                                                                         *)
(* A step is what runs between two points where another actor can act: one *)
(* SQL statement, one file operation, one critical section of Manager.mu.  *)
(* Abstracted: names, sizes and byte counts (a part file is absent, short  *)
(* or complete), progress reports, logging, moves (module LocalMove) and   *)
(* library paths (each file keeps its own).                                *)
(***************************************************************************)
EXTENDS LocalFiles, Naturals

CONSTANTS
  Files,           \* cloud files, each a (provider, torrent, file) key
  Workers,         \* the goroutines of Manager.Run (downloads.concurrency)
  Clients,         \* concurrent callers of the local-copy API
  MaxAttempts,     \* maxAttempts: tries of one transfer
  EagerReenqueue,  \* may a key be added again while a worker or a removal is
                   \* still busy with its earlier entry?
  Faults,          \* does the server stop, die and start again?
  NoFile, NoWorker

ASSUME ConstantsAssumption ==
  /\ MaxAttempts \in Nat \ {0}
  /\ NoFile \notin Files
  /\ NoWorker \notin Workers
  /\ EagerReenqueue \in BOOLEAN
  /\ Faults \in BOOLEAN

VARIABLES
  \* on disk: survive a restart
  row,       \* status of the file's local_files row
  ahead,     \* files whose row was created before this file's row
  tracked,   \* is there a row in table files?
  strm,      \* does the file's .strm exist?
  part,      \* the staged download (tempPath): "none", "short" or "full"
  copy,      \* the local copy at its library path: "none", "short" or "full"
  \* the debrid provider
  cloud,     \* is the file in the debrid cloud?
  \* workers
  wpc, job, attempt,
  cancelled, \* was the context of the worker's job cancelled?
  fd,        \* what the worker's open handle writes to: "none", "part", "copy"
  running,   \* Manager.running: whose cancel function is registered
  \* API calls
  cpc, target,
  sawCopy,   \* HasCopy of the row Remove read first
  \* the sync pass
  spc, sfile, listing, todo,
  \* the process and its environment
  phase,     \* "up", or "stopping" once Run's context is cancelled
  calm       \* from now on nobody adds, removes, stops or changes the cloud

diskVars   == <<row, ahead, tracked, strm, part, copy>>
workerVars == <<wpc, job, attempt, cancelled, fd, running>>
clientVars == <<cpc, target, sawCopy>>
syncVars   == <<spc, sfile, listing, todo>>
vars == <<diskVars, cloud, workerVars, clientVars, syncVars, phase, calm>>

WorkerPC == {"idle", "claimed", "space", "fetch", "copying", "verify", "lookup",
             "getfile", "promote", "rmstrm", "setdone", "error", "over"}
ClientPC == {"idle", "enqueue", "forget", "cancel", "rmpart", "rmcopy",
             "getfile", "write"}
SyncPC   == {"idle", "files", "keep", "hide", "write", "prune", "prunerow"}
Content  == {"none", "short", "full"}

TypeOK ==
  /\ row \in [Files -> Status \ {"moving"}]
  /\ ahead \in [Files -> SUBSET Files]
  /\ tracked \in [Files -> BOOLEAN] /\ strm \in [Files -> BOOLEAN]
  /\ part \in [Files -> Content] /\ copy \in [Files -> Content]
  /\ cloud \in [Files -> BOOLEAN]
  /\ wpc \in [Workers -> WorkerPC]
  /\ job \in [Workers -> Files \cup {NoFile}]
  /\ \A w \in Workers : job[w] = NoFile <=> wpc[w] = "idle"
  /\ attempt \in [Workers -> 0..MaxAttempts]
  /\ cancelled \in [Workers -> BOOLEAN]
  /\ fd \in [Workers -> {"none", "part", "copy"}]
  /\ running \in [Files -> Workers \cup {NoWorker}]
  /\ cpc \in [Clients -> ClientPC]
  /\ target \in [Clients -> Files \cup {NoFile}]
  /\ \A c \in Clients : target[c] = NoFile <=> cpc[c] = "idle"
  /\ sawCopy \in [Clients -> BOOLEAN]
  /\ spc \in SyncPC
  /\ sfile \in Files \cup {NoFile}
  /\ spc \in {"keep", "hide", "write", "prunerow"} => sfile \in Files
  /\ listing \subseteq Files /\ todo \subseteq Files
  /\ phase \in {"up", "stopping"}
  /\ calm \in BOOLEAN

Init ==
  /\ row = [f \in Files |-> "none"]
  /\ ahead = [f \in Files |-> {}]
  /\ tracked = [f \in Files |-> FALSE]
  /\ strm = [f \in Files |-> FALSE]
  /\ part = [f \in Files |-> "none"]
  /\ copy = [f \in Files |-> "none"]
  /\ cloud \in [Files -> BOOLEAN]
  /\ wpc = [w \in Workers |-> "idle"]
  /\ job = [w \in Workers |-> NoFile]
  /\ attempt = [w \in Workers |-> 0]
  /\ cancelled = [w \in Workers |-> FALSE]
  /\ fd = [w \in Workers |-> "none"]
  /\ running = [f \in Files |-> NoWorker]
  /\ cpc = [c \in Clients |-> "idle"]
  /\ target = [c \in Clients |-> NoFile]
  /\ sawCopy = [c \in Clients |-> FALSE]
  /\ spc = "idle" /\ sfile = NoFile /\ listing = {} /\ todo = {}
  /\ phase = "up" /\ calm = FALSE

-----------------------------------------------------------------------------
(* Operators whose names say what they leave out or do wrong are variants a  *)
(* plausible mistake would produce.  No specification uses them: each shows  *)
(* that a property of the README notices the mistake.                        *)

(* Files that several handles may name at once.                            *)

\* The handles of other workers on f: unlinking or renaming a file leaves a
\* handle attached to the inode, not to the name.
Reattach(f, from, to) ==
  [w \in Workers |-> IF job[w] = f /\ fd[w] = from THEN to ELSE fd[w]]

\* os.Remove(m.tempPath(lf))
RemovePart(f) ==
  /\ part' = [part EXCEPT ![f] = "none"]
  /\ fd' = Reattach(f, "part", "none")

(* The worker's job context is done: cancelled by Remove, or by shutdown.  *)
Stopped(w) == phase = "stopping" \/ cancelled[w]

-----------------------------------------------------------------------------
(* Download workers: Manager.worker, process, download, fetch.             *)

Goto(w, pc) == wpc' = [wpc EXCEPT ![w] = pc]

ClaimWithoutMarking(w) ==
  /\ phase = "up" /\ wpc[w] = "idle"
  /\ \E f \in Files : row[f] = "queued" /\ job' = [job EXCEPT ![w] = f]
  /\ Goto(w, "claimed")
  /\ UNCHANGED <<diskVars, cloud, attempt, cancelled, fd, running, clientVars,
                 syncVars, phase, calm>>

\* ClaimNextLocal: the oldest queued row becomes "downloading".  The worker
\* polls at least every 30 s, so a lost wake-up only delays it.
ClaimNextLocal(w) ==
  /\ phase = "up" /\ wpc[w] = "idle"
  /\ \E f \in Files :
       /\ row[f] = "queued"
       /\ \A g \in ahead[f] : row[g] # "queued"
       /\ row' = [row EXCEPT ![f] = "downloading"]
       /\ job' = [job EXCEPT ![w] = f]
  /\ Goto(w, "claimed")
  /\ UNCHANGED <<ahead, tracked, strm, part, copy, cloud, attempt, cancelled,
                 fd, running, clientVars, syncVars, phase, calm>>

RegisterNothing(w) ==
  /\ wpc[w] = "claimed"
  /\ Goto(w, "space")
  /\ UNCHANGED <<diskVars, cloud, job, attempt, cancelled, fd, running,
                 clientVars, syncVars, phase, calm>>

\* process registers the job's cancel function under the file's key.
Register(w) ==
  /\ wpc[w] = "claimed"
  /\ running' = [running EXCEPT ![job[w]] = w]
  /\ Goto(w, "space")
  /\ UNCHANGED <<diskVars, cloud, job, attempt, cancelled, fd, clientVars,
                 syncVars, phase, calm>>

\* download: create the staging folder and check the free space.  Either may
\* fail; a complete part needs no more space.
CheckSpace(w) ==
  /\ wpc[w] = "space"
  /\ \/ Goto(w, "fetch")
     \/ Goto(w, "error")
  /\ attempt' = [attempt EXCEPT ![w] = 1]
  /\ UNCHANGED <<diskVars, cloud, job, cancelled, fd, running, clientVars,
                 syncVars, phase, calm>>

RetryOnceMore(w) ==
  IF attempt[w] <= MaxAttempts /\ ~Stopped(w)
    THEN attempt' = [attempt EXCEPT ![w] = @ + 1] /\ Goto(w, "fetch")
    ELSE Goto(w, "error") /\ UNCHANGED attempt

\* One attempt failed: wait and try again, unless it was the last one, the
\* error is permanent or the job was cancelled.
Retry(w) ==
  IF attempt[w] < MaxAttempts /\ ~Stopped(w)
    THEN /\ attempt' = [attempt EXCEPT ![w] = @ + 1]
         /\ Goto(w, "fetch")
    ELSE /\ Goto(w, "error")
         /\ UNCHANGED attempt

\* fetch up to the first byte: resolve the link, look at the part, send the
\* request and open the part as the answer says.
OpenTransfer(w) ==
  LET f == job[w] IN
  /\ wpc[w] = "fetch"
  /\ \/ /\ ~Stopped(w) /\ part[f] = "full"   \* complete: nothing to request
        /\ Goto(w, "verify")
        /\ UNCHANGED <<part, fd, attempt>>
     \/ /\ ~Stopped(w) /\ part[f] # "full"   \* 206 appends, 200 truncates
        /\ part' = [part EXCEPT ![f] = "short"]
        /\ fd' = [fd EXCEPT ![w] = "part"]
        /\ Goto(w, "copying")
        /\ UNCHANGED attempt
     \/ /\ part[f] = "short"                 \* 416: restart clean
        /\ RemovePart(f)
        /\ Retry(w)
     \/ /\ Retry(w)                          \* no link, no answer, bad status
        /\ UNCHANGED <<part, fd>>
     \/ /\ Goto(w, "error")                  \* permanentError
        /\ UNCHANGED <<part, fd, attempt>>
  /\ UNCHANGED <<row, ahead, tracked, strm, copy, cloud, job, cancelled,
                 running, clientVars, syncVars, phase, calm>>

\* The body ends, the connection breaks or stalls for stallTimeout, or the
\* job's context is cancelled.  A body that ends cleanly may still be of the
\* wrong size.  Bytes go where the handle points.
EndTransfer(w) ==
  LET f == job[w] IN
  /\ wpc[w] = "copying"
  /\ fd' = [fd EXCEPT ![w] = "none"]
  /\ \/ /\ part' = IF fd[w] = "part" THEN [part EXCEPT ![f] = "full"] ELSE part
        /\ copy' = IF fd[w] = "copy" THEN [copy EXCEPT ![f] = "full"] ELSE copy
        /\ Goto(w, "verify")
        /\ UNCHANGED attempt
     \/ /\ Goto(w, "verify")
        /\ UNCHANGED <<part, copy, attempt>>
     \/ /\ Retry(w)
        /\ UNCHANGED <<part, copy>>
  /\ UNCHANGED <<row, ahead, tracked, strm, cloud, job, cancelled, running,
                 clientVars, syncVars, phase, calm>>

VerifyWithoutSize(w) ==
  /\ wpc[w] = "verify"
  /\ IF ~Stopped(w) /\ part[job[w]] # "none" THEN Goto(w, "lookup") ELSE Goto(w, "error")
  /\ UNCHANGED <<diskVars, cloud, job, attempt, cancelled, fd, running,
                 clientVars, syncVars, phase, calm>>

\* After the transfer: a part of the wrong size is deleted and fails.
Verify(w) ==
  LET f == job[w] IN
  /\ wpc[w] = "verify"
  /\ IF ~Stopped(w) /\ part[f] = "full" THEN Goto(w, "lookup") ELSE Goto(w, "error")
  /\ IF ~Stopped(w) /\ part[f] = "short"
       THEN RemovePart(f)
       ELSE UNCHANGED <<part, fd>>
  /\ UNCHANGED <<row, ahead, tracked, strm, copy, cloud, job, attempt,
                 cancelled, running, clientVars, syncVars, phase, calm>>

\* "Removed while the last bytes arrived?  Don't resurrect it."  A query that
\* fails, as it does once the context is done, counts as removed.
LookupLocal(w) ==
  LET f == job[w] IN
  /\ wpc[w] = "lookup"
  /\ \/ /\ ~Stopped(w) /\ row[f] # "none"
        /\ Goto(w, "getfile")
        /\ UNCHANGED <<part, fd>>
     \/ /\ RemovePart(f)
        /\ Goto(w, "error")
  /\ UNCHANGED <<row, ahead, tracked, strm, copy, cloud, job, attempt,
                 cancelled, running, clientVars, syncVars, phase, calm>>

SetDoneWithoutPromote(w) ==
  /\ wpc[w] = "getfile"
  /\ Goto(w, IF ~Stopped(w) /\ tracked[job[w]] THEN "setdone" ELSE "error")
  /\ UNCHANGED <<diskVars, cloud, job, attempt, cancelled, fd, running,
                 clientVars, syncVars, phase, calm>>

\* The file may have left the cloud while it was downloading; the query may
\* fail, too.
LookupFile(w) ==
  /\ wpc[w] = "getfile"
  /\ \/ ~Stopped(w) /\ tracked[job[w]] /\ Goto(w, "promote")
     \/ Goto(w, "error")
  /\ UNCHANGED <<diskVars, cloud, job, attempt, cancelled, fd, running,
                 clientVars, syncVars, phase, calm>>

\* PromoteLocal: rename the part over the copy's path.  The rename looks at
\* neither the context nor the row; it fails when there is no part, or for
\* reasons of the disk's.
Promote(w) ==
  LET f == job[w] IN
  /\ wpc[w] = "promote"
  /\ \/ /\ part[f] # "none"
        /\ copy' = [copy EXCEPT ![f] = part[f]]
        /\ part' = [part EXCEPT ![f] = "none"]
        /\ fd' = [v \in Workers |-> IF job[v] # f \/ fd[v] = "none" THEN fd[v]
                                    ELSE IF fd[v] = "part" THEN "copy" ELSE "none"]
        /\ Goto(w, "rmstrm")
     \/ /\ Goto(w, "error")
        /\ UNCHANGED <<part, copy, fd>>
  /\ UNCHANGED <<row, ahead, tracked, strm, cloud, job, attempt, cancelled,
                 running, clientVars, syncVars, phase, calm>>

\* PromoteLocal: the copy replaces the .strm.
RemoveStrm(w) ==
  /\ wpc[w] = "rmstrm"
  /\ strm' = [strm EXCEPT ![job[w]] = FALSE]
  /\ Goto(w, "setdone")
  /\ UNCHANGED <<row, ahead, tracked, part, copy, cloud, job, attempt,
                 cancelled, fd, running, clientVars, syncVars, phase, calm>>

\* SetLocalDone, with the job's context: it fails when that is done, and may
\* fail for the database's own reasons.
SetDone(w) ==
  LET f == job[w] IN
  /\ wpc[w] = "setdone"
  /\ \/ /\ ~Stopped(w)
        /\ row' = [row EXCEPT ![f] = SetLocalDone(@)]
        /\ Goto(w, "over")
     \/ /\ Goto(w, "error")
        /\ UNCHANGED row
  /\ UNCHANGED <<ahead, tracked, strm, part, copy, cloud, job, attempt,
                 cancelled, fd, running, clientVars, syncVars, phase, calm>>

SettleSilently(w) ==
  /\ wpc[w] = "error"
  /\ Goto(w, "over")
  /\ UNCHANGED <<diskVars, cloud, job, attempt, cancelled, fd, running,
                 clientVars, syncVars, phase, calm>>

\* process after a failed download: on shutdown the row stays "downloading",
\* a cancelled job deletes its part, any other error is recorded.
Settle(w) ==
  LET f == job[w] IN
  /\ wpc[w] = "error"
  /\ Goto(w, "over")
  /\ \/ /\ phase = "stopping"
        /\ UNCHANGED <<row, part, fd>>
     \/ /\ phase = "up" /\ cancelled[w]
        /\ RemovePart(f)
        /\ UNCHANGED row
     \/ /\ phase = "up" /\ ~cancelled[w]
        /\ row' = [row EXCEPT ![f] = SetLocalFailed(@)]
        /\ UNCHANGED <<part, fd>>
  /\ UNCHANGED <<ahead, tracked, strm, copy, cloud, job, attempt, cancelled,
                 running, clientVars, syncVars, phase, calm>>

\* process's deferred cleanup deletes the key's entry, whoever registered it.
Unregister(w) ==
  /\ wpc[w] = "over"
  /\ running' = [running EXCEPT ![job[w]] = NoWorker]
  /\ job' = [job EXCEPT ![w] = NoFile]
  /\ cancelled' = [cancelled EXCEPT ![w] = FALSE]
  /\ attempt' = [attempt EXCEPT ![w] = 0]
  /\ Goto(w, "idle")
  /\ UNCHANGED <<diskVars, cloud, fd, clientVars, syncVars, phase, calm>>

WorkerStep(w) ==
  \/ ClaimNextLocal(w) \/ Register(w) \/ CheckSpace(w) \/ OpenTransfer(w)
  \/ EndTransfer(w) \/ Verify(w) \/ LookupLocal(w) \/ LookupFile(w)
  \/ Promote(w) \/ RemoveStrm(w) \/ SetDone(w) \/ Settle(w) \/ Unregister(w)

-----------------------------------------------------------------------------
(* API calls: POST /api/local (Enqueue) and DELETE /api/local (Remove).     *)

CallGoto(c, pc) == cpc' = [cpc EXCEPT ![c] = pc]

Return(c) ==
  /\ cpc' = [cpc EXCEPT ![c] = "idle"]
  /\ target' = [target EXCEPT ![c] = NoFile]
  /\ sawCopy' = [sawCopy EXCEPT ![c] = FALSE]

Removing(c) == cpc[c] \notin {"idle", "enqueue"}

\* No worker and no other call still works on an earlier entry of f.
Quiet(f) ==
  /\ \A w \in Workers : job[w] # f
  /\ \A c \in Clients : target[c] = f => ~Removing(c)

\* localAdd lists the tracked files and picks the one asked for ...
AddCall(c, f) ==
  /\ phase = "up" /\ ~calm /\ cpc[c] = "idle"
  /\ tracked[f]
  /\ target' = [target EXCEPT ![c] = f]
  /\ CallGoto(c, "enqueue")
  /\ UNCHANGED <<diskVars, cloud, workerVars, sawCopy, syncVars, phase, calm>>

\* ... and queues it, even if it has left the library since.
Enqueue(c) ==
  LET f == target[c] IN
  /\ cpc[c] = "enqueue"
  /\ EagerReenqueue \/ Quiet(f) \/ ~Enqueueable(row[f])
  /\ row' = [row EXCEPT ![f] = EnqueueLocal(@)]
  /\ ahead' = IF row[f] = "none"
                THEN [ahead EXCEPT ![f] = {g \in Files : row[g] # "none"}]
                ELSE ahead
  /\ Return(c)
  /\ UNCHANGED <<tracked, strm, part, copy, cloud, workerVars, syncVars,
                 phase, calm>>

\* Remove reads the row: what it learns of the copy here is what it acts on.
RemoveCall(c, f) ==
  /\ phase = "up" /\ ~calm /\ cpc[c] = "idle"
  /\ row[f] # "none"
  /\ target' = [target EXCEPT ![c] = f]
  /\ sawCopy' = [sawCopy EXCEPT ![c] = HasCopy(row[f])]
  /\ CallGoto(c, "forget")
  /\ UNCHANGED <<diskVars, cloud, workerVars, syncVars, phase, calm>>

\* Variant: goes on although DeleteLocal failed.
ForgetOrNot(c) ==
  LET f == target[c] IN
  /\ cpc[c] = "forget"
  /\ \/ /\ row' = [row EXCEPT ![f] = "none"]
        /\ ahead' = [g \in Files |-> IF g = f THEN {} ELSE ahead[g] \ {f}]
     \/ UNCHANGED <<row, ahead>>
  /\ CallGoto(c, "cancel")
  /\ UNCHANGED <<tracked, strm, part, copy, cloud, workerVars, target, sawCopy,
                 syncVars, phase, calm>>

\* "Forget the entry first so an in-flight worker sees it's gone."
Forget(c) ==
  LET f == target[c] IN
  /\ cpc[c] = "forget"
  /\ row' = [row EXCEPT ![f] = "none"]
  /\ ahead' = [g \in Files |-> IF g = f THEN {} ELSE ahead[g] \ {f}]
  /\ CallGoto(c, "cancel")
  /\ UNCHANGED <<tracked, strm, part, copy, cloud, workerVars, target, sawCopy,
                 syncVars, phase, calm>>

\* Cancel whatever job is registered under the key.
CancelRunning(c) ==
  LET w == running[target[c]] IN
  /\ cpc[c] = "cancel"
  /\ cancelled' = IF w = NoWorker THEN cancelled ELSE [cancelled EXCEPT ![w] = TRUE]
  /\ CallGoto(c, "rmpart")
  /\ UNCHANGED <<diskVars, cloud, wpc, job, attempt, fd, running, target,
                 sawCopy, syncVars, phase, calm>>

RemoveTemp(c) ==
  /\ cpc[c] = "rmpart"
  /\ RemovePart(target[c])
  /\ IF sawCopy[c]
       THEN CallGoto(c, "rmcopy") /\ UNCHANGED <<target, sawCopy>>
       ELSE Return(c)
  /\ UNCHANGED <<row, ahead, tracked, strm, copy, cloud, wpc, job, attempt,
                 cancelled, running, syncVars, phase, calm>>

\* RemoveLocalCopy: delete the copy ...
RemoveCopy(c) ==
  LET f == target[c] IN
  /\ cpc[c] = "rmcopy"
  /\ copy' = [copy EXCEPT ![f] = "none"]
  /\ fd' = Reattach(f, "copy", "none")
  /\ CallGoto(c, "getfile")
  /\ UNCHANGED <<row, ahead, tracked, strm, part, cloud, wpc, job, attempt,
                 cancelled, running, target, sawCopy, syncVars, phase, calm>>

\* ... look whether the title can still be streamed (the query fails when the
\* client has gone away) ...
LookupTracked(c) ==
  /\ cpc[c] = "getfile"
  /\ \/ tracked[target[c]] /\ CallGoto(c, "write") /\ UNCHANGED <<target, sawCopy>>
     \/ Return(c)
  /\ UNCHANGED <<diskVars, cloud, workerVars, syncVars, phase, calm>>

\* ... and put its .strm back.
RestoreStrm(c) ==
  /\ cpc[c] = "write"
  /\ strm' = [strm EXCEPT ![target[c]] = TRUE]
  /\ Return(c)
  /\ UNCHANGED <<row, ahead, tracked, part, copy, cloud, workerVars, syncVars,
                 phase, calm>>

CallStep(c) ==
  \/ Enqueue(c) \/ Forget(c) \/ CancelRunning(c) \/ RemoveTemp(c)
  \/ RemoveCopy(c) \/ LookupTracked(c) \/ RestoreStrm(c)

NewCall(c) == \E f \in Files : AddCall(c, f) \/ RemoveCall(c, f)

-----------------------------------------------------------------------------
(* The sync pass: Writer.SyncProvider.  One pass at a time here; passes that *)
(* overlap are the subject of module CloudSync.                              *)

\* The listing the pass works from.
StartSync ==
  /\ phase = "up" /\ spc = "idle"
  /\ listing' = {f \in Files : cloud[f]}
  /\ todo' = listing'
  /\ spc' = "files"
  /\ UNCHANGED <<diskVars, cloud, workerVars, clientVars, sfile, phase, calm>>

\* UpsertFile for one listed file.
UpsertFile ==
  /\ spc = "files"
  /\ \E f \in todo :
       /\ tracked' = [tracked EXCEPT ![f] = TRUE]
       /\ sfile' = f
       /\ todo' = todo \ {f}
  /\ spc' = "keep"
  /\ UNCHANGED <<row, ahead, strm, part, copy, cloud, workerVars, clientVars,
                 listing, phase, calm>>

KeepAnyEntry ==
  /\ spc = "keep"
  /\ spc' = IF row[sfile] # "none" THEN "hide" ELSE "write"
  /\ UNCHANGED <<diskVars, cloud, workerVars, clientVars, sfile, listing, todo,
                 phase, calm>>

KeepNothing ==
  /\ spc = "keep"
  /\ spc' = "write"
  /\ UNCHANGED <<diskVars, cloud, workerVars, clientVars, sfile, listing, todo,
                 phase, calm>>

\* keepLocal reads the row: a file with a copy needs no .strm.  A query that
\* fails because the server is stopping counts as "no copy".
KeepLocalRead ==
  /\ spc = "keep"
  /\ \/ spc' = IF HasCopy(row[sfile]) THEN "hide" ELSE "write"
     \/ phase = "stopping" /\ spc' = "write"
  /\ UNCHANGED <<diskVars, cloud, workerVars, clientVars, sfile, listing, todo,
                 phase, calm>>

\* keepLocal removes the .strm that would duplicate the copy, or the pass
\* writes it; both act on the row as it was read.
FinishFile ==
  /\ spc \in {"hide", "write"}
  /\ strm' = [strm EXCEPT ![sfile] = (spc = "write")]
  /\ sfile' = NoFile
  /\ spc' = "files"
  /\ UNCHANGED <<row, ahead, tracked, part, copy, cloud, workerVars, clientVars,
                 listing, todo, phase, calm>>

\* Every listed file is done: prune the tracked ones that were not listed.
StartPrune ==
  /\ spc = "files" /\ todo = {}
  /\ todo' = {f \in Files : tracked[f]} \ listing
  /\ spc' = "prune"
  /\ UNCHANGED <<diskVars, cloud, workerVars, clientVars, sfile, listing, phase,
                 calm>>

PruneWithCopy ==
  /\ spc = "prune"
  /\ \E f \in todo :
       /\ strm' = [strm EXCEPT ![f] = FALSE]
       /\ copy' = [copy EXCEPT ![f] = "none"]
       /\ sfile' = f
       /\ todo' = todo \ {f}
  /\ spc' = "prunerow"
  /\ UNCHANGED <<row, ahead, tracked, part, cloud, workerVars, clientVars,
                 listing, phase, calm>>

\* removeStrm: first the file ("a local copy beside it is left in place") ...
PruneStrm ==
  /\ spc = "prune"
  /\ \E f \in todo :
       /\ strm' = [strm EXCEPT ![f] = FALSE]
       /\ sfile' = f
       /\ todo' = todo \ {f}
  /\ spc' = "prunerow"
  /\ UNCHANGED <<row, ahead, tracked, part, copy, cloud, workerVars, clientVars,
                 listing, phase, calm>>

\* ... then its row in table files.
PruneRow ==
  /\ spc = "prunerow"
  /\ tracked' = [tracked EXCEPT ![sfile] = FALSE]
  /\ sfile' = NoFile
  /\ spc' = "prune"
  /\ UNCHANGED <<row, ahead, strm, part, copy, cloud, workerVars, clientVars,
                 listing, todo, phase, calm>>

EndSync ==
  /\ spc = "prune" /\ todo = {}
  /\ spc' = "idle"
  /\ listing' = {}
  /\ UNCHANGED <<diskVars, cloud, workerVars, clientVars, sfile, todo, phase,
                 calm>>

SyncStep ==
  \/ StartSync \/ UpsertFile \/ KeepLocalRead \/ FinishFile
  \/ StartPrune \/ PruneStrm \/ PruneRow \/ EndSync

-----------------------------------------------------------------------------
(* The environment.                                                         *)

\* A file appears in the debrid cloud, or expires from it.
CloudChange(f) ==
  /\ ~calm
  /\ cloud' = [cloud EXCEPT ![f] = ~@]
  /\ UNCHANGED <<diskVars, workerVars, clientVars, syncVars, phase, calm>>

\* SIGTERM: every context derived from Run's is done.
Stop ==
  /\ Faults /\ ~calm /\ phase = "up"
  /\ phase' = "stopping"
  /\ UNCHANGED <<diskVars, cloud, workerVars, clientVars, syncVars, calm>>

\* The process is gone, at whatever point it was (nothing waits for workers,
\* calls or a pass), and a new one begins with ResetInterruptedLocal.
Restart ==
  /\ phase = "stopping" \/ (Faults /\ ~calm)
  /\ row' = [f \in Files |-> ResetInterruptedLocal(row[f])]
  /\ wpc' = [w \in Workers |-> "idle"]
  /\ job' = [w \in Workers |-> NoFile]
  /\ attempt' = [w \in Workers |-> 0]
  /\ cancelled' = [w \in Workers |-> FALSE]
  /\ fd' = [w \in Workers |-> "none"]
  /\ running' = [f \in Files |-> NoWorker]
  /\ cpc' = [c \in Clients |-> "idle"]
  /\ target' = [c \in Clients |-> NoFile]
  /\ sawCopy' = [c \in Clients |-> FALSE]
  /\ spc' = "idle" /\ sfile' = NoFile /\ listing' = {} /\ todo' = {}
  /\ phase' = "up"
  /\ UNCHANGED <<ahead, tracked, strm, part, copy, cloud, calm>>

\* From here on the system is left alone.
BecomeCalm ==
  /\ ~calm
  /\ calm' = TRUE
  /\ UNCHANGED <<diskVars, cloud, workerVars, clientVars, syncVars, phase>>

Next ==
  \/ \E w \in Workers : WorkerStep(w)
  \/ \E c \in Clients : CallStep(c) \/ NewCall(c)
  \/ SyncStep
  \/ \E f \in Files : CloudChange(f)
  \/ Stop \/ Restart \/ BecomeCalm

Spec == Init /\ [][Next]_vars

\* Workers poll the queue on a timer, a transfer ends or stalls, a request runs
\* to its end, the sync loop ticks, and a stopped server is started again.
\* Nobody has to make a call, and nothing has to fail.
Fairness ==
  /\ \A w \in Workers : WF_vars(WorkerStep(w))
  /\ \A c \in Clients : WF_vars(CallStep(c))
  /\ WF_vars(SyncStep)
  /\ WF_vars(phase = "stopping" /\ Restart)

FairSpec == Spec /\ Fairness

-----------------------------------------------------------------------------
(* What the component promises.  Unless EagerReenqueue is set, the caller    *)
(* adds a key again only once the work on its earlier entry has wound down.  *)

\* Only complete downloads become local copies: whatever the transfer, its
\* retries, a removal or a crash left in the staging folder, Jellyfin never
\* sees a short file (download's size check before PromoteLocal).
CopiesComplete == \A f \in Files : copy[f] # "short"

\* A row says "done" only while the copy it stands for is on disk
\* (LocalFile.HasCopy: "a playable local file exists"), through removals,
\* sync passes, restarts and failures at any point.
DoneHasCopy == \A f \in Files : row[f] = "done" => copy[f] = "full"

\* Two workers never work on the same file: they would share its staging file
\* and its entry in running (ClaimNextLocal).
OneWorkerPerFile ==
  \A v, w \in Workers : job[v] = job[w] /\ job[v] # NoFile => v = w

\* A row says "downloading" only while a worker is at it, unless the server is
\* stopping (ResetInterruptedLocal then queues it again): nobody would ever pick
\* it up, and Enqueue would refuse to queue it.
DownloadingHasWorker ==
  \A f \in Files : row[f] = "downloading" /\ phase = "up" =>
    \E w \in Workers : job[w] = f /\ wpc[w] # "over"

\* Remove can always reach the worker on a file: the key's entry in running is
\* that worker's, from its first step to its last.
WorkerCanBeCancelled ==
  \A w \in Workers : wpc[w] \notin {"idle", "claimed"} => running[job[w]] = w

\* process: "Removed by the user mid-download; its row is already gone."  The
\* branch leaves the row alone, so a row that is there stays "downloading".
CancelledRowIsGone ==
  \A w \in Workers : wpc[w] = "error" /\ cancelled[w] /\ phase = "up"
                        => row[job[w]] = "none"

\* What the properties above rest on, step by step: together they are
\* inductive as long as no key is added again while earlier work on it lasts.
QueuedIsIdle ==   \* a queued file is in no worker's hands
  \A w \in Workers : job[w] # NoFile => row[job[w]] # "queued"
WorkingIsDownloading ==   \* ... and one being worked on is "downloading" until settled
  \A w \in Workers : wpc[w] \notin {"idle", "over"} => row[job[w]] \in {"none", "downloading"}
RegisteredIsBusy ==   \* a registered cancel function belongs to that key's worker
  \A f \in Files : running[f] # NoWorker => job[running[f]] = f
VerifiedIsComplete ==   \* past the size check a part may vanish, not shrink
  \A w \in Workers : wpc[w] \in {"lookup", "getfile", "promote"} => part[job[w]] # "short"
PromotedIsThere ==   \* a promoted copy is there unless its row was forgotten
  \A w \in Workers : wpc[w] \in {"rmstrm", "setdone"} =>
    row[job[w]] = "none" \/ copy[job[w]] = "full"
ForgottenStaysForgotten ==   \* what Remove deletes belongs to no row
  \A c \in Clients : cpc[c] \in {"cancel", "rmpart", "rmcopy", "getfile", "write"} =>
    row[target[c]] = "none"
CancelledIsForgotten ==
  \A w \in Workers : cancelled[w] => job[w] # NoFile /\ row[job[w]] = "none"
OverIsSettled ==
  \A w \in Workers : wpc[w] = "over" /\ phase = "up" => row[job[w]] # "downloading"

IInv ==
  /\ TypeOK
  /\ OneWorkerPerFile /\ QueuedIsIdle /\ WorkingIsDownloading
  /\ RegisteredIsBusy /\ WorkerCanBeCancelled
  /\ VerifiedIsComplete /\ PromotedIsThere /\ CopiesComplete /\ DoneHasCopy
  /\ ForgottenStaysForgotten /\ CancelledIsForgotten
  /\ OverIsSettled /\ DownloadingHasWorker

\* Remove "cancels an in-flight download or deletes a finished local copy":
\* once it has returned and no worker is left on the file, no copy without a
\* row stays behind, which no page lists and no call could delete.
NoOrphanCopy ==
  \A f \in Files : Quiet(f) /\ row[f] = "none" => copy[f] = "none"

\* The queue as its users see it: an entry's status, and whether a complete
\* copy is on disk.
Contract == INSTANCE LocalLifecycle
              WITH entry <- row, kept <- {f \in Files : copy[f] = "full"}

\* Every step of the workers, calls, passes and restarts is one step of the
\* life cycle or none: in particular a finished entry neither regresses nor
\* loses its file except by Remove.
KeepsContract == Contract!Spec

\* Left alone, the queue drains: every entry ends as a copy or a failure, every
\* call returns and every worker goes back to waiting.
QueueDrains ==
  calm ~> \A f \in Files : Quiet(f) /\ row[f] \in {"none", "done", "failed"}

\* Left alone, sync passes repair whatever races, removals and crashes left:
\* every title in the cloud ends up playable for good, by .strm or by copy.
TitlesPlay == \A f \in Files : cloud[f] => strm[f] \/ copy[f] = "full"

TitlesHeal == <>calm => <>[]TitlesPlay

\* ... and a title with a finished copy ends up listed once, without a .strm
\* that duplicates it (keepLocal).
ListedOnce == \A f \in Files : cloud[f] /\ row[f] = "done" => ~strm[f]

DuplicatesHeal == <>calm => <>[]ListedOnce

-----------------------------------------------------------------------------
(* The states in which these promises are kept, and stay kept.              *)

\* Nothing is queued, in progress or being asked for.
Drained ==
  /\ calm /\ phase = "up"
  /\ \A w \in Workers : wpc[w] = "idle"
  /\ \A c \in Clients : cpc[c] = "idle"
  /\ \A f \in Files : row[f] \in {"none", "done", "failed"}

\* What the pass under way has read is still so.
PassIsCurrent ==
  /\ spc # "idle" => listing = {f \in Files : cloud[f]}
  /\ spc = "hide" => row[sfile] = "done"
  /\ spc = "write" => row[sfile] # "done"
  /\ spc \in {"prune", "prunerow"} => \A f \in todo : ~cloud[f]

Healed == Drained /\ PassIsCurrent /\ TitlesPlay /\ ListedOnce
=============================================================================
