-------------------------- MODULE KeepLocalProofs ---------------------------
(***************************************************************************)
(* Proofs about KeepLocal for any number of files, workers, clients and    *)
(* attempts, with and without restarts.                                    *)
(***************************************************************************)
EXTENDS KeepLocal, TLAPS

\* The statuses the row statements produce.
LEMMA RowStatements ==
  ASSUME NEW s \in Status \ {"moving"}
  PROVE  /\ EnqueueLocal(s) \in Status \ {"moving"}
         /\ ResetInterruptedLocal(s) \in Status \ {"moving"}
         /\ SetLocalFailed(s) \in Status \ {"moving"}
         /\ SetLocalDone(s) \in Status \ {"moving"}
BY DEF Status, EnqueueLocal, Enqueueable, ResetInterruptedLocal, SetLocalFailed, SetLocalDone

-----------------------------------------------------------------------------
(* Type correctness, whatever the callers do.                              *)

LEMMA WorkerTypes ==
  ASSUME TypeOK, NEW w \in Workers, WorkerStep(w)
  PROVE  TypeOK'
<1> USE ConstantsAssumption DEF TypeOK, Goto, WorkerPC, Content, Reattach, RemovePart
<1>1. CASE ClaimNextLocal(w)
  BY <1>1 DEF ClaimNextLocal, Status, clientVars, syncVars
<1>2. CASE Register(w)
  BY <1>2 DEF Register, diskVars, clientVars, syncVars
<1>3. CASE CheckSpace(w)
  BY <1>3 DEF CheckSpace, diskVars, clientVars, syncVars
<1>4. CASE OpenTransfer(w)
  BY <1>4 DEF OpenTransfer, Retry, clientVars, syncVars
<1>5. CASE EndTransfer(w)
  BY <1>5 DEF EndTransfer, Retry, clientVars, syncVars
<1>6. CASE Verify(w)
  BY <1>6 DEF Verify, clientVars, syncVars
<1>7. CASE LookupLocal(w)
  BY <1>7 DEF LookupLocal, clientVars, syncVars
<1>8. CASE LookupFile(w)
  BY <1>8 DEF LookupFile, diskVars, clientVars, syncVars
<1>9. CASE Promote(w)
  BY <1>9 DEF Promote, clientVars, syncVars
<1>10. CASE RemoveStrm(w)
  BY <1>10 DEF RemoveStrm, clientVars, syncVars
<1>11. CASE SetDone(w)
  BY <1>11, RowStatements DEF SetDone, clientVars, syncVars
<1>12. CASE Settle(w)
  BY <1>12, RowStatements DEF Settle, clientVars, syncVars
<1>13. CASE Unregister(w)
  BY <1>13 DEF Unregister, diskVars, clientVars, syncVars
<1> QED
  BY <1>1, <1>2, <1>3, <1>4, <1>5, <1>6, <1>7, <1>8, <1>9, <1>10, <1>11,
     <1>12, <1>13 DEF WorkerStep

LEMMA CallTypes ==
  ASSUME TypeOK, NEW c \in Clients, CallStep(c) \/ NewCall(c)
  PROVE  TypeOK'
<1> USE ConstantsAssumption DEF TypeOK, CallGoto, Return, ClientPC, Content, Reattach, RemovePart
<1>1. ASSUME NEW f \in Files, AddCall(c, f) PROVE TypeOK'
  BY <1>1 DEF AddCall, diskVars, workerVars, syncVars
<1>2. ASSUME NEW f \in Files, RemoveCall(c, f) PROVE TypeOK'
  BY <1>2 DEF RemoveCall, HasCopy, diskVars, workerVars, syncVars
<1>3. CASE Enqueue(c)
  BY <1>3, RowStatements DEF Enqueue, workerVars, syncVars
<1>4. CASE Forget(c)
  BY <1>4 DEF Forget, Status, workerVars, syncVars
<1>5. CASE CancelRunning(c)
  BY <1>5 DEF CancelRunning, diskVars, syncVars
<1>6. CASE RemoveTemp(c)
  <2>1. target[c] \in Files
    BY <1>6 DEF RemoveTemp
  <2>2. /\ part' \in [Files -> Content]
        /\ fd' \in [Workers -> {"none", "part", "copy"}]
    BY <1>6, <2>1 DEF RemoveTemp
  <2>3. UNCHANGED <<row, ahead, tracked, strm, copy, cloud, wpc, job, attempt,
                    cancelled, running, syncVars, phase, calm>>
    BY <1>6 DEF RemoveTemp
  <2>4. /\ cpc' \in [Clients -> ClientPC] /\ sawCopy' \in [Clients -> BOOLEAN]
        /\ target' \in [Clients -> Files \cup {NoFile}]
        /\ \A d \in Clients : target'[d] = NoFile <=> cpc'[d] = "idle"
    <3>1. CASE cpc' = [cpc EXCEPT ![c] = "rmcopy"] /\ UNCHANGED <<target, sawCopy>>
      BY <2>1, <3>1
    <3>2. CASE Return(c)
      BY <3>2
    <3> QED
      BY <1>6, <3>1, <3>2 DEF RemoveTemp
  <2> QED
    BY <2>2, <2>3, <2>4 DEF syncVars
<1>7. CASE RemoveCopy(c)
  BY <1>7 DEF RemoveCopy, syncVars
<1>8. CASE LookupTracked(c)
  <2> USE DEF diskVars, workerVars, syncVars
  <2>1. CASE tracked[target[c]] /\ CallGoto(c, "write") /\ UNCHANGED <<target, sawCopy>>
    BY <1>8, <2>1 DEF LookupTracked
  <2>2. CASE Return(c)
    BY <1>8, <2>2 DEF LookupTracked
  <2> QED
    BY <1>8, <2>1, <2>2 DEF LookupTracked
<1>9. CASE RestoreStrm(c)
  BY <1>9 DEF RestoreStrm, workerVars, syncVars
<1> QED
  BY <1>1, <1>2, <1>3, <1>4, <1>5, <1>6, <1>7, <1>8, <1>9 DEF CallStep, NewCall

LEMMA SyncTypes ==
  ASSUME TypeOK, SyncStep
  PROVE  TypeOK'
<1> USE DEF TypeOK, SyncPC, workerVars, clientVars
<1>1. CASE StartSync
  BY <1>1 DEF StartSync, diskVars
<1>2. CASE UpsertFile
  BY <1>2 DEF UpsertFile
<1>3. CASE KeepLocalRead
  BY <1>3 DEF KeepLocalRead, diskVars
<1>4. CASE FinishFile
  BY <1>4 DEF FinishFile
<1>5. CASE StartPrune
  BY <1>5 DEF StartPrune, diskVars
<1>6. CASE PruneStrm
  BY <1>6 DEF PruneStrm
<1>7. CASE PruneRow
  BY <1>7 DEF PruneRow
<1>8. CASE EndSync
  BY <1>8 DEF EndSync, diskVars
<1> QED
  BY <1>1, <1>2, <1>3, <1>4, <1>5, <1>6, <1>7, <1>8 DEF SyncStep

LEMMA EnvironmentTypes ==
  ASSUME TypeOK,
         (\E f \in Files : CloudChange(f)) \/ Stop \/ Restart \/ BecomeCalm
  PROVE  TypeOK'
<1>1. ASSUME NEW f \in Files, CloudChange(f) PROVE TypeOK'
  BY <1>1 DEF TypeOK, CloudChange, diskVars, workerVars, clientVars, syncVars
<1>2. CASE Stop
  BY <1>2 DEF TypeOK, Stop, diskVars, workerVars, clientVars, syncVars
<1>3. CASE Restart
  BY <1>3, RowStatements, ConstantsAssumption DEF TypeOK, Restart, WorkerPC, ClientPC, SyncPC
<1>4. CASE BecomeCalm
  BY <1>4 DEF TypeOK, BecomeCalm, diskVars, workerVars, clientVars, syncVars
<1> QED
  BY <1>1, <1>2, <1>3, <1>4

\* Every variable keeps its type, also when keys are added again eagerly.
THEOREM TypeCorrect == Spec => []TypeOK
<1>1. ASSUME Init PROVE TypeOK
  <2> USE <1>1 DEF Init
  <2>1. /\ row \in [Files -> Status \ {"moving"}] /\ ahead \in [Files -> SUBSET Files]
        /\ part \in [Files -> Content] /\ copy \in [Files -> Content]
    BY DEF Status, Content
  <2>2. attempt \in [Workers -> 0..MaxAttempts]
    BY ConstantsAssumption
  <2>3. /\ wpc \in [Workers -> WorkerPC] /\ cpc \in [Clients -> ClientPC]
        /\ fd \in [Workers -> {"none", "part", "copy"}]
    BY DEF WorkerPC, ClientPC
  <2>4. /\ \A w \in Workers : job[w] = NoFile <=> wpc[w] = "idle"
        /\ \A c \in Clients : target[c] = NoFile <=> cpc[c] = "idle"
    OBVIOUS
  <2>5. /\ job \in [Workers -> Files \cup {NoFile}]
        /\ target \in [Clients -> Files \cup {NoFile}]
        /\ running \in [Files -> Workers \cup {NoWorker}]
        /\ cancelled \in [Workers -> BOOLEAN] /\ sawCopy \in [Clients -> BOOLEAN]
        /\ tracked \in [Files -> BOOLEAN] /\ strm \in [Files -> BOOLEAN]
    OBVIOUS
  <2> QED
    BY <2>1, <2>2, <2>3, <2>4, <2>5 DEF TypeOK, SyncPC
<1>2. TypeOK /\ [Next]_vars => TypeOK'
  <2> SUFFICES ASSUME TypeOK, [Next]_vars PROVE TypeOK'
    OBVIOUS
  <2>1. CASE UNCHANGED vars
    BY <2>1 DEF TypeOK, vars, diskVars, workerVars, clientVars, syncVars
  <2>2. CASE Next
    BY <2>2, WorkerTypes, CallTypes, SyncTypes, EnvironmentTypes DEF Next
  <2> QED
    BY <2>1, <2>2
<1> QED
  BY <1>1, <1>2, PTL DEF Spec

-----------------------------------------------------------------------------
(* The inductive invariant.  It needs callers that add a key again only     *)
(* when the work on its earlier entry is over (~EagerReenqueue).             *)

LEMMA WorkerSafe ==
  ASSUME IInv, TypeOK', NEW w \in Workers, WorkerStep(w)
  PROVE  IInv'
<1> USE ConstantsAssumption
    DEF IInv, TypeOK, Goto, Reattach, RemovePart, Stopped, OneWorkerPerFile,
        QueuedIsIdle, WorkingIsDownloading, RegisteredIsBusy, WorkerCanBeCancelled, VerifiedIsComplete,
        PromotedIsThere, CopiesComplete, DoneHasCopy, ForgottenStaysForgotten,
        CancelledIsForgotten, OverIsSettled, DownloadingHasWorker
<1>1. CASE ClaimNextLocal(w)
  BY <1>1 DEF ClaimNextLocal, clientVars, syncVars
<1>2. CASE Register(w)
  BY <1>2 DEF Register, diskVars, clientVars, syncVars
<1>3. CASE CheckSpace(w)
  BY <1>3 DEF CheckSpace, diskVars, clientVars, syncVars
<1>4. CASE OpenTransfer(w)
  BY <1>4 DEF OpenTransfer, Retry, clientVars, syncVars
<1>5. CASE EndTransfer(w)
  BY <1>5 DEF EndTransfer, Retry, clientVars, syncVars
<1>6. CASE Verify(w)
  BY <1>6 DEF Verify, clientVars, syncVars
<1>7. CASE LookupLocal(w)
  BY <1>7 DEF LookupLocal, clientVars, syncVars
<1>8. CASE LookupFile(w)
  BY <1>8 DEF LookupFile, diskVars, clientVars, syncVars
<1>9. CASE Promote(w)
  <2>1. /\ wpc[w] = "promote" /\ job[w] \in Files
        /\ UNCHANGED <<row, job, cancelled, running, clientVars, phase>>
    BY <1>9 DEF Promote
  <2>2. CASE copy' = [copy EXCEPT ![job[w]] = "full"] /\ wpc' = [wpc EXCEPT ![w] = "rmstrm"]
             /\ part' = [part EXCEPT ![job[w]] = "none"]
    BY <2>1, <2>2 DEF clientVars
  <2>3. CASE wpc' = [wpc EXCEPT ![w] = "error"] /\ UNCHANGED <<part, copy>>
    BY <2>1, <2>3 DEF clientVars
  <2>4. part[job[w]] \in {"none", "full"}
    BY <2>1 DEF Content
  <2> QED
    BY <1>9, <2>2, <2>3, <2>4 DEF Promote
<1>10. CASE RemoveStrm(w)
  BY <1>10 DEF RemoveStrm, clientVars, syncVars
<1>11. CASE SetDone(w)
  BY <1>11 DEF SetDone, SetLocalDone, clientVars, syncVars
<1>12. CASE Settle(w)
  BY <1>12 DEF Settle, SetLocalFailed, clientVars, syncVars
<1>13. CASE Unregister(w)
  BY <1>13 DEF Unregister, diskVars, clientVars, syncVars
<1> QED
  BY <1>1, <1>2, <1>3, <1>4, <1>5, <1>6, <1>7, <1>8, <1>9, <1>10, <1>11, <1>12, <1>13 DEF WorkerStep

LEMMA CallSafe ==
  ASSUME ~EagerReenqueue, IInv, TypeOK', NEW c \in Clients, CallStep(c) \/ NewCall(c)
  PROVE  IInv'
<1> USE ConstantsAssumption
    DEF IInv, TypeOK, OneWorkerPerFile, QueuedIsIdle, WorkingIsDownloading, RegisteredIsBusy,
        WorkerCanBeCancelled, VerifiedIsComplete, PromotedIsThere, CopiesComplete,
        DoneHasCopy, ForgottenStaysForgotten, CancelledIsForgotten, OverIsSettled,
        DownloadingHasWorker, CallGoto, Return, Reattach, RemovePart
<1>1. ASSUME NEW f \in Files, AddCall(c, f) PROVE IInv'
  BY <1>1 DEF AddCall, diskVars, workerVars, syncVars
<1>2. ASSUME NEW f \in Files, RemoveCall(c, f) PROVE IInv'
  BY <1>2 DEF RemoveCall, diskVars, workerVars, syncVars
<1>3. CASE Enqueue(c)
  BY <1>3 DEF Enqueue, EnqueueLocal, Enqueueable, Quiet, Removing, workerVars, syncVars
<1>4. CASE Forget(c)
  BY <1>4 DEF Forget, workerVars, syncVars
<1>5. CASE CancelRunning(c)
  BY <1>5 DEF CancelRunning, diskVars, syncVars
<1>6. CASE RemoveTemp(c)
  BY <1>6 DEF RemoveTemp, syncVars
<1>7. CASE RemoveCopy(c)
  BY <1>7 DEF RemoveCopy, syncVars
<1>8. CASE LookupTracked(c)
  BY <1>8 DEF LookupTracked, diskVars, workerVars, syncVars
<1>9. CASE RestoreStrm(c)
  BY <1>9 DEF RestoreStrm, workerVars, syncVars
<1> QED
  BY <1>1, <1>2, <1>3, <1>4, <1>5, <1>6, <1>7, <1>8, <1>9 DEF CallStep, NewCall

LEMMA SyncSafe ==
  ASSUME IInv, TypeOK', SyncStep
  PROVE  IInv'
<1> USE ConstantsAssumption
    DEF IInv, TypeOK, OneWorkerPerFile, QueuedIsIdle, WorkingIsDownloading, RegisteredIsBusy,
        WorkerCanBeCancelled, VerifiedIsComplete, PromotedIsThere, CopiesComplete,
        DoneHasCopy, ForgottenStaysForgotten, CancelledIsForgotten, OverIsSettled,
        DownloadingHasWorker, workerVars, clientVars
<1>1. CASE StartSync
  BY <1>1 DEF StartSync, diskVars
<1>2. CASE UpsertFile
  BY <1>2 DEF UpsertFile
<1>3. CASE KeepLocalRead
  BY <1>3 DEF KeepLocalRead, diskVars
<1>4. CASE FinishFile
  BY <1>4 DEF FinishFile
<1>5. CASE StartPrune
  BY <1>5 DEF StartPrune, diskVars
<1>6. CASE PruneStrm
  BY <1>6 DEF PruneStrm
<1>7. CASE PruneRow
  BY <1>7 DEF PruneRow
<1>8. CASE EndSync
  BY <1>8 DEF EndSync, diskVars
<1> QED
  BY <1>1, <1>2, <1>3, <1>4, <1>5, <1>6, <1>7, <1>8 DEF SyncStep

LEMMA EnvironmentSafe ==
  ASSUME IInv, TypeOK',
         (\E f \in Files : CloudChange(f)) \/ Stop \/ Restart \/ BecomeCalm
  PROVE  IInv'
<1> USE ConstantsAssumption
    DEF IInv, TypeOK, OneWorkerPerFile, QueuedIsIdle, WorkingIsDownloading, RegisteredIsBusy,
        WorkerCanBeCancelled, VerifiedIsComplete, PromotedIsThere, CopiesComplete,
        DoneHasCopy, ForgottenStaysForgotten, CancelledIsForgotten, OverIsSettled,
        DownloadingHasWorker
<1>1. ASSUME NEW f \in Files, CloudChange(f) PROVE IInv'
  BY <1>1 DEF CloudChange, diskVars, workerVars, clientVars, syncVars
<1>2. CASE Stop
  BY <1>2 DEF Stop, diskVars, workerVars, clientVars, syncVars
<1>3. CASE Restart
  BY <1>3 DEF Restart, ResetInterruptedLocal, Status
<1>4. CASE BecomeCalm
  BY <1>4 DEF BecomeCalm, diskVars, workerVars, clientVars, syncVars
<1> QED
  BY <1>1, <1>2, <1>3, <1>4

LEMMA InductiveInvariant ==
  ASSUME ~EagerReenqueue
  PROVE  Spec => []IInv
<1>1. ASSUME Init, TypeOK PROVE IInv
  BY <1>1, ConstantsAssumption
     DEF Init, IInv, OneWorkerPerFile, QueuedIsIdle, WorkingIsDownloading, RegisteredIsBusy,
         WorkerCanBeCancelled, VerifiedIsComplete, PromotedIsThere, CopiesComplete,
         DoneHasCopy, ForgottenStaysForgotten, CancelledIsForgotten, OverIsSettled,
         DownloadingHasWorker
<1>2. ASSUME IInv, TypeOK', [Next]_vars PROVE IInv'
  <2>1. CASE UNCHANGED vars
    BY <1>2, <2>1
       DEF vars, diskVars, workerVars, clientVars, syncVars, IInv, OneWorkerPerFile,
           QueuedIsIdle, WorkingIsDownloading, RegisteredIsBusy, WorkerCanBeCancelled, VerifiedIsComplete,
           PromotedIsThere, CopiesComplete, DoneHasCopy, ForgottenStaysForgotten,
           CancelledIsForgotten, OverIsSettled, DownloadingHasWorker
  <2>2. CASE Next
    BY <1>2, <2>2, WorkerSafe, CallSafe, SyncSafe, EnvironmentSafe DEF Next
  <2> QED
    BY <1>2, <2>1, <2>2
<1> QED
  BY <1>1, <1>2, TypeCorrect, PTL DEF Spec

\* Only complete downloads become local copies, whatever attempts, retries,
\* removals, crashes and restarts come in between (download's size check before
\* PromoteLocal).
THEOREM CompleteCopies ==
  ASSUME ~EagerReenqueue
  PROVE  Spec => []CopiesComplete
<1>1. IInv => CopiesComplete
  BY DEF IInv
<1> QED
  BY <1>1, InductiveInvariant, PTL

\* A "done" row always stands for a complete copy on disk.
THEOREM DoneMeansCopy ==
  ASSUME ~EagerReenqueue
  PROVE  Spec => []DoneHasCopy
<1>1. IInv => DoneHasCopy
  BY DEF IInv
<1> QED
  BY <1>1, InductiveInvariant, PTL

\* Each worker has its file, and so its part file, to itself.
THEOREM ExclusiveWorkers ==
  ASSUME ~EagerReenqueue
  PROVE  Spec => []OneWorkerPerFile
<1>1. IInv => OneWorkerPerFile
  BY DEF IInv
<1> QED
  BY <1>1, InductiveInvariant, PTL

\* Remove can cancel a worker at any point after its registration.
THEOREM ReachableWorkers ==
  ASSUME ~EagerReenqueue
  PROVE  Spec => []WorkerCanBeCancelled
<1>1. IInv => WorkerCanBeCancelled
  BY DEF IInv
<1> QED
  BY <1>1, InductiveInvariant, PTL

\* No entry is abandoned: "downloading" means that a worker will settle it.
THEOREM NoAbandonedEntry ==
  ASSUME ~EagerReenqueue
  PROVE  Spec => []DownloadingHasWorker
<1>1. IInv => DownloadingHasWorker
  BY DEF IInv
<1> QED
  BY <1>1, InductiveInvariant, PTL

\* The branch of process that leaves a cancelled job's row alone leaves none.
THEOREM CancelledMeansGone ==
  ASSUME ~EagerReenqueue
  PROVE  Spec => []CancelledRowIsGone
<1>1. IInv => CancelledRowIsGone
  BY DEF IInv, CancelledIsForgotten, CancelledRowIsGone
<1> QED
  BY <1>1, InductiveInvariant, PTL

-----------------------------------------------------------------------------
(* The refinement: every step is a step of LocalLifecycle or changes        *)
(* neither an entry nor the set of kept copies.                             *)

Kept == {f \in Files : copy[f] = "full"}

LEMMA KeepOrDrop ==
  ASSUME NEW f \in Files, Contract!Keep(f) \/ Contract!Drop(f)
  PROVE  Contract!Next
  BY DEF Contract!Next

LEMMA WorkerImplements ==
  ASSUME IInv, NEW w \in Workers, WorkerStep(w)
  PROVE  Contract!Next \/ UNCHANGED <<row, Kept>>
<1> DEFINE f == job[w]
<1> USE DEF Kept
<1>1. CASE ClaimNextLocal(w)
  <2>1. PICK g \in Files : row[g] = "queued" /\ row' = [row EXCEPT ![g] = "downloading"]
    BY <1>1 DEF ClaimNextLocal
  <2>2. Contract!Begin(g)
    BY <1>1, <2>1 DEF ClaimNextLocal, Contract!Begin, Contract!Change
  <2> QED
    BY <2>2 DEF Contract!Next
<1>2. CASE Register(w) \/ CheckSpace(w) \/ OpenTransfer(w) \/ Verify(w)
             \/ LookupLocal(w) \/ LookupFile(w) \/ RemoveStrm(w) \/ Unregister(w)
  BY <1>2 DEF Register, CheckSpace, OpenTransfer, Verify, LookupLocal, LookupFile,
              RemoveStrm, Unregister, diskVars
<1>3. ASSUME wpc[w] \in {"copying", "promote", "setdone", "error"}
      PROVE  f \in Files /\ row[f] \in {"none", "downloading"}
  BY <1>3 DEF IInv, TypeOK, WorkingIsDownloading
<1>4. CASE EndTransfer(w)
  <2>1. row' = row /\ (copy' = copy \/ copy' = [copy EXCEPT ![f] = "full"])
    BY <1>4 DEF EndTransfer
  <2>2. CASE copy' = [copy EXCEPT ![f] = "full"]
    <3>1. PICK g \in Files : g = f
      BY <1>3, <1>4 DEF EndTransfer
    <3>2. Contract!Keep(g)
      BY <1>3, <1>4, <2>1, <2>2, <3>1 DEF EndTransfer, Contract!Keep, IInv, TypeOK
    <3> QED
      BY <3>2, KeepOrDrop
  <2> QED
    BY <2>1, <2>2
<1>5. CASE Promote(w)
  <2>1. row' = row /\ (copy' = copy \/ copy' = [copy EXCEPT ![f] = "full"])
    BY <1>3, <1>5 DEF Promote, IInv, TypeOK, VerifiedIsComplete, Content
  <2>2. CASE copy' = [copy EXCEPT ![f] = "full"]
    <3>1. PICK g \in Files : g = f
      BY <1>3, <1>5 DEF Promote
    <3>2. Contract!Keep(g)
      BY <1>3, <1>5, <2>1, <2>2, <3>1 DEF Promote, Contract!Keep, IInv, TypeOK
    <3> QED
      BY <3>2, KeepOrDrop
  <2> QED
    BY <2>1, <2>2
<1>6. CASE SetDone(w)
  <2>1. copy' = copy /\ (row' = row \/ row' = [row EXCEPT ![f] = SetLocalDone(@)])
    BY <1>6 DEF SetDone
  <2>2. CASE row[f] = "downloading" /\ row' # row
    <3>1. f \in Files /\ copy[f] = "full"
      BY <1>3, <1>6, <2>2 DEF SetDone, IInv, PromotedIsThere
    <3>2. Contract!Finish(f)
      BY <2>1, <2>2, <3>1 DEF SetLocalDone, Contract!Finish, Contract!Change
    <3> QED
      BY <3>1, <3>2 DEF Contract!Next
  <2>3. CASE row[f] = "none" \/ row' = row
    BY <2>1, <2>3 DEF SetLocalDone, IInv, TypeOK
  <2> QED
    BY <1>3, <1>6, <2>2, <2>3 DEF SetDone
<1>7. CASE Settle(w)
  <2>1. copy' = copy /\ (row' = row \/ row' = [row EXCEPT ![f] = SetLocalFailed(@)])
    BY <1>7 DEF Settle
  <2>2. CASE row[f] = "downloading" /\ row' # row
    <3>1. Contract!Fail(f)
      BY <2>1, <2>2 DEF SetLocalFailed, Contract!Fail, Contract!Change
    <3> QED
      BY <1>3, <1>7, <3>1 DEF Settle, Contract!Next
  <2>3. CASE row[f] = "none" \/ row' = row
    BY <2>1, <2>3 DEF SetLocalFailed, IInv, TypeOK
  <2> QED
    BY <1>3, <1>7, <2>2, <2>3 DEF Settle
<1> QED
  BY <1>1, <1>2, <1>4, <1>5, <1>6, <1>7 DEF WorkerStep

LEMMA CallImplements ==
  ASSUME IInv, NEW c \in Clients, CallStep(c) \/ NewCall(c)
  PROVE  Contract!Next \/ UNCHANGED <<row, Kept>>
<1> DEFINE f == target[c]
<1> USE DEF Kept
<1>1. CASE NewCall(c) \/ CancelRunning(c) \/ RemoveTemp(c) \/ LookupTracked(c)
             \/ RestoreStrm(c)
  BY <1>1 DEF NewCall, AddCall, RemoveCall, CancelRunning, RemoveTemp,
              LookupTracked, RestoreStrm, diskVars
<1>2. ASSUME cpc[c] # "idle" PROVE f \in Files
  BY <1>2 DEF IInv, TypeOK
<1>3. CASE Enqueue(c)
  <2>1. copy' = copy /\ row' = [row EXCEPT ![f] = EnqueueLocal(@)] /\ f \in Files
    BY <1>2, <1>3 DEF Enqueue
  <2>2. CASE Enqueueable(row[f])
    <3>1. Contract!Request(f)
      BY <2>1, <2>2 DEF EnqueueLocal, Enqueueable, Contract!Request, Contract!Change
    <3> QED
      BY <2>1, <3>1 DEF Contract!Next
  <2>3. CASE ~Enqueueable(row[f])
    BY <2>1, <2>3 DEF EnqueueLocal, IInv, TypeOK
  <2> QED
    BY <2>2, <2>3
<1>4. CASE Forget(c)
  <2>1. copy' = copy /\ row' = [row EXCEPT ![f] = "none"] /\ f \in Files
    BY <1>2, <1>4 DEF Forget
  <2>2. CASE row[f] # "none"
    <3>1. row[f] \in {"queued", "downloading", "done", "failed"}
      BY <2>1, <2>2 DEF IInv, TypeOK, Status
    <3>2. Contract!Forget(f)
      BY <2>1, <3>1 DEF Contract!Forget, Contract!Change
    <3> QED
      BY <2>1, <3>2 DEF Contract!Next
  <2>3. CASE row[f] = "none"
    <3>1. row' = row
      BY <2>1, <2>3 DEF IInv, TypeOK
    <3> QED
      BY <2>1, <3>1
  <2> QED
    BY <2>2, <2>3
<1>5. CASE RemoveCopy(c)
  <2>1. row' = row /\ copy' = [copy EXCEPT ![f] = "none"] /\ f \in Files
    BY <1>2, <1>5 DEF RemoveCopy
  <2>2. row[f] = "none"
    BY <1>5, <2>1 DEF RemoveCopy, IInv, ForgottenStaysForgotten
  <2>3. PICK g \in Files : g = f
    BY <2>1
  <2>4. Contract!Drop(g)
    BY <2>1, <2>2, <2>3 DEF Contract!Drop, IInv, TypeOK
  <2> QED
    BY <2>3, <2>4, KeepOrDrop
<1> QED
  BY <1>1, <1>3, <1>4, <1>5 DEF CallStep

\* Every behaviour of the queue, with its workers, calls, sync passes, crashes
\* and restarts, is one of LocalLifecycle: an entry only moves along its life
\* cycle, "done" is reached only with the copy on disk, and a finished entry
\* loses neither its status nor its copy until Remove forgets it.
THEOREM Refinement ==
  ASSUME ~EagerReenqueue
  PROVE  Spec => KeepsContract
<1>1. Init => Contract!Init
  BY DEF Init, Contract!Init
<1>2. IInv /\ [Next]_vars => [Contract!Next]_Contract!vars
  <2> SUFFICES ASSUME IInv, [Next]_vars
               PROVE  Contract!Next \/ UNCHANGED <<row, Kept>>
    BY DEF Contract!vars, Kept
  <2>1. CASE UNCHANGED vars
    BY <2>1 DEF vars, diskVars, Kept
  <2>2. CASE SyncStep
    BY <2>2 DEF SyncStep, StartSync, UpsertFile, KeepLocalRead, FinishFile,
                StartPrune, PruneStrm, PruneRow, EndSync, diskVars, Kept
  <2>3. CASE (\E f \in Files : CloudChange(f)) \/ Stop \/ BecomeCalm
    BY <2>3 DEF CloudChange, Stop, BecomeCalm, diskVars, Kept
  <2>4. CASE Restart
    <3>1. Contract!Interrupt
      BY <2>4 DEF Restart, ResetInterruptedLocal, IInv, TypeOK, Contract!Interrupt
    <3> QED
      BY <3>1 DEF Contract!Next
  <2> QED
    BY <2>1, <2>2, <2>3, <2>4, WorkerImplements, CallImplements DEF Next
<1> QED
  BY <1>1, <1>2, InductiveInvariant, PTL DEF Spec, KeepsContract, Contract!Spec

-----------------------------------------------------------------------------
(* What lasts once the queue is left alone.                                  *)

\* A drained queue has nothing to do: only sync passes still take steps.
LEMMA OnlyPasses ==
  ASSUME TypeOK, Drained, [Next]_vars
  PROVE  SyncStep \/ UNCHANGED vars
<1>1. calm /\ phase = "up"
  BY DEF Drained
<1>2. ASSUME NEW w \in Workers, WorkerStep(w) PROVE FALSE
  <2>1. wpc[w] = "idle" /\ \A f \in Files : row[f] # "queued"
    BY DEF Drained
  <2>2. QED
    BY <1>2, <2>1
    DEF WorkerStep, ClaimNextLocal, Register, CheckSpace, OpenTransfer, EndTransfer, Verify,
        LookupLocal, LookupFile, Promote, RemoveStrm, SetDone, Settle, Unregister
<1>3. ASSUME NEW c \in Clients, CallStep(c) \/ NewCall(c) PROVE FALSE
  <2>1. cpc[c] = "idle"
    BY DEF Drained
  <2>2. QED
    BY <1>1, <1>3, <2>1
    DEF CallStep, NewCall, AddCall, RemoveCall, Enqueue, Forget, CancelRunning, RemoveTemp,
        RemoveCopy, LookupTracked, RestoreStrm
<1>4. QED
  BY <1>1, <1>2, <1>3 DEF Next, CloudChange, Stop, Restart, BecomeCalm

\* What passes leave alone.
LEMMA PassesTouch ==
  ASSUME SyncStep \/ UNCHANGED vars
  PROVE  UNCHANGED <<row, copy, cloud, wpc, cpc, phase, calm>>
BY DEF SyncStep, StartSync, UpsertFile, KeepLocalRead, FinishFile, StartPrune, PruneStrm,
       PruneRow, EndSync, vars, diskVars, workerVars, clientVars

\* The safety half of QueueDrains: a queue that has drained stays so, and what its rows
\* say stays what it is.
THEOREM DrainedForGood == Spec => [](Drained => []Drained)
<1>1. TypeOK /\ Drained /\ [Next]_vars => Drained'
  BY OnlyPasses, PassesTouch DEF Drained
<1>2. QED BY <1>1, TypeCorrect, PTL DEF Spec

\* One file after the other, a pass keeps what it has healed: it takes a .strm away
\* only from a title with a finished copy, which DoneHasCopy says is there, or from
\* one that has left the cloud, and writes one only where no copy is finished.
LEMMA HealedStep ==
  ASSUME TypeOK, TypeOK', DoneHasCopy, Healed, [Next]_vars
  PROVE  Healed'
<1>1. SyncStep \/ UNCHANGED vars
  BY OnlyPasses DEF Healed
<1>2. UNCHANGED <<row, copy, cloud, wpc, cpc, phase, calm>>
  BY <1>1, PassesTouch
<1>3. Drained'
  BY <1>2 DEF Healed, Drained
<1>4. /\ spc # "idle" => listing = {f \in Files : cloud[f]}
      /\ spc = "hide" => row[sfile] = "done"
      /\ spc = "write" => row[sfile] # "done"
      /\ spc \in {"prune", "prunerow"} => \A f \in todo : ~cloud[f]
  BY DEF Healed, PassIsCurrent
<1>5. \A f \in Files : cloud[f] => strm[f] \/ copy[f] = "full"
  BY DEF Healed, TitlesPlay
<1>6. \A f \in Files : cloud[f] /\ row[f] = "done" => ~strm[f]
  BY DEF Healed, ListedOnce
<1>7. \A f \in Files : row[f] \in {"none", "done", "failed"}
  BY DEF Healed, Drained
<1>8. SUFFICES PassIsCurrent' /\ TitlesPlay' /\ ListedOnce'
  BY <1>3 DEF Healed
<1>9. CASE UNCHANGED strm
  <2>1. TitlesPlay' /\ ListedOnce'
    BY <1>2, <1>5, <1>6, <1>9 DEF TitlesPlay, ListedOnce
  <2>2. CASE StartSync
    BY <1>2, <2>1, <2>2 DEF StartSync, PassIsCurrent
  <2>3. CASE UpsertFile
    BY <1>2, <1>4, <2>1, <2>3 DEF UpsertFile, PassIsCurrent
  <2>4. CASE KeepLocalRead
    <3>1. sfile \in Files /\ (HasCopy(row[sfile]) <=> row[sfile] = "done")
      BY <1>7, <2>4 DEF KeepLocalRead, TypeOK, HasCopy
    <3>2. phase = "up"
      BY DEF Healed, Drained
    <3>3. QED
      BY <1>2, <1>4, <2>1, <2>4, <3>1, <3>2 DEF KeepLocalRead, PassIsCurrent
  <2>5. CASE StartPrune
    BY <1>2, <1>4, <2>1, <2>5 DEF StartPrune, PassIsCurrent
  <2>6. CASE PruneRow \/ EndSync
    BY <1>2, <1>4, <2>1, <2>6 DEF PruneRow, EndSync, PassIsCurrent
  <2>7. CASE UNCHANGED vars
    BY <1>2, <1>4, <2>1, <2>7 DEF vars, syncVars, PassIsCurrent
  <2>8. CASE FinishFile \/ PruneStrm
    <3>1. UNCHANGED <<listing>> /\ spc \notin {"idle"} /\ spc' \in {"files", "prunerow"}
      BY <2>8 DEF FinishFile, PruneStrm
    <3>2. spc' = "prunerow" => spc = "prune" /\ todo' \subseteq todo
      BY <2>8 DEF FinishFile, PruneStrm
    <3>3. QED BY <1>2, <1>4, <2>1, <3>1, <3>2 DEF PassIsCurrent
  <2>9. QED
    BY <1>1, <2>2, <2>3, <2>4, <2>5, <2>6, <2>7, <2>8 DEF SyncStep
<1>10. CASE FinishFile
  <2>1. /\ sfile \in Files /\ spc \in {"hide", "write"} /\ spc' = "files"
        /\ strm' = [strm EXCEPT ![sfile] = (spc = "write")] /\ listing' = listing
    BY <1>10 DEF FinishFile, TypeOK
  <2>2. PassIsCurrent'
    BY <1>2, <1>4, <2>1 DEF PassIsCurrent
  <2>3. spc = "hide" => copy[sfile] = "full"
    BY <1>4, <2>1 DEF DoneHasCopy
  <2>4. TitlesPlay'
    BY <1>2, <1>5, <2>1, <2>3 DEF TitlesPlay, TypeOK
  <2>5. ListedOnce'
    BY <1>2, <1>4, <1>6, <2>1 DEF ListedOnce, TypeOK
  <2>6. QED BY <2>2, <2>4, <2>5
<1>11. CASE PruneStrm
  <2>1. PICK f \in todo : strm' = [strm EXCEPT ![f] = FALSE] /\ todo' = todo \ {f}
    BY <1>11 DEF PruneStrm
  <2>2. f \in Files /\ ~cloud[f] /\ spc = "prune" /\ spc' = "prunerow" /\ listing' = listing
    BY <1>4, <1>11, <2>1 DEF PruneStrm, TypeOK
  <2>3. PassIsCurrent'
    BY <1>2, <1>4, <2>1, <2>2 DEF PassIsCurrent
  <2>4. TitlesPlay' /\ ListedOnce'
    BY <1>2, <1>5, <1>6, <2>1, <2>2 DEF TitlesPlay, ListedOnce, TypeOK
  <2>5. QED BY <2>3, <2>4
<1>12. QED
  BY <1>1, <1>9, <1>10, <1>11
  DEF SyncStep, StartSync, UpsertFile, KeepLocalRead, StartPrune, PruneRow, EndSync, vars,
      diskVars

\* The safety half of TitlesHeal and DuplicatesHeal: once every title in the cloud plays
\* and none with a copy is listed twice, no later pass undoes it.
THEOREM HealedForGood ==
  ASSUME ~EagerReenqueue
  PROVE  Spec => [](Healed => [](TitlesPlay /\ ListedOnce))
<1>1. TypeOK /\ TypeOK' /\ DoneHasCopy /\ Healed /\ [Next]_vars => Healed'
  BY HealedStep
<1>2. Healed => TitlesPlay /\ ListedOnce
  BY DEF Healed
<1>3. QED BY <1>1, <1>2, TypeCorrect, DoneMeansCopy, PTL DEF Spec
=============================================================================
