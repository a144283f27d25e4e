-------------------------- MODULE LocalMoveProofs ---------------------------
(***************************************************************************)
(* Proofs about LocalMove for any files, places, calls, moves and sync     *)
(* passes, with and without faults.                                        *)
(***************************************************************************)
EXTENDS LocalMove, TLAPS

\* A move leads into the download folder, out of the library.
LEMMA PathFacts ==
  ASSUME NEW p \in Paths
  PROVE  /\ Root(p) \in {"library", "folder"}
         /\ MoveTarget(p) \in Paths /\ Root(MoveTarget(p)) = "folder"
         /\ Root(p) = "library" => p # MoveTarget(p)
BY DEF Paths, Root, MoveTarget


-----------------------------------------------------------------------------
(* Types.                                                                  *)

LEMMA CallTypes ==
  ASSUME IInv, NEW c \in Clients,
         CallStep(c) \/ \E f \in Files : MoveCall(c, f) \/ RemoveCall(c, f)
  PROVE  TypeOK'
<1> USE ConstantsAssumption
    DEF IInv, TypeOK, CallGoto, Return, MaybePath, CallsSawAPath
<1>1. ASSUME NEW f \in Files, MoveCall(c, f) \/ RemoveCall(c, f) PROVE TypeOK'
  BY <1>1 DEF MoveCall, RemoveCall, ReadRow, diskVars, moverVars, passVars
<1>2. CASE StartMoving(c)
  BY <1>2 DEF StartMoving, StartMove, moverVars, passVars
<1>3. CASE Spawn(c)
  BY <1>3 DEF Spawn, diskVars, passVars
<1>4. CASE Forget(c)
  BY <1>4 DEF Forget, moverVars, passVars
<1>5. CASE CancelRunning(c)
  BY <1>5 DEF CancelRunning, diskVars, passVars
<1>6. CASE RemoveTemp(c)
  BY <1>6 DEF RemoveTemp, moverVars, passVars
<1>7. CASE RemoveCopy(c)
  BY <1>7 DEF RemoveCopy, moverVars, passVars
<1> QED
  BY <1>1, <1>2, <1>3, <1>4, <1>5, <1>6, <1>7 DEF CallStep

LEMMA MoverTypes ==
  ASSUME IInv, NEW m \in Movers, MoverStep(m)
  PROVE  TypeOK'
<1> USE ConstantsAssumption DEF IInv, TypeOK, Goto, MaybePath
<1>1. CASE TakeTurn(m)
  BY <1>1 DEF TakeTurn, diskVars, clientVars, passVars
<1>2. CASE GiveUp(m)
  BY <1>2 DEF GiveUp, diskVars, clientVars, passVars
<1>3. CASE OpenSource(m)
  BY <1>3 DEF OpenSource, diskVars, clientVars, passVars
<1>4. CASE Stage(m)
  BY <1>4 DEF Stage, clientVars, passVars
<1>5. CASE CopyData(m)
  BY <1>5 DEF CopyData, diskVars, clientVars, passVars
<1>6. CASE RenameCopy(m)
  <2>1. mpc[m] = "rename" /\ from[m] \in Paths /\ mjob[m] \in Files
    BY <1>6 DEF RenameCopy
  <2>2. MoveTarget(from[m]) \in Paths
    BY <2>1, PathFacts
  <2>3. \/ disk' = disk /\ staged' = staged
        \/ /\ disk' = [disk EXCEPT ![mjob[m]] = @ \cup {MoveTarget(from[m])}]
           /\ staged' = [staged EXCEPT ![mjob[m]] = FALSE]
    BY <1>6 DEF RenameCopy
  <2>4. staged' \in [Files -> BOOLEAN]
    BY <2>1, <2>3
  <2>5. disk' \in [Files -> SUBSET Paths]
    <3>1. CASE disk' = disk
      BY <3>1
    <3>2. CASE disk' = [disk EXCEPT ![mjob[m]] = @ \cup {MoveTarget(from[m])}]
      <4>1. disk[mjob[m]] \cup {MoveTarget(from[m])} \in SUBSET Paths
        BY <2>1, <2>2
      <4> QED
        BY <2>1, <3>2, <4>1
    <3> QED
      BY <2>3, <3>1, <3>2
  <2> QED
    BY <1>6, <2>4, <2>5 DEF RenameCopy, clientVars, passVars
<1>7. CASE RecordMove(m)
  BY <1>7, PathFacts DEF RecordMove, FinishMove, EndMove, clientVars, passVars
<1>8. CASE DeleteStale(m)
  BY <1>8 DEF DeleteStale, clientVars, passVars
<1>9. CASE FailMove(m)
  BY <1>9 DEF FailMove, EndMove, clientVars, passVars
<1>10. CASE Leave(m)
  BY <1>10 DEF Leave, diskVars, clientVars, passVars
<1> QED
  BY <1>1, <1>2, <1>3, <1>4, <1>5, <1>6, <1>7, <1>8, <1>9, <1>10 DEF MoverStep

LEMMA PassTypes ==
  ASSUME IInv, NEW s \in Passes, PassStep(s) \/ \E f \in Files : ReadCopy(s, f)
  PROVE  TypeOK'
<1> USE ConstantsAssumption
    DEF IInv, TypeOK, PassReturn, MaybePath, PassesKeepTheRoot
<1>1. ASSUME NEW f \in Files, ReadCopy(s, f) PROVE TypeOK'
  BY <1>1 DEF ReadCopy, Paths, Root, diskVars, moverVars, clientVars
<1>2. CASE Relocate(s)
  BY <1>2 DEF Relocate, moverVars, clientVars
<1>3. CASE SetLocalPath(s)
  BY <1>3 DEF SetLocalPath, moverVars, clientVars
<1> QED
  BY <1>1, <1>2, <1>3 DEF PassStep

LEMMA EnvironmentTypes ==
  ASSUME IInv, Stop \/ Restart
  PROVE  TypeOK'
<1>1. CASE Stop
  BY <1>1 DEF IInv, TypeOK, Stop, diskVars, moverVars, clientVars, passVars
<1>2. CASE Restart
  BY <1>2, ConstantsAssumption DEF IInv, TypeOK, Restart, ResetInterruptedLocal, MaybePath
<1> QED
  BY <1>1, <1>2

-----------------------------------------------------------------------------
(* The rest of the inductive invariant.                                    *)

LEMMA CallSafe ==
  ASSUME IInv, TypeOK', NEW c \in Clients,
         CallStep(c) \/ \E f \in Files : MoveCall(c, f) \/ RemoveCall(c, f)
  PROVE  IInv'
<1> USE ConstantsAssumption
    DEF IInv, TypeOK, CallGoto, Return, CallsSawAPath, PassesKeepTheRoot, MoversMove,
        SpawningMoves, OneMove, Moving, Active, ForgottenBeforeDeleted, MovedIsThere,
        StaleIsOriginal, SomewhereOnDisk
<1>1. ASSUME NEW f \in Files, MoveCall(c, f) \/ RemoveCall(c, f) PROVE IInv'
  <2>1. /\ UNCHANGED <<diskVars, moverVars, passVars, phase>>
        /\ target' = [target EXCEPT ![c] = f] /\ seen' = [seen EXCEPT ![c] = path[f]]
        /\ \/ cpc' = [cpc EXCEPT ![c] = "start"] /\ Root(path[f]) = "library"
           \/ cpc' = [cpc EXCEPT ![c] = "forget"]
    BY <1>1 DEF MoveCall, RemoveCall, ReadRow
  <2>2. UNCHANGED <<row, disk, mpc, mjob, stale, spc, sfile, sfrom, want>> /\ path[f] \in Paths
    BY <2>1 DEF diskVars, moverVars, passVars
  <2>3. CallsSawAPath'
    BY <2>1, <2>2
  <2>4. (SpawningMoves /\ OneMove /\ ForgottenBeforeDeleted)'
    BY <2>1, <2>2
  <2>5. (PassesKeepTheRoot /\ MoversMove /\ MovedIsThere /\ StaleIsOriginal /\ SomewhereOnDisk)'
    BY <2>2
  <2> QED
    BY <2>3, <2>4, <2>5
<1>2. CASE StartMoving(c)
  <2>1. CASE row[target[c]] = "done"
    <3>1. /\ row' = [row EXCEPT ![target[c]] = "moving"] /\ cpc' = [cpc EXCEPT ![c] = "spawn"]
          /\ UNCHANGED <<disk, mpc, mjob, stale, target, seen, spc, sfile, sfrom, want>>
          /\ cpc[c] = "start" /\ target[c] \in Files
      BY <1>2, <2>1 DEF StartMoving, StartMove, moverVars, passVars
    <3>2. \A m \in Movers : ~Moving(m, target[c])
      BY <2>1
    <3>3. \A d \in Clients : ~(cpc[d] = "spawn" /\ target[d] = target[c])
      BY <2>1
    <3>4. (CallsSawAPath /\ PassesKeepTheRoot /\ MoversMove /\ SpawningMoves)'
      BY <3>1
    <3>5. OneMove'
      BY <3>1, <3>2, <3>3
    <3>6. (ForgottenBeforeDeleted /\ MovedIsThere /\ StaleIsOriginal /\ SomewhereOnDisk)'
      BY <2>1, <3>1
    <3> QED
      BY <3>4, <3>5, <3>6
  <2>2. CASE row[target[c]] # "done"
    <3>1. /\ row' = row /\ Return(c) /\ UNCHANGED <<disk, mpc, mjob, stale, spc, sfile, sfrom, want>>
      BY <1>2, <2>2 DEF StartMoving, StartMove, moverVars, passVars
    <3>2. (CallsSawAPath /\ SpawningMoves /\ OneMove /\ ForgottenBeforeDeleted)'
      BY <3>1
    <3>3. (PassesKeepTheRoot /\ MoversMove /\ MovedIsThere /\ StaleIsOriginal /\ SomewhereOnDisk)'
      BY <3>1
    <3> QED
      BY <3>2, <3>3
  <2> QED
    BY <2>1, <2>2
<1>3. CASE Spawn(c)
  BY <1>3 DEF Spawn, diskVars, passVars
<1>4. CASE Forget(c)
  BY <1>4 DEF Forget, moverVars, passVars
<1>5. CASE CancelRunning(c)
  BY <1>5 DEF CancelRunning, diskVars, passVars
<1>6. CASE RemoveTemp(c)
  BY <1>6 DEF RemoveTemp, moverVars, passVars
<1>7. CASE RemoveCopy(c)
  BY <1>7 DEF RemoveCopy, moverVars, passVars
<1> QED
  BY <1>1, <1>2, <1>3, <1>4, <1>5, <1>6, <1>7 DEF CallStep

LEMMA MoverSafe ==
  ASSUME IInv, TypeOK', NEW m \in Movers, MoverStep(m)
  PROVE  IInv'
<1> USE ConstantsAssumption
    DEF IInv, TypeOK, Goto, CallsSawAPath, PassesKeepTheRoot, MoversMove,
        SpawningMoves, OneMove, Moving, Active, ForgottenBeforeDeleted, MovedIsThere,
        StaleIsOriginal, SomewhereOnDisk
<1>1. CASE TakeTurn(m)
  BY <1>1 DEF TakeTurn, diskVars, clientVars, passVars
<1>2. CASE GiveUp(m)
  BY <1>2 DEF GiveUp, diskVars, clientVars, passVars
<1>3. CASE OpenSource(m)
  BY <1>3 DEF OpenSource, diskVars, clientVars, passVars
<1>4. CASE Stage(m)
  BY <1>4 DEF Stage, clientVars, passVars
<1>5. CASE CopyData(m)
  BY <1>5 DEF CopyData, diskVars, clientVars, passVars
<1>6. CASE RenameCopy(m)
  BY <1>6, PathFacts DEF RenameCopy, clientVars, passVars
<1>7. CASE RecordMove(m)
  BY <1>7, PathFacts DEF RecordMove, FinishMove, EndMove, clientVars, passVars
<1>8. CASE DeleteStale(m)
  BY <1>8 DEF DeleteStale, clientVars, passVars
<1>9. CASE FailMove(m)
  BY <1>9 DEF FailMove, EndMove, clientVars, passVars
<1>10. CASE Leave(m)
  BY <1>10 DEF Leave, diskVars, clientVars, passVars
<1> QED
  BY <1>1, <1>2, <1>3, <1>4, <1>5, <1>6, <1>7, <1>8, <1>9, <1>10 DEF MoverStep

LEMMA PassSafe ==
  ASSUME IInv, TypeOK', NEW s \in Passes, PassStep(s) \/ \E f \in Files : ReadCopy(s, f)
  PROVE  IInv'
<1> USE ConstantsAssumption
    DEF IInv, TypeOK, PassReturn, CallsSawAPath, PassesKeepTheRoot, MoversMove,
        SpawningMoves, OneMove, Moving, Active, ForgottenBeforeDeleted, MovedIsThere,
        StaleIsOriginal, SomewhereOnDisk
<1>1. ASSUME NEW f \in Files, ReadCopy(s, f) PROVE IInv'
  BY <1>1 DEF ReadCopy, Paths, Root, diskVars, moverVars, clientVars
<1>2. CASE Relocate(s)
  <2> DEFINE f == sfile[s]
  <2>1. /\ UNCHANGED <<row, mpc, mjob, stale, cpc, target, seen>>
        /\ f \in Files /\ want[s] \in Paths /\ Root(want[s]) = Root(sfrom[s])
    BY <1>2 DEF Relocate, moverVars, clientVars
  <2>2. CASE sfrom[s] \in disk[f]
    <3>1. /\ disk' = [disk EXCEPT ![f] = (@ \ {sfrom[s]}) \cup {want[s]}]
          /\ spc' = [spc EXCEPT ![s] = "setpath"]
          /\ UNCHANGED <<sfile, sfrom, want>>
      BY <1>2, <2>2 DEF Relocate
    <3>2. ASSUME NEW g \in Files, NEW p \in disk[g]
          PROVE  \E q \in disk'[g] : Root(q) = Root(p)
      BY <2>1, <3>1
    <3>3. (MovedIsThere /\ SomewhereOnDisk)'
      BY <2>1, <3>1, <3>2
    <3>4. PassesKeepTheRoot'
      BY <1>2, <3>1 DEF Relocate
    <3> QED
      BY <2>1, <3>3, <3>4
  <2>3. CASE sfrom[s] \notin disk[f]
    BY <1>2, <2>1, <2>3 DEF Relocate
  <2> QED
    BY <2>2, <2>3
<1>3. CASE SetLocalPath(s)
  BY <1>3 DEF SetLocalPath, moverVars, clientVars
<1> QED
  BY <1>1, <1>2, <1>3 DEF PassStep

LEMMA EnvironmentSafe ==
  ASSUME IInv, TypeOK', Stop \/ Restart
  PROVE  IInv'
<1> USE DEF IInv, TypeOK, CallsSawAPath, PassesKeepTheRoot, MoversMove,
            SpawningMoves, OneMove, Moving, Active, ForgottenBeforeDeleted,
            MovedIsThere, StaleIsOriginal, SomewhereOnDisk
<1>1. CASE Stop
  BY <1>1 DEF Stop, diskVars, moverVars, clientVars, passVars
<1>2. CASE Restart
  BY <1>2 DEF Restart, ResetInterruptedLocal
<1> QED
  BY <1>1, <1>2

LEMMA InductiveInvariant == Spec => []IInv
<1>1. Init => IInv
  BY ConstantsAssumption
     DEF Init, IInv, TypeOK, MaybePath, Paths, CallsSawAPath, PassesKeepTheRoot, MoversMove,
         SpawningMoves, OneMove, Moving, Active, ForgottenBeforeDeleted, MovedIsThere,
         StaleIsOriginal, SomewhereOnDisk
<1>2. IInv /\ [Next]_vars => IInv'
  <2> SUFFICES ASSUME IInv, [Next]_vars PROVE IInv'
    OBVIOUS
  <2>1. CASE UNCHANGED vars
    BY <2>1 DEF vars, diskVars, moverVars, clientVars, passVars, IInv, TypeOK, CallsSawAPath,
                PassesKeepTheRoot, MoversMove, SpawningMoves, OneMove, Moving, Active,
                ForgottenBeforeDeleted, MovedIsThere, StaleIsOriginal, SomewhereOnDisk
  <2>2. CASE Next
    <3>1. TypeOK'
      BY <2>2, CallTypes, MoverTypes, PassTypes, EnvironmentTypes DEF Next
    <3> QED
      BY <2>2, <3>1, CallSafe, MoverSafe, PassSafe, EnvironmentSafe DEF Next
  <2> QED
    BY <2>1, <2>2
<1> QED
  BY <1>1, <1>2, PTL DEF Spec

\* Every variable keeps its type.
THEOREM TypeCorrect == Spec => []TypeOK
<1>1. IInv => TypeOK
  BY DEF IInv
<1> QED
  BY <1>1, InductiveInvariant, PTL

-----------------------------------------------------------------------------
(* The refinement: every step is a step of LocalLifecycle or changes        *)
(* neither an entry nor the set of kept files.                              *)

Entry == [f \in Files |-> IF row[f] = "moving" THEN "done" ELSE row[f]]
Kept  == {f \in Files : disk[f] # {}}

LEMMA ForgetOrDrop ==
  ASSUME NEW f \in Files, Contract!Forget(f) \/ Contract!Drop(f)
  PROVE  Contract!Next
  BY DEF Contract!Next

LEMMA CallImplements ==
  ASSUME IInv, NEW c \in Clients,
         CallStep(c) \/ \E f \in Files : MoveCall(c, f) \/ RemoveCall(c, f)
  PROVE  Contract!Next \/ UNCHANGED <<Entry, Kept>>
<1> DEFINE f == target[c]
<1> USE DEF Kept, Entry
<1>1. CASE Spawn(c) \/ CancelRunning(c) \/ RemoveTemp(c)
             \/ \E g \in Files : MoveCall(c, g) \/ RemoveCall(c, g)
  BY <1>1 DEF Spawn, CancelRunning, RemoveTemp, MoveCall, RemoveCall, ReadRow, diskVars
<1>2. ASSUME cpc[c] # "idle" PROVE f \in Files
  BY <1>2 DEF IInv, TypeOK
<1>3. CASE StartMoving(c)
  BY <1>2, <1>3 DEF StartMoving, StartMove, IInv, TypeOK
<1>4. CASE Forget(c)
  <2>1. disk' = disk /\ row' = [row EXCEPT ![f] = "none"] /\ f \in Files
    BY <1>2, <1>4 DEF Forget
  <2>2. CASE row[f] = "none"
    BY <2>1, <2>2 DEF IInv, TypeOK
  <2>3. CASE row[f] # "none"
    <3>1. row[f] \in {"done", "moving"}
      BY <2>1, <2>3 DEF IInv, TypeOK
    <3>2. PICK g \in Files : g = f
      BY <2>1
    <3>3. Contract!Forget(g)
      BY <2>1, <3>1, <3>2 DEF Contract!Forget, Contract!Change, IInv, TypeOK
    <3> QED
      BY <3>3, ForgetOrDrop
  <2> QED
    BY <2>2, <2>3
<1>5. CASE RemoveCopy(c)
  <2>1. row' = row /\ disk' = [disk EXCEPT ![f] = @ \ {seen[c]}] /\ f \in Files
    BY <1>2, <1>5 DEF RemoveCopy
  <2>2. row[f] = "none"
    BY <1>5, <2>1 DEF RemoveCopy, IInv, ForgottenBeforeDeleted
  <2>3. CASE disk'[f] # {}
    BY <2>1, <2>3 DEF IInv, TypeOK
  <2>4. CASE disk'[f] = {}
    <3>1. PICK g \in Files : g = f
      BY <2>1
    <3>2. Kept' = Kept \ {g}
      BY <2>1, <2>4, <3>1 DEF IInv, TypeOK
    <3>3. Contract!Drop(g)
      BY <2>1, <2>2, <3>1, <3>2 DEF Contract!Drop
    <3> QED
      BY <3>3, ForgetOrDrop
  <2> QED
    BY <2>3, <2>4
<1> QED
  BY <1>1, <1>3, <1>4, <1>5 DEF CallStep

LEMMA MoverImplements ==
  ASSUME IInv, NEW m \in Movers, MoverStep(m)
  PROVE  Contract!Next \/ UNCHANGED <<Entry, Kept>>
<1> DEFINE f == mjob[m]
<1> USE DEF Kept, Entry
<1>1. CASE TakeTurn(m) \/ GiveUp(m) \/ OpenSource(m) \/ Stage(m) \/ CopyData(m) \/ Leave(m)
  BY <1>1 DEF TakeTurn, GiveUp, OpenSource, Stage, CopyData, Leave, diskVars
<1>2. ASSUME mpc[m] # "idle" PROVE f \in Files
  BY <1>2 DEF IInv, TypeOK
<1>3. CASE RenameCopy(m)
  <2>1. row' = row /\ f \in Files
    BY <1>2, <1>3 DEF RenameCopy
  <2>2. CASE disk' = [disk EXCEPT ![f] = @ \cup {MoveTarget(from[m])}]
    <3>1. row[f] = "none" \/ disk[f] # {}
      BY <2>1 DEF IInv, SomewhereOnDisk
    <3>2. CASE disk[f] # {}
      BY <2>1, <2>2, <3>2 DEF IInv, TypeOK
    <3>3. CASE row[f] = "none"
      <4>1. PICK g \in Files : g = f
        BY <2>1
      <4>2. Kept' = Kept \cup {g}
        BY <2>1, <2>2, <4>1 DEF IInv, TypeOK
      <4>3. Contract!Keep(g)
        BY <2>1, <3>3, <4>1, <4>2 DEF Contract!Keep
      <4> QED
        BY <4>3 DEF Contract!Next
    <3> QED
      BY <3>1, <3>2, <3>3
  <2>3. CASE disk' = disk
    BY <2>1, <2>3
  <2> QED
    BY <1>3, <2>2, <2>3 DEF RenameCopy
<1>4. CASE RecordMove(m) \/ FailMove(m)
  BY <1>2, <1>4 DEF RecordMove, FailMove, FinishMove, EndMove, IInv, TypeOK
<1>5. CASE DeleteStale(m)
  <2>1. row' = row /\ disk' = [disk EXCEPT ![f] = @ \ {stale[m]}] /\ f \in Files /\ mpc[m] = "clean"
    BY <1>2, <1>5 DEF DeleteStale
  <2>2. CASE row[f] # "none"
    <3>1. PICK p \in disk[f] : Root(p) = "folder"
      BY <2>1, <2>2 DEF IInv, MovedIsThere
    <3>2. Root(stale[m]) = "library"
      BY <2>1, <2>2 DEF IInv, StaleIsOriginal
    <3>3. p \in disk'[f]
      BY <2>1, <3>1, <3>2 DEF IInv, TypeOK
    <3> QED
      BY <2>1, <3>1, <3>3 DEF IInv, TypeOK
  <2>3. CASE row[f] = "none" /\ disk'[f] # {}
    BY <2>1, <2>3 DEF IInv, TypeOK
  <2>4. CASE row[f] = "none" /\ disk'[f] = {}
    <3>1. PICK g \in Files : g = f
      BY <2>1
    <3>2. Kept' = Kept \ {g}
      BY <2>1, <2>4, <3>1 DEF IInv, TypeOK
    <3>3. Contract!Drop(g)
      BY <2>1, <2>4, <3>1, <3>2 DEF Contract!Drop
    <3> QED
      BY <3>3, ForgetOrDrop
  <2> QED
    BY <2>2, <2>3, <2>4
<1> QED
  BY <1>1, <1>3, <1>4, <1>5 DEF MoverStep

LEMMA PassImplements ==
  ASSUME IInv, NEW s \in Passes, PassStep(s) \/ \E f \in Files : ReadCopy(s, f)
  PROVE  UNCHANGED <<Entry, Kept>>
<1> USE DEF Kept, Entry
<1>1. CASE SetLocalPath(s) \/ \E f \in Files : ReadCopy(s, f)
  BY <1>1 DEF SetLocalPath, ReadCopy, diskVars
<1>2. CASE Relocate(s)
  <2> DEFINE f == sfile[s]
  <2>1. row' = row /\ f \in Files
    BY <1>2 DEF Relocate, IInv, PassesKeepTheRoot
  <2>2. \/ disk' = disk
        \/ sfrom[s] \in disk[f] /\ disk' = [disk EXCEPT ![f] = (@ \ {sfrom[s]}) \cup {want[s]}]
    BY <1>2 DEF Relocate
  <2>3. \A g \in Files : disk'[g] # {} <=> disk[g] # {}
    BY <2>1, <2>2 DEF IInv, TypeOK
  <2> QED
    BY <2>1, <2>3
<1> QED
  BY <1>1, <1>2 DEF PassStep

\* Moves and relocations keep LocalLifecycle's contract: whatever fails, is
\* cancelled or is cut off, a copy is on disk somewhere until its entry has been
\* forgotten, and the entry is never seen in any other state than "done".
THEOREM MovesLoseNothing == Spec => MovesKeepContract
<1>1. IInv /\ [Next]_vars => [Contract!Next]_(Contract!vars)
  <2> SUFFICES ASSUME IInv, [Next]_vars
               PROVE  Contract!Next \/ UNCHANGED <<Entry, Kept>>
    BY DEF Contract!vars, Kept, Entry
  <2>1. CASE UNCHANGED vars
    BY <2>1 DEF vars, diskVars, Kept, Entry
  <2>2. CASE Stop
    BY <2>2 DEF Stop, diskVars, Kept, Entry
  <2>3. CASE Restart
    BY <2>3 DEF Restart, ResetInterruptedLocal, IInv, TypeOK, Kept, Entry
  <2> QED
    BY <2>1, <2>2, <2>3, CallImplements, MoverImplements, PassImplements DEF Next
<1> QED
  BY <1>1, InductiveInvariant, PTL DEF Spec, MovesKeepContract

-----------------------------------------------------------------------------
(* Paths stay valid while the naming rules choose one place for a file.     *)

\* Paths are pairs; a move keeps the place.
LEMMA MoveTargets ==
  ASSUME NEW p \in Paths
  PROVE  /\ p # NoPath
         /\ MoveTarget(p) \in Paths /\ ~InLibrary(MoveTarget(p)) /\ MoveTarget(p)[2] = p[2]
         /\ InLibrary(p) => p # MoveTarget(p) /\ (Outdated(p) \/ Renamed(p))
         /\ ~(Outdated(p) /\ Renamed(p))
<1>1. PICK r \in {"library", "folder"}, x \in Places : p = <<r, x>>
  BY DEF Paths
<1>2. p # NoPath
  BY <1>1 DEF NoPath
<1>3. MoveTarget(p) = <<"folder", x>>
  BY <1>1 DEF MoveTarget
<1>4. MoveTarget(p) \in Paths /\ ~InLibrary(MoveTarget(p)) /\ MoveTarget(p)[2] = p[2]
  BY <1>1, <1>3 DEF Paths, InLibrary, Root
<1>5. InLibrary(p) => p # MoveTarget(p) /\ (Outdated(p) \/ Renamed(p))
  BY <1>1, <1>3 DEF InLibrary, Root, Outdated, Renamed
<1>6. QED BY <1>2, <1>4, <1>5 DEF Outdated, Renamed

\* Two files in the library are moved to one place only if they are one.
LEMMA MoveTargetInjective ==
  ASSUME NEW p \in Paths, NEW q \in Paths,
         InLibrary(p), InLibrary(q), MoveTarget(p) = MoveTarget(q)
  PROVE  p = q
BY DEF Paths, Root, MoveTarget, InLibrary

\* There is one path in the library that a pass chooses.
LEMMA OneName ==
  ASSUME OnePlace, NEW p \in Paths, NEW q \in Paths, Renamed(p), Renamed(q)
  PROVE  p = q
BY DEF OnePlace, Paths, Root, InLibrary, Renamed

\* What a row, a call or a move knows is a path, or nothing.
LEMMA SeenTypes ==
  ASSUME TypeOK, NEW f \in Files, NEW x \in Seen(f)
  PROVE  x \in MaybePath /\ (x # NoPath => x \in Paths)
BY DEF TypeOK, Seen, MaybePath

\* A step that changes no path, no pass and no move that has begun.
LEMMA Undisturbed ==
  ASSUME TypeOK, PInv,
         UNCHANGED <<path, spc, sfile, sfrom, want>>,
         \A f \in Files : row'[f] # "none" => row[f] # "none" /\ disk'[f] = disk[f],
         \A f \in Files : disk'[f] \subseteq disk[f],
         \A f \in Files : Seen(f)' \subseteq Seen(f),
         \A m \in Movers :
           /\ mpc'[m] \in {"stage", "copying", "rename"} =>
                mpc[m] \in {"stage", "copying", "rename"}
           /\ mpc'[m] \in {"record", "clean"} => mpc'[m] = mpc[m]
           /\ mpc[m] = "clean" => mpc'[m] = "clean"
           /\ mpc[m] # "idle" /\ mpc'[m] # "idle" =>
                mjob'[m] = mjob[m] /\ from'[m] = from[m] /\ stale'[m] = stale[m],
         \A s \in Passes : spc[s] # "idle" => sfile[s] \in Files,
         HoldsTheTurn'
  PROVE  PInv'
<1> USE DEF PInv
<1>1. PassesRename'
  BY DEF PassesRename
<1>2. RenamedOnce'
  BY DEF RenamedOnce, Renaming
<1>3. StaleIsLeft'
  BY DEF StaleIsLeft, TypeOK
<1>4. NotYetMoved'
  <2>1. SUFFICES ASSUME NEW f \in Files, row'[f] # "none", NEW x \in Seen(f)',
                        Outdated(x), x \in disk'[f],
                        ~\E m \in Movers : mjob'[m] = f /\ mpc'[m] = "clean" /\ stale'[m] = x
                 PROVE  Untaken(f, x)'
    BY DEF NotYetMoved
  <2>2. ~\E m \in Movers : mjob[m] = f /\ mpc[m] = "clean" /\ stale[m] = x
    BY <2>1
  <2>3. Untaken(f, x)
    BY <2>1, <2>2 DEF NotYetMoved
  <2>4. QED BY <2>3 DEF Untaken
<1>5. DestinationIsMine'
  <2>1. SUFFICES ASSUME NEW m \in Movers, row'[mjob'[m]] # "none",
                        mpc'[m] \in {"stage", "copying", "rename", "record"}
                 PROVE  /\ Outdated(from'[m]) => Untaken(mjob[m], from[m])'
                        /\ mpc'[m] = "record" => MoveTarget(from'[m]) \in disk'[mjob'[m]]
    BY DEF DestinationIsMine
  <2>2. /\ mpc[m] \in {"stage", "copying", "rename", "record"}
        /\ mpc'[m] = "record" => mpc[m] = "record"
        /\ mjob'[m] = mjob[m] /\ from'[m] = from[m] /\ mjob[m] \in Files
    BY <2>1 DEF TypeOK
  <2>3. QED BY <2>1, <2>2 DEF DestinationIsMine, Untaken
<1>6. QED BY <1>1, <1>2, <1>3, <1>4, <1>5

\* Calls touch no file whose entry remains.
LEMMA CallsKeepFiles ==
  ASSUME IInv, NEW c \in Clients,
         CallStep(c) \/ \E f \in Files : MoveCall(c, f) \/ RemoveCall(c, f)
  PROVE  /\ path' = path
         /\ \A f \in Files : row'[f] # "none" => row[f] # "none" /\ disk'[f] = disk[f]
         /\ \A f \in Files : disk'[f] \subseteq disk[f]
<1>1. TypeOK
  BY DEF IInv
<1>2. CASE RemoveCopy(c)
  BY <1>1, <1>2 DEF RemoveCopy, IInv, ForgottenBeforeDeleted, TypeOK
<1>3. CASE StartMoving(c) \/ Forget(c)
  BY <1>1, <1>3 DEF StartMoving, StartMove, Forget, TypeOK
<1>4. CASE Spawn(c) \/ CancelRunning(c) \/ RemoveTemp(c)
           \/ \E f \in Files : MoveCall(c, f) \/ RemoveCall(c, f)
  BY <1>4 DEF Spawn, CancelRunning, RemoveTemp, MoveCall, RemoveCall, ReadRow, diskVars
<1>5. QED BY <1>2, <1>3, <1>4 DEF CallStep

\* Calls learn no path that the row does not name.
LEMMA CallPaths ==
  ASSUME IInv, PInv, TypeOK', NEW c \in Clients,
         CallStep(c) \/ \E f \in Files : MoveCall(c, f) \/ RemoveCall(c, f)
  PROVE  PInv'
<1>1. TypeOK /\ HoldsTheTurn /\ \A s \in Passes : spc[s] # "idle" => sfile[s] \in Files
  BY DEF IInv, PInv, PassesKeepTheRoot
<1>2. UNCHANGED <<path, turn, spc, sfile, sfrom, want>>
  BY DEF CallStep, StartMoving, Spawn, Forget, CancelRunning, RemoveTemp, RemoveCopy,
         MoveCall, RemoveCall, ReadRow, diskVars, moverVars, passVars
<1>3. /\ \A f \in Files : row'[f] # "none" => row[f] # "none" /\ disk'[f] = disk[f]
      /\ \A f \in Files : disk'[f] \subseteq disk[f]
  BY CallsKeepFiles
<1>4. \A m \in Movers :
        /\ mpc'[m] # mpc[m] => mpc'[m] = "waiting" /\ mpc[m] = "idle"
        /\ mpc'[m] = mpc[m] =>
             mjob'[m] = mjob[m] /\ from'[m] = from[m] /\ stale'[m] = stale[m]
  <2>1. CASE Spawn(c)
    BY <1>1, <2>1 DEF Spawn, TypeOK
  <2>2. CASE ~Spawn(c)
    BY <2>2 DEF CallStep, StartMoving, Forget, CancelRunning, RemoveTemp, RemoveCopy,
                MoveCall, RemoveCall, ReadRow, moverVars
  <2>3. QED BY <2>1, <2>2
<1>5. ASSUME NEW f \in Files PROVE Seen(f)' \subseteq Seen(f)
  <2>1. ASSUME NEW g \in Files, MoveCall(c, g) \/ RemoveCall(c, g) PROVE Seen(f)' \subseteq Seen(f)
    BY <1>1, <2>1 DEF MoveCall, RemoveCall, ReadRow, Seen, diskVars, moverVars, TypeOK
  <2>2. CASE Spawn(c)
    <3>1. PICK m \in Movers :
            /\ mjob' = [mjob EXCEPT ![m] = target[c]]
            /\ from' = [from EXCEPT ![m] = seen[c]]
      BY <2>2 DEF Spawn
    <3>2. /\ mjob'[m] = target[c] /\ from'[m] = seen[c]
          /\ \A n \in Movers \ {m} : mjob'[n] = mjob[n] /\ from'[n] = from[n]
      BY <1>1, <3>1 DEF TypeOK
    <3>3. \A d \in Clients : target'[d] = f => target[d] = f /\ seen'[d] = seen[d]
      BY <1>1, <2>2, ConstantsAssumption DEF Spawn, Return, TypeOK
    <3>4. QED BY <1>2, <3>2, <3>3 DEF Seen
  <2>3. CASE \/ StartMoving(c) \/ Forget(c) \/ CancelRunning(c) \/ RemoveTemp(c)
             \/ RemoveCopy(c)
    <3>1. \A d \in Clients : target'[d] = f => target[d] = f /\ seen'[d] = seen[d]
      BY <1>1, <2>3, ConstantsAssumption
      DEF StartMoving, Forget, CancelRunning, RemoveTemp, RemoveCopy, Return, TypeOK
    <3>2. UNCHANGED <<path, mjob, from>>
      BY <2>3 DEF StartMoving, Forget, CancelRunning, RemoveTemp, RemoveCopy, moverVars,
                  diskVars
    <3>3. QED BY <3>1, <3>2 DEF Seen
  <2>4. QED BY <2>1, <2>2, <2>3 DEF CallStep
<1>6. HoldsTheTurn'
  BY <1>1, <1>2, <1>4 DEF HoldsTheTurn
<1>7. QED BY <1>1, <1>2, <1>3, <1>4, <1>5, <1>6, Undisturbed

\* Most steps of a move disturb no path.
LEMMA MoverPaths ==
  ASSUME IInv, PInv, TypeOK', NEW m \in Movers,
         \/ TakeTurn(m) \/ GiveUp(m) \/ Stage(m) \/ CopyData(m) \/ FailMove(m) \/ Leave(m)
         \/ (OpenSource(m) \/ RenameCopy(m) \/ RecordMove(m)) /\ mpc'[m] = "failed"
  PROVE  PInv'
<1>1. TypeOK /\ HoldsTheTurn /\ \A s \in Passes : spc[s] # "idle" => sfile[s] \in Files
  BY DEF IInv, PInv, PassesKeepTheRoot
<1>2. UNCHANGED <<path, disk, target, seen, spc, sfile, sfrom, want>>
  BY <1>1 DEF TakeTurn, GiveUp, OpenSource, Stage, CopyData, RenameCopy, RecordMove, FailMove,
         Leave, Goto, diskVars, clientVars, passVars, TypeOK
<1>3. \A f \in Files : row'[f] # "none" => row[f] # "none"
  BY <1>1 DEF TakeTurn, GiveUp, OpenSource, Stage, CopyData, RenameCopy, RecordMove, FailMove,
         Leave, Goto, EndMove, FinishMove, diskVars, TypeOK
<1>4. /\ \A n \in Movers \ {m} : mpc'[n] = mpc[n] /\ mjob'[n] = mjob[n]
                                /\ from'[n] = from[n] /\ stale'[n] = stale[n]
      /\ mpc[m] # "clean" /\ mpc'[m] \notin {"record", "clean"}
      /\ mpc'[m] \in {"stage", "copying", "rename"} => mpc[m] \in {"stage", "copying"}
      /\ mpc'[m] # "idle" =>
           mjob'[m] = mjob[m] /\ from'[m] = from[m] /\ stale'[m] = stale[m]
      /\ mpc'[m] = "idle" => mjob'[m] = NoFile
  <2>1. CASE TakeTurn(m) \/ GiveUp(m)
    BY <1>1, <2>1 DEF TakeTurn, GiveUp, Goto, TypeOK
  <2>2. CASE Stage(m) \/ CopyData(m) \/ FailMove(m)
    BY <1>1, <2>2 DEF Stage, CopyData, FailMove, Goto, TypeOK
  <2>3. CASE Leave(m)
    BY <1>1, <2>3 DEF Leave, Goto, TypeOK
  <2>4. CASE (OpenSource(m) \/ RenameCopy(m) \/ RecordMove(m)) /\ mpc'[m] = "failed"
    BY <1>1, <2>4 DEF OpenSource, RenameCopy, RecordMove, Goto, TypeOK
  <2>5. QED BY <2>1, <2>2, <2>3, <2>4
<1>5. ASSUME NEW f \in Files PROVE Seen(f)' \subseteq Seen(f)
  BY <1>2, <1>4, ConstantsAssumption DEF Seen, TypeOK
<1>6. HoldsTheTurn'
  <2>1. CASE TakeTurn(m)
    BY <1>1, <2>1, ConstantsAssumption DEF HoldsTheTurn, TakeTurn, Goto, TypeOK
  <2>2. CASE Leave(m)
    <3>1. mpc'[m] = "idle" /\ turn' = IF turn = m THEN NoMover ELSE turn
      BY <1>1, <2>2 DEF Leave, Goto, TypeOK
    <3>2. QED BY <1>1, <1>4, <3>1 DEF HoldsTheTurn
  <2>3. CASE GiveUp(m)
    BY <1>1, <2>3 DEF HoldsTheTurn, GiveUp, Goto, TypeOK
  <2>4. CASE Stage(m) \/ CopyData(m) \/ FailMove(m)
    BY <1>1, <2>4 DEF HoldsTheTurn, Stage, CopyData, FailMove, Goto, TypeOK
  <2>5. CASE (OpenSource(m) \/ RenameCopy(m) \/ RecordMove(m)) /\ mpc'[m] = "failed"
    BY <1>1, <2>5 DEF HoldsTheTurn, OpenSource, RenameCopy, RecordMove, Goto, TypeOK
  <2>6. QED BY <2>1, <2>2, <2>3, <2>4, <2>5
<1>7. QED BY <1>1, <1>2, <1>3, <1>4, <1>5, <1>6, Undisturbed

\* A move that has the slot is the only one past it.
LEMMA OthersWait ==
  ASSUME HoldsTheTurn, NEW m \in Movers, NEW n \in Movers,
         mpc[m] \notin {"idle", "waiting", "leave"}, mpc[n] \notin {"idle", "waiting", "leave"}
  PROVE  n = m
BY DEF HoldsTheTurn

\* A move that opens the original finds its destination untaken.
LEMMA OpenPaths ==
  ASSUME IInv, PInv, TypeOK', NEW m \in Movers, OpenSource(m), mpc'[m] = "stage"
  PROVE  PInv'
<1> DEFINE f == mjob[m]
<1>1. /\ mpc[m] = "open" /\ from[m] \in disk[f] /\ mpc' = [mpc EXCEPT ![m] = "stage"]
      /\ UNCHANGED <<row, path, disk, mjob, from, stale, turn, target, seen, passVars>>
  BY DEF OpenSource, Goto, diskVars, clientVars, IInv, TypeOK
<1>2. /\ mpc'[m] = "stage" /\ \A n \in Movers \ {m} : mpc'[n] = mpc[n]
      /\ f \in Files /\ from[m] \in Seen(f)
  BY <1>1, ConstantsAssumption DEF IInv, TypeOK, Seen
<1>3. PassesRename' /\ RenamedOnce' /\ HoldsTheTurn' /\ StaleIsLeft'
  BY <1>1, <1>2 DEF PInv, PassesRename, RenamedOnce, HoldsTheTurn, StaleIsLeft, Seen, Renaming,
                    passVars
<1>4. NotYetMoved'
  BY <1>1, <1>2 DEF PInv, NotYetMoved, Untaken, Seen, passVars
<1>5. Outdated(from[m]) /\ row[f] # "none" => Untaken(f, from[m])
  BY <1>1, <1>2, OthersWait DEF PInv, NotYetMoved
<1>6. DestinationIsMine'
  BY <1>1, <1>2, <1>5 DEF PInv, DestinationIsMine, Untaken, passVars
<1>7. QED BY <1>3, <1>4, <1>6 DEF PInv

\* Renaming the staged copy adds a path in the download folder.
LEMMA RenamePaths ==
  ASSUME IInv, PInv, TypeOK', NEW m \in Movers, RenameCopy(m), mpc'[m] # "failed"
  PROVE  PInv'
<1> DEFINE f == mjob[m]
           d == MoveTarget(from[m])
<1>1. /\ mpc[m] = "rename" /\ mpc' = [mpc EXCEPT ![m] = "record"]
      /\ disk' = [disk EXCEPT ![f] = @ \cup {d}]
      /\ UNCHANGED <<row, path, mjob, from, stale, turn, target, seen, passVars>>
  BY DEF RenameCopy, Goto, clientVars, IInv, TypeOK
<1>2. /\ mpc'[m] = "record" /\ \A n \in Movers \ {m} : mpc'[n] = mpc[n]
      /\ f \in Files /\ from[m] \in Paths
      /\ disk'[f] = disk[f] \cup {d} /\ \A g \in Files \ {f} : disk'[g] = disk[g]
  BY <1>1, ConstantsAssumption DEF IInv, TypeOK
<1>3. ~Outdated(d)
  BY <1>2, MoveTargets DEF Outdated
<1>4. PassesRename'
  BY <1>1, <1>2 DEF PInv, PassesRename, IInv, PassesKeepTheRoot, passVars
<1>5. RenamedOnce'
  BY <1>1, <1>2, <1>3 DEF PInv, RenamedOnce, Seen, Renaming, passVars
<1>6. HoldsTheTurn' /\ StaleIsLeft'
  BY <1>1, <1>2 DEF PInv, HoldsTheTurn, StaleIsLeft
<1>7. NotYetMoved'
  BY <1>1, <1>2, <1>3 DEF PInv, NotYetMoved, Untaken, Seen, passVars
<1>8. DestinationIsMine'
  <2>1. ASSUME NEW n \in Movers, row'[mjob'[n]] # "none",
               mpc'[n] \in {"stage", "copying", "rename", "record"}
        PROVE  n = m
    BY <1>1, <1>2, <2>1, OthersWait DEF PInv
  <2>2. row[f] # "none" => (Outdated(from[m]) => Untaken(f, from[m]))
    BY <1>1 DEF PInv, DestinationIsMine
  <2>3. QED BY <1>1, <1>2, <2>1, <2>2 DEF DestinationIsMine, Untaken, passVars
<1>9. QED BY <1>4, <1>5, <1>6, <1>7, <1>8 DEF PInv

\* Recording the move puts the entry at the destination; the original is left over.
LEMMA RecordPaths ==
  ASSUME IInv, PInv, TypeOK', NEW m \in Movers, RecordMove(m), mpc'[m] # "failed"
  PROVE  PInv'
<1> DEFINE f == mjob[m]
           d == MoveTarget(from[m])
<1>1. /\ mpc[m] = "record" /\ mpc' = [mpc EXCEPT ![m] = "clean"]
      /\ row' = [row EXCEPT ![f] = FinishMove(@)]
      /\ path' = IF row[f] = "moving" THEN [path EXCEPT ![f] = d] ELSE path
      /\ stale' = [stale EXCEPT ![m] = IF row[f] = "moving" THEN from[m] ELSE d]
      /\ UNCHANGED <<disk, mjob, from, turn, target, seen, passVars>>
  BY DEF RecordMove, Goto, clientVars, IInv, TypeOK
<1>2. /\ mpc'[m] = "clean" /\ f \in Files /\ from[m] \in Paths /\ InLibrary(from[m])
      /\ \A n \in Movers \ {m} : mpc'[n] = mpc[n] /\ stale'[n] = stale[n]
      /\ row'[f] = FinishMove(row[f]) /\ row[f] # "done"
      /\ \A g \in Files \ {f} : row'[g] = row[g] /\ path'[g] = path[g]
  BY <1>1, ConstantsAssumption
  DEF IInv, TypeOK, MoversMove, Active, InLibrary, Root, NoPath, Paths
<1>3. \/ row[f] = "none" /\ row'[f] = "none" /\ path' = path
      \/ row[f] = "moving" /\ path'[f] = d /\ stale'[m] = from[m]
  <2>1. row[f] \in {"none", "moving"}
    BY <1>2 DEF IInv, TypeOK
  <2>2. CASE row[f] = "none"
    BY <1>1, <1>2, <2>2 DEF FinishMove, EndMove
  <2>3. CASE row[f] = "moving"
    BY <1>1, <1>2, <2>3 DEF IInv, TypeOK
  <2>4. QED BY <2>1, <2>2, <2>3
<1>4. /\ d \in Paths /\ ~InLibrary(d) /\ d # from[m]
      /\ \A x : Outdated(x) \/ Renamed(x) => x # d
  BY <1>2, MoveTargets DEF Outdated, Renamed
<1>5. \A g \in Files : Seen(g)' \subseteq Seen(g) \cup {d}
  BY <1>1, <1>2, <1>3 DEF Seen
<1>6. PassesRename'
  <2>1. \A g \in Files : row'[g] # "none" => row[g] # "none"
    BY <1>2, <1>3
  <2>2. QED BY <1>1, <2>1 DEF PInv, PassesRename, IInv, PassesKeepTheRoot, passVars
<1>7. RenamedOnce'
  BY <1>1, <1>4, <1>5 DEF PInv, RenamedOnce, Renaming, passVars
<1>8. HoldsTheTurn'
  BY <1>1, <1>2 DEF PInv, HoldsTheTurn
<1>9. StaleIsLeft'
  <2>1. ASSUME NEW n \in Movers, mpc'[n] = "clean" PROVE n = m
    BY <1>1, <1>2, <2>1, OthersWait DEF PInv
  <2>2. QED BY <1>1, <1>2, <1>3, <1>4, <2>1 DEF StaleIsLeft
<1>10. NotYetMoved'
  <2>1. SUFFICES ASSUME NEW g \in Files, row'[g] # "none", NEW x \in Seen(g)',
                        Outdated(x), x \in disk[g],
                        ~(g = f /\ x = from[m])
                 PROVE  Untaken(g, x)'
    BY <1>1, <1>2, <1>3 DEF NotYetMoved
  <2>2. x \in Seen(g) /\ x \in Paths /\ InLibrary(x)
    BY <1>4, <1>5, <2>1, SeenTypes DEF IInv, Outdated, InLibrary
  <2>3. Untaken(g, x)
    BY <1>1, <1>2, <1>3, <2>1, <2>2, OthersWait DEF PInv, NotYetMoved
  <2>4. path'[g] # MoveTarget(x)
    BY <1>1, <1>2, <1>3, <2>1, <2>2, <2>3, MoveTargetInjective DEF Untaken
  <2>5. QED BY <1>1, <2>3, <2>4 DEF Untaken, passVars
<1>11. DestinationIsMine'
  BY <1>1, <1>2, OthersWait DEF PInv, DestinationIsMine
<1>12. QED BY <1>6, <1>7, <1>8, <1>9, <1>10, <1>11 DEF PInv

\* Deleting what is left over takes neither the entry's path nor what a pass renamed.
LEMMA DeletePaths ==
  ASSUME IInv, PInv, TypeOK', NEW m \in Movers, DeleteStale(m)
  PROVE  PInv'
<1> DEFINE f == mjob[m]
<1>1. /\ mpc[m] = "clean" /\ mpc' = [mpc EXCEPT ![m] = "leave"]
      /\ disk' = [disk EXCEPT ![f] = @ \ {stale[m]}]
      /\ UNCHANGED <<row, path, mjob, from, stale, turn, target, seen, passVars>>
  BY DEF DeleteStale, Goto, clientVars
<1>2. /\ mpc'[m] = "leave" /\ \A n \in Movers \ {m} : mpc'[n] = mpc[n]
      /\ f \in Files /\ from[m] \in Paths /\ InLibrary(from[m]) /\ from[m] \in Seen(f)
      /\ disk'[f] = disk[f] \ {stale[m]} /\ \A g \in Files \ {f} : disk'[g] = disk[g]
  BY <1>1, ConstantsAssumption DEF IInv, TypeOK, InLibrary, Root, NoPath, Paths, Seen
<1>3. row[f] # "none" => stale[m] = from[m]
  BY <1>1 DEF PInv, StaleIsLeft
<1>4. PassesRename'
  <2>1. ASSUME NEW s \in Passes, spc[s] = "setpath", row[f] # "none", sfile[s] = f
        PROVE  want[s] # stale[m]
    <3>1. want[s][2] \in Naming
      BY <2>1 DEF PInv, PassesRename
    <3>2. CASE Renamed(from[m])
      BY <1>2, <1>3, <2>1, <3>2 DEF PInv, RenamedOnce, Renaming
    <3>3. CASE ~Renamed(from[m])
      BY <1>2, <1>3, <2>1, <3>1, <3>3 DEF Renamed
    <3>4. QED BY <3>2, <3>3
  <2>2. QED BY <1>1, <1>2, <2>1 DEF PInv, PassesRename, IInv, PassesKeepTheRoot, passVars
<1>5. RenamedOnce'
  BY <1>1, <1>2 DEF PInv, RenamedOnce, Seen, Renaming, passVars
<1>6. HoldsTheTurn' /\ StaleIsLeft'
  BY <1>1, <1>2 DEF PInv, HoldsTheTurn, StaleIsLeft
<1>7. NotYetMoved'
  BY <1>1, <1>2 DEF PInv, NotYetMoved, Untaken, Seen, passVars
<1>8. DestinationIsMine'
  BY <1>1, <1>2, OthersWait DEF PInv, DestinationIsMine
<1>9. QED BY <1>4, <1>5, <1>6, <1>7, <1>8 DEF PInv

\* A pass reads a copy that is not where the naming wants it.
LEMMA ReadCopyPaths ==
  ASSUME OnePlace, IInv, PInv, NEW s \in Passes, NEW f \in Files, ReadCopy(s, f)
  PROVE  PInv'
<1>1. PICK place \in Naming :
        LET p == <<Root(path[f]), place>> IN p # path[f] /\ want' = [want EXCEPT ![s] = p]
  BY DEF ReadCopy
<1>2. /\ spc' = [spc EXCEPT ![s] = "rename"]
      /\ sfile' = [sfile EXCEPT ![s] = f] /\ sfrom' = [sfrom EXCEPT ![s] = path[f]]
      /\ spc[s] = "idle"
      /\ UNCHANGED <<row, path, disk, mpc, mjob, from, stale, turn, target, seen>>
  BY DEF ReadCopy, diskVars, moverVars, clientVars
<1>3. /\ spc'[s] = "rename" /\ sfile'[s] = f /\ sfrom'[s] = path[f]
      /\ want'[s] = <<Root(path[f]), place>> /\ want'[s] # path[f] /\ path[f] \in Paths
      /\ \A t \in Passes \ {s} : spc'[t] = spc[t] /\ sfile'[t] = sfile[t]
                               /\ sfrom'[t] = sfrom[t] /\ want'[t] = want[t]
  BY <1>1, <1>2 DEF IInv, TypeOK
<1>4. sfrom'[s][2] \notin Naming
  BY <1>3 DEF OnePlace, Paths, Root
<1>5. PassesRename'
  BY <1>2, <1>3, <1>4 DEF PInv, PassesRename
<1>6. RenamedOnce'
  BY <1>2, <1>3 DEF PInv, RenamedOnce, Renaming, Seen
<1>7. HoldsTheTurn' /\ StaleIsLeft'
  BY <1>2 DEF PInv, HoldsTheTurn, StaleIsLeft
<1>8. \A g \in Files : \A x : Untaken(g, x) => Untaken(g, x)'
  BY <1>2, <1>3 DEF Untaken
<1>9. NotYetMoved'
  BY <1>2, <1>8 DEF PInv, NotYetMoved, Seen
<1>10. DestinationIsMine'
  BY <1>2, <1>8 DEF PInv, DestinationIsMine, IInv, TypeOK
<1>11. QED BY <1>5, <1>6, <1>7, <1>9, <1>10 DEF PInv

\* A pass that returns forgets what it was about to do.
LEMMA ReturnedPass ==
  ASSUME TypeOK, NEW s \in Passes, PassReturn(s)
  PROVE  /\ spc'[s] = "idle" /\ sfile'[s] = NoFile
         /\ \A t \in Passes \ {s} : spc'[t] = spc[t] /\ sfile'[t] = sfile[t]
                                  /\ sfrom'[t] = sfrom[t] /\ want'[t] = want[t]
         /\ \A t \in Passes : spc'[t] # "idle" => t # s
BY DEF PassReturn, TypeOK

\* The rename itself: from outside the naming, where nothing else is aimed at, into it.
LEMMA RelocatePaths ==
  ASSUME IInv, PInv, NEW s \in Passes, Relocate(s)
  PROVE  PInv'
<1> PICK f \in Files : f = sfile[s]
  BY DEF Relocate, IInv, PassesKeepTheRoot
<1>1. /\ spc[s] = "rename" /\ sfile[s] = f
      /\ UNCHANGED <<row, path, mpc, mjob, from, stale, turn, target, seen>>
  BY DEF Relocate, moverVars, clientVars, IInv, PassesKeepTheRoot
<1>2. /\ want[s] \in Paths /\ sfrom[s] \in Paths /\ Root(want[s]) = Root(sfrom[s])
      /\ want[s][2] \in Naming /\ sfrom[s][2] \notin Naming
  BY <1>1 DEF IInv, PassesKeepTheRoot, PInv, PassesRename
<1>3. CASE sfrom[s] \notin disk[f]
  <2>1. disk' = disk /\ PassReturn(s)
    BY <1>3 DEF Relocate
  <2>2. PassesRename' /\ RenamedOnce'
    BY <1>1, <2>1, ReturnedPass DEF PInv, PassesRename, RenamedOnce, Renaming, Seen, IInv
  <2>3. \A g \in Files : \A x : Untaken(g, x) => Untaken(g, x)'
    BY <1>1, <2>1, ReturnedPass, ConstantsAssumption DEF Untaken, IInv
  <2>4. NotYetMoved'
    BY <1>1, <2>1, <2>3 DEF PInv, NotYetMoved, Seen
  <2>5. DestinationIsMine'
    BY <1>1, <2>1, <2>3 DEF PInv, DestinationIsMine, IInv, TypeOK
  <2>6. HoldsTheTurn' /\ StaleIsLeft'
    BY <1>1 DEF PInv, HoldsTheTurn, StaleIsLeft
  <2>7. QED BY <2>2, <2>4, <2>5, <2>6 DEF PInv
<1>4. CASE sfrom[s] \in disk[f]
  <2>1. /\ disk'[f] = (disk[f] \ {sfrom[s]}) \cup {want[s]}
        /\ \A g \in Files \ {f} : disk'[g] = disk[g]
        /\ spc'[s] = "setpath" /\ \A t \in Passes \ {s} : spc'[t] = spc[t]
        /\ UNCHANGED <<sfile, sfrom, want>>
    BY <1>1, <1>4 DEF Relocate, IInv, TypeOK
  <2>2. InLibrary(want[s]) <=> Outdated(sfrom[s])
    BY <1>2, MoveTargets DEF InLibrary, Outdated
  <2>3. ~Outdated(want[s])
    BY <1>2 DEF Outdated
  <2>4. PassesRename'
    <3>1. \A t \in Passes : spc[t] # "idle" => want[t] # sfrom[s]
      BY <1>2 DEF PInv, PassesRename
    <3>2. QED BY <1>1, <1>2, <2>1, <3>1 DEF PInv, PassesRename, IInv, PassesKeepTheRoot
  <2>5. \A t \in Passes : Renaming(t, f)' => Renaming(t, f) \/ t = s
    BY <2>1 DEF Renaming
  <2>6. \A g \in Files \ {f}, t \in Passes : Renaming(t, g)' <=> Renaming(t, g)
    BY <1>1, <2>1 DEF Renaming
  <2>7. \A g \in Files : Seen(g)' = Seen(g)
    BY <1>1 DEF Seen
  <2>8. \A g \in Files : \A p : Outdated(p) /\ p \in disk'[g] => p \in disk[g]
    BY <2>1, <2>3
  <2>9. RenamedOnce'
    <3>1. CASE Outdated(sfrom[s])
      <4>1. \A p \in disk'[f] : ~Outdated(p)
        BY <1>1, <1>4, <2>1, <2>3, <3>1 DEF PInv, RenamedOnce
      <4>2. /\ \A p \in Seen(f) : ~Renamed(p)
            /\ \A t \in Passes : ~Renaming(t, f)
        BY <1>1, <1>4, <3>1 DEF PInv, RenamedOnce
      <4>3. ASSUME NEW g \in Files
            PROVE  /\ \A p, q \in disk'[g] : Outdated(p) /\ Outdated(q) => p = q
                   /\ (\E p \in Seen(g)' : Renamed(p)) \/ (\E t \in Passes : Renaming(t, g)') =>
                        \A p \in disk'[g] : ~Outdated(p)
                   /\ (\E p \in Seen(g)' : Renamed(p)) => \A t \in Passes : ~Renaming(t, g)'
                   /\ \A t, u \in Passes : Renaming(t, g)' /\ Renaming(u, g)' => t = u
        <5>1. CASE g = f
          BY <2>5, <2>7, <4>1, <4>2, <5>1
        <5>2. CASE g # f
          BY <2>1, <2>6, <2>7, <5>2 DEF PInv, RenamedOnce
        <5>3. QED BY <5>1, <5>2
      <4>4. QED BY <4>3 DEF RenamedOnce
    <3>2. CASE ~Outdated(sfrom[s])
      <4>1. \A g \in Files, t \in Passes : Renaming(t, g)' => Renaming(t, g)
        BY <2>1, <2>2, <3>2 DEF Renaming
      <4>2. QED BY <2>7, <2>8, <4>1 DEF PInv, RenamedOnce
    <3>3. QED BY <3>1, <3>2
  <2>10. HoldsTheTurn' /\ StaleIsLeft'
    BY <1>1 DEF PInv, HoldsTheTurn, StaleIsLeft
  <2>11. \A g, x : Untaken(g, x)' <=> Untaken(g, x)
    BY <1>1, <2>1 DEF Untaken
  <2>12. NotYetMoved'
    BY <1>1, <2>7, <2>8, <2>11 DEF PInv, NotYetMoved
  <2>13. DestinationIsMine'
    <3>1. ASSUME NEW m \in Movers, mpc[m] = "record", row[mjob[m]] # "none", mjob[m] = f
          PROVE  MoveTarget(from[m]) # sfrom[s]
      <4>1. from[m] \in Paths /\ (Outdated(from[m]) \/ Renamed(from[m]))
        BY <3>1, MoveTargets DEF IInv, TypeOK, InLibrary, NoPath, Paths
      <4>2. CASE Outdated(from[m])
        BY <3>1, <4>2 DEF PInv, DestinationIsMine, Untaken
      <4>3. CASE Renamed(from[m])
        BY <1>2, <4>1, <4>3, MoveTargets DEF Renamed
      <4>4. QED BY <4>1, <4>2, <4>3
    <3>2. \A m \in Movers : mpc[m] = "record" => mjob[m] \in Files
      BY DEF IInv, TypeOK
    <3>3. QED BY <1>1, <2>1, <2>11, <3>1, <3>2 DEF PInv, DestinationIsMine
  <2>14. QED BY <2>4, <2>9, <2>10, <2>12, <2>13 DEF PInv
<1>5. QED BY <1>3, <1>4

\* Recording what was renamed; when that fails the row keeps the old path.
LEMMA SetPathPaths ==
  ASSUME IInv, PInv, NEW s \in Passes, SetLocalPath(s)
  PROVE  PInv'
<1> PICK f \in Files : f = sfile[s]
  BY DEF SetLocalPath, IInv, PassesKeepTheRoot
<1>1. /\ spc[s] = "setpath" /\ sfile[s] = f /\ PassReturn(s) /\ TypeOK
      /\ UNCHANGED <<row, disk, mpc, mjob, from, stale, turn, target, seen>>
  BY DEF SetLocalPath, moverVars, clientVars, IInv
<1>2. /\ want[s] \in Paths /\ want[s][2] \in Naming
      /\ InLibrary(want[s]) <=> Renaming(s, f)
      /\ ~Outdated(want[s]) /\ (Renamed(want[s]) => Renaming(s, f))
  BY <1>1 DEF IInv, PassesKeepTheRoot, PInv, PassesRename, Renaming, Outdated, Renamed
<1>3. /\ \A g \in Files \ {f} : path'[g] = path[g]
      /\ path'[f] = path[f] \/ (row[f] # "none" /\ path'[f] = want[s])
  BY <1>1 DEF SetLocalPath, TypeOK
<1>4. /\ spc'[s] = "idle" /\ sfile'[s] = NoFile
      /\ \A t \in Passes \ {s} : spc'[t] = spc[t] /\ sfile'[t] = sfile[t]
                               /\ sfrom'[t] = sfrom[t] /\ want'[t] = want[t]
  BY <1>1, ReturnedPass
<1>5. PassesRename'
  BY <1>1, <1>4 DEF PInv, PassesRename
<1>6. \A g \in Files, t \in Passes : Renaming(t, g)' => t # s /\ Renaming(t, g)
  BY <1>4 DEF Renaming
<1>7. \A g \in Files \ {f} : Seen(g)' = Seen(g)
  BY <1>1, <1>3 DEF Seen
<1>8. Seen(f)' \subseteq Seen(f) \cup {want[s]}
  BY <1>1, <1>3 DEF Seen
<1>9. RenamedOnce'
  <2>1. ASSUME NEW p \in Seen(f)', Renamed(p)
        PROVE  /\ \A q \in disk[f] : ~Outdated(q)
               /\ \A t \in Passes : ~Renaming(t, f)'
    <3>1. CASE p \in Seen(f)
      BY <1>1, <1>6, <2>1, <3>1 DEF PInv, RenamedOnce
    <3>2. CASE p = want[s]
      BY <1>1, <1>2, <1>6, <2>1, <3>2 DEF PInv, RenamedOnce
    <3>3. QED BY <1>8, <2>1, <3>1, <3>2
  <2>2. QED BY <1>1, <1>6, <1>7, <2>1 DEF PInv, RenamedOnce
<1>10. HoldsTheTurn'
  BY <1>1 DEF PInv, HoldsTheTurn
<1>11. StaleIsLeft'
  <2>1. ASSUME NEW m \in Movers, mpc[m] = "clean", mjob[m] = f, stale[m] = from[m]
        PROVE  want[s] # stale[m]
    <3>1. from[m] \in Paths /\ Root(from[m]) = "library" /\ from[m] \in Seen(f)
      BY <1>1, <2>1 DEF Seen, TypeOK
    <3>2. Renamed(from[m]) => ~Renaming(s, f)
      BY <1>1, <3>1 DEF PInv, RenamedOnce, Renamed
    <3>3. QED BY <1>2, <2>1, <3>1, <3>2, MoveTargets DEF Renamed, InLibrary
  <2>2. \A m \in Movers : mpc[m] = "clean" => mjob[m] \in Files
    BY DEF IInv, TypeOK
  <2>3. QED BY <1>1, <1>3, <2>1, <2>2 DEF PInv, StaleIsLeft
<1>12. ASSUME NEW g \in Files, NEW x \in Paths, Outdated(x), Untaken(g, x)
       PROVE  Untaken(g, x)'
  <2>1. want[s] # MoveTarget(x)
    BY <1>2, <1>12, MoveTargets DEF Outdated
  <2>2. QED BY <1>3, <1>4, <1>12, <2>1, ConstantsAssumption DEF Untaken
<1>13. NotYetMoved'
  <2>1. SUFFICES ASSUME NEW g \in Files, row[g] # "none", NEW x \in Seen(g)', Outdated(x),
                        x \in disk[g],
                        ~\E m \in Movers : mjob[m] = g /\ mpc[m] = "clean" /\ stale[m] = x
                 PROVE  Untaken(g, x)'
    BY <1>1 DEF NotYetMoved
  <2>2. x \in Seen(g)
    BY <1>2, <1>7, <1>8, <2>1
  <2>3. x \in Paths
    BY <1>1, <2>1, <2>2, SeenTypes DEF Outdated, InLibrary
  <2>4. QED BY <1>12, <2>1, <2>2, <2>3 DEF PInv, NotYetMoved
<1>14. DestinationIsMine'
  <2>1. \A m \in Movers : mpc[m] # "idle" => mjob[m] \in Files /\ from[m] \in Paths
    BY <1>1 DEF TypeOK
  <2>2. QED BY <1>1, <1>12, <2>1 DEF PInv, DestinationIsMine
<1>15. QED BY <1>5, <1>9, <1>10, <1>11, <1>13, <1>14 DEF PInv

\* A restart leaves the rows and the files; the paths of the rows are all that is known.
LEMMA RestartPaths ==
  ASSUME IInv, PInv, Restart
  PROVE  PInv'
<1>1. /\ UNCHANGED <<path, disk>>
      /\ \A f \in Files : row'[f] # "none" => row[f] # "none"
      /\ \A m \in Movers : mpc'[m] = "idle" /\ mjob'[m] = NoFile
      /\ \A c \in Clients : target'[c] = NoFile
      /\ \A s \in Passes : spc'[s] = "idle" /\ sfile'[s] = NoFile
  BY DEF Restart, ResetInterruptedLocal
<1>2. \A f \in Files : Seen(f)' = {path[f]}
  BY <1>1, ConstantsAssumption DEF Seen
<1>3. PassesRename' /\ HoldsTheTurn' /\ StaleIsLeft' /\ DestinationIsMine'
  BY <1>1 DEF PassesRename, HoldsTheTurn, StaleIsLeft, DestinationIsMine
<1>4. RenamedOnce'
  <2>1. \A f \in Files : path[f] \in Seen(f)
    BY DEF Seen
  <2>2. QED BY <1>1, <1>2, <2>1 DEF PInv, RenamedOnce, Renaming
<1>5. NotYetMoved'
  <2>1. \A f \in Files : path[f] \in Paths
    BY DEF IInv, TypeOK
  <2>2. \A f \in Files : Outdated(path[f]) => Untaken(f, path[f])'
    BY <1>1, <2>1, MoveTargets, ConstantsAssumption DEF Untaken, Outdated
  <2>3. QED BY <1>1, <1>2, <2>2 DEF NotYetMoved
<1>6. QED BY <1>3, <1>4, <1>5 DEF PInv

\* Opening succeeds or fails.
LEMMA OpenedOrFailed ==
  ASSUME TypeOK, NEW m \in Movers
  PROVE  OpenSource(m) => mpc'[m] \in {"stage", "failed"}
BY DEF OpenSource, Goto, TypeOK

\* PInv is inductive: each step keeps it.
LEMMA PathsInductive ==
  ASSUME OnePlace, IInv, IInv', PInv, [Next]_vars
  PROVE  PInv'
<1>1. TypeOK'
  BY DEF IInv
<1>2. ASSUME NEW m \in Movers, MoverStep(m) PROVE PInv'
  <2>1. CASE OpenSource(m)
    BY <1>1, <2>1, OpenedOrFailed, OpenPaths, MoverPaths DEF IInv
  <2>2. CASE RenameCopy(m) \/ RecordMove(m) \/ DeleteStale(m)
    BY <1>1, <2>2, RenamePaths, RecordPaths, DeletePaths, MoverPaths
  <2>3. CASE \/ TakeTurn(m) \/ GiveUp(m) \/ Stage(m) \/ CopyData(m) \/ FailMove(m)
             \/ Leave(m)
    BY <1>1, <2>3, MoverPaths
  <2>4. QED BY <1>2, <2>1, <2>2, <2>3 DEF MoverStep
<1>3. ASSUME NEW s \in Passes, PassStep(s) \/ \E f \in Files : ReadCopy(s, f) PROVE PInv'
  BY <1>3, ReadCopyPaths, RelocatePaths, SetPathPaths DEF PassStep
<1>4. CASE Stop \/ UNCHANGED vars
  <2>1. UNCHANGED <<diskVars, moverVars, clientVars, passVars>>
    BY <1>4 DEF Stop, vars
  <2>2. \A f \in Files : Seen(f)' = Seen(f)
    BY <2>1 DEF Seen, diskVars, moverVars, clientVars
  <2>3. PassesRename' /\ RenamedOnce' /\ HoldsTheTurn' /\ StaleIsLeft'
    BY <2>1, <2>2 DEF PInv, PassesRename, RenamedOnce, Renaming, HoldsTheTurn, StaleIsLeft,
                      diskVars, moverVars, passVars
  <2>4. NotYetMoved' /\ DestinationIsMine'
    BY <2>1, <2>2 DEF PInv, NotYetMoved, DestinationIsMine, Untaken, diskVars, moverVars,
                      passVars
  <2>5. QED BY <2>3, <2>4 DEF PInv
<1>5. QED BY <1>1, <1>2, <1>3, <1>4, CallPaths, RestartPaths DEF Next

LEMMA PathsInvariant ==
  ASSUME OnePlace
  PROVE  Spec => []PInv
<1>1. Init => PInv
  <2> SUFFICES ASSUME Init PROVE PInv
    OBVIOUS
  <2>1. /\ \A m \in Movers : mpc[m] = "idle" /\ mjob[m] = NoFile
        /\ \A c \in Clients : target[c] = NoFile
        /\ \A s \in Passes : spc[s] = "idle" /\ sfile[s] = NoFile
        /\ \A f \in Files : disk[f] = {path[f]} /\ path[f] \in Paths
    BY DEF Init, Paths
  <2>2. \A f \in Files : Seen(f) = {path[f]}
    BY <2>1, ConstantsAssumption DEF Seen
  <2>3. PassesRename /\ HoldsTheTurn /\ StaleIsLeft /\ DestinationIsMine
    BY <2>1 DEF PassesRename, HoldsTheTurn, StaleIsLeft, DestinationIsMine
  <2>4. RenamedOnce
    BY <2>1, <2>2, MoveTargets DEF RenamedOnce, Renaming
  <2>5. \A f \in Files : Outdated(path[f]) => Untaken(f, path[f])
    BY <2>1, MoveTargets, ConstantsAssumption DEF Untaken, Outdated
  <2>6. NotYetMoved
    BY <2>2, <2>5 DEF NotYetMoved
  <2>7. QED BY <2>3, <2>4, <2>6 DEF PInv
<1>2. IInv /\ IInv' /\ PInv /\ [Next]_vars => PInv'
  BY PathsInductive
<1>3. QED BY <1>1, <1>2, InductiveInvariant, PTL DEF Spec

\* A copy that is where its row says stays there until its entry is removed, but for the
\* moment between a relocation's rename and its row, whenever the naming rules put a file
\* in one place: neither a move that finishes, fails or is cancelled, nor the removal of an
\* earlier entry for the key, nor a restart at any point, separates the two.
THEOREM PathsAreValid ==
  ASSUME OnePlace
  PROVE  Spec => PathsStayValid
<1> DEFINE Valid(f) == path'[f] \in disk'[f] \/ Relocating(f)'
           Had(f) == row[f] # "none" /\ path[f] \in disk[f] /\ row'[f] # "none"
<1>1. IInv /\ PInv /\ [Next]_vars => [\A f \in Files : Had(f) => Valid(f)]_vars
  <2> SUFFICES ASSUME IInv, PInv, Next, NEW f \in Files, Had(f)
               PROVE  Valid(f)
    OBVIOUS
  <2>1. ASSUME NEW c \in Clients,
               CallStep(c) \/ \E g \in Files : MoveCall(c, g) \/ RemoveCall(c, g)
        PROVE  Valid(f)
    BY <2>1, CallsKeepFiles
  <2>2. CASE Stop \/ Restart
    BY <2>2 DEF Stop, Restart, diskVars
  <2>3. ASSUME NEW m \in Movers, MoverStep(m) PROVE Valid(f)
    <3>1. CASE \/ TakeTurn(m) \/ GiveUp(m) \/ OpenSource(m) \/ Stage(m) \/ CopyData(m)
               \/ FailMove(m) \/ Leave(m)
      BY <3>1 DEF TakeTurn, GiveUp, OpenSource, Stage, CopyData, FailMove, Leave, diskVars
    <3>2. CASE RenameCopy(m)
      <4>1. path' = path /\ disk[f] \subseteq disk'[f]
        BY <3>2 DEF RenameCopy, IInv, TypeOK
      <4>2. QED BY <4>1
    <3>3. CASE RecordMove(m)
      <4>1. /\ mpc[m] = "record" /\ disk' = disk
            /\ \/ path' = path
               \/ /\ path' = [path EXCEPT ![mjob[m]] = MoveTarget(from[m])]
                  /\ row[mjob[m]] = "moving"
        BY <3>3 DEF RecordMove
      <4>2. row[mjob[m]] = "moving" => MoveTarget(from[m]) \in disk[mjob[m]]
        BY <4>1 DEF PInv, DestinationIsMine
      <4>3. QED BY <4>1, <4>2 DEF IInv, TypeOK
    <3>4. CASE DeleteStale(m)
      <4>1. /\ mpc[m] = "clean" /\ UNCHANGED <<row, path>>
            /\ disk' = [disk EXCEPT ![mjob[m]] = @ \ {stale[m]}]
        BY <3>4 DEF DeleteStale
      <4>2. mjob[m] = f => path[f] # stale[m]
        BY <4>1 DEF PInv, StaleIsLeft
      <4>3. QED BY <4>1, <4>2 DEF IInv, TypeOK
    <3>5. QED BY <2>3, <3>1, <3>2, <3>3, <3>4 DEF MoverStep
  <2>4. ASSUME NEW s \in Passes, PassStep(s) \/ \E g \in Files : ReadCopy(s, g)
        PROVE  Valid(f)
    <3>1. CASE \E g \in Files : ReadCopy(s, g)
      BY <3>1 DEF ReadCopy, diskVars
    <3>2. CASE Relocate(s)
      <4>1. path' = path
        BY <3>2 DEF Relocate
      <4>2. CASE sfrom[s] \in disk[sfile[s]] /\ sfile[s] = f
        <5>1. sfile'[s] = f /\ spc'[s] = "setpath"
          BY <3>2, <4>2 DEF Relocate, IInv, TypeOK
        <5>2. QED BY <5>1 DEF Relocating
      <4>3. CASE sfrom[s] \notin disk[sfile[s]] \/ sfile[s] # f
        <5>1. disk'[f] = disk[f]
          BY <3>2, <4>3 DEF Relocate, IInv, TypeOK
        <5>2. QED BY <4>1, <5>1
      <4>4. QED BY <4>2, <4>3
    <3>3. CASE SetLocalPath(s)
      <4>1. /\ disk' = disk /\ spc[s] = "setpath"
            /\ path' = path \/ path' = [path EXCEPT ![sfile[s]] = want[s]]
        BY <3>3 DEF SetLocalPath
      <4>2. row[sfile[s]] # "none" => want[s] \in disk[sfile[s]]
        BY <4>1 DEF PInv, PassesRename
      <4>3. QED BY <4>1, <4>2 DEF IInv, TypeOK
    <3>4. QED BY <2>4, <3>1, <3>2, <3>3 DEF PassStep
  <2>5. QED BY <2>1, <2>2, <2>3, <2>4 DEF Next
<1>2. QED BY <1>1, InductiveInvariant, PathsInvariant, PTL DEF Spec, PathsStayValid
=============================================================================
