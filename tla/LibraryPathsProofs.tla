-------------------------- MODULE LibraryPathsProofs --------------------------
(***************************************************************************)
(* Theorems about LibraryPaths, from ConstantsAssumption alone: any files  *)
(* and titles, any numbering, any number of passes, any behaviour of the   *)
(* naming rules, any faults.  That paths are distinct and .strm files      *)
(* owned holds of behaviours in which passes do not overlap and their      *)
(* queries succeed (Orderly).                                              *)
(***************************************************************************)
EXTENDS LibraryPaths, TLAPS

------------------------------------------------------------------------------
(* Paths.                                                                    *)

\* The first candidate is a path, and so is the one after any path.
LEMMA CandidatePaths ==
  ASSUME NEW x \in Paths, NEW f \in Files, NEW t \in Titles,
         x[2] \in SlotsOf(f)
  PROVE  /\ <<t, 1>> \in Paths /\ <<t, 1>>[2] \in SlotsOf(f)
         /\ Candidate(x, f) \in Paths /\ Candidate(x, f)[2] \in SlotsOf(f)
<1>1. /\ 1 \in 1 .. Numbered
      /\ f \in Slots /\ f \notin 1 .. Numbered
      /\ x[1] \in Titles /\ x[2] \in (1 .. Numbered) \cup {f}
  BY ConstantsAssumption DEF Paths, Slots, SlotsOf
<1>2. <<t, 1>> \in Paths /\ <<t, 1>>[2] \in SlotsOf(f)
  BY <1>1 DEF Paths, Slots, SlotsOf
<1>3. CASE x[2] \in 1 .. Numbered - 1
  <2>1. x[2] + 1 \in 1 .. Numbered
    BY <1>3, ConstantsAssumption
  <2>2. Candidate(x, f) = <<x[1], x[2] + 1>>
    BY <1>3, <1>1, ConstantsAssumption DEF Candidate
  <2>3. QED BY <1>1, <1>2, <2>1, <2>2 DEF Paths, Slots, SlotsOf
<1>4. CASE x[2] = Numbered
  <2>1. Candidate(x, f) = <<x[1], f>>
    BY <1>4, <1>1, ConstantsAssumption DEF Candidate
  <2>2. QED BY <1>1, <1>2, <2>1 DEF Paths, SlotsOf
<1>5. CASE x[2] = f
  <2>1. Candidate(x, f) = <<x[1], 1>>
    BY <1>5, <1>1, ConstantsAssumption DEF Candidate
  <2>2. QED BY <1>1, <1>2, <2>1 DEF Paths, Slots, SlotsOf
<1>6. x[2] \in 1 .. Numbered - 1 \/ x[2] = Numbered \/ x[2] = f
  BY <1>1, ConstantsAssumption
<1>7. QED BY <1>3, <1>4, <1>5, <1>6

------------------------------------------------------------------------------
(* Types.  OwnSlots goes with them: the candidate after a path depends on it. *)

Types == TypeOK /\ OwnSlots

\* The initial states.
LEMMA InitTypes == Init => Types
<1> SUFFICES ASSUME Init PROVE Types
  OBVIOUS
<1> USE DEF Init, AtFile, MaybePaths, MaybeFiles, Nowhere
<1>1. /\ cloud \subseteq Files /\ title \in [Files -> Titles]
      /\ row \in [Files -> MaybePaths] /\ kept \in [Files -> MaybePaths]
      /\ strm \in [Paths -> MaybeFiles] /\ media \in [Paths -> MaybeFiles]
  OBVIOUS
<1>2. /\ pc \in [Passes -> AtFile \cup {"idle", "files", "prune", "pruneRow"}]
      /\ listing \in [Passes -> SUBSET Files] /\ todo \in [Passes -> SUBSET Files]
      /\ cur \in [Passes -> MaybeFiles]
      /\ path \in [Passes -> MaybePaths] /\ old \in [Passes -> MaybePaths]
      /\ fresh \in [Passes -> SUBSET Files]
      /\ job = Idle /\ trouble \subseteq Troubles /\ calm \in BOOLEAN
  OBVIOUS
<1>3. prune \in [Passes -> [Files -> MaybePaths]]
  OBVIOUS
<1>4. \A p \in Passes : pc[p] \notin AtFile
  OBVIOUS
<1>5. OwnSlots
  BY <1>4 DEF OwnSlots
<1>6. QED BY <1>1, <1>2, <1>3, <1>4, <1>5 DEF Types, TypeOK

\* The steps of a pass that handle a file.
LEMMA FileTypes ==
  ASSUME Types, NEW p \in Passes,
         \/ TakeFile(p) \/ UniquePath(p) \/ LookupOld(p) \/ RemoveOld(p)
         \/ UpsertFile(p) \/ KeepLocal(p) \/ Relocate(p) \/ RemoveShadow(p)
         \/ WriteStrm(p)
  PROVE  Types'
<1> USE DEF Types, TypeOK, OwnSlots, AtFile, MaybePaths, MaybeFiles, Goto, NextFile, env
<1>1. CASE TakeFile(p)
  <2>1. PICK f \in todo[p] :
          /\ todo' = [todo EXCEPT ![p] = @ \ {f}]
          /\ cur' = [cur EXCEPT ![p] = f]
          /\ path' = [path EXCEPT ![p] = <<title[f], 1>>]
    BY <1>1 DEF TakeFile
  <2>2. f \in Files /\ title[f] \in Titles
    OBVIOUS
  <2>3. 1 \in 1 .. Numbered
    BY ConstantsAssumption
  <2>4. <<title[f], 1>> \in Paths /\ <<title[f], 1>>[2] \in SlotsOf(f)
    BY <2>2, <2>3 DEF Paths, Slots, SlotsOf
  <2>5. QED BY <1>1, <2>1, <2>2, <2>4 DEF TakeFile
<1>2. CASE UniquePath(p)
  <2>1. /\ cur[p] \in Files /\ path[p] \in Paths
        /\ path[p][2] \in SlotsOf(cur[p])
    BY <1>2 DEF UniquePath
  <2>2. path[p][1] \in Titles
    BY <2>1 DEF Paths
  <2>3. /\ Candidate(path[p], cur[p]) \in Paths
        /\ Candidate(path[p], cur[p])[2] \in SlotsOf(cur[p])
    BY <2>1, <2>2, CandidatePaths
  <2>4. path' = path \/ path' = [path EXCEPT ![p] = Candidate(path[p], cur[p])]
    BY <1>2 DEF UniquePath
  <2>5. QED BY <1>2, <2>1, <2>3, <2>4 DEF UniquePath
<1>3. CASE LookupOld(p)
  <2>1. PICK x \in MaybePaths :
          LET moved == x \notin {NoPath, path[p]}
          IN /\ old' = [old EXCEPT ![p] = IF moved THEN x ELSE NoPath]
             /\ Goto(p, IF moved THEN "unlink" ELSE "upsert")
    BY <1>3 DEF LookupOld, Read
  <2>2. QED BY <1>3, <2>1 DEF LookupOld
<1>4. CASE RemoveOld(p)
  BY <1>4 DEF RemoveOld
<1>5. CASE UpsertFile(p)
  <2>1. cur[p] \in Files /\ path[p] \in Paths /\ path[p][2] \in SlotsOf(cur[p])
    BY <1>5 DEF UpsertFile
  <2>2. row' \in [Files -> MaybePaths]
    BY <1>5, <2>1 DEF UpsertFile
  <2>3. fresh' \in [Passes -> SUBSET Files]
    <3>1. \A q \in Passes : {} \subseteq Files
                           /\ fresh[q] \cup ({cur[p]} \ listing[q]) \subseteq Files
      BY <2>1
    <3>2. CASE fresh' = [q \in Passes |-> IF pc[q] = "idle" THEN {}
                                     ELSE fresh[q] \cup ({cur[p]} \ listing[q])]
      BY <3>1, <3>2
    <3>3. CASE UNCHANGED fresh
      BY <3>3
    <3>4. QED BY <1>5, <3>2, <3>3 DEF UpsertFile
  <2>4. \A f \in Files : row'[f] # NoPath => row'[f][2] \in SlotsOf(f)
    BY <1>5, <2>1 DEF UpsertFile
  <2>5. /\ pc' \in [Passes -> AtFile \cup {"idle", "files", "prune", "pruneRow"}]
        /\ cur' \in [Passes -> MaybeFiles]
        /\ path' \in [Passes -> MaybePaths] /\ old' \in [Passes -> MaybePaths]
    BY <1>5 DEF UpsertFile
  <2>6. \A q \in Passes : pc'[q] \in AtFile =>
          /\ cur'[q] \in Files /\ path'[q] \in Paths
          /\ path'[q][2] \in SlotsOf(cur'[q])
    BY <1>5 DEF UpsertFile
  <2>7. \A q \in Passes : pc'[q] \in {"unlink", "relocate"} => old'[q] \in Paths
    BY <1>5 DEF UpsertFile
  <2>8. UNCHANGED <<cloud, title, kept, strm, media, listing, todo, prune, job, env>>
    BY <1>5 DEF UpsertFile
  <2>9. QED BY <2>2, <2>3, <2>4, <2>5, <2>6, <2>7, <2>8
<1>6. CASE KeepLocal(p)
  <2>1. PICK x \in MaybePaths :
          /\ old' = [old EXCEPT ![p] = x]
          /\ Goto(p, IF x = NoPath THEN "write"
                     ELSE IF x = path[p] THEN "shadow" ELSE "relocate")
    BY <1>6 DEF KeepLocal, Read
  <2>2. QED BY <1>6, <2>1 DEF KeepLocal
<1>7. CASE Relocate(p)
  <2>1. cur[p] \in Files /\ path[p] \in Paths
    BY <1>7 DEF Relocate
  <2>2. kept' \in [Files -> MaybePaths]
    BY <1>7, <2>1 DEF Relocate
  <2>3. media' \in [Paths -> MaybeFiles]
    <3>1. old[p] \in Paths /\ media[old[p]] \in MaybeFiles
      BY <1>7 DEF Relocate
    <3>2. QED BY <1>7, <2>1, <3>1 DEF Relocate
  <2>4. /\ pc' \in [Passes -> AtFile \cup {"idle", "files", "prune", "pruneRow"}]
        /\ \A q \in Passes :
             /\ pc'[q] \in AtFile => pc[q] \in AtFile
             /\ pc'[q] \in {"unlink", "relocate"} => pc[q] \in {"unlink", "relocate"}
    BY <1>7 DEF Relocate
  <2>5. UNCHANGED <<cloud, title, row, strm, listing, todo, cur, path, old, prune,
                    fresh, job, env>>
    BY <1>7 DEF Relocate
  <2>6. QED BY <2>2, <2>3, <2>4, <2>5
<1>8. CASE RemoveShadow(p)
  BY <1>8 DEF RemoveShadow
<1>9. CASE WriteStrm(p)
  BY <1>9 DEF WriteStrm
<1>10. QED BY <1>1, <1>2, <1>3, <1>4, <1>5, <1>6, <1>7, <1>8, <1>9

\* Starting, pruning and ending a pass.
LEMMA PruneTypes ==
  ASSUME Types, NEW p \in Passes,
         \/ StartPass(p) \/ StartPrune(p) \/ PruneStrm(p) \/ PruneRow(p) \/ EndPass(p)
  PROVE  Types'
<1> USE DEF Types, TypeOK, OwnSlots, AtFile, MaybePaths, MaybeFiles, Goto, env
<1>1. CASE StartPass(p)
  BY <1>1 DEF StartPass
<1>2. CASE StartPrune(p)
  BY <1>2 DEF StartPrune
<1>3. CASE PruneStrm(p)
  BY <1>3 DEF PruneStrm
<1>4. CASE PruneRow(p)
  BY <1>4 DEF PruneRow
<1>5. CASE EndPass(p)
  BY <1>5 DEF EndPass
<1>6. QED BY <1>1, <1>2, <1>3, <1>4, <1>5

\* What happens around the passes.
LEMMA EnvironmentTypes ==
  ASSUME Types,
         \/ Promote \/ Restart \/ CalmDown \/ UNCHANGED vars
         \/ \E f \in Files : LookupFile(f) \/ CloudChange(f) \/ Retitle(f)
  PROVE  Types'
<1> USE DEF Types, TypeOK, OwnSlots, AtFile, MaybePaths, MaybeFiles, work, env
<1>1. CASE Promote
  <2>1. job[1] \in Files /\ job[2] \in Paths
    BY <1>1 DEF Promote
  <2>2. QED BY <1>1, <2>1 DEF Promote
<1>2. CASE Restart
  BY <1>2 DEF Restart, Nowhere
<1>3. CASE CalmDown
  BY <1>3 DEF CalmDown
<1>4. CASE UNCHANGED vars
  BY <1>4 DEF vars
<1>5. CASE \E f \in Files : LookupFile(f)
  BY <1>5 DEF LookupFile
<1>6. CASE \E f \in Files : CloudChange(f)
  BY <1>6 DEF CloudChange
<1>7. CASE \E f \in Files : Retitle(f)
  BY <1>7 DEF Retitle
<1>8. QED BY <1>1, <1>2, <1>3, <1>4, <1>5, <1>6, <1>7

\* The types hold in every reachable state, with a path's id its file's own.
LEMMA TypesHold == Spec => []Types
<1>1. Types /\ [Next]_vars => Types'
  <2>1. SUFFICES ASSUME Types, [Next]_vars PROVE Types'
    OBVIOUS
  <2>2. ASSUME NEW p \in Passes, StartPass(p) \/ PassStep(p) PROVE Types'
    BY <2>1, <2>2, FileTypes, PruneTypes DEF PassStep
  <2>3. CASE \/ Promote \/ Restart \/ CalmDown \/ UNCHANGED vars
             \/ \E f \in Files : LookupFile(f) \/ CloudChange(f) \/ Retitle(f)
    BY <2>1, <2>3, EnvironmentTypes
  <2>4. QED BY <2>1, <2>2, <2>3 DEF Next
<1>2. QED BY <1>1, InitTypes, PTL DEF Spec

\* Every variable keeps its type, with any number of passes side by side: a pass
\* never leaves the candidates uniquePath has, and always knows which file it handles.
THEOREM TypeCorrect == Spec => []TypeOK
<1>1. Types => TypeOK
  BY DEF Types
<1>2. QED BY <1>1, TypesHold, PTL

------------------------------------------------------------------------------
(* One pass at a time.                                                       *)

\* A pass that takes a step is the sync loop's; the others stay idle.
LEMMA Alone ==
  ASSUME Orderly, Types, OnePass, NEW p \in Passes, StartPass(p) \/ PassStep(p)
  PROVE  OnePass' /\ \A q \in Passes : q = p \/ pc'[q] = "idle"
<1>1. p = Loop
  <2>1. CASE StartPass(p)
    <3>1. "overlap" \notin trouble
      BY DEF Orderly
    <3>2. QED BY <2>1, <3>1 DEF StartPass
  <2>2. CASE PassStep(p)
    <3>1. pc[p] # "idle"
      BY <2>2 DEF PassStep, TakeFile, UniquePath, LookupOld, RemoveOld, UpsertFile,
                  KeepLocal, Relocate, RemoveShadow, WriteStrm, StartPrune, PruneStrm,
                  PruneRow, EndPass
    <3>2. QED BY <3>1 DEF OnePass
  <2>3. QED BY <2>1, <2>2
<1>2. \A q \in Passes \ {p} : pc'[q] = pc[q]
  BY DEF Types, TypeOK, StartPass, PassStep, TakeFile, UniquePath, LookupOld, RemoveOld,
         UpsertFile, KeepLocal, Relocate, RemoveShadow, WriteStrm, StartPrune,
         PruneStrm, PruneRow, EndPass, Goto, NextFile
<1>3. QED BY <1>1, <1>2 DEF OnePass

\* Nobody else has a row with a path that carries a file's id, so the last candidate
\* is always free.
LEMMA LastIsFree ==
  ASSUME Types, NEW f \in Files, NEW x \in Paths, x[2] = f
  PROVE  ~Taken(x, f)
<1>1. SUFFICES ASSUME NEW g \in Files \ {f}, row[g] = x PROVE FALSE
  BY DEF Taken
<1>2. x # NoPath
  BY ConstantsAssumption
<1>3. f \in (1 .. Numbered) \cup {g}
  BY <1>1, <1>2 DEF Types, OwnSlots, SlotsOf
<1>4. QED BY <1>1, <1>3, ConstantsAssumption

\* Choosing a path and claiming it.
LEMMA ClaimOwned ==
  ASSUME Orderly, Types, Owned, NEW p \in Passes,
         \/ TakeFile(p) \/ UniquePath(p) \/ LookupOld(p) \/ RemoveOld(p)
         \/ UpsertFile(p)
  PROVE  Owned'
<1> USE DEF Owned, ChosenIsFree, OldIsGone, ClaimedIsRow, PrunesRows, PathsDiffer,
            StrmsOwned, Goto, NextFile
<1>0. /\ Read(Taken(path[p], cur[p]), FALSE) = {Taken(path[p], cur[p])}
      /\ Read(row[cur[p]], NoPath) = {row[cur[p]]}
  BY DEF Read, Orderly
<1>1. OnePass' /\ \A q \in Passes : q = p \/ pc'[q] = "idle"
  BY Alone DEF PassStep
<1>2. CASE TakeFile(p)
  BY <1>1, <1>2 DEF TakeFile, Types, TypeOK
<1>3. CASE UniquePath(p)
  <2>1. cur[p] \in Files /\ path[p] \in Paths
    BY <1>3 DEF UniquePath, Types, TypeOK, AtFile
  <2>2. pc'[p] = "old" => path' = path /\ ~Taken(path[p], cur[p])
    BY <1>0, <1>3, <2>1, LastIsFree DEF UniquePath, Types, TypeOK
  <2>3. UNCHANGED <<row, strm, cur>> /\ pc'[p] \in {"probe", "old"}
    BY <1>3 DEF UniquePath, Types, TypeOK
  <2>4. QED BY <1>1, <2>2, <2>3 DEF Taken
<1>4. CASE LookupOld(p)
  <2>1. cur[p] \in Files /\ path[p] \in Paths /\ ~Taken(path[p], cur[p])
    BY <1>4 DEF LookupOld, Types, TypeOK, AtFile
  <2>2. UNCHANGED <<row, strm, cur, path>>
    BY <1>4 DEF LookupOld
  <2>3. CASE row[cur[p]] \notin {NoPath, path[p]}
    <3>1. pc'[p] = "unlink" /\ old'[p] = row[cur[p]]
      BY <1>0, <1>4, <2>3 DEF LookupOld, Types, TypeOK
    <3>2. QED BY <1>1, <2>1, <2>2, <2>3, <3>1 DEF Taken
  <2>4. CASE row[cur[p]] \in {NoPath, path[p]}
    <3>1. pc'[p] = "upsert"
      BY <1>0, <1>4, <2>4 DEF LookupOld, Types, TypeOK
    <3>2. \A x \in Paths : strm[x] = cur[p] => x = path[p]
      BY <2>1, <2>4, ConstantsAssumption
    <3>3. QED BY <1>1, <2>1, <2>2, <3>1, <3>2 DEF Taken
  <2>5. QED BY <2>3, <2>4
<1>5. CASE RemoveOld(p)
  <2>1. /\ cur[p] \in Files /\ old[p] = row[cur[p]] /\ old[p] \in Paths
        /\ ~Taken(path[p], cur[p])
    BY <1>5 DEF RemoveOld, Types, TypeOK, AtFile
  <2>2. UNCHANGED <<row, cur, path>> /\ pc'[p] = "upsert"
    BY <1>5 DEF RemoveOld, Types, TypeOK
  <2>3. \A x \in Paths : strm'[x] = IF x = old[p] THEN NoFile ELSE strm[x]
    BY <1>5 DEF RemoveOld, Types, TypeOK
  <2>4. \A x \in Paths : strm'[x] # cur[p]
    BY <2>1, <2>3, ConstantsAssumption
  <2>5. QED BY <1>1, <2>1, <2>2, <2>3, <2>4, ConstantsAssumption DEF Taken
<1>6. CASE UpsertFile(p)
  <2>1. /\ cur[p] \in Files /\ path[p] \in Paths /\ ~Taken(path[p], cur[p])
        /\ \A x \in Paths : strm[x] = cur[p] => x = path[p]
    BY <1>6 DEF UpsertFile, Types, TypeOK, AtFile
  <2>2. UNCHANGED strm
    BY <1>6 DEF UpsertFile
  <2>3. CASE pc'[p] = "keep" /\ row' = [row EXCEPT ![cur[p]] = path[p]]
             /\ UNCHANGED <<cur, path>>
    <3>1. \A f \in Files : row'[f] = IF f = cur[p] THEN path[p] ELSE row[f]
      BY <2>3 DEF Types, TypeOK
    <3>2. PathsDiffer'
      BY <2>1, <3>1 DEF Taken
    <3>3. StrmsOwned'
      BY <2>1, <2>2, <3>1
    <3>4. QED BY <1>1, <2>1, <2>3, <3>1, <3>2, <3>3
  <2>4. CASE pc'[p] = "files" /\ UNCHANGED row
    BY <1>1, <2>2, <2>4
  <2>5. QED BY <1>6, <2>3, <2>4 DEF UpsertFile, Types, TypeOK
<1>7. QED BY <1>2, <1>3, <1>4, <1>5, <1>6

\* Filling the path: the copy, the .strm.
LEMMA FillOwned ==
  ASSUME Orderly, Types, Owned, NEW p \in Passes,
         KeepLocal(p) \/ Relocate(p) \/ RemoveShadow(p) \/ WriteStrm(p)
  PROVE  Owned'
<1> USE DEF Owned, ChosenIsFree, OldIsGone, ClaimedIsRow, PrunesRows, PathsDiffer,
            StrmsOwned, Goto, NextFile
<1>1. OnePass' /\ \A q \in Passes : q = p \/ pc'[q] = "idle"
  BY Alone DEF PassStep
<1>2. CASE KeepLocal(p)
  BY <1>1, <1>2 DEF KeepLocal, Types, TypeOK
<1>3. CASE Relocate(p)
  BY <1>1, <1>3 DEF Relocate, Types, TypeOK
<1>4. CASE RemoveShadow(p)
  <2>1. \A x \in Paths : strm'[x] \in {strm[x], NoFile}
    BY <1>4 DEF RemoveShadow, Types, TypeOK
  <2>2. UNCHANGED row /\ pc'[p] = "files"
    BY <1>4 DEF RemoveShadow, Types, TypeOK
  <2>3. QED BY <1>1, <2>1, <2>2, ConstantsAssumption
<1>5. CASE WriteStrm(p)
  <2>1. cur[p] \in Files /\ row[cur[p]] = path[p]
    BY <1>5 DEF WriteStrm, Types, TypeOK, AtFile
  <2>2. \A x \in Paths : strm'[x] = strm[x] \/ (x = path[p] /\ strm'[x] = cur[p])
    BY <1>5 DEF WriteStrm, Types, TypeOK
  <2>3. UNCHANGED row /\ pc'[p] = "files"
    BY <1>5 DEF WriteStrm, Types, TypeOK
  <2>4. QED BY <1>1, <2>1, <2>2, <2>3
<1>6. QED BY <1>2, <1>3, <1>4, <1>5

\* Starting, pruning and ending a pass.
LEMMA PruneOwned ==
  ASSUME Orderly, Types, Owned, NEW p \in Passes,
         \/ StartPass(p) \/ StartPrune(p) \/ PruneStrm(p) \/ PruneRow(p) \/ EndPass(p)
  PROVE  Owned'
<1> USE DEF Owned, ChosenIsFree, OldIsGone, ClaimedIsRow, PrunesRows, PathsDiffer,
            StrmsOwned, Goto
<1>1. OnePass' /\ \A q \in Passes : q = p \/ pc'[q] = "idle"
  BY Alone DEF PassStep
<1>2. CASE StartPass(p)
  BY <1>1, <1>2 DEF StartPass, Types, TypeOK
<1>3. CASE StartPrune(p)
  <2>1. PICK newer \in SUBSET fresh[p] :
          prune' = [prune EXCEPT ![p] =
            [f \in Files |-> IF f \in listing[p] \cup newer THEN NoPath ELSE row[f]]]
    BY <1>3 DEF StartPrune
  <2>2. \A f \in Files : prune'[p][f] \in {NoPath, row[f]}
    BY <2>1 DEF Types, TypeOK
  <2>3. UNCHANGED <<row, strm>> /\ pc'[p] = "prune"
    BY <1>3 DEF StartPrune, Types, TypeOK
  <2>4. QED BY <1>1, <2>2, <2>3
<1>4. CASE PruneStrm(p)
  <2>1. PICK f \in Files :
          /\ prune[p][f] # NoPath
          /\ strm' = [strm EXCEPT ![prune[p][f]] = NoFile]
          /\ cur' = [cur EXCEPT ![p] = f]
          /\ prune' = [prune EXCEPT ![p][f] = NoPath]
    BY <1>4 DEF PruneStrm
  <2>2. UNCHANGED row /\ pc'[p] = "pruneRow" /\ pc[p] = "prune" /\ cur'[p] = f
    BY <1>4, <2>1 DEF PruneStrm, Types, TypeOK
  <2>3. prune[p][f] = row[f]
    BY <2>1, <2>2
  <2>4. \A x \in Paths : strm'[x] = IF x = row[f] THEN NoFile ELSE strm[x]
    BY <2>1, <2>3 DEF Types, TypeOK
  <2>5. \A x \in Paths : strm'[x] # f
    BY <2>4, ConstantsAssumption
  <2>6. \A g \in Files : prune'[p][g] \in {NoPath, prune[p][g]}
    BY <2>1 DEF Types, TypeOK
  <2>7. prune'[p][f] = NoPath
    BY <2>1 DEF Types, TypeOK
  <2>8. QED BY <1>1, <2>2, <2>4, <2>5, <2>6, <2>7, ConstantsAssumption
<1>5. CASE PruneRow(p)
  <2>1. /\ cur[p] \in Files /\ prune[p][cur[p]] = NoPath
        /\ \A x \in Paths : strm[x] # cur[p]
        /\ \A f \in Files : prune[p][f] \in {NoPath, row[f]}
    BY <1>5 DEF PruneRow
  <2>2. \A f \in Files : row'[f] = IF f = cur[p] THEN NoPath ELSE row[f]
    BY <1>5, <2>1 DEF PruneRow, Types, TypeOK
  <2>3. UNCHANGED <<strm, prune>> /\ pc'[p] = "prune"
    BY <1>5 DEF PruneRow, Types, TypeOK
  <2>4. QED BY <1>1, <2>1, <2>2, <2>3
<1>6. CASE EndPass(p)
  BY <1>1, <1>6 DEF EndPass, Types, TypeOK
<1>7. QED BY <1>2, <1>3, <1>4, <1>5, <1>6

\* What happens around the passes.
LEMMA EnvironmentOwned ==
  ASSUME Types, Owned,
         \/ Promote \/ Restart \/ CalmDown \/ UNCHANGED vars
         \/ \E f \in Files : LookupFile(f) \/ CloudChange(f) \/ Retitle(f)
  PROVE  Owned'
<1> USE DEF Owned, OnePass, ChosenIsFree, OldIsGone, ClaimedIsRow, PrunesRows,
            PathsDiffer, StrmsOwned, Taken
<1>1. CASE Promote
  <2>1. \A x \in Paths : strm'[x] \in {strm[x], NoFile}
    BY <1>1 DEF Promote, Types, TypeOK
  <2>2. UNCHANGED <<row, pc, cur, path, old, prune>>
    BY <1>1 DEF Promote, work
  <2>3. \A p \in Passes :
          pc[p] \in {"upsert", "pruneRow"} => cur[p] \in Files
    BY DEF Types, TypeOK, AtFile
  <2>4. QED BY <2>1, <2>2, <2>3, ConstantsAssumption
<1>2. CASE Restart
  BY <1>2 DEF Restart
<1>3. CASE \/ CalmDown \/ UNCHANGED vars
           \/ \E f \in Files : LookupFile(f) \/ CloudChange(f) \/ Retitle(f)
  BY <1>3 DEF CalmDown, LookupFile, CloudChange, Retitle, vars, work
<1>4. QED BY <1>1, <1>2, <1>3

\* IInv is inductive.
LEMMA InductiveInvariant == Spec => []IInv
<1>1. Init => Owned
  BY ConstantsAssumption
     DEF Init, Owned, OnePass, ChosenIsFree, OldIsGone, ClaimedIsRow, PrunesRows,
         PathsDiffer, StrmsOwned, Nowhere
<1>2. ASSUME Types, Orderly => Owned, [Next]_vars PROVE (Orderly => Owned)'
  <2> SUFFICES ASSUME Orderly' PROVE Owned'
    OBVIOUS
  <2>1. Orderly
    <3>1. UNCHANGED trouble
      BY <1>2 DEF Next, StartPass, PassStep, TakeFile, UniquePath, LookupOld, RemoveOld,
           UpsertFile, KeepLocal, Relocate, RemoveShadow, WriteStrm, StartPrune,
           PruneStrm, PruneRow, EndPass, Promote, Restart, CalmDown, LookupFile,
           CloudChange, Retitle, vars, env
    <3>2. QED BY <3>1 DEF Orderly
  <2>2. ASSUME NEW p \in Passes, StartPass(p) \/ PassStep(p) PROVE Owned'
    BY <1>2, <2>1, <2>2, ClaimOwned, FillOwned, PruneOwned DEF PassStep
  <2>3. CASE \/ Promote \/ Restart \/ CalmDown \/ UNCHANGED vars
             \/ \E f \in Files : LookupFile(f) \/ CloudChange(f) \/ Retitle(f)
    BY <1>2, <2>1, <2>3, EnvironmentOwned
  <2>4. QED BY <1>2, <2>2, <2>3 DEF Next
<1>3. Types /\ (Orderly => Owned) => IInv
  BY DEF Types, IInv
<1>4. QED BY <1>1, <1>2, <1>3, TypesHold, PTL DEF Spec

\* While passes do not overlap and their queries succeed, no two files ever have one path.
THEOREM PathsAreDistinct == Spec => []DistinctPaths
<1>1. IInv => DistinctPaths
  BY DEF IInv, Owned, DistinctPaths
<1>2. QED BY <1>1, InductiveInvariant, PTL

\* While passes do not overlap and their queries succeed, every .strm is at the path of
\* the file it plays, and none is without a row.
THEOREM StrmsStayOwned == Spec => []StrmsAreOwned
<1>1. IInv => StrmsAreOwned
  BY DEF IInv, Owned, StrmsAreOwned
<1>2. QED BY <1>1, InductiveInvariant, PTL

------------------------------------------------------------------------------
(* A library that is put right is left alone.                                *)

\* Settled speaks of the rows, the .strm files and which titles are kept locally.
LEMMA StaysSettled ==
  ASSUME Settled, UNCHANGED <<cloud, title, row, strm>>,
         \A f \in Files : kept'[f] = NoPath <=> kept[f] = NoPath,
         cloud \subseteq Files
  PROVE  Settled'
BY DEF Settled, PathsDiffer, Taken

\* Where a file of the cloud is, once that is settled.
LEMMA SettledPlace ==
  ASSUME Types, Settled, NEW f \in cloud
  PROVE  /\ f \in Files /\ f \notin 1 .. Numbered
         /\ row[f] \in Paths /\ row[f] = <<title[f], row[f][2]>> /\ row[f][2] \in SlotsOf(f)
         /\ ~Taken(row[f], f)
         /\ \A n \in 1 .. Numbered :
              row[f][2] = f \/ n < row[f][2] => Taken(<<title[f], n>>, f)
<1>1. f \in Files /\ row[f] \in Paths /\ row[f][1] = title[f]
  <2>1. f \in Files /\ row[f] \in MaybePaths
    BY DEF Types, TypeOK
  <2>2. row[f] # NoPath /\ row[f][1] = title[f]
    BY Zenon DEF Settled
  <2>3. QED BY <2>1, <2>2 DEF MaybePaths
<1>2. row[f] = <<title[f], row[f][2]>>
  BY <1>1 DEF Paths
<1>3. ~Taken(row[f], f) /\ row[f][2] \in SlotsOf(f)
  BY <1>1 DEF Settled, PathsDiffer, Taken, Types, OwnSlots
<1>4. QED BY <1>1, <1>2, <1>3, ConstantsAssumption DEF Settled

\* uniquePath passes over what is taken, and comes to the path the file has.
LEMMA ProbeAtRest ==
  ASSUME Types, AtRest, UniquePath(Loop)
  PROVE  /\ OnItsPath(Loop)' /\ pc'[Loop] \in {"probe", "old"}
         /\ \A p \in Passes \ {Loop} : pc'[p] = pc[p]
<1> DEFINE f == cur[Loop]
           x == path[Loop]
           taken == Taken(x, f)
<1>0. Loop \in Passes
  BY ConstantsAssumption
<1>1. /\ pc[Loop] = "probe" /\ UNCHANGED <<cloud, title, row, kept, cur>>
      /\ path' = IF taken THEN [path EXCEPT ![Loop] = Candidate(x, f)] ELSE path
      /\ pc' = [pc EXCEPT ![Loop] = IF taken /\ x[2] # f THEN "probe" ELSE "old"]
  BY DEF UniquePath, Read, AtRest, Goto
<1>2. /\ f \in cloud /\ x \in Paths /\ x = <<title[f], x[2]>> /\ x[2] \in SlotsOf(f)
      /\ row[f][2] = f \/ (x[2] # f /\ x[2] =< row[f][2])
  BY <1>0, <1>1 DEF AtRest, OnItsPath, AtFile, Types, TypeOK, Paths
<1>3. pc'[Loop] = IF taken /\ x[2] # f THEN "probe" ELSE "old"
  BY <1>0, <1>1 DEF Types, TypeOK
<1>4. CASE x[2] = row[f][2]
  <2>1. x = row[f] /\ ~taken
    BY <1>2, <1>4, SettledPlace DEF AtRest
  <2>2. pc'[Loop] = "old" /\ path' = path
    BY <1>1, <1>3, <2>1
  <2>3. QED BY <1>0, <1>1, <1>2, <2>1, <2>2, SettledPlace DEF OnItsPath, AtRest, Types, TypeOK
<1>5. CASE x[2] # row[f][2]
  <2>1. /\ x[2] \in 1 .. Numbered /\ x[2] # f
        /\ row[f][2] = f \/ (row[f][2] \in 1 .. Numbered /\ x[2] < row[f][2])
    BY <1>2, <1>5, SettledPlace, ConstantsAssumption DEF AtRest, SlotsOf
  <2>0. f \notin 1 .. Numbered /\ x[1] = title[f]
    BY <1>2, SettledPlace DEF AtRest
  <2>2. taken
    BY <1>2, <2>1, SettledPlace DEF AtRest
  <2>3. pc'[Loop] = "probe" /\ path'[Loop] = Candidate(x, f)
    BY <1>0, <1>1, <1>3, <2>1, <2>2 DEF Types, TypeOK
  <2>4. CASE x[2] \in 1 .. Numbered - 1
    <3>1. Candidate(x, f) = <<title[f], x[2] + 1>>
      BY <1>2, <2>1, <2>4, <2>0, ConstantsAssumption DEF Candidate
    <3>2. x[2] + 1 \in 1 .. Numbered /\ f \notin 1 .. Numbered
      BY <1>2, <2>4, SettledPlace, ConstantsAssumption DEF AtRest
    <3>3. row[f][2] = f \/ (x[2] + 1 # f /\ x[2] + 1 =< row[f][2])
      BY <2>1, <2>4, <3>2
    <3>4. QED BY <1>1, <1>2, <2>3, <3>1, <3>2, <3>3 DEF OnItsPath, SlotsOf
  <2>5. CASE x[2] = Numbered
    <3>1. Candidate(x, f) = <<title[f], f>>
      BY <1>2, <2>1, <2>5, <2>0, ConstantsAssumption DEF Candidate
    <3>2. row[f][2] = f
      BY <2>1, <2>5, ConstantsAssumption
    <3>3. QED BY <1>1, <1>2, <2>3, <3>1, <3>2 DEF OnItsPath, SlotsOf
  <2>6. QED BY <2>1, <2>4, <2>5, ConstantsAssumption
<1>6. \A p \in Passes \ {Loop} : pc'[p] = pc[p]
  BY <1>1 DEF Types, TypeOK
<1>7. QED BY <1>3, <1>4, <1>5, <1>6

\* The pass goes through the files, and finds each as it should be.
LEMMA FilesAtRest ==
  ASSUME Types, AtRest,
         \/ TakeFile(Loop) \/ UniquePath(Loop) \/ LookupOld(Loop) \/ RemoveOld(Loop)
         \/ UpsertFile(Loop) \/ KeepLocal(Loop) \/ Relocate(Loop) \/ RemoveShadow(Loop)
         \/ WriteStrm(Loop)
  PROVE  AtRest'
<1> DEFINE f == cur[Loop]
<1>0. /\ Loop \in Passes /\ calm /\ Settled /\ job = Idle /\ OnePass
      /\ pc[Loop] # "idle" => listing[Loop] = cloud /\ todo[Loop] \subseteq cloud
      /\ pc[Loop] \in AtFile => OnItsPath(Loop)
      /\ cloud \subseteq Files
  BY ConstantsAssumption DEF AtRest, Types, TypeOK
<1>10. \A g \in cloud : row[g][2] \in SlotsOf(g) /\ g \notin 1 .. Numbered
  BY <1>0, SettledPlace
<1> USE DEF Types, TypeOK, Goto, NextFile, AtFile, env
<1>1. CASE TakeFile(Loop)
  <2>1. PICK g \in todo[Loop] :
          /\ todo' = [todo EXCEPT ![Loop] = @ \ {g}]
          /\ cur' = [cur EXCEPT ![Loop] = g]
          /\ path' = [path EXCEPT ![Loop] = <<title[g], 1>>]
    BY <1>1 DEF TakeFile
  <2>2. /\ pc[Loop] = "files" /\ pc' = [pc EXCEPT ![Loop] = "probe"]
        /\ UNCHANGED <<cloud, title, row, kept, strm, listing, prune, job, env>>
    BY <1>1 DEF TakeFile
  <2>3. Settled' /\ OnePass'
    BY <1>0, <2>2, StaysSettled DEF OnePass
  <2>4. g \in cloud /\ 1 \in 1 .. Numbered
    BY <1>0, <2>1, <2>2, ConstantsAssumption
  <2>5. row[g][2] = g \/ (1 # g /\ 1 =< row[g][2])
    BY <1>10, <2>4, ConstantsAssumption DEF SlotsOf
  <2>6. OnItsPath(Loop)'
    <3>1. cur'[Loop] = g /\ path'[Loop] = <<title[g], 1>> /\ pc'[Loop] = "probe"
      BY <1>0, <2>1, <2>2
    <3>2. QED BY <2>2, <2>4, <2>5, <3>1 DEF OnItsPath, SlotsOf
  <2>7. QED BY <1>0, <2>1, <2>2, <2>3, <2>6 DEF AtRest
<1>2. CASE UniquePath(Loop)
  <2>1. UNCHANGED <<cloud, title, row, kept, strm, listing, todo, prune, job, env>>
    BY <1>2 DEF UniquePath
  <2>2. Settled' /\ OnePass' /\ pc[Loop] = "probe"
    BY <1>0, <1>2, <2>1, StaysSettled, ProbeAtRest DEF OnePass, UniquePath
  <2>3. QED BY <1>0, <1>2, <2>1, <2>2, ProbeAtRest DEF AtRest
<1>3. CASE LookupOld(Loop)
  <2>1. /\ pc[Loop] = "old" /\ pc' = [pc EXCEPT ![Loop] = "upsert"]
        /\ UNCHANGED <<cloud, title, row, kept, strm, listing, todo, cur, path, prune, job, env>>
    BY <1>0, <1>3 DEF LookupOld, Read, OnItsPath
  <2>2. Settled' /\ OnePass' /\ OnItsPath(Loop)'
    BY <1>0, <2>1, StaysSettled DEF OnePass, OnItsPath
  <2>3. QED BY <1>0, <2>1, <2>2 DEF AtRest
<1>4. CASE RemoveOld(Loop)
  BY <1>0, <1>4 DEF RemoveOld, OnItsPath
<1>5. CASE UpsertFile(Loop)
  <2>1. /\ pc[Loop] = "upsert" /\ pc' = [pc EXCEPT ![Loop] = "keep"]
        /\ row' = [row EXCEPT ![f] = path[Loop]]
        /\ UNCHANGED <<cloud, title, kept, strm, listing, todo, cur, path, prune, job, env>>
    BY <1>0, <1>5 DEF UpsertFile
  <2>2. path[Loop] = row[f] /\ f \in Files
    BY <1>0, <2>1 DEF OnItsPath
  <2>3. row' = row
    BY <2>1, <2>2
  <2>4. Settled' /\ OnePass' /\ OnItsPath(Loop)'
    BY <1>0, <2>1, <2>3, StaysSettled DEF OnePass, OnItsPath
  <2>5. QED BY <1>0, <2>1, <2>4 DEF AtRest
<1>6. CASE KeepLocal(Loop)
  <2>1. /\ pc[Loop] = "keep" /\ pc'[Loop] \in {"write", "shadow", "relocate"}
        /\ pc'[Loop] = "write" <=> kept[f] = NoPath
        /\ \A p \in Passes \ {Loop} : pc'[p] = pc[p]
        /\ UNCHANGED <<cloud, title, row, kept, strm, listing, todo, cur, path, prune, job, env>>
    BY <1>0, <1>6 DEF KeepLocal, Read
  <2>2. Settled' /\ OnePass' /\ OnItsPath(Loop)'
    BY <1>0, <2>1, StaysSettled DEF OnePass, OnItsPath
  <2>3. QED BY <1>0, <2>1, <2>2 DEF AtRest
<1>7. CASE Relocate(Loop)
  <2>1. /\ pc[Loop] = "relocate" /\ pc' = [pc EXCEPT ![Loop] = "shadow"]
        /\ kept' = kept \/ kept' = [kept EXCEPT ![f] = path[Loop]]
        /\ UNCHANGED <<cloud, title, row, strm, listing, todo, cur, path, prune, job, env>>
    BY <1>7 DEF Relocate
  <2>2. /\ path[Loop] \in Paths /\ path[Loop] # NoPath /\ f \in Files /\ kept[f] # NoPath
    BY <1>0, <2>1, ConstantsAssumption DEF OnItsPath
  <2>3. \A g \in Files : kept'[g] = NoPath <=> kept[g] = NoPath
    BY <2>1, <2>2
  <2>4. Settled' /\ OnePass' /\ OnItsPath(Loop)'
    BY <1>0, <2>1, <2>2, <2>3, StaysSettled DEF OnePass, OnItsPath
  <2>5. QED BY <1>0, <2>1, <2>4 DEF AtRest
<1>8. CASE RemoveShadow(Loop) \/ WriteStrm(Loop)
  <2>1. /\ pc[Loop] \in {"shadow", "write"} /\ pc' = [pc EXCEPT ![Loop] = "files"]
        /\ strm' = [strm EXCEPT ![path[Loop]] = IF pc[Loop] = "write" THEN f ELSE NoFile]
        /\ UNCHANGED <<cloud, title, row, kept, listing, todo, prune, job, env>>
    BY <1>0, <1>8 DEF RemoveShadow, WriteStrm
  <2>2. /\ f \in cloud /\ path[Loop] = row[f] /\ path[Loop] \in Paths
        /\ kept[f] = NoPath <=> pc[Loop] = "write"
    BY <1>0, <2>1 DEF OnItsPath
  <2>3. strm[path[Loop]] = IF pc[Loop] = "write" THEN f ELSE NoFile
    BY <1>0, <2>1, <2>2 DEF Settled
  <2>4. strm' = strm
    BY <2>1, <2>2, <2>3
  <2>5. Settled' /\ OnePass'
    BY <1>0, <2>1, <2>4, StaysSettled DEF OnePass
  <2>6. QED BY <1>0, <2>1, <2>5 DEF AtRest
<1>9. QED BY <1>1, <1>2, <1>3, <1>4, <1>5, <1>6, <1>7, <1>8

\* A pass lists the cloud as it is, and so finds nothing to prune.
LEMMA PruneAtRest ==
  ASSUME Types, AtRest,
         \/ StartPass(Loop) \/ StartPrune(Loop) \/ PruneStrm(Loop) \/ PruneRow(Loop)
         \/ EndPass(Loop)
  PROVE  AtRest'
<1>0. /\ Loop \in Passes /\ calm /\ Settled /\ job = Idle /\ OnePass
      /\ pc[Loop] # "idle" => listing[Loop] = cloud /\ todo[Loop] \subseteq cloud
      /\ pc[Loop] # "pruneRow" /\ (pc[Loop] = "prune" => prune[Loop] = Nowhere)
      /\ cloud \subseteq Files
  BY ConstantsAssumption DEF AtRest, Types, TypeOK
<1> USE DEF Types, TypeOK, Goto, AtFile, env
<1>1. CASE PruneStrm(Loop) \/ PruneRow(Loop)
  BY <1>0, <1>1 DEF PruneStrm, PruneRow, Nowhere
<1>2. CASE StartPass(Loop) \/ StartPrune(Loop) \/ EndPass(Loop)
  <2>1. /\ UNCHANGED <<cloud, title, row, kept, strm, job, env>>
        /\ \A p \in Passes \ {Loop} : pc'[p] = pc[p]
    BY <1>2 DEF StartPass, StartPrune, EndPass
  <2>2. Settled' /\ OnePass'
    BY <1>0, <2>1, StaysSettled DEF OnePass
  <2>3. CASE StartPass(Loop)
    BY <1>0, <2>1, <2>2, <2>3 DEF StartPass, AtRest
  <2>4. CASE EndPass(Loop)
    BY <1>0, <2>1, <2>2, <2>4 DEF EndPass, AtRest
  <2>5. CASE StartPrune(Loop)
    <3>1. PICK newer \in SUBSET fresh[Loop] :
            prune' = [prune EXCEPT ![Loop] =
              [f \in Files |-> IF f \in listing[Loop] \cup newer THEN NoPath ELSE row[f]]]
      BY <2>5 DEF StartPrune
    <3>2. /\ pc[Loop] = "files" /\ pc'[Loop] = "prune" /\ UNCHANGED <<listing, todo>>
      BY <1>0, <2>5 DEF StartPrune
    <3>3. prune'[Loop] = Nowhere
      BY <1>0, <3>1, <3>2 DEF Settled, Nowhere
    <3>4. QED BY <1>0, <2>1, <2>2, <3>2, <3>3 DEF AtRest
  <2>6. QED BY <1>2, <2>3, <2>4, <2>5
<1>3. QED BY <1>1, <1>2

LEMMA RestStep ==
  ASSUME Types, AtRest, [Next]_vars PROVE AtRest'
<1>1. ASSUME NEW p \in Passes, StartPass(p) \/ PassStep(p) PROVE AtRest'
  <2>1. p = Loop
    <3>1. CASE StartPass(p)
      BY <3>1 DEF StartPass, AtRest
    <3>2. CASE PassStep(p)
      <4>1. pc[p] # "idle"
        BY <3>2 DEF PassStep, TakeFile, UniquePath, LookupOld, RemoveOld, UpsertFile,
                    KeepLocal, Relocate, RemoveShadow, WriteStrm, StartPrune, PruneStrm,
                    PruneRow, EndPass
      <4>2. QED BY <4>1 DEF AtRest, OnePass
    <3>3. QED BY <1>1, <3>1, <3>2
  <2>2. QED BY <1>1, <2>1, FilesAtRest, PruneAtRest DEF PassStep
<1>2. CASE Promote \/ Restart \/ CalmDown \/ (\E f \in Files :
             LookupFile(f) \/ CloudChange(f) \/ Retitle(f))
  BY <1>2 DEF AtRest, Promote, Restart, CalmDown, LookupFile, CloudChange, Retitle
<1>3. CASE UNCHANGED vars
  <2>1. cloud \subseteq Files /\ UNCHANGED <<cloud, title, row, kept, strm, work, job, env>>
    BY <1>3 DEF vars, Types, TypeOK
  <2>2. Settled'
    BY <2>1, StaysSettled DEF AtRest
  <2>3. QED BY <2>1, <2>2 DEF AtRest, OnePass, OnItsPath, work, env
<1>4. QED BY <1>1, <1>2, <1>3 DEF Next

\* A settled library is left alone, once only the sync loop runs and nothing outdated is in
\* its hands: every further pass probes its way to the path each file has, rewrites the row
\* and the .strm as they are and prunes nothing.  (LibrarySettles says it comes to that.)
THEOREM SettledForGood == Spec => [](AtRest => []Settled)
<1>1. Types /\ AtRest /\ [Next]_vars => AtRest'
  BY RestStep
<1>2. AtRest => Settled
  BY DEF AtRest
<1>3. QED BY <1>1, <1>2, TypesHold, PTL DEF Spec
=============================================================================
