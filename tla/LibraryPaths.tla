---------------------------- MODULE LibraryPaths ----------------------------
(***************************************************************************)
(* Who owns which path of the library: Writer.SyncProvider gives every     *)
(* cloud file a path (uniquePath), moves its .strm and its local copy      *)
(* there, and prunes what left the cloud (internal/strm/writer.go,         *)
(* internal/strm/local.go).                                                *)
(*                                                                         *)
(* A path is a title and a slot.  The naming rules give a file its title   *)
(* (hints, parsed names, the configured layout: any of them may change);   *)
(* files with one title get slot 1, then the numbered ones, then one that  *)
(* carries the file's own id.  The only record of who owns a path is       *)
(* column strm_path of table files.                                        *)
(*                                                                         *)
(* Passes may run side by side.  A step is one SQL statement or one file   *)
(* operation.  Abstracted: providers and torrents (one file each), which   *)
(* of its files are chosen, the removal of copies and the steps within a   *)
(* promotion (module KeepLocal), those within a relocation (module         *)
(* LocalMove), UpsertFile's two statements (module CloudSync).             *)
(***************************************************************************)
EXTENDS Naturals

CONSTANTS
  Files, Titles,
  Numbered,    \* the last numbered slot: 9 in the code
  Passes,      \* sync passes running beside each other
  Loop,        \* the one of the sync loop
  Copies,      \* files that may be kept locally
  NoFile, NoPath

Slots == (1 .. Numbered) \cup Files
Paths == Titles \X Slots

ASSUME ConstantsAssumption ==
  /\ Numbered \in Nat \ {0}
  /\ Files \cap (1 .. Numbered) = {}
  /\ Loop \in Passes
  /\ Copies \subseteq Files
  /\ NoFile \notin Files
  /\ NoPath \notin Paths

VARIABLES
  cloud,   \* files ready in the cloud
  title,   \* the title the naming rules give each file
  \* on disk
  row,     \* table files: strm_path of each tracked file
  kept,    \* table local_files: local_path of each finished copy
  strm,    \* the file each .strm plays
  media,   \* the file each local copy holds
  \* one sync pass each
  pc,
  listing, \* the files of the cloud listing it works from
  todo,    \* those still to be handled
  cur,     \* the file in hand
  path,    \* the path considered, then chosen, for it
  old,     \* the path its .strm or its copy had when looked up
  prune,   \* strm_path of the rows still to be pruned, as ListFiles returned them
  fresh,   \* files not listed whose row was written since the pass began
  job,     \* the file a download worker is promoting, and the path it read
  \* the circumstances
  trouble, \* what may go wrong in this behaviour: it never changes
  calm     \* from here on nothing changes and only the sync loop runs

work == <<pc, listing, todo, cur, path, old, prune, fresh>>
env  == <<trouble, calm>>
vars == <<cloud, title, row, kept, strm, media, work, job, env>>

\* Writes fail and the server dies; a pass's queries fail, so that it goes on without an
\* answer; passes run beside each other.
Troubles == {"faults", "queries", "overlap"}

Idle == <<NoFile, NoPath>>

\* Steps at which a pass has a file in hand.
AtFile == {"probe", "old", "unlink", "upsert", "keep", "relocate", "shadow", "write"}

MaybePaths == Paths \cup {NoPath}
MaybeFiles == Files \cup {NoFile}

TypeOK ==
  /\ cloud \subseteq Files
  /\ title \in [Files -> Titles]
  /\ row \in [Files -> MaybePaths]
  /\ kept \in [Files -> MaybePaths]
  /\ strm \in [Paths -> MaybeFiles]
  /\ media \in [Paths -> MaybeFiles]
  /\ pc \in [Passes -> AtFile \cup {"idle", "files", "prune", "pruneRow"}]
  /\ listing \in [Passes -> SUBSET Files]
  /\ todo \in [Passes -> SUBSET Files]
  /\ cur \in [Passes -> MaybeFiles]
  /\ path \in [Passes -> MaybePaths]
  /\ old \in [Passes -> MaybePaths]
  /\ prune \in [Passes -> [Files -> MaybePaths]]
  /\ fresh \in [Passes -> SUBSET Files]
  /\ job \in {Idle} \cup (Files \X Paths)
  /\ trouble \subseteq Troubles /\ calm \in BOOLEAN
  /\ \A p \in Passes : pc[p] \in AtFile => cur[p] \in Files /\ path[p] \in Paths
  /\ \A p \in Passes : pc[p] \in {"unlink", "relocate"} => old[p] \in Paths

Nowhere == [f \in Files |-> NoPath]

Init ==
  /\ cloud \in SUBSET Files /\ title \in [Files -> Titles]
  /\ row = Nowhere /\ kept = Nowhere
  /\ strm = [x \in Paths |-> NoFile] /\ media = [x \in Paths |-> NoFile]
  /\ pc = [p \in Passes |-> "idle"]
  /\ listing = [p \in Passes |-> {}] /\ todo = [p \in Passes |-> {}]
  /\ cur = [p \in Passes |-> NoFile]
  /\ path = [p \in Passes |-> NoPath] /\ old = [p \in Passes |-> NoPath]
  /\ prune = [p \in Passes |-> Nowhere] /\ fresh = [p \in Passes |-> {}]
  /\ job = Idle /\ trouble \in SUBSET Troubles /\ calm = FALSE

\* What a query tells a pass; if it fails, what the pass then assumes.
Read(value, assumed) == {value} \cup (IF "queries" \in trouble /\ ~calm THEN {assumed} ELSE {})

Goto(p, at) == pc' = [pc EXCEPT ![p] = at]

\* The loop over the listing goes on to the next file.
NextFile(p) ==
  /\ Goto(p, "files")
  /\ cur' = [cur EXCEPT ![p] = NoFile]
  /\ path' = [path EXCEPT ![p] = NoPath]
  /\ old' = [old EXCEPT ![p] = NoPath]

------------------------------------------------------------------------------
(* SyncProvider: files.                                                      *)

StartPass(p) ==
  /\ pc[p] = "idle" /\ ("overlap" \notin trouble \/ calm => p = Loop)
  /\ Goto(p, "files")
  /\ listing' = [listing EXCEPT ![p] = cloud]
  /\ todo' = [todo EXCEPT ![p] = cloud]
  /\ fresh' = [fresh EXCEPT ![p] = {}]
  /\ UNCHANGED <<cloud, title, row, kept, strm, media, cur, path, old, prune, job, env>>

\* The hint or the parsed name gives the title; the plain path is tried first.
TakeFile(p) ==
  /\ pc[p] = "files"
  /\ \E f \in todo[p] :
       /\ todo' = [todo EXCEPT ![p] = @ \ {f}]
       /\ cur' = [cur EXCEPT ![p] = f]
       /\ path' = [path EXCEPT ![p] = <<title[f], 1>>]
  /\ Goto(p, "probe")
  /\ UNCHANGED <<cloud, title, row, kept, strm, media, listing, old, prune, fresh, job, env>>

\* Variant: asks only about files that are still in the cloud.
TakenInCloud(x, f) == \E g \in cloud \ {f} : row[g] = x

\* StrmPathTakenByOther
Taken(x, f) == \E g \in Files \ {f} : row[g] = x

\* The candidate after x.  The last one carries the file's id; after it, uniquePath
\* falls back to the plain path.
Candidate(x, f) ==
  CASE x[2] \in 1 .. Numbered - 1 -> <<x[1], x[2] + 1>>
    [] x[2] = Numbered -> <<x[1], f>>
    [] x[2] = f -> <<x[1], 1>>

\* uniquePath, one pathIsFree at a time: "cannot tell; prefer progress over blocking".
UniquePath(p) ==
  /\ pc[p] = "probe"
  /\ LET f == cur[p]
         x == path[p]
     IN \E taken \in Read(Taken(x, f), FALSE) :
          /\ path' = IF taken THEN [path EXCEPT ![p] = Candidate(x, f)] ELSE path
          /\ Goto(p, IF taken /\ x[2] # f THEN "probe" ELSE "old")
  /\ UNCHANGED <<cloud, title, row, kept, strm, media, listing, todo, cur, old,
                 prune, fresh, job, env>>

\* Variant: leaves the old .strm behind.
LookupNothing(p) ==
  /\ pc[p] = "old"
  /\ Goto(p, "upsert")
  /\ UNCHANGED <<cloud, title, row, kept, strm, media, listing, todo, cur, path, old,
                 prune, fresh, job, env>>

\* GetFile: has the file another path so far?
LookupOld(p) ==
  /\ pc[p] = "old"
  /\ \E x \in Read(row[cur[p]], NoPath) :
       LET moved == x \notin {NoPath, path[p]}
       IN /\ old' = [old EXCEPT ![p] = IF moved THEN x ELSE NoPath]
          /\ Goto(p, IF moved THEN "unlink" ELSE "upsert")
  /\ UNCHANGED <<cloud, title, row, kept, strm, media, listing, todo, cur, path,
                 prune, fresh, job, env>>

\* removeStrmFile, at the path it had.
RemoveOld(p) ==
  /\ pc[p] = "unlink"
  /\ strm' = [strm EXCEPT ![old[p]] = NoFile]
  /\ old' = [old EXCEPT ![p] = NoPath]
  /\ Goto(p, "upsert")
  /\ UNCHANGED <<cloud, title, row, kept, media, listing, todo, cur, path,
                 prune, fresh, job, env>>

UpsertFile(p) ==
  /\ pc[p] = "upsert"
  /\ \/ /\ row' = [row EXCEPT ![cur[p]] = path[p]]
        /\ fresh' = [q \in Passes |-> IF pc[q] = "idle" THEN {}
                                     ELSE fresh[q] \cup ({cur[p]} \ listing[q])]
        /\ Goto(p, "keep")
        /\ UNCHANGED <<cur, path, old>>
     \/ /\ "faults" \in trouble /\ ~calm
        /\ NextFile(p)
        /\ UNCHANGED <<row, fresh>>
  /\ UNCHANGED <<cloud, title, kept, strm, media, listing, todo, prune, job, env>>

\* keepLocal: GetLocal.
KeepLocal(p) ==
  /\ pc[p] = "keep"
  /\ \E x \in Read(kept[cur[p]], NoPath) :
       /\ old' = [old EXCEPT ![p] = x]
       /\ Goto(p, IF x = NoPath THEN "write" ELSE IF x = path[p] THEN "shadow" ELSE "relocate")
  /\ UNCHANGED <<cloud, title, row, kept, strm, media, listing, todo, cur, path,
                 prune, fresh, job, env>>

\* keepLocal: os.Rename, which replaces what is at the new path, and SetLocalPath.
Relocate(p) ==
  /\ pc[p] = "relocate"
  /\ IF media[old[p]] = NoFile
     THEN UNCHANGED <<media, kept>>
     ELSE /\ media' = [media EXCEPT ![path[p]] = media[old[p]], ![old[p]] = NoFile]
          /\ kept' = [kept EXCEPT ![cur[p]] = path[p]]
  /\ Goto(p, "shadow")
  /\ UNCHANGED <<cloud, title, row, strm, listing, todo, cur, path, old, prune,
                 fresh, job, env>>

\* keepLocal: no .strm beside the copy.
RemoveShadow(p) ==
  /\ pc[p] = "shadow"
  /\ strm' = [strm EXCEPT ![path[p]] = NoFile]
  /\ NextFile(p)
  /\ UNCHANGED <<cloud, title, row, kept, media, listing, todo, prune, fresh, job, env>>

\* Variant: writes the .strm only where there is none.
WriteMissingStrm(p) ==
  /\ pc[p] = "write"
  /\ strm' = IF strm[path[p]] = NoFile THEN [strm EXCEPT ![path[p]] = cur[p]] ELSE strm
  /\ NextFile(p)
  /\ UNCHANGED <<cloud, title, row, kept, media, listing, todo, prune, fresh, job, env>>

WriteStrm(p) ==
  /\ pc[p] = "write"
  /\ \/ strm' = [strm EXCEPT ![path[p]] = cur[p]]
     \/ "faults" \in trouble /\ ~calm /\ UNCHANGED strm
  /\ NextFile(p)
  /\ UNCHANGED <<cloud, title, row, kept, media, listing, todo, prune, fresh, job, env>>

------------------------------------------------------------------------------
(* SyncProvider: pruning.                                                    *)

\* ListFiles.  Times are compared by the second: of the rows written since the pass
\* began, those of its first second do not count as newer.
StartPrune(p) ==
  /\ pc[p] = "files" /\ todo[p] = {}
  /\ \E newer \in SUBSET fresh[p] :
       prune' = [prune EXCEPT ![p] =
         [f \in Files |-> IF f \in listing[p] \cup newer THEN NoPath ELSE row[f]]]
  /\ Goto(p, "prune")
  /\ UNCHANGED <<cloud, title, row, kept, strm, media, listing, todo, cur, path, old,
                 fresh, job, env>>

\* removeStrm: the file, then the row.  A local copy stays.
PruneStrm(p) ==
  /\ pc[p] = "prune"
  /\ \E f \in Files :
       /\ prune[p][f] # NoPath
       /\ strm' = [strm EXCEPT ![prune[p][f]] = NoFile]
       /\ cur' = [cur EXCEPT ![p] = f]
       /\ prune' = [prune EXCEPT ![p][f] = NoPath]
  /\ Goto(p, "pruneRow")
  /\ UNCHANGED <<cloud, title, row, kept, media, listing, todo, path, old, fresh, job, env>>

PruneRow(p) ==
  /\ pc[p] = "pruneRow"
  /\ row' = [row EXCEPT ![cur[p]] = NoPath]
  /\ cur' = [cur EXCEPT ![p] = NoFile]
  /\ Goto(p, "prune")
  /\ UNCHANGED <<cloud, title, kept, strm, media, listing, todo, path, old, prune,
                 fresh, job, env>>

EndPass(p) ==
  /\ pc[p] = "prune" /\ prune[p] = Nowhere
  /\ Goto(p, "idle")
  /\ listing' = [listing EXCEPT ![p] = {}]
  /\ fresh' = [fresh EXCEPT ![p] = {}]
  /\ UNCHANGED <<cloud, title, row, kept, strm, media, todo, cur, path, old, prune,
                 job, env>>

PassStep(p) ==
  \/ TakeFile(p) \/ UniquePath(p) \/ LookupOld(p) \/ RemoveOld(p) \/ UpsertFile(p)
  \/ KeepLocal(p) \/ Relocate(p) \/ RemoveShadow(p) \/ WriteStrm(p)
  \/ StartPrune(p) \/ PruneStrm(p) \/ PruneRow(p) \/ EndPass(p)

------------------------------------------------------------------------------
(* Local copies.                                                             *)

\* Variant: promotes a file that has no path.
LookupAnyFile(f) ==
  /\ ~calm /\ job = Idle
  /\ f \in Copies /\ kept[f] = NoPath
  /\ job' = <<f, row[f]>>
  /\ UNCHANGED <<cloud, title, row, kept, strm, media, work, env>>

\* download: the fresh look at the file, from which PromoteLocal takes the path.
LookupFile(f) ==
  /\ ~calm /\ job = Idle
  /\ f \in Copies /\ kept[f] = NoPath /\ row[f] # NoPath
  /\ job' = <<f, row[f]>>
  /\ UNCHANGED <<cloud, title, row, kept, strm, media, work, env>>

\* PromoteLocal's rename replaces what is at its destination; then the .strm goes and
\* SetLocalDone records the path.
Promote ==
  /\ job # Idle
  /\ media' = [media EXCEPT ![job[2]] = job[1]]
  /\ strm' = [strm EXCEPT ![job[2]] = NoFile]
  /\ kept' = [kept EXCEPT ![job[1]] = job[2]]
  /\ job' = Idle
  /\ UNCHANGED <<cloud, title, row, work, env>>

------------------------------------------------------------------------------
(* Everything else.                                                          *)

CloudChange(f) ==
  /\ ~calm
  /\ cloud' = IF f \in cloud THEN cloud \ {f} ELSE cloud \cup {f}
  /\ UNCHANGED <<title, row, kept, strm, media, work, job, env>>

\* A rename on the library page, a new layout, a better parser.
Retitle(f) ==
  /\ ~calm
  /\ \E t \in Titles \ {title[f]} : title' = [title EXCEPT ![f] = t]
  /\ UNCHANGED <<cloud, row, kept, strm, media, work, job, env>>

\* The process dies, and starts again.
Restart ==
  /\ "faults" \in trouble /\ ~calm
  /\ pc' = [p \in Passes |-> "idle"]
  /\ listing' = [p \in Passes |-> {}] /\ todo' = [p \in Passes |-> {}]
  /\ cur' = [p \in Passes |-> NoFile]
  /\ path' = [p \in Passes |-> NoPath] /\ old' = [p \in Passes |-> NoPath]
  /\ prune' = [p \in Passes |-> Nowhere] /\ fresh' = [p \in Passes |-> {}]
  /\ job' = Idle
  /\ UNCHANGED <<cloud, title, row, kept, strm, media, env>>

CalmDown ==
  /\ ~calm /\ calm' = TRUE
  /\ UNCHANGED <<cloud, title, row, kept, strm, media, work, job, trouble>>

Next ==
  \/ \E p \in Passes : StartPass(p) \/ PassStep(p)
  \/ Promote \/ Restart \/ CalmDown
  \/ \E f \in Files :
       LookupFile(f) \/ CloudChange(f) \/ Retitle(f)

Spec == Init /\ [][Next]_vars

\* Goroutines run and the sync loop ticks.
FairSpec ==
  /\ Spec
  /\ \A p \in Passes : WF_vars(PassStep(p))
  /\ WF_vars(StartPass(Loop)) /\ WF_vars(Promote)

------------------------------------------------------------------------------
(* Properties.                                                               *)

\* One pass at a time, and its queries succeed.
Orderly == trouble \subseteq {"faults"}

PathsDiffer == \A f, g \in Files : f # g /\ row[f] = row[g] => row[f] = NoPath

\* One pass at a time never gives one path to two files, unless its question fails:
\* uniquePath's question and UpsertFile's claim then cannot be separated by another
\* claim.
DistinctPaths == Orderly => PathsDiffer

StrmsOwned == \A x \in Paths : strm[x] \in Files => row[strm[x]] = x

\* With one pass at a time whose queries succeed, every .strm of the library is at the
\* path of the file it plays, even between two steps and after a crash: a moved file's
\* old .strm is gone before its path is up for anyone else, and none outlives its row.
StrmsAreOwned == Orderly => StrmsOwned

\* "Local copies are never deleted by sync: if the title leaves your debrid cloud, its
\* local copy stays until you remove it": a finished entry's file is its own.
CopiesSurvive == \A f \in Files : kept[f] # NoPath => media[kept[f]] = f

\* What the library should be: every file of the cloud has a path of its own with its
\* title, the first that is not another's, and, unless it is kept locally, its .strm is
\* there.
Settled ==
  /\ PathsDiffer
  /\ \A f \in Files : f \notin cloud => row[f] = NoPath
  /\ \A f \in cloud :
       /\ row[f] # NoPath
       /\ row[f][1] = title[f]
       /\ \A n \in 1 .. Numbered :
            row[f][2] = f \/ n < row[f][2] => Taken(<<row[f][1], n>>, f)
       /\ strm[row[f]] = IF kept[f] = NoPath THEN f ELSE NoFile

\* Whatever passes, renames and promotions overlapped before, and whatever queries
\* failed: once only the sync loop runs, it puts the library right and then leaves it
\* alone.
LibrarySettles == calm ~> []Settled

------------------------------------------------------------------------------
(* The inductive invariant of LibraryPathsProofs.                             *)

SlotsOf(f) == (1 .. Numbered) \cup {f}

\* A path with a file's id is only ever given to that file.
OwnSlots ==
  /\ \A f \in Files : row[f] # NoPath => row[f][2] \in SlotsOf(f)
  /\ \A p \in Passes : pc[p] \in AtFile => path[p][2] \in SlotsOf(cur[p])

\* A chosen path stays free until it is claimed.
ChosenIsFree ==
  \A p \in Passes : pc[p] \in {"old", "unlink", "upsert"} => ~Taken(path[p], cur[p])

\* When a path is claimed, the file's .strm is at no other.
OldIsGone ==
  \A p \in Passes :
    /\ pc[p] = "unlink" => old[p] # NoPath /\ old[p] = row[cur[p]]
    /\ pc[p] = "upsert" => \A x \in Paths : strm[x] = cur[p] => x = path[p]

\* The .strm is written where the row says.
ClaimedIsRow ==
  \A p \in Passes :
    pc[p] \in {"keep", "relocate", "shadow", "write"} => row[cur[p]] = path[p]

\* A pass prunes the rows it saw, and a row only once its .strm is gone.
PrunesRows ==
  \A p \in Passes :
    /\ pc[p] \in {"prune", "pruneRow"} =>
         \A f \in Files : prune[p][f] \in {NoPath, row[f]}
    /\ pc[p] = "pruneRow" =>
         cur[p] \in Files /\ prune[p][cur[p]] = NoPath
           /\ \A x \in Paths : strm[x] # cur[p]

\* No pass runs beside the sync loop's.
OnePass == \A p \in Passes \ {Loop} : pc[p] = "idle"

Owned ==
  /\ OnePass /\ ChosenIsFree /\ OldIsGone /\ ClaimedIsRow /\ PrunesRows
  /\ PathsDiffer /\ StrmsOwned

IInv == TypeOK /\ OwnSlots /\ (Orderly => Owned)

------------------------------------------------------------------------------
(* Why a library that is put right is left alone.                             *)

\* The pass has its file's own path in hand, or a candidate before it, and knows whether the
\* file is kept locally.
OnItsPath(p) ==
  LET f == cur[p]
  IN /\ f \in cloud /\ path[p][1] = title[f] /\ path[p][2] \in SlotsOf(f)
     /\ IF pc[p] = "probe"
        THEN row[f][2] = f \/ (path[p][2] # f /\ path[p][2] =< row[f][2])
        ELSE pc[p] # "unlink" /\ path[p] = row[f]
     /\ pc[p] = "write" => kept[f] = NoPath
     /\ pc[p] \in {"relocate", "shadow"} => kept[f] # NoPath

\* Everything is as it should be, and only the sync loop's pass is under way: with the
\* cloud's files, and nothing to prune.
AtRest ==
  /\ calm /\ Settled /\ job = Idle /\ OnePass
  /\ pc[Loop] # "idle" => listing[Loop] = cloud /\ todo[Loop] \subseteq cloud
  /\ pc[Loop] \in AtFile => OnItsPath(Loop)
  /\ pc[Loop] # "pruneRow" /\ (pc[Loop] = "prune" => prune[Loop] = Nowhere)
=============================================================================
