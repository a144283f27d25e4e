------------------------------ MODULE LocalMove ------------------------------
(***************************************************************************)
(* Where finished local copies are: Manager.Move, which takes a copy from  *)
(* the library into the download folder in the background                  *)
(* (internal/download/download.go), the relocations a sync pass makes when *)
(* the library's naming changes (keepLocal, internal/strm/local.go) and    *)
(* Remove, all working on the same rows and files.                         *)
(*                                                                         *)
(* A path is the root a copy lies under ("library", or "folder" for        *)
(* downloads.path) and its place below that root.  Each file has its own   *)
(* places: what happens when the paths of two files collide is left out.   *)
(* Rows here start as finished copies; how they came to be, and the .strm  *)
(* files beside them, are module KeepLocal's.                              *)
(***************************************************************************)
EXTENDS LocalFiles

CONSTANTS
  Files,
  Places,    \* places below a root, where naming rules old and new put a file
  Naming,    \* the places the current rules may choose
  Clients,   \* concurrent callers of the local-copy API
  Movers,    \* bound: goroutines of Move that may exist at a time
  Passes,    \* sync passes that may run at a time
  Faults,    \* does the server stop, die and start again?
  NoFile, NoMover

ASSUME ConstantsAssumption ==
  /\ Naming \subseteq Places
  /\ NoFile \notin Files
  /\ NoMover \notin Movers
  /\ Faults \in BOOLEAN

Paths   == {"library", "folder"} \X Places
Root(p) == p[1]

VARIABLES
  \* on disk: survive a restart
  row,       \* status of the file's local_files row
  path,      \* its local_path
  disk,      \* the paths at which a complete copy of the file lies
  staged,    \* does the staging file (tempPath) exist?
  \* Move's goroutines
  mpc, mjob,
  from,      \* the copy's path when Move read the row
  stale,     \* what the move deletes at its end
  cancelled, \* was the move's context cancelled?
  turn,      \* Manager.moveTurn: who holds the only slot
  running,   \* Manager.running: whose cancel function is registered
  \* API calls
  cpc, target, seen,   \* seen: local_path when the call read the row
  \* sync passes
  spc, sfile, sfrom, want,
  phase      \* "up", or "stopping" once Run's context is cancelled

diskVars   == <<row, path, disk, staged>>
moverVars  == <<mpc, mjob, from, stale, cancelled, turn, running>>
clientVars == <<cpc, target, seen>>
passVars   == <<spc, sfile, sfrom, want>>
vars == <<diskVars, moverVars, clientVars, passVars, phase>>

NoPath == <<>>
MaybePath == Paths \cup {NoPath}

TypeOK ==
  /\ row \in [Files -> {"none", "done", "moving"}]
  /\ path \in [Files -> Paths]
  /\ disk \in [Files -> SUBSET Paths]
  /\ staged \in [Files -> BOOLEAN]
  /\ mpc \in [Movers -> {"idle", "waiting", "open", "stage", "copying", "rename",
                         "record", "clean", "failed", "leave"}]
  /\ mjob \in [Movers -> Files \cup {NoFile}]
  /\ \A m \in Movers : mjob[m] = NoFile <=> mpc[m] = "idle"
  /\ from \in [Movers -> MaybePath] /\ stale \in [Movers -> MaybePath]
  /\ \A m \in Movers : mpc[m] # "idle" => from[m] \in Paths /\ Root(from[m]) = "library"
  /\ cancelled \in [Movers -> BOOLEAN]
  /\ turn \in Movers \cup {NoMover}
  /\ running \in [Files -> Movers \cup {NoMover}]
  /\ cpc \in [Clients -> {"idle", "start", "spawn", "forget", "cancel", "rmtemp", "rmcopy"}]
  /\ target \in [Clients -> Files \cup {NoFile}]
  /\ \A c \in Clients : target[c] = NoFile <=> cpc[c] = "idle"
  /\ seen \in [Clients -> MaybePath]
  /\ spc \in [Passes -> {"idle", "rename", "setpath"}]
  /\ sfile \in [Passes -> Files \cup {NoFile}]
  /\ sfrom \in [Passes -> MaybePath] /\ want \in [Passes -> MaybePath]
  /\ phase \in {"up", "stopping"}

\* Copies saved before downloads.path was set.
Init ==
  /\ row = [f \in Files |-> "done"]
  /\ path \in [Files -> {"library"} \X Places]
  /\ disk = [f \in Files |-> {path[f]}]
  /\ staged = [f \in Files |-> FALSE]
  /\ mpc = [m \in Movers |-> "idle"]
  /\ mjob = [m \in Movers |-> NoFile]
  /\ from = [m \in Movers |-> NoPath]
  /\ stale = [m \in Movers |-> NoPath]
  /\ cancelled = [m \in Movers |-> FALSE]
  /\ turn = NoMover
  /\ running = [f \in Files |-> NoMover]
  /\ cpc = [c \in Clients |-> "idle"]
  /\ target = [c \in Clients |-> NoFile]
  /\ seen = [c \in Clients |-> NoPath]
  /\ spc = [s \in Passes |-> "idle"]
  /\ sfile = [s \in Passes |-> NoFile]
  /\ sfrom = [s \in Passes |-> NoPath]
  /\ want = [s \in Passes |-> NoPath]
  /\ phase = "up"

-----------------------------------------------------------------------------
(* As in KeepLocal, an operator whose name says what it does wrong is a       *)
(* variant no specification uses: it shows that a property notices it.        *)

(* API calls: POST /api/local/move (Move) and DELETE /api/local (Remove).   *)

CallGoto(c, pc) == cpc' = [cpc EXCEPT ![c] = pc]

Return(c) ==
  /\ cpc' = [cpc EXCEPT ![c] = "idle"]
  /\ target' = [target EXCEPT ![c] = NoFile]
  /\ seen' = [seen EXCEPT ![c] = NoPath]

\* A call begins by reading the row.
ReadRow(c, f, pc) ==
  /\ phase = "up" /\ cpc[c] = "idle"
  /\ row[f] # "none"
  /\ target' = [target EXCEPT ![c] = f]
  /\ seen' = [seen EXCEPT ![c] = path[f]]
  /\ CallGoto(c, pc)
  /\ UNCHANGED <<diskVars, moverVars, passVars, phase>>

\* Strm's MoveTarget: only a copy outside the download folder has one, and it
\* keeps its place below the root.
MoveTarget(p) == <<"folder", p[2]>>

MoveAnyCopy(c, f) ==
  /\ row[f] = "done"
  /\ ReadRow(c, f, "start")

MoveCall(c, f) ==
  /\ row[f] = "done" /\ Root(path[f]) = "library"
  /\ ReadRow(c, f, "start")

RemoveCall(c, f) == ReadRow(c, f, "forget")

\* Claim the copy; if it is not a finished copy any more the call fails.
StartMoving(c) ==
  LET f == target[c] IN
  /\ cpc[c] = "start"
  /\ row' = [row EXCEPT ![f] = StartMove(@)]
  /\ IF row[f] = "done"
       THEN CallGoto(c, "spawn") /\ UNCHANGED <<target, seen>>
       ELSE Return(c)
  /\ UNCHANGED <<path, disk, staged, moverVars, passVars, phase>>

\* Register a cancel function under the key and start the goroutine.
Spawn(c) ==
  LET f == target[c] IN
  /\ cpc[c] = "spawn"
  /\ \E m \in Movers :
       /\ mpc[m] = "idle"
       /\ mpc' = [mpc EXCEPT ![m] = "waiting"]
       /\ mjob' = [mjob EXCEPT ![m] = f]
       /\ from' = [from EXCEPT ![m] = seen[c]]
       /\ running' = [running EXCEPT ![f] = m]
  /\ Return(c)
  /\ UNCHANGED <<diskVars, stale, cancelled, turn, passVars, phase>>

\* Remove, on the row as it read it: forget the entry ...
Forget(c) ==
  /\ cpc[c] = "forget"
  /\ row' = [row EXCEPT ![target[c]] = "none"]
  /\ CallGoto(c, "cancel")
  /\ UNCHANGED <<path, disk, staged, moverVars, target, seen, passVars, phase>>

\* ... cancel the move registered under its key ...
CancelRunning(c) ==
  LET m == running[target[c]] IN
  /\ cpc[c] = "cancel"
  /\ cancelled' = IF m = NoMover THEN cancelled ELSE [cancelled EXCEPT ![m] = TRUE]
  /\ CallGoto(c, "rmtemp")
  /\ UNCHANGED <<diskVars, mpc, mjob, from, stale, turn, running, target, seen,
                 passVars, phase>>

\* ... delete what is staged ...
RemoveTemp(c) ==
  /\ cpc[c] = "rmtemp"
  /\ staged' = [staged EXCEPT ![target[c]] = FALSE]
  /\ CallGoto(c, "rmcopy")
  /\ UNCHANGED <<row, path, disk, moverVars, target, seen, passVars, phase>>

\* ... and the copy.
RemoveCopy(c) ==
  /\ cpc[c] = "rmcopy"
  /\ disk' = [disk EXCEPT ![target[c]] = @ \ {seen[c]}]
  /\ Return(c)
  /\ UNCHANGED <<row, path, staged, moverVars, passVars, phase>>

CallStep(c) ==
  \/ StartMoving(c) \/ Spawn(c)
  \/ Forget(c) \/ CancelRunning(c) \/ RemoveTemp(c) \/ RemoveCopy(c)

-----------------------------------------------------------------------------
(* Move's goroutines.                                                       *)

Goto(m, pc) == mpc' = [mpc EXCEPT ![m] = pc]
Stopped(m)  == phase = "stopping" \/ cancelled[m]

\* Moves run one at a time: wait for the slot of moveTurn ...
TakeTurn(m) ==
  /\ mpc[m] = "waiting" /\ turn = NoMover
  /\ turn' = m
  /\ Goto(m, "open")
  /\ UNCHANGED <<diskVars, mjob, from, stale, cancelled, running, clientVars,
                 passVars, phase>>

\* ... or give up once cancelled.
GiveUp(m) ==
  /\ mpc[m] = "waiting" /\ Stopped(m)
  /\ Goto(m, "leave")
  /\ UNCHANGED <<diskVars, mjob, from, stale, cancelled, turn, running,
                 clientVars, passVars, phase>>

\* Open the original, which may have gone, and check the free space.
OpenSource(m) ==
  /\ mpc[m] = "open"
  /\ \/ from[m] \in disk[mjob[m]] /\ Goto(m, "stage")
     \/ Goto(m, "failed")
  /\ UNCHANGED <<diskVars, mjob, from, stale, cancelled, turn, running,
                 clientVars, passVars, phase>>

\* Refuse a destination that exists; create the staging file.
Stage(m) ==
  LET f == mjob[m] IN
  /\ mpc[m] = "stage"
  /\ \/ /\ MoveTarget(from[m]) \notin disk[f]
        /\ staged' = [staged EXCEPT ![f] = TRUE]
        /\ Goto(m, "copying")
     \/ /\ Goto(m, "failed")
        /\ UNCHANGED staged
  /\ UNCHANGED <<row, path, disk, mjob, from, stale, cancelled, turn, running,
                 clientVars, passVars, phase>>

RemoveOriginalFirst(m) ==
  /\ mpc[m] = "copying"
  /\ disk' = [disk EXCEPT ![mjob[m]] = @ \ {from[m]}]
  /\ Goto(m, "rename") \/ Goto(m, "failed")
  /\ UNCHANGED <<row, path, staged, mjob, from, stale, cancelled, turn, running,
                 clientVars, passVars, phase>>

\* The copy reads from an open handle: it does not mind what happens to the
\* original's name meanwhile.  It may fail, as it does when it is cancelled
\* before its last read.
CopyData(m) ==
  /\ mpc[m] = "copying"
  /\ Goto(m, "rename") \/ Goto(m, "failed")
  /\ UNCHANGED <<diskVars, mjob, from, stale, cancelled, turn, running,
                 clientVars, passVars, phase>>

\* Rename the staged copy into place; fails if Remove deleted it.
RenameCopy(m) ==
  LET f == mjob[m] IN
  /\ mpc[m] = "rename"
  /\ \/ /\ staged[f]
        /\ disk' = [disk EXCEPT ![f] = @ \cup {MoveTarget(from[m])}]
        /\ staged' = [staged EXCEPT ![f] = FALSE]
        /\ Goto(m, "record")
     \/ /\ Goto(m, "failed")
        /\ UNCHANGED <<disk, staged>>
  /\ UNCHANGED <<row, path, mjob, from, stale, cancelled, turn, running,
                 clientVars, passVars, phase>>

RecordWithoutPath(m) ==
  LET f == mjob[m] IN
  /\ mpc[m] = "record"
  /\ row' = [row EXCEPT ![f] = FinishMove(@)]
  /\ stale' = [stale EXCEPT ![m] = IF row[f] = "moving" THEN from[m]
                                   ELSE MoveTarget(from[m])]
  /\ Goto(m, "clean")
  /\ UNCHANGED <<path, disk, staged, mjob, from, cancelled, turn, running,
                 clientVars, passVars, phase>>

\* Store's FinishMove, whether or not the move was cancelled: if the entry is
\* still there the original is stale, otherwise the new copy is.
RecordMove(m) ==
  LET f == mjob[m] IN
  /\ mpc[m] = "record"
  /\ \/ /\ row' = [row EXCEPT ![f] = FinishMove(@)]
        /\ path' = IF row[f] = "moving"
                     THEN [path EXCEPT ![f] = MoveTarget(from[m])] ELSE path
        /\ stale' = [stale EXCEPT ![m] = IF row[f] = "moving" THEN from[m]
                                         ELSE MoveTarget(from[m])]
        /\ Goto(m, "clean")
     \/ /\ Faults            \* the statement fails
        /\ Goto(m, "failed")
        /\ UNCHANGED <<row, path, stale>>
  /\ UNCHANGED <<disk, staged, mjob, from, cancelled, turn, running, clientVars,
                 passVars, phase>>

\* Delete the stale file.
DeleteStale(m) ==
  /\ mpc[m] = "clean"
  /\ disk' = [disk EXCEPT ![mjob[m]] = @ \ {stale[m]}]
  /\ Goto(m, "leave")
  /\ UNCHANGED <<row, path, staged, mjob, from, stale, cancelled, turn, running,
                 clientVars, passVars, phase>>

FailSilently(m) ==
  /\ mpc[m] = "failed"
  /\ staged' = [staged EXCEPT ![mjob[m]] = FALSE]
  /\ Goto(m, "leave")
  /\ UNCHANGED <<row, path, disk, mjob, from, stale, cancelled, turn, running,
                 clientVars, passVars, phase>>

\* A failed move deletes what it staged; unless it was cancelled (the row is
\* gone) or the server is stopping (the row is reset on start), the entry is
\* "done" again, at its old path.
FailMove(m) ==
  LET f == mjob[m] IN
  /\ mpc[m] = "failed"
  /\ staged' = [staged EXCEPT ![f] = FALSE]
  /\ row' = IF Stopped(m) THEN row ELSE [row EXCEPT ![f] = EndMove(@)]
  /\ Goto(m, "leave")
  /\ UNCHANGED <<path, disk, mjob, from, stale, cancelled, turn, running,
                 clientVars, passVars, phase>>

\* The deferred functions: release the slot, delete the key's entry in running,
\* whoever registered it.
Leave(m) ==
  /\ mpc[m] = "leave"
  /\ turn' = IF turn = m THEN NoMover ELSE turn
  /\ running' = [running EXCEPT ![mjob[m]] = NoMover]
  /\ mjob' = [mjob EXCEPT ![m] = NoFile]
  /\ from' = [from EXCEPT ![m] = NoPath]
  /\ stale' = [stale EXCEPT ![m] = NoPath]
  /\ cancelled' = [cancelled EXCEPT ![m] = FALSE]
  /\ Goto(m, "idle")
  /\ UNCHANGED <<diskVars, clientVars, passVars, phase>>

MoverStep(m) ==
  \/ TakeTurn(m) \/ GiveUp(m) \/ OpenSource(m) \/ Stage(m) \/ CopyData(m)
  \/ RenameCopy(m) \/ RecordMove(m) \/ DeleteStale(m) \/ FailMove(m) \/ Leave(m)

-----------------------------------------------------------------------------
(* keepLocal, for a file whose naming has changed.                          *)

PassReturn(s) ==
  /\ spc' = [spc EXCEPT ![s] = "idle"]
  /\ sfile' = [sfile EXCEPT ![s] = NoFile]
  /\ sfrom' = [sfrom EXCEPT ![s] = NoPath]
  /\ want' = [want EXCEPT ![s] = NoPath]

\* Read the row: a copy that is not being moved and is not where the naming
\* wants it is relocated within its root.
ReadCopy(s, f) ==
  /\ phase = "up" /\ spc[s] = "idle"
  /\ row[f] = "done"
  /\ \E place \in Naming :
       LET p == <<Root(path[f]), place>> IN
       /\ p # path[f]
       /\ want' = [want EXCEPT ![s] = p]
  /\ sfile' = [sfile EXCEPT ![s] = f]
  /\ sfrom' = [sfrom EXCEPT ![s] = path[f]]
  /\ spc' = [spc EXCEPT ![s] = "rename"]
  /\ UNCHANGED <<diskVars, moverVars, clientVars, phase>>

\* os.Rename fails when the copy has gone from where the row said.
Relocate(s) ==
  LET f == sfile[s] IN
  /\ spc[s] = "rename"
  /\ IF sfrom[s] \in disk[f]
       THEN /\ disk' = [disk EXCEPT ![f] = (@ \ {sfrom[s]}) \cup {want[s]}]
            /\ spc' = [spc EXCEPT ![s] = "setpath"]
            /\ UNCHANGED <<sfile, sfrom, want>>
       ELSE PassReturn(s) /\ UNCHANGED disk
  /\ UNCHANGED <<row, path, staged, moverVars, clientVars, phase>>

\* SetLocalPath, whatever the row's status is by now.  An error (a pass cut off
\* by a shutdown, a failing database) is only logged.
SetLocalPath(s) ==
  LET f == sfile[s] IN
  /\ spc[s] = "setpath"
  /\ \/ /\ phase = "up"
        /\ path' = IF row[f] = "none" THEN path ELSE [path EXCEPT ![f] = want[s]]
     \/ /\ Faults
        /\ UNCHANGED path
  /\ PassReturn(s)
  /\ UNCHANGED <<row, disk, staged, moverVars, clientVars, phase>>

PassStep(s) == Relocate(s) \/ SetLocalPath(s)

-----------------------------------------------------------------------------
(* Shutdown, crash, restart.                                                *)

Stop ==
  /\ Faults /\ phase = "up"
  /\ phase' = "stopping"
  /\ UNCHANGED <<diskVars, moverVars, clientVars, passVars>>

\* The process is gone, at whatever point it was, and a new one begins with
\* ResetInterruptedLocal.
Restart ==
  /\ Faults
  /\ row' = [f \in Files |-> ResetInterruptedLocal(row[f])]
  /\ mpc' = [m \in Movers |-> "idle"]
  /\ mjob' = [m \in Movers |-> NoFile]
  /\ from' = [m \in Movers |-> NoPath]
  /\ stale' = [m \in Movers |-> NoPath]
  /\ cancelled' = [m \in Movers |-> FALSE]
  /\ turn' = NoMover
  /\ running' = [f \in Files |-> NoMover]
  /\ cpc' = [c \in Clients |-> "idle"]
  /\ target' = [c \in Clients |-> NoFile]
  /\ seen' = [c \in Clients |-> NoPath]
  /\ spc' = [s \in Passes |-> "idle"]
  /\ sfile' = [s \in Passes |-> NoFile]
  /\ sfrom' = [s \in Passes |-> NoPath]
  /\ want' = [s \in Passes |-> NoPath]
  /\ phase' = "up"
  /\ UNCHANGED <<path, disk, staged>>

Next ==
  \/ \E c \in Clients : CallStep(c)
  \/ \E c \in Clients, f \in Files : MoveCall(c, f) \/ RemoveCall(c, f)
  \/ \E m \in Movers : MoverStep(m)
  \/ \E s \in Passes : PassStep(s) \/ \E f \in Files : ReadCopy(s, f)
  \/ Stop \/ Restart

Spec == Init /\ [][Next]_vars

\* Goroutines and requests run on, waiters for the slot are served in turn, and
\* a stopped server is started again.
Fairness ==
  /\ \A m \in Movers : WF_vars(MoverStep(m)) /\ SF_vars(TakeTurn(m))
  /\ \A c \in Clients : WF_vars(CallStep(c))
  /\ \A s \in Passes : WF_vars(PassStep(s))
  /\ WF_vars(phase = "stopping" /\ Restart)

FairSpec == Spec /\ Fairness

-----------------------------------------------------------------------------
(* What is promised.                                                        *)

\* A pass is between its rename and the row's update.
Relocating(f) == \E s \in Passes : sfile[s] = f /\ spc[s] = "setpath"

\* LocalFile.HasCopy "reports whether a playable local file exists at LocalPath": only
\* a relocation takes the file from where its row says it is, not a move that
\* finishes, fails or is cancelled, not a removal of the earlier entry, not a restart.
PathsStayValid ==
  [][\A f \in Files :
       row[f] # "none" /\ path[f] \in disk[f] /\ row'[f] # "none"
         => path'[f] \in disk'[f] \/ Relocating(f)']_vars

\* The entry and its copy as module LocalLifecycle sees them: a copy being
\* moved is a finished one.
Contract == INSTANCE LocalLifecycle
              WITH entry <- [f \in Files |-> IF row[f] = "moving" THEN "done" ELSE row[f]],
                   kept <- {f \in Files : disk[f] # {}}

\* Moving and relocating are invisible there: whatever fails or is cut off, the
\* file is on disk somewhere from the first to the last moment, and leaves it
\* only after Remove has forgotten the entry.
MovesKeepContract == [][Contract!Next]_(Contract!vars)

\* What MovesKeepContract rests on; with TypeOK these are inductive.
Active == {"waiting", "open", "stage", "copying", "rename", "record", "failed"}
Moving(m, f) == mjob[m] = f /\ mpc[m] \in Active
CallsSawAPath ==   \* a call acts on the path it read, Move on one in the library
  \A c \in Clients :
    /\ cpc[c] # "idle" => seen[c] \in Paths
    /\ cpc[c] \in {"start", "spawn"} => Root(seen[c]) = "library"
PassesKeepTheRoot ==
  \A s \in Passes : spc[s] # "idle" =>
    sfile[s] \in Files /\ want[s] \in Paths /\ sfrom[s] \in Paths /\ Root(want[s]) = Root(sfrom[s])
MoversMove ==   \* the entry of a move in progress is "moving", or forgotten ...
  \A m \in Movers : mpc[m] \in Active => row[mjob[m]] # "done"
SpawningMoves ==
  \A c \in Clients : cpc[c] = "spawn" => row[target[c]] # "done"
OneMove ==   \* ... and has no other
  /\ \A m, n \in Movers, f \in Files : Moving(m, f) /\ Moving(n, f) => m = n
  /\ \A c, d \in Clients : cpc[c] = "spawn" /\ cpc[d] = "spawn" /\ target[c] = target[d] => c = d
  /\ \A c \in Clients, m \in Movers : cpc[c] = "spawn" => ~Moving(m, target[c])
ForgottenBeforeDeleted ==
  \A c \in Clients : cpc[c] \in {"cancel", "rmtemp", "rmcopy"} => row[target[c]] = "none"
MovedIsThere ==   \* once renamed, the moved copy stays in the download folder
  \A m \in Movers : mpc[m] \in {"record", "clean"} /\ row[mjob[m]] # "none" =>
    \E p \in disk[mjob[m]] : Root(p) = "folder"
StaleIsOriginal ==
  \A m \in Movers : mpc[m] = "clean" /\ row[mjob[m]] # "none" =>
    stale[m] \in Paths /\ Root(stale[m]) = "library"
SomewhereOnDisk ==
  \A f \in Files : row[f] # "none" => disk[f] # {}

IInv ==
  /\ TypeOK /\ CallsSawAPath /\ PassesKeepTheRoot
  /\ MoversMove /\ SpawningMoves /\ OneMove
  /\ ForgottenBeforeDeleted /\ MovedIsThere /\ StaleIsOriginal /\ SomewhereOnDisk

\* Why PathsStayValid holds as long as the naming rules choose one place for a file: then
\* a relocation within the library happens once, for good.
OnePlace == \A x, y \in Naming : x = y

InLibrary(p) == p # NoPath /\ Root(p) = "library"
Outdated(p)  == InLibrary(p) /\ p[2] \notin Naming
Renamed(p)   == InLibrary(p) /\ p[2] \in Naming

\* The paths of a file that its row, a call or a move knows.
Seen(f) ==
  {path[f]} \cup {seen[c] : c \in {d \in Clients : target[d] = f}}
            \cup {from[m] : m \in {n \in Movers : mjob[n] = f}}

\* A pass has renamed the copy in the library and not yet recorded it.
Renaming(s, f) == sfile[s] = f /\ spc[s] = "setpath" /\ InLibrary(want[s])

PassesRename ==   \* passes take a copy to the one place, from another, and find it there
  \A s \in Passes : spc[s] # "idle" =>
    /\ want[s][2] \in Naming /\ sfrom[s][2] \notin Naming
    /\ spc[s] = "setpath" /\ row[sfile[s]] # "none" => want[s] \in disk[sfile[s]]
RenamedOnce ==
  \A f \in Files :
    /\ \A p, q \in disk[f] : Outdated(p) /\ Outdated(q) => p = q
    /\ (\E p \in Seen(f) : Renamed(p)) \/ (\E s \in Passes : Renaming(s, f)) =>
         \A p \in disk[f] : ~Outdated(p)
    /\ (\E p \in Seen(f) : Renamed(p)) => \A s \in Passes : ~Renaming(s, f)
    /\ \A s, t \in Passes : Renaming(s, f) /\ Renaming(t, f) => s = t
HoldsTheTurn ==
  \A m \in Movers : mpc[m] \notin {"idle", "waiting", "leave"} => turn = m
StaleIsLeft ==   \* what a move deletes is what it copied, and no longer the entry's path
  \A m \in Movers : mpc[m] = "clean" /\ row[mjob[m]] # "none" =>
    stale[m] = from[m] /\ path[mjob[m]] # stale[m]
\* Neither the row nor a pass has the destination of a move from x.
Untaken(f, x) ==
  path[f] # MoveTarget(x) /\ \A s \in Passes : sfile[s] = f => sfrom[s] # MoveTarget(x)
NotYetMoved ==
  \A f \in Files : row[f] # "none" =>
    \A x \in Seen(f) : Outdated(x) /\ x \in disk[f] =>
      Untaken(f, x) \/ \E m \in Movers : mjob[m] = f /\ mpc[m] = "clean" /\ stale[m] = x
DestinationIsMine ==
  \A m \in Movers : mpc[m] \in {"stage", "copying", "rename", "record"} /\ row[mjob[m]] # "none" =>
    /\ Outdated(from[m]) => Untaken(mjob[m], from[m])
    /\ mpc[m] = "record" => MoveTarget(from[m]) \in disk[mjob[m]]

PInv ==
  /\ PassesRename /\ RenamedOnce /\ HoldsTheTurn /\ StaleIsLeft
  /\ NotYetMoved /\ DestinationIsMine

\* Every move ends, however it is cut off, and hands the slot on to the next: no
\* entry stays "moving", which could be neither moved again nor relocated.
MovesEnd == \A f \in Files : row[f] = "moving" ~> row[f] # "moving"
=============================================================================
