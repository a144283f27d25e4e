------------------------------ MODULE CloudSync ------------------------------
(***************************************************************************)
(* How the library follows the debrid clouds: debrid.Engine's listing      *)
(* cache, SyncNow, AddMagnet, RemoveTorrent and WipeLibrary                *)
(* (internal/debrid/engine.go) over Writer.SyncProvider, RemoveTorrent and *)
(* WipeLibrary (internal/strm/writer.go).                                  *)
(*                                                                         *)
(* Nothing serialises these operations: the sync loop, "Sync now" and      *)
(* every page or API request run them side by side on the same table, the  *)
(* same directory and the same cache.  A step is one critical section of   *)
(* cloudMu, one request to a provider, one SQL statement or one file       *)
(* operation.                                                              *)
(*                                                                         *)
(* An item is one (provider, torrent) with the one file it is played by;   *)
(* an item is in the cloud once it is ready there.  Abstracted: the choice *)
(* of files, names and paths, local copies (module KeepLocal),             *)
(* hints, counts and progress reports.                                     *)
(***************************************************************************)
EXTENDS FiniteSets

CONSTANTS
  Providers, Torrents,
  Procs,      \* the sync loop and the requests running beside it
  Loop,       \* the sync loop among them
  Requests,   \* which requests there are: a subset of Request
  Permanent,  \* torrents that may be in every cloud all the time
  Partial,    \* may a listing lack the files of a ready torrent?  (Real-Debrid
              \* answers one request per torrent, and drops the ones that fail.)
  Faults,     \* does the server die and start again?
  NoItem, NoProvider

Request == {"sync", "page", "add", "remove", "wipe"}

ASSUME ConstantsAssumption ==
  /\ Loop \in Procs
  /\ Requests \subseteq Request
  /\ Permanent \subseteq Torrents
  /\ Partial \in BOOLEAN /\ Faults \in BOOLEAN
  /\ NoItem \notin Providers \X Torrents
  /\ NoProvider \notin Providers

Items == Providers \X Torrents
Of(p) == {p} \X Torrents

\* No listing: nothing cached, or nothing fetched.
NoListing == [known |-> FALSE, items |-> {}]
Listing(is) == [known |-> TRUE, items |-> is]
Listings == {NoListing} \cup {Listing(is) : is \in SUBSET Items}

VARIABLES
  cloud,     \* the items ready in the debrid clouds
  \* on disk: survive a restart
  tracked,   \* rows of table files
  strm,      \* .strm files
  \* Engine
  cache,     \* cloudCache: per provider, the listing younger than its TTL
  fileCache, \* Real-Debrid client: items whose files it has fetched
  failed,    \* lastErr # nil
  \* one operation at a time per process
  pc, op, item,
  provs,     \* providers SyncNow has not dealt with yet
  prov,      \* the one it is dealing with
  listing,   \* what listCloud returned, or is about to cache
  todo,      \* items left to write, or to prune
  cur,       \* the item in between two steps
  \* updated_at against syncStart, in whole seconds
  late,      \* passes whose first second is over
  newer,     \* per item, the passes that see its row as newer than their start
  calm,      \* from now on no requests, no errors, no changes in the clouds
  stays      \* torrents that are in every cloud all the time

libVars  == <<tracked, strm>>
procVars == <<pc, op, item, provs, prov, listing, todo, cur>>
timeVars == <<late, newer>>
env      == <<calm, stays>>
memVars  == <<cache, fileCache, failed>>
vars == <<cloud, libVars, cache, fileCache, failed, procVars, timeVars, env>>

PC == {"idle", "next", "fetch", "store", "files", "insert", "update", "write",
       "prune", "prunerow", "invalidate", "clean"}
Writing == {"insert", "update", "write"}   \* SyncProvider in the middle of a file

TypeOK ==
  /\ cloud \subseteq Items /\ tracked \subseteq Items /\ strm \subseteq Items
  /\ cache \in [Providers -> Listings]
  /\ fileCache \subseteq Items
  /\ failed \in BOOLEAN
  /\ pc \in [Procs -> PC]
  /\ op \in [Procs -> Request \cup {"none"}]
  /\ \A x \in Procs : op[x] = "none" <=> pc[x] = "idle"
  /\ item \in [Procs -> Items \cup {NoItem}]
  /\ provs \in [Procs -> SUBSET Providers]
  /\ prov \in [Procs -> Providers \cup {NoProvider}]
  /\ listing \in [Procs -> Listings]
  /\ \A x \in Procs : pc[x] \in {"store", "files"} \cup Writing =>
       prov[x] \in Providers /\ listing[x].known /\ listing[x].items \subseteq Of(prov[x])
  /\ todo \in [Procs -> SUBSET Items]
  /\ cur \in [Procs -> Items \cup {NoItem}]
  /\ \A x \in Procs : cur[x] \in Items <=> pc[x] \in {"prunerow"} \cup Writing
  /\ late \subseteq Procs
  /\ newer \in [Items -> SUBSET Procs]
  /\ calm \in BOOLEAN
  /\ stays \subseteq Permanent /\ Providers \X stays \subseteq cloud

Init ==
  /\ stays \in SUBSET Permanent
  /\ cloud \in {is \in SUBSET Items : Providers \X stays \subseteq is}
  /\ tracked = {} /\ strm = {}
  /\ cache = [p \in Providers |-> NoListing]
  /\ fileCache = {}
  /\ failed = FALSE
  /\ pc = [x \in Procs |-> "idle"]
  /\ op = [x \in Procs |-> "none"]
  /\ item = [x \in Procs |-> NoItem]
  /\ provs = [x \in Procs |-> {}]
  /\ prov = [x \in Procs |-> NoProvider]
  /\ listing = [x \in Procs |-> NoListing]
  /\ todo = [x \in Procs |-> {}]
  /\ cur = [x \in Procs |-> NoItem]
  /\ late = {}
  /\ newer = [i \in Items |-> {}]
  /\ calm = FALSE

-----------------------------------------------------------------------------
(* As in KeepLocal, an operator whose name says what it does wrong is a      *)
(* variant no specification uses: it shows that a property notices it.       *)

Goto(x, where) == pc' = [pc EXCEPT ![x] = where]

\* SyncNow starts: every provider is to be synced.
SyncAll(x) ==
  /\ Goto(x, "next")
  /\ provs' = [provs EXCEPT ![x] = Providers]

\* The operation is over.
Finish(x) ==
  /\ Goto(x, "idle")
  /\ op' = [op EXCEPT ![x] = "none"]
  /\ item' = [item EXCEPT ![x] = NoItem]

\* The request behind the operation is gone: its statements may fail.
Cancellable(x) == ~calm

-----------------------------------------------------------------------------
(* Requests.  Each is a process's whole work until it is idle again.         *)

Begin(x, o) ==
  /\ pc[x] = "idle"
  /\ x # Loop => ~calm /\ o \in Requests
  /\ op' = [op EXCEPT ![x] = o]

\* RunSyncLoop's tick, POST /api/sync and renames: SyncNow.
StartSync(x) ==
  /\ Begin(x, "sync")
  /\ SyncAll(x)
  /\ UNCHANGED <<cloud, libVars, memVars, item, prov, listing, todo, cur,
                 timeVars, env>>

\* The cloud page: ListCloud of one provider.
StartPage(x, p) ==
  /\ x # Loop /\ Begin(x, "page")
  /\ Goto(x, "next")
  /\ provs' = [provs EXCEPT ![x] = {p}]
  /\ UNCHANGED <<cloud, libVars, memVars, item, prov, listing, todo, cur,
                 timeVars, env>>

\* AddMagnet of something the provider has cached: it is ready at once.  (What
\* is not cached appears later, as any CloudChange does, and nothing is synced.)
StartAdd(x, i) ==
  /\ x # Loop /\ Begin(x, "add")
  /\ cloud' = cloud \cup {i}
  /\ item' = [item EXCEPT ![x] = i]
  /\ Goto(x, "invalidate")
  /\ UNCHANGED <<libVars, memVars, provs, prov, listing, todo, cur,
                 timeVars, env>>

\* RemoveTorrent: the provider deletes it, or has none to delete.  (An error is
\* checked against a listing; one that leaves the torrent there changes nothing.)
StartRemove(x, i) ==
  /\ x # Loop /\ Begin(x, "remove")
  /\ i[2] \notin stays
  /\ cloud' = cloud \ {i}
  /\ fileCache' = fileCache \ {i}
  /\ item' = [item EXCEPT ![x] = i]
  /\ Goto(x, "invalidate")
  /\ UNCHANGED <<libVars, cache, failed, provs, prov, listing, todo, cur,
                 timeVars, env>>

\* WipeLibrary begins with the rows to remove.
StartWipe(x) ==
  /\ x # Loop /\ Begin(x, "wipe")
  /\ todo' = [todo EXCEPT ![x] = tracked]
  /\ Goto(x, "prune")
  /\ UNCHANGED <<cloud, libVars, memVars, item, provs, prov, listing, cur,
                 timeVars, env>>

\* invalidateCloudCache, then SyncNow (AddMagnet) or the clean-up.
Invalidate(x) ==
  /\ pc[x] = "invalidate"
  /\ cache' = [cache EXCEPT ![item[x][1]] = NoListing]
  /\ IF op[x] = "add"
       THEN SyncAll(x)
       ELSE Goto(x, "clean") /\ UNCHANGED provs
  /\ UNCHANGED <<cloud, libVars, fileCache, failed, op, item, prov, listing, todo, cur,
                 timeVars, env>>

\* Writer.RemoveTorrent lists the rows and picks the torrent's.  When the
\* request is gone it only logs that.
ListTorrent(x) ==
  /\ pc[x] = "clean"
  /\ \/ /\ todo' = [todo EXCEPT ![x] = tracked \cap {item[x]}]
        /\ Goto(x, "prune")
        /\ UNCHANGED <<op, item>>
     \/ /\ Cancellable(x)
        /\ Finish(x)
        /\ UNCHANGED todo
  /\ UNCHANGED <<cloud, libVars, memVars, provs, prov, listing, cur, timeVars,
                 env>>

-----------------------------------------------------------------------------
(* listCloud.                                                                *)

ForgetPass(x) ==
  /\ late' = late \ {x}
  /\ newer' = [i \in Items |-> newer[i] \ {x}]

\* A listing is at hand: the page is served, or SyncProvider starts its clock.
UseListing(x, is) ==
  IF op[x] = "page"
    THEN /\ Finish(x)
         /\ prov' = [prov EXCEPT ![x] = NoProvider]
         /\ listing' = [listing EXCEPT ![x] = NoListing]
         /\ UNCHANGED <<todo, timeVars>>
    ELSE /\ Goto(x, "files")
         /\ listing' = [listing EXCEPT ![x] = Listing(is)]
         /\ todo' = [todo EXCEPT ![x] = is]
         /\ ForgetPass(x)
         /\ UNCHANGED <<op, item>>

\* Take a provider (Go ranges over the map in any order) and look in the cache.
LookInCache(x) ==
  /\ pc[x] = "next"
  /\ \E p \in provs[x] :
       /\ provs' = [provs EXCEPT ![x] = @ \ {p}]
       /\ IF cache[p].known
            THEN /\ UseListing(x, cache[p].items)
                 /\ IF op[x] = "page" THEN TRUE ELSE prov' = [prov EXCEPT ![x] = p]
            ELSE /\ Goto(x, "fetch")
                 /\ prov' = [prov EXCEPT ![x] = p]
                 /\ UNCHANGED <<op, item, listing, todo, timeVars>>
  /\ UNCHANGED <<cloud, libVars, memVars, cur, env>>

\* What ListCloud may return: what p's cloud holds at that moment, but perhaps
\* without items whose files it has not fetched before.
Answers(p) ==
  LET ready == cloud \cap Of(p) IN
  IF Partial /\ ~calm
    THEN {is \in SUBSET ready : ready \cap fileCache \subseteq is}
    ELSE {ready}

\* The provider answers.
Fetch(x) ==
  /\ pc[x] = "fetch"
  /\ \E is \in Answers(prov[x]) :
       /\ listing' = [listing EXCEPT ![x] = Listing(is)]
       /\ fileCache' = IF Partial THEN fileCache \cup is ELSE fileCache
  /\ Goto(x, "store")
  /\ UNCHANGED <<cloud, libVars, cache, failed, op, item, provs, prov, todo, cur,
                 timeVars, env>>

FailAsEmpty(x) ==
  /\ pc[x] = "fetch" /\ ~calm
  /\ listing' = [listing EXCEPT ![x] = Listing({})]
  /\ Goto(x, "store")
  /\ UNCHANGED <<cloud, libVars, memVars, op, item, provs, prov, todo, cur,
                 timeVars, env>>

\* The provider does not answer: it is skipped, and nothing is cached.
FetchFails(x) ==
  /\ pc[x] = "fetch" /\ ~calm
  /\ prov' = [prov EXCEPT ![x] = NoProvider]
  /\ IF op[x] = "page"
       THEN Finish(x) /\ UNCHANGED failed
       ELSE Goto(x, "next") /\ failed' = TRUE /\ UNCHANGED <<op, item>>
  /\ UNCHANGED <<cloud, libVars, cache, fileCache, provs, listing, todo, cur,
                 timeVars, env>>

\* The answer is cached when it arrives, whatever happened since it was asked.
StoreListing(x) ==
  /\ pc[x] = "store"
  /\ cache' = [cache EXCEPT ![prov[x]] = listing[x]]
  /\ UseListing(x, listing[x].items)
  /\ IF op[x] = "page" THEN TRUE ELSE UNCHANGED prov
  /\ UNCHANGED <<cloud, libVars, fileCache, failed, provs, cur, env>>

-----------------------------------------------------------------------------
(* SyncProvider.                                                             *)

\* UpsertFile first asks whether the row exists ...
LookupFile(x) ==
  /\ pc[x] = "files"
  /\ \E i \in todo[x] :
       /\ cur' = [cur EXCEPT ![x] = i]
       /\ todo' = [todo EXCEPT ![x] = @ \ {i}]
       /\ Goto(x, IF i \in tracked THEN "update" ELSE "insert")
  /\ UNCHANGED <<cloud, libVars, memVars, op, item, provs, prov, listing,
                 timeVars, env>>

\* The row is stamped: passes whose first second is over see it as newer.
Stamp(i) == newer' = [newer EXCEPT ![i] = late]

\* ... then inserts it, which fails if somebody else has (SyncProvider goes on
\* with the next file) ...
InsertFile(x) ==
  /\ pc[x] = "insert"
  /\ IF cur[x] \in tracked
       THEN /\ Goto(x, "files")
            /\ cur' = [cur EXCEPT ![x] = NoItem]
            /\ UNCHANGED <<tracked, newer>>
       ELSE /\ Goto(x, "write")
            /\ tracked' = tracked \cup {cur[x]}
            /\ Stamp(cur[x])
            /\ UNCHANGED cur
  /\ UNCHANGED <<cloud, strm, memVars, op, item, provs, prov, listing, todo,
                 late, env>>

\* ... or updates it, which changes nothing if somebody has deleted it.
UpdateFile(x) ==
  /\ pc[x] = "update"
  /\ IF cur[x] \in tracked THEN Stamp(cur[x]) ELSE UNCHANGED newer
  /\ Goto(x, "write")
  /\ UNCHANGED <<cloud, libVars, memVars, op, item, provs, prov, listing, todo,
                 cur, late, env>>

WriteAndStay(x) ==
  /\ pc[x] = "write"
  /\ strm' = strm \cup {cur[x]}
  /\ Goto(x, "files")
  /\ UNCHANGED <<cloud, tracked, memVars, op, item, provs, prov, listing,
                 todo, cur, timeVars, env>>

WriteStrm(x) ==
  /\ pc[x] = "write"
  /\ strm' = strm \cup {cur[x]}
  /\ cur' = [cur EXCEPT ![x] = NoItem]
  /\ Goto(x, "files")
  /\ UNCHANGED <<cloud, tracked, memVars, op, item, provs, prov, listing,
                 todo, timeVars, env>>

PruneNewer(x) ==
  /\ pc[x] = "files" /\ todo[x] = {}
  /\ todo' = [todo EXCEPT ![x] =
                {i \in (tracked \cap Of(prov[x])) \ listing[x].items : x \in newer[i]}]
  /\ listing' = [listing EXCEPT ![x] = NoListing]
  /\ prov' = [prov EXCEPT ![x] = NoProvider]
  /\ Goto(x, "prune")
  /\ UNCHANGED <<cloud, libVars, memVars, op, item, provs, cur, timeVars, env>>

\* List the provider's rows: prune those that were not listed and that nobody
\* has updated since this pass began.
StartPrune(x) ==
  /\ pc[x] = "files" /\ todo[x] = {}
  /\ todo' = [todo EXCEPT ![x] =
                {i \in (tracked \cap Of(prov[x])) \ listing[x].items : x \notin newer[i]}]
  /\ listing' = [listing EXCEPT ![x] = NoListing]
  /\ prov' = [prov EXCEPT ![x] = NoProvider]
  /\ Goto(x, "prune")
  /\ UNCHANGED <<cloud, libVars, memVars, op, item, provs, cur, timeVars, env>>

\* A cancelled pass writes and prunes nothing more; SyncNow goes on.
CancelPass(x) ==
  /\ pc[x] = "files" /\ Cancellable(x)
  /\ todo' = [todo EXCEPT ![x] = {}]
  /\ listing' = [listing EXCEPT ![x] = NoListing]
  /\ prov' = [prov EXCEPT ![x] = NoProvider]
  /\ failed' = TRUE
  /\ Goto(x, "next")
  /\ UNCHANGED <<cloud, libVars, cache, fileCache, op, item, provs, cur, timeVars,
                 env>>

\* removeStrm, for a pass, RemoveTorrent and WipeLibrary alike: the file ...
RemoveStrm(x) ==
  /\ pc[x] = "prune"
  /\ \E i \in todo[x] :
       /\ strm' = strm \ {i}
       /\ cur' = [cur EXCEPT ![x] = i]
       /\ todo' = [todo EXCEPT ![x] = @ \ {i}]
  /\ Goto(x, "prunerow")
  /\ UNCHANGED <<cloud, tracked, memVars, op, item, provs, prov, listing,
                 timeVars, env>>

\* ... then its row.  A pass goes on when that fails, the others give up.
DeleteFile(x) ==
  /\ pc[x] = "prunerow"
  /\ cur' = [cur EXCEPT ![x] = NoItem]
  /\ \/ /\ tracked' = tracked \ {cur[x]}
        /\ Goto(x, "prune")
        /\ UNCHANGED <<todo, op, item>>
     \/ /\ Cancellable(x)
        /\ IF op[x] \in {"sync", "add"}
             THEN Goto(x, "prune") /\ UNCHANGED <<todo, op, item>>
             ELSE Finish(x) /\ todo' = [todo EXCEPT ![x] = {}]
        /\ UNCHANGED tracked
  /\ UNCHANGED <<cloud, strm, memVars, provs, prov, listing, timeVars, env>>

\* Everything is pruned: the next provider, WipeLibrary's SyncNow, or the end.
EndPrune(x) ==
  /\ pc[x] = "prune" /\ todo[x] = {}
  /\ \/ op[x] = "remove" /\ Finish(x) /\ UNCHANGED provs
     \/ /\ op[x] = "wipe"
        /\ SyncAll(x)
        /\ op' = [op EXCEPT ![x] = "sync"]
        /\ UNCHANGED item
     \/ /\ op[x] \in {"sync", "add"}
        /\ Goto(x, "next")
        /\ UNCHANGED <<op, item, provs>>
  /\ UNCHANGED <<cloud, libVars, memVars, prov, listing, todo, cur, timeVars,
                 env>>

\* SyncNow is done with every provider; it returns lastErr, old or new.
EndSync(x) ==
  /\ pc[x] = "next" /\ provs[x] = {}
  /\ Finish(x)
  /\ UNCHANGED <<cloud, libVars, memVars, provs, prov, listing, todo, cur,
                 timeVars, env>>

ProcStep(x) ==
  \/ Invalidate(x) \/ ListTorrent(x)
  \/ LookInCache(x) \/ Fetch(x) \/ FetchFails(x) \/ StoreListing(x)
  \/ LookupFile(x) \/ InsertFile(x) \/ UpdateFile(x) \/ WriteStrm(x) \/ StartPrune(x) \/ CancelPass(x)
  \/ RemoveStrm(x) \/ DeleteFile(x) \/ EndPrune(x) \/ EndSync(x)

-----------------------------------------------------------------------------
(* The environment.                                                          *)

\* An item becomes ready in its cloud, expires or is deleted elsewhere.
CloudChange(i) ==
  /\ ~calm /\ i[2] \notin stays
  /\ cloud' = IF i \in cloud THEN cloud \ {i} ELSE cloud \cup {i}
  /\ UNCHANGED <<libVars, memVars, procVars, timeVars, env>>

\* cloudCacheTTL has passed.
Expire(p) ==
  /\ cache[p].known
  /\ cache' = [cache EXCEPT ![p] = NoListing]
  /\ UNCHANGED <<cloud, libVars, fileCache, failed, procVars, timeVars, env>>

\* The second in which a pass began is over.
Tick(x) ==
  /\ pc[x] \in {"files"} \cup Writing /\ x \notin late
  /\ late' = late \cup {x}
  /\ UNCHANGED <<cloud, libVars, memVars, procVars, newer, env>>

\* The process is gone, and with it everything in memory.
Restart ==
  /\ Faults /\ ~calm
  /\ cache' = [p \in Providers |-> NoListing]
  /\ fileCache' = {}
  /\ failed' = FALSE
  /\ pc' = [x \in Procs |-> "idle"]
  /\ op' = [x \in Procs |-> "none"]
  /\ item' = [x \in Procs |-> NoItem]
  /\ provs' = [x \in Procs |-> {}]
  /\ prov' = [x \in Procs |-> NoProvider]
  /\ listing' = [x \in Procs |-> NoListing]
  /\ todo' = [x \in Procs |-> {}]
  /\ cur' = [x \in Procs |-> NoItem]
  /\ late' = {}
  /\ newer' = [i \in Items |-> {}]
  /\ UNCHANGED <<cloud, libVars, env>>

BecomeCalm ==
  /\ ~calm
  /\ calm' = TRUE
  /\ UNCHANGED <<cloud, libVars, memVars, procVars, timeVars, stays>>

Next ==
  \/ \E x \in Procs :
       \/ ProcStep(x) \/ StartSync(x) \/ StartWipe(x) \/ Tick(x)
       \/ \E p \in Providers : StartPage(x, p)
       \/ \E i \in Items : StartAdd(x, i) \/ StartRemove(x, i)
  \/ \E i \in Items : CloudChange(i)
  \/ \E p \in Providers : Expire(p)
  \/ Restart \/ BecomeCalm

Spec == Init /\ [][Next]_vars

\* Operations run on, the loop ticks, and cached listings expire.
Fairness ==
  /\ \A x \in Procs : WF_vars(ProcStep(x))
  /\ WF_vars(StartSync(Loop))
  /\ \A p \in Providers : WF_vars(Expire(p))

FairSpec == Spec /\ Fairness

-----------------------------------------------------------------------------
(* What is promised.                                                         *)

\* Left alone, the library ends up as the clouds are: whatever overlapping
\* passes, removals, wipes, errors, cancelled requests and crashes left, later
\* passes repair: the rows are exactly the items, and each item has its .strm.
LibraryFollows ==
  <>calm => <>[](tracked = cloud /\ cloud \subseteq strm)

\* An item that never left its cloud never loses its .strm to a pass: not
\* because a provider failed, not because another provider's pass did not list
\* it ("Failed fetches are never cached", and SyncNow skips the provider).
ReadyItemsStay ==
  [][\A i \in Providers \X stays :
       i \in strm /\ (\A x \in Procs : op[x] # "wipe") => i \in strm']_vars

-----------------------------------------------------------------------------
(* Why ReadyItemsStay holds: the invariant its proof rests on.               *)

\* Listings are of the provider they are filed under, and an operation knows
\* what it is about.
Own ==
  /\ \A p \in Providers : cache[p].items \subseteq Of(p)
  /\ \A x \in Procs :
       /\ pc[x] \in {"invalidate", "clean"} => item[x] \in Items
       /\ pc[x] = "invalidate" => op[x] \in {"add", "remove"}
       /\ pc[x] = "clean" => op[x] = "remove"
       /\ pc[x] = "fetch" => prov[x] \in Providers

\* Complete listings hold the items that stay, so no pass chooses one to prune,
\* and nobody asks for one to be removed.
Spared ==
  LET kept(p) == {p} \X stays IN
  /\ \A p \in Providers : cache[p].known => kept(p) \subseteq cache[p].items
  /\ \A x \in Procs :
       /\ pc[x] \in {"store", "files"} \cup Writing => kept(prov[x]) \subseteq listing[x].items
       /\ op[x] = "remove" => item[x] \notin Providers \X stays
       /\ pc[x] \in {"prune", "prunerow"} /\ op[x] # "wipe" =>
            todo[x] \cap (Providers \X stays) = {}

IInv == TypeOK /\ Own /\ (~Partial => Spared)

-----------------------------------------------------------------------------
(* Why the library stays as the clouds are once it follows: what is cached,  *)
(* in hand or under way is then of the clouds as they are.                   *)

Following ==
  /\ calm /\ tracked = cloud /\ cloud \subseteq strm
  /\ \A p \in Providers : cache[p].known => cache[p].items = cloud \cap Of(p)
  /\ \A x \in Procs :
       /\ op[x] \notin {"remove", "wipe"}
       /\ pc[x] \in {"store", "files"} \cup Writing => listing[x].items = cloud \cap Of(prov[x])
       /\ pc[x] \in {"files"} \cup Writing => todo[x] \subseteq cloud
       /\ pc[x] \in Writing => cur[x] \in cloud
       /\ pc[x] # "prunerow" /\ (pc[x] = "prune" => todo[x] = {})
=============================================================================
