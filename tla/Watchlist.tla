------------------------------ MODULE Watchlist ------------------------------
(***************************************************************************)
(* The watchlist poller (internal/watchlist/watchlist.go): it fetches the  *)
(* approved requests from Jellyseerr, adds a torrent for each through      *)
(* debrid.Engine.AddBest, and records in table requests what it did.       *)
(*                                                                         *)
(* There is one poller and it handles one request at a time, so what can   *)
(* go wrong is between the steps: a provider that does what it is asked    *)
(* and whose answer is lost, provider.Client.Do that asks again, a         *)
(* statement that fails, a process that dies.  A step is one HTTP request  *)
(* or one SQL statement.                                                   *)
(*                                                                         *)
(* Abstracted: seasons and episodes, which candidate is best, hints, the   *)
(* sync pass that follows an add (module CloudSync), waiting and pacing.   *)
(***************************************************************************)
EXTENDS Naturals

CONSTANTS
  Requests,      \* requests Jellyseerr lists: the newest 100
  Hopeless,      \* those among them for which nothing can ever be found
  Providers,     \* enabled providers: a subset of Provider
  MaxRetries,    \* 4 in the code
  MarkAvailable, \* option watchlist.mark_available
  MaxTorrents,   \* torrents of a request are counted up to this number
  NoRequest

Provider == {"realdebrid", "torbox"}

ASSUME ConstantsAssumption ==
  /\ Hopeless \subseteq Requests
  /\ Providers \subseteq Provider /\ Providers # {}
  /\ MaxRetries \in Nat
  /\ MarkAvailable \in BOOLEAN
  /\ MaxTorrents \in Nat /\ MaxTorrents > 2
  /\ NoRequest \notin Requests

VARIABLES
  \* Jellyseerr
  wanted,    \* requests that are approved and not completed
  ided,      \* requests whose media has an IMDb id
  available, \* requests whose media is marked available
  \* the provider
  torrents,  \* how many torrents it has created for a request
  served,    \* requests with a torrent whose files are selected
  \* on disk
  row,       \* status in table requests
  \* the poller
  pc,
  todo,      \* requests still to be processed in this poll
  known,     \* requests that had an IMDb id when they were fetched
  cur,       \* the request in hand
  prov,      \* the provider picked for it
  attempt,   \* Do's loop counter
  blind,     \* did reading table requests fail for it?
  calm       \* from here on nothing fails and nobody interferes

jelly == <<wanted, ided, available>>
cloud == <<torrents, served>>
hand == <<cur, prov, attempt, blind>>
vars == <<jelly, cloud, row, pc, todo, known, hand, calm>>

\* Steps at which the poller is adding a torrent for the request in hand.
Adding == {"pending", "search", "add", "select", "sync"}

TypeOK ==
  /\ wanted \subseteq Requests /\ ided \subseteq Requests
  /\ available \subseteq Requests /\ served \subseteq Requests
  /\ torrents \in [Requests -> 0 .. MaxTorrents]
  /\ row \in [Requests -> {"none", "pending", "failed", "added"}]
  /\ pc \in Adding \cup {"down", "idle", "poll", "fail", "record", "mark"}
  /\ todo \subseteq Requests /\ known \subseteq Requests
  /\ cur \in Requests \cup {NoRequest}
  /\ pc \in Adding \cup {"fail", "record", "mark"} => cur \in Requests
  /\ prov \in Providers
  /\ attempt \in 0 .. MaxRetries
  /\ blind \in BOOLEAN /\ calm \in BOOLEAN

Init ==
  /\ wanted \in SUBSET Requests /\ ided \in SUBSET Requests
  /\ available = {} /\ served = {}
  /\ torrents = [r \in Requests |-> 0]
  /\ row = [r \in Requests |-> "none"]
  /\ pc = "idle" /\ todo = {} /\ known = {}
  /\ cur = NoRequest /\ prov \in Providers /\ attempt = 0 /\ blind = FALSE
  /\ calm = FALSE

------------------------------------------------------------------------------
(* poll: fetch, then one request after the other.  (The order of the        *)
(* listing is Jellyseerr's; any order here.)                                *)

FetchRequests ==
  /\ pc = "idle"
  /\ todo' = wanted /\ known' = ided
  /\ pc' = "poll"
  /\ UNCHANGED <<jelly, cloud, row, hand, calm>>

EndPoll ==
  /\ pc = "poll" /\ todo = {}
  /\ pc' = "idle"
  /\ UNCHANGED <<jelly, cloud, row, todo, known, hand, calm>>

\* Variant: looks for the other status that counts as handled, which nothing writes.
HandledDone(r) == row[r] = "done"

\* The other status that counts as handled, "done", is written by nothing.
Handled(r) == row[r] = "added"

\* process, up to its first branch.  When table requests cannot be read, the
\* request counts as new.
CheckTracked(r) ==
  /\ pc = "poll" /\ r \in todo
  /\ todo' = todo \ {r}
  /\ \E ok \in IF calm THEN {TRUE} ELSE BOOLEAN :
       IF ok /\ Handled(r)
       THEN UNCHANGED <<pc, cur, blind>>
       ELSE /\ cur' = r /\ blind' = ~ok
            /\ pc' = IF r \in known THEN "pending" ELSE "fail"
  /\ UNCHANGED <<jelly, cloud, row, known, prov, attempt, calm>>

\* UpsertRequest, whose error is only logged.
Track(r, status) ==
  \/ row' = [row EXCEPT ![r] = status]
  \/ ~calm /\ UNCHANGED row

TrackPending ==
  /\ pc = "pending"
  /\ Track(cur, "pending")
  /\ pc' = "search"
  /\ UNCHANGED <<jelly, cloud, todo, known, hand, calm>>

\* SearchTorrents can find a candidate.
Findable(r) == r \notin Hopeless

\* The best candidate names a provider that has it cached, or pickProvider chooses.
PickProvider == prov' \in Providers

\* AddBest, up to its first request to a provider.
Search ==
  /\ pc = "search"
  /\ \/ /\ Findable(cur)
        /\ PickProvider /\ attempt' = 0
        /\ pc' = "add"
     \/ /\ ~Findable(cur) \/ ~calm
        /\ pc' = "fail"
        /\ UNCHANGED <<prov, attempt>>
  /\ UNCHANGED <<jelly, cloud, row, todo, known, cur, blind, calm>>

------------------------------------------------------------------------------
(* Provider.AddMagnet over Client.Do.                                       *)

\* The provider does not look for an earlier torrent of the same magnet.
CreateTorrent ==
  torrents' = [torrents EXCEPT ![cur] =
                 IF @ < MaxTorrents THEN @ + 1 ELSE MaxTorrents - 1]

SelectFiles == served' = served \cup {cur}

\* What the request in hand asks of the provider: TorBox takes the magnet and
\* its files in one request, Real-Debrid in two.
Apply ==
  IF pc = "add"
  THEN /\ CreateTorrent
       /\ IF prov = "torbox" THEN SelectFiles ELSE UNCHANGED served
  ELSE SelectFiles /\ UNCHANGED torrents

\* Variant: does not select Real-Debrid's files.
AnsweredInOne ==
  /\ Apply
  /\ attempt' = 0
  /\ pc' = "sync"

\* A usable answer.
Answered ==
  /\ Apply
  /\ attempt' = 0
  /\ pc' = IF pc = "add" /\ prov = "realdebrid" THEN "select" ELSE "sync"

\* An answer that is final and no success: a 4xx, or a body cut short.
Refused ==
  /\ Apply \/ UNCHANGED cloud
  /\ pc' = "fail" /\ UNCHANGED attempt

\* Variant: counts one retry too many.
UnansweredOnceMore ==
  /\ Apply \/ UNCHANGED cloud
  /\ IF attempt <= MaxRetries
     THEN attempt' = attempt + 1 /\ UNCHANGED pc
     ELSE pc' = "fail" /\ UNCHANGED attempt

\* Do: no answer, a 429 or a 5xx.  The request may have been carried out all the
\* same, and is sent again.
Unanswered ==
  /\ Apply \/ UNCHANGED cloud
  /\ IF attempt < MaxRetries
     THEN attempt' = attempt + 1 /\ UNCHANGED pc
     ELSE pc' = "fail" /\ UNCHANGED attempt

\* Do: the limiter's budget is exceeded, or the context is done.
GiveUp ==
  /\ pc' = "fail" /\ UNCHANGED <<cloud, attempt>>

AddMagnet ==
  /\ pc \in {"add", "select"}
  /\ Answered \/ (~calm /\ (Refused \/ Unanswered \/ GiveUp))
  /\ UNCHANGED <<jelly, row, todo, known, cur, prov, blind, calm>>

\* Engine.AddMagnet after the provider's part: whether the torrent was cached,
\* its hint, and a sync pass.  None of their errors is returned.
SyncAdded ==
  /\ pc = "sync"
  /\ pc' = "record"
  /\ UNCHANGED <<jelly, cloud, row, todo, known, hand, calm>>

------------------------------------------------------------------------------
(* process, after AddBest.                                                  *)

\* Variant: a request that fails ends the poll.
FailPoll ==
  /\ pc = "fail"
  /\ Track(cur, "failed")
  /\ pc' = "idle" /\ todo' = {}
  /\ UNCHANGED <<jelly, cloud, known, hand, calm>>

TrackFailed ==
  /\ pc = "fail"
  /\ Track(cur, "failed")
  /\ pc' = "poll"
  /\ UNCHANGED <<jelly, cloud, todo, known, hand, calm>>

TrackAdded ==
  /\ pc = "record"
  /\ Track(cur, "added")
  /\ pc' = IF MarkAvailable THEN "mark" ELSE "poll"
  /\ UNCHANGED <<jelly, cloud, todo, known, hand, calm>>

\* markAvailable is tried once.
MarkMedia ==
  /\ pc = "mark"
  /\ \/ available' = available \cup {cur}
     \/ ~calm /\ UNCHANGED available
  /\ pc' = "poll"
  /\ UNCHANGED <<wanted, ided, cloud, row, todo, known, hand, calm>>

Poller ==
  \/ FetchRequests \/ EndPoll \/ TrackPending \/ Search
  \/ AddMagnet \/ SyncAdded \/ TrackFailed \/ TrackAdded \/ MarkMedia
  \/ \E r \in Requests : CheckTracked(r)

------------------------------------------------------------------------------
(* Everything else.                                                         *)

\* A request is approved, declined or completed.
Review(r) ==
  /\ ~calm
  /\ wanted' = IF r \in wanted THEN wanted \ {r} ELSE wanted \cup {r}
  /\ UNCHANGED <<ided, available, cloud, row, pc, todo, known, hand, calm>>

\* Media is refreshed and gets its IMDb id.
Identify(r) ==
  /\ ~calm /\ r \notin ided
  /\ ided' = ided \cup {r}
  /\ UNCHANGED <<wanted, available, cloud, row, pc, todo, known, hand, calm>>

\* The process dies: killed, or returning from main after a signal, while the
\* poller was wherever it was.
Stop ==
  /\ ~calm /\ pc # "down"
  /\ pc' = "down" /\ todo' = {} /\ known' = {}
  /\ cur' = NoRequest /\ attempt' = 0 /\ blind' = FALSE
  /\ UNCHANGED <<jelly, cloud, row, prov, calm>>

Restart ==
  /\ pc = "down" /\ pc' = "idle"
  /\ UNCHANGED <<jelly, cloud, row, todo, known, hand, calm>>

CalmDown ==
  /\ ~calm /\ calm' = TRUE
  /\ UNCHANGED <<jelly, cloud, row, pc, todo, known, hand>>

Next ==
  \/ Poller \/ Stop \/ Restart \/ CalmDown
  \/ \E r \in Requests : Review(r) \/ Identify(r)

Spec == Init /\ [][Next]_vars

\* The poller's goroutine runs, its ticker ticks, and a stopped server is started
\* again.
FairSpec == Spec /\ WF_vars(Poller) /\ WF_vars(Restart)

------------------------------------------------------------------------------
(* Properties.                                                              *)

\* What the poller tells, in its table or to Jellyseerr, is so: a request is
\* called added or marked available only when a torrent was created for it whose
\* files the provider was told to fetch.
ToldIsServed == \A r \in Requests : row[r] = "added" \/ r \in available => r \in served

\* A request recorded as added is never added again, through restarts and later
\* polls, unless reading table requests failed this time (process then goes on
\* as if the request were new).
NoSecondAdd ==
  [][\A r \in Requests : torrents[r] > 0 /\ torrents'[r] # torrents[r]
        => row[r] # "added" \/ blind]_vars

\* The doc of process, "tracking state in the store so it never double-adds", taken at
\* its word.
NeverDoubleAdds == \A r \in Requests : torrents[r] <= 1

\* Once nothing fails any more, every approved request that is not yet recorded is
\* added for good and marked available, whatever happened to it before, and
\* even if other requests fail in every poll.
Fulfilled(r) == row[r] = "added" /\ (MarkAvailable => r \in available)

RequestsSettle ==
  \A r \in Requests \ Hopeless :
    calm /\ r \in wanted \cap ided /\ row[r] # "added" ~> []Fulfilled(r)
------------------------------------------------------------------------------
(* The inductive invariant of WatchlistProofs.                               *)

\* The poller is adding a request it found not to be recorded, or it could not look.
AddsWhatIsNew ==
  pc \in {"pending", "search", "add"} => row[cur] # "added" \/ blind

\* AddBest has returned without an error: the request has its torrent.
AddedIsServed == pc \in {"sync", "record", "mark"} => cur \in served

IInv == TypeOK /\ AddsWhatIsNew /\ AddedIsServed /\ ToldIsServed

\* The state in which RequestsSettle is done with a request: it is recorded, and the
\* poller no longer has it in hand.
Settled(r) ==
  /\ calm /\ Fulfilled(r)
  /\ pc \in Adding \cup {"fail", "record", "mark"} => cur # r

=============================================================================
