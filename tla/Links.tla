-------------------------------- MODULE Links --------------------------------
(***************************************************************************)
(* The CDN link of one file: table link_cache (internal/store/store.go),   *)
(* the resolver that fills it (internal/stream/resolver.go) and everybody  *)
(* who asks: players that are redirected (ServeHTTP), the page's "Save"    *)
(* (downloadFile in internal/web/local.go) and the download manager (fetch *)
(* in internal/download/download.go).                                      *)
(*                                                                         *)
(* Each asks on a goroutine of its own, and nothing but the row is shared: *)
(* two may miss the cache and ask the provider side by side, and one may   *)
(* drop the row while another is about to write it.  The keys of the table *)
(* have nothing to do with each other, so there is one.                    *)
(*                                                                         *)
(* Time is counted in ticks.  A link knows its age, what the provider said *)
(* of it (claim) and what is left of the expiry the resolver gave it       *)
(* (ttl).  Whether the CDN still serves it (live) only a request can tell. *)
(* Abstracted: the URL, signatures, the transfer (module KeepLocal).       *)
(***************************************************************************)
EXTENDS Integers, FiniteSets

CONSTANTS
  Players, Browsers, Workers,   \* who asks
  MaxAttempts,                  \* tries of a worker
  MinTTL, DefaultTTL, MaxTTL,   \* 5 minutes, 1 hour, 24 hours
  Claims,                       \* lifetimes a provider may state; 0: none, or past
  MaxDelay,                     \* ticks a link is at most on its way into the table
  NoLink

Clients == Players \cup Browsers \cup Workers

ASSUME ConstantsAssumption ==
  /\ Players \cap (Browsers \cup Workers) = {} /\ Browsers \cap Workers = {}
  /\ MaxAttempts \in Nat \ {0}
  /\ MinTTL \in Nat /\ DefaultTTL \in Nat /\ MaxTTL \in Nat
  /\ 0 < MinTTL /\ MinTTL =< DefaultTTL /\ DefaultTTL =< MaxTTL
  /\ Claims \subseteq Nat
  /\ MaxDelay \in Nat

\* Tries of one call: a player is redirected once, a page retries once.
Attempts(x) ==
  IF x \in Workers THEN MaxAttempts ELSE IF x \in Browsers THEN 2 ELSE 1

Old == MaxTTL + 1       \* ages above MaxTTL are all alike
Expired == -1           \* and so are links past their expiry

Link == [live : BOOLEAN, age : 0..Old, claim : Claims, ttl : Expired..MaxTTL]

ASSUME NoLinkAssumption == NoLink \notin Link

VARIABLES
  row,     \* the row of link_cache, if it has not expired
  pc,      \* per client, the step it is at
  left,    \* tries it has left, this one included
  got,     \* the link it has from the provider, not yet stored
  alive,   \* is the link it uses served?
  sure,    \* workers whose call began once nothing failed any more
  calm     \* from now on no failures and no links withdrawn

vars == <<row, pc, left, got, alive, sure, calm>>

PC == {"idle", "look", "ask", "put", "use", "drop", "wait"}

TypeOK ==
  /\ row \in Link \cup {NoLink}
  /\ row # NoLink => row.ttl # Expired
  /\ pc \in [Clients -> PC]
  /\ left \in [Clients -> Nat]
  /\ \A x \in Clients : left[x] =< Attempts(x) /\ (pc[x] # "idle" => left[x] > 0)
  /\ got \in [Clients -> Link \cup {NoLink}]
  /\ \A x \in Clients : got[x] \in Link <=> pc[x] = "put"
  /\ alive \in [Clients -> BOOLEAN]
  /\ sure \subseteq Workers
  /\ calm \in BOOLEAN

Init ==
  /\ row = NoLink
  /\ pc = [x \in Clients |-> "idle"]
  /\ left = [x \in Clients |-> 0]
  /\ got = [x \in Clients |-> NoLink]
  /\ alive = [x \in Clients |-> FALSE]
  /\ sure = {}
  /\ calm = FALSE

-----------------------------------------------------------------------------
(* As in the other modules, an operator whose name says what it does wrong   *)
(* is a variant no specification uses.                                       *)

Goto(x, where) == pc' = [pc EXCEPT ![x] = where]

\* The call is over, whatever came of it.
Finish(x) ==
  /\ Goto(x, "idle")
  /\ left' = [left EXCEPT ![x] = 0]
  /\ alive' = [alive EXCEPT ![x] = FALSE]
  /\ sure' = sure \ {x}

\* A try failed: a worker waits for the next one, the others give up.
TryFailed(x) ==
  IF x \in Workers /\ left[x] > 1
    THEN /\ Goto(x, "wait")
         /\ left' = [left EXCEPT ![x] = @ - 1]
         /\ alive' = [alive EXCEPT ![x] = FALSE]
         /\ UNCHANGED sure
    ELSE Finish(x)

-----------------------------------------------------------------------------
(* Resolver.                                                                 *)

\* A request or a job comes to need the link.
Call(x) ==
  /\ pc[x] = "idle"
  /\ Goto(x, "look")
  /\ left' = [left EXCEPT ![x] = Attempts(x)]
  /\ sure' = IF calm THEN sure \cup ({x} \cap Workers) ELSE sure
  /\ UNCHANGED <<row, got, alive, calm>>

\* GetLink: expires_at is a whole second, and a link is fresh until that second,
\* in which only its very beginning counts: either may happen.
Fresh == row # NoLink
Stale == row # NoLink => row.ttl = 0

HitRenews(x) ==
  /\ pc[x] = "look" /\ Fresh
  /\ Goto(x, "use")
  /\ alive' = [alive EXCEPT ![x] = row.live]
  /\ row' = [row EXCEPT !.ttl = MinTTL, !.age = 0]
  /\ UNCHANGED <<left, got, sure, calm>>

Hit(x) ==
  /\ pc[x] = "look" /\ Fresh
  /\ Goto(x, "use")
  /\ alive' = [alive EXCEPT ![x] = row.live]
  /\ UNCHANGED <<row, left, got, sure, calm>>

\* A failed query counts as a miss.
Miss(x) ==
  /\ pc[x] = "look" /\ (Stale \/ ~calm)
  /\ Goto(x, "ask")
  /\ UNCHANGED <<row, left, got, alive, sure, calm>>

\* clampExpiry.
Clamp(t) == IF t < MinTTL THEN MinTTL ELSE IF t > MaxTTL THEN MaxTTL ELSE t

LifetimeUnclamped(c) == IF c = 0 THEN DefaultTTL ELSE c

\* The lifetime resolve gives a link of which the provider says c.
Lifetime(c) == Clamp(IF c = 0 THEN DefaultTTL ELSE c)

Issued(c) == [live |-> TRUE, age |-> 0, claim |-> c, ttl |-> Lifetime(c)]

\* FileLink: the provider answers with a link that works.
FileLink(x) ==
  /\ pc[x] = "ask"
  /\ \E c \in Claims : got' = [got EXCEPT ![x] = Issued(c)]
  /\ Goto(x, "put")
  /\ UNCHANGED <<row, left, alive, sure, calm>>

\* FileLink fails: so does the try.  (downloadFile does not try again.)
FileLinkFails(x) ==
  /\ pc[x] = "ask" /\ ~calm
  /\ TryFailed(x)
  /\ UNCHANGED <<row, got, calm>>

PutFromNow(x) ==
  /\ pc[x] = "put"
  /\ row' = [got[x] EXCEPT !.ttl = Lifetime(got[x].claim)]
  /\ alive' = [alive EXCEPT ![x] = got[x].live]
  /\ got' = [got EXCEPT ![x] = NoLink]
  /\ Goto(x, "use")
  /\ UNCHANGED <<left, sure, calm>>

\* A row past its expiry is as good as none: GetLink passes it over, PutLink
\* replaces it.
Unexpired(l) == IF l # NoLink /\ l.ttl = Expired THEN NoLink ELSE l

\* PutLink writes the row, whatever has become of it since the look; when it
\* fails the link is used all the same.
PutLink(x) ==
  /\ pc[x] = "put"
  /\ row' = Unexpired(got[x]) \/ (~calm /\ row' = row)
  /\ alive' = [alive EXCEPT ![x] = got[x].live]
  /\ got' = [got EXCEPT ![x] = NoLink]
  /\ Goto(x, "use")
  /\ UNCHANGED <<left, sure, calm>>

-----------------------------------------------------------------------------
(* What the link is used for.                                                *)

\* The player is redirected; what it finds there the server never learns.
Redirect(x) ==
  /\ x \in Players /\ pc[x] = "use"
  /\ Finish(x)
  /\ UNCHANGED <<row, got, calm>>

\* The CDN serves the file: to a worker as well as to a page.  (A worker whose
\* part is complete already does not even ask.)
Transfer(x) ==
  /\ x \notin Players /\ pc[x] = "use"
  /\ alive[x] \/ x \in Workers
  /\ Finish(x)
  /\ UNCHANGED <<row, got, calm>>

\* The transfer breaks, or the CDN answers with anything but a refusal.
TransferFails(x) ==
  /\ x \notin Players /\ pc[x] = "use" /\ ~calm
  /\ TryFailed(x)
  /\ UNCHANGED <<row, got, calm>>

\* HTTP 401, 403, 404 or 410.
Rejected(x) ==
  /\ x \notin Players /\ pc[x] = "use" /\ ~alive[x]
  /\ Goto(x, "drop")
  /\ UNCHANGED <<row, left, got, alive, sure, calm>>

InvalidateNothing(x) ==
  /\ pc[x] = "drop"
  /\ IF x \in Browsers /\ left[x] > 1
       THEN /\ Goto(x, "look")
            /\ left' = [left EXCEPT ![x] = @ - 1]
            /\ UNCHANGED <<alive, sure>>
       ELSE TryFailed(x)
  /\ UNCHANGED <<row, got, calm>>

\* Invalidate deletes the row, whichever link it holds by now; a page tries
\* again at once.
Invalidate(x) ==
  /\ pc[x] = "drop"
  /\ row' = NoLink \/ (~calm /\ row' = row)
  /\ IF x \in Browsers /\ left[x] > 1
       THEN /\ Goto(x, "look")
            /\ left' = [left EXCEPT ![x] = @ - 1]
            /\ UNCHANGED <<alive, sure>>
       ELSE TryFailed(x)
  /\ UNCHANGED <<got, calm>>

\* retryBackoff is over.
TryAgain(x) ==
  /\ pc[x] = "wait"
  /\ Goto(x, "look")
  /\ UNCHANGED <<row, left, got, alive, sure, calm>>

ClientStep(x) ==
  \/ Hit(x) \/ Miss(x) \/ FileLink(x) \/ FileLinkFails(x) \/ PutLink(x)
  \/ Redirect(x) \/ Transfer(x) \/ TransferFails(x) \/ Rejected(x)
  \/ Invalidate(x) \/ TryAgain(x)

-----------------------------------------------------------------------------
(* The environment.                                                          *)

\* The request is gone or the job removed: its statements and requests fail.
Leave(x) ==
  /\ pc[x] # "idle" /\ ~calm
  /\ Finish(x)
  /\ got' = [got EXCEPT ![x] = NoLink]
  /\ UNCHANGED <<row, calm>>

\* The CDN serves none of the links issued so far any longer.
Dead(l) == IF l = NoLink THEN l ELSE [l EXCEPT !.live = FALSE]

Withdraw ==
  /\ ~calm
  /\ row' = Dead(row)
  /\ got' = [x \in Clients |-> Dead(got[x])]
  /\ alive' = [x \in Clients |-> FALSE]
  /\ UNCHANGED <<pc, left, sure, calm>>

Older(l) ==
  IF l = NoLink THEN l
  ELSE [l EXCEPT !.age = IF @ = Old THEN Old ELSE @ + 1,
                 !.ttl = IF @ = Expired THEN Expired ELSE @ - 1]

Tick ==
  /\ \A x \in Clients : got[x] # NoLink => got[x].age < MaxDelay
  /\ row' = Unexpired(Older(row))
  /\ got' = [x \in Clients |-> Older(got[x])]
  /\ UNCHANGED <<pc, left, alive, sure, calm>>

\* The server dies and starts again: table link_cache is on disk.
Restart ==
  /\ ~calm
  /\ pc' = [x \in Clients |-> "idle"]
  /\ left' = [x \in Clients |-> 0]
  /\ got' = [x \in Clients |-> NoLink]
  /\ alive' = [x \in Clients |-> FALSE]
  /\ sure' = {}
  /\ UNCHANGED <<row, calm>>

BecomeCalm ==
  /\ ~calm
  /\ calm' = TRUE
  /\ UNCHANGED <<row, pc, left, got, alive, sure>>

Next ==
  \/ \E x \in Clients : Call(x) \/ ClientStep(x) \/ Leave(x)
  \/ Withdraw \/ Tick \/ Restart \/ BecomeCalm

Spec == Init /\ [][Next]_vars

\* Goroutines run on, providers and the CDN answer, and time passes.
Fairness ==
  /\ \A x \in Clients : WF_vars(ClientStep(x))
  /\ WF_vars(Tick)

FairSpec == Spec /\ Fairness

-----------------------------------------------------------------------------
(* What is promised.                                                         *)

\* A cached link is handed out for a day at most, and beyond what the provider
\* said of it (an hour, if it said nothing) only in its first five minutes:
\* resolve's expiry counts from FileLink's answer, however long the link was on
\* its way into the table and whoever wrote the row before.
HandedInTime ==
  [][\A x \in Clients : pc[x] = "look" /\ pc'[x] = "use" =>
       /\ row.age =< MaxTTL
       /\ \/ row.age =< MinTTL
          \/ row.age =< row.claim
          \/ row.claim = 0 /\ row.age =< DefaultTTL]_vars

\* "Next attempt gets a fresh one" (download.go:503) is not so when another
\* client stores a link it was given before.  But each of the others can do
\* that once: with fewer clients than attempts, no download that begins after
\* the last failure is given up over rejected links.
WorkersGetThrough ==
  [][\A x \in sure : pc[x] = "drop" => pc'[x] # "idle"]_vars

\* A withdrawn link goes away by itself, although no player ever reports it and
\* late writes may bring it back: once no more links are withdrawn, all that is
\* handed out is served.
AllServed == \A x \in Clients : pc[x] = "use" => alive[x]

RejectionsEnd == <>calm => <>[]AllServed

-----------------------------------------------------------------------------
(* The inductive invariant of LinksProofs.                                   *)

\* What is left of a link's expiry and its age make up what resolve gave it.
AgesAddUp ==
  \A l \in {row} \cup {got[x] : x \in Clients} :
    l # NoLink /\ l.ttl # Expired => l.age + l.ttl =< Lifetime(l.claim)

\* Clients that are about to store a link no longer served.
Late(x) == {y \in Clients \ {x} : pc[y] = "put" /\ ~got[y].live}

DeadRow == row # NoLink /\ ~row.live

\* Each of the tries a worker may still lose to a rejected link is covered: one for the
\* row, and one for each client that may store a dead one.
TriesSuffice ==
  \A x \in sure :
    /\ calm /\ pc[x] # "idle"
    /\ pc[x] = "put" => got[x].live
    /\ pc[x] \in {"look", "wait"} =>
         left[x] > Cardinality(Late(x)) + (IF DeadRow THEN 1 ELSE 0)
    /\ pc[x] = "drop" \/ (pc[x] = "use" /\ ~alive[x]) =>
         left[x] > Cardinality(Late(x)) + 1

IInv == TypeOK /\ AgesAddUp /\ TriesSuffice

\* The state in which RejectionsEnd is done: no dead link is left in the table, on
\* its way there or in use.
NoneLeft ==
  /\ calm /\ ~DeadRow /\ AllServed
  /\ \A x \in Clients : pc[x] = "put" => got[x].live
=============================================================================
