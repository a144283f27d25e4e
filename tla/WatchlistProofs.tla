--------------------------- MODULE WatchlistProofs ---------------------------
(***************************************************************************)
(* Theorems about Watchlist, for any set of requests, any providers and    *)
(* any number of retries.  They rest on ConstantsAssumption alone.         *)
(***************************************************************************)
EXTENDS Watchlist, TLAPS

------------------------------------------------------------------------------
(* Types.                                                                    *)

\* The initial states have the right types.
LEMMA InitTypes == Init => TypeOK
<1>1. 0 \in 0 .. MaxRetries /\ 0 \in 0 .. MaxTorrents
  BY ConstantsAssumption
<1>2. QED BY <1>1 DEF Init, TypeOK, Adding

\* Wherever a torrent is counted, the count stays within its bound.
LEMMA CountsStay ==
  ASSUME TypeOK, cur \in Requests, CreateTorrent
  PROVE  torrents' \in [Requests -> 0 .. MaxTorrents]
BY ConstantsAssumption DEF TypeOK, CreateTorrent

\* A request to the provider leaves the counts and the served requests well-typed.
LEMMA ApplyTypes ==
  ASSUME TypeOK, cur \in Requests, Apply \/ UNCHANGED cloud
  PROVE  /\ torrents' \in [Requests -> 0 .. MaxTorrents]
         /\ served' \subseteq Requests
         /\ served \subseteq served'
<1>1. CASE Apply
  <2>1. CASE pc = "add"
    BY <1>1, <2>1, CountsStay DEF Apply, SelectFiles, TypeOK
  <2>2. CASE pc # "add"
    BY <1>1, <2>2 DEF Apply, SelectFiles, TypeOK
  <2>3. QED BY <2>1, <2>2
<1>2. CASE UNCHANGED cloud
  BY <1>2 DEF cloud, TypeOK
<1>3. QED BY <1>1, <1>2

\* A step that adds a magnet keeps every type.
LEMMA AddMagnetTypes ==
  ASSUME TypeOK, AddMagnet
  PROVE  TypeOK'
<1>1. cur \in Requests
  BY DEF AddMagnet, Adding, TypeOK
<1>2. Apply \/ UNCHANGED cloud
  BY DEF AddMagnet, Answered, Refused, Unanswered, GiveUp
<1>3. /\ torrents' \in [Requests -> 0 .. MaxTorrents]
      /\ served' \subseteq Requests
  BY <1>1, <1>2, ApplyTypes
<1>4. /\ attempt' \in 0 .. MaxRetries
      /\ pc' \in {"add", "select", "sync", "fail"}
  BY ConstantsAssumption
  DEF AddMagnet, Answered, Refused, Unanswered, GiveUp, TypeOK
<1>5. UNCHANGED <<jelly, row, todo, known, cur, prov, blind, calm>>
  BY DEF AddMagnet
<1>6. QED BY <1>1, <1>3, <1>4, <1>5 DEF TypeOK, Adding, jelly

\* Recording a status keeps the table's type.
LEMMA TrackTypes ==
  ASSUME TypeOK, NEW r \in Requests, NEW s \in {"pending", "failed", "added"},
         Track(r, s)
  PROVE  row' \in [Requests -> {"none", "pending", "failed", "added"}]
BY DEF Track, TypeOK

\* Every step of the poller keeps every type.
LEMMA PollerTypes ==
  ASSUME TypeOK, Poller
  PROVE  TypeOK'
<1>1. CASE FetchRequests
  BY <1>1 DEF FetchRequests, TypeOK, Adding, jelly, cloud, hand
<1>2. CASE EndPoll
  BY <1>2 DEF EndPoll, TypeOK, Adding, jelly, cloud, hand
<1>3. CASE TrackPending
  <2>1. cur \in Requests
    BY <1>3 DEF TrackPending, TypeOK, Adding
  <2>2. row' \in [Requests -> {"none", "pending", "failed", "added"}]
    BY <1>3, <2>1, TrackTypes DEF TrackPending
  <2>3. QED BY <1>3, <2>1, <2>2 DEF TrackPending, TypeOK, Adding, jelly, cloud, hand
<1>4. CASE Search
  <2>1. 0 \in 0 .. MaxRetries
    BY ConstantsAssumption
  <2>2. QED BY <1>4, <2>1 DEF Search, PickProvider, TypeOK, Adding, jelly, cloud
<1>5. CASE AddMagnet
  BY <1>5, AddMagnetTypes
<1>6. CASE SyncAdded
  BY <1>6 DEF SyncAdded, TypeOK, Adding, jelly, cloud, hand
<1>7. CASE TrackFailed
  <2>1. cur \in Requests
    BY <1>7 DEF TrackFailed, TypeOK
  <2>2. row' \in [Requests -> {"none", "pending", "failed", "added"}]
    BY <1>7, <2>1, TrackTypes DEF TrackFailed
  <2>3. QED BY <1>7, <2>2 DEF TrackFailed, TypeOK, Adding, jelly, cloud, hand
<1>8. CASE TrackAdded
  <2>1. cur \in Requests
    BY <1>8 DEF TrackAdded, TypeOK
  <2>2. row' \in [Requests -> {"none", "pending", "failed", "added"}]
    BY <1>8, <2>1, TrackTypes DEF TrackAdded
  <2>3. QED BY <1>8, <2>1, <2>2 DEF TrackAdded, TypeOK, Adding, jelly, cloud, hand
<1>9. CASE MarkMedia
  BY <1>9 DEF MarkMedia, TypeOK, Adding, cloud, hand
<1>10. CASE \E r \in Requests : CheckTracked(r)
  BY <1>10 DEF CheckTracked, TypeOK, Adding, jelly, cloud
<1>11. QED
  BY <1>1, <1>2, <1>3, <1>4, <1>5, <1>6, <1>7, <1>8, <1>9, <1>10 DEF Poller

\* The environment's steps keep every type.
LEMMA EnvironmentTypes ==
  ASSUME TypeOK,
         \/ Stop \/ Restart \/ CalmDown
         \/ \E r \in Requests : Review(r) \/ Identify(r)
  PROVE  TypeOK'
<1>1. CASE Stop
  <2>1. 0 \in 0 .. MaxRetries
    BY ConstantsAssumption
  <2>2. QED BY <1>1, <2>1 DEF Stop, TypeOK, Adding, jelly, cloud
<1>2. CASE Restart
  BY <1>2 DEF Restart, TypeOK, Adding, jelly, cloud, hand
<1>3. CASE CalmDown
  BY <1>3 DEF CalmDown, TypeOK, jelly, cloud, hand
<1>4. CASE \E r \in Requests : Review(r) \/ Identify(r)
  BY <1>4 DEF Review, Identify, TypeOK, cloud, hand
<1>5. QED BY <1>1, <1>2, <1>3, <1>4

\* Every variable keeps its type: process never works without a request in hand, and
\* Do's counter never passes MaxRetries.
THEOREM TypeCorrect == Spec => []TypeOK
<1>1. Init => TypeOK
  BY InitTypes
<1>2. TypeOK /\ [Next]_vars => TypeOK'
  <2>1. SUFFICES ASSUME TypeOK, [Next]_vars PROVE TypeOK'
    OBVIOUS
  <2>2. CASE UNCHANGED vars
    BY <2>1, <2>2 DEF TypeOK, vars, jelly, cloud, hand
  <2>3. CASE Next
    BY <2>1, <2>3, PollerTypes, EnvironmentTypes DEF Next
  <2>4. QED BY <2>1, <2>2, <2>3
<1>3. QED BY <1>1, <1>2, PTL DEF Spec

------------------------------------------------------------------------------
(* The rest of the inductive invariant.                                      *)

\* Every step of the poller keeps it.
LEMMA PollerSafe ==
  ASSUME IInv, Poller
  PROVE  AddsWhatIsNew' /\ AddedIsServed' /\ ToldIsServed'
<1> USE DEF IInv, AddsWhatIsNew, AddedIsServed, ToldIsServed
<1>1. CASE FetchRequests
  BY <1>1 DEF FetchRequests, jelly, cloud
<1>2. CASE EndPoll
  BY <1>2 DEF EndPoll, jelly, cloud
<1>3. CASE TrackPending
  BY <1>3 DEF TrackPending, Track, TypeOK, Adding, jelly, cloud, hand
<1>4. CASE Search
  BY <1>4 DEF Search, jelly, cloud
<1>5. CASE AddMagnet
  <2>1. /\ cur \in Requests /\ UNCHANGED <<row, cur, blind, available>>
        /\ pc \in {"add", "select"}
    BY <1>5 DEF AddMagnet, TypeOK, Adding, jelly
  <2>2. Apply \/ UNCHANGED cloud
    BY <1>5 DEF AddMagnet, Answered, Refused, Unanswered, GiveUp
  <2>3. served \subseteq served'
    BY <2>1, <2>2, ApplyTypes
  <2>4. pc' = "add" => pc = "add"
    BY <1>5 DEF AddMagnet, Answered, Refused, Unanswered, GiveUp
  <2>5. pc' = "sync" => cur \in served'
    <3>1. SUFFICES ASSUME pc' = "sync" PROVE cur \in served'
      OBVIOUS
    <3>2. Answered
      BY <1>5, <2>1, <3>1 DEF AddMagnet, Refused, Unanswered, GiveUp
    <3>3. pc = "select" \/ prov = "torbox"
      BY <2>1, <3>1, <3>2, ConstantsAssumption DEF Answered, TypeOK, Provider
    <3>4. QED BY <2>1, <3>2, <3>3 DEF Answered, Apply, SelectFiles
  <2>6. pc' \in {"add", "select", "sync", "fail"}
    BY <1>5 DEF AddMagnet, Answered, Refused, Unanswered, GiveUp
  <2>7. QED BY <2>1, <2>3, <2>4, <2>5, <2>6
<1>6. CASE SyncAdded
  BY <1>6 DEF SyncAdded, jelly, cloud, hand
<1>7. CASE TrackFailed
  BY <1>7 DEF TrackFailed, Track, TypeOK, jelly, cloud
<1>8. CASE TrackAdded
  BY <1>8 DEF TrackAdded, Track, TypeOK, jelly, cloud, hand
<1>9. CASE MarkMedia
  BY <1>9 DEF MarkMedia, cloud
<1>10. CASE \E r \in Requests : CheckTracked(r)
  BY <1>10 DEF CheckTracked, Handled, jelly, cloud
<1>11. QED
  BY <1>1, <1>2, <1>3, <1>4, <1>5, <1>6, <1>7, <1>8, <1>9, <1>10 DEF Poller

\* IInv is inductive.
LEMMA InductiveInvariant == Spec => []IInv
<1>1. Init => AddsWhatIsNew /\ AddedIsServed /\ ToldIsServed
  BY DEF Init, AddsWhatIsNew, AddedIsServed, ToldIsServed
<1>2. IInv /\ TypeOK' /\ [Next]_vars => AddsWhatIsNew' /\ AddedIsServed' /\ ToldIsServed'
  <2>1. SUFFICES ASSUME IInv, [Next]_vars
                 PROVE  AddsWhatIsNew' /\ AddedIsServed' /\ ToldIsServed'
    OBVIOUS
  <2>2. CASE Poller
    BY <2>1, <2>2, PollerSafe
  <2>3. CASE \/ Stop \/ Restart \/ CalmDown \/ UNCHANGED vars
             \/ \E r \in Requests : Review(r) \/ Identify(r)
    BY <2>1, <2>3
    DEF Stop, Restart, CalmDown, Review, Identify, vars, jelly, cloud, hand,
        IInv, AddsWhatIsNew, AddedIsServed, ToldIsServed
  <2>4. QED BY <2>1, <2>2, <2>3 DEF Next
<1>3. Init => TypeOK
  BY InitTypes
<1>4. QED BY <1>1, <1>2, <1>3, TypeCorrect, PTL DEF Spec, IInv

------------------------------------------------------------------------------
(* What it gives.                                                            *)

\* A request is called added, or marked available, only when it has a torrent whose
\* files were selected.
THEOREM ToldMeansServed == Spec => []ToldIsServed
<1>1. IInv => ToldIsServed
  BY DEF IInv
<1>2. QED BY <1>1, InductiveInvariant, PTL

\* A recorded request is never added again, unless its row could not be read.
THEOREM RecordedIsNotAddedAgain == Spec => NoSecondAdd
<1> DEFINE Step == \A r \in Requests : torrents[r] > 0 /\ torrents'[r] # torrents[r]
                     => row[r] # "added" \/ blind
<1>1. IInv /\ [Next]_vars => [Step]_vars
  <2>1. SUFFICES ASSUME IInv, Next PROVE Step
    OBVIOUS
  <2>2. CASE UNCHANGED torrents
    BY <2>2
  <2>3. CASE AddMagnet /\ pc = "add"
    <3>1. row[cur] # "added" \/ blind
      BY <2>1, <2>3 DEF IInv, AddsWhatIsNew
    <3>2. \A r \in Requests : r # cur => torrents'[r] = torrents[r]
      <4>1. CASE CreateTorrent
        BY <2>1, <4>1 DEF CreateTorrent, IInv, TypeOK
      <4>2. CASE UNCHANGED torrents
        BY <4>2
      <4>3. QED
        BY <2>3, <4>1, <4>2
        DEF AddMagnet, Answered, Refused, Unanswered, GiveUp, Apply, cloud
    <3>3. QED BY <3>1, <3>2
  <2>4. (AddMagnet /\ pc = "add") \/ UNCHANGED torrents
    <3>1. CASE AddMagnet /\ pc # "add"
      BY <3>1 DEF AddMagnet, Answered, Refused, Unanswered, GiveUp, Apply, cloud
    <3>2. CASE ~AddMagnet
      BY <2>1, <3>2
      DEF Next, Poller, FetchRequests, EndPoll, TrackPending, Search, SyncAdded,
          TrackFailed, TrackAdded, MarkMedia, CheckTracked, Review, Identify, Stop,
          Restart, CalmDown, cloud
    <3>3. QED BY <3>1, <3>2
  <2>5. QED BY <2>2, <2>3, <2>4
<1>2. QED BY <1>1, InductiveInvariant, PTL DEF Spec, NoSecondAdd

------------------------------------------------------------------------------
(* Requests that are settled.                                                *)

\* Once nothing fails any more, a recorded request the poller has not in hand is not
\* taken in hand again: reading its row succeeds and says "added".
LEMMA SettledStep ==
  ASSUME NEW r \in Requests, TypeOK, Settled(r), [Next]_vars
  PROVE  Settled(r)' /\ torrents'[r] = torrents[r]
<1>1. calm /\ row[r] = "added" /\ (MarkAvailable => r \in available)
  BY DEF Settled, Fulfilled
<1>2. pc \in Adding \cup {"fail", "record", "mark"} => cur # r
  BY DEF Settled
<1> SUFFICES /\ calm' /\ row'[r] = "added" /\ available \subseteq available'
             /\ pc' \in Adding \cup {"fail", "record", "mark"} => cur' # r
             /\ torrents'[r] = torrents[r]
  BY <1>1 DEF Settled, Fulfilled
<1>3. ASSUME NEW q \in Requests, CheckTracked(q)
      PROVE  /\ calm' /\ row' = row /\ available' = available /\ torrents' = torrents
             /\ pc' \in Adding \cup {"fail", "record", "mark"} => cur' # r
  <2>1. CASE q = r
    BY <1>1, <1>3, <2>1 DEF CheckTracked, Handled, jelly, cloud, Adding
  <2>2. CASE q # r
    BY <1>1, <1>2, <1>3, <2>2 DEF CheckTracked, jelly, cloud, Adding
  <2>3. QED BY <2>1, <2>2
<1>4. CASE FetchRequests \/ EndPoll \/ SyncAdded \/ Search
  BY <1>1, <1>2, <1>4
  DEF FetchRequests, EndPoll, SyncAdded, Search, Adding, jelly, cloud, hand
<1>5. CASE AddMagnet
  <2>1. cur # r /\ cur' = cur /\ calm' /\ row' = row /\ available' = available
    BY <1>1, <1>2, <1>5 DEF AddMagnet, Adding, jelly
  <2>2. torrents'[r] = torrents[r]
    BY <2>1, <1>1, <1>5 DEF AddMagnet, Answered, Apply, CreateTorrent, TypeOK
  <2>3. QED BY <1>1, <2>1, <2>2
<1>6. CASE TrackPending \/ TrackFailed \/ TrackAdded
  <2>1. /\ cur # r /\ cur' = cur /\ calm' /\ available' = available /\ torrents' = torrents
    BY <1>1, <1>2, <1>6 DEF TrackPending, TrackFailed, TrackAdded, Adding, jelly, cloud, hand
  <2>2. row'[r] = row[r]
    BY <2>1, <1>6 DEF TrackPending, TrackFailed, TrackAdded, Track, TypeOK
  <2>3. QED BY <1>1, <2>1, <2>2
<1>7. CASE MarkMedia
  BY <1>1, <1>2, <1>7 DEF MarkMedia, cloud, hand, Adding
<1>8. CASE Restart
  BY <1>1, <1>8 DEF Restart, Adding, jelly, cloud, hand
<1>9. CASE UNCHANGED vars
  BY <1>1, <1>2, <1>9 DEF vars, jelly, cloud, hand
<1>10. QED
  BY <1>1, <1>3, <1>4, <1>5, <1>6, <1>7, <1>8, <1>9
  DEF Next, Poller, Stop, CalmDown, Review, Identify

\* The safety half of RequestsSettle: a request that is settled stays recorded and
\* marked, and no torrent is ever created for it again, whatever the polls after it do.
THEOREM SettledForGood ==
  ASSUME NEW r \in Requests
  PROVE  Spec => [](Settled(r) => []Fulfilled(r) /\ [][torrents'[r] = torrents[r]]_vars)
<1>1. TypeOK /\ Settled(r) /\ [Next]_vars => Settled(r)'
  BY SettledStep
<1>2. Settled(r) => Fulfilled(r)
  BY DEF Settled
<1>3. TypeOK /\ Settled(r) /\ [Next]_vars => [torrents'[r] = torrents[r]]_vars
  BY SettledStep
<1>4. QED BY <1>1, <1>2, <1>3, TypeCorrect, PTL DEF Spec
=============================================================================
