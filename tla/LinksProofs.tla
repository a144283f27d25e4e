----------------------------- MODULE LinksProofs -----------------------------
(***************************************************************************)
(* Theorems about Links, for any clients, lifetimes and delays.  They rest *)
(* on ConstantsAssumption and NoLinkAssumption; WorkersArePatient also on  *)
(* the clients being fewer than a worker's tries.                          *)
(***************************************************************************)
EXTENDS Links, FiniteSetTheorems, TLAPS

------------------------------------------------------------------------------
(* Types.                                                                    *)

\* resolve's expiry is between five minutes and a day away.
LEMMA Lifetimes ==
  ASSUME NEW c \in Claims
  PROVE  /\ Lifetime(c) \in Nat /\ MinTTL =< Lifetime(c) /\ Lifetime(c) =< MaxTTL
         /\ \/ Lifetime(c) =< MinTTL
            \/ Lifetime(c) =< c
            \/ c = 0 /\ Lifetime(c) =< DefaultTTL
BY ConstantsAssumption DEF Lifetime, Clamp

\* What happens to a link leaves a link.
LEMMA LinkTypes ==
  ASSUME NEW l \in Link \cup {NoLink}
  PROVE  /\ Older(l) \in Link \cup {NoLink} /\ (l \in Link => Older(l) \in Link)
         /\ Dead(l) \in Link \cup {NoLink} /\ (l \in Link => Dead(l) \in Link)
         /\ Older(NoLink) = NoLink /\ Dead(NoLink) = NoLink
         /\ l \in Link =>
              /\ Older(l).live = l.live /\ Older(l).claim = l.claim
              /\ Older(l).age = IF l.age = Old THEN Old ELSE l.age + 1
              /\ Older(l).ttl = IF l.ttl = Expired THEN Expired ELSE l.ttl - 1
              /\ Dead(l).live = FALSE /\ Dead(l).claim = l.claim
              /\ Dead(l).age = l.age /\ Dead(l).ttl = l.ttl
<1>1. CASE l = NoLink
  BY <1>1, NoLinkAssumption DEF Older, Dead
<1>2. CASE l # NoLink
  <2>1. /\ l \in Link /\ l.live \in BOOLEAN /\ l.claim \in Claims
        /\ l.age \in 0 .. Old /\ l.ttl \in Expired .. MaxTTL
    BY <1>2 DEF Link
  <2>2. Old \in Nat /\ Old = MaxTTL + 1 /\ Expired = 0 - 1
    BY ConstantsAssumption DEF Old, Expired
  <2> DEFINE a == IF l.age = Old THEN Old ELSE l.age + 1
             t == IF l.ttl = Expired THEN Expired ELSE l.ttl - 1
  <2>3. a \in 0 .. Old /\ t \in Expired .. MaxTTL
    BY <2>1, <2>2, ConstantsAssumption
  <2>4. Older(l) = [l EXCEPT !.age = a, !.ttl = t]
    BY <1>2 DEF Older
  <2> HIDE DEF a, t
  <2>5. Older(l) \in Link /\ Older(l).live = l.live /\ Older(l).claim = l.claim
        /\ Older(l).age = a /\ Older(l).ttl = t
    BY <2>1, <2>3, <2>4 DEF Link
  <2>6. /\ Dead(l) \in Link /\ Dead(l).live = FALSE /\ Dead(l).claim = l.claim
        /\ Dead(l).age = l.age /\ Dead(l).ttl = l.ttl
    BY <1>2, <2>1 DEF Dead, Link
  <2>7. Older(NoLink) = NoLink /\ Dead(NoLink) = NoLink
    BY DEF Older, Dead
  <2>8. QED BY <2>5, <2>6, <2>7 DEF a, t
<1>3. QED BY <1>1, <1>2

\* The provider's link is one.
LEMMA IssuedType == ASSUME NEW c \in Claims PROVE Issued(c) \in Link
<1>1. 0 \in 0 .. Old /\ Lifetime(c) \in Expired .. MaxTTL
  BY Lifetimes, ConstantsAssumption DEF Old, Expired
<1>2. QED BY <1>1 DEF Issued, Link

\* The initial states have the right types.
LEMMA InitTypes == Init => TypeOK
<1>1. \A x \in Clients : Attempts(x) \in Nat
  BY ConstantsAssumption DEF Attempts
<1> SUFFICES ASSUME Init PROVE TypeOK
  OBVIOUS
<1>2. \A x \in Clients : left[x] = 0 /\ pc[x] = "idle" /\ got[x] = NoLink
  BY DEF Init
<1>3. \A x \in Clients : left[x] =< Attempts(x) /\ (pc[x] # "idle" => left[x] > 0)
  BY <1>1, <1>2
<1>4. \A x \in Clients : got[x] \in Link <=> pc[x] = "put"
  BY <1>2, NoLinkAssumption
<1>5. QED BY <1>3, <1>4 DEF Init, TypeOK, PC

\* The types of the clients, which most steps change.
ClientTypes ==
  /\ pc \in [Clients -> PC]
  /\ left \in [Clients -> Nat]
  /\ \A x \in Clients : left[x] =< Attempts(x) /\ (pc[x] # "idle" => left[x] > 0)
  /\ alive \in [Clients -> BOOLEAN]
  /\ sure \subseteq Workers

\* The end of a call.
LEMMA FinishTypes ==
  ASSUME TypeOK, NEW x \in Clients, Finish(x)
  PROVE  ClientTypes' /\ pc'[x] = "idle" /\ \A y \in Clients \ {x} : pc'[y] = pc[y]
BY ConstantsAssumption DEF Finish, Goto, TypeOK, ClientTypes, PC, Attempts

\* The end of a try.
LEMMA TryFailedTypes ==
  ASSUME TypeOK, NEW x \in Clients, TryFailed(x)
  PROVE  ClientTypes' /\ pc'[x] \in {"idle", "wait"} /\ \A y \in Clients \ {x} : pc'[y] = pc[y]
<1>1. CASE x \in Workers /\ left[x] > 1
  <2>1. left[x] \in Nat /\ left[x] =< Attempts(x) /\ Attempts(x) \in Nat
    BY ConstantsAssumption DEF TypeOK, Attempts
  <2>2. left[x] - 1 \in Nat /\ left[x] - 1 > 0 /\ left[x] - 1 =< Attempts(x)
    BY <1>1, <2>1
  <2>3. /\ pc' = [pc EXCEPT ![x] = "wait"]
        /\ left' = [left EXCEPT ![x] = left[x] - 1]
        /\ alive' = [alive EXCEPT ![x] = FALSE]
        /\ sure' = sure
    BY <1>1 DEF TryFailed, Goto
  <2>4. \A y \in Clients : left'[y] =< Attempts(y) /\ (pc'[y] # "idle" => left'[y] > 0)
    BY <2>2, <2>3 DEF TypeOK
  <2>5. QED BY <2>2, <2>3, <2>4 DEF TypeOK, ClientTypes, PC
<1>2. CASE ~(x \in Workers /\ left[x] > 1)
  BY <1>2, FinishTypes DEF TryFailed
<1>3. QED BY <1>1, <1>2

\* Every step keeps the types.
LEMMA NextTypes == TypeOK /\ [Next]_vars => TypeOK'
<1> SUFFICES ASSUME TypeOK, [Next]_vars PROVE TypeOK'
  OBVIOUS
<1>t. \A x \in Clients : Attempts(x) \in Nat \ {0}
  BY ConstantsAssumption DEF Attempts
<1>1. ASSUME NEW x \in Clients, Call(x) PROVE TypeOK'
  BY <1>1, <1>t DEF Call, Goto, TypeOK, PC
<1>2. ASSUME NEW x \in Clients, Hit(x) PROVE TypeOK'
  <2>1. row \in Link /\ row.live \in BOOLEAN BY <1>2 DEF Hit, Fresh, TypeOK, Link
  <2>2. QED BY <1>2, <2>1 DEF Hit, Goto, TypeOK, PC
<1>3. ASSUME NEW x \in Clients, Miss(x) \/ Rejected(x) \/ TryAgain(x) PROVE TypeOK'
  BY <1>3 DEF Miss, Rejected, TryAgain, Goto, TypeOK, PC
<1>4. ASSUME NEW x \in Clients, FileLink(x) PROVE TypeOK'
  BY <1>4, IssuedType, NoLinkAssumption DEF FileLink, Goto, TypeOK, PC
<1>5. ASSUME NEW x \in Clients, FileLinkFails(x) \/ TransferFails(x) PROVE TypeOK'
  <2>1. TryFailed(x) /\ UNCHANGED <<row, got, calm>> /\ pc[x] # "put"
    BY <1>5 DEF FileLinkFails, TransferFails
  <2>2. QED BY <2>1, TryFailedTypes DEF TypeOK, ClientTypes
<1>6. ASSUME NEW x \in Clients, PutLink(x) PROVE TypeOK'
  <2>1. got[x] \in Link /\ got[x].live \in BOOLEAN BY <1>6 DEF PutLink, TypeOK, Link
  <2>2. row' \in Link \cup {NoLink} /\ (row' # NoLink => row'.ttl # Expired)
    BY <1>6, <2>1 DEF PutLink, Unexpired, TypeOK
  <2>3. QED BY <1>6, <2>1, <2>2, NoLinkAssumption DEF PutLink, Goto, TypeOK, PC
<1>7. ASSUME NEW x \in Clients, Redirect(x) \/ Transfer(x) PROVE TypeOK'
  <2>1. Finish(x) /\ UNCHANGED <<row, got, calm>> /\ pc[x] # "put"
    BY <1>7 DEF Redirect, Transfer
  <2>2. QED BY <2>1, FinishTypes DEF TypeOK, ClientTypes
<1>8. ASSUME NEW x \in Clients, Invalidate(x) PROVE TypeOK'
  <2>1. row' \in Link \cup {NoLink} /\ (row' # NoLink => row'.ttl # Expired)
    BY <1>8 DEF Invalidate, TypeOK
  <2>2. CASE x \in Browsers /\ left[x] > 1
    <3>1. left[x] \in Nat /\ left[x] =< Attempts(x) BY DEF TypeOK
    <3>2. QED BY <1>8, <2>1, <2>2, <3>1, <1>t DEF Invalidate, Goto, TypeOK, PC
  <2>3. CASE ~(x \in Browsers /\ left[x] > 1)
    <3>1. TryFailed(x) /\ UNCHANGED <<got, calm>> /\ pc[x] = "drop"
      BY <1>8, <2>3 DEF Invalidate
    <3>2. QED BY <2>1, <3>1, TryFailedTypes DEF TypeOK, ClientTypes
  <2>4. QED BY <2>2, <2>3
<1>9. ASSUME NEW x \in Clients, Leave(x) PROVE TypeOK'
  BY <1>9, FinishTypes, NoLinkAssumption DEF Leave, TypeOK, ClientTypes
<1>10. ASSUME Withdraw PROVE TypeOK'
  <2>1. /\ row' \in Link \cup {NoLink} /\ (row' # NoLink => row'.ttl # Expired)
        /\ got' \in [Clients -> Link \cup {NoLink}]
        /\ \A x \in Clients : got'[x] \in Link <=> got[x] \in Link
    <3>1. \A l \in Link \cup {NoLink} :
            /\ Dead(l) \in Link \cup {NoLink} /\ (Dead(l) \in Link <=> l \in Link)
            /\ l # NoLink => Dead(l).ttl = l.ttl
      <4> SUFFICES ASSUME NEW l \in Link \cup {NoLink}
                   PROVE  /\ Dead(l) \in Link \cup {NoLink} /\ (Dead(l) \in Link <=> l \in Link)
                          /\ l # NoLink => Dead(l).ttl = l.ttl
        OBVIOUS
      <4>1. CASE l = NoLink BY <4>1, NoLinkAssumption DEF Dead
      <4>2. CASE l \in Link BY <4>2, LinkTypes, NoLinkAssumption
      <4>3. QED BY <4>1, <4>2
    <3>2. QED BY <1>10, <3>1 DEF Withdraw, Dead, TypeOK
  <2>2. QED BY <1>10, <2>1 DEF Withdraw, TypeOK
<1>11. ASSUME Tick PROVE TypeOK'
  <2>1. /\ row' \in Link \cup {NoLink} /\ (row' # NoLink => row'.ttl # Expired)
        /\ got' \in [Clients -> Link \cup {NoLink}]
        /\ \A x \in Clients : got'[x] \in Link <=> got[x] \in Link
    <3>1. \A l \in Link \cup {NoLink} :
            Older(l) \in Link \cup {NoLink} /\ (Older(l) \in Link <=> l \in Link)
      <4> SUFFICES ASSUME NEW l \in Link \cup {NoLink}
                   PROVE  Older(l) \in Link \cup {NoLink} /\ (Older(l) \in Link <=> l \in Link)
        OBVIOUS
      <4>1. CASE l = NoLink BY <4>1, NoLinkAssumption DEF Older
      <4>2. CASE l \in Link BY <4>2, LinkTypes
      <4>3. QED BY <4>1, <4>2
    <3>2. QED BY <1>11, <3>1 DEF Tick, Unexpired, TypeOK
  <2>2. QED BY <1>11, <2>1 DEF Tick, TypeOK
<1>12. ASSUME Restart PROVE TypeOK'
  BY <1>12, <1>t, NoLinkAssumption DEF Restart, TypeOK, PC
<1>13. ASSUME BecomeCalm PROVE TypeOK'
  BY <1>13 DEF BecomeCalm, TypeOK
<1>14. CASE UNCHANGED vars
  BY <1>14 DEF vars, TypeOK
<1>15. QED
  BY <1>1, <1>2, <1>3, <1>4, <1>5, <1>6, <1>7, <1>8, <1>9, <1>10, <1>11, <1>12,
     <1>13, <1>14
  DEF Next, ClientStep

\* Clients have tries left while they run, and hold a link exactly on the way to the
\* table; the table holds no expired one that anybody would be given.
THEOREM TypeCorrect == Spec => []TypeOK
<1>1. QED BY InitTypes, NextTypes, PTL DEF Spec

------------------------------------------------------------------------------
(* Ages.                                                                     *)

\* One link's share of AgesAddUp.
InTime(l) == l # NoLink /\ l.ttl # Expired => l.age + l.ttl =< Lifetime(l.claim)

\* A link that ages or dies stays in time.
LEMMA StaysInTime ==
  ASSUME NEW l \in Link \cup {NoLink}, InTime(l)
  PROVE  InTime(Older(l)) /\ InTime(Dead(l)) /\ InTime(Unexpired(l)) /\ InTime(NoLink)
<1>1. CASE l = NoLink
  BY <1>1 DEF Older, Dead, Unexpired, InTime
<1>2. CASE l \in Link
  <2>1. /\ l.claim \in Claims /\ l.age \in 0 .. Old /\ l.ttl \in Expired .. MaxTTL
    BY <1>2 DEF Link
  <2>2. Lifetime(l.claim) =< MaxTTL /\ Lifetime(l.claim) \in Nat
    BY <2>1, Lifetimes
  <2>3. Older(l).claim = l.claim /\ Dead(l).claim = l.claim
    BY <1>2, LinkTypes
  <2>4. Old \in Nat /\ Old = MaxTTL + 1 /\ Expired = 0 - 1
    BY ConstantsAssumption DEF Old, Expired
  <2>5. ASSUME Older(l).ttl # Expired PROVE Older(l).age + Older(l).ttl =< Lifetime(l.claim)
    <3>1. /\ Older(l).age = IF l.age = Old THEN Old ELSE l.age + 1
          /\ Older(l).ttl = IF l.ttl = Expired THEN Expired ELSE l.ttl - 1
      BY <1>2, LinkTypes
    <3>2. l.ttl # Expired /\ l.ttl \in Int /\ l.ttl >= 0
      BY <2>1, <2>4, <2>5, <3>1
    <3>3. l.age + l.ttl =< Lifetime(l.claim)
      BY <1>2, <3>2, NoLinkAssumption DEF InTime
    <3>4. QED BY <2>1, <2>2, <2>4, <3>1, <3>2, <3>3
  <2>6. ASSUME Dead(l).ttl # Expired PROVE Dead(l).age + Dead(l).ttl =< Lifetime(l.claim)
    BY <1>2, <2>6, LinkTypes, NoLinkAssumption DEF InTime
  <2>7. InTime(Unexpired(l)) /\ InTime(NoLink)
    BY DEF Unexpired, InTime
  <2>8. QED BY <2>3, <2>5, <2>6, <2>7 DEF InTime
<1>3. QED BY <1>1, <1>2

\* A link just issued has all of its lifetime before it.
LEMMA IssuedInTime == ASSUME NEW c \in Claims PROVE InTime(Issued(c))
BY Lifetimes DEF Issued, InTime

\* Age and expiry keep adding up.
LEMMA AgesStay == TypeOK /\ AgesAddUp /\ [Next]_vars => AgesAddUp'
<1> SUFFICES ASSUME TypeOK, AgesAddUp, [Next]_vars PROVE AgesAddUp'
  OBVIOUS
<1>1. InTime(row) /\ \A x \in Clients : InTime(got[x])
  BY DEF AgesAddUp, InTime
<1>2. SUFFICES InTime(row') /\ \A x \in Clients : InTime(got'[x])
  BY DEF AgesAddUp, InTime
<1>3. row \in Link \cup {NoLink} /\ got \in [Clients -> Link \cup {NoLink}]
  BY DEF TypeOK
<1>n. InTime(NoLink)
  BY DEF InTime
<1>4. CASE UNCHANGED <<row, got>>
  BY <1>1, <1>4
<1>5. ASSUME NEW x \in Clients, FileLink(x)
      PROVE  InTime(row') /\ \A y \in Clients : InTime(got'[y])
  BY <1>1, <1>3, <1>5, IssuedInTime DEF FileLink
<1>6. ASSUME NEW x \in Clients, PutLink(x)
      PROVE  InTime(row') /\ \A y \in Clients : InTime(got'[y])
  BY <1>1, <1>3, <1>n, <1>6, StaysInTime DEF PutLink
<1>7. ASSUME NEW x \in Clients, Invalidate(x) \/ Leave(x)
      PROVE  InTime(row') /\ \A y \in Clients : InTime(got'[y])
  BY <1>1, <1>3, <1>n, <1>7 DEF Invalidate, Leave
<1>8. ASSUME Withdraw PROVE InTime(row') /\ \A y \in Clients : InTime(got'[y])
  BY <1>1, <1>3, <1>8, StaysInTime DEF Withdraw
<1>9. ASSUME Tick PROVE InTime(row') /\ \A y \in Clients : InTime(got'[y])
  <2>1. Older(row) \in Link \cup {NoLink} /\ InTime(Older(row))
    BY <1>1, <1>3, StaysInTime, LinkTypes
  <2>2. QED BY <1>1, <1>3, <1>9, <2>1, StaysInTime DEF Tick
<1>10. ASSUME Restart PROVE InTime(row') /\ \A y \in Clients : InTime(got'[y])
  BY <1>1, <1>n, <1>10 DEF Restart
<1>11. QED
  BY <1>4, <1>5, <1>6, <1>7, <1>8, <1>9, <1>10
  DEF Next, ClientStep, Call, Hit, Miss, FileLinkFails, Redirect, Transfer,
      TransferFails, Rejected, TryAgain, BecomeCalm, vars

\* No cached link is handed out later than resolve's expiry allows, whoever stored it
\* and however late.
THEOREM LinksAreFresh == Spec => HandedInTime
<1>1. Init => AgesAddUp
  BY DEF Init, AgesAddUp
<1>2. TypeOK /\ AgesAddUp /\ [Next]_vars =>
        [\A x \in Clients : pc[x] = "look" /\ pc'[x] = "use" =>
           /\ row.age =< MaxTTL
           /\ \/ row.age =< MinTTL
              \/ row.age =< row.claim
              \/ row.claim = 0 /\ row.age =< DefaultTTL]_vars
  <2> SUFFICES ASSUME TypeOK, AgesAddUp, Next,
                      NEW x \in Clients, pc[x] = "look", pc'[x] = "use"
               PROVE  /\ row.age =< MaxTTL
                      /\ \/ row.age =< MinTTL
                         \/ row.age =< row.claim
                         \/ row.claim = 0 /\ row.age =< DefaultTTL
    OBVIOUS
  <2>1. row # NoLink
    <3>1. ASSUME NEW y \in Clients,
                 Call(y) \/ Leave(y) \/ ClientStep(y), ~Hit(y)
          PROVE  FALSE
      <4>1. ASSUME NEW where \in PC \ {"use"}, Goto(y, where) PROVE FALSE
        BY <4>1 DEF Goto, TypeOK
      <4>2. ASSUME Finish(y) \/ TryFailed(y) PROVE FALSE
        BY <4>1, <4>2 DEF Finish, TryFailed, PC
      <4>3. ASSUME PutLink(y) PROVE FALSE
        BY <4>3 DEF PutLink, Goto, TypeOK
      <4>4. QED
        BY <3>1, <4>1, <4>2, <4>3
        DEF Call, Leave, ClientStep, Miss, FileLink, FileLinkFails, Redirect, Transfer,
            TransferFails, Rejected, Invalidate, TryAgain, PC
    <3>2. ASSUME UNCHANGED pc \/ Restart PROVE FALSE
      BY <3>2 DEF Restart
    <3>3. QED
      BY <3>1, <3>2 DEF Next, Hit, Fresh, Withdraw, Tick, BecomeCalm, ClientStep
  <2>2. row \in Link /\ row.ttl # Expired
    BY <2>1 DEF TypeOK
  <2>3. row.age \in Nat /\ row.ttl \in Nat /\ row.claim \in Claims
    BY <2>2, ConstantsAssumption DEF Link, Old, Expired
  <2>4. row.age + row.ttl =< Lifetime(row.claim)
    BY <2>1, <2>2 DEF AgesAddUp
  <2> DEFINE t == Lifetime(row.claim)
  <2>5. /\ t \in Nat /\ t =< MaxTTL /\ row.claim \in Nat
        /\ t =< MinTTL \/ t =< row.claim \/ (row.claim = 0 /\ t =< DefaultTTL)
    BY <2>3, Lifetimes, ConstantsAssumption
  <2>6. row.age =< t BY <2>3, <2>4, <2>5
  <2> HIDE DEF t
  <2>7. QED BY <2>3, <2>5, <2>6, ConstantsAssumption
<1>3. QED BY <1>1, <1>2, AgesStay, TypeCorrect, PTL DEF Spec, HandedInTime

------------------------------------------------------------------------------
(* Rejected links.                                                           *)

\* What a worker may still lose a try to.
Debt(x) == Cardinality(Late(x)) + (IF DeadRow THEN 1 ELSE 0)

\* Sets of clients are finite, and those that are late with regard to one of them are
\* fewer than all.
LEMMA LateIsFinite ==
  ASSUME IsFiniteSet(Clients), NEW x \in Clients
  PROVE  /\ IsFiniteSet(Late(x)) /\ Cardinality(Late(x)) \in Nat
         /\ Late(x) \in SUBSET Clients
         /\ Cardinality(Late(x)) < Cardinality(Clients) /\ Cardinality(Clients) \in Nat
<1>1. Late(x) \in SUBSET (Clients \ {x}) BY DEF Late
<1>2. /\ IsFiniteSet(Clients \ {x})
      /\ Cardinality(Clients \ {x}) = Cardinality(Clients) - 1
  BY FS_RemoveElement
<1>3. IsFiniteSet(Late(x)) /\ Cardinality(Late(x)) =< Cardinality(Clients) - 1
  BY <1>1, <1>2, FS_Subset
<1>4. QED BY <1>1, <1>3, FS_CardinalityType

\* The same in the next state.
LEMMA LateIsFiniteThen ==
  ASSUME IsFiniteSet(Clients), NEW x \in Clients
  PROVE  /\ IsFiniteSet(Late(x)') /\ Cardinality(Late(x)') \in Nat
         /\ Cardinality(Late(x)') < Cardinality(Clients)
<1>1. Late(x)' \in SUBSET (Clients \ {x}) BY DEF Late
<1>2. /\ IsFiniteSet(Clients \ {x}) /\ Cardinality(Clients) \in Nat
      /\ Cardinality(Clients \ {x}) = Cardinality(Clients) - 1
  BY FS_RemoveElement, FS_CardinalityType
<1>3. IsFiniteSet(Late(x)') /\ Cardinality(Late(x)') =< Cardinality(Clients) - 1
  BY <1>1, <1>2, FS_Subset
<1>4. QED BY <1>2, <1>3, FS_CardinalityType

\* Once nothing fails any more, no client becomes late, and the row is dead afterwards
\* only if it was before or a late client has just stored its link.
LEMMA CalmSteps ==
  ASSUME TypeOK, [Next]_vars, calm, NEW x \in Clients,
         pc[x] = "put" => got[x].live
  PROVE  /\ Late(x)' \subseteq Late(x)
         /\ DeadRow' => DeadRow \/ \E y \in Late(x) : y \notin Late(x)'
<1>1. CASE UNCHANGED <<row, got, pc>>
  BY <1>1 DEF Late, DeadRow
<1>2. ASSUME NEW y \in Clients,
             Call(y) \/ Hit(y) \/ Miss(y) \/ Rejected(y) \/ TryAgain(y)
               \/ Redirect(y) \/ Transfer(y) \/ Invalidate(y)
      PROVE  Late(x)' \subseteq Late(x) /\ (DeadRow' => DeadRow)
  <2>1. /\ got' = got /\ (row' = row \/ row' = NoLink)
        /\ \A z \in Clients : pc'[z] = "put" => pc[z] = "put"
    <3>1. CASE Call(y) \/ Hit(y) \/ Miss(y) \/ Rejected(y) \/ TryAgain(y)
      BY <3>1 DEF Call, Hit, Miss, Rejected, TryAgain, Goto, TypeOK
    <3>2. CASE Redirect(y) \/ Transfer(y) \/ Invalidate(y)
      BY <3>2 DEF Redirect, Transfer, Invalidate, TryFailed, Finish, Goto, TypeOK
    <3>3. QED BY <1>2, <3>1, <3>2
  <2>2. QED BY <2>1 DEF Late, DeadRow
<1>3. ASSUME NEW y \in Clients, FileLink(y)
      PROVE  Late(x)' \subseteq Late(x) /\ (DeadRow' => DeadRow)
  <2>1. /\ row' = row /\ got'[y].live
        /\ \A z \in Clients \ {y} : pc'[z] = pc[z] /\ got'[z] = got[z]
    BY <1>3 DEF FileLink, Issued, Goto, TypeOK
  <2>2. QED BY <2>1 DEF Late, DeadRow
<1>4. ASSUME NEW y \in Clients, PutLink(y)
      PROVE  /\ Late(x)' \subseteq Late(x)
             /\ DeadRow' => DeadRow \/ \E z \in Late(x) : z \notin Late(x)'
  <2>1. /\ row' = Unexpired(got[y]) \/ row' = row
        /\ pc[y] = "put" /\ pc'[y] = "use"
        /\ \A z \in Clients \ {y} : pc'[z] = pc[z] /\ got'[z] = got[z]
    BY <1>4 DEF PutLink, Goto, TypeOK
  <2>2. Late(x)' \subseteq Late(x) /\ y \notin Late(x)'
    BY <2>1 DEF Late
  <2>3. ASSUME DeadRow', ~DeadRow PROVE y \in Late(x)
    <3>1. ~got[y].live BY <2>1, <2>3 DEF DeadRow, Unexpired
    <3>2. QED BY <2>1, <3>1 DEF Late
  <2>4. QED BY <2>2, <2>3
<1>5. ASSUME Tick PROVE Late(x)' \subseteq Late(x) /\ (DeadRow' => DeadRow)
  <2>1. \A z \in Clients : pc'[z] = "put" => pc[z] = "put" /\ got'[z].live = got[z].live
    <3>1. ASSUME NEW z \in Clients, pc[z] = "put" PROVE got'[z].live = got[z].live
      BY <1>5, <3>1, LinkTypes DEF Tick, TypeOK
    <3>2. QED BY <1>5, <3>1 DEF Tick
  <2>2. DeadRow' => DeadRow
    <3>1. ASSUME row' # NoLink PROVE row # NoLink /\ row'.live = row.live
      <4>1. row # NoLink BY <1>5, <3>1 DEF Tick, Unexpired, Older
      <4>2. row \in Link BY <4>1 DEF TypeOK
      <4>3. row' = Older(row) BY <1>5, <3>1 DEF Tick, Unexpired
      <4>4. QED BY <4>1, <4>2, <4>3, LinkTypes
    <3>2. QED BY <3>1 DEF DeadRow
  <2>3. QED BY <2>1, <2>2 DEF Late
<1>6. QED
  BY <1>1, <1>2, <1>3, <1>4, <1>5
  DEF Next, ClientStep, FileLinkFails, TransferFails, Leave, Withdraw, Restart,
      BecomeCalm, vars

\* So a worker's debts do not grow.
LEMMA DebtsStay ==
  ASSUME IsFiniteSet(Clients), TypeOK, [Next]_vars, calm, NEW x \in Clients,
         pc[x] = "put" => got[x].live
  PROVE  /\ Cardinality(Late(x)') =< Cardinality(Late(x))
         /\ Debt(x)' =< Debt(x)
         /\ Cardinality(Late(x)) \in Nat /\ Cardinality(Late(x)') \in Nat
<1> DEFINE L == Late(x)
           M == Late(x)'
<1>1. /\ IsFiniteSet(L) /\ Cardinality(L) \in Nat
      /\ IsFiniteSet(M) /\ Cardinality(M) \in Nat
  BY LateIsFinite, LateIsFiniteThen
<1>2. M \subseteq L /\ (DeadRow' => DeadRow \/ \E y \in L : y \notin M)
  BY CalmSteps
<1>3. Debt(x) = Cardinality(L) + (IF DeadRow THEN 1 ELSE 0)
  BY DEF Debt
<1>4. Debt(x)' = Cardinality(M) + (IF DeadRow' THEN 1 ELSE 0)
  BY DEF Debt
<1> HIDE DEF L, M
<1>5. Cardinality(M) =< Cardinality(L) BY <1>1, <1>2, FS_Subset
<1>6. ASSUME NEW y \in L, y \notin M PROVE Cardinality(M) =< Cardinality(L) - 1
  <2>1. IsFiniteSet(L \ {y}) /\ Cardinality(L \ {y}) = Cardinality(L) - 1
    BY <1>1, <1>6, FS_RemoveElement
  <2>2. M \in SUBSET (L \ {y}) BY <1>2, <1>6
  <2>3. QED BY <2>1, <2>2, FS_Subset
<1>7. Debt(x)' =< Debt(x)
  BY <1>1, <1>2, <1>3, <1>4, <1>5, <1>6
<1>8. QED BY <1>1, <1>5, <1>7 DEF L, M

\* One worker's share of TriesSuffice.
Covered(x) ==
  /\ calm /\ pc[x] # "idle"
  /\ pc[x] = "put" => got[x].live
  /\ pc[x] \in {"look", "wait"} => left[x] > Debt(x)
  /\ pc[x] = "drop" \/ (pc[x] = "use" /\ ~alive[x]) => left[x] > Cardinality(Late(x)) + 1

\* What other clients do, and time, leave a worker covered.
LEMMA CoveredByOthers ==
  ASSUME IsFiniteSet(Clients), TypeOK, [Next]_vars, NEW x \in Clients, Covered(x),
         pc'[x] = pc[x], left'[x] = left[x], alive'[x] = alive[x], calm' = calm,
         pc[x] = "put" => got'[x].live = got[x].live
  PROVE  Covered(x)'
<1>1. /\ Cardinality(Late(x)') =< Cardinality(Late(x)) /\ Debt(x)' =< Debt(x)
      /\ Cardinality(Late(x)) \in Nat /\ Cardinality(Late(x)') \in Nat
  BY DebtsStay DEF Covered
<1>2. left[x] \in Nat /\ Debt(x) \in Nat /\ Debt(x)' \in Nat
  BY <1>1 DEF TypeOK, Debt
<1>3. (Debt(x))' =< Debt(x) /\ (Cardinality(Late(x)))' =< Cardinality(Late(x))
  BY <1>1
<1>4. QED BY <1>1, <1>2, <1>3 DEF Covered

\* The end of a try with a rejected link: there is another one, and it is covered.
LEMMA CoveredAfterDrop ==
  ASSUME IsFiniteSet(Clients), TypeOK, [Next]_vars, NEW x \in Workers, Covered(x),
         Invalidate(x)
  PROVE  Covered(x)' /\ pc'[x] # "idle"
<1>1. x \in Clients /\ x \notin Browsers
  BY ConstantsAssumption DEF Clients
<1>2. /\ Cardinality(Late(x)') =< Cardinality(Late(x))
      /\ Cardinality(Late(x)) \in Nat /\ Cardinality(Late(x)') \in Nat
  BY <1>1, DebtsStay DEF Covered
<1>3. calm /\ row' = NoLink /\ TryFailed(x) /\ calm' = calm
  BY <1>1 DEF Covered, Invalidate
<1>4. left[x] \in Nat /\ left[x] > Cardinality(Late(x)) + 1
  BY <1>1 DEF Covered, Invalidate, TypeOK
<1>5. left[x] > 1
  BY <1>2, <1>4
<1>6. pc'[x] = "wait" /\ left'[x] = left[x] - 1
  BY <1>1, <1>3, <1>5 DEF TryFailed, Goto, TypeOK
<1>7. Debt(x)' = Cardinality(Late(x)')
  <2>1. ~DeadRow' BY <1>3 DEF DeadRow
  <2>2. Debt(x)' = Cardinality(Late(x)') + (IF DeadRow' THEN 1 ELSE 0)
    BY DEF Debt
  <2>3. QED BY <1>2, <2>1, <2>2
<1>8. left'[x] > Debt(x)'
  BY <1>2, <1>4, <1>6, <1>7
<1>9. QED BY <1>3, <1>6, <1>8 DEF Covered

\* A worker's own steps.
LEMMA CoveredByItself ==
  ASSUME IsFiniteSet(Clients), TypeOK, [Next]_vars, NEW x \in Workers, Covered(x),
         ClientStep(x)
  PROVE  Covered(x)' \/ sure' = sure \ {x}
<1>1. x \in Clients /\ x \notin Browsers /\ x \notin Players
  BY ConstantsAssumption DEF Clients
<1>2. /\ Cardinality(Late(x)') =< Cardinality(Late(x)) /\ Debt(x)' =< Debt(x)
      /\ Cardinality(Late(x)) \in Nat /\ Cardinality(Late(x)') \in Nat
  BY <1>1, DebtsStay DEF Covered
<1>3. calm /\ left[x] \in Nat
  BY <1>1 DEF Covered, TypeOK
<1>4. CASE Hit(x)
  <2>1. /\ pc[x] = "look" /\ pc'[x] = "use" /\ alive'[x] = row.live /\ row # NoLink
        /\ left' = left /\ calm' = calm /\ got' = got /\ pc'[x] # "put"
    BY <1>1, <1>4 DEF Hit, Fresh, Goto, TypeOK
  <2>2. CASE row.live
    BY <1>3, <2>1, <2>2 DEF Covered
  <2>3. CASE ~row.live
    <3>1. left[x] > Cardinality(Late(x)) + 1
      BY <1>2, <2>1, <2>3 DEF Covered, Debt, DeadRow
    <3>2. left'[x] > Cardinality(Late(x)') + 1
      BY <1>2, <1>3, <2>1, <3>1
    <3>3. QED BY <1>3, <2>1, <3>2 DEF Covered
  <2>4. QED BY <2>2, <2>3
<1>5. CASE Miss(x)
  <2>1. pc'[x] = "ask" /\ calm' BY <1>1, <1>3, <1>5 DEF Miss, Goto, TypeOK
  <2>2. QED BY <2>1 DEF Covered
<1>6. CASE FileLink(x)
  <2>1. pc'[x] = "put" /\ calm' /\ got'[x].live
    BY <1>1, <1>3, <1>6 DEF FileLink, Issued, Goto, TypeOK
  <2>2. QED BY <2>1 DEF Covered
<1>7. CASE PutLink(x)
  <2>1. pc'[x] = "use" /\ calm' /\ alive'[x]
    BY <1>1, <1>3, <1>7 DEF PutLink, Goto, TypeOK, Covered
  <2>2. QED BY <2>1 DEF Covered
<1>8. CASE Transfer(x)
  BY <1>8 DEF Transfer, Finish
<1>9. CASE Rejected(x)
  <2>1. /\ pc'[x] = "drop" /\ calm' /\ left' = left
        /\ left[x] > Cardinality(Late(x)) + 1
    BY <1>1, <1>3, <1>9 DEF Rejected, Goto, TypeOK, Covered
  <2>2. left'[x] > Cardinality(Late(x)') + 1
    BY <1>2, <1>3, <2>1
  <2>3. QED BY <2>1, <2>2 DEF Covered
<1>10. CASE TryAgain(x)
  <2>1. pc'[x] = "look" /\ calm' /\ left' = left /\ left[x] > Debt(x)
    BY <1>1, <1>3, <1>10 DEF TryAgain, Goto, TypeOK, Covered
  <2>2. Debt(x) \in Nat /\ Debt(x)' \in Nat
    BY <1>2 DEF Debt
  <2>3. left'[x] > Debt(x)'
    BY <1>2, <1>3, <2>1, <2>2
  <2>4. QED BY <2>1, <2>3 DEF Covered
<1>11. CASE Invalidate(x)
  BY <1>11, CoveredAfterDrop
<1>12. QED
  BY <1>1, <1>3, <1>4, <1>5, <1>6, <1>7, <1>8, <1>9, <1>10, <1>11
  DEF ClientStep, FileLinkFails, Redirect, TransferFails

\* A worker's call that begins when nothing fails any more has tries enough.
LEMMA CoveredFromTheStart ==
  ASSUME IsFiniteSet(Clients), MaxAttempts > Cardinality(Clients),
         TypeOK, [Next]_vars, NEW x \in Workers, calm, Call(x)
  PROVE  Covered(x)'
<1>1. x \in Clients BY DEF Clients
<1>2. /\ pc'[x] = "look" /\ left'[x] = MaxAttempts /\ calm'
  BY <1>1 DEF Call, Attempts, Goto, TypeOK
<1>3. /\ Cardinality(Late(x)') \in Nat /\ Cardinality(Late(x)') < Cardinality(Clients)
      /\ Cardinality(Clients) \in Nat /\ MaxAttempts \in Nat
  BY <1>1, LateIsFiniteThen, FS_CardinalityType, ConstantsAssumption
<1>4. Debt(x)' = Cardinality(Late(x)') + (IF DeadRow' THEN 1 ELSE 0)
  BY DEF Debt
<1>5. left'[x] > Debt(x)'
  BY <1>2, <1>3, <1>4
<1>6. QED BY <1>2, <1>5 DEF Covered

\* The clients a step leaves alone.
LEMMA OthersUntouched ==
  ASSUME TypeOK, Next, calm, NEW x \in Clients, ~Call(x), ~ClientStep(x)
  PROVE  /\ pc'[x] = pc[x] /\ left'[x] = left[x] /\ alive'[x] = alive[x]
         /\ calm' = calm
         /\ pc[x] = "put" => got'[x].live = got[x].live
<1>1. ASSUME NEW y \in Clients, y # x,
             Call(y) \/ Hit(y) \/ Miss(y) \/ Rejected(y) \/ TryAgain(y) \/ FileLink(y)
               \/ PutLink(y)
      PROVE  /\ pc'[x] = pc[x] /\ left'[x] = left[x] /\ alive'[x] = alive[x]
             /\ calm' = calm /\ got'[x] = got[x]
  BY <1>1 DEF Call, Hit, Miss, Rejected, TryAgain, FileLink, PutLink, Goto, TypeOK
<1>2. ASSUME NEW y \in Clients, y # x, Redirect(y) \/ Transfer(y) \/ Invalidate(y)
      PROVE  /\ pc'[x] = pc[x] /\ left'[x] = left[x] /\ alive'[x] = alive[x]
             /\ calm' = calm /\ got'[x] = got[x]
  BY <1>2 DEF Redirect, Transfer, Invalidate, TryFailed, Finish, Goto, TypeOK
<1>3. ASSUME Tick
      PROVE  /\ pc'[x] = pc[x] /\ left'[x] = left[x] /\ alive'[x] = alive[x]
             /\ calm' = calm
             /\ pc[x] = "put" => got'[x].live = got[x].live
  BY <1>3, LinkTypes DEF Tick, TypeOK
<1>4. QED
  BY <1>1, <1>2, <1>3
  DEF Next, ClientStep, FileLinkFails, TransferFails, Leave, Withdraw, Restart, BecomeCalm

\* Only a worker's call that begins when nothing fails any more is sure.
LEMMA SureGrows ==
  ASSUME TypeOK, [Next]_vars, NEW x \in sure', x \notin sure
  PROVE  calm /\ x \in Workers /\ Call(x)
<1>1. CASE UNCHANGED vars
  BY <1>1 DEF vars
<1>2. ASSUME NEW y \in Clients, ClientStep(y) \/ Leave(y) PROVE sure' \subseteq sure
  BY <1>2
  DEF ClientStep, Leave, Hit, Miss, FileLink, FileLinkFails, PutLink, Redirect, Transfer,
      TransferFails, Rejected, Invalidate, TryAgain, TryFailed, Finish
<1>3. ASSUME NEW y \in Clients, Call(y) PROVE calm /\ x \in Workers /\ Call(x)
  BY <1>3 DEF Call
<1>4. QED
  BY <1>1, <1>2, <1>3 DEF Next, Withdraw, Tick, Restart, BecomeCalm

\* Tries keep sufficing.
LEMMA TriesStay ==
  ASSUME IsFiniteSet(Clients), MaxAttempts > Cardinality(Clients)
  PROVE  TypeOK /\ TriesSuffice /\ [Next]_vars => TriesSuffice'
<1> SUFFICES ASSUME TypeOK, TriesSuffice, [Next]_vars, NEW x \in sure'
             PROVE  Covered(x)'
  BY DEF TriesSuffice, Covered, Debt
<1>1. CASE x \notin sure
  BY <1>1, SureGrows, CoveredFromTheStart
<1>2. CASE x \in sure
  <2>1. x \in Workers /\ x \in Clients /\ Covered(x)
    BY <1>2 DEF TypeOK, Clients, TriesSuffice, Covered, Debt
  <2>2. CASE UNCHANGED vars
    BY <2>1, <2>2, CoveredByOthers DEF vars
  <2>3. CASE Next /\ ~Call(x) /\ ~ClientStep(x)
    BY <2>1, <2>3, OthersUntouched, CoveredByOthers DEF Covered
  <2>4. CASE ClientStep(x)
    BY <2>1, <2>4, CoveredByItself
  <2>5. ~Call(x) BY <2>1 DEF Covered, Call
  <2>6. QED BY <2>2, <2>3, <2>4, <2>5
<1>3. QED BY <1>1, <1>2

\* With fewer clients than tries, a download that begins after the last failure always
\* has another try when a link is rejected: each of the others can spoil one at most.
THEOREM WorkersArePatient ==
  ASSUME IsFiniteSet(Clients), MaxAttempts > Cardinality(Clients)
  PROVE  Spec => WorkersGetThrough
<1>1. Init => TriesSuffice
  BY DEF Init, TriesSuffice
<1>2. TypeOK /\ TriesSuffice /\ [Next]_vars => TriesSuffice'
  BY TriesStay
<1>3. TypeOK /\ TriesSuffice /\ [Next]_vars =>
        [\A x \in sure : pc[x] = "drop" => pc'[x] # "idle"]_vars
  <2> SUFFICES ASSUME TypeOK, TriesSuffice, Next, NEW x \in sure, pc[x] = "drop"
               PROVE  pc'[x] # "idle"
    OBVIOUS
  <2>1. x \in Workers /\ x \in Clients /\ Covered(x) /\ calm
    BY DEF TypeOK, Clients, TriesSuffice, Covered, Debt
  <2>2. CASE Call(x) \/ ClientStep(x)
    <3>1. Invalidate(x)
      BY <2>2
      DEF ClientStep, Call, Hit, Miss, FileLink, FileLinkFails, PutLink, Redirect, Transfer,
          TransferFails, Rejected, TryAgain
    <3>2. QED BY <2>1, <3>1, CoveredAfterDrop
  <2>3. CASE ~Call(x) /\ ~ClientStep(x)
    BY <2>1, <2>3, OthersUntouched
  <2>4. QED BY <2>2, <2>3
<1>4. QED BY <1>1, <1>2, <1>3, TypeCorrect, PTL DEF Spec, WorkersGetThrough

------------------------------------------------------------------------------
(* The end of rejections.                                                    *)

\* With no dead link left and none withdrawn any more, whatever a step takes from the
\* table or from the provider is served: a look hands out a live row, the provider
\* issues live links, and a link stays what it is on its way.
LEMMA NoneLeftStep == TypeOK /\ NoneLeft /\ [Next]_vars => NoneLeft'
<1> SUFFICES ASSUME TypeOK, NoneLeft, [Next]_vars PROVE NoneLeft'
  OBVIOUS
<1>1. calm /\ ~DeadRow
  BY DEF NoneLeft
<1>2. \A x \in Clients : (pc[x] = "put" => got[x].live) /\ (pc[x] = "use" => alive[x])
  BY DEF NoneLeft, AllServed
<1>3. calm'
  BY <1>1
  DEF Next, ClientStep, Call, Hit, Miss, FileLink, FileLinkFails, PutLink, Redirect,
      Transfer, TransferFails, Rejected, Invalidate, TryAgain, Leave, Withdraw, Tick,
      Restart, BecomeCalm, vars
<1>4. ASSUME NEW x \in Clients
      PROVE  /\ pc'[x] = "put" => got'[x].live
             /\ pc'[x] = "use" => alive'[x]
             /\ ~DeadRow'
  <2>1. Late(x) = {}
    BY <1>2 DEF Late
  <2>2. ~DeadRow'
    BY <1>1, <1>2, <2>1, CalmSteps
  <2>3. CASE UNCHANGED <<pc, got, alive>>
    BY <1>2, <2>2, <2>3
  <2>4. CASE Next /\ ~Call(x) /\ ~ClientStep(x)
    BY <1>1, <1>2, <2>2, <2>4, OthersUntouched
  <2>5. CASE Hit(x)
    <3>1. row.live BY <1>1, <2>5 DEF Hit, Fresh, DeadRow
    <3>2. QED BY <2>2, <2>5, <3>1 DEF Hit, Goto, TypeOK
  <2>6. CASE Call(x) \/ Miss(x) \/ Rejected(x) \/ TryAgain(x)
    BY <2>2, <2>6 DEF Call, Miss, Rejected, TryAgain, Goto, TypeOK
  <2>7. CASE FileLink(x)
    BY <2>2, <2>7 DEF FileLink, Issued, Goto, TypeOK
  <2>8. CASE PutLink(x)
    BY <1>2, <2>2, <2>8 DEF PutLink, Goto, TypeOK
  <2>9. CASE Redirect(x) \/ Transfer(x)
    BY <2>2, <2>9 DEF Redirect, Transfer, Finish, Goto, TypeOK
  <2>10. CASE Invalidate(x)
    BY <2>2, <2>10 DEF Invalidate, TryFailed, Finish, Goto, TypeOK
  <2>11. QED
    BY <1>1, <2>2, <2>3, <2>4, <2>5, <2>6, <2>7, <2>8, <2>9, <2>10
    DEF ClientStep, FileLinkFails, TransferFails, vars
<1>5. CASE Clients = {}
  <2>1. row' = row \/ Tick
    BY <1>1, <1>5 DEF Next, Withdraw, Restart, BecomeCalm, vars
  <2>2. ASSUME Tick, row \in Link PROVE ~DeadRow'
    BY <1>1, <2>2, LinkTypes DEF Tick, Unexpired, DeadRow
  <2>3. ASSUME row = NoLink PROVE ~DeadRow'
    <3>1. Unexpired(Older(NoLink)) = NoLink BY DEF Unexpired, Older
    <3>2. row' = NoLink BY <2>1, <2>3, <3>1 DEF Tick
    <3>3. QED BY <3>2 DEF DeadRow
  <2>4. ~DeadRow'
    BY <1>1, <2>1, <2>2, <2>3 DEF DeadRow, TypeOK
  <2>5. QED BY <1>3, <1>5, <2>4 DEF NoneLeft, AllServed
<1>6. QED
  BY <1>3, <1>4, <1>5 DEF NoneLeft, AllServed

\* The safety half of RejectionsEnd: once no dead link is left, every link handed out
\* from then on is served.  (That this state comes is what the run shows.)
THEOREM ServedForGood == Spec => [](NoneLeft => []AllServed)
<1>1. TypeOK /\ NoneLeft /\ [Next]_vars => NoneLeft'
  BY NoneLeftStep
<1>2. NoneLeft => AllServed
  BY DEF NoneLeft
<1>3. QED BY <1>1, <1>2, TypeCorrect, PTL DEF Spec
=============================================================================
