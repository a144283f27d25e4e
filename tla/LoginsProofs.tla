---------------------------- MODULE LoginsProofs -----------------------------
(***************************************************************************)
(* Theorems about Logins, for any number of browsers, addresses and        *)
(* accounts, any limit and any window.  They rest on LimiterAssumption and *)
(* LoginsAssumption alone.                                                 *)
(***************************************************************************)
EXTENDS Logins, FiniteSetTheorems, TLAPS

------------------------------------------------------------------------------
(* Types.                                                                    *)

\* No entry is one of zero failures.
LEMMA NoneType == None \in Entry /\ NoEntries \in [Keys -> Entry]
<1>1. 0 \in 0 .. Window + 1 /\ 0 \in 0 .. Window
  BY LimiterAssumption
<1>2. QED BY <1>1 DEF None, NoEntries, Entry

\* An entry stays one, whatever happens to it.
LEMMA EntryTypes ==
  ASSUME NEW e \in Entry
  PROVE  None \in Entry /\ Counted(e) \in Entry /\ Aged(e) \in Entry
<1>1. None \in Entry /\ First \in Entry
  BY LimiterAssumption DEF None, First, Entry
<1>2. Counted(e) \in Entry
  BY <1>1, LimiterAssumption DEF Counted, Entry
<1>3. Aged(e) \in Entry
  BY <1>1, LimiterAssumption DEF Aged, Entry
<1>4. QED BY <1>1, <1>2, <1>3

\* The initial states have the right types.
LEMMA InitTypes == Init => TypeOK
<1> SUFFICES ASSUME Init PROVE TypeOK
  OBVIOUS
<1>1. entries \in [Keys -> Entry] /\ failed \in BOOLEAN
  BY NoneType DEF Init
<1>2. /\ op \in [Browsers -> Ops] /\ pc \in [Browsers -> PC]
      /\ name \in [Browsers -> Names \cup {NoName}]
      /\ known \in [Browsers -> BOOLEAN] /\ late \in [Browsers -> BOOLEAN]
  BY DEF Init, AtRest, Ops, PC
<1>3. \A x \in Browsers : /\ pc[x] = "idle" /\ op[x] = "none" /\ name[x] = NoName
                         /\ ~known[x] /\ ~late[x] /\ session[x] = NoSession
  BY DEF Init, AtRest
<1>4. /\ users \in [Names -> {"none", "setup", "seed"}]
      /\ session \in [Browsers -> Session \cup {NoSession}]
  BY DEF Init
<1>5. QED BY <1>1, <1>2, <1>3, <1>4 DEF TypeOK

\* The keys a request asks about are keys of the limiter.
LEMMA KeysOfRequests ==
  ASSUME TypeOK, NEW x \in Browsers
  PROVE  /\ Address[x] \in Keys
         /\ Address[x] \notin Names
         /\ pc[x] # "idle" => name[x] \in Keys /\ name[x] \in Names
BY LoginsAssumption DEF TypeOK

\* The limiter's table keeps its type.
LEMMA TableTypes ==
  ASSUME TypeOK,
         \/ UNCHANGED <<entries, failed>>
         \/ \E k \in Keys : Fail(k) \/ Reset(k)
         \/ TimePasses
  PROVE  entries' \in [Keys -> Entry] /\ failed' \in BOOLEAN
<1>1. entries \in [Keys -> Entry] /\ failed \in BOOLEAN BY DEF TypeOK
<1>2. \A k \in Keys : /\ None \in Entry /\ Counted(entries[k]) \in Entry
                      /\ Aged(entries[k]) \in Entry
  BY <1>1, EntryTypes
<1>3. QED BY <1>1, <1>2 DEF Fail, Reset, TimePasses

\* A change of the password leaves no session of the account.
LEMMA NoneLeft ==
  ASSUME NEW n \in Names
  PROVE  Outdated(n, Revoked(n)) = Revoked(n)
<1>1. \A x \in Browsers : ~(Revoked(n)[x] # NoSession /\ Revoked(n)[x].user = n)
  BY DEF Revoked
<1>2. Revoked(n) = [x \in Browsers |-> Revoked(n)[x]]
  BY DEF Revoked
<1>3. QED BY <1>1, <1>2 DEF Outdated

\* A session that is not revoked stays as it is.
LEMMA RevokedTypes ==
  ASSUME TypeOK, NEW n \in Names
  PROVE  /\ Revoked(n) \in [Browsers -> Session \cup {NoSession}]
         /\ \A y \in Browsers : Revoked(n)[y] \in {session[y], NoSession}
BY DEF Revoked, TypeOK

\* Sessions are about accounts.
LEMMA SessionNames ==
  ASSUME TypeOK, NEW x \in Browsers, session[x] # NoSession
  PROVE  session[x].user \in Names
BY DEF TypeOK, Session

\* What an answer leaves behind.
LEMMA AnswerTypes ==
  ASSUME TypeOK, NEW x \in Browsers, Answer(x),
         users' = users, session' = session,
         entries' \in [Keys -> Entry] /\ failed' \in BOOLEAN
  PROVE  TypeOK'
BY LoginsAssumption DEF TypeOK, Answer, Goto, Ops, PC

\* Every step keeps the types.
LEMMA NextTypes == TypeOK /\ [Next]_vars => TypeOK'
<1> SUFFICES ASSUME TypeOK, [Next]_vars PROVE TypeOK'
  OBVIOUS
<1> USE DEF Ops, PC
<1>1. ASSUME NEW x \in Browsers, LoginCall(x) PROVE TypeOK'
  BY <1>1, LoginsAssumption DEF LoginCall, Begin, Goto, TypeOK
<1>2. ASSUME NEW x \in Browsers, SetupCall(x) PROVE TypeOK'
  BY <1>2, LoginsAssumption DEF SetupCall, Begin, Goto, TypeOK
<1>3. ASSUME NEW x \in Browsers, ChangeCall(x) PROVE TypeOK'
  <2>1. session[x] \in Session /\ session[x].user \in Names
    BY <1>3 DEF ChangeCall, TypeOK, Session
  <2>2. QED BY <1>3, <2>1, LoginsAssumption DEF ChangeCall, Begin, Goto, TypeOK
<1>4. ASSUME NEW x \in Browsers, AllowedIp(x) PROVE TypeOK'
  <2>1. CASE Answer(x) BY <1>4, <2>1, AnswerTypes DEF AllowedIp, TypeOK
  <2>2. CASE ~Answer(x)
    BY <1>4, <2>2 DEF AllowedIp, Goto, TypeOK
  <2>3. QED BY <2>1, <2>2
<1>5. ASSUME NEW x \in Browsers, AllowedName(x) PROVE TypeOK'
  <2>1. CASE Answer(x) BY <1>5, <2>1, AnswerTypes DEF AllowedName, TypeOK
  <2>2. CASE ~Answer(x)
    <3>1. /\ pc[x] = "name"
          /\ \E where \in {"read", "verify"} : pc' = [pc EXCEPT ![x] = where]
          /\ UNCHANGED <<entries, failed, users, session, op, name, known, late>>
      BY <1>5, <2>2 DEF AllowedName, Goto
    <3>2. QED BY <3>1 DEF TypeOK
  <2>3. QED BY <2>1, <2>2
<1>6. ASSUME NEW x \in Browsers, GetUserByName(x) PROVE TypeOK'
  <2>1. CASE Answer(x) BY <1>6, <2>1, AnswerTypes DEF GetUserByName, TypeOK
  <2>2. CASE ~Answer(x)
    <3>1. PICK b \in BOOLEAN : b <=> users[name[x]] # "none"
      OBVIOUS
    <3>2. /\ pc[x] = "read" /\ pc' = [pc EXCEPT ![x] = "verify"]
          /\ known' = [known EXCEPT ![x] = users[name[x]] # "none"]
          /\ UNCHANGED <<entries, failed, users, session, op, name, late>>
      BY <1>6, <2>2 DEF GetUserByName, Goto
    <3>3. known' = [known EXCEPT ![x] = b]
      BY <3>1, <3>2
    <3>4. known[x] => b
      BY <3>1 DEF TypeOK
    <3>5. QED BY <3>1, <3>2, <3>3, <3>4 DEF TypeOK
  <2>3. QED BY <2>1, <2>2
<1>7. ASSUME NEW x \in Browsers, VerifyPassword(x) PROVE TypeOK'
  BY <1>7 DEF VerifyPassword, Goto, TypeOK
<1>8. ASSUME NEW x \in Browsers, FailIp(x) PROVE TypeOK'
  <2>1. entries' \in [Keys -> Entry] /\ failed' \in BOOLEAN
    BY <1>8, KeysOfRequests, TableTypes DEF FailIp
  <2>2. CASE Answer(x) BY <1>8, <2>1, <2>2, AnswerTypes DEF FailIp
  <2>3. CASE ~Answer(x) BY <1>8, <2>1, <2>3 DEF FailIp, Goto, TypeOK
  <2>4. QED BY <2>2, <2>3
<1>9. ASSUME NEW x \in Browsers, FailName(x) PROVE TypeOK'
  <2>1. entries' \in [Keys -> Entry] /\ failed' \in BOOLEAN
    BY <1>9, KeysOfRequests, TableTypes DEF FailName
  <2>2. QED BY <1>9, <2>1, AnswerTypes DEF FailName
<1>10. ASSUME NEW x \in Browsers, ResetIp(x) \/ ResetName(x) PROVE TypeOK'
  <2>1. entries' \in [Keys -> Entry] /\ failed' \in BOOLEAN
    BY <1>10, KeysOfRequests, TableTypes DEF ResetIp, ResetName
  <2>2. QED BY <1>10, <2>1 DEF ResetIp, ResetName, Goto, TypeOK
<1>11. ASSUME NEW x \in Browsers, CreateFirstUser(x) PROVE TypeOK'
  <2>1. CASE Answer(x) /\ UNCHANGED users
    BY <1>11, <2>1, AnswerTypes DEF CreateFirstUser, TypeOK
  <2>2. CASE ~(Answer(x) /\ UNCHANGED users)
    <3>1. pc[x] = "first" /\ name[x] \in Names
      BY <1>11 DEF CreateFirstUser, TypeOK
    <3>2. /\ users' = [users EXCEPT ![name[x]] = "setup"]
          /\ known' = [known EXCEPT ![x] = TRUE]
          /\ pc' = [pc EXCEPT ![x] = "create"]
          /\ UNCHANGED <<entries, failed, session, op, name, late>>
      BY <1>11, <2>2 DEF CreateFirstUser, Goto
    <3>3. \A n \in Names : users[n] # "none" => users'[n] # "none"
      BY <3>1, <3>2 DEF TypeOK
    <3>4. \A y \in Browsers : session'[y] # NoSession => users'[session'[y].user] # "none"
      BY <3>2, <3>3, SessionNames DEF TypeOK
    <3>5. QED BY <3>1, <3>2, <3>3, <3>4 DEF TypeOK
  <2>3. QED BY <2>1, <2>2
<1>12. ASSUME NEW x \in Browsers, SetPassword(x) PROVE TypeOK'
  <2>1. CASE Answer(x) /\ UNCHANGED session
    BY <1>12, <2>1, AnswerTypes DEF SetPassword, TypeOK
  <2>2. CASE ~(Answer(x) /\ UNCHANGED session)
    <3>1. pc[x] = "set" /\ name[x] \in Names
      BY <1>12 DEF SetPassword, TypeOK
    <3>2. /\ session' = Revoked(name[x])
          /\ late' = [y \in Browsers |->
               IF y = x THEN FALSE ELSE known[y] /\ (late[y] \/ name[y] = name[x])]
          /\ pc' = [pc EXCEPT ![x] = "create"]
          /\ UNCHANGED <<entries, failed, users, op, name, known>>
      BY <1>12, <2>2, <3>1, NoneLeft DEF SetPassword, Goto
    <3> DEFINE l(y) == IF y = x THEN FALSE ELSE known[y] /\ (late[y] \/ name[y] = name[x])
    <3>5. \A y \in Browsers : l(y) \in BOOLEAN /\ (l(y) => known[y])
      BY DEF TypeOK
    <3>6. late' = [y \in Browsers |-> l(y)] BY <3>2
    <3> HIDE DEF l
    <3>7. /\ late' \in [Browsers -> BOOLEAN]
          /\ \A y \in Browsers : late'[y] => known[y]
      BY <3>5, <3>6
    <3>3. /\ session' \in [Browsers -> Session \cup {NoSession}]
          /\ \A y \in Browsers : session'[y] # NoSession => users[session'[y].user] # "none"
      BY <3>1, <3>2, RevokedTypes DEF TypeOK
    <3>4. QED BY <3>1, <3>2, <3>3, <3>7 DEF TypeOK
  <2>3. QED BY <2>1, <2>2
<1>13. ASSUME NEW x \in Browsers, CreateSession(x) PROVE TypeOK'
  <2>1. name[x] \in Names /\ users[name[x]] # "none"
    BY <1>13 DEF CreateSession, TypeOK
  <2>2. [user |-> name[x], late |-> late[x], former |-> late[x]] \in Session
    BY <2>1 DEF TypeOK, Session
  <2>3. /\ session' \in [Browsers -> Session \cup {NoSession}]
        /\ \A y \in Browsers : session'[y] # NoSession => users[session'[y].user] # "none"
    BY <1>13, <2>1, <2>2 DEF CreateSession, TypeOK
  <2>4. /\ op' = [op EXCEPT ![x] = "none"] /\ name' = [name EXCEPT ![x] = NoName]
        /\ known' = [known EXCEPT ![x] = FALSE] /\ late' = [late EXCEPT ![x] = FALSE]
        /\ pc' = [pc EXCEPT ![x] = "idle"]
        /\ UNCHANGED <<entries, failed, users>>
    BY <1>13 DEF CreateSession, Answer, Goto
  <2>5. /\ op' \in [Browsers -> Ops] /\ pc' \in [Browsers -> PC]
        /\ name' \in [Browsers -> Names \cup {NoName}]
        /\ known' \in [Browsers -> BOOLEAN] /\ late' \in [Browsers -> BOOLEAN]
    BY <2>4 DEF TypeOK, Ops, PC
  <2>6. QED BY <2>3, <2>4, <2>5 DEF TypeOK
<1>14. ASSUME NEW x \in Browsers, Logout(x) \/ Expire(x) PROVE TypeOK'
  BY <1>14 DEF Logout, Expire, request, TypeOK
<1>15. ASSUME Tick PROVE TypeOK'
  <2>1. entries' \in [Keys -> Entry] /\ failed' \in BOOLEAN
    BY <1>15, TableTypes DEF Tick
  <2>2. QED BY <1>15, <2>1 DEF Tick, request, TypeOK
<1>16. ASSUME Restart PROVE TypeOK'
  <2>1. entries' \in [Keys -> Entry] /\ failed' \in BOOLEAN
    BY <1>16, NoneType DEF Restart
  <2>2. QED
    <3>1. /\ users' \in [Names -> {"none", "setup", "seed"}]
          /\ \A n \in Names : users[n] # "none" => users'[n] # "none"
      BY <1>16, LoginsAssumption DEF Restart, TypeOK
    <3>2. /\ session' \in [Browsers -> Session \cup {NoSession}]
          /\ \A y \in Browsers : session'[y] \in {session[y], NoSession}
      BY <1>16, RevokedTypes, NoneLeft, LoginsAssumption DEF Restart, TypeOK
    <3>3. \A y \in Browsers : session'[y] # NoSession => users'[session'[y].user] # "none"
      BY <3>1, <3>2, SessionNames DEF TypeOK
    <3>4. QED BY <1>16, <2>1, <3>1, <3>2, <3>3, LoginsAssumption DEF Restart, TypeOK
<1>17. CASE UNCHANGED vars
  BY <1>17 DEF vars, TypeOK
<1>18. QED
  BY <1>1, <1>2, <1>3, <1>4, <1>5, <1>6, <1>7, <1>8, <1>9, <1>10, <1>11, <1>12,
     <1>13, <1>14, <1>15, <1>16, <1>17
  DEF Next, RequestStep

\* A request knows whose account it is about, no session is without its account, and
\* only who has read an account gets so far as to open a session on it.
THEOREM TypeCorrect == Spec => []TypeOK
<1>1. QED BY InitTypes, NextTypes, PTL DEF Spec

------------------------------------------------------------------------------
(* Accounts and sessions.                                                    *)

\* The first-run setup makes one account at most, and only where there was none: of
\* two that run side by side the second finds the first one's row.
THEOREM SetupClaims == Spec => []ClaimedOnce
<1>1. Init => ClaimedOnce
  BY DEF Init, ClaimedOnce
<1>2. TypeOK /\ ClaimedOnce /\ [Next]_vars => ClaimedOnce'
  <2> SUFFICES ASSUME TypeOK, ClaimedOnce, [Next]_vars PROVE ClaimedOnce'
    OBVIOUS
  <2>1. ASSUME NEW x \in Browsers, CreateFirstUser(x) PROVE ClaimedOnce'
    BY <2>1 DEF CreateFirstUser, NoneYet, ClaimedOnce, TypeOK
  <2>2. ASSUME Restart PROVE ClaimedOnce'
    BY <2>2 DEF Restart, ClaimedOnce, TypeOK
  <2>3. CASE UNCHANGED users
    BY <2>3 DEF ClaimedOnce
  <2>4. QED
    BY <2>1, <2>2, <2>3
    DEF Next, RequestStep, LoginCall, SetupCall, ChangeCall, AllowedIp, AllowedName,
        GetUserByName, VerifyPassword, FailIp, FailName, ResetIp, ResetName,
        SetPassword, CreateSession, Logout, Expire, Tick, vars
<1>3. QED BY <1>1, <1>2, TypeCorrect, PTL DEF Spec

\* Every session that outlived the password it was earned with was opened by a request
\* that had read the account before the password was changed.
THEOREM EarnedSessions == Spec => []SessionsAreEarned
<1>1. Init => SessionsAreEarned
  BY DEF Init, SessionsAreEarned
<1>2. TypeOK /\ SessionsAreEarned /\ [Next]_vars => SessionsAreEarned'
  <2> SUFFICES ASSUME TypeOK, SessionsAreEarned, [Next]_vars PROVE SessionsAreEarned'
    OBVIOUS
  <2>1. ASSUME NEW x \in Browsers, CreateSession(x) PROVE SessionsAreEarned'
    BY <2>1 DEF CreateSession, SessionsAreEarned, TypeOK
  <2>2. ASSUME NEW x \in Browsers, SetPassword(x) PROVE SessionsAreEarned'
    <3>1. UNCHANGED session \/ session' = Revoked(name[x])
      BY <2>2, NoneLeft DEF SetPassword, TypeOK
    <3>2. QED BY <3>1 DEF Revoked, SessionsAreEarned
  <2>3. ASSUME NEW x \in Browsers, Logout(x) \/ Expire(x) PROVE SessionsAreEarned'
    BY <2>3 DEF Logout, Expire, SessionsAreEarned, TypeOK
  <2>4. ASSUME Restart PROVE SessionsAreEarned'
    <3>1. UNCHANGED session \/ session' = Revoked(Admin)
      BY <2>4, NoneLeft, LoginsAssumption DEF Restart
    <3>2. QED BY <3>1 DEF Revoked, SessionsAreEarned
  <2>5. CASE UNCHANGED session
    BY <2>5 DEF SessionsAreEarned
  <2>6. QED
    BY <2>1, <2>2, <2>3, <2>4, <2>5
    DEF Next, RequestStep, LoginCall, SetupCall, ChangeCall, AllowedIp, AllowedName,
        GetUserByName, VerifyPassword, FailIp, FailName, ResetIp, ResetName,
        CreateFirstUser, Tick, vars
<1>3. QED BY <1>1, <1>2, TypeCorrect, PTL DEF Spec

------------------------------------------------------------------------------
(* The limiter.                                                              *)

\* Requests keep to the steps of their kind.
LEMMA KindsStay == TypeOK /\ StepsOfKind /\ [Next]_vars => StepsOfKind'
<1> SUFFICES ASSUME TypeOK, StepsOfKind, [Next]_vars PROVE StepsOfKind'
  OBVIOUS
<1>1. ASSUME NEW x \in Browsers,
             LoginCall(x) \/ SetupCall(x) \/ ChangeCall(x)
      PROVE  StepsOfKind'
  BY <1>1 DEF LoginCall, SetupCall, ChangeCall, Begin, Goto, StepsOfKind, TypeOK
<1>2. ASSUME NEW x \in Browsers, Answer(x) PROVE StepsOfKind'
  BY <1>2 DEF Answer, Goto, StepsOfKind, TypeOK
<1>3. ASSUME NEW x \in Browsers, RequestStep(x), ~Answer(x) PROVE StepsOfKind'
  <2> DEFINE To(where) == pc' = [pc EXCEPT ![x] = where] /\ UNCHANGED op
  <2>1. CASE AllowedIp(x)
    <3>1. \/ op[x] = "login" /\ To("name")
          \/ op[x] = "setup" /\ (To("failIp") \/ To("first"))
      BY <1>3, <2>1 DEF AllowedIp, Goto
    <3>2. QED BY <3>1 DEF StepsOfKind, TypeOK
  <2>2. CASE AllowedName(x)
    <3>1. op[x] \in {"login", "change"}
      BY <2>2 DEF AllowedName, StepsOfKind
    <3>2. IF op[x] = "login" THEN To("read") ELSE To("verify")
      BY <1>3, <2>2 DEF AllowedName, Goto
    <3>3. QED BY <3>1, <3>2 DEF StepsOfKind, TypeOK
  <2>3. CASE GetUserByName(x)
    <3>1. op[x] = "login" /\ To("verify")
      BY <1>3, <2>3 DEF GetUserByName, Goto, StepsOfKind
    <3>2. QED BY <3>1 DEF StepsOfKind, TypeOK
  <2>4. CASE VerifyPassword(x)
    <3>1. /\ op[x] \in {"login", "change"}
          /\ IF op[x] = "login" THEN To("resetIp") \/ To("failIp")
             ELSE To("set") \/ To("failName")
      BY <2>4 DEF VerifyPassword, Goto, StepsOfKind
    <3>2. QED BY <3>1 DEF StepsOfKind, TypeOK
  <2>5. CASE FailIp(x) \/ ResetIp(x)
    <3>1. op[x] = "login" /\ (To("failName") \/ To("resetName"))
      BY <1>3, <2>5 DEF FailIp, ResetIp, Goto, StepsOfKind
    <3>2. QED BY <3>1 DEF StepsOfKind, TypeOK
  <2>6. CASE ResetName(x) \/ CreateFirstUser(x) \/ SetPassword(x)
    <3>1. To("create")
      BY <1>3, <2>6 DEF ResetName, CreateFirstUser, SetPassword, Goto
    <3>2. QED BY <3>1 DEF StepsOfKind, TypeOK
  <2>7. QED
    BY <1>3, <2>1, <2>2, <2>3, <2>4, <2>5, <2>6
    DEF RequestStep, FailName, CreateSession
<1>4. ASSUME Restart PROVE StepsOfKind'
  BY <1>4 DEF Restart, StepsOfKind
<1>5. CASE UNCHANGED request
  BY <1>5 DEF request, StepsOfKind
<1>6. QED
  BY <1>1, <1>2, <1>3, <1>4, <1>5
  DEF Next, Logout, Expire, Tick, vars, request

\* A lock is never over before the window in which it was earned.
LEMMA LocksStay == TypeOK /\ LocksOutlive /\ [Next]_vars => LocksOutlive'
<1> SUFFICES ASSUME TypeOK, LocksOutlive, [Next]_vars PROVE LocksOutlive'
  OBVIOUS
<1>1. \A k \in Keys : /\ entries[k] \in Entry /\ entries[k].failures \in Nat
                      /\ entries[k].age \in Nat /\ entries[k].lock \in Nat
                      /\ entries[k].lock =< Window
  BY LimiterAssumption DEF TypeOK, Entry
<1>2. ASSUME NEW j \in Keys, Fail(j) PROVE LocksOutlive'
  <2>1. SUFFICES ASSUME NEW k \in Keys
                 PROVE  /\ entries'[k].failures = 0 => entries'[k] = None
                        /\ entries'[k].failures > 0 /\ entries'[k].age = 0 => failed'
                        /\ entries'[k].failures >= MaxFailures =>
                             /\ entries'[k].lock > 0
                             /\ entries'[k].age =< Window =>
                                  entries'[k].lock + entries'[k].age > Window
    BY DEF LocksOutlive
  <2>2. CASE k # j
    BY <1>2, <2>2 DEF Fail, LocksOutlive, TypeOK
  <2>3. CASE k = j
    <3>1. entries'[k] = Counted(entries[k]) /\ failed' /\ ~failed
      BY <1>2, <2>3 DEF Fail, TypeOK
    <3>2. CASE entries[k] = None \/ entries[k].age > Window
      BY <3>1, <3>2, LimiterAssumption DEF Counted, First
    <3>3. CASE ~(entries[k] = None \/ entries[k].age > Window)
      <4>1. /\ entries'[k].failures = entries[k].failures + 1
            /\ entries'[k].age = entries[k].age
            /\ entries'[k].lock = IF entries[k].failures + 1 >= MaxFailures
                                    THEN Window ELSE entries[k].lock
        BY <3>1, <3>3 DEF Counted
      <4>2. entries[k].age > 0
        BY <1>1, <3>1, <3>3 DEF LocksOutlive
      <4>3. QED BY <1>1, <3>1, <4>1, <4>2, LimiterAssumption
    <3>4. QED BY <3>2, <3>3
  <2>4. QED BY <2>2, <2>3
<1>3. ASSUME NEW j \in Keys, Reset(j) PROVE LocksOutlive'
  BY <1>3, LimiterAssumption DEF Reset, None, LocksOutlive, TypeOK
<1>4. ASSUME TimePasses PROVE LocksOutlive'
  <2>1. SUFFICES ASSUME NEW k \in Keys
                 PROVE  /\ entries'[k].failures = 0 => entries'[k] = None
                        /\ entries'[k].failures > 0 /\ entries'[k].age = 0 => failed'
                        /\ entries'[k].failures >= MaxFailures =>
                             /\ entries'[k].lock > 0
                             /\ entries'[k].age =< Window =>
                                  entries'[k].lock + entries'[k].age > Window
    BY DEF LocksOutlive
  <2>2. entries'[k] = Aged(entries[k])
    BY <1>4 DEF TimePasses
  <2>3. CASE entries'[k] = None
    BY <2>3, LimiterAssumption DEF None
  <2>4. CASE entries'[k] # None
    <3>1. /\ entries[k] # None /\ ~(entries[k].age >= Window /\ entries[k].lock =< 1)
          /\ entries'[k].failures = entries[k].failures
          /\ entries'[k].age = IF entries[k].age > Window THEN entries[k].age
                                 ELSE entries[k].age + 1
          /\ entries'[k].lock = IF entries[k].lock = 0 THEN 0 ELSE entries[k].lock - 1
      BY <2>2, <2>4 DEF Aged
    <3>2. /\ entries[k].failures # 0
          /\ entries[k].failures >= MaxFailures =>
               /\ entries[k].lock > 0
               /\ entries[k].age =< Window => entries[k].lock + entries[k].age > Window
      BY <3>1 DEF LocksOutlive
    <3>3. QED BY <1>1, <3>1, <3>2, LimiterAssumption
  <2>5. QED BY <2>3, <2>4
<1>5. ASSUME Restart PROVE LocksOutlive'
  BY <1>5, LimiterAssumption DEF Restart, NoEntries, None, LocksOutlive
<1>6. CASE UNCHANGED <<entries, failed>>
  BY <1>6 DEF LocksOutlive
<1>7. QED
  BY <1>2, <1>3, <1>4, <1>5, <1>6, KeysOfRequests
  DEF Next, RequestStep, LoginCall, SetupCall, ChangeCall, AllowedIp, AllowedName,
      GetUserByName, VerifyPassword, FailIp, FailName, ResetIp, ResetName,
      CreateFirstUser, SetPassword, CreateSession, Logout, Expire, Tick, vars

\* Nobody comes to be able to fail on a key unless the limiter lets him.
LEMMA MayFailGrows ==
  ASSUME TypeOK, StepsOfKind, [Next]_vars, NEW k \in Keys, NEW y \in MayFail(k)'
  PROVE  y \in MayFail(k) \/ Allowed(k)
<1>1. y \in Browsers
  BY DEF MayFail
<1>2. CASE op'[y] = op[y] /\ pc'[y] = pc[y] /\ name'[y] = name[y]
  BY <1>1, <1>2 DEF MayFail
<1>3. ASSUME NEW x \in Browsers,
             LoginCall(x) \/ SetupCall(x) \/ ChangeCall(x), x = y
      PROVE  y \in MayFail(k) \/ Allowed(k)
  <2>1. pc'[y] = "ip" \/ (op'[y] = "change" /\ pc'[y] = "name")
    BY <1>1, <1>3 DEF LoginCall, SetupCall, ChangeCall, Begin, Goto, TypeOK
  <2>2. QED BY <2>1 DEF MayFail
<1>4. ASSUME NEW x \in Browsers, Answer(x), x = y
      PROVE  y \in MayFail(k) \/ Allowed(k)
  <2>1. pc'[y] = "idle"
    BY <1>1, <1>4 DEF Answer, Goto, TypeOK
  <2>2. QED BY <2>1 DEF MayFail
<1>5. ASSUME NEW x \in Browsers, RequestStep(x), ~Answer(x), x = y
      PROVE  y \in MayFail(k) \/ Allowed(k)
  <2>1. UNCHANGED <<op, name>>
    BY <1>5
    DEF RequestStep, AllowedIp, AllowedName, GetUserByName, VerifyPassword, FailIp,
        FailName, ResetIp, ResetName, CreateFirstUser, SetPassword, CreateSession
  <2> DEFINE To(where) == pc'[y] = where
  <2>2. CASE AllowedIp(x)
    <3>1. Allowed(Address[y]) /\ (To("name") \/ To("failIp") \/ To("first"))
      BY <1>1, <1>5, <2>2 DEF AllowedIp, Goto, TypeOK
    <3>2. CASE Address[y] = k BY <3>1, <3>2
    <3>3. CASE Address[y] # k
      <4>1. To("failIp") => op[y] = "setup"
        BY <1>1, <1>5, <2>2 DEF AllowedIp, Goto, TypeOK
      <4>2. QED BY <2>1, <3>1, <3>3, <4>1 DEF MayFail
    <3>4. QED BY <3>2, <3>3
  <2>3. CASE AllowedName(x)
    <3>1. /\ Allowed(name[y]) /\ pc[y] = "name"
          /\ To("read") \/ To("verify")
      BY <1>1, <1>5, <2>3 DEF AllowedName, Goto, TypeOK
    <3>2. CASE name[y] = k BY <3>1, <3>2
    <3>3. CASE name[y] # k BY <1>1, <2>1, <3>1, <3>3 DEF MayFail
    <3>4. QED BY <3>2, <3>3
  <2>4. CASE GetUserByName(x)
    <3>1. pc[y] = "read" /\ To("verify")
      BY <1>1, <1>5, <2>4 DEF GetUserByName, Goto, TypeOK
    <3>2. QED BY <1>1, <2>1, <3>1 DEF MayFail
  <2>5. CASE VerifyPassword(x)
    <3>1. /\ pc[y] = "verify"
          /\ IF op[y] = "login" THEN To("resetIp") \/ To("failIp")
             ELSE To("set") \/ To("failName")
      BY <1>1, <1>5, <2>5 DEF VerifyPassword, Goto, TypeOK
    <3>2. QED BY <1>1, <2>1, <3>1 DEF MayFail
  <2>6. CASE FailIp(x)
    <3>1. pc[y] = "failIp" /\ To("failName")
      BY <1>1, <1>5, <2>6 DEF FailIp, Goto, TypeOK
    <3>2. QED BY <1>1, <2>1, <3>1 DEF MayFail
  <2>7. CASE ResetIp(x) \/ ResetName(x) \/ CreateFirstUser(x) \/ SetPassword(x)
    <3>1. To("resetName") \/ To("create")
      BY <1>1, <1>5, <2>7 DEF ResetIp, ResetName, CreateFirstUser, SetPassword, Goto, TypeOK
    <3>2. QED BY <3>1 DEF MayFail
  <2>8. QED
    BY <1>5, <2>2, <2>3, <2>4, <2>5, <2>6, <2>7
    DEF RequestStep, FailName, CreateSession
<1>6. ASSUME Restart PROVE y \in MayFail(k) \/ Allowed(k)
  <2>1. pc'[y] = "idle"
    BY <1>1, <1>6 DEF Restart
  <2>2. QED BY <2>1 DEF MayFail
<1>7. ASSUME NEW x \in Browsers, x # y,
             LoginCall(x) \/ SetupCall(x) \/ ChangeCall(x) \/ RequestStep(x)
      PROVE  op'[y] = op[y] /\ pc'[y] = pc[y] /\ name'[y] = name[y]
  <2>1. CASE LoginCall(x) \/ SetupCall(x) \/ ChangeCall(x)
    BY <1>1, <1>7, <2>1 DEF LoginCall, SetupCall, ChangeCall, Begin, Goto, TypeOK
  <2>2. CASE Answer(x)
    BY <1>1, <1>7, <2>2 DEF Answer, Goto, TypeOK
  <2>3. CASE RequestStep(x) /\ ~Answer(x)
    <3>1. UNCHANGED <<op, name>> /\ \E where \in PC : Goto(x, where)
      BY <2>3
      DEF RequestStep, AllowedIp, AllowedName, GetUserByName, VerifyPassword, FailIp,
          FailName, ResetIp, ResetName, CreateFirstUser, SetPassword, CreateSession, PC
    <3>2. QED BY <1>1, <1>7, <3>1 DEF Goto, TypeOK
  <2>4. QED BY <1>7, <2>1, <2>2, <2>3
<1>8. ASSUME UNCHANGED request PROVE y \in MayFail(k) \/ Allowed(k)
  BY <1>2, <1>8 DEF request
<1>9. ASSUME NEW x \in Browsers,
             LoginCall(x) \/ SetupCall(x) \/ ChangeCall(x) \/ RequestStep(x)
      PROVE  y \in MayFail(k) \/ Allowed(k)
  BY <1>2, <1>3, <1>4, <1>5, <1>7, <1>9
<1>10. QED
  BY <1>6, <1>8, <1>9 DEF Next, Logout, Expire, Tick, vars, request

\* Who reports a failure might have, and has done so.
LEMMA FailsOnce ==
  ASSUME TypeOK, StepsOfKind, NEW x \in Browsers
  PROVE  /\ FailIp(x) => x \in MayFail(Address[x]) /\ x \notin MayFail(Address[x])'
         /\ FailName(x) => x \in MayFail(name[x]) /\ \A k \in Keys : x \notin MayFail(k)'
<1>1. ASSUME FailName(x)
      PROVE  x \in MayFail(name[x]) /\ \A k \in Keys : x \notin MayFail(k)'
  <2>1. pc[x] = "failName" /\ op[x] \in {"login", "change"}
    BY <1>1 DEF FailName, StepsOfKind
  <2>2. pc'[x] = "idle" BY <1>1 DEF FailName, Answer, Goto, TypeOK
  <2>3. QED BY <2>1, <2>2 DEF MayFail
<1>2. ASSUME FailIp(x)
      PROVE  x \in MayFail(Address[x]) /\ x \notin MayFail(Address[x])'
  <2>1. pc[x] = "failIp" /\ op[x] \in {"login", "setup"}
    BY <1>2 DEF FailIp, StepsOfKind
  <2>2. x \in MayFail(Address[x]) BY <2>1 DEF MayFail
  <2>3. CASE Answer(x)
    <3>1. pc'[x] = "idle" BY <2>3 DEF Answer, Goto, TypeOK
    <3>2. QED BY <2>2, <3>1 DEF MayFail
  <2>4. CASE ~Answer(x)
    <3>1. pc'[x] = "failName" /\ name'[x] = name[x]
      BY <1>2, <2>4 DEF FailIp, Goto, TypeOK
    <3>2. Address[x] # name[x]
      BY <2>1, KeysOfRequests
    <3>3. QED BY <2>2, <3>1, <3>2 DEF MayFail
  <2>5. QED BY <2>3, <2>4
<1>3. QED BY <1>1, <1>2

\* What a step does to one key: count a failure of one request, forget or leave the
\* entry, or let it age.
LEMMA TableSteps ==
  ASSUME TypeOK, StepsOfKind, [Next]_vars, NEW k \in Keys
  PROVE  \/ entries'[k] \in {entries[k], None}
         \/ Tick /\ entries'[k] = Aged(entries[k])
         \/ \E x \in MayFail(k) : x \notin MayFail(k)' /\ entries'[k] = Counted(entries[k])
<1>1. ASSUME NEW x \in Browsers, FailIp(x), k = Address[x]
      PROVE  \E y \in MayFail(k) : y \notin MayFail(k)' /\ entries'[k] = Counted(entries[k])
  <2>1. entries'[k] = Counted(entries[k]) BY <1>1 DEF FailIp, Fail, TypeOK
  <2>2. QED BY <1>1, <2>1, FailsOnce
<1>2. ASSUME NEW x \in Browsers, FailName(x), k = name[x]
      PROVE  \E y \in MayFail(k) : y \notin MayFail(k)' /\ entries'[k] = Counted(entries[k])
  <2>1. entries'[k] = Counted(entries[k]) BY <1>2 DEF FailName, Fail, TypeOK
  <2>2. QED BY <1>2, <2>1, FailsOnce
<1>3. ASSUME NEW j \in Keys, j # k, Fail(j) PROVE entries'[k] = entries[k]
  BY <1>3 DEF Fail, TypeOK
<1>4. ASSUME NEW j \in Keys, Reset(j)
      PROVE  entries'[k] \in {entries[k], None}
  BY <1>4 DEF Reset, TypeOK
<1>5. ASSUME Tick PROVE entries'[k] = Aged(entries[k])
  BY <1>5 DEF Tick, TimePasses
<1>6. ASSUME Restart PROVE entries'[k] = None
  BY <1>6 DEF Restart, NoEntries
<1>7. CASE UNCHANGED entries BY <1>7
<1>8. ASSUME NEW x \in Browsers, FailIp(x) \/ FailName(x)
      PROVE  \/ entries'[k] = entries[k]
             \/ FailIp(x) /\ k = Address[x]
             \/ FailName(x) /\ k = name[x]
  <2>1. Address[x] \in Keys /\ (FailName(x) => name[x] \in Keys)
    BY KeysOfRequests DEF FailName
  <2>2. QED BY <1>3, <1>8, <2>1 DEF FailIp, FailName
<1>9. ASSUME NEW x \in Browsers, ResetIp(x) \/ ResetName(x)
      PROVE  entries'[k] \in {entries[k], None}
  <2>1. Address[x] \in Keys /\ (ResetName(x) => name[x] \in Keys)
    BY KeysOfRequests DEF ResetName
  <2>2. QED BY <1>4, <1>9, <2>1 DEF ResetIp, ResetName
<1>10. QED
  BY <1>1, <1>2, <1>5, <1>6, <1>7, <1>8, <1>9
  DEF Next, RequestStep, LoginCall, SetupCall, ChangeCall, AllowedIp, AllowedName,
      GetUserByName, VerifyPassword, CreateFirstUser, SetPassword, CreateSession,
      Logout, Expire, vars

\* A failure that counts beyond the limit is one fewer to come.
LEMMA NoneTwiceStays ==
  TypeOK /\ StepsOfKind /\ LocksOutlive /\ NoneTwice /\ [Next]_vars => NoneTwice'
<1> SUFFICES ASSUME TypeOK, StepsOfKind, LocksOutlive, NoneTwice, [Next]_vars,
                    NEW k \in Keys, entries'[k].failures >= MaxFailures
             PROVE  entries'[k].failures + Cardinality(MayFail(k)')
                      =< MaxFailures - 1 + Cardinality(Browsers)
  BY DEF NoneTwice
<1> DEFINE M == MayFail(k)
           N == MayFail(k)'
<1>1. /\ M \in SUBSET Browsers /\ N \in SUBSET Browsers
      /\ IsFiniteSet(M) /\ IsFiniteSet(N) /\ IsFiniteSet(Browsers)
      /\ Cardinality(M) \in Nat /\ Cardinality(N) \in Nat /\ Cardinality(Browsers) \in Nat
  <2>1. M \in SUBSET Browsers /\ N \in SUBSET Browsers BY DEF MayFail
  <2>2. IsFiniteSet(Browsers) BY LoginsAssumption
  <2>3. IsFiniteSet(M) /\ IsFiniteSet(N) BY <2>1, <2>2, FS_Subset
  <2>4. QED BY <2>1, <2>2, <2>3, FS_CardinalityType
<1>2. MaxFailures \in Nat /\ MaxFailures > 1 /\ entries[k].failures \in Nat
  <2>1. entries[k] \in Entry BY DEF TypeOK
  <2>2. entries[k].failures \in Nat BY <2>1 DEF Entry
  <2>3. QED BY <2>2, LimiterAssumption
<1>3. entries[k].failures >= MaxFailures => N \subseteq M
  BY <1>2, MayFailGrows DEF LocksOutlive, Allowed
<1> HIDE DEF M, N
<1>4. CASE entries'[k].failures \in {entries[k].failures, 0}
  <2>1. entries'[k].failures = entries[k].failures
    BY <1>2, <1>4
  <2>2. Cardinality(N) =< Cardinality(M)
    BY <1>1, <1>3, <2>1, FS_Subset
  <2>3. entries[k].failures + Cardinality(M) =< MaxFailures - 1 + Cardinality(Browsers)
    BY <2>1 DEF NoneTwice, M
  <2>4. QED BY <1>1, <1>2, <2>1, <2>2, <2>3 DEF N
<1>5. ASSUME NEW x \in M, x \notin N, entries'[k] = Counted(entries[k])
      PROVE  entries'[k].failures + Cardinality(N) =< MaxFailures - 1 + Cardinality(Browsers)
  <2>1. entries'[k].failures = entries[k].failures + 1
    BY <1>2, <1>5 DEF Counted, First
  <2>2. CASE entries[k].failures >= MaxFailures
    <3>1. N \in SUBSET (M \ {x}) BY <1>3, <1>5, <2>2
    <3>2. IsFiniteSet(M \ {x}) /\ Cardinality(M \ {x}) = Cardinality(M) - 1
      BY <1>1, <1>5, FS_RemoveElement
    <3>3. Cardinality(N) =< Cardinality(M) - 1 BY <3>1, <3>2, FS_Subset
    <3>4. entries[k].failures + Cardinality(M) =< MaxFailures - 1 + Cardinality(Browsers)
      BY <2>2 DEF NoneTwice, M
    <3>5. QED BY <1>1, <1>2, <2>1, <3>3, <3>4
  <2>3. CASE ~(entries[k].failures >= MaxFailures)
    <3>1. N \in SUBSET (Browsers \ {x}) BY <1>1, <1>5
    <3>2. /\ IsFiniteSet(Browsers \ {x})
          /\ Cardinality(Browsers \ {x}) = Cardinality(Browsers) - 1
      BY <1>1, <1>5, FS_RemoveElement
    <3>3. Cardinality(N) =< Cardinality(Browsers) - 1 BY <3>1, <3>2, FS_Subset
    <3>4. QED BY <1>1, <1>2, <2>1, <2>3, <3>3
  <2>4. QED BY <2>2, <2>3
<1>6. CASE entries'[k] \in {entries[k], None, Aged(entries[k])}
  <2>1. entries'[k].failures \in {entries[k].failures, 0}
    BY <1>6 DEF None, Aged
  <2>2. QED BY <1>4, <2>1
<1>7. QED BY <1>5, <1>6, TableSteps DEF M, N

\* The invariant of the limiter, for all constants.
LEMMA InductiveInvariant == Spec => []IInv
<1>1. Init => IInv
  <2>1. ASSUME Init PROVE LocksOutlive /\ NoneTwice /\ StepsOfKind
    BY <2>1, LimiterAssumption
    DEF Init, AtRest, NoEntries, None, LocksOutlive, NoneTwice, StepsOfKind
  <2>2. QED BY <2>1, InitTypes DEF IInv
<1>2. IInv /\ [Next]_vars => IInv'
  BY NextTypes, KindsStay, LocksStay, NoneTwiceStays DEF IInv
<1>3. QED BY <1>1, <1>2, PTL DEF Spec

\* Between Allowed and Fail others fail too; what is counted beyond the limit is one
\* failure of each browser at most, and a new one is let in only when the window is over.
THEOREM BoundedFailures == Spec => []FailuresBounded
<1>1. IInv => FailuresBounded
  <2> SUFFICES ASSUME IInv, NEW k \in Keys
               PROVE  entries[k].failures =< MaxFailures - 1 + Cardinality(Browsers)
    BY DEF FailuresBounded
  <2>1. MayFail(k) \in SUBSET Browsers BY DEF MayFail
  <2>2. Cardinality(Browsers) \in Nat /\ Cardinality(MayFail(k)) \in Nat
    BY <2>1, LoginsAssumption, FS_Subset, FS_CardinalityType
  <2>3. entries[k].failures \in Nat
    BY DEF IInv, TypeOK, Entry
  <2>4. QED BY <2>2, <2>3, LimiterAssumption DEF IInv, NoneTwice
<1>2. QED BY <1>1, InductiveInvariant, PTL

------------------------------------------------------------------------------
(* Locks.                                                                    *)

\* An entry's lock runs down as the entry ages, and never below zero.
LEMMA LockAges ==
  ASSUME NEW e \in Entry, e.lock # 0
  PROVE  Aged(e).lock = e.lock - 1
<1>1. e.lock \in Nat /\ e.lock >= 1 /\ e.age \in Nat
  BY LimiterAssumption DEF Entry
<1>2. e # None BY DEF None
<1>3. CASE e.age >= Window /\ e.lock =< 1
  BY <1>1, <1>3 DEF Aged, None
<1>4. CASE ~(e.age >= Window /\ e.lock =< 1)
  BY <1>1, <1>2, <1>4 DEF Aged
<1>5. QED BY <1>3, <1>4

\* A lock that nobody let in before can renew runs down with time: refused tries do
\* not prolong it, as login and setup ask Allowed before they may call Fail.
THEOREM RefusalsDoNotProlong == Spec => LocksRunDown
<1>1. IInv /\ [Next]_vars =>
        [\A k \in Keys : ~Allowed(k) /\ MayFail(k) = {} =>
           /\ MayFail(k)' = {}
           /\ entries'[k].lock =< entries[k].lock
           /\ Tick => entries'[k].lock = entries[k].lock - 1]_vars
  <2> SUFFICES ASSUME IInv, [Next]_vars, NEW k \in Keys, ~Allowed(k), MayFail(k) = {}
               PROVE  /\ MayFail(k)' = {}
                      /\ entries'[k].lock =< entries[k].lock
                      /\ Tick => entries'[k].lock = entries[k].lock - 1
    OBVIOUS
  <2>1. TypeOK /\ StepsOfKind BY DEF IInv
  <2>2. entries[k] \in Entry BY <2>1 DEF TypeOK
  <2>3. entries[k].lock \in Nat /\ entries[k].lock # 0
    BY <2>2, LimiterAssumption DEF Entry, Allowed
  <2>4. MayFail(k)' = {}
    BY <2>1, MayFailGrows
  <2>5. Tick => entries'[k] = Aged(entries[k])
    BY DEF Tick, TimePasses
  <2>6. Aged(entries[k]).lock = entries[k].lock - 1
    BY <2>2, <2>3, LockAges
  <2>7. entries'[k] \in {entries[k], None, Aged(entries[k])}
    BY <2>1, TableSteps
  <2>8. entries'[k].lock =< entries[k].lock
    BY <2>3, <2>6, <2>7 DEF None
  <2>9. QED BY <2>4, <2>5, <2>6, <2>8
<1>2. QED BY <1>1, InductiveInvariant, PTL DEF Spec, LocksRunDown
=============================================================================
