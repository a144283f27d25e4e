------------------------------- MODULE Logins --------------------------------
(***************************************************************************)
(* Dashboard accounts: the first-run setup, logins, password changes and   *)
(* logouts (internal/web/auth.go), on tables users and sessions            *)
(* (internal/store/users.go) and the login limiter (module Limiter), and   *)
(* the configured account that a start creates or resets (seedAdmin in     *)
(* cmd/jellybird/main.go).                                                 *)
(*                                                                         *)
(* Requests run side by side; each step is one statement, one call of the  *)
(* limiter, or one check of a password, which takes long.  A browser waits *)
(* for one answer before it sends the next request.                        *)
(*                                                                         *)
(* Abstracted: passwords and hashes (a check comes out right or wrong),    *)
(* tokens (a browser's session is the row its cookie names; a row whose    *)
(* token nobody has is left out), and the rules for names and passwords.   *)
(***************************************************************************)
EXTENDS Limiter, FiniteSets

CONSTANTS
  Browsers, Names,
  Addresses, Address,   \* Address[x]: where browser x calls from
  Typed,                \* names that login forms are filled in with
  Admin,                \* the account a start may be told to seed
  NoName, NoSession

ASSUME LoginsAssumption ==
  /\ Keys = Addresses \cup Names /\ Addresses \cap Names = {}
  /\ Address \in [Browsers -> Addresses]
  /\ IsFiniteSet(Browsers)
  /\ Typed \subseteq Names /\ Admin \in Names /\ NoName \notin Names

VARIABLES
  users,     \* table users: how each account came to be
  session,   \* per browser, the row of table sessions its cookie names
  op,        \* the request it waits for
  pc,        \* the step that request is at
  name,      \* the account it is about
  known,     \* has it read that account's row?
  late       \* has the password been changed since it read it?

vars == <<entries, failed, users, session, op, pc, name, known, late>>
request == <<op, pc, name, known, late>>

Ops == {"none", "login", "setup", "change"}
PC == {"idle", "ip", "name", "read", "verify", "failIp", "failName",
       "resetIp", "resetName", "first", "set", "create"}

Session == [user : Names, late : BOOLEAN, former : BOOLEAN]

TypeOK ==
  /\ entries \in [Keys -> Entry] /\ failed \in BOOLEAN
  /\ users \in [Names -> {"none", "setup", "seed"}]
  /\ session \in [Browsers -> Session \cup {NoSession}]
  /\ op \in [Browsers -> Ops] /\ pc \in [Browsers -> PC]
  /\ name \in [Browsers -> Names \cup {NoName}]
  /\ known \in [Browsers -> BOOLEAN] /\ late \in [Browsers -> BOOLEAN]
  /\ \A x \in Browsers :
       /\ pc[x] = "idle" <=> op[x] = "none"
       /\ pc[x] = "idle" <=> name[x] = NoName
       /\ known[x] => pc[x] # "idle" /\ users[name[x]] # "none"
       /\ pc[x] \in {"set", "resetIp", "resetName", "create"} => known[x]
       /\ late[x] => known[x]
       /\ session[x] # NoSession => users[session[x].user] # "none"

\* Nothing is running.
AtRest ==
  /\ op = [x \in Browsers |-> "none"] /\ pc = [x \in Browsers |-> "idle"]
  /\ name = [x \in Browsers |-> NoName]
  /\ known = [x \in Browsers |-> FALSE] /\ late = [x \in Browsers |-> FALSE]

Init ==
  /\ entries = NoEntries /\ failed = FALSE
  /\ users = [n \in Names |-> "none"]
  /\ session = [x \in Browsers |-> NoSession]
  /\ AtRest

Goto(x, where) == pc' = [pc EXCEPT ![x] = where]

Begin(x, o, n, where) ==
  /\ pc[x] = "idle"
  /\ op' = [op EXCEPT ![x] = o] /\ name' = [name EXCEPT ![x] = n]
  /\ Goto(x, where)

\* The answer is sent.
Answer(x) ==
  /\ op' = [op EXCEPT ![x] = "none"] /\ name' = [name EXCEPT ![x] = NoName]
  /\ known' = [known EXCEPT ![x] = FALSE] /\ late' = [late EXCEPT ![x] = FALSE]
  /\ Goto(x, "idle")

NoneYet == \A n \in Names : users[n] = "none"

-----------------------------------------------------------------------------
(* Requests.                                                                 *)

\* POST /login
LoginCall(x) ==
  /\ \E n \in Typed : Begin(x, "login", n, "ip")
  /\ UNCHANGED <<entries, failed, users, session, known, late>>

\* POST /setup is for the first account.
SetupCall(x) ==
  /\ NoneYet
  /\ \E n \in Names : Begin(x, "setup", n, "ip")
  /\ UNCHANGED <<entries, failed, users, session, known, late>>

\* POST /api/account/password: apiAuth reads the session's user, the hash included.
ChangeCall(x) ==
  /\ session[x] # NoSession
  /\ Begin(x, "change", session[x].user, "name")
  /\ known' = [known EXCEPT ![x] = TRUE]
  /\ UNCHANGED <<entries, failed, users, session, late>>

\* Variant: a try during the lock makes it start anew.
RefusalExtends(x) ==
  /\ pc[x] = "ip"
  /\ \/ /\ ~Allowed(Address[x]) /\ Answer(x)
        /\ entries' = [entries EXCEPT ![Address[x]].lock = Window]
        /\ UNCHANGED failed
     \/ /\ Allowed(Address[x])
        /\ Goto(x, IF op[x] = "login" THEN "name" ELSE "first")
        /\ UNCHANGED <<entries, failed, op, name, known, late>>
  /\ UNCHANGED <<users, session>>

\* May this address try?  setup then looks at its token, whether right or wrong, and
\* at what was typed.
AllowedIp(x) ==
  /\ pc[x] = "ip"
  /\ \/ ~Allowed(Address[x]) /\ Answer(x)
     \/ /\ Allowed(Address[x]) /\ op[x] = "login"
        /\ Goto(x, "name") /\ UNCHANGED <<op, name, known, late>>
     \/ /\ Allowed(Address[x]) /\ op[x] = "setup"
        /\ \/ \E next \in {"failIp", "first"} : Goto(x, next) /\ UNCHANGED <<op, name, known, late>>
           \/ Answer(x)
  /\ UNCHANGED <<entries, failed, users, session>>

AllowedName(x) ==
  /\ pc[x] = "name"
  /\ IF Allowed(name[x])
     THEN /\ Goto(x, IF op[x] = "login" THEN "read" ELSE "verify")
          /\ UNCHANGED <<op, name, known, late>>
     ELSE Answer(x)
  /\ UNCHANGED <<entries, failed, users, session>>

\* login: the row with the hash, or an answer that there is none; else an error page.
GetUserByName(x) ==
  /\ pc[x] = "read"
  /\ \/ /\ Goto(x, "verify")
        /\ known' = [known EXCEPT ![x] = users[name[x]] # "none"]
        /\ UNCHANGED <<op, name, late>>
     \/ Answer(x)
  /\ UNCHANGED <<entries, failed, users, session>>

\* Variant: the password may be right although there is no such account.
VerifyAnything(x) ==
  /\ pc[x] = "verify"
  /\ \/ Goto(x, IF op[x] = "login" THEN "resetIp" ELSE "set")
     \/ Goto(x, IF op[x] = "login" THEN "failIp" ELSE "failName")
  /\ UNCHANGED <<entries, failed, users, session, op, name, known, late>>

\* VerifyPassword, against the hash that was read; BurnVerify, if there was none.
VerifyPassword(x) ==
  /\ pc[x] = "verify"
  /\ \/ known[x] /\ Goto(x, IF op[x] = "login" THEN "resetIp" ELSE "set")
     \/ Goto(x, IF op[x] = "login" THEN "failIp" ELSE "failName")
  /\ UNCHANGED <<entries, failed, users, session, op, name, known, late>>

FailIp(x) ==
  /\ pc[x] = "failIp"
  /\ Fail(Address[x])
  /\ IF op[x] = "login"
     THEN Goto(x, "failName") /\ UNCHANGED <<op, name, known, late>>
     ELSE Answer(x)
  /\ UNCHANGED <<users, session>>

FailName(x) ==
  /\ pc[x] = "failName"
  /\ Fail(name[x])
  /\ Answer(x)
  /\ UNCHANGED <<users, session>>

ResetIp(x) ==
  /\ pc[x] = "resetIp"
  /\ Reset(Address[x])
  /\ Goto(x, "resetName")
  /\ UNCHANGED <<users, session, op, name, known, late>>

ResetName(x) ==
  /\ pc[x] = "resetName"
  /\ Reset(name[x])
  /\ Goto(x, "create")
  /\ UNCHANGED <<users, session, op, name, known, late>>

\* Variant: trusts the count that setup took when it began.
CreateAnyUser(x) ==
  /\ pc[x] = "first"
  /\ \/ /\ users[name[x]] = "none"
        /\ users' = [users EXCEPT ![name[x]] = "setup"]
        /\ known' = [known EXCEPT ![x] = TRUE]
        /\ Goto(x, "create")
        /\ UNCHANGED <<op, name, late>>
     \/ Answer(x) /\ UNCHANGED users
  /\ UNCHANGED <<entries, failed, session>>

\* setup: one statement finds that there is no account and inserts this one.
CreateFirstUser(x) ==
  /\ pc[x] = "first"
  /\ \/ /\ NoneYet
        /\ users' = [users EXCEPT ![name[x]] = "setup"]
        /\ known' = [known EXCEPT ![x] = TRUE]
        /\ Goto(x, "create")
        /\ UNCHANGED <<op, name, late>>
     \/ Answer(x) /\ UNCHANGED users
  /\ UNCHANGED <<entries, failed, session>>

\* Variant: other browsers stay logged in.
KeepSessions(n) == session

\* The sessions that SetPassword's transaction leaves.
Revoked(n) ==
  [x \in Browsers |->
    IF session[x] # NoSession /\ session[x].user = n THEN NoSession ELSE session[x]]

\* Any session of the account among them was earned by a former password from now on.
Outdated(n, left) ==
  [x \in Browsers |->
    IF left[x] # NoSession /\ left[x].user = n
      THEN [left[x] EXCEPT !.former = TRUE] ELSE left[x]]

\* changePassword: SetPassword; what others have read of the account is history.
SetPassword(x) ==
  /\ pc[x] = "set"
  /\ \/ /\ session' = Outdated(name[x], Revoked(name[x]))
        /\ late' = [y \in Browsers |->
             IF y = x THEN FALSE
             ELSE known[y] /\ (late[y] \/ name[y] = name[x])]
        /\ Goto(x, "create")
        /\ UNCHANGED <<op, name, known>>
     \/ Answer(x) /\ UNCHANGED session
  /\ UNCHANGED <<entries, failed, users>>

\* startSession: if the row is written and the answer arrives, the cookie is set.
CreateSession(x) ==
  /\ pc[x] = "create"
  /\ session' \in {session,
       [session EXCEPT ![x] = [user |-> name[x], late |-> late[x], former |-> late[x]]]}
  /\ Answer(x)
  /\ UNCHANGED <<entries, failed, users>>

RequestStep(x) ==
  \/ AllowedIp(x) \/ AllowedName(x) \/ GetUserByName(x) \/ VerifyPassword(x)
  \/ FailIp(x) \/ FailName(x) \/ ResetIp(x) \/ ResetName(x)
  \/ CreateFirstUser(x) \/ SetPassword(x) \/ CreateSession(x)

\* The cookie is dropped even if DeleteSession fails; and sessions expire.
Logout(x) ==
  /\ pc[x] = "idle" /\ session[x] # NoSession
  /\ session' = [session EXCEPT ![x] = NoSession]
  /\ UNCHANGED <<entries, failed, users, request>>

Expire(x) ==
  /\ session[x] # NoSession
  /\ session' = [session EXCEPT ![x] = NoSession]
  /\ UNCHANGED <<entries, failed, users, request>>

-----------------------------------------------------------------------------
(* Time and restarts.                                                        *)

Tick == TimePasses /\ UNCHANGED <<users, session, request>>

\* The limiter is in memory only.  A start may be told to seed an account: seedAdmin
\* creates it, or resets its password unless it is the configured one already.
Restart ==
  /\ entries' = NoEntries /\ failed' = FALSE
  /\ op' = [x \in Browsers |-> "none"] /\ pc' = [x \in Browsers |-> "idle"]
  /\ name' = [x \in Browsers |-> NoName]
  /\ known' = [x \in Browsers |-> FALSE] /\ late' = [x \in Browsers |-> FALSE]
  /\ \/ UNCHANGED <<users, session>>
     \/ /\ users[Admin] = "none"
        /\ users' = [users EXCEPT ![Admin] = "seed"]
        /\ UNCHANGED session
     \/ /\ users[Admin] # "none"
        /\ session' = Outdated(Admin, Revoked(Admin))
        /\ UNCHANGED users

Next ==
  \/ \E x \in Browsers :
       \/ LoginCall(x) \/ SetupCall(x) \/ ChangeCall(x)
       \/ RequestStep(x) \/ Logout(x) \/ Expire(x)
  \/ Tick \/ Restart

Spec == Init /\ [][Next]_vars

\* Time passes.
FairSpec == Spec /\ WF_vars(Tick)

-----------------------------------------------------------------------------
(* What is promised.                                                         *)

\* "So two concurrent first-run setups can't both succeed" (users.go:48-49), nor can
\* one after an account was seeded.
ClaimedOnce == \A m, n \in Names : users[m] = "setup" /\ users[n] = "setup" => m = n

\* A password change or reset ends every session that a former password earned, but
\* for those of logins and changes that had read the account before.
SessionsAreEarned ==
  \A x \in Browsers : session[x] # NoSession /\ session[x].former => session[x].late

\* Allowed and Fail are far apart, and everyone who was allowed may still fail: that
\* many failures beyond the limit may count, and no more.
FailuresBounded ==
  \A k \in Keys : entries[k].failures =< MaxFailures - 1 + Cardinality(Browsers)

\* Whoever is locked out is let in again, however often he tries meanwhile.
LocksEnd == \A k \in Keys : ~Allowed(k) ~> Allowed(k)

-----------------------------------------------------------------------------
(* The inductive invariant of LoginsProofs.                                  *)

\* Everyone who may still report a failure for the key without asking again.
MayFail(k) ==
  {x \in Browsers :
     \/ /\ Address[x] = k
        /\ \/ op[x] = "login" /\ pc[x] \in {"name", "read", "verify", "failIp"}
           \/ op[x] = "setup" /\ pc[x] = "failIp"
     \/ /\ name[x] = k /\ op[x] # "setup"
        /\ pc[x] \in {"read", "verify", "failIp", "failName"}}

\* A lock outlives the window in which it was earned.
LocksOutlive ==
  \A k \in Keys :
    LET e == entries[k]
    IN /\ e.failures = 0 => e = None
       /\ e.failures > 0 /\ e.age = 0 => failed
       /\ e.failures >= MaxFailures =>
            e.lock > 0 /\ (e.age =< Window => e.lock + e.age > Window)

\* What has been counted beyond the limit, and what may still be, is at most one each.
NoneTwice ==
  \A k \in Keys : entries[k].failures >= MaxFailures =>
    entries[k].failures + Cardinality(MayFail(k)) =< MaxFailures - 1 + Cardinality(Browsers)

\* Requests go through the steps of their kind.
StepsOfKind ==
  \A x \in Browsers :
    /\ pc[x] \in {"first"} => op[x] = "setup"
    /\ pc[x] \in {"read", "resetIp", "resetName"} => op[x] = "login"
    /\ pc[x] \in {"name", "verify", "failName"} => op[x] \in {"login", "change"}
    /\ pc[x] \in {"ip", "failIp"} => op[x] \in {"login", "setup"}

IInv == TypeOK /\ LocksOutlive /\ NoneTwice /\ StepsOfKind

\* Why LocksEnd holds: once those who were let in before have reported, a lock only
\* runs down, and with every tick it does, whoever tries or is refused meanwhile.
LocksRunDown ==
  [][\A k \in Keys : ~Allowed(k) /\ MayFail(k) = {} =>
       /\ MayFail(k)' = {}
       /\ entries'[k].lock =< entries[k].lock
       /\ Tick => entries'[k].lock = entries[k].lock - 1]_vars
=============================================================================
