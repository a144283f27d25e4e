------------------------------ MODULE RateLimit ------------------------------
(***************************************************************************)
(* The requests to one provider: Client.Do (internal/provider/provider.go) *)
(* and the token bucket they share, Limiter.Wait                           *)
(* (internal/ratelimit/ratelimit.go).                                      *)
(*                                                                         *)
(* Every page, sync pass, stream and poll that asks the provider something *)
(* is a caller of its own.  A step is one critical section of the bucket's *)
(* mutex, one request, one timer or one tick of time.                      *)
(*                                                                         *)
(* The bucket is counted in ticks: Gap ticks refill one permit.  New gives *)
(* it a minute's permits, and lets a caller wait for a minute: Full ticks, *)
(* both.  Abstracted: what is asked, and how long a backoff lasts.         *)
(***************************************************************************)
EXTENDS Naturals

CONSTANTS
  Callers,
  Burst,       \* permits in a full bucket: the permits of a minute
  Gap,         \* ticks in which one permit is refilled
  MaxRetries,
  Horizon      \* how long a stretch of time is looked at

Full == Burst * Gap

ASSUME ConstantsAssumption ==
  /\ Burst \in Nat \ {0} /\ Gap \in Nat \ {0}
  /\ MaxRetries \in Nat /\ Horizon \in Nat
  /\ Full \in Nat /\ Gap =< Full

VARIABLES
  tokens,   \* what the bucket held when it was last looked at
  idle,     \* ticks since then (Full stands for as many or more)
  pc,
  tries,    \* retries made
  waited,   \* ticks since Wait was called (Full + 1: too many)
  sleep,    \* ticks its timer has left
  \* recorded for the properties
  others,   \* permits others got since Wait was called (Full: all of a minute's)
  since,    \* length of the stretch being looked at ...
  spent     \* ... and the permits granted in it

bucket == <<tokens, idle>>
calls  == <<pc, tries, waited, sleep>>
record == <<others, since, spent>>
vars   == <<bucket, calls, record>>

PC == {"idle", "look", "sleep", "send", "backoff"}
Waiting == {"look", "sleep"}   \* in Limiter.Wait

Least(a, b) == IF a =< b THEN a ELSE b

TypeOK ==
  /\ tokens \in 0 .. Full
  /\ idle \in 0 .. Full
  /\ pc \in [Callers -> PC]
  /\ tries \in [Callers -> 0 .. MaxRetries]
  /\ waited \in [Callers -> 0 .. Full + 1]
  /\ sleep \in [Callers -> 0 .. Gap]
  /\ others \in [Callers -> 0 .. Full]
  /\ since \in 0 .. Horizon
  /\ spent \in Nat

Init ==
  /\ tokens = Full /\ idle = 0
  /\ pc = [x \in Callers |-> "idle"]
  /\ tries = [x \in Callers |-> 0]
  /\ waited = [x \in Callers |-> 0]
  /\ sleep = [x \in Callers |-> 0]
  /\ others = [x \in Callers |-> 0]
  /\ since = 0 /\ spent = 0

-----------------------------------------------------------------------------
(* An operator whose name says what it does wrong is a variant no            *)
(* specification uses: it shows that a property notices it.                  *)

\* Wait is called: its minute begins.
Enter(x) ==
  /\ pc' = [pc EXCEPT ![x] = "look"]
  /\ waited' = [waited EXCEPT ![x] = 0]
  /\ others' = [others EXCEPT ![x] = 0]

\* Wait returns (and what it held is gone).
Leave(x, where) ==
  /\ pc' = [pc EXCEPT ![x] = where]
  /\ waited' = [waited EXCEPT ![x] = 0]

\* Do is over.
Return(x) ==
  /\ Leave(x, "idle")
  /\ tries' = [tries EXCEPT ![x] = 0]

\* Do is called.
Begin(x) ==
  /\ pc[x] = "idle"
  /\ Enter(x)
  /\ UNCHANGED <<bucket, tries, sleep, since, spent>>

-----------------------------------------------------------------------------
(* Limiter.Wait.                                                             *)

\* What the bucket holds now.
RefilledMeanwhile == Least(Full, tokens + idle)

\* x is given a permit.
Grant(x) ==
  /\ Leave(x, "send")
  /\ others' = [y \in Callers |->
                  IF y # x /\ pc[y] \in Waiting THEN Least(Full, others[y] + Gap) ELSE 0]
  /\ spent' = IF since < Horizon THEN spent + Gap ELSE spent
  /\ UNCHANGED <<tries, sleep, since>>

PastEarly(x, wait) == waited[x] + Gap > Full

\* Whether a caller would have to wait past its minute.
PastDeadline(x, wait) == waited[x] + wait > Full

TakeUnstamped(x) ==
  /\ pc[x] = "look" /\ RefilledMeanwhile >= Gap
  /\ tokens' = RefilledMeanwhile - Gap
  /\ Grant(x)
  /\ UNCHANGED idle

\* The bucket is refilled by the time that has passed, and has a permit ...
Take(x) ==
  /\ pc[x] = "look" /\ RefilledMeanwhile >= Gap
  /\ tokens' = RefilledMeanwhile - Gap
  /\ idle' = 0
  /\ Grant(x)

\* ... or it has none: the caller sleeps until it should, or gives up.
Wait(x) ==
  /\ pc[x] = "look" /\ RefilledMeanwhile < Gap
  /\ tokens' = RefilledMeanwhile
  /\ idle' = 0
  /\ LET wait == Gap - RefilledMeanwhile IN
     IF PastDeadline(x, wait)
       THEN Return(x) /\ UNCHANGED sleep
       ELSE /\ pc' = [pc EXCEPT ![x] = "sleep"]
            /\ sleep' = [sleep EXCEPT ![x] = wait]
            /\ UNCHANGED <<tries, waited>>
  /\ UNCHANGED record

WakeAnew(x) ==
  /\ pc[x] = "sleep" /\ sleep[x] = 0
  /\ Enter(x)
  /\ UNCHANGED <<bucket, tries, sleep, since, spent>>

\* The timer fires, at its time or later.
Wake(x) ==
  /\ pc[x] = "sleep" /\ sleep[x] = 0
  /\ pc' = [pc EXCEPT ![x] = "look"]
  /\ UNCHANGED <<bucket, tries, waited, sleep, record>>

-----------------------------------------------------------------------------
(* Client.Do.                                                                *)

\* The provider answers (also: a 5xx of a request not to be sent again).
Answered(x) ==
  /\ pc[x] = "send"
  /\ Return(x)
  /\ UNCHANGED <<bucket, sleep, record>>

FailedOnceMore(x) ==
  /\ pc[x] = "send"
  /\ pc' = [pc EXCEPT ![x] = "backoff"]
  /\ UNCHANGED <<bucket, tries, waited, sleep, record>>

\* No answer, a 429 or a 5xx: the last try is the end, any other is followed by
\* a pause, Retry-After's or Backoff's ...
Failed(x) ==
  /\ pc[x] = "send"
  /\ IF tries[x] < MaxRetries
       THEN pc' = [pc EXCEPT ![x] = "backoff"] /\ UNCHANGED <<tries, waited>>
       ELSE Return(x)
  /\ UNCHANGED <<bucket, sleep, record>>

ResumeAtOnce(x) ==
  /\ pc[x] = "backoff"
  /\ tries' = [tries EXCEPT ![x] = @ + 1]
  /\ pc' = [pc EXCEPT ![x] = "send"]
  /\ UNCHANGED <<bucket, waited, sleep, record>>

\* ... and a new Wait.
Resume(x) ==
  /\ pc[x] = "backoff"
  /\ tries' = [tries EXCEPT ![x] = @ + 1]
  /\ Enter(x)
  /\ UNCHANGED <<bucket, sleep, since, spent>>

\* The caller's context is done: neither timer is waited for.
Cancel(x) ==
  /\ pc[x] \in {"sleep", "backoff"}
  /\ Return(x)
  /\ sleep' = [sleep EXCEPT ![x] = 0]
  /\ UNCHANGED <<bucket, record>>

CallerStep(x) ==
  \/ Take(x) \/ Wait(x) \/ Wake(x)
  \/ Answered(x) \/ Failed(x) \/ Resume(x)

-----------------------------------------------------------------------------
(* Time.                                                                     *)

Tick ==
  /\ idle' = Least(Full, idle + 1)
  /\ waited' = [x \in Callers |-> IF pc[x] \in Waiting THEN Least(Full + 1, waited[x] + 1)
                                                       ELSE waited[x]]
  /\ sleep' = [x \in Callers |-> IF sleep[x] > 0 THEN sleep[x] - 1 ELSE 0]
  /\ since' = Least(Horizon, since + 1)
  /\ UNCHANGED <<tokens, pc, tries, others, spent>>

\* Another stretch of time is looked at: any stretch begins some time.
LookAnew ==
  /\ since' = 0 /\ spent' = 0
  /\ UNCHANGED <<bucket, calls, others>>

Next ==
  \/ \E x \in Callers : Begin(x) \/ CallerStep(x) \/ Cancel(x)
  \/ Tick \/ LookAnew

Spec == Init /\ [][Next]_vars

\* Time passes, timers fire, and a request is answered or times out after 60 s.
Fairness == WF_vars(Tick) /\ \A x \in Callers : WF_vars(CallerStep(x))

FairSpec == Spec /\ Fairness

-----------------------------------------------------------------------------
(* What is promised.                                                         *)

\* "A token bucket refilling at rate permits per minute": whichever callers
\* look when, no stretch of time sees more permits than a full bucket and what
\* is refilled in that time.
RateBounded == spent =< Full + since

\* Wait gives up ("wait exceeds budget") only under load: while the caller
\* waited, others got every permit of a minute, or all but a part of one.
GivesUpUnderLoad ==
  [][\A x \in Callers : pc[x] = "look" /\ pc'[x] = "idle" => others[x] > Full - Gap]_vars

\* A call ends, even if others take every permit from under its nose.
CallsEnd == \A x \in Callers : pc[x] # "idle" ~> pc[x] = "idle"

\* The bucket is looked at now and then, in no order, and refilled then by the time that has
\* passed; yet to its callers it is one that fills by itself, and every request, a retry
\* as well, is paid for.
Bucket == INSTANCE TokenBucket
            WITH level <- RefilledMeanwhile, allowed <- {x \in Callers : pc[x] = "send"}

IsTokenBucket == Bucket!Spec

-----------------------------------------------------------------------------
(* Why: the invariants the proofs rest on.                                   *)

\* What is in the bucket and what was granted came from a full bucket and from
\* the time since.
Balance == since < Horizon => RefilledMeanwhile + spent =< Full + since

\* What came in while a caller waited is in the bucket or went to others.
Accounted ==
  \A x \in Callers : pc[x] \in Waiting =>
    RefilledMeanwhile + others[x] >= Least(Full, waited[x])

\* A pause is followed by a try that is left.
TriesLeft == \A x \in Callers : pc[x] = "backoff" => tries[x] < MaxRetries

IInv == TypeOK /\ TriesLeft /\ Balance /\ RateBounded /\ Accounted

\* "With a bounded wait": a caller sleeps only for a permit that is due within its
\* minute (but for the 10 ms that are added to every sleep).
PausesEndInTime ==
  \A x \in Callers : pc[x] = "sleep" /\ sleep[x] > 0 => waited[x] + sleep[x] =< Full
=============================================================================
