--------------------------- MODULE RateLimitProofs ---------------------------
(***************************************************************************)
(* Theorems about RateLimit, for any callers, rate, number of retries and  *)
(* stretch of time.  They rest on ConstantsAssumption alone.               *)
(***************************************************************************)
EXTENDS RateLimit, TLAPS

\* The constants are numbers; Full is used as one from here on.
LEMMA Numbers ==
  /\ Full \in Nat /\ Gap \in Nat /\ 0 < Gap /\ Gap =< Full
  /\ MaxRetries \in Nat /\ Horizon \in Nat
BY ConstantsAssumption

\* What the bucket holds.
LEMMA Refill ==
  ASSUME TypeOK
  PROVE  /\ RefilledMeanwhile \in 0 .. Full
         /\ RefilledMeanwhile =< tokens + idle
         /\ RefilledMeanwhile = Full \/ RefilledMeanwhile = tokens + idle
BY Numbers DEF RefilledMeanwhile, Least, TypeOK

------------------------------------------------------------------------------
(* The invariant: types and tries first.                                     *)

Typed == TypeOK /\ TriesLeft

LEMMA InitTyped == Init => Typed
BY Numbers DEF Init, Typed, TypeOK, TriesLeft, PC

\* Every step keeps the types.
LEMMA TypedStep == Typed /\ [Next]_vars => Typed'
<1> SUFFICES ASSUME Typed, [Next]_vars PROVE Typed'
  OBVIOUS
<1> USE Numbers DEF Typed, TypeOK, TriesLeft, PC, bucket, calls, record, Waiting
<1>1. ASSUME NEW x \in Callers, Begin(x) PROVE Typed'
  BY <1>1 DEF Begin, Enter
<1>2. ASSUME NEW x \in Callers, Take(x) PROVE Typed'
  BY <1>2, Refill DEF Take, Grant, Leave, Least
<1>3. ASSUME NEW x \in Callers, Wait(x) PROVE Typed'
  <2>1. CASE PastDeadline(x, Gap - RefilledMeanwhile)
    BY <1>3, <2>1, Refill DEF Wait, Return, Leave
  <2>2. CASE ~PastDeadline(x, Gap - RefilledMeanwhile)
    BY <1>3, <2>2, Refill DEF Wait
  <2>3. QED BY <2>1, <2>2
<1>4. ASSUME NEW x \in Callers, Wake(x) PROVE Typed'
  BY <1>4 DEF Wake
<1>5. ASSUME NEW x \in Callers, Answered(x) PROVE Typed'
  BY <1>5 DEF Answered, Return, Leave
<1>6. ASSUME NEW x \in Callers, Failed(x) PROVE Typed'
  <2>1. CASE tries[x] < MaxRetries
    BY <1>6, <2>1 DEF Failed
  <2>2. CASE ~(tries[x] < MaxRetries)
    BY <1>6, <2>2 DEF Failed, Return, Leave
  <2>3. QED BY <2>1, <2>2
<1>7. ASSUME NEW x \in Callers, Resume(x) PROVE Typed'
  BY <1>7 DEF Resume, Enter
<1>8. ASSUME NEW x \in Callers, Cancel(x) PROVE Typed'
  BY <1>8 DEF Cancel, Return, Leave
<1>9. CASE Tick
  BY <1>9 DEF Tick, Least
<1>10. CASE LookAnew
  BY <1>10 DEF LookAnew
<1>11. CASE UNCHANGED vars
  BY <1>11 DEF vars
<1>12. QED
  BY <1>1, <1>2, <1>3, <1>4, <1>5, <1>6, <1>7, <1>8, <1>9, <1>10, <1>11
     DEF Next, CallerStep

------------------------------------------------------------------------------
(* The bucket's books.                                                       *)

Books == Balance /\ RateBounded

LEMMA InitBooks == Init => Books
BY Numbers DEF Init, Books, Balance, RateBounded, RefilledMeanwhile, Least

\* Every step keeps the books.
LEMMA BooksStep == Typed /\ Books /\ [Next]_vars => Books'
<1> SUFFICES ASSUME Typed, Books, [Next]_vars PROVE Books'
  OBVIOUS
<1>0. /\ TypeOK /\ tokens \in 0 .. Full /\ idle \in 0 .. Full
      /\ since \in 0 .. Horizon /\ spent \in Nat
  BY DEF Typed, TypeOK
<1> USE Numbers DEF Books, Balance, RateBounded, RefilledMeanwhile, Least
<1>1. CASE UNCHANGED <<bucket, since, spent>>
  BY <1>1 DEF bucket
<1>2. ASSUME NEW x \in Callers, Take(x) PROVE Books'
  BY <1>0, <1>2 DEF Take, Grant
<1>3. ASSUME NEW x \in Callers, Wait(x) PROVE Books'
  BY <1>0, <1>3 DEF Wait, record
<1>4. CASE Tick
  BY <1>0, <1>4 DEF Tick
<1>5. CASE LookAnew
  BY <1>0, <1>5 DEF LookAnew, bucket
<1>6. QED
  BY <1>1, <1>2, <1>3, <1>4, <1>5
     DEF Next, CallerStep, Begin, Wake, Answered, Failed, Resume, Cancel, vars, record, bucket

------------------------------------------------------------------------------
(* What comes in while a caller waits.                                       *)

LEMMA InitAccounted == Init => Accounted
BY DEF Init, Accounted, Waiting

\* Every step keeps account of it.
LEMMA AccountedStep == Typed /\ Accounted /\ [Next]_vars => Accounted'
<1> SUFFICES ASSUME Typed, Accounted, [Next]_vars, NEW y \in Callers, pc'[y] \in Waiting
             PROVE  (RefilledMeanwhile + others[y] >= Least(Full, waited[y]))'
  BY DEF Accounted
<1>0. /\ TypeOK /\ tokens \in 0 .. Full /\ idle \in 0 .. Full
      /\ waited[y] \in 0 .. Full + 1 /\ others[y] \in 0 .. Full
      /\ pc[y] \in Waiting => RefilledMeanwhile + others[y] >= Least(Full, waited[y])
      /\ pc \in [Callers -> PC] /\ waited \in [Callers -> 0 .. Full + 1]
      /\ others \in [Callers -> 0 .. Full]
  BY DEF Typed, TypeOK, Accounted
<1> USE Numbers DEF Waiting, RefilledMeanwhile, Least
<1>1. ASSUME NEW x \in Callers, Enter(x), UNCHANGED bucket
      PROVE  (RefilledMeanwhile + others[y] >= Least(Full, waited[y]))'
  BY <1>0, <1>1 DEF Enter, bucket
<1>2. ASSUME NEW x \in Callers, Take(x)
      PROVE  (RefilledMeanwhile + others[y] >= Least(Full, waited[y]))'
  <2>1. y # x /\ pc[y] \in Waiting /\ waited'[y] = waited[y]
    BY <1>0, <1>2 DEF Take, Grant, Leave
  <2>2. others'[y] = Least(Full, others[y] + Gap)
    BY <1>2, <2>1 DEF Take, Grant
  <2>3. QED BY <1>0, <1>2, <2>1, <2>2 DEF Take
<1>3. ASSUME NEW x \in Callers, Wait(x)
      PROVE  (RefilledMeanwhile + others[y] >= Least(Full, waited[y]))'
  <2>1. pc[y] \in Waiting /\ waited'[y] = waited[y] /\ others'[y] = others[y]
    BY <1>0, <1>3 DEF Wait, Return, Leave, record
  <2>2. QED BY <1>0, <1>3, <2>1 DEF Wait
<1>4. CASE Tick
  <2>1. pc[y] \in Waiting /\ waited'[y] = Least(Full + 1, waited[y] + 1)
        /\ others'[y] = others[y]
    BY <1>4 DEF Tick
  <2>2. QED BY <1>0, <1>4, <2>1 DEF Tick
<1>5. ASSUME NEW x \in Callers, Leave(x, "idle") \/ UNCHANGED <<pc, waited>>
                                \/ (pc' = [pc EXCEPT ![x] = "backoff"] /\ UNCHANGED waited)
                                \/ Wake(x),
             UNCHANGED <<bucket, others>>
      PROVE  (RefilledMeanwhile + others[y] >= Least(Full, waited[y]))'
  <2>1. pc[y] \in Waiting /\ waited'[y] = waited[y] /\ others'[y] = others[y]
    BY <1>0, <1>5 DEF Leave, Wake
  <2>2. QED BY <1>0, <1>5, <2>1 DEF bucket
<1>6. CASE LookAnew \/ UNCHANGED vars
  BY <1>0, <1>6 DEF LookAnew, vars, bucket, calls, record
<1>7. ASSUME NEW x \in Callers, Begin(x) \/ Resume(x)
      PROVE  Enter(x) /\ UNCHANGED bucket
  BY <1>7 DEF Begin, Resume
<1>8. ASSUME NEW x \in Callers, Wake(x) \/ Answered(x) \/ Failed(x) \/ Cancel(x)
      PROVE  /\ Leave(x, "idle") \/ UNCHANGED <<pc, waited>>
                \/ (pc' = [pc EXCEPT ![x] = "backoff"] /\ UNCHANGED waited)
                \/ Wake(x)
             /\ UNCHANGED <<bucket, others>>
  BY <1>8 DEF Wake, Answered, Failed, Cancel, Return, record
<1>9. QED
  BY <1>1, <1>2, <1>3, <1>4, <1>5, <1>6, <1>7, <1>8 DEF Next, CallerStep

------------------------------------------------------------------------------
(* The theorems.                                                             *)

\* The invariant holds for all constants.
THEOREM Invariant == Spec => []IInv
<1>1. Init => IInv
  BY InitTyped, InitBooks, InitAccounted DEF IInv, Typed, Books
<1>2. IInv /\ [Next]_vars => IInv'
  BY TypedStep, BooksStep, AccountedStep DEF IInv, Typed, Books
<1>3. QED BY <1>1, <1>2, PTL DEF Spec

\* Every variable keeps its type: the bucket never overflows, no caller sleeps
\* longer than a permit takes, and no call is tried more often than it may.
THEOREM TypeCorrect == Spec => []TypeOK
<1>1. IInv => TypeOK
  BY DEF IInv
<1>2. QED BY <1>1, Invariant, PTL

\* Any stretch of time sees at most a full bucket of permits and what is
\* refilled in that time, for any number of callers looking at any moments.
THEOREM BoundedRate == Spec => []RateBounded
<1>1. IInv => RateBounded
  BY DEF IInv
<1>2. QED BY <1>1, Invariant, PTL

\* A caller is turned away only if others got a minute's permits (but a part of
\* one) while it waited, however late its timers fire.
THEOREM TurnedAwayUnderLoad == Spec => GivesUpUnderLoad
<1>1. ASSUME IInv, [Next]_vars, NEW x \in Callers, pc[x] = "look", pc'[x] = "idle"
      PROVE  others[x] > Full - Gap
  <2>1. /\ TypeOK /\ waited[x] \in 0 .. Full + 1 /\ others[x] \in 0 .. Full
        /\ RefilledMeanwhile \in 0 .. Full
        /\ RefilledMeanwhile + others[x] >= Least(Full, waited[x])
        /\ pc \in [Callers -> PC]
    BY <1>1, Refill DEF IInv, TypeOK, Accounted, Waiting
  <2>2. Wait(x)
    <3>1. ASSUME NEW y \in Callers, Begin(y) \/ CallerStep(y) \/ Cancel(y), y # x
          PROVE  pc'[x] = pc[x]
      BY <2>1, <3>1 DEF Begin, Enter, CallerStep, Take, Grant, Leave, Wait, Return, Wake,
           Answered, Failed, Resume, Cancel
    <3>2. ASSUME Tick \/ LookAnew \/ UNCHANGED vars PROVE pc' = pc
      BY <3>2 DEF Tick, LookAnew, vars, calls
    <3>3. CASE Begin(x) \/ CallerStep(x) \/ Cancel(x)
      BY <1>1, <2>1, <3>3 DEF Begin, CallerStep, Take, Grant, Leave, Wake, Answered, Failed,
           Resume, Cancel
    <3>4. QED BY <1>1, <3>1, <3>2, <3>3 DEF Next
  <2>3. RefilledMeanwhile < Gap /\ waited[x] + (Gap - RefilledMeanwhile) > Full
    BY <1>1, <2>1, <2>2 DEF Wait, PastDeadline
  <2>4. QED BY <2>1, <2>3, Numbers DEF Least
<1>2. IInv /\ [Next]_vars =>
        [\A x \in Callers : pc[x] = "look" /\ pc'[x] = "idle" => others[x] > Full - Gap]_vars
  BY <1>1
<1>3. QED BY <1>2, Invariant, PTL DEF Spec, GivesUpUnderLoad

------------------------------------------------------------------------------
(* The bucket that is refilled when it is looked at, and the one that fills.  *)

Allowed == {x \in Callers : pc[x] = "send"}

\* A step in which nobody is granted a permit, nobody uses one and no time passes.
LEMMA BucketStutters ==
  ASSUME TypeOK, RefilledMeanwhile' = RefilledMeanwhile,
         \A x \in Callers : pc'[x] = "send" <=> pc[x] = "send"
  PROVE  UNCHANGED Bucket!vars
BY DEF Bucket!vars

\* A request that has been sent is over, whatever comes of it.
LEMMA SentIsUsed ==
  ASSUME TypeOK, NEW x \in Callers, Answered(x) \/ Failed(x)
  PROVE  Bucket!Use(x)
<1>1. pc[x] = "send" /\ UNCHANGED bucket
  BY DEF Answered, Failed
<1>2. /\ pc'[x] # "send" /\ \A y \in Callers \ {x} : pc'[y] = pc[y]
  <2>1. CASE Return(x)
    BY <2>1 DEF Return, Leave, TypeOK
  <2>2. CASE pc' = [pc EXCEPT ![x] = "backoff"]
    BY <2>2 DEF TypeOK
  <2>3. QED BY <2>1, <2>2 DEF Answered, Failed
<1>3. RefilledMeanwhile' = RefilledMeanwhile
  BY <1>1 DEF RefilledMeanwhile, bucket
<1>4. Allowed' = Allowed \ {x} /\ x \in Allowed
  BY <1>1, <1>2 DEF Allowed
<1>5. QED BY <1>3, <1>4 DEF Bucket!Use, Allowed

\* A grant takes from the bucket as it would be by now.
LEMMA GrantIsPaid ==
  ASSUME TypeOK, NEW x \in Callers, Take(x)
  PROVE  Bucket!Allow(x)
<1>1. /\ pc[x] = "look" /\ RefilledMeanwhile >= Gap
      /\ pc'[x] = "send" /\ \A y \in Callers \ {x} : pc'[y] = pc[y]
  BY DEF Take, Grant, Leave, TypeOK
<1>2. RefilledMeanwhile' = RefilledMeanwhile - Gap
  BY <1>1, Refill, Numbers DEF Take, RefilledMeanwhile, Least
<1>3. Allowed' = Allowed \cup {x} /\ x \notin Allowed
  BY <1>1 DEF Allowed
<1>4. QED BY <1>1, <1>2, <1>3 DEF Bucket!Allow, Allowed

\* A tick that passes while nobody looks fills the bucket all the same.
LEMMA TickRefills ==
  ASSUME TypeOK, Tick
  PROVE  Bucket!Refill \/ UNCHANGED Bucket!vars
<1>1. pc' = pc /\ tokens' = tokens /\ idle' = Least(Full, idle + 1)
  BY DEF Tick
<1>2. CASE RefilledMeanwhile < Full
  <2>1. RefilledMeanwhile' = RefilledMeanwhile + 1
    BY <1>1, <1>2, Numbers DEF RefilledMeanwhile, Least, TypeOK
  <2>2. QED BY <1>1, <1>2, <2>1 DEF Bucket!Refill, Bucket!Full, Full
<1>3. CASE RefilledMeanwhile = Full
  <2>1. RefilledMeanwhile' = RefilledMeanwhile
    BY <1>1, <1>3, Numbers DEF RefilledMeanwhile, Least, TypeOK
  <2>2. QED BY <1>1, <2>1, BucketStutters
<1>4. QED BY <1>2, <1>3, Refill, Numbers

\* The limiter implements the token bucket: refilling it lazily, by elapsed time and
\* whenever some caller looks, is never seen, and no request goes out unpaid.
THEOREM RefinesTokenBucket == Spec => IsTokenBucket
<1>1. Init => Bucket!Init
  BY Numbers DEF Init, Bucket!Init, Bucket!Full, Full, RefilledMeanwhile, Least
<1>2. TypeOK /\ [Next]_vars => [Bucket!Next]_(Bucket!vars)
  <2> SUFFICES ASSUME TypeOK, [Next]_vars
               PROVE  Bucket!Next \/ UNCHANGED Bucket!vars
    OBVIOUS
  <2>1. ASSUME NEW x \in Callers, Take(x) \/ Answered(x) \/ Failed(x)
        PROVE  Bucket!Next
    BY <2>1, GrantIsPaid, SentIsUsed DEF Bucket!Next
  <2>2. ASSUME NEW x \in Callers, Wait(x)
        PROVE  UNCHANGED Bucket!vars
    <3>1. RefilledMeanwhile' = RefilledMeanwhile
      BY <2>2, Refill, Numbers DEF Wait, RefilledMeanwhile, Least, TypeOK
    <3>2. \A y \in Callers : pc'[y] = "send" <=> pc[y] = "send"
      BY <2>2 DEF Wait, Return, Leave, TypeOK
    <3>3. QED BY <3>1, <3>2, BucketStutters
  <2>3. ASSUME NEW x \in Callers, Begin(x) \/ Wake(x) \/ Resume(x) \/ Cancel(x)
        PROVE  UNCHANGED Bucket!vars
    <3>1. UNCHANGED bucket
      BY <2>3 DEF Begin, Wake, Resume, Cancel
    <3>2. \A y \in Callers : pc'[y] = "send" <=> pc[y] = "send"
      BY <2>3 DEF Begin, Enter, Wake, Resume, Cancel, Return, Leave, TypeOK
    <3>3. QED BY <3>1, <3>2, BucketStutters DEF bucket, RefilledMeanwhile
  <2>4. CASE LookAnew \/ UNCHANGED vars
    <3>1. UNCHANGED <<bucket, pc>>
      BY <2>4 DEF LookAnew, vars, calls
    <3>2. QED BY <3>1, BucketStutters DEF bucket, RefilledMeanwhile
  <2>5. QED BY <2>1, <2>2, <2>3, <2>4, TickRefills DEF Next, CallerStep, Bucket!Next
<1>3. QED BY <1>1, <1>2, TypeCorrect, PTL DEF Spec, IsTokenBucket, Bucket!Spec

------------------------------------------------------------------------------
(* The end of a Wait.                                                        *)

\* Every step keeps the timers within the callers' minutes.
LEMMA PausesStep == TypeOK /\ PausesEndInTime /\ [Next]_vars => PausesEndInTime'
<1> SUFFICES ASSUME TypeOK, PausesEndInTime, [Next]_vars, NEW y \in Callers,
                    pc'[y] = "sleep", sleep'[y] > 0
             PROVE  waited'[y] + sleep'[y] =< Full
  BY DEF PausesEndInTime
<1>1. /\ pc \in [Callers -> PC] /\ sleep \in [Callers -> 0 .. Gap]
      /\ waited \in [Callers -> 0 .. Full + 1]
      /\ pc[y] = "sleep" /\ sleep[y] > 0 => waited[y] + sleep[y] =< Full
  BY DEF TypeOK, PausesEndInTime
<1>2. waited[y] \in Nat /\ sleep[y] \in Nat
  BY <1>1, Numbers
<1>3. ASSUME NEW x \in Callers, Wait(x) PROVE waited'[y] + sleep'[y] =< Full
  <2> DEFINE wait == Gap - RefilledMeanwhile
  <2>1. CASE PastDeadline(x, wait)
    <3>1. y # x /\ pc[y] = "sleep" /\ sleep'[y] = sleep[y] /\ waited'[y] = waited[y]
      BY <1>1, <1>3, <2>1 DEF Wait, Return, Leave
    <3>2. QED BY <1>1, <3>1
  <2>2. CASE ~PastDeadline(x, wait)
    <3>1. /\ pc' = [pc EXCEPT ![x] = "sleep"] /\ sleep' = [sleep EXCEPT ![x] = wait]
          /\ waited' = waited
      BY <1>3, <2>2 DEF Wait
    <3>2. CASE y = x
      <4>1. RefilledMeanwhile \in Nat BY Refill
      <4>2. waited[y] + wait =< Full
        BY <1>2, <2>2, <3>2, <4>1, Numbers DEF PastDeadline
      <4>3. QED BY <1>1, <3>1, <3>2, <4>2
    <3>3. CASE y # x
      BY <1>1, <3>1, <3>3
    <3>4. QED BY <3>2, <3>3
  <2>3. QED BY <2>1, <2>2
<1>4. CASE Tick
  <2>1. pc[y] = "sleep" /\ sleep[y] > 0 /\ sleep'[y] = sleep[y] - 1
    BY <1>1, <1>2, <1>4 DEF Tick
  <2>2. waited'[y] =< waited[y] + 1 /\ waited'[y] \in Nat
    BY <1>1, <1>2, <1>4, Numbers DEF Tick, Waiting, Least
  <2>3. QED BY <1>1, <1>2, <2>1, <2>2, Numbers
<1>5. ASSUME NEW x \in Callers,
             Begin(x) \/ Take(x) \/ Wake(x) \/ Answered(x) \/ Failed(x) \/ Resume(x)
               \/ Cancel(x)
      PROVE  waited'[y] + sleep'[y] =< Full
  <2>1. y # x
    BY <1>1, <1>5
    DEF Begin, Take, Grant, Wake, Answered, Failed, Resume, Cancel, Enter, Leave, Return
  <2>2. pc'[y] = pc[y] /\ waited'[y] = waited[y] /\ sleep'[y] = sleep[y]
    BY <1>1, <1>5, <2>1
    DEF Begin, Take, Grant, Wake, Answered, Failed, Resume, Cancel, Enter, Leave, Return,
        record
  <2>3. QED BY <1>1, <2>2
<1>6. CASE LookAnew \/ UNCHANGED vars
  BY <1>1, <1>6 DEF LookAnew, vars, calls
<1>7. QED
  BY <1>3, <1>4, <1>5, <1>6 DEF Next, CallerStep

\* No caller ever sleeps past the minute Wait gives it, however late its timers fire
\* and whoever takes the permits it had slept for.
THEOREM BoundedWait == Spec => []PausesEndInTime
<1>1. Init => PausesEndInTime
  BY DEF Init, PausesEndInTime
<1>2. QED BY <1>1, PausesStep, TypeCorrect, PTL DEF Spec
=============================================================================
