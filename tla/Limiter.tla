------------------------------- MODULE Limiter -------------------------------
(***************************************************************************)
(* The login limiter (Limiter in internal/auth/auth.go): failures per key  *)
(* (an address, an account name), each call under the limiter's mutex.     *)
(* Module Logins calls it as the handlers of internal/web/auth.go do.      *)
(*                                                                         *)
(* Time is counted in ticks.  The mutex puts the failures in an order and  *)
(* the clock is in nanoseconds: no two are recorded at one time, and only  *)
(* the times of failures matter, so a tick sees at most one.               *)
(***************************************************************************)
EXTENDS Naturals

CONSTANTS
  Keys,
  MaxFailures,   \* 5 in the code
  Window         \* 15 minutes

ASSUME LimiterAssumption ==
  /\ MaxFailures \in Nat \ {0, 1}
  /\ Window \in Nat \ {0}

VARIABLES
  entries,   \* per key: failures, time since the first one, time the lock has left
  failed     \* has a failure been recorded at this time?

None == [failures |-> 0, age |-> 0, lock |-> 0]

Entry == [failures : Nat, age : 0 .. Window + 1, lock : 0 .. Window]

NoEntries == [k \in Keys |-> None]

Allowed(k) == entries[k].lock = 0

First == [failures |-> 1, age |-> 0, lock |-> 0]

\* Variant: locks one failure too late.
CountedLate(e) ==
  IF e = None \/ e.age > Window THEN First
  ELSE [failures |-> e.failures + 1, age |-> e.age,
        lock |-> IF e.failures >= MaxFailures THEN Window ELSE e.lock]

\* One failure more, in the window of the first one, or as the first of a new window.
Counted(e) ==
  IF e = None \/ e.age > Window THEN First
  ELSE [failures |-> e.failures + 1, age |-> e.age,
        lock |-> IF e.failures + 1 >= MaxFailures THEN Window ELSE e.lock]

Fail(k) ==
  /\ ~failed /\ failed' = TRUE
  /\ entries' = [entries EXCEPT ![k] = Counted(@)]

Reset(k) == entries' = [entries EXCEPT ![k] = None] /\ UNCHANGED failed

\* An entry past its window and its lock is as good as none; gc drops such entries.
Aged(e) ==
  IF e = None \/ (e.age >= Window /\ e.lock =< 1) THEN None
  ELSE [failures |-> e.failures,
        age |-> IF e.age > Window THEN e.age ELSE e.age + 1,
        lock |-> IF e.lock = 0 THEN 0 ELSE e.lock - 1]

TimePasses ==
  /\ entries' = [k \in Keys |-> Aged(entries[k])]
  /\ failed' = FALSE
=============================================================================
