----------------------------- MODULE TokenBucket -----------------------------
(***************************************************************************)
(* What a rate limiter promises, without timers, waiting and a clock that  *)
(* is read only when somebody calls: a bucket that fills by itself, tick   *)
(* by tick, and out of which every request is paid for when it is allowed. *)
(* "Limiter is a token bucket refilling at rate permits per minute"        *)
(* (internal/ratelimit/ratelimit.go).                                      *)
(***************************************************************************)
EXTENDS Naturals

CONSTANTS
  Callers,
  Burst,   \* permits in a full bucket
  Gap      \* ticks in which one permit is refilled

Full == Burst * Gap

VARIABLES
  level,   \* what is in the bucket, in ticks
  allowed  \* the callers that may send one request

vars == <<level, allowed>>

Init == level = Full /\ allowed = {}

Refill ==
  /\ level < Full
  /\ level' = level + 1
  /\ UNCHANGED allowed

\* A permit is there, is taken out ...
Allow(x) ==
  /\ x \notin allowed /\ level >= Gap
  /\ level' = level - Gap
  /\ allowed' = allowed \cup {x}

\* ... and is good for one request.
Use(x) ==
  /\ x \in allowed
  /\ allowed' = allowed \ {x}
  /\ UNCHANGED level

Next == Refill \/ \E x \in Callers : Allow(x) \/ Use(x)

Spec == Init /\ [][Next]_vars
=============================================================================
