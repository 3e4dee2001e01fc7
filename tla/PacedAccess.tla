----------------------------- MODULE PacedAccess -----------------------------
(***************************************************************************)
(* What the rate limiter promises to a source, as the source sees it: at   *)
(* most MaxConcurrent requests are in flight, and a request never starts   *)
(* sooner than MinInterval after the one before.                           *)
(*                                                                         *)
(* Time is what the promise can tell apart: the time since the last        *)
(* request started, counted up to Far, which stands for "Far or more".     *)
(***************************************************************************)
EXTENDS Naturals, FiniteSets

CONSTANTS
  Tasks,           \* the callers
  MaxConcurrent,   \* RateLimitConfig.max_concurrent
  MinInterval,     \* RateLimitConfig.min_interval_seconds
  Far,             \* bound of the time counted since the last request
  Never            \* no request was made yet

VARIABLES inFlight, since

TypeOK == inFlight \subseteq Tasks /\ since \in 0..Far \cup {Never}

Init == inFlight = {} /\ since = Never

Begin(t) ==
  /\ t \notin inFlight
  /\ Cardinality(inFlight) < MaxConcurrent
  /\ since = Never \/ since >= MinInterval
  /\ inFlight' = inFlight \cup {t}
  /\ since' = 0

End(t) ==
  /\ t \in inFlight
  /\ inFlight' = inFlight \ {t}
  /\ UNCHANGED since

\* One unit of time passes.
Later(s) == IF s = Never \/ s = Far THEN s ELSE s + 1

Tick == since' = Later(since) /\ UNCHANGED inFlight

Next == (\E t \in Tasks : Begin(t) \/ End(t)) \/ Tick

Spec == Init /\ [][Next]_<<inFlight, since>>
=============================================================================
