----------------------------- MODULE RetryPolicy -----------------------------
(***************************************************************************)
(* RetryPolicy and the classification of answers it rests on: what an      *)
(* answer of the source means, whether to ask again, and after how long.   *)
(* Constant level.                                                         *)
(*                                                                         *)
(* An answer is an HTTP response, of which the policy sees the status code *)
(* and the Retry-After value, or an exception of the transport.            *)
(***************************************************************************)
EXTENDS Integers

CONSTANTS
  MaxAttempts, BaseBackoff, MaxBackoff, MaxRetryAfter,  \* RetryConfig
  JitterPercent,   \* jitter_factor
  Absent,          \* no usable Retry-After header
  NaN              \* "Retry-After: nan", which float() accepts

ASSUME RetryConfigAssumption ==
  /\ MaxAttempts \in Nat \ {0}
  /\ BaseBackoff \in Nat \ {0}
  /\ MaxBackoff \in Nat /\ MaxBackoff >= BaseBackoff
  /\ MaxRetryAfter \in Nat \ {0}
  /\ JitterPercent \in 0..100
  /\ Absent \notin Int /\ NaN \notin Int /\ Absent # NaN

RetryAfters == Int \cup {Absent, NaN}

\* A fact of arithmetic: the provers know of powers only that they are integers.
ASSUME PowersOfTwoAssumption == \A n \in 0..MaxAttempts - 1 : 2^n \in Nat

\* The exceptions of AsyncHttpTransport.get: the first two are retryable.
TransportErrors == {"timeout", "connect", "redirects", "tooLarge", "other"}

Responses  == [status : Nat, retryAfter : RetryAfters]
Exceptions == [exception : TransportErrors]
Answers    == Responses \cup Exceptions

IsResponse(answer) == "status" \in DOMAIN answer
IsSuccess(answer)  == IsResponse(answer) /\ answer.status \in 200..299

-----------------------------------------------------------------------------
\* is_retryable_status, TransportError.retryable
Retryable(answer) ==
  IF IsResponse(answer) THEN answer.status \in {429, 502, 503, 504}
  ELSE answer.exception \in {"timeout", "connect"}

\* The type of the IngestionError made of an answer that is not a success.
ErrorType(answer) ==
  IF IsResponse(answer)
  THEN CASE answer.status = 429        -> "RATE_LIMIT_ERROR"
         [] answer.status \in 500..599 -> "SOURCE_SERVER_ERROR"
         [] answer.status \in (300..499) \ {429} -> "NETWORK_TRANSPORT_ERROR"
         [] OTHER                      -> "INTERNAL_ERROR"
  ELSE CASE answer.exception = "tooLarge" -> "MALFORMED_RESPONSE_ERROR"
         [] answer.exception = "timeout"  -> "TIMEOUT_ERROR"
         [] OTHER                         -> "NETWORK_TRANSPORT_ERROR"

-----------------------------------------------------------------------------
MinOf(i, j) == IF i <= j THEN i ELSE j

\* Mutant: the budget counts retries instead of attempts.
AsksAgainOnceMore(attemptsMade, answer) ==
  Retryable(answer) /\ attemptsMade < MaxAttempts

\* Mutant: the last attempt of the budget is not made.
AsksAgainOnceLess(attemptsMade, answer) ==
  Retryable(answer) /\ attemptsMade < MaxAttempts - 2

\* RETRY rather than STOP, given the attempts recorded before this one.
AsksAgain(attemptsMade, answer) ==
  Retryable(answer) /\ attemptsMade < MaxAttempts - 1

\* compute_backoff: exponential up to the ceiling, and the jitter on top of it.
Backoffs(attemptsMade) ==
  LET capped == MinOf(BaseBackoff * 2^attemptsMade, MaxBackoff)
  IN  capped .. (capped + (JitterPercent * capped) \div 100)

\* apply_retry_after accepts the server's value; a negative one counts as absent.
UsesRetryAfter(answer) ==
  /\ IsResponse(answer) /\ answer.retryAfter # Absent
  /\ answer.retryAfter = NaN \/ answer.retryAfter >= 0

\* Mutant: the server's value is not clamped.
DelaysUnclamped(attemptsMade, answer) ==
  IF ~UsesRetryAfter(answer) THEN Backoffs(attemptsMade)
  ELSE IF answer.retryAfter = NaN THEN {0} ELSE {answer.retryAfter}

\* The seconds RetryPolicy.sleep waits: min(nan, ceiling) is nan, which is not > 0.
Delays(attemptsMade, answer) ==
  IF ~UsesRetryAfter(answer) THEN Backoffs(attemptsMade)
  ELSE IF answer.retryAfter = NaN THEN {0} ELSE {MinOf(answer.retryAfter, MaxRetryAfter)}

\* No wait is longer than this.
MaxDelay ==
  LET backoff == MaxBackoff + (JitterPercent * MaxBackoff) \div 100
  IN  IF backoff >= MaxRetryAfter THEN backoff ELSE MaxRetryAfter
=============================================================================
