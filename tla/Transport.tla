----------------------------- MODULE Transport -----------------------------
(***************************************************************************)
(* AsyncHttpTransport.get: what httpx delivers, as the answer that the     *)
(* retry policy is given.  Constant level.                                 *)
(*                                                                         *)
(* An exchange is an exception of httpx, or a reply after all redirects:   *)
(* its status, the length it declares (Absent, or what int() makes of it), *)
(* the length of its body, and its Retry-After header.                     *)
(***************************************************************************)
EXTENDS RetryPolicy, TLC

CONSTANT MaxBytes    \* ResponseLimitConfig.max_bytes

ASSUME TransportAssumption == MaxBytes \in Nat \ {0}

Headers ==
  [form : {"absent", "garbage"}]
    \cup [form : {"number"}, value : Int \cup {NaN}]    \* float() takes a sign, and "nan"
    \cup [form : {"date"}, ahead : Int]                 \* seconds from now, or ago

Replies ==
  [status : Nat, declared : Int \cup {Absent}, body : Nat, retryAfter : Headers]

\* The except clauses, which tell five kinds of httpx exceptions apart.
TransportErrorOf ==
  "TimeoutException" :> "timeout" @@ "ConnectError" :> "connect" @@
  "TooManyRedirects" :> "redirects" @@ "HTTPStatusError" :> "other" @@ "Exception" :> "other"

Exchanges == Replies \cup [raises : DOMAIN TransportErrorOf]

\* A date that has passed asks for no delay.
ParseRetryAfter(header) ==
  CASE header.form \in {"absent", "garbage"} -> Absent
    [] header.form = "number" -> header.value
    [] header.form = "date"   -> IF header.ahead > 0 THEN header.ahead ELSE 0

\* By what it declares, before the body is looked at, or by what it is.
TooLarge(reply) ==
  \/ reply.declared # Absent /\ reply.declared > MaxBytes
  \/ reply.body > MaxBytes

get(exchange) ==
  IF "raises" \in DOMAIN exchange THEN [exception |-> TransportErrorOf[exchange.raises]]
  ELSE IF TooLarge(exchange) THEN [exception |-> "tooLarge"]
  ELSE [status |-> exchange.status, retryAfter |-> ParseRetryAfter(exchange.retryAfter)]
=============================================================================
