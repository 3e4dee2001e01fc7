----------------------------- MODULE MCFetchLoop -----------------------------
(* Instances of FetchLoop for TLC: what the source answers, by way of the transport. *)
EXTENDS FetchLoop, Transport

CONSTANT a    \* a canonical id

Header(form) == [form |-> form]
Seconds(n) == [form |-> "number", value |-> n]
Date(ahead) == [form |-> "date", ahead |-> ahead]

Reply(code, header) == [status |-> code, declared |-> 1, body |-> 1, retryAfter |-> header]

\* Each class of status, each kind of Retry-After, each kind of exception, and bodies
\* at the limit and beyond it, as they declare or without.
SomeExchanges ==
  {Reply(code, Header("absent")) : code \in {302, 404, 429, 500, 503}}
    \cup {Reply(429, Seconds(n)) : n \in {-1, 0, 1, 9, NaN}}
    \cup {Reply(429, header) : header \in {Header("garbage"), Date(-5), Date(9)}}
    \cup {[Reply(200, Header("absent")) EXCEPT !.declared = d, !.body = n] :
            d \in {Absent, -1, MaxBytes + 1}, n \in {MaxBytes, MaxBytes + 1}}
    \cup {[raises |-> e] : e \in DOMAIN TransportErrorOf}

AllAnswers == {get(exchange) : exchange \in SomeExchanges}

FewFeeds ==
  {[records |-> <<a>>, errors |-> <<>>],
   FailedBatch("MALFORMED_RESPONSE_ERROR", "RUN")}
=============================================================================
