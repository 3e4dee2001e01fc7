------------------------------ MODULE FetchLoop ------------------------------
(***************************************************************************)
(* WWRSourceAdapter.fetch_and_parse, called by several tasks that share    *)
(* the adapter's rate limiter: every attempt of every task goes through    *)
(* the limiter, and what the source answers decides whether there is       *)
(* another attempt and after how long.  A backoff after an exception is    *)
(* slept inside "async with self._limiter", one after an HTTP status       *)
(* outside of it.                                                          *)
(***************************************************************************)
EXTENDS RetryPolicy, BatchOps

CONSTANTS
  Tasks, MaxConcurrent, MinInterval, MaxJitter, Never,   \* the limiter's
  SourceAnswers,   \* what the source may answer to a request
  Ids,
  Feeds,           \* what parse_feed may make of a body
  Cancels,         \* may a task be cancelled?
  Nothing          \* no answer, no batch yet

ASSUME FetchLoopAssumption ==
  /\ SourceAnswers \subseteq Answers
  /\ Feeds \subseteq ParsedBatches(Ids)
  /\ \A feed \in Feeds : AdapterShape(feed)
  /\ Cancels \in BOOLEAN
  /\ Nothing \notin Answers \cup ParsedBatches(Ids)

\* What RateLimiter asks of its constants.
ASSUME LimiterAssumption ==
  /\ IsFiniteSet(Tasks)
  /\ MaxConcurrent \in Nat \ {0}
  /\ MinInterval \in Nat /\ MaxJitter \in Nat /\ 2 * MaxJitter <= MinInterval
  /\ Never \notin Nat

VARIABLES
  phase, permits, permitQ, lockQ, since, left,   \* the limiter's
  at,         \* where each task is in fetch_and_parse
  attempts,   \* RetryState.attempts_made
  wait,       \* what is left of each task's backoff sleep
  sent,       \* the requests of each task, as the source counts them
  answer,     \* the last answer each task got, or Nothing
  batch       \* what fetch_and_parse returned, or Nothing

Limiter == INSTANCE RateLimiter

fetchVars == <<at, attempts, wait, sent, answer, batch>>
vars == <<phase, permits, permitQ, lockQ, since, left, fetchVars>>

Places ==
  {"idle", "acquiring", "requesting", "holding", "backoff", "returned", "cancelled"}

Init ==
  /\ Limiter!Init
  /\ at = [t \in Tasks |-> "idle"]
  /\ attempts = [t \in Tasks |-> 0]
  /\ wait = [t \in Tasks |-> 0]
  /\ sent = [t \in Tasks |-> 0]
  /\ answer = [t \in Tasks |-> Nothing]
  /\ batch = [t \in Tasks |-> Nothing]

Goto(t, place) == at' = [at EXCEPT ![t] = place]

\* Mutant: a failure is returned as an empty feed.
FailedBatchEmpty(type, scope) == [records |-> <<>>, errors |-> <<>>]

\* The batch of a feed that was not obtained: one error, of the scope given.
FailedBatch(type, scope) ==
  [records |-> <<>>, errors |-> <<[type |-> type, scope |-> scope]>>]

-----------------------------------------------------------------------------
\* The category is known: the first attempt starts.
Fetch(t) ==
  /\ at[t] = "idle"
  /\ Limiter!Enter(t)
  /\ Goto(t, "acquiring")
  /\ UNCHANGED <<attempts, wait, sent, answer, batch>>

\* The category is not in the list of feeds: no request is made.
UnknownCategory(t) ==
  /\ at[t] = "idle"
  /\ batch' = [batch EXCEPT ![t] = FailedBatch("INTERNAL_ERROR", "RUN")]
  /\ Goto(t, "returned")
  /\ UNCHANGED <<phase, permits, permitQ, lockQ, since, left, attempts, wait, sent, answer>>

\* The task advances in the limiter; once through it sends its request.
Advance(t) ==
  /\ at[t] = "acquiring"
  /\ Limiter!GetPermit(t) \/ Limiter!Pace(t) \/ Limiter!PacingDone(t)
  /\ \/ /\ phase'[t] = "inside"
        /\ Goto(t, "requesting")
        /\ sent' = [sent EXCEPT ![t] = @ + 1]
     \/ phase'[t] # "inside" /\ UNCHANGED <<at, sent>>
  /\ UNCHANGED <<attempts, wait, answer, batch>>

\* Mutant: the next attempt is made inside the slot of the one before.
ReenterNested(t) ==
  /\ phase' = [phase EXCEPT ![t] = "queued"]
  /\ permitQ' = Append(permitQ, t)
  /\ UNCHANGED <<permits, lockQ, since, left>>

\* Leave the limiter and queue for it again, without a suspension in between.
Reenter(t) ==
  /\ phase' = [phase EXCEPT ![t] = "queued"]
  /\ permits' = permits + 1
  /\ permitQ' = Append(permitQ, t)
  /\ UNCHANGED <<lockQ, since, left>>

\* The attempt is over and another one follows.
RecordAttempt(t) == attempts' = [attempts EXCEPT ![t] = @ + 1]

\* The batch is what the parser makes of the body, or the error of the answer.
Returned(t, a) ==
  /\ batch' \in {[batch EXCEPT ![t] = b] :
                   b \in IF IsSuccess(a) THEN Feeds ELSE {FailedBatch(ErrorType(a), "REQUEST")}}
  /\ Goto(t, "returned")
  /\ UNCHANGED <<attempts, wait>>

\* The source answers with a feed or a final failure: leave the limiter and return.
FinalAnswer(t) ==
  /\ at[t] = "requesting"
  /\ \E a \in SourceAnswers :
       /\ ~AsksAgain(attempts[t], a)
       /\ answer' = [answer EXCEPT ![t] = a]
       /\ Returned(t, a)
  /\ Limiter!Leave(t)
  /\ UNCHANGED sent

\* An exception to retry: the backoff is slept with the limiter still held.
RetryException(t) ==
  /\ at[t] = "requesting"
  /\ \E a \in SourceAnswers :
       /\ ~IsResponse(a) /\ AsksAgain(attempts[t], a)
       /\ answer' = [answer EXCEPT ![t] = a]
       /\ wait' \in {[wait EXCEPT ![t] = d] : d \in Delays(attempts[t], a)}
  /\ Goto(t, "holding")
  /\ UNCHANGED <<phase, permits, permitQ, lockQ, since, left, attempts, sent, batch>>

\* A status to retry: the limiter is left, then the backoff is slept, if it is not 0.
RetryStatus(t) ==
  /\ at[t] = "requesting"
  /\ \E a \in SourceAnswers :
       /\ IsResponse(a) /\ AsksAgain(attempts[t], a)
       /\ answer' = [answer EXCEPT ![t] = a]
       /\ \/ \E d \in Delays(attempts[t], a) \ {0} :
               /\ wait' = [wait EXCEPT ![t] = d]
               /\ Goto(t, "backoff")
               /\ Limiter!Leave(t)
               /\ UNCHANGED attempts
          \/ /\ 0 \in Delays(attempts[t], a)
             /\ RecordAttempt(t)
             /\ Goto(t, "acquiring")
             /\ Reenter(t)
             /\ UNCHANGED wait
  /\ UNCHANGED <<sent, batch>>

\* Mutant: the next request is sent without leaving the limiter.
ResumeInsideSlot(t) ==
  /\ at[t] \in {"holding", "backoff"} /\ wait[t] = 0
  /\ RecordAttempt(t)
  /\ \/ /\ at[t] = "holding"
        /\ Goto(t, "requesting")
        /\ sent' = [sent EXCEPT ![t] = @ + 1]
        /\ since' = 0
        /\ UNCHANGED <<phase, permits, permitQ, lockQ, left>>
     \/ at[t] = "backoff" /\ Goto(t, "acquiring") /\ Limiter!Enter(t) /\ UNCHANGED sent
  /\ UNCHANGED <<wait, answer, batch>>

\* The backoff is over: the next attempt starts.
Resume(t) ==
  /\ at[t] \in {"holding", "backoff"} /\ wait[t] = 0
  /\ RecordAttempt(t)
  /\ Goto(t, "acquiring")
  /\ IF at[t] = "holding" THEN Reenter(t) ELSE Limiter!Enter(t)
  /\ UNCHANGED <<wait, sent, answer, batch>>

\* Mutant: a task cancelled in its backoff does not leave the limiter.
CancelKeepsSlot(t) ==
  /\ Cancels /\ at[t] \in {"acquiring", "requesting", "holding", "backoff"}
  /\ Goto(t, "cancelled")
  /\ wait' = [wait EXCEPT ![t] = 0]
  /\ CASE at[t] = "acquiring" -> Limiter!CancelWait(t)
       [] at[t] = "requesting" -> Limiter!Leave(t)
       [] OTHER -> UNCHANGED <<phase, permits, permitQ, lockQ, since, left>>
  /\ UNCHANGED <<attempts, sent, answer, batch>>

\* The task is cancelled where it waits; what it holds of the limiter goes back.
Cancel(t) ==
  /\ Cancels /\ at[t] \in {"acquiring", "requesting", "holding", "backoff"}
  /\ Goto(t, "cancelled")
  /\ wait' = [wait EXCEPT ![t] = 0]
  /\ CASE at[t] = "acquiring" -> Limiter!CancelWait(t)
       [] at[t] \in {"requesting", "holding"} -> Limiter!Leave(t)
       [] at[t] = "backoff" -> UNCHANGED <<phase, permits, permitQ, lockQ, since, left>>
  /\ UNCHANGED <<attempts, sent, answer, batch>>

\* One unit of time passes.
Tick ==
  /\ Limiter!Tick
  /\ wait' = Limiter!Countdown(wait)
  /\ UNCHANGED <<at, attempts, sent, answer, batch>>

Answered(t) == FinalAnswer(t) \/ RetryException(t) \/ RetryStatus(t)

Next ==
  \/ \E t \in Tasks : Fetch(t) \/ UnknownCategory(t) \/ Advance(t) \/ Answered(t)
                      \/ Resume(t) \/ Cancel(t)
  \/ Tick

Spec == Init /\ [][Next]_vars

\* Time passes, requests are answered or time out, and ready tasks are resumed.
FairSpec ==
  /\ Spec
  /\ WF_vars(Tick)
  /\ \A t \in Tasks : WF_vars(Advance(t)) /\ WF_vars(Answered(t)) /\ WF_vars(Resume(t))

-----------------------------------------------------------------------------
(* Correctness.                                                            *)

Over(t) == at[t] \in {"idle", "returned", "cancelled"}

\* Where a task is in the loop says where it is in the limiter.
PlacesAgree ==
  \A t \in Tasks :
    /\ Over(t) \/ at[t] = "backoff" <=> phase[t] = "outside"
    /\ at[t] \in {"requesting", "holding"} <=> phase[t] = "inside"

TypeOK ==
  /\ Limiter!TypeOK
  /\ at \in [Tasks -> Places]
  /\ attempts \in [Tasks -> 0..MaxAttempts - 1]
  /\ wait \in [Tasks -> 0..MaxDelay]
  /\ sent \in [Tasks -> Nat]
  /\ answer \in [Tasks -> Answers \cup {Nothing}]
  /\ batch \in [Tasks -> ParsedBatches(Ids) \cup {Nothing}]
  /\ PlacesAgree

(***************************************************************************)
(* No retry storm: a call sends at most MaxAttempts requests, so that n    *)
(* concurrent calls send at most n * MaxAttempts, and the attempt numbers  *)
(* its errors carry are the ones the source counted.                       *)
(***************************************************************************)
RetryBudget ==
  \A t \in Tasks :
    /\ sent[t] <= MaxAttempts
    /\ at[t] \in {"requesting", "holding", "backoff"} => sent[t] = attempts[t] + 1
    /\ at[t] = "acquiring" => sent[t] = attempts[t]

(***************************************************************************)
(* A call only gives up on a failure that cannot be retried, or when its   *)
(* budget is spent; and what it returns is the failure it met last.        *)
(***************************************************************************)
GivesUpForAReason ==
  \A t \in Tasks :
    at[t] = "returned" /\ answer[t] # Nothing /\ ~IsSuccess(answer[t]) =>
      /\ Retryable(answer[t]) => sent[t] = MaxAttempts
      /\ batch[t].errors[1].type = ErrorType(answer[t])

(***************************************************************************)
(* Every failure to get the feed is one the orchestrator takes for an      *)
(* outage of the source, and every batch is of a shape it expects.         *)
(***************************************************************************)
FailuresAreOutages ==
  \A t \in Tasks :
    at[t] = "returned" =>
      /\ AdapterShape(batch[t])
      /\ answer[t] = Nothing \/ ~IsSuccess(answer[t]) => SourceFailed(batch[t])

(***************************************************************************)
(* Calls that are over hold nothing of the limiter: when nobody is in the  *)
(* loop, every permit is back and no queue has anybody in it.              *)
(***************************************************************************)
LimiterComesBack ==
  (\A t \in Tasks : Over(t)) => permits = MaxConcurrent /\ permitQ = <<>> /\ lockQ = <<>>

(***************************************************************************)
(* First attempts and retries of all calls together respect the interval   *)
(* and the concurrency limit of the source.                                *)
(***************************************************************************)
Access == INSTANCE PacedAccess
            WITH inFlight <- {t \in Tasks : at[t] = "requesting"}, Far <- Limiter!Far

SourceIsPaced == Access!Spec

(***************************************************************************)
(* Every call returns or is cancelled, whatever the source answers.        *)
(***************************************************************************)
EveryFetchEnds == \A t \in Tasks : at[t] = "acquiring" ~> Over(t)
=============================================================================
