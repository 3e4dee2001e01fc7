--------------------------- MODULE FetchLoopProofs ---------------------------
(***************************************************************************)
(* Proofs about FetchLoop, for any number of tasks and any answers of the  *)
(* source.                                                                 *)
(***************************************************************************)
EXTENDS FetchLoop, FiniteSetTheorems, TLAPS

\* Where a task is, the requests it sent and the attempts it recorded.
BudgetInv ==
  /\ at \in [Tasks -> Places]
  /\ attempts \in [Tasks -> 0..MaxAttempts - 1]
  /\ sent \in [Tasks -> Nat]
  /\ \A t \in Tasks :
       /\ sent[t] <= attempts[t] + 1
       /\ at[t] \in {"idle", "acquiring"} => sent[t] = attempts[t]
       /\ at[t] \in {"requesting", "holding", "backoff"} => sent[t] = attempts[t] + 1
       /\ at[t] \in {"holding", "backoff"} => attempts[t] < MaxAttempts - 1

\* Every step of a call keeps the count of its requests and of its attempts in agreement.
LEMMA BudgetStep ==
  ASSUME BudgetInv, [Next]_vars
  PROVE  BudgetInv'
<1>. USE RetryConfigAssumption DEF BudgetInv, Places, Goto
<1>1. ASSUME NEW t \in Tasks, Fetch(t) \/ UnknownCategory(t) PROVE BudgetInv'
  BY <1>1 DEF Fetch, UnknownCategory
<1>2. ASSUME NEW t \in Tasks, Advance(t) PROVE BudgetInv'
  BY <1>2 DEF Advance
<1>3. ASSUME NEW t \in Tasks, FinalAnswer(t) PROVE BudgetInv'
  BY <1>3 DEF FinalAnswer, Returned
<1>4. ASSUME NEW t \in Tasks, RetryException(t) PROVE BudgetInv'
  BY <1>4 DEF RetryException, AsksAgain
<1>5. ASSUME NEW t \in Tasks, RetryStatus(t) PROVE BudgetInv'
  <2>1. /\ at[t] = "requesting" /\ attempts[t] < MaxAttempts - 1 /\ UNCHANGED sent
        /\ \/ Goto(t, "backoff") /\ UNCHANGED attempts
           \/ Goto(t, "acquiring") /\ RecordAttempt(t)
    BY <1>5 DEF RetryStatus, AsksAgain
  <2>. QED
    BY <2>1 DEF RecordAttempt
<1>6. ASSUME NEW t \in Tasks, Resume(t) PROVE BudgetInv'
  BY <1>6 DEF Resume, RecordAttempt
<1>7. ASSUME NEW t \in Tasks, Cancel(t) PROVE BudgetInv'
  BY <1>7 DEF Cancel
<1>8. CASE Tick
  BY <1>8 DEF Tick
<1>9. CASE UNCHANGED vars
  BY <1>9 DEF vars, fetchVars
<1>. QED
  BY <1>1, <1>2, <1>3, <1>4, <1>5, <1>6, <1>7, <1>8, <1>9 DEF Next, Answered

\* The count of attempts and the count of requests agree in every reachable state.
LEMMA BudgetInvariant == Spec => []BudgetInv
<1>1. Init => BudgetInv
  BY RetryConfigAssumption DEF Init, BudgetInv, Places
<1>. QED
  BY <1>1, BudgetStep, PTL DEF Spec

\* No retry storm: n concurrent calls against a failing source send at most
\* n * max_attempts requests, whatever the source answers and however they interleave.
THEOREM RetriesAreBounded == Spec => []RetryBudget
<1>1. BudgetInv => RetryBudget
  BY RetryConfigAssumption DEF BudgetInv, RetryBudget
<1>. QED
  BY <1>1, BudgetInvariant, PTL

-----------------------------------------------------------------------------
(* What a call returns.                                                    *)

\* A batch is only there when the call has returned, and it is of the last answer.
ResultInv ==
  /\ answer \in [Tasks -> Answers \cup {Nothing}]
  /\ DOMAIN batch = Tasks
  /\ \A t \in Tasks :
       /\ at[t] = "idle" => answer[t] = Nothing
       /\ at[t] = "returned" =>
            /\ AdapterShape(batch[t])
            /\ answer[t] = Nothing => SourceFailed(batch[t])
            /\ answer[t] # Nothing /\ ~IsSuccess(answer[t]) =>
                 /\ SourceFailed(batch[t])
                 /\ batch[t].errors[1].type = ErrorType(answer[t])
                 /\ Retryable(answer[t]) => sent[t] = MaxAttempts

\* The error of a feed that was not obtained makes an outage of the run.
LEMMA FailedBatchShape ==
  ASSUME NEW type, NEW scope \in {"RUN", "REQUEST"}
  PROVE  /\ AdapterShape(FailedBatch(type, scope))
         /\ SourceFailed(FailedBatch(type, scope))
         /\ FailedBatch(type, scope).errors[1].type = type
BY DEF FailedBatch, AdapterShape, SourceFailed

\* A step that returns a batch returns the feed, or the error of the last answer.
LEMMA ResultStep ==
  ASSUME BudgetInv, ResultInv, [Next]_vars
  PROVE  ResultInv'
<1>. USE DEF ResultInv, BudgetInv, Goto
<1>1. ASSUME NEW t \in Tasks, Fetch(t) PROVE ResultInv'
  BY <1>1 DEF Fetch
<1>2. ASSUME NEW t \in Tasks, UnknownCategory(t) PROVE ResultInv'
  BY <1>2, FailedBatchShape DEF UnknownCategory
<1>3. ASSUME NEW t \in Tasks, Advance(t) PROVE ResultInv'
  BY <1>3 DEF Advance
<1>4. ASSUME NEW t \in Tasks, FinalAnswer(t) PROVE ResultInv'
  <2>1. PICK a \in SourceAnswers :
          /\ ~AsksAgain(attempts[t], a)
          /\ answer' = [answer EXCEPT ![t] = a]
          /\ Returned(t, a)
    BY <1>4 DEF FinalAnswer
  <2>2. /\ at[t] = "requesting" /\ UNCHANGED <<sent, attempts>>
        /\ at' = [at EXCEPT ![t] = "returned"]
    BY <1>4, <2>1 DEF FinalAnswer, Returned
  <2>3. a \in Answers /\ a # Nothing
    BY FetchLoopAssumption
  <2>4. PICK b : /\ batch' = [batch EXCEPT ![t] = b]
                 /\ b \in IF IsSuccess(a) THEN Feeds ELSE {FailedBatch(ErrorType(a), "REQUEST")}
    BY <2>1 DEF Returned
  <2>5. AdapterShape(b)
    BY <2>4, FailedBatchShape, FetchLoopAssumption
  <2>6. ~IsSuccess(a) => SourceFailed(b) /\ b.errors[1].type = ErrorType(a)
    BY <2>4, FailedBatchShape
  <2>7. Retryable(a) => sent[t] = MaxAttempts
    BY <2>1, <2>2, RetryConfigAssumption DEF AsksAgain
  <2>. QED
    BY <2>1, <2>2, <2>3, <2>4, <2>5, <2>6, <2>7
<1>5. ASSUME NEW t \in Tasks, RetryException(t) \/ RetryStatus(t) PROVE ResultInv'
  <2>1. /\ UNCHANGED <<batch, sent>>
        /\ \E p \in {"holding", "backoff", "acquiring"} : at' = [at EXCEPT ![t] = p]
        /\ \E a \in Answers : answer' = [answer EXCEPT ![t] = a]
    BY <1>5, FetchLoopAssumption DEF RetryException, RetryStatus
  <2>. QED
    BY <2>1
<1>6. ASSUME NEW t \in Tasks, Resume(t) PROVE ResultInv'
  BY <1>6 DEF Resume
<1>7. ASSUME NEW t \in Tasks, Cancel(t) PROVE ResultInv'
  BY <1>7 DEF Cancel
<1>8. CASE Tick
  BY <1>8 DEF Tick
<1>9. CASE UNCHANGED vars
  BY <1>9 DEF vars, fetchVars
<1>. QED
  BY <1>1, <1>2, <1>3, <1>4, <1>5, <1>6, <1>7, <1>8, <1>9 DEF Next, Answered

\* What a call returned is accounted for by its last answer, in every reachable state.
LEMMA ResultInvariant == Spec => []ResultInv
<1>1. Init => ResultInv
  BY DEF Init, ResultInv
<1>. QED
  BY <1>1, ResultStep, BudgetInvariant, PTL DEF Spec

\* A call gives up on a failure only when it cannot be retried or when max_attempts requests
\* were sent, and returns the failure it met last.
THEOREM GivingUpIsJustified == Spec => []GivesUpForAReason
<1>1. ResultInv => GivesUpForAReason
  BY DEF ResultInv, GivesUpForAReason
<1>. QED
  BY <1>1, ResultInvariant, PTL

\* Whatever the source answers, a feed that was not obtained reaches the orchestrator as an
\* outage of the source.
THEOREM FailuresReported == Spec => []FailuresAreOutages
<1>1. ResultInv => FailuresAreOutages
  BY DEF ResultInv, FailuresAreOutages
<1>. QED
  BY <1>1, ResultInvariant, PTL

-----------------------------------------------------------------------------
(* The loop and its limiter.                                               *)

LP == INSTANCE RateLimiterProofs

\* What those proofs assume of the constants is assumed here.
LEMMA AssumptionMet == LP!RateLimiterAssumption
BY LimiterAssumption DEF IsFiniteSet, LP!IsFiniteSet

\* The limiter of the loop is the limiter that RateLimiterProofs is about.
LEMMA SameSteps ==
  ASSUME NEW t
  PROVE  /\ Limiter!Enter(t) <=> LP!Enter(t)
         /\ Limiter!GetPermit(t) <=> LP!GetPermit(t)
         /\ Limiter!Pace(t) <=> LP!Pace(t)
         /\ Limiter!PacingDone(t) <=> LP!PacingDone(t)
         /\ Limiter!Leave(t) <=> LP!Leave(t)
         /\ Limiter!CancelWait(t) <=> LP!CancelWait(t)
         /\ Limiter!Tick <=> LP!Tick
<1>. USE DEF Limiter!To, LP!To
<1>1. /\ Limiter!Enter(t) <=> LP!Enter(t)
      /\ Limiter!GetPermit(t) <=> LP!GetPermit(t)
      /\ Limiter!PacingDone(t) <=> LP!PacingDone(t)
      /\ Limiter!Leave(t) <=> LP!Leave(t)
  BY DEF Limiter!Enter, LP!Enter, Limiter!GetPermit, LP!GetPermit,
         Limiter!PacingDone, LP!PacingDone, Limiter!Leave, LP!Leave
<1>2. Limiter!Pace(t) <=> LP!Pace(t)
  BY DEF Limiter!Pace, LP!Pace, Limiter!Remaining, LP!Remaining,
         Limiter!LockFree, LP!LockFree, Limiter!InPhase, LP!InPhase
<1>3. Limiter!CancelWait(t) <=> LP!CancelWait(t)
  BY DEF Limiter!CancelWait, LP!CancelWait, Limiter!LeaveQueue, LP!LeaveQueue,
         Limiter!RemoveAt, LP!RemoveAt
<1>4. Limiter!Tick <=> LP!Tick
  BY DEF Limiter!Tick, LP!Tick, Limiter!Far, LP!Far, Limiter!Elapse, LP!Elapse,
         Limiter!Countdown, LP!Countdown
<1>. QED
  BY <1>1, <1>2, <1>3, <1>4

\* Where each task is, in the loop and in the limiter, and the limiter's own invariant.
LoopInv == LP!LimiterInv /\ PlacesAgree

\* What every step does to the limiter: a step of its own, or leaving it and queueing again.
LEMMA LimiterMoves ==
  ASSUME PlacesAgree, [Next]_vars
  PROVE  \/ [LP!Next]_(LP!limiterVars)
         \/ \E t \in Tasks : phase[t] = "inside" /\ Reenter(t)
<1>1. ASSUME NEW t \in Tasks, Fetch(t) \/ UnknownCategory(t) \/ Advance(t)
      PROVE  [LP!Next]_(LP!limiterVars)
  BY <1>1, SameSteps DEF Fetch, UnknownCategory, Advance, LP!Next, LP!limiterVars
<1>2. ASSUME NEW t \in Tasks, FinalAnswer(t) \/ RetryException(t)
      PROVE  [LP!Next]_(LP!limiterVars)
  BY <1>2, SameSteps DEF FinalAnswer, RetryException, LP!Next, LP!limiterVars
<1>3. ASSUME NEW t \in Tasks, RetryStatus(t)
      PROVE  LP!Next \/ (phase[t] = "inside" /\ Reenter(t))
  <2>1. at[t] = "requesting" /\ (Limiter!Leave(t) \/ Reenter(t))
    BY <1>3 DEF RetryStatus
  <2>2. Limiter!Leave(t) => LP!Next
    BY SameSteps DEF LP!Next
  <2>3. phase[t] = "inside"
    BY <2>1 DEF PlacesAgree
  <2>. QED
    BY <2>1, <2>2, <2>3
<1>4. ASSUME NEW t \in Tasks, Resume(t)
      PROVE  LP!Next \/ (phase[t] = "inside" /\ Reenter(t))
  <2>1. (at[t] = "holding" /\ Reenter(t)) \/ Limiter!Enter(t)
    BY <1>4 DEF Resume
  <2>2. Limiter!Enter(t) => LP!Next
    BY SameSteps DEF LP!Next
  <2>3. at[t] = "holding" => phase[t] = "inside"
    BY DEF PlacesAgree
  <2>. QED
    BY <2>1, <2>2, <2>3
<1>5. ASSUME NEW t \in Tasks, Cancel(t)
      PROVE  [LP!Next]_(LP!limiterVars)
  BY <1>5, SameSteps DEF Cancel, LP!Next, LP!limiterVars
<1>6. CASE Tick
  BY <1>6, SameSteps DEF Tick, LP!Next
<1>7. CASE UNCHANGED vars
  BY <1>7 DEF vars, LP!limiterVars
<1>. QED
  BY <1>1, <1>2, <1>3, <1>4, <1>5, <1>6, <1>7 DEF Next, Answered

\* The limiter's invariant survives the loop.
LEMMA LimiterInvKept ==
  ASSUME LoopInv, [Next]_vars
  PROVE  LP!LimiterInv'
<1>1. CASE [LP!Next]_(LP!limiterVars)
  BY <1>1, LP!LimiterInvStep, AssumptionMet DEF LoopInv
<1>2. ASSUME NEW t \in Tasks, phase[t] = "inside", Reenter(t) PROVE LP!LimiterInv'
  BY <1>2, LP!LeaveAndEnter, AssumptionMet DEF LoopInv, Reenter, LP!To
<1>. QED
  BY <1>1, <1>2, LimiterMoves DEF LoopInv

\* A task that is not moved stays where it is, in the loop and in the limiter.
LEMMA PlacesStep ==
  ASSUME BudgetInv, LoopInv, [Next]_vars
  PROVE  PlacesAgree'
<1>. USE DEF BudgetInv, Places, PlacesAgree, Over, Goto
<1>1. phase \in [Tasks -> {"outside", "queued", "locking", "pacing", "inside"}]
  BY DEF LoopInv, LP!LimiterInv, LP!SemaphoreTypeOK, LP!Phases
<1>2. PlacesAgree
  BY DEF LoopInv
<1>. USE DEF Limiter!To
<1>3. ASSUME NEW t \in Tasks, Fetch(t) PROVE PlacesAgree'
  BY <1>1, <1>2, <1>3 DEF Fetch, Limiter!Enter
<1>4. ASSUME NEW t \in Tasks, UnknownCategory(t) PROVE PlacesAgree'
  BY <1>2, <1>4 DEF UnknownCategory
<1>5. ASSUME NEW t \in Tasks, Advance(t) PROVE PlacesAgree'
  <2>1. \E p \in {"locking", "pacing", "inside"} : Limiter!To(t, p)
    BY <1>5 DEF Advance, Limiter!GetPermit, Limiter!Pace, Limiter!PacingDone
  <2>2. /\ at[t] = "acquiring"
        /\ IF phase'[t] = "inside" THEN Goto(t, "requesting") ELSE UNCHANGED at
    BY <1>5 DEF Advance
  <2>. QED
    BY <1>1, <1>2, <2>1, <2>2
<1>6. ASSUME NEW t \in Tasks, FinalAnswer(t) PROVE PlacesAgree'
  <2>1. at[t] = "requesting" /\ Goto(t, "returned") /\ Limiter!Leave(t)
    BY <1>6 DEF FinalAnswer, Returned
  <2>. QED
    BY <1>1, <1>2, <2>1 DEF Limiter!Leave
<1>7. ASSUME NEW t \in Tasks, RetryException(t) PROVE PlacesAgree'
  BY <1>1, <1>2, <1>7 DEF RetryException
<1>8. ASSUME NEW t \in Tasks, RetryStatus(t) PROVE PlacesAgree'
  <2>1. /\ at[t] = "requesting"
        /\ \/ Goto(t, "backoff") /\ Limiter!Leave(t)
           \/ Goto(t, "acquiring") /\ Reenter(t)
    BY <1>8 DEF RetryStatus
  <2>. QED
    BY <1>1, <1>2, <2>1 DEF Limiter!Leave, Reenter
<1>9. ASSUME NEW t \in Tasks, Resume(t) PROVE PlacesAgree'
  BY <1>1, <1>2, <1>9 DEF Resume, Reenter, Limiter!Enter
<1>10. ASSUME NEW t \in Tasks, Cancel(t) PROVE PlacesAgree'
  BY <1>1, <1>2, <1>10 DEF Cancel, Limiter!CancelWait, Limiter!Leave
<1>11. CASE Tick
  BY <1>2, <1>11 DEF Tick, Limiter!Tick
<1>12. CASE UNCHANGED vars
  BY <1>2, <1>12 DEF vars, fetchVars
<1>. QED
  BY <1>3, <1>4, <1>5, <1>6, <1>7, <1>8, <1>9, <1>10, <1>11, <1>12 DEF Next, Answered

\* The loop and its limiter agree in every reachable state.
LEMMA LoopInvariant == Spec => []LoopInv
<1>1. Init => LoopInv
  <2>1. Init => LP!Init
    BY DEF Init, Limiter!Init, LP!Init
  <2>2. Init => PlacesAgree
    BY DEF Init, Limiter!Init, PlacesAgree, Over
  <2>. QED
    BY <2>1, <2>2, LP!LimiterInvInit, AssumptionMet DEF LoopInv
<1>2. BudgetInv /\ LoopInv /\ [Next]_vars => LoopInv'
  BY LimiterInvKept, PlacesStep DEF LoopInv
<1>. QED
  BY <1>1, <1>2, BudgetInvariant, PTL DEF Spec

\* When no call is in the loop, every permit is back and no queue has anybody in it, whatever
\* the source answered and wherever calls were cancelled.
THEOREM LimiterAlwaysComesBack == Spec => []LimiterComesBack
<1>1. LoopInv => LimiterComesBack
  BY LP!NobodyLeftBehind, AssumptionMet DEF LoopInv, LimiterComesBack, PlacesAgree
<1>. QED
  BY <1>1, LoopInvariant, PTL

-----------------------------------------------------------------------------
(* The promise to the source.                                              *)

InFlight == {t \in Tasks : at[t] = "requesting"}

\* A task that the limiter lets go finds room at the source, and the interval over.
LEMMA RequestBegins ==
  ASSUME BudgetInv, LoopInv, NEW t \in Tasks, Advance(t), phase'[t] = "inside"
  PROVE  Access!Begin(t)
<1>. USE DEF LoopInv, LP!LimiterInv
<1>1. phase \in [Tasks -> {"outside", "queued", "locking", "pacing", "inside"}]
  BY DEF LP!SemaphoreTypeOK, LP!Phases
<1>2. phase[t] \in {"locking", "pacing"} /\ (LP!Pace(t) \/ LP!PacingDone(t))
  BY <1>1, SameSteps
  DEF Advance, LP!GetPermit, LP!Pace, LP!PacingDone, LP!To
<1>3. since' = 0 /\ (since = Never \/ since >= MinInterval)
  BY <1>2, LP!RequestStarts, AssumptionMet
<1>4. InFlight \subseteq LP!InPhase("inside")
  BY DEF InFlight, LP!InPhase, PlacesAgree
<1>5. LP!Cardinality(LP!InPhase("inside")) < MaxConcurrent
  BY <1>2, LP!RoomInside, AssumptionMet
<1>6. IsFiniteSet(LP!InPhase("inside"))
  BY FS_Subset, LimiterAssumption DEF LP!InPhase
<1>7. Cardinality(InFlight) <= Cardinality(LP!InPhase("inside"))
      /\ Cardinality(InFlight) \in Nat /\ Cardinality(LP!InPhase("inside")) \in Nat
  BY <1>4, <1>6, FS_Subset, FS_CardinalityType
<1>8. /\ Access!Cardinality(InFlight) = Cardinality(InFlight)
      /\ LP!Cardinality(LP!InPhase("inside")) = Cardinality(LP!InPhase("inside"))
  BY DEF Access!Cardinality, LP!Cardinality, Cardinality
<1>9. t \notin InFlight /\ InFlight' = InFlight \cup {t}
  BY DEF BudgetInv, Advance, Goto, InFlight
<1>. QED
  BY <1>3, <1>5, <1>7, <1>8, <1>9, LimiterAssumption DEF Access!Begin, InFlight

\* A task whose request was answered, or given up, is not in flight any more.
LEMMA RequestEnds ==
  ASSUME BudgetInv, NEW t \in Tasks, at[t] = "requesting",
         NEW place \in Places \ {"requesting"}, Goto(t, place), UNCHANGED since
  PROVE  Access!Next
BY DEF BudgetInv, Goto, Access!Next, Access!End

\* Refinement: all attempts of all calls together give the source what PacedAccess promises,
\* retries and cancellations included.
THEOREM LoopPacesAccess == Spec => SourceIsPaced
<1>1. Init => Access!Init
  BY DEF Init, Limiter!Init, Access!Init
<1>2. BudgetInv /\ LoopInv /\ [Next]_vars => [Access!Next]_<<InFlight, since>>
  <2>. SUFFICES ASSUME BudgetInv, LoopInv, [Next]_vars
                PROVE  [Access!Next]_<<InFlight, since>>
    OBVIOUS
  <2>. USE DEF BudgetInv, Places
  <2>1. ASSUME NEW t \in Tasks, NEW place \in Places \ {"requesting"}, at[t] # "requesting",
               Goto(t, place), UNCHANGED since
        PROVE  UNCHANGED <<InFlight, since>>
    BY <2>1 DEF Goto, InFlight
  <2>2. ASSUME NEW t \in Tasks, Fetch(t) \/ UnknownCategory(t) \/ Resume(t)
        PROVE  UNCHANGED <<InFlight, since>>
    BY <2>1, <2>2 DEF Fetch, UnknownCategory, Resume, Limiter!Enter, Reenter
  <2>3. ASSUME NEW t \in Tasks, Advance(t) PROVE [Access!Next]_<<InFlight, since>>
    <3>1. CASE phase'[t] = "inside"
      BY <2>3, <3>1, RequestBegins DEF Access!Next
    <3>2. CASE phase'[t] # "inside"
      <4>1. UNCHANGED since
        <5>1. CASE LP!Pace(t) \/ LP!PacingDone(t)
          BY <3>2, <5>1, LP!RequestStarts, AssumptionMet DEF LoopInv, LP!LimiterInv
        <5>2. CASE LP!GetPermit(t)
          BY <5>2 DEF LP!GetPermit
        <5>. QED
          BY <2>3, <5>1, <5>2, SameSteps DEF Advance
      <4>. QED
        BY <2>3, <3>2, <4>1 DEF Advance, InFlight
    <3>. QED
      BY <3>1, <3>2
  <2>4. ASSUME NEW t \in Tasks, Answered(t) PROVE Access!Next
    <3>1. /\ at[t] = "requesting" /\ UNCHANGED since
          /\ \E place \in Places \ {"requesting"} : Goto(t, place)
      BY <2>4 DEF Answered, FinalAnswer, RetryException, RetryStatus, Returned, Limiter!Leave,
                  Reenter
    <3>. QED
      BY <3>1, RequestEnds
  <2>5. ASSUME NEW t \in Tasks, Cancel(t) PROVE [Access!Next]_<<InFlight, since>>
    <3>1. Goto(t, "cancelled") /\ UNCHANGED since
      BY <2>5 DEF Cancel, Limiter!CancelWait, Limiter!Leave
    <3>. QED
      BY <2>1, <3>1, RequestEnds
  <2>6. CASE Tick
    BY <2>6 DEF Tick, Limiter!Tick, Limiter!Elapse, Access!Next, Access!Tick, Access!Later,
                InFlight
  <2>7. CASE UNCHANGED vars
    BY <2>7 DEF vars, fetchVars, InFlight
  <2>. QED
    BY <2>2, <2>3, <2>4, <2>5, <2>6, <2>7 DEF Next
<1>. QED
  BY <1>1, <1>2, BudgetInvariant, LoopInvariant, PTL
  DEF Spec, SourceIsPaced, Access!Spec, InFlight

-----------------------------------------------------------------------------
(* The values of the variables.                                            *)

\* A percentage of what is at most n is at most the percentage of n.
LEMMA PercentageMonotone ==
  ASSUME NEW p \in Nat, NEW m \in Nat, NEW n \in Nat, m <= n
  PROVE  /\ (p * m) \div 100 \in Nat /\ (p * n) \div 100 \in Nat
         /\ (p * m) \div 100 <= (p * n) \div 100
<1>1. p * m \in Nat /\ p * n \in Nat /\ p * m <= p * n
  <2>1. PICK d \in Nat : n = m + d
    <3>. WITNESS n - m \in Nat
    <3>. QED
      OBVIOUS
  <2>2. p * n = p * m + p * d /\ p * d \in Nat /\ p * m \in Nat
    BY <2>1
  <2>. QED
    BY <2>2
<1>2. \A i, j \in Nat : i <= j => /\ i \div 100 \in Nat /\ j \div 100 \in Nat
                                  /\ i \div 100 <= j \div 100
  OBVIOUS
<1>. QED
  BY <1>1, <1>2

\* No delay of the policy is longer than MaxDelay, whatever Retry-After says.
LEMMA DelaysBounded ==
  ASSUME NEW n \in 0..MaxAttempts - 1, NEW a \in Answers
  PROVE  Delays(n, a) \subseteq 0..MaxDelay
<1>. USE RetryConfigAssumption
<1>1. (JitterPercent * MaxBackoff) \div 100 \in Nat
  BY PercentageMonotone
<1>2. 0 \in 0..MaxDelay /\ MaxRetryAfter <= MaxDelay /\ MaxDelay \in Nat
      /\ MaxBackoff + (JitterPercent * MaxBackoff) \div 100 <= MaxDelay
  BY <1>1 DEF MaxDelay
<1>3. CASE UsesRetryAfter(a)
  <2>1. a.retryAfter = NaN \/ a.retryAfter \in Nat
    BY <1>3 DEF UsesRetryAfter, Answers, Responses, Exceptions, IsResponse, RetryAfters
  <2>. QED
    BY <1>2, <1>3, <2>1 DEF Delays, MinOf
<1>4. CASE ~UsesRetryAfter(a)
  <2>. DEFINE capped == MinOf(BaseBackoff * 2^n, MaxBackoff)
  <2>1. 2^n \in Nat
    BY PowersOfTwoAssumption
  <2>2. BaseBackoff * 2^n \in Nat
    BY <2>1
  <2>3. capped \in Nat /\ capped <= MaxBackoff
    BY <2>2 DEF MinOf
  <2>4. /\ (JitterPercent * capped) \div 100 \in Nat
        /\ (JitterPercent * capped) \div 100 <= (JitterPercent * MaxBackoff) \div 100
    BY <2>3, PercentageMonotone
  <2>5. Delays(n, a) = capped .. (capped + (JitterPercent * capped) \div 100)
    BY <1>4 DEF Delays, Backoffs
  <2>. HIDE DEF capped
  <2>. QED
    BY <1>1, <1>2, <2>3, <2>4, <2>5
<1>. QED
  BY <1>3, <1>4

\* What is returned for a failure is a batch.
LEMMA FailedBatchType ==
  ASSUME NEW type \in ErrorTypes, NEW scope \in {"RUN", "REQUEST"}
  PROVE  FailedBatch(type, scope) \in ParsedBatches(Ids)
<1>1. [type |-> type, scope |-> scope] \in Errors
  BY DEF Errors
<1>. QED
  BY <1>1 DEF FailedBatch, ParsedBatches

\* The sleeps and the batches keep their types.
LoopTypeOK ==
  /\ wait \in [Tasks -> 0..MaxDelay]
  /\ batch \in [Tasks -> ParsedBatches(Ids) \cup {Nothing}]

LEMMA LoopTypeStep ==
  ASSUME BudgetInv, LoopTypeOK, [Next]_vars
  PROVE  LoopTypeOK'
<1>. USE DEF LoopTypeOK
<1>1. ASSUME NEW t \in Tasks, Fetch(t) \/ Advance(t) \/ Resume(t) PROVE LoopTypeOK'
  BY <1>1 DEF Fetch, Advance, Resume
<1>2. ASSUME NEW t \in Tasks, UnknownCategory(t) PROVE LoopTypeOK'
  BY <1>2, FailedBatchType DEF UnknownCategory, ErrorTypes
<1>3. ASSUME NEW t \in Tasks, FinalAnswer(t) PROVE LoopTypeOK'
  <2>1. PICK a \in SourceAnswers : Returned(t, a)
    BY <1>3 DEF FinalAnswer
  <2>2. PICK b \in IF IsSuccess(a) THEN Feeds ELSE {FailedBatch(ErrorType(a), "REQUEST")} :
          batch' = [batch EXCEPT ![t] = b]
    BY <2>1 DEF Returned
  <2>3. ErrorType(a) \in ErrorTypes
    BY DEF ErrorType, ErrorTypes
  <2>4. b \in ParsedBatches(Ids)
    BY <2>2, <2>3, FailedBatchType, FetchLoopAssumption
  <2>. QED
    BY <2>1, <2>2, <2>4 DEF Returned
<1>4. ASSUME NEW t \in Tasks, RetryException(t) \/ RetryStatus(t) PROVE LoopTypeOK'
  <2>1. /\ UNCHANGED batch
        /\ \/ UNCHANGED wait
           \/ \E a \in SourceAnswers : \E d \in Delays(attempts[t], a) :
                wait' = [wait EXCEPT ![t] = d]
    BY <1>4 DEF RetryException, RetryStatus
  <2>2. attempts[t] \in 0..MaxAttempts - 1
    BY DEF BudgetInv
  <2>3. \A a \in SourceAnswers : Delays(attempts[t], a) \subseteq 0..MaxDelay
    BY <2>2, DelaysBounded, FetchLoopAssumption
  <2>. QED
    BY <2>1, <2>3
<1>5. ASSUME NEW t \in Tasks, Cancel(t) PROVE LoopTypeOK'
  <2>1. MaxDelay \in Nat
    BY RetryConfigAssumption, PercentageMonotone DEF MaxDelay
  <2>. QED
    BY <1>5, <2>1 DEF Cancel
<1>6. CASE Tick
  <2>1. MaxDelay \in Nat
    BY RetryConfigAssumption, PercentageMonotone DEF MaxDelay
  <2>. QED
    BY <1>6, <2>1 DEF Tick, Limiter!Countdown
<1>7. CASE UNCHANGED vars
  BY <1>7 DEF vars, fetchVars
<1>. QED
  BY <1>1, <1>2, <1>3, <1>4, <1>5, <1>6, <1>7 DEF Next, Answered

\* Every variable keeps its type, no wait is longer than the policy's ceilings, and a call's
\* place in the loop says where it is in the limiter.
THEOREM FetchLoopType == Spec => []TypeOK
<1>1. Init => LoopTypeOK
  <2>1. MaxDelay \in Nat
    BY RetryConfigAssumption, PercentageMonotone DEF MaxDelay
  <2>. QED
    BY <2>1 DEF Init, LoopTypeOK
<1>2. Spec => []LoopTypeOK
  BY <1>1, LoopTypeStep, BudgetInvariant, PTL DEF Spec
<1>3. LoopInv => Limiter!TypeOK
  <2>1. LoopInv => LP!TypeOK
    BY LP!PermitsBounded, AssumptionMet DEF LoopInv, LP!LimiterInv
  <2>2. LP!TypeOK => Limiter!TypeOK
    BY DEF LP!TypeOK, Limiter!TypeOK, LP!Phases, Limiter!Phases, LP!Far, Limiter!Far
  <2>. QED
    BY <2>1, <2>2
<1>4. BudgetInv /\ ResultInv /\ LoopInv /\ LoopTypeOK => TypeOK
  BY <1>3 DEF BudgetInv, ResultInv, LoopInv, LoopTypeOK, TypeOK
<1>. QED
  BY <1>2, <1>4, BudgetInvariant, ResultInvariant, LoopInvariant, PTL
=============================================================================
