----------------------------- MODULE RateLimiter -----------------------------
(***************************************************************************)
(* RateLimiter as the tasks of one event loop use it: a semaphore for the  *)
(* number of requests, and a lock under which one task at a time waits for *)
(* its turn in the pacing.  A step is the code between two suspensions.    *)
(* Both primitives are asyncio's: first come, first served.  A task that   *)
(* finds them free does not suspend: its Enter, GetPermit and Pace then    *)
(* follow each other, which is one of the interleavings here.              *)
(*                                                                         *)
(* time.monotonic() is read only to be subtracted from the last reading    *)
(* kept, so the clock is the time since then; a sleep is what is left of   *)
(* it, and a sleeper may wake late.                                        *)
(***************************************************************************)
EXTENDS Integers, SequencesExt

CONSTANTS
  Tasks,
  MaxConcurrent, MinInterval,
  MaxJitter,       \* the largest random addition to the interval (50% of it)
  Never            \* _last_request_time is None

Far == MinInterval + MaxJitter

ASSUME RateLimiterAssumption ==
  /\ IsFiniteSet(Tasks)
  /\ MaxConcurrent \in Nat \ {0}
  /\ MinInterval \in Nat /\ MaxJitter \in Nat /\ 2 * MaxJitter <= MinInterval
  /\ Never \notin Nat

VARIABLES
  phase,      \* where each task is in "async with limiter"
  permits,    \* the semaphore's value
  permitQ,    \* the tasks waiting for it
  lockQ,      \* the tasks waiting for _interval_lock
  since,      \* now - _last_request_time
  left        \* what is left of each task's pacing sleep

limiterVars == <<phase, permits, permitQ, lockQ, since, left>>

Phases == {"outside", "queued", "locking", "pacing", "inside"}

InPhase(p) == {t \in Tasks : phase[t] = p}

\* The tasks that took a permit and have not given it back.
Holders == InPhase("locking") \cup InPhase("pacing") \cup InPhase("inside")

\* The lock is held by a task across a suspension only while it sleeps.
LockFree == InPhase("pacing") = {}

Init ==
  /\ phase = [t \in Tasks |-> "outside"]
  /\ permits = MaxConcurrent
  /\ permitQ = <<>>
  /\ lockQ = <<>>
  /\ since = Never
  /\ left = [t \in Tasks |-> 0]

To(t, p) == phase' = [phase EXCEPT ![t] = p]

-----------------------------------------------------------------------------
\* __aenter__ is called and queues for the semaphore.
Enter(t) ==
  /\ phase[t] = "outside"
  /\ To(t, "queued")
  /\ permitQ' = Append(permitQ, t)
  /\ UNCHANGED <<permits, lockQ, since, left>>

\* The semaphore lets the first waiter through; it goes on to the lock.
GetPermit(t) ==
  /\ phase[t] = "queued" /\ permitQ # <<>> /\ t = Head(permitQ)
  /\ permits > 0
  /\ permits' = permits - 1
  /\ permitQ' = Tail(permitQ)
  /\ To(t, "locking")
  /\ lockQ' = Append(lockQ, t)
  /\ UNCHANGED <<since, left>>

\* target_interval - elapsed, when there was a request and an interval.
Remaining(jitter) ==
  IF since = Never \/ MinInterval + jitter = 0 THEN 0 ELSE MinInterval + jitter - since

\* Mutant: the interval is computed without taking the lock.
PaceUnlocked(t) ==
  /\ phase[t] = "locking" /\ lockQ # <<>> /\ t = Head(lockQ)
  /\ lockQ' = Tail(lockQ)
  /\ \E jitter \in 0..MaxJitter :
       \/ /\ Remaining(jitter) > 0
          /\ To(t, "pacing")
          /\ left' = [left EXCEPT ![t] = Remaining(jitter)]
          /\ UNCHANGED since
       \/ /\ Remaining(jitter) <= 0
          /\ To(t, "inside")
          /\ since' = 0
          /\ UNCHANGED left
  /\ UNCHANGED <<permits, permitQ>>

\* The lock is taken: sleep for what remains, or go.
Pace(t) ==
  /\ phase[t] = "locking" /\ lockQ # <<>> /\ t = Head(lockQ)
  /\ LockFree
  /\ lockQ' = Tail(lockQ)
  /\ \E jitter \in 0..MaxJitter :
       \/ /\ Remaining(jitter) > 0
          /\ To(t, "pacing")
          /\ left' = [left EXCEPT ![t] = Remaining(jitter)]
          /\ UNCHANGED since
       \/ /\ Remaining(jitter) <= 0
          /\ To(t, "inside")
          /\ since' = 0
          /\ UNCHANGED left
  /\ UNCHANGED <<permits, permitQ>>

\* Mutant: the clock is not read again after the sleep.
PacingDoneStaleClock(t) ==
  /\ phase[t] = "pacing" /\ left[t] = 0
  /\ To(t, "inside")
  /\ UNCHANGED <<permits, permitQ, lockQ, since, left>>

\* The sleep is over: the request starts now, and the lock is released.
PacingDone(t) ==
  /\ phase[t] = "pacing" /\ left[t] = 0
  /\ To(t, "inside")
  /\ since' = 0
  /\ UNCHANGED <<permits, permitQ, lockQ, left>>

\* __aexit__
Leave(t) ==
  /\ phase[t] = "inside"
  /\ To(t, "outside")
  /\ permits' = permits + 1
  /\ UNCHANGED <<permitQ, lockQ, since, left>>

LeaveQueue(t, q, q2) == \E i \in DOMAIN q : q[i] = t /\ q2 = RemoveAt(q, i)

\* Mutant: a caller cancelled in its pacing sleep keeps its permit.
CancelWaitLeaks(t) ==
  /\ \/ /\ phase[t] = "queued"
        /\ LeaveQueue(t, permitQ, permitQ')
        /\ UNCHANGED <<permits, lockQ>>
     \/ /\ phase[t] = "locking"
        /\ LeaveQueue(t, lockQ, lockQ')
        /\ permits' = permits + 1 /\ UNCHANGED permitQ
     \/ /\ phase[t] = "pacing"
        /\ UNCHANGED <<permits, permitQ, lockQ>>
  /\ To(t, "outside")
  /\ left' = [left EXCEPT ![t] = 0]
  /\ UNCHANGED since

\* Mutant: a caller cancelled before it got a permit gives one back.
CancelWaitOverReleases(t) ==
  /\ \/ /\ phase[t] = "queued"
        /\ LeaveQueue(t, permitQ, permitQ')
        /\ permits' = permits + 1 /\ UNCHANGED lockQ
     \/ /\ phase[t] = "locking"
        /\ LeaveQueue(t, lockQ, lockQ')
        /\ permits' = permits + 1 /\ UNCHANGED permitQ
     \/ /\ phase[t] = "pacing"
        /\ permits' = permits + 1 /\ UNCHANGED <<permitQ, lockQ>>
  /\ To(t, "outside")
  /\ left' = [left EXCEPT ![t] = 0]
  /\ UNCHANGED since

\* The task is cancelled in __aenter__; a permit it took goes back.
CancelWait(t) ==
  /\ \/ /\ phase[t] = "queued"
        /\ LeaveQueue(t, permitQ, permitQ')
        /\ UNCHANGED <<permits, lockQ>>
     \/ /\ phase[t] = "locking"
        /\ LeaveQueue(t, lockQ, lockQ')
        /\ permits' = permits + 1 /\ UNCHANGED permitQ
     \/ /\ phase[t] = "pacing"
        /\ permits' = permits + 1 /\ UNCHANGED <<permitQ, lockQ>>
  /\ To(t, "outside")
  /\ left' = [left EXCEPT ![t] = 0]
  /\ UNCHANGED since

Elapse(s) == IF s = Never \/ s = Far THEN s ELSE s + 1
Countdown(timers) == [t \in DOMAIN timers |-> IF timers[t] = 0 THEN 0 ELSE timers[t] - 1]

\* One unit of time passes.
Tick ==
  /\ since' = Elapse(since)
  /\ left' = Countdown(left)
  /\ UNCHANGED <<phase, permits, permitQ, lockQ>>

Next ==
  \/ \E t \in Tasks : Enter(t) \/ GetPermit(t) \/ Pace(t) \/ PacingDone(t) \/ Leave(t)
                      \/ CancelWait(t)
  \/ Tick

Spec == Init /\ [][Next]_limiterVars

(***************************************************************************)
(* The event loop resumes a task whose semaphore, lock or timer is ready,  *)
(* time passes, and a request ends (the HTTP client has timeouts).         *)
(***************************************************************************)
FairSpec ==
  /\ Spec
  /\ WF_limiterVars(Tick)
  /\ \A t \in Tasks : WF_limiterVars(GetPermit(t)) /\ WF_limiterVars(Pace(t))
                      /\ WF_limiterVars(PacingDone(t)) /\ WF_limiterVars(Leave(t))

-----------------------------------------------------------------------------
(* Correctness.                                                            *)

TypeOK ==
  /\ phase \in [Tasks -> Phases]
  /\ permits \in 0..MaxConcurrent
  /\ permitQ \in Seq(Tasks)
  /\ lockQ \in Seq(Tasks)
  /\ since \in 0..Far \cup {Never}
  /\ left \in [Tasks -> 0..Far]

(***************************************************************************)
(* No permit is lost or made up, however tasks are cancelled in            *)
(* __aenter__: what the semaphore has left and what tasks hold add up.     *)
(***************************************************************************)
PermitsConserved == permits + Cardinality(Holders) = MaxConcurrent

\* A queue holds exactly the tasks that wait in it, each one once.
QueueOf(q, p) == ToSet(q) = InPhase(p) /\ IsInjective(q)

\* The queues agree with the phases: no promise, but what the proofs about permits rest on.
QueuesMatch == QueueOf(permitQ, "queued") /\ QueueOf(lockQ, "locking")

(***************************************************************************)
(* One task at a time sleeps for the pacing, and it wakes no sooner than   *)
(* the interval allows.                                                    *)
(***************************************************************************)
PacingInv ==
  /\ \A t, u \in InPhase("pacing") : t = u
  /\ \A t \in InPhase("pacing") : since # Never /\ since + left[t] >= MinInterval

\* The promise to the source.
Access == INSTANCE PacedAccess WITH inFlight <- InPhase("inside")

(***************************************************************************)
(* The limiter implements the paced access to the source: at most          *)
(* MaxConcurrent requests in flight and MinInterval between their starts,  *)
(* however tasks queue, sleep and are cancelled.                           *)
(***************************************************************************)
ImplementsPacedAccess == Access!Spec

(***************************************************************************)
(* Nobody starves: a task that waits for its turn gets it, unless it is    *)
(* cancelled.                                                              *)
(***************************************************************************)
EveryoneIsServed ==
  \A t \in Tasks : phase[t] = "queued" ~> phase[t] \in {"inside", "outside"}
=============================================================================
