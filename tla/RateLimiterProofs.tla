-------------------------- MODULE RateLimiterProofs --------------------------
(***************************************************************************)
(* Proofs about RateLimiter, for any number of tasks and permits, any      *)
(* interval and any jitter.                                                *)
(***************************************************************************)
EXTENDS RateLimiter, FiniteSetTheorems, SequenceTheorems, TLAPS

-----------------------------------------------------------------------------
(* Type correctness, without the bound of permits.                         *)

SemaphoreTypeOK ==
  /\ phase \in [Tasks -> Phases]
  /\ permits \in Nat
  /\ permitQ \in Seq(Tasks)
  /\ lockQ \in Seq(Tasks)
  /\ since \in 0..Far \cup {Never}
  /\ left \in [Tasks -> 0..Far]

\* The interval and the jitter fit in the time that is counted.
LEMMA FarType == Far \in Nat /\ MinInterval <= Far
BY RateLimiterAssumption DEF Far

\* A waiter that leaves a queue leaves a queue.
LEMMA LeaveQueueType ==
  ASSUME NEW q \in Seq(Tasks), NEW t, NEW q2, LeaveQueue(t, q, q2)
  PROVE  q2 \in Seq(Tasks)
<1>1. PICK i \in 1..Len(q) : q2 = SubSeq(q, 1, i - 1) \o SubSeq(q, i + 1, Len(q))
  BY LenProperties DEF LeaveQueue, RemoveAt
<1>2. /\ SubSeq(q, 1, i - 1) \in Seq(Tasks)
      /\ SubSeq(q, i + 1, Len(q)) \in Seq(Tasks)
  BY <1>1, LenProperties, SubSeqProperties
<1>. QED
  BY <1>1, <1>2, ConcatProperties

\* Every step of a task keeps the phases, the queues and the timers well formed.
LEMMA SemaphoreTypeStep ==
  ASSUME SemaphoreTypeOK, [Next]_limiterVars
  PROVE  SemaphoreTypeOK'
<1>. USE FarType DEF SemaphoreTypeOK, Phases
<1>1. ASSUME NEW t \in Tasks, Enter(t) PROVE SemaphoreTypeOK'
  BY <1>1 DEF Enter, To
<1>2. ASSUME NEW t \in Tasks, GetPermit(t) PROVE SemaphoreTypeOK'
  BY <1>2 DEF GetPermit, To
<1>3. ASSUME NEW t \in Tasks, Pace(t) PROVE SemaphoreTypeOK'
  <2>1. \A jitter \in 0..MaxJitter :
          Remaining(jitter) \in Int /\ (Remaining(jitter) > 0 => Remaining(jitter) \in 0..Far)
    BY RateLimiterAssumption DEF Remaining, Far
  <2>2. PICK jitter \in 0..MaxJitter :
          \/ /\ Remaining(jitter) > 0 /\ To(t, "pacing") /\ UNCHANGED since
             /\ left' = [left EXCEPT ![t] = Remaining(jitter)]
          \/ To(t, "inside") /\ since' = 0 /\ UNCHANGED left
    BY <1>3 DEF Pace
  <2>3. lockQ' \in Seq(Tasks) /\ UNCHANGED <<permits, permitQ>>
    BY <1>3, HeadTailProperties DEF Pace
  <2>4. CASE To(t, "inside") /\ since' = 0 /\ UNCHANGED left
    BY <2>3, <2>4 DEF To
  <2>5. CASE Remaining(jitter) > 0 /\ To(t, "pacing") /\ UNCHANGED since
               /\ left' = [left EXCEPT ![t] = Remaining(jitter)]
    <3>1. Remaining(jitter) \in 0..Far
      BY <2>1, <2>5
    <3>. QED
      BY <2>3, <2>5, <3>1 DEF To
  <2>. QED
    BY <2>2, <2>4, <2>5
<1>4. ASSUME NEW t \in Tasks, PacingDone(t) PROVE SemaphoreTypeOK'
  BY <1>4 DEF PacingDone, To
<1>5. ASSUME NEW t \in Tasks, Leave(t) PROVE SemaphoreTypeOK'
  BY <1>5 DEF Leave, To
<1>6. ASSUME NEW t \in Tasks, CancelWait(t) PROVE SemaphoreTypeOK'
  <2>1. permitQ' \in Seq(Tasks) /\ lockQ' \in Seq(Tasks)
    BY <1>6, LeaveQueueType DEF CancelWait
  <2>2. permits' \in Nat /\ UNCHANGED since
    BY <1>6 DEF CancelWait
  <2>3. phase' \in [Tasks -> Phases] /\ left' \in [Tasks -> 0..Far]
    BY <1>6 DEF CancelWait, To
  <2>. QED
    BY <2>1, <2>2, <2>3
<1>7. CASE Tick
  BY <1>7 DEF Tick, Elapse, Countdown
<1>8. CASE UNCHANGED limiterVars
  BY <1>8 DEF limiterVars
<1>. QED
  BY <1>1, <1>2, <1>3, <1>4, <1>5, <1>6, <1>7, <1>8 DEF Next

\* The phases, the queues and the timers are well formed in every reachable state.
LEMMA SemaphoreType == Spec => []SemaphoreTypeOK
<1>1. Init => SemaphoreTypeOK
  BY FarType, RateLimiterAssumption DEF Init, SemaphoreTypeOK, Phases
<1>. QED
  BY <1>1, SemaphoreTypeStep, PTL DEF Spec

-----------------------------------------------------------------------------
(* The permits.                                                            *)

\* A task that becomes a holder, and one that ceases to be, count for one.
LEMMA HoldersCount ==
  ASSUME NEW t \in Tasks
  PROVE  /\ Cardinality(Holders) \in Nat /\ IsFiniteSet(Holders)
         /\ t \notin Holders => Cardinality(Holders \cup {t}) = Cardinality(Holders) + 1
         /\ t \in Holders => Cardinality(Holders \ {t}) = Cardinality(Holders) - 1
<1>1. IsFiniteSet(Holders)
  BY FS_Subset, RateLimiterAssumption DEF Holders, InPhase
<1>. QED
  BY <1>1, FS_CardinalityType, FS_AddElement, FS_RemoveElement

\* Every step keeps the sum of the free permits and of the tasks that hold one.
LEMMA PermitsStep ==
  ASSUME SemaphoreTypeOK, PermitsConserved, [Next]_limiterVars
  PROVE  PermitsConserved'
<1>. USE DEF SemaphoreTypeOK, PermitsConserved
<1>1. ASSUME Holders' = Holders, UNCHANGED permits PROVE PermitsConserved'
  BY <1>1
<1>2. ASSUME NEW t \in Tasks, t \notin Holders, Holders' = Holders \cup {t}, permits' = permits - 1
      PROVE  PermitsConserved'
  <2>1. Cardinality(Holders \cup {t}) = Cardinality(Holders) + 1 /\ Cardinality(Holders) \in Nat
    BY <1>2, HoldersCount
  <2>. QED
    BY <1>2, <2>1, RateLimiterAssumption
<1>3. ASSUME NEW t \in Tasks, t \in Holders, Holders' = Holders \ {t}, permits' = permits + 1
      PROVE  PermitsConserved'
  BY <1>3, HoldersCount, RateLimiterAssumption
<1>. USE DEF Holders, InPhase, To
<1>4. ASSUME NEW t \in Tasks, Enter(t) PROVE PermitsConserved'
  <2>1. Holders' = Holders
    BY <1>4 DEF Enter
  <2>. QED BY <1>1, <1>4, <2>1 DEF Enter
<1>5. ASSUME NEW t \in Tasks, GetPermit(t) PROVE PermitsConserved'
  <2>1. t \notin Holders /\ Holders' = Holders \cup {t}
    BY <1>5 DEF GetPermit
  <2>. QED BY <1>2, <1>5, <2>1 DEF GetPermit
<1>6. ASSUME NEW t \in Tasks, Pace(t) \/ PacingDone(t) PROVE PermitsConserved'
  <2>1. Holders' = Holders
    BY <1>6 DEF Pace, PacingDone
  <2>. QED BY <1>1, <1>6, <2>1 DEF Pace, PacingDone
<1>7. ASSUME NEW t \in Tasks, Leave(t) PROVE PermitsConserved'
  <2>1. t \in Holders /\ Holders' = Holders \ {t}
    BY <1>7 DEF Leave
  <2>. QED BY <1>3, <1>7, <2>1 DEF Leave
<1>8. ASSUME NEW t \in Tasks, CancelWait(t) PROVE PermitsConserved'
  <2>1. CASE phase[t] = "queued"
    <3>1. Holders' = Holders
      BY <1>8, <2>1 DEF CancelWait
    <3>. QED BY <1>1, <1>8, <2>1, <3>1 DEF CancelWait
  <2>2. CASE phase[t] \in {"locking", "pacing"}
    <3>1. t \in Holders /\ Holders' = Holders \ {t}
      BY <1>8, <2>2 DEF CancelWait
    <3>. QED BY <1>3, <1>8, <2>2, <3>1 DEF CancelWait
  <2>. QED BY <1>8, <2>1, <2>2 DEF CancelWait
<1>9. CASE Tick \/ UNCHANGED limiterVars
  <2>1. UNCHANGED <<phase, permits>>
    BY <1>9 DEF Tick, limiterVars
  <2>. QED BY <1>1, <2>1
<1>. QED
  BY <1>4, <1>5, <1>6, <1>7, <1>8, <1>9 DEF Next

\* No permit of the semaphore is lost or made up by a cancellation in __aenter__, for any
\* number of tasks.
THEOREM PermitsAreConserved == Spec => []PermitsConserved
<1>1. Init => PermitsConserved
  <2>. SUFFICES ASSUME Init PROVE PermitsConserved
    OBVIOUS
  <2>1. Holders = {}
    BY DEF Init, Holders, InPhase
  <2>. QED
    BY <2>1, FS_EmptySet, RateLimiterAssumption DEF Init, PermitsConserved
<1>. QED
  BY <1>1, PermitsStep, SemaphoreType, PTL DEF Spec

\* The permits in use bound what is left of them.
LEMMA PermitsBounded == SemaphoreTypeOK /\ PermitsConserved => TypeOK
<1>. SUFFICES ASSUME SemaphoreTypeOK, PermitsConserved PROVE permits \in 0..MaxConcurrent
  BY DEF SemaphoreTypeOK, TypeOK
<1>1. IsFiniteSet(Holders)
  BY FS_Subset, RateLimiterAssumption DEF Holders, InPhase
<1>2. Cardinality(Holders) \in Nat
  BY <1>1, FS_CardinalityType
<1>. QED
  BY <1>2, RateLimiterAssumption DEF SemaphoreTypeOK, PermitsConserved

\* Every variable keeps its type; the semaphore never has more permits than it started with.
THEOREM LimiterType == Spec => []TypeOK
BY PermitsBounded, SemaphoreType, PermitsAreConserved, PTL

-----------------------------------------------------------------------------
(* The pacing, and the promise to the source.                              *)

\* No step lets a second task into the pacing sleep, or shortens one.
LEMMA PacingStep ==
  ASSUME SemaphoreTypeOK, PacingInv, [Next]_limiterVars
  PROVE  PacingInv'
<1>. USE RateLimiterAssumption, FarType DEF SemaphoreTypeOK, PacingInv, InPhase, To
<1>1. ASSUME NEW t \in Tasks, Enter(t) PROVE PacingInv'
  BY <1>1 DEF Enter
<1>2. ASSUME NEW t \in Tasks, GetPermit(t) PROVE PacingInv'
  BY <1>2 DEF GetPermit
<1>3. ASSUME NEW t \in Tasks, Pace(t) PROVE PacingInv'
  <2>1. \A u \in Tasks : phase[u] # "pacing"
    BY <1>3 DEF Pace, LockFree
  <2>2. PICK jitter \in 0..MaxJitter :
          \/ Remaining(jitter) > 0 /\ To(t, "pacing") /\ UNCHANGED since
             /\ left' = [left EXCEPT ![t] = Remaining(jitter)]
          \/ To(t, "inside")
    BY <1>3 DEF Pace
  <2>3. Remaining(jitter) > 0 =>
          since # Never /\ since \in Nat /\ Remaining(jitter) = MinInterval + jitter - since
    BY DEF Remaining
  <2>. QED
    BY <2>1, <2>2, <2>3
<1>4. ASSUME NEW t \in Tasks, PacingDone(t) PROVE PacingInv'
  BY <1>4 DEF PacingDone
<1>5. ASSUME NEW t \in Tasks, Leave(t) PROVE PacingInv'
  BY <1>5 DEF Leave
<1>6. ASSUME NEW t \in Tasks, CancelWait(t) PROVE PacingInv'
  BY <1>6 DEF CancelWait
<1>7. CASE Tick
  BY <1>7 DEF Tick, Elapse, Countdown
<1>8. CASE UNCHANGED limiterVars
  BY <1>8 DEF limiterVars
<1>. QED
  BY <1>1, <1>2, <1>3, <1>4, <1>5, <1>6, <1>7, <1>8 DEF Next

\* One task at a time sleeps for the pacing, and none of them wakes before the interval.
THEOREM PacingInvariant == Spec => []PacingInv
<1>1. Init => PacingInv
  BY DEF Init, PacingInv, InPhase
<1>. QED
  BY <1>1, PacingStep, SemaphoreType, PTL DEF Spec

-----------------------------------------------------------------------------
(* The queues.                                                             *)

\* Who is in a queue.
LEMMA InQueue ==
  ASSUME NEW q, NEW u
  PROVE  u \in ToSet(q) <=> \E i \in DOMAIN q : q[i] = u
BY DEF ToSet

\* A task that joins a queue is in it once, with those who were there.
LEMMA Join ==
  ASSUME NEW q \in Seq(Tasks), NEW t \in Tasks, IsInjective(q), t \notin ToSet(q)
  PROVE  ToSet(Append(q, t)) = ToSet(q) \cup {t} /\ IsInjective(Append(q, t))
<1>1. PICK a : a = Append(q, t)
  OBVIOUS
<1>2. /\ DOMAIN a = DOMAIN q \cup {Len(q) + 1} /\ Len(q) + 1 \notin DOMAIN q
      /\ a[Len(q) + 1] = t
      /\ \A i \in DOMAIN q : a[i] = q[i]
  <2>1. /\ Len(q) \in Nat /\ DOMAIN q = 1..Len(q) /\ DOMAIN a = 1..Len(a)
        /\ Len(a) = Len(q) + 1 /\ a[Len(q) + 1] = t
        /\ \A i \in 1..Len(q) : a[i] = q[i]
    BY <1>1, AppendProperties, LenProperties
  <2>. QED
    BY <2>1
<1>3. ASSUME NEW u PROVE u \in ToSet(a) <=> u \in ToSet(q) \/ u = t
  <2>1. u \in ToSet(a) <=> \E i \in DOMAIN a : a[i] = u
    BY InQueue
  <2>2. u \in ToSet(q) <=> \E i \in DOMAIN q : q[i] = u
    BY InQueue
  <2>. QED
    BY <1>2, <2>1, <2>2, Zenon
<1>4. \A i \in DOMAIN q : q[i] # t
  BY InQueue
<1>5. IsInjective(a)
  BY <1>2, <1>4, Zenon DEF IsInjective
<1>. QED
  BY <1>1, <1>3, <1>5

\* The first in a queue leaves the others behind.
LEMMA Serve ==
  ASSUME NEW q \in Seq(Tasks), q # <<>>, IsInjective(q)
  PROVE  ToSet(Tail(q)) = ToSet(q) \ {Head(q)} /\ IsInjective(Tail(q))
<1>1. /\ DOMAIN Tail(q) = 1..Len(q) - 1 /\ DOMAIN q = 1..Len(q) /\ Len(q) \in Nat \ {0}
      /\ Head(q) = q[1]
      /\ \A i \in 1..Len(q) - 1 : Tail(q)[i] = q[i + 1]
  BY HeadTailProperties, LenProperties, EmptySeq
<1>2. \A j \in DOMAIN q \ {1} : j - 1 \in DOMAIN Tail(q) /\ Tail(q)[j - 1] = q[j]
  BY <1>1
<1>3. \A i \in DOMAIN Tail(q) : i + 1 \in DOMAIN q \ {1} /\ Tail(q)[i] = q[i + 1]
  BY <1>1
<1>4. IsInjective(Tail(q))
  BY <1>1, <1>3 DEF IsInjective
<1>5. ASSUME NEW u PROVE u \in ToSet(Tail(q)) <=> u \in ToSet(q) /\ u # Head(q)
  <2>1. ASSUME u \in ToSet(Tail(q)) PROVE u \in ToSet(q) /\ u # Head(q)
    <3>1. PICK i \in DOMAIN Tail(q) : Tail(q)[i] = u
      BY <2>1, InQueue
    <3>. QED
      BY <1>1, <1>3, <3>1, InQueue DEF IsInjective
  <2>2. ASSUME u \in ToSet(q), u # Head(q) PROVE u \in ToSet(Tail(q))
    <3>1. PICK j \in DOMAIN q \ {1} : q[j] = u
      BY <1>1, <2>2, InQueue
    <3>. QED
      BY <1>2, <3>1, InQueue
  <2>. QED
    BY <2>1, <2>2
<1>. QED
  BY <1>4, <1>5

\* A task that gives up its place leaves the others behind.
LEMMA GiveUpPlace ==
  ASSUME NEW q \in Seq(Tasks), NEW t, NEW q2, IsInjective(q), LeaveQueue(t, q, q2)
  PROVE  ToSet(q2) = ToSet(q) \ {t} /\ IsInjective(q2) /\ t \in ToSet(q)
<1>1. PICK i \in DOMAIN q : q[i] = t /\ q2 = SubSeq(q, 1, i - 1) \o SubSeq(q, i + 1, Len(q))
  BY DEF LeaveQueue, RemoveAt
<1>2. PICK a, b : a = SubSeq(q, 1, i - 1) /\ b = SubSeq(q, i + 1, Len(q))
  OBVIOUS
<1>3. DOMAIN q = 1..Len(q) /\ Len(q) \in Nat /\ i \in 1..Len(q)
  BY <1>1, LenProperties
<1>4. /\ a \in Seq(Tasks) /\ Len(a) = i - 1
      /\ \A k \in 1..i - 1 : a[k] = q[k]
  BY <1>2, <1>3, SubSeqProperties
<1>5. /\ b \in Seq(Tasks) /\ Len(b) = Len(q) - i
      /\ \A k \in 1..Len(q) - i : b[k] = q[i + k]
  BY <1>2, <1>3, SubSeqProperties
<1>6. /\ q2 \in Seq(Tasks) /\ Len(q2) = Len(a) + Len(b)
      /\ \A k \in 1..Len(a) + Len(b) : q2[k] = IF k <= Len(a) THEN a[k] ELSE b[k - Len(a)]
  <2>1. q2 = a \o b /\ a \in Seq(Tasks) /\ b \in Seq(Tasks)
    BY <1>1, <1>2, <1>4, <1>5, Zenon
  <2>2. /\ a \o b \in Seq(Tasks) /\ Len(a \o b) = Len(a) + Len(b)
        /\ \A k \in 1..Len(a) + Len(b) :
             (a \o b)[k] = IF k <= Len(a) THEN a[k] ELSE b[k - Len(a)]
    BY <2>1, ConcatProperties, Zenon
  <2>. QED
    BY <2>1, <2>2, Zenon
<1>7. Len(a) + Len(b) = Len(q) - 1 /\ DOMAIN q2 = 1..Len(q) - 1
  <2>1. Len(a) + Len(b) = Len(q) - 1
    BY <1>3, <1>4, <1>5
  <2>. QED
    BY <1>6, <2>1, LenProperties, Zenon
<1>8. \A k \in DOMAIN q2 : LET j == IF k < i THEN k ELSE k + 1
                           IN  j \in DOMAIN q \ {i} /\ q2[k] = q[j]
  <2>1. ASSUME NEW k \in 1..Len(q) - 1, k >= i PROVE q2[k] = q[k + 1]
    <3>1. k - (i - 1) \in 1..Len(q) - i /\ i + (k - (i - 1)) = k + 1
      BY <1>3, <2>1
    <3>2. q2[k] = b[k - (i - 1)]
      BY <1>3, <1>4, <1>6, <1>7, <2>1
    <3>. QED
      BY <1>5, <3>1, <3>2
  <2>2. ASSUME NEW k \in 1..Len(q) - 1, k < i PROVE q2[k] = q[k]
    BY <1>3, <1>4, <1>6, <1>7, <2>2
  <2>. QED
    BY <1>3, <1>7, <2>1, <2>2
<1>9. \A j \in DOMAIN q \ {i} : \E k \in DOMAIN q2 : q2[k] = q[j]
  <2>. SUFFICES ASSUME NEW j \in DOMAIN q \ {i} PROVE \E k \in DOMAIN q2 : q2[k] = q[j]
    OBVIOUS
  <2>1. CASE j < i
    BY <1>3, <1>7, <1>8, <2>1
  <2>2. CASE j > i
    <3>1. j - 1 \in DOMAIN q2 /\ ~(j - 1 < i) /\ (j - 1) + 1 = j
      BY <1>3, <1>7, <2>2
    <3>. QED
      BY <1>8, <3>1
  <2>. QED
    BY <1>3, <2>1, <2>2
<1>10. IsInjective(q2)
  <2>. SUFFICES ASSUME NEW k \in DOMAIN q2, NEW l \in DOMAIN q2, q2[k] = q2[l] PROVE k = l
    BY DEF IsInjective
  <2>1. (IF k < i THEN k ELSE k + 1) = (IF l < i THEN l ELSE l + 1)
    BY <1>8 DEF IsInjective
  <2>. QED
    BY <2>1, <1>3, <1>7
<1>11. ASSUME NEW u PROVE u \in ToSet(q2) <=> u \in ToSet(q) /\ u # t
  <2>1. ASSUME u \in ToSet(q2) PROVE u \in ToSet(q) /\ u # t
    <3>1. PICK j \in DOMAIN q \ {i} : q[j] = u
      BY <1>8, <2>1, InQueue
    <3>. QED
      BY <1>1, <3>1, InQueue DEF IsInjective
  <2>2. ASSUME u \in ToSet(q), u # t PROVE u \in ToSet(q2)
    <3>1. PICK j \in DOMAIN q \ {i} : q[j] = u
      BY <1>1, <2>2, InQueue
    <3>. QED
      BY <1>9, <3>1, InQueue
  <2>. QED
    BY <2>1, <2>2
<1>. QED
  BY <1>1, <1>10, <1>11, InQueue

\* A step keeps both queues in agreement with the phases of the tasks.
LEMMA QueuesStep ==
  ASSUME SemaphoreTypeOK, QueuesMatch, [Next]_limiterVars
  PROVE  QueuesMatch'
<1>. USE DEF SemaphoreTypeOK, QueuesMatch, QueueOf
<1>2. ASSUME NEW t \in Tasks, Enter(t) PROVE QueuesMatch'
  <2>1. /\ InPhase("queued")' = InPhase("queued") \cup {t} /\ t \notin InPhase("queued")
        /\ InPhase("locking")' = InPhase("locking")
    BY <1>2 DEF Enter, To, InPhase, Phases
  <2>2. ToSet(Append(permitQ, t)) = ToSet(permitQ) \cup {t} /\ IsInjective(Append(permitQ, t))
    BY <2>1, Join
  <2>. QED
    BY <1>2, <2>1, <2>2 DEF Enter
<1>3. ASSUME NEW t \in Tasks, GetPermit(t) PROVE QueuesMatch'
  <2>1. /\ InPhase("queued")' = InPhase("queued") \ {t}
        /\ InPhase("locking")' = InPhase("locking") \cup {t} /\ t \notin InPhase("locking")
    BY <1>3 DEF GetPermit, To, InPhase, Phases
  <2>2. ToSet(Tail(permitQ)) = ToSet(permitQ) \ {t} /\ IsInjective(Tail(permitQ))
    BY <1>3, Serve DEF GetPermit
  <2>3. ToSet(Append(lockQ, t)) = ToSet(lockQ) \cup {t} /\ IsInjective(Append(lockQ, t))
    BY <2>1, Join
  <2>. QED
    BY <1>3, <2>1, <2>2, <2>3 DEF GetPermit
<1>4. ASSUME NEW t \in Tasks, Pace(t) PROVE QueuesMatch'
  <2>1. /\ InPhase("queued")' = InPhase("queued")
        /\ InPhase("locking")' = InPhase("locking") \ {t}
    <3>1. phase[t] = "locking" /\ \E p \in {"pacing", "inside"} : To(t, p)
      BY <1>4 DEF Pace
    <3>. QED
      BY <3>1 DEF To, InPhase, Phases
  <2>2. ToSet(Tail(lockQ)) = ToSet(lockQ) \ {t} /\ IsInjective(Tail(lockQ))
    BY <1>4, Serve DEF Pace
  <2>3. lockQ' = Tail(lockQ) /\ permitQ' = permitQ
    BY <1>4 DEF Pace
  <2>. QED
    BY <2>1, <2>2, <2>3
<1>5. ASSUME NEW t \in Tasks, PacingDone(t) \/ Leave(t) PROVE QueuesMatch'
  <2>1. /\ InPhase("queued")' = InPhase("queued")
        /\ InPhase("locking")' = InPhase("locking")
    BY <1>5 DEF PacingDone, Leave, To, InPhase, Phases
  <2>. QED
    BY <1>5, <2>1 DEF PacingDone, Leave
<1>6. ASSUME NEW t \in Tasks, CancelWait(t) PROVE QueuesMatch'
  <2>1. /\ InPhase("queued")' = InPhase("queued") \ {t}
        /\ InPhase("locking")' = InPhase("locking") \ {t}
    BY <1>6 DEF CancelWait, To, InPhase, Phases
  <2>2. CASE phase[t] = "queued" /\ LeaveQueue(t, permitQ, permitQ') /\ UNCHANGED lockQ
    <3>1. ToSet(permitQ') = ToSet(permitQ) \ {t} /\ IsInjective(permitQ')
      BY <2>2, GiveUpPlace
    <3>2. t \notin InPhase("locking")
      BY <2>2 DEF InPhase
    <3>. QED
      BY <2>1, <2>2, <3>1, <3>2
  <2>3. CASE phase[t] = "locking" /\ LeaveQueue(t, lockQ, lockQ') /\ UNCHANGED permitQ
    <3>1. ToSet(lockQ') = ToSet(lockQ) \ {t} /\ IsInjective(lockQ')
      BY <2>3, GiveUpPlace
    <3>2. t \notin InPhase("queued")
      BY <2>3 DEF InPhase
    <3>. QED
      BY <2>1, <2>3, <3>1, <3>2
  <2>4. CASE phase[t] = "pacing" /\ UNCHANGED <<permitQ, lockQ>>
    BY <2>1, <2>4 DEF InPhase
  <2>. QED
    BY <1>6, <2>2, <2>3, <2>4 DEF CancelWait
<1>7. CASE Tick \/ UNCHANGED limiterVars
  BY <1>7 DEF Tick, limiterVars, InPhase
<1>. QED
  BY <1>2, <1>3, <1>4, <1>5, <1>6, <1>7 DEF Next

-----------------------------------------------------------------------------
(* The promise to the source.                                              *)

\* A task lets its request go while it holds a permit: there was room for it.
LEMMA RoomInside ==
  ASSUME SemaphoreTypeOK, PermitsConserved, NEW t \in Tasks,
         phase[t] \in {"locking", "pacing"}
  PROVE  t \notin InPhase("inside") /\ Cardinality(InPhase("inside")) < MaxConcurrent
<1>1. t \notin InPhase("inside") /\ InPhase("inside") \cup {t} \subseteq Holders
  BY DEF InPhase, Holders
<1>2. IsFiniteSet(Holders) /\ IsFiniteSet(InPhase("inside"))
  BY FS_Subset, RateLimiterAssumption DEF Holders, InPhase
<1>3. /\ Cardinality(InPhase("inside") \cup {t}) = Cardinality(InPhase("inside")) + 1
      /\ Cardinality(InPhase("inside") \cup {t}) <= Cardinality(Holders)
      /\ Cardinality(InPhase("inside")) \in Nat /\ Cardinality(Holders) \in Nat
  BY <1>1, <1>2, FS_AddElement, FS_Subset, FS_CardinalityType
<1>. QED
  BY <1>1, <1>3, RateLimiterAssumption DEF SemaphoreTypeOK, PermitsConserved

\* A task that is let go starts its request when the interval since the last one is over.
LEMMA RequestStarts ==
  ASSUME SemaphoreTypeOK, PacingInv, NEW t \in Tasks, Pace(t) \/ PacingDone(t)
  PROVE  IF phase'[t] = "inside" THEN since' = 0 /\ (since = Never \/ since >= MinInterval)
         ELSE UNCHANGED since
<1>. USE RateLimiterAssumption DEF SemaphoreTypeOK, To
<1>1. CASE Pace(t)
  <2>1. PICK jitter \in 0..MaxJitter :
          \/ To(t, "pacing") /\ UNCHANGED since
          \/ Remaining(jitter) <= 0 /\ To(t, "inside") /\ since' = 0
    BY <1>1 DEF Pace
  <2>. QED
    BY <2>1 DEF Remaining
<1>2. CASE PacingDone(t)
  BY <1>2 DEF PacingDone, PacingInv, InPhase
<1>. QED
  BY <1>1, <1>2

\* Refinement: the semaphore, the lock and the sleeps of RateLimiter give the source what
\* PacedAccess promises, for any number of tasks.
THEOREM LimiterPacesAccess == Spec => ImplementsPacedAccess
<1>1. Init => Access!Init
  BY DEF Init, Access!Init, InPhase
<1>2. SemaphoreTypeOK /\ PermitsConserved /\ PacingInv /\ [Next]_limiterVars
        => [Access!Next]_<<InPhase("inside"), since>>
  <2>. SUFFICES ASSUME SemaphoreTypeOK, PermitsConserved, PacingInv, [Next]_limiterVars
                PROVE  [Access!Next]_<<InPhase("inside"), since>>
    OBVIOUS
  <2>1. ASSUME NEW t \in Tasks, phase[t] \in {"locking", "pacing"},
               To(t, "inside"), since' = 0, since = Never \/ since >= MinInterval
        PROVE  Access!Begin(t)
    <3>1. InPhase("inside")' = InPhase("inside") \cup {t}
      BY <2>1 DEF SemaphoreTypeOK, InPhase, To
    <3>2. t \notin InPhase("inside") /\ Cardinality(InPhase("inside")) < MaxConcurrent
      BY <2>1, RoomInside
    <3>3. Access!Cardinality(InPhase("inside")) = Cardinality(InPhase("inside"))
      BY DEF Access!Cardinality, Cardinality
    <3>. QED
      BY <2>1, <3>1, <3>2, <3>3 DEF Access!Begin
  <2>2. ASSUME NEW t \in Tasks, phase[t] # "inside", phase'[t] # "inside",
               \A u \in Tasks : u # t => phase'[u] = phase[u], UNCHANGED since
        PROVE  UNCHANGED <<InPhase("inside"), since>>
    BY <2>2 DEF InPhase
  <2>3. ASSUME NEW t \in Tasks, Enter(t) \/ GetPermit(t) \/ CancelWait(t)
        PROVE  UNCHANGED <<InPhase("inside"), since>>
    BY <2>2, <2>3 DEF Enter, GetPermit, CancelWait, SemaphoreTypeOK, To
  <2>4. ASSUME NEW t \in Tasks, Pace(t) \/ PacingDone(t)
        PROVE  [Access!Next]_<<InPhase("inside"), since>>
    <3>1. CASE phase'[t] = "inside"
      <4>1. To(t, "inside") /\ phase[t] \in {"locking", "pacing"}
        BY <2>4, <3>1 DEF Pace, PacingDone, To, SemaphoreTypeOK
      <4>. QED
        BY <2>1, <2>4, <3>1, <4>1, RequestStarts DEF Access!Next
    <3>2. CASE phase'[t] # "inside"
      BY <2>2, <2>4, <3>2, RequestStarts DEF Pace, PacingDone, SemaphoreTypeOK, To
    <3>. QED
      BY <3>1, <3>2
  <2>5. ASSUME NEW t \in Tasks, Leave(t) PROVE Access!Next
    BY <2>5 DEF Leave, Access!Next, Access!End, SemaphoreTypeOK, InPhase, To
  <2>6. CASE Tick
    BY <2>6 DEF Tick, Elapse, Access!Next, Access!Tick, Access!Later, InPhase
  <2>7. CASE UNCHANGED limiterVars
    BY <2>7 DEF limiterVars, InPhase
  <2>. QED
    BY <2>3, <2>4, <2>5, <2>6, <2>7 DEF Next
<1>. QED
  BY <1>1, <1>2, SemaphoreType, PermitsAreConserved, PacingInvariant, PTL
  DEF Spec, ImplementsPacedAccess, Access!Spec

-----------------------------------------------------------------------------
(* What a module that drives the limiter by its own steps relies on.       *)

LimiterInv == SemaphoreTypeOK /\ PermitsConserved /\ QueuesMatch /\ PacingInv

\* The limiter starts with its invariant.
LEMMA LimiterInvInit == Init => LimiterInv
<1>. SUFFICES ASSUME Init PROVE LimiterInv
  OBVIOUS
<1>1. SemaphoreTypeOK
  BY FarType, RateLimiterAssumption DEF Init, SemaphoreTypeOK, Phases
<1>2. Holders = {}
  BY DEF Init, Holders, InPhase
<1>3. PermitsConserved
  BY <1>2, FS_EmptySet, RateLimiterAssumption DEF Init, PermitsConserved
<1>4. QueuesMatch
  BY DEF Init, QueuesMatch, QueueOf, InPhase, ToSet, IsInjective
<1>5. PacingInv
  BY DEF Init, PacingInv, InPhase
<1>. QED
  BY <1>1, <1>3, <1>4, <1>5 DEF LimiterInv

\* Every step of the limiter keeps it.
LEMMA LimiterInvStep == LimiterInv /\ [Next]_limiterVars => LimiterInv'
BY SemaphoreTypeStep, PermitsStep, QueuesStep, PacingStep DEF LimiterInv

\* A task that leaves the limiter and queues again without a suspension keeps it too.
LEMMA LeaveAndEnter ==
  ASSUME LimiterInv, NEW t \in Tasks, phase[t] = "inside", To(t, "queued"),
         permits' = permits + 1, permitQ' = Append(permitQ, t), UNCHANGED <<lockQ, since, left>>
  PROVE  LimiterInv'
<1>. USE DEF LimiterInv
<1>1. SemaphoreTypeOK'
  BY DEF SemaphoreTypeOK, To, Phases
<1>2. /\ InPhase("queued")' = InPhase("queued") \cup {t} /\ t \notin InPhase("queued")
      /\ InPhase("locking")' = InPhase("locking") /\ InPhase("pacing")' = InPhase("pacing")
      /\ Holders' = Holders \ {t} /\ t \in Holders
  BY DEF SemaphoreTypeOK, To, InPhase, Phases, Holders
<1>3. PermitsConserved'
  <2>1. Cardinality(Holders \ {t}) = Cardinality(Holders) - 1 /\ Cardinality(Holders) \in Nat
    BY <1>2, HoldersCount
  <2>2. Cardinality(Holders)' = Cardinality(Holders) - 1
    BY <1>2, <2>1
  <2>. QED
    BY <2>1, <2>2, RateLimiterAssumption DEF SemaphoreTypeOK, PermitsConserved
<1>4. ToSet(Append(permitQ, t)) = ToSet(permitQ) \cup {t} /\ IsInjective(Append(permitQ, t))
  BY <1>2, Join DEF SemaphoreTypeOK, QueuesMatch, QueueOf
<1>5. QueuesMatch'
  BY <1>2, <1>4 DEF QueuesMatch, QueueOf
<1>6. PacingInv'
  BY <1>2 DEF PacingInv
<1>. QED
  BY <1>1, <1>3, <1>5, <1>6

\* When no task is in the limiter, every permit is back and nobody is in a queue.
LEMMA NobodyLeftBehind ==
  ASSUME LimiterInv, \A t \in Tasks : phase[t] = "outside"
  PROVE  permits = MaxConcurrent /\ permitQ = <<>> /\ lockQ = <<>>
<1>1. Holders = {} /\ InPhase("queued") = {} /\ InPhase("locking") = {}
  BY DEF Holders, InPhase
<1>2. permits = MaxConcurrent
  BY <1>1, FS_EmptySet, RateLimiterAssumption DEF LimiterInv, PermitsConserved, SemaphoreTypeOK
<1>3. ASSUME NEW q \in Seq(Tasks), ToSet(q) = {} PROVE q = <<>>
  <2>1. 1 \notin DOMAIN q
    BY <1>3, InQueue
  <2>. QED
    BY <2>1, LenProperties, EmptySeq
<1>. QED
  BY <1>1, <1>2, <1>3 DEF LimiterInv, SemaphoreTypeOK, QueuesMatch, QueueOf
=============================================================================
