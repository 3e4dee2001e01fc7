------------------------- MODULE SourceHealthProofs -------------------------
(***************************************************************************)
(* Proofs about the abstract health record, for every clock.               *)
(***************************************************************************)
EXTENDS SourceHealth, HealthTransitionProofs

-----------------------------------------------------------------------------
(* The abstract health record.                                             *)

\* The record is well formed: every transition of the orchestrator's step D yields one.
THEOREM SourceHealthType == Spec => []TypeOK
<1>1. Init => TypeOK
  BY DEF Init, TypeOK
<1>2. TypeOK /\ [Next]_health => TypeOK'
  BY NextHealthType DEF TypeOK, Next, RunReports
<1>. QED
  BY <1>1, <1>2, PTL DEF Spec

\* The status, the counter and the stamps agree, for every sequence of runs of any length.
THEOREM SourceHealthConsistent == Spec => []HealthConsistent
<1>1. Init => HealthConsistent
  BY DEF Init, HealthConsistent
<1>2. TypeOK /\ HealthConsistent /\ [Next]_health => HealthConsistent'
  <2>. SUFFICES ASSUME TypeOK, HealthConsistent, [Next]_health
                PROVE  HealthConsistent'
    OBVIOUS
  <2>1. ASSUME NEW outcome \in Outcomes, NEW at \in Times, RunReports(outcome, at)
        PROVE  HealthConsistent'
    <3>1. health \in HealthRecords \cup {None} /\ at \in Nat
      BY <2>1 DEF TypeOK, RunReports
    <3>2. health' = NextHealth(health, outcome, at)
      BY <2>1 DEF RunReports
    <3>. QED
      BY <3>1, <3>2, NextHealthConsistent DEF HealthConsistent
  <2>2. CASE UNCHANGED health
    BY <2>2 DEF HealthConsistent
  <2>. QED
    BY <2>1, <2>2 DEF Next
<1>. QED
  BY <1>1, <1>2, SourceHealthType, PTL DEF Spec

\* No stamp of the record is later than the record itself.
THEOREM SourceHealthStamps == Spec => []StampsInOrder
<1>1. Init => StampsInOrder
  BY DEF Init, StampsInOrder
<1>2. TypeOK /\ StampsInOrder /\ [Next]_health => StampsInOrder'
  <2>. SUFFICES ASSUME TypeOK, StampsInOrder, [Next]_health
                PROVE  StampsInOrder'
    OBVIOUS
  <2>1. ASSUME NEW outcome \in Outcomes, NEW at \in Times, RunReports(outcome, at)
        PROVE  StampsInOrder'
    <3>1. health \in HealthRecords \cup {None} /\ at \in Nat
      BY <2>1 DEF TypeOK, RunReports
    <3>2. health' = NextHealth(health, outcome, at) /\ (health # None => at > health.updatedAt)
      BY <2>1 DEF RunReports
    <3>3. health'.updatedAt = at
      BY <3>1, <3>2, NextHealthType
    <3>4. /\ health'.lastSuccessAt \in {at, PrevLastSuccess(health)}
          /\ health'.lastFailureAt \in {at, PrevLastFailure(health)}
      BY <3>1, <3>2, NextHealthFields
    <3>5. /\ PrevLastSuccess(health) # None => PrevLastSuccess(health) <= at
          /\ PrevLastFailure(health) # None => PrevLastFailure(health) <= at
      BY <3>1, <3>2 DEF StampsInOrder, PrevLastSuccess, PrevLastFailure, HealthRecords
    <3>. QED
      BY <3>1, <3>3, <3>4, <3>5 DEF StampsInOrder
  <2>2. CASE UNCHANGED health
    BY <2>2 DEF StampsInOrder
  <2>. QED
    BY <2>1, <2>2 DEF Next
<1>. QED
  BY <1>1, <1>2, SourceHealthType, PTL DEF Spec

\* A run never erases or moves back last_success_at or last_failure_at, and moves
\* consecutive_failures by one or to zero.
THEOREM SourceHealthAdvances == Spec => HealthAdvances
<1>. DEFINE Advance ==
       health # None =>
         /\ health' # None
         /\ health.lastSuccessAt # None =>
              health'.lastSuccessAt # None /\ health'.lastSuccessAt >= health.lastSuccessAt
         /\ health.lastFailureAt # None =>
              health'.lastFailureAt # None /\ health'.lastFailureAt >= health.lastFailureAt
         /\ health'.consecutiveFailures \in {0, health.consecutiveFailures + 1}
<1>1. TypeOK /\ StampsInOrder /\ [Next]_health => [Advance]_health
  <2>. SUFFICES ASSUME TypeOK, StampsInOrder, health # None,
                       NEW outcome \in Outcomes, NEW at \in Times, RunReports(outcome, at)
                PROVE  Advance
    BY DEF Next
  <2>1. health \in HealthRecords /\ at \in Nat
    BY DEF TypeOK, RunReports
  <2>2. health' = NextHealth(health, outcome, at) /\ at > health.updatedAt
    BY DEF RunReports
  <2>3. health' # None
    BY <2>1, <2>2, NextHealthType, NoneAssumption
  <2>4. /\ health'.lastSuccessAt \in {at, health.lastSuccessAt}
        /\ health'.lastFailureAt \in {at, health.lastFailureAt}
        /\ health'.consecutiveFailures \in {0, health.consecutiveFailures + 1}
    BY <2>1, <2>2, NextHealthFields DEF PrevFailures, PrevLastSuccess, PrevLastFailure
  <2>5. /\ health.lastSuccessAt # None => health.lastSuccessAt \in Nat /\ health.lastSuccessAt <= at
        /\ health.lastFailureAt # None => health.lastFailureAt \in Nat /\ health.lastFailureAt <= at
    BY <2>1, <2>2 DEF StampsInOrder, HealthRecords
  <2>. QED
    BY <2>1, <2>3, <2>4, <2>5, NoneAssumption
<1>. QED
  BY <1>1, SourceHealthType, SourceHealthStamps, PTL DEF Spec, HealthAdvances
=============================================================================
