----------------------- MODULE HealthTransitionProofs -----------------------
(***************************************************************************)
(* Lemmas about the transition function of the source-health state         *)
(* machine, for any previous record and any completion time.               *)
(***************************************************************************)
EXTENDS HealthTransition, TLAPS

-----------------------------------------------------------------------------
(* What the transition function does, whatever record it starts from.      *)

\* One equation per outcome, for the CASE of NextHealth.
LEMMA NextHealthCases ==
  ASSUME NEW prev, NEW at
  PROVE  /\ NextHealth(prev, "sourceFailed", at) = Failed(prev, at)
         /\ NextHealth(prev, "persistFailed", at) = NotStored(prev, at)
         /\ NextHealth(prev, "partial", at) = Succeeded(prev, "DEGRADED", at)
         /\ NextHealth(prev, "success", at) = Succeeded(prev, "HEALTHY", at)
BY DEF NextHealth

\* A run writes a well-formed record, stamped with the run's completion time.
LEMMA NextHealthType ==
  ASSUME NEW prev \in HealthRecords \cup {None}, NEW outcome \in Outcomes, NEW at \in Nat
  PROVE  /\ NextHealth(prev, outcome, at) \in HealthRecords
         /\ NextHealth(prev, outcome, at).updatedAt = at
<1>. DEFINE consec == PrevFailures(prev) + 1
<1>1. /\ PrevFailures(prev) \in Nat
      /\ PrevLastSuccess(prev) \in Nat \cup {None}
      /\ PrevLastFailure(prev) \in Nat \cup {None}
  BY DEF PrevFailures, PrevLastSuccess, PrevLastFailure, HealthRecords
<1>2. CASE outcome = "sourceFailed"
  BY <1>1, <1>2, NextHealthCases DEF Failed, HealthRecords, Statuses
<1>3. CASE outcome = "persistFailed"
  BY <1>1, <1>3, NextHealthCases DEF NotStored, HealthRecords, Statuses
<1>4. CASE outcome = "partial"
  BY <1>1, <1>4, NextHealthCases DEF Succeeded, HealthRecords, Statuses
<1>5. CASE outcome = "success"
  BY <1>1, <1>5, NextHealthCases DEF Succeeded, HealthRecords, Statuses
<1>. QED
  BY <1>2, <1>3, <1>4, <1>5 DEF Outcomes

\* The record written is consistent, even when the one it was computed from is not.
LEMMA NextHealthConsistent ==
  ASSUME NEW prev \in HealthRecords \cup {None}, NEW outcome \in Outcomes, NEW at \in Nat
  PROVE  LET h == NextHealth(prev, outcome, at) IN
         /\ h.status = "UNREACHABLE" <=> h.consecutiveFailures >= UnreachableAfter
         /\ h.consecutiveFailures > 0 =>
              h.status # "HEALTHY" /\ h.lastFailureAt = h.updatedAt
         /\ h.consecutiveFailures = 0 /\ h.status = "DEGRADED" =>
              h.lastSuccessAt = h.updatedAt
<1>1. PrevFailures(prev) \in Nat
  BY DEF PrevFailures, HealthRecords
<1>2. CASE outcome = "sourceFailed"
  BY <1>1, <1>2, NextHealthCases DEF Failed, UnreachableAfter
<1>3. CASE outcome = "persistFailed"
  BY <1>3, NextHealthCases DEF NotStored, UnreachableAfter
<1>4. CASE outcome = "partial"
  BY <1>4, NextHealthCases DEF Succeeded, UnreachableAfter
<1>5. CASE outcome = "success"
  BY <1>5, NextHealthCases DEF Succeeded, UnreachableAfter
<1>. QED
  BY <1>2, <1>3, <1>4, <1>5 DEF Outcomes

\* The fields of the record written, in terms of the record read.
LEMMA NextHealthFields ==
  ASSUME NEW prev \in HealthRecords \cup {None}, NEW outcome \in Outcomes, NEW at \in Nat
  PROVE  LET h == NextHealth(prev, outcome, at) IN
         /\ h.consecutiveFailures = IF outcome = "sourceFailed" THEN PrevFailures(prev) + 1
                                    ELSE 0
         /\ h.lastSuccessAt = IF outcome \in {"partial", "success"} THEN at
                              ELSE PrevLastSuccess(prev)
         /\ h.lastFailureAt = IF outcome = "sourceFailed" THEN at
                              ELSE PrevLastFailure(prev)
<1>1. CASE outcome = "sourceFailed"
  BY <1>1, NextHealthCases DEF Failed
<1>2. CASE outcome = "persistFailed"
  BY <1>2, NextHealthCases DEF NotStored
<1>3. CASE outcome = "partial"
  BY <1>3, NextHealthCases DEF Succeeded
<1>4. CASE outcome = "success"
  BY <1>4, NextHealthCases DEF Succeeded
<1>. QED
  BY <1>1, <1>2, <1>3, <1>4 DEF Outcomes
=============================================================================
