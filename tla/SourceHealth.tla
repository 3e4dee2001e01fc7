---------------------------- MODULE SourceHealth ----------------------------
(***************************************************************************)
(* What the ingestion subsystem promises about the health of its source:   *)
(* the record changes only by an atomic transition of the state machine,   *)
(* one per run, computed from the record that is there and stamped later   *)
(* than it.  Ingestion implements this when runs do not overlap and the    *)
(* health record can be read.                                              *)
(***************************************************************************)
EXTENDS HealthTransition

CONSTANT Times    \* the clock readings a run may be stamped with

VARIABLE health

TypeOK == health \in HealthRecords \cup {None}

Init == health = None

\* One run ends and reports: its clock reading is a number, and later than the last report.
RunReports(outcome, at) ==
  /\ at \in Nat
  /\ health # None => at > health.updatedAt
  /\ health' = NextHealth(health, outcome, at)

Next == \E outcome \in Outcomes, at \in Times : RunReports(outcome, at)

Spec == Init /\ [][Next]_health

(***************************************************************************)
(* The status says what the counter and the stamps say: UNREACHABLE        *)
(* exactly from the third consecutive failure on, a source with failures   *)
(* outstanding is never HEALTHY and was last heard of when it failed, and  *)
(* a source DEGRADED without failures was last heard of when it succeeded. *)
(***************************************************************************)
HealthConsistent ==
  health # None =>
    /\ health.status = "UNREACHABLE" <=> health.consecutiveFailures >= UnreachableAfter
    /\ health.consecutiveFailures > 0 =>
         health.status # "HEALTHY" /\ health.lastFailureAt = health.updatedAt
    /\ health.consecutiveFailures = 0 /\ health.status = "DEGRADED" =>
         health.lastSuccessAt = health.updatedAt

(***************************************************************************)
(* Time runs forward in the record: neither stamp is ever erased or moved  *)
(* back, and the failure counter only goes up by one or back to zero.      *)
(***************************************************************************)
HealthAdvances ==
  [][health # None =>
       /\ health' # None
       /\ health.lastSuccessAt # None =>
            health'.lastSuccessAt # None /\ health'.lastSuccessAt >= health.lastSuccessAt
       /\ health.lastFailureAt # None =>
            health'.lastFailureAt # None /\ health'.lastFailureAt >= health.lastFailureAt
       /\ health'.consecutiveFailures \in {0, health.consecutiveFailures + 1}
    ]_health

(***************************************************************************)
(* What makes HealthAdvances inductive: no stamp is later than the record. *)
(***************************************************************************)
StampsInOrder ==
  health # None =>
    /\ health.lastSuccessAt # None => health.lastSuccessAt <= health.updatedAt
    /\ health.lastFailureAt # None => health.lastFailureAt <= health.updatedAt
=============================================================================
