-------------------------- MODULE HealthTransition --------------------------
(***************************************************************************)
(* The source-health state machine of the orchestrator: how the record of  *)
(* a source's health is computed from the previous record and from what    *)
(* one ingestion run found.  Constant level: the modules that keep a health *)
(* record (SourceHealth, Ingestion) share it.                              *)
(***************************************************************************)
EXTENDS Naturals

CONSTANT None   \* the absent record, the absent timestamp (Python's None)

\* SourceHealthStatus.UNREACHABLE is set from the third failure on.
UnreachableAfter == 3

(***************************************************************************)
(* What a run found, in the order the orchestrator tests it: the source    *)
(* could not be read; it was read but the jobs could not be stored; some   *)
(* records were rejected; everything went well.                            *)
(***************************************************************************)
Outcomes == {"sourceFailed", "persistFailed", "partial", "success"}

Statuses == {"HEALTHY", "DEGRADED", "UNREACHABLE"}

HealthRecords ==
  [status : Statuses, consecutiveFailures : Nat,
   lastSuccessAt : Nat \cup {None}, lastFailureAt : Nat \cup {None},
   updatedAt : Nat]

ASSUME NoneAssumption == None \notin Nat /\ None \notin HealthRecords

PrevFailures(prev)    == IF prev = None THEN 0 ELSE prev.consecutiveFailures
PrevLastSuccess(prev) == IF prev = None THEN None ELSE prev.lastSuccessAt
PrevLastFailure(prev) == IF prev = None THEN None ELSE prev.lastFailureAt

-----------------------------------------------------------------------------
(* Mutants: plausible slips in the definition that follows, used to show   *)
(* that the properties notice them.                                        *)

\* Off by one in the comparison with the threshold.
FailedTooSoon(prev, at) ==
  LET consec == PrevFailures(prev) + 1 IN
  [status |-> IF consec + 1 >= UnreachableAfter THEN "UNREACHABLE" ELSE "DEGRADED",
   consecutiveFailures |-> consec,
   lastSuccessAt |-> PrevLastSuccess(prev), lastFailureAt |-> at,
   updatedAt |-> at]

-----------------------------------------------------------------------------
Failed(prev, at) ==
  LET consec == PrevFailures(prev) + 1 IN
  [status |-> IF consec >= UnreachableAfter THEN "UNREACHABLE" ELSE "DEGRADED",
   consecutiveFailures |-> consec,
   lastSuccessAt |-> PrevLastSuccess(prev), lastFailureAt |-> at,
   updatedAt |-> at]

NotStored(prev, at) ==
  [status |-> "HEALTHY", consecutiveFailures |-> 0,
   lastSuccessAt |-> PrevLastSuccess(prev),
   lastFailureAt |-> PrevLastFailure(prev), updatedAt |-> at]

Succeeded(prev, status, at) ==
  [status |-> status, consecutiveFailures |-> 0, lastSuccessAt |-> at,
   lastFailureAt |-> PrevLastFailure(prev), updatedAt |-> at]

-----------------------------------------------------------------------------
(* Mutants of the definition that follows.                                 *)

\* A write that failed is charged to the source.
NextHealthBlamesSource(prev, outcome, at) ==
  IF outcome \in {"sourceFailed", "persistFailed"} THEN Failed(prev, at)
  ELSE Succeeded(prev, IF outcome = "partial" THEN "DEGRADED" ELSE "HEALTHY", at)

\* A write that failed still advances last_success_at.
NextHealthFalseSuccess(prev, outcome, at) ==
  IF outcome = "sourceFailed" THEN Failed(prev, at)
  ELSE Succeeded(prev, IF outcome = "partial" THEN "DEGRADED" ELSE "HEALTHY", at)

\* A partial success leaves the failure count alone.
NextHealthPartialKeepsCount(prev, outcome, at) ==
  CASE outcome = "sourceFailed"  -> Failed(prev, at)
    [] outcome = "persistFailed" -> NotStored(prev, at)
    [] outcome = "partial"       -> [Succeeded(prev, "DEGRADED", at) EXCEPT
                                       !.consecutiveFailures = PrevFailures(prev)]
    [] outcome = "success"       -> Succeeded(prev, "HEALTHY", at)

-----------------------------------------------------------------------------
\* The health record a run writes, from the one it read.
NextHealth(prev, outcome, at) ==
  CASE outcome = "sourceFailed"  -> Failed(prev, at)
    [] outcome = "persistFailed" -> NotStored(prev, at)
    [] outcome = "partial"       -> Succeeded(prev, "DEGRADED", at)
    [] outcome = "success"       -> Succeeded(prev, "HEALTHY", at)
=============================================================================
