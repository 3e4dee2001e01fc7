--------------------------- MODULE IngestionProofs ---------------------------
(***************************************************************************)
(* Proofs about Ingestion, for any number of runs, jobs and feeds and any  *)
(* combination of faults.                                                  *)
(***************************************************************************)
EXTENDS Ingestion, HealthTransitionProofs, FiniteSetTheorems

-----------------------------------------------------------------------------
(* Lemmas about what a run computes.                                       *)

\* The orchestrator only keeps records that the adapter returned.
LEMMA KeptFromBatch ==
  ASSUME NEW S, NEW records \in Seq(S), NEW l
  PROVE  Kept(records, l) \subseteq S
<1>1. \A i \in FirstOccurrences(records) : records[i] \in S
  BY DEF FirstOccurrences
<1>. QED
  BY <1>1, Zenon DEF Kept, KeptAt

\* A run has one of the four outcomes the health transition knows.
LEMMA OutcomeType == ASSUME NEW r PROVE RunOutcome(r) \in Outcomes
BY DEF RunOutcome, Outcomes

\* What a run keeps are canonical ids, so that it can be stored and listed.
LEMMA UniqueType ==
  ASSUME TypeOK, NEW r \in Runs
  PROVE  Unique(r) \subseteq Ids /\ Persisted(r) \subseteq Ids
<1>1. batch[r].records \in Seq(Ids)
  BY DEF TypeOK, ParsedBatches
<1>. QED
  BY <1>1, KeptFromBatch DEF Unique, Persisted

-----------------------------------------------------------------------------
(* The writes behind the runs' backs.                                      *)

\* The operations that write.
LEMMA WritesAre == WriteOperations = {"jobs", "run", "snapshot", "health"}
BY DEF WriteOperations, Writes

\* A call that fails leaves at most itself to be carried out later.
LEMMA FailedWrite ==
  ASSUME TypeOK, NEW r \in Runs, NEW operation \in WriteOperations, Write(r, operation)
  PROVE  /\ late' \in [Runs -> SUBSET WriteOperations]
         /\ \A s \in Runs : \A w \in late'[s] : w \in late[s] \/ (s = r /\ w = operation)
         /\ Store(r, operation) \/ UNCHANGED repositories
BY DEF TypeOK, Write, Fail, storeVars, repositories

\* A write gets behind its run's back at the place where the run waits for it, and nowhere else.
LEMMA LateStep ==
  ASSUME TypeOK, [Next]_vars
  PROVE  /\ late' \in [Runs -> SUBSET WriteOperations]
         /\ \A s \in Runs : \A w \in late'[s] : w \in late[s] \/ <<pc[s], w>> \in Writes
<1>. USE DEF TypeOK
<1>1. CASE UNCHANGED late
  BY <1>1
<1>2. ASSUME NEW r \in Runs, JobsSaveFails(r) \/ TelemetrySaved(r) \/ SnapshotSaved(r) \/ HealthSaved(r)
      PROVE  \E w \in WriteOperations : <<pc[r], w>> \in Writes /\ Write(r, w)
  BY <1>2, WritesAre
  DEF JobsSaveFails, TelemetrySaved, SnapshotSaved, HealthSaved, Write, At, Writes
<1>3. ASSUME NEW r \in Runs, JobsSaveFails(r) \/ TelemetrySaved(r) \/ SnapshotSaved(r) \/ HealthSaved(r)
      PROVE  /\ late' \in [Runs -> SUBSET WriteOperations]
             /\ \A s \in Runs : \A w \in late'[s] : w \in late[s] \/ <<pc[s], w>> \in Writes
  <2>1. PICK w \in WriteOperations : <<pc[r], w>> \in Writes /\ Write(r, w)
    BY <1>2, <1>3
  <2>. QED
    BY <2>1, FailedWrite
<1>4. ASSUME NEW r \in Runs, Cancel(r)
      PROVE  /\ late' \in [Runs -> SUBSET WriteOperations]
             /\ \A s \in Runs : \A w \in late'[s] : w \in late[s] \/ <<pc[s], w>> \in Writes
  <2>. DEFINE under == {w \in WriteOperations : <<pc[r], w>> \in Writes}
  <2>1. late' = [late EXCEPT ![r] = @ \cup under]
    BY <1>4 DEF Cancel
  <2>2. under \subseteq WriteOperations /\ \A w \in under : <<pc[r], w>> \in Writes
    OBVIOUS
  <2>. HIDE DEF under
  <2>. QED
    BY <2>1, <2>2
<1>5. ASSUME NEW r \in Runs, LandLate(r)
      PROVE  /\ late' \in [Runs -> SUBSET WriteOperations]
             /\ \A s \in Runs : late'[s] \subseteq late[s]
  BY <1>5 DEF LandLate
<1>6. ASSUME NEW r \in Runs,
             \/ Start(r) \/ RejectSource(r) \/ FetchReturns(r) \/ JobsSaved(r) \/ HealthRead(r)
      PROVE  UNCHANGED late
  BY <1>6 DEF Start, RejectSource, FetchReturns, JobsSaved, HealthRead, storeVars, repositories
<1>7. CASE UNCHANGED vars
  BY <1>1, <1>7 DEF vars, storeVars, repositories
<1>. QED
  BY <1>1, <1>3, <1>4, <1>5, <1>6, <1>7 DEF Next, RunStep

-----------------------------------------------------------------------------
(* Type correctness.                                                       *)

LocalTypeOK ==
  /\ now \in 0..MaxTime
  /\ pc \in [Runs -> Places]
  /\ cancelled \in [Runs -> BOOLEAN]
  /\ limit \in [Runs -> Nat]
  /\ startedAt \in [Runs -> 0..MaxTime]
  /\ completedAt \in [Runs -> 0..MaxTime]
  /\ batch \in [Runs -> ParsedBatches(Ids)]
  /\ jobWrite \in [Runs -> {"none", "ok", "failed"}]
  /\ prevHealth \in [Runs -> HealthRecords \cup {None}]

StoreTypeOK ==
  /\ jobs \in [Ids -> Runs \cup {None}]
  /\ runs \subseteq Runs
  /\ snapshot \in Snapshots \cup {None}
  /\ health \in HealthRecords \cup {None}

\* The type invariant, split into the runs' own variables, the repositories and the rest.
LEMMA TypeOKParts ==
  TypeOK <=> LocalTypeOK /\ StoreTypeOK /\ late \in [Runs -> SUBSET WriteOperations]
BY DEF TypeOK, LocalTypeOK, StoreTypeOK

\* What a run writes to the repositories is well formed, whichever call it is.
LEMMA StoreEffectType ==
  ASSUME TypeOK, NEW r \in Runs,
         \/ StoreJobs(r) \/ StoreRun(r) \/ StoreSnapshot(r) \/ StoreHealth(r)
         \/ UNCHANGED repositories
  PROVE  StoreTypeOK'
<1>1. CASE StoreJobs(r)
  BY <1>1 DEF StoreJobs, TypeOK, StoreTypeOK
<1>2. CASE StoreRun(r)
  BY <1>2 DEF StoreRun, TypeOK, StoreTypeOK
<1>3. CASE StoreSnapshot(r)
  <2>1. SnapshotOf(r) \in Snapshots
    BY UniqueType, IngestionAssumption DEF SnapshotOf, Snapshots, TypeOK
  <2>. QED
    BY <1>3, <2>1 DEF StoreSnapshot, TypeOK, StoreTypeOK
<1>4. CASE StoreHealth(r)
  <2>1. prevHealth[r] \in HealthRecords \cup {None} /\ completedAt[r] \in Nat
    BY IngestionAssumption DEF TypeOK
  <2>. QED
    BY <1>4, <2>1, OutcomeType, NextHealthType DEF StoreHealth, TypeOK, StoreTypeOK
<1>5. CASE UNCHANGED repositories
  BY <1>5 DEF repositories, TypeOK, StoreTypeOK
<1>. QED
  BY <1>1, <1>2, <1>3, <1>4, <1>5

\* Every step of a run keeps its own variables and the repositories well formed.
LEMMA StepType ==
  ASSUME TypeOK, [Next]_vars
  PROVE  TypeOK'
<1>. USE DEF LocalTypeOK, Places
<1>a. LocalTypeOK /\ StoreTypeOK
  BY TypeOKParts
<1>b. LocalTypeOK' /\ StoreTypeOK' => TypeOK'
  BY LateStep DEF TypeOK, StoreTypeOK
<1>1. ASSUME NEW r \in Runs, Start(r) PROVE TypeOK'
  <2>1. StoreTypeOK'
    BY <1>1, StoreEffectType DEF Start, storeVars, repositories
  <2>2. LocalTypeOK'
    BY <1>1, <1>a, IngestionAssumption DEF Start, Goto
  <2>. QED BY <2>1, <2>2, <1>b
<1>2. ASSUME NEW r \in Runs, RejectSource(r) PROVE TypeOK'
  <2>1. StoreTypeOK'
    BY <1>2, StoreEffectType DEF RejectSource, storeVars, repositories
  <2>2. LocalTypeOK'
    BY <1>2, <1>a, IngestionAssumption DEF RejectSource, Goto
  <2>. QED BY <2>1, <2>2, <1>b
<1>3. ASSUME NEW r \in Runs, FetchReturns(r) PROVE TypeOK'
  <2>1. StoreTypeOK'
    BY <1>3, StoreEffectType DEF FetchReturns, storeVars, repositories
  <2>2. LocalTypeOK'
    BY <1>3, <1>a, IngestionAssumption
    DEF FetchReturns, At, Goto, ToTelemetry, ClockReadings
  <2>. QED BY <2>1, <2>2, <1>b
<1>4. ASSUME NEW r \in Runs, JobsSaved(r) PROVE TypeOK'
  <2>1. StoreTypeOK'
    BY <1>4, StoreEffectType DEF JobsSaved, storeVars, repositories
  <2>2. LocalTypeOK'
    BY <1>4, <1>a DEF JobsSaved, Goto, ToTelemetry
  <2>. QED BY <2>1, <2>2, <1>b
<1>5. ASSUME NEW r \in Runs, JobsSaveFails(r) PROVE TypeOK'
  <2>1. StoreTypeOK'
    BY <1>5, StoreEffectType DEF JobsSaveFails, Fail, Store, storeVars, repositories
  <2>2. LocalTypeOK'
    BY <1>5, <1>a DEF JobsSaveFails, Goto, ToTelemetry
  <2>. QED BY <2>1, <2>2, <1>b
<1>6. ASSUME NEW r \in Runs, TelemetrySaved(r) PROVE TypeOK'
  <2>1. StoreTypeOK'
    BY <1>6, StoreEffectType DEF TelemetrySaved, Write, Fail, Store, storeVars, repositories
  <2>2. LocalTypeOK'
    BY <1>6, <1>a DEF TelemetrySaved, Goto
  <2>. QED BY <2>1, <2>2, <1>b
<1>7. ASSUME NEW r \in Runs, SnapshotSaved(r) PROVE TypeOK'
  <2>1. StoreTypeOK'
    BY <1>7, StoreEffectType DEF SnapshotSaved, Write, Fail, Store, storeVars, repositories
  <2>2. LocalTypeOK'
    BY <1>7, <1>a DEF SnapshotSaved, Goto
  <2>. QED BY <2>1, <2>2, <1>b
<1>8. ASSUME NEW r \in Runs, HealthRead(r) PROVE TypeOK'
  <2>1. StoreTypeOK'
    BY <1>8, StoreEffectType DEF HealthRead, storeVars, repositories
  <2>2. LocalTypeOK'
    BY <1>8, <1>a DEF HealthRead, Goto, StoreTypeOK
  <2>. QED BY <2>1, <2>2, <1>b
<1>9. ASSUME NEW r \in Runs, HealthSaved(r) PROVE TypeOK'
  <2>1. StoreTypeOK'
    BY <1>9, StoreEffectType DEF HealthSaved, Write, Fail, Store, storeVars, repositories
  <2>2. LocalTypeOK'
    BY <1>9, <1>a DEF HealthSaved, Goto
  <2>. QED BY <2>1, <2>2, <1>b
<1>10. ASSUME NEW r \in Runs, Cancel(r) PROVE TypeOK'
  <2>1. StoreTypeOK'
    BY <1>10, StoreEffectType DEF Cancel, storeVars, repositories
  <2>2. LocalTypeOK'
    BY <1>10, <1>a DEF Cancel
  <2>. QED BY <2>1, <2>2, <1>b
<1>11. ASSUME NEW r \in Runs, LandLate(r) PROVE TypeOK'
  <2>1. StoreTypeOK'
    BY <1>11, StoreEffectType DEF LandLate, Store
  <2>2. LocalTypeOK'
    BY <1>11, <1>a DEF LandLate, localVars
  <2>. QED BY <2>1, <2>2, <1>b
<1>12. CASE UNCHANGED vars
  BY <1>12, <1>a DEF vars, localVars, storeVars, repositories, TypeOK
<1>. QED
  BY <1>1, <1>2, <1>3, <1>4, <1>5, <1>6, <1>7, <1>8, <1>9, <1>10, <1>11, <1>12
  DEF Next, RunStep

\* Every variable keeps its type, for every instance.
THEOREM TypeCorrect == Spec => []TypeOK
<1>1. Init => TypeOK
  BY IngestionAssumption DEF Init, TypeOK, Places, ParsedBatches
<1>2. TypeOK /\ [Next]_vars => TypeOK'
  BY StepType
<1>. QED
  BY <1>1, <1>2, PTL DEF Spec

-----------------------------------------------------------------------------
(* What is served was stored.                                              *)

\* A job that is in the store stays there: every write to it is an upsert.
LEMMA JobsStay ==
  ASSUME TypeOK, NEW r \in Runs, StoreJobs(r) \/ UNCHANGED jobs
  PROVE  \A id \in Ids : jobs[id] # None => jobs'[id] # None
BY IngestionAssumption DEF StoreJobs, TypeOK

\* What save_jobs answered is not forgotten.
LEMMA AnswersStay ==
  ASSUME TypeOK, StoreInv, [Next]_vars
  PROVE  \A r \in Runs : jobWrite[r] = "ok" => jobWrite'[r] = "ok"
<1>1. ASSUME NEW r \in Runs, JobsSaved(r) \/ JobsSaveFails(r)
      PROVE  \A s \in Runs : jobWrite[s] = "ok" => jobWrite'[s] = "ok"
  BY <1>1 DEF JobsSaved, JobsSaveFails, At, TypeOK, StoreInv, OrderInv
<1>2. ASSUME NEW r \in Runs,
             \/ Start(r) \/ RejectSource(r) \/ FetchReturns(r) \/ TelemetrySaved(r)
             \/ SnapshotSaved(r) \/ HealthRead(r) \/ HealthSaved(r) \/ Cancel(r) \/ LandLate(r)
      PROVE  UNCHANGED jobWrite
  BY <1>2
  DEF Start, RejectSource, FetchReturns, TelemetrySaved, SnapshotSaved, HealthRead, HealthSaved,
      Cancel, LandLate, localVars
<1>. QED
  BY <1>1, <1>2 DEF Next, RunStep, vars, localVars

\* A step of one run keeps the order of its writes and what its answers say of the store, and
\* never takes a job out of it that another run, or the snapshot, relies on.
LEMMA StoreInvStep ==
  ASSUME TypeOK, StoreInv, [Next]_vars
  PROVE  StoreInv'
<1>. USE DEF TypeOK, StoreInv, Fetched, PastJobs, Unique, Goto
<1>a. (\A r \in Runs : OrderInv(r)' /\ AnswerInv(r)') /\ SnapshotInv' => StoreInv'
  <2>1. \A r \in Runs : jobWrite[r] = "ok" => jobWrite'[r] = "ok"
    BY AnswersStay
  <2>2. ASSUME NEW r \in Runs PROVE LateInv(r)'
    BY <2>1, LateStep DEF LateInv, Writes, OrderInv
  <2>. QED
    BY <2>2
<1>1. ASSUME NEW r \in Runs, Start(r) PROVE StoreInv'
  <2>1. \A s \in Runs : OrderInv(s)'
    BY <1>1 DEF Start, storeVars, repositories, OrderInv
  <2>2. \A s \in Runs : AnswerInv(s)'
    BY <1>1 DEF Start, storeVars, repositories, OrderInv, AnswerInv
  <2>3. SnapshotInv'
    BY <1>1 DEF Start, storeVars, repositories, OrderInv, SnapshotInv, Snapshots
  <2>. QED
    BY <2>1, <2>2, <2>3, <1>a
<1>2. ASSUME NEW r \in Runs, RejectSource(r) PROVE StoreInv'
  <2>1. \A s \in Runs : OrderInv(s)'
    BY <1>2 DEF RejectSource, storeVars, repositories, OrderInv
  <2>2. \A s \in Runs : AnswerInv(s)'
    BY <1>2 DEF RejectSource, storeVars, repositories, AnswerInv
  <2>3. SnapshotInv'
    BY <1>2, IngestionAssumption
    DEF RejectSource, storeVars, repositories, SnapshotInv, Snapshots
  <2>. QED
    BY <2>1, <2>2, <2>3, <1>a
<1>3. ASSUME NEW r \in Runs, FetchReturns(r) PROVE StoreInv'
  <2>1. \A s \in Runs : OrderInv(s)'
    <3>1. PICK b \in Batches, t \in ClockReadings :
            /\ batch' = [batch EXCEPT ![r] = b]
            /\ IF Kept(b.records, limit[r]) # {} /\ ~SourceFailed(b)
               THEN Goto(r, "savingJobs")
               ELSE ToTelemetry(r, t)
      BY <1>3 DEF FetchReturns
    <3>2. pc[r] = "fetching" /\ jobWrite[r] = "none" /\ UNCHANGED <<jobWrite, limit>>
      BY <1>3 DEF FetchReturns, At, OrderInv
    <3>3. OrderInv(r)'
      BY <3>1, <3>2 DEF ToTelemetry, OrderInv
    <3>4. ASSUME NEW s \in Runs, s # r PROVE OrderInv(s)'
      BY <3>1, <3>2, <3>4 DEF ToTelemetry, OrderInv
    <3>. QED
      BY <3>3, <3>4
  <2>2. \A s \in Runs : AnswerInv(s)'
    BY <1>3 DEF FetchReturns, storeVars, repositories, At, ToTelemetry, OrderInv, AnswerInv
  <2>3. SnapshotInv'
    BY <1>3 DEF FetchReturns, storeVars, repositories, At, ToTelemetry, OrderInv, SnapshotInv, Snapshots
  <2>. QED
    BY <2>1, <2>2, <2>3, <1>a
<1>4. ASSUME NEW r \in Runs, JobsSaved(r) PROVE StoreInv'
  <2>1. \A s \in Runs : OrderInv(s)'
    BY <1>4 DEF JobsSaved, storeVars, repositories, At, ToTelemetry, OrderInv
  <2>2. \A s \in Runs : AnswerInv(s)'
    <3>1. \A id \in Ids : jobs[id] # None => jobs'[id] # None
      BY <1>4, JobsStay DEF JobsSaved, storeVars, repositories, At, ToTelemetry
    <3>2. \A s \in Runs : Unique(s) \subseteq Ids
      BY UniqueType
    <3>. QED
      BY <1>4, <3>1, <3>2, IngestionAssumption DEF JobsSaved, storeVars, repositories, At, ToTelemetry, StoreJobs, AnswerInv, OrderInv
  <2>3. SnapshotInv'
    BY <1>4 DEF StoreJobs, JobsSaved, storeVars, repositories, At, ToTelemetry, OrderInv, SnapshotInv, Snapshots
  <2>. QED
    BY <2>1, <2>2, <2>3, <1>a
<1>5. ASSUME NEW r \in Runs, JobsSaveFails(r) PROVE StoreInv'
  <2>1. \A s \in Runs : OrderInv(s)'
    BY <1>5 DEF JobsSaveFails, storeVars, repositories, At, ToTelemetry, Fail, Store, OrderInv
  <2>2. \A s \in Runs : AnswerInv(s)'
    <3>1. \A id \in Ids : jobs[id] # None => jobs'[id] # None
      BY <1>5, JobsStay DEF JobsSaveFails, storeVars, repositories, At, ToTelemetry, Fail, Store
    <3>2. \A s \in Runs : Unique(s) \subseteq Ids
      BY UniqueType
    <3>. QED
      BY <1>5, <3>1, <3>2, IngestionAssumption DEF JobsSaveFails, storeVars, repositories, At, ToTelemetry, Fail, Store, StoreJobs, AnswerInv, OrderInv
  <2>3. SnapshotInv'
    BY <1>5 DEF StoreJobs, JobsSaveFails, storeVars, repositories, At, ToTelemetry, Fail, Store, OrderInv, SnapshotInv, Snapshots
  <2>. QED
    BY <2>1, <2>2, <2>3, <1>a
<1>6. ASSUME NEW r \in Runs, TelemetrySaved(r) PROVE StoreInv'
  <2>1. \A s \in Runs : OrderInv(s)'
    BY <1>6 DEF TelemetrySaved, Write, storeVars, repositories, At, StoreRun, Fail, Store, TakesSnapshot, Persisted, OrderInv
  <2>2. \A s \in Runs : AnswerInv(s)'
    BY <1>6 DEF TelemetrySaved, Write, storeVars, repositories, At, StoreRun, Fail, Store, TakesSnapshot, Persisted, AnswerInv
  <2>3. SnapshotInv'
    BY <1>6, IngestionAssumption
    DEF TelemetrySaved, Write, storeVars, repositories, At, StoreRun, Fail, Store, TakesSnapshot, Persisted, SnapshotInv, Snapshots
  <2>. QED
    BY <2>1, <2>2, <2>3, <1>a
<1>7. ASSUME NEW r \in Runs, SnapshotSaved(r) PROVE StoreInv'
  <2>1. \A s \in Runs : OrderInv(s)'
    BY <1>7 DEF SnapshotSaved, Write, storeVars, repositories, At, StoreSnapshot, Fail, Store, SnapshotOf, Persisted, OrderInv
  <2>2. \A s \in Runs : AnswerInv(s)'
    BY <1>7 DEF SnapshotSaved, Write, storeVars, repositories, At, StoreSnapshot, Fail, Store, SnapshotOf, Persisted, OrderInv, AnswerInv
  <2>3. SnapshotInv'
    BY <1>7 DEF SnapshotSaved, Write, storeVars, repositories, At, StoreSnapshot, Fail, Store, SnapshotOf, Persisted, OrderInv, SnapshotInv, Snapshots
  <2>. QED
    BY <2>1, <2>2, <2>3, <1>a
<1>8. ASSUME NEW r \in Runs, HealthRead(r) PROVE StoreInv'
  <2>1. \A s \in Runs : OrderInv(s)'
    BY <1>8 DEF HealthRead, storeVars, repositories, At, OrderInv
  <2>2. \A s \in Runs : AnswerInv(s)'
    BY <1>8 DEF HealthRead, storeVars, repositories, At, AnswerInv
  <2>3. SnapshotInv'
    BY <1>8, IngestionAssumption
    DEF HealthRead, storeVars, repositories, At, SnapshotInv, Snapshots
  <2>. QED
    BY <2>1, <2>2, <2>3, <1>a
<1>9. ASSUME NEW r \in Runs, HealthSaved(r) PROVE StoreInv'
  <2>1. \A s \in Runs : OrderInv(s)'
    BY <1>9 DEF HealthSaved, Write, storeVars, repositories, At, StoreHealth, Fail, Store, OrderInv
  <2>2. \A s \in Runs : AnswerInv(s)'
    BY <1>9 DEF HealthSaved, Write, storeVars, repositories, At, StoreHealth, Fail, Store, AnswerInv
  <2>3. SnapshotInv'
    BY <1>9, IngestionAssumption
    DEF HealthSaved, Write, storeVars, repositories, At, StoreHealth, Fail, Store, SnapshotInv, Snapshots
  <2>. QED
    BY <2>1, <2>2, <2>3, <1>a
<1>10. ASSUME NEW r \in Runs, Cancel(r) PROVE StoreInv'
  <2>1. \A s \in Runs : OrderInv(s)'
    BY <1>10 DEF Cancel, storeVars, repositories, OrderInv
  <2>2. \A s \in Runs : AnswerInv(s)'
    BY <1>10 DEF Cancel, storeVars, repositories, AnswerInv
  <2>3. SnapshotInv'
    BY <1>10, IngestionAssumption
    DEF Cancel, storeVars, repositories, SnapshotInv, Snapshots
  <2>. QED
    BY <2>1, <2>2, <2>3, <1>a
<1>11. ASSUME NEW r \in Runs, LandLate(r) PROVE StoreInv'
  <2>. PICK operation \in late[r] : Store(r, operation) /\ UNCHANGED localVars
    BY <1>11 DEF LandLate
  <2>0. UNCHANGED <<pc, cancelled, limit, completedAt, batch, jobWrite>>
    BY DEF localVars
  <2>1. \A s \in Runs : OrderInv(s)'
    BY <2>0 DEF OrderInv
  <2>2. \A s \in Runs : AnswerInv(s)'
    <3>1. \A id \in Ids : jobs[id] # None => jobs'[id] # None
      BY JobsStay DEF Store, StoreRun, StoreHealth, StoreSnapshot
    <3>2. \A s \in Runs : Unique(s) \subseteq Ids
      BY UniqueType
    <3>. QED
      BY <2>0, <3>1, <3>2 DEF AnswerInv
  <2>3. SnapshotInv'
    <3>1. CASE StoreSnapshot(r) /\ operation = "snapshot"
      <4>1. jobWrite[r] = "ok"
        BY <3>1 DEF LateInv
      <4>. QED
        BY <2>0, <3>1, <4>1 DEF StoreSnapshot, SnapshotOf, Persisted, SnapshotInv
    <3>2. CASE UNCHANGED snapshot
      BY <2>0, <3>2 DEF SnapshotInv, Snapshots
    <3>. QED
      BY <3>1, <3>2 DEF Store, StoreJobs, StoreRun, StoreHealth
  <2>. QED
    BY <2>1, <2>2, <2>3, <1>a
<1>12. CASE UNCHANGED vars
  BY <1>12, <1>a DEF vars, localVars, storeVars, repositories, OrderInv, AnswerInv, SnapshotInv
<1>. QED
  BY <1>1, <1>2, <1>3, <1>4, <1>5, <1>6, <1>7, <1>8, <1>9, <1>10, <1>11, <1>12 DEF Next, RunStep

\* The order of the writes, the answers and the snapshot stay in step, under every
\* interleaving, lost write and cancellation: what the two theorems below rest on.
THEOREM StoreInvariant == Spec => []StoreInv
<1>1. Init => StoreInv
  BY IngestionAssumption
  DEF Init, StoreInv, OrderInv, AnswerInv, LateInv, SnapshotInv, Fetched, PastJobs
<1>2. TypeOK /\ StoreInv /\ [Next]_vars => StoreInv'
  BY StoreInvStep
<1>. QED
  BY <1>1, <1>2, TypeCorrect, PTL DEF Spec

\* "Snapshot freezing": the last-known-good snapshot always comes from a run that read
\* the source, is not empty, and lists only jobs that the store holds.
THEOREM SnapshotServable == Spec => []SnapshotIsStored
<1>1. TypeOK /\ StoreInv => SnapshotIsStored
  BY DEF TypeOK, StoreInv, OrderInv, AnswerInv, SnapshotInv, Snapshots, SnapshotIsStored
<1>. QED
  BY <1>1, TypeCorrect, StoreInvariant, PTL

\* An HTTP 200 is never given for a record that is not in the store.
THEOREM SuccessServable == Spec => []SuccessIsStored
<1>1. TypeOK /\ StoreInv => SuccessIsStored
  <2>. SUFFICES ASSUME TypeOK, StoreInv, NEW r \in Runs, HttpStatus(r) = 200
                PROVE  /\ Stats(r).accepted = Cardinality(Unique(r))
                       /\ \A id \in Unique(r) : jobs[id] # None
    BY DEF SuccessIsStored
  <2>1. pc[r] = "done" /\ RunStatus(r) # "FAILED"
    BY DEF HttpStatus, FailureStatus
  <2>2. RunOutcome(r) \in {"partial", "success"}
    BY <2>1, OutcomeType DEF RunStatus, Outcomes
  <2>3. ~SourceFailed(batch[r]) /\ jobWrite[r] # "failed"
    BY <2>2 DEF RunOutcome
  <2>4. jobWrite[r] = "ok" \/ Unique(r) = {}
    BY <2>1, <2>3 DEF TypeOK, StoreInv, OrderInv, PastJobs
  <2>5. Persisted(r) = Unique(r)
    BY <2>4 DEF Persisted
  <2>. QED
    BY <2>4, <2>5 DEF Stats, StoreInv, AnswerInv
<1>. QED
  BY <1>1, TypeCorrect, StoreInvariant, PTL

-----------------------------------------------------------------------------
(* The health record tells what happened.                                  *)

\* Reports are final: a run that reported changes no more.
LEMMA ReportsStay ==
  ASSUME TypeOK, [Next]_vars
  PROVE  /\ FailedReports \subseteq FailedReports'
         /\ \A r \in Runs : Reported(r) => Reported(r)'
         /\ \A r \in Runs : SuccessfulReport(r) =>
              SuccessfulReport(r)' /\ completedAt'[r] = completedAt[r]
<1>. USE DEF TypeOK, FailedReports, SuccessfulReport, Reported, Unique, Goto
<1>1. ASSUME NEW s \in Runs, Start(s)
      PROVE  /\ FailedReports \subseteq FailedReports'
             /\ \A r \in Runs : Reported(r) => Reported(r)'
             /\ \A r \in Runs : SuccessfulReport(r) =>
                  SuccessfulReport(r)' /\ completedAt'[r] = completedAt[r]
  BY <1>1 DEF Start
<1>2. ASSUME NEW s \in Runs, RejectSource(s)
      PROVE  /\ FailedReports \subseteq FailedReports'
             /\ \A r \in Runs : Reported(r) => Reported(r)'
             /\ \A r \in Runs : SuccessfulReport(r) =>
                  SuccessfulReport(r)' /\ completedAt'[r] = completedAt[r]
  BY <1>2 DEF RejectSource
<1>3. ASSUME NEW s \in Runs, FetchReturns(s)
      PROVE  /\ FailedReports \subseteq FailedReports'
             /\ \A r \in Runs : Reported(r) => Reported(r)'
             /\ \A r \in Runs : SuccessfulReport(r) =>
                  SuccessfulReport(r)' /\ completedAt'[r] = completedAt[r]
  BY <1>3 DEF FetchReturns, At, ToTelemetry
<1>4. ASSUME NEW s \in Runs, JobsSaved(s)
      PROVE  /\ FailedReports \subseteq FailedReports'
             /\ \A r \in Runs : Reported(r) => Reported(r)'
             /\ \A r \in Runs : SuccessfulReport(r) =>
                  SuccessfulReport(r)' /\ completedAt'[r] = completedAt[r]
  BY <1>4 DEF JobsSaved, At, ToTelemetry
<1>5. ASSUME NEW s \in Runs, JobsSaveFails(s)
      PROVE  /\ FailedReports \subseteq FailedReports'
             /\ \A r \in Runs : Reported(r) => Reported(r)'
             /\ \A r \in Runs : SuccessfulReport(r) =>
                  SuccessfulReport(r)' /\ completedAt'[r] = completedAt[r]
  BY <1>5 DEF JobsSaveFails, At, ToTelemetry
<1>6. ASSUME NEW s \in Runs, TelemetrySaved(s)
      PROVE  /\ FailedReports \subseteq FailedReports'
             /\ \A r \in Runs : Reported(r) => Reported(r)'
             /\ \A r \in Runs : SuccessfulReport(r) =>
                  SuccessfulReport(r)' /\ completedAt'[r] = completedAt[r]
  BY <1>6 DEF TelemetrySaved, At
<1>7. ASSUME NEW s \in Runs, SnapshotSaved(s)
      PROVE  /\ FailedReports \subseteq FailedReports'
             /\ \A r \in Runs : Reported(r) => Reported(r)'
             /\ \A r \in Runs : SuccessfulReport(r) =>
                  SuccessfulReport(r)' /\ completedAt'[r] = completedAt[r]
  BY <1>7 DEF SnapshotSaved, At
<1>8. ASSUME NEW s \in Runs, HealthRead(s)
      PROVE  /\ FailedReports \subseteq FailedReports'
             /\ \A r \in Runs : Reported(r) => Reported(r)'
             /\ \A r \in Runs : SuccessfulReport(r) =>
                  SuccessfulReport(r)' /\ completedAt'[r] = completedAt[r]
  BY <1>8 DEF HealthRead, At
<1>9. ASSUME NEW s \in Runs, HealthSaved(s)
      PROVE  /\ FailedReports \subseteq FailedReports'
             /\ \A r \in Runs : Reported(r) => Reported(r)'
             /\ \A r \in Runs : SuccessfulReport(r) =>
                  SuccessfulReport(r)' /\ completedAt'[r] = completedAt[r]
  BY <1>9 DEF HealthSaved, At
<1>10. ASSUME NEW s \in Runs, Cancel(s)
      PROVE  /\ FailedReports \subseteq FailedReports'
             /\ \A r \in Runs : Reported(r) => Reported(r)'
             /\ \A r \in Runs : SuccessfulReport(r) =>
                  SuccessfulReport(r)' /\ completedAt'[r] = completedAt[r]
  BY <1>10 DEF Cancel
<1>11. ASSUME NEW s \in Runs, LandLate(s)
      PROVE  /\ FailedReports \subseteq FailedReports'
             /\ \A r \in Runs : Reported(r) => Reported(r)'
             /\ \A r \in Runs : SuccessfulReport(r) =>
                  SuccessfulReport(r)' /\ completedAt'[r] = completedAt[r]
  BY <1>11 DEF LandLate, localVars
<1>12. CASE UNCHANGED vars
  BY <1>12 DEF vars, localVars
<1>. QED
  BY <1>1, <1>2, <1>3, <1>4, <1>5, <1>6, <1>7, <1>8, <1>9, <1>10, <1>11, <1>12 DEF Next, RunStep

\* The number of failed reports, of all runs or of all but some, never goes down.
LEMMA FailedReportsGrow ==
  ASSUME TypeOK, [Next]_vars, NEW X
  PROVE  /\ Cardinality(FailedReports \ X) \in Nat
         /\ Cardinality(FailedReports' \ X) \in Nat
         /\ Cardinality(FailedReports \ X) <= Cardinality(FailedReports' \ X)
<1>1. /\ FailedReports \ X \subseteq Runs /\ FailedReports' \ X \subseteq Runs
      /\ FailedReports \ X \subseteq FailedReports' \ X
  BY ReportsStay DEF FailedReports
<1>2. IsFiniteSet(FailedReports \ X) /\ IsFiniteSet(FailedReports' \ X)
  BY <1>1, FS_Subset, IngestionAssumption
<1>. QED
  BY <1>1, <1>2, FS_Subset, FS_CardinalityType

\* A record that told of past reports only still does after a step.
LEMMA ReportOnlyStays ==
  ASSUME TypeOK, [Next]_vars, NEW X, NEW h \in HealthRecords \cup {None},
         ReportOnly(h, FailedReports \ X)
  PROVE  /\ h # None => h.consecutiveFailures <= Cardinality(FailedReports' \ X)
         /\ h # None /\ h.lastSuccessAt # None =>
              \E r \in Runs : SuccessfulReport(r)' /\ completedAt'[r] = h.lastSuccessAt
<1>1. h # None => h.consecutiveFailures \in Nat
  BY DEF HealthRecords
<1>2. h # None => h.consecutiveFailures <= Cardinality(FailedReports' \ X)
  BY <1>1, FailedReportsGrow DEF ReportOnly
<1>3. h # None /\ h.lastSuccessAt # None =>
        \E r \in Runs : SuccessfulReport(r)' /\ completedAt'[r] = h.lastSuccessAt
  BY ReportsStay DEF ReportOnly
<1>. QED
  BY <1>2, <1>3

\* The record a run writes counts the run itself, once, and what it read.
LEMMA HealthWrite ==
  ASSUME TypeOK, StoreInv, HealthInv, [Next]_vars,
         NEW r \in Runs, pc[r] \in {"savingHealth", "done"}, StoreHealth(r),
         Reported(r)', UNCHANGED <<batch, limit, completedAt, jobWrite>>
  PROVE  ReportOnly(health, FailedReports)'
<1>. DEFINE prev == prevHealth[r]
            outcome == RunOutcome(r)
            others == FailedReports \ {r}
<1>1. /\ prev \in HealthRecords \cup {None} /\ completedAt[r] \in Nat
      /\ outcome \in Outcomes /\ ReportOnly(prev, others)
  BY OutcomeType, IngestionAssumption DEF TypeOK, HealthInv
<1>2. health' = NextHealth(prev, outcome, completedAt[r])
  BY DEF StoreHealth
<1>3. health'.consecutiveFailures <= Cardinality(FailedReports')
  <2>1. CASE outcome = "sourceFailed"
    <3>1. SourceFailed(batch[r])
      BY <2>1 DEF RunOutcome
    <3>2. r \notin others /\ others \cup {r} \subseteq FailedReports'
      BY <3>1, ReportsStay DEF FailedReports
    <3>3. IsFiniteSet(others) /\ IsFiniteSet(FailedReports')
      BY FS_Subset, IngestionAssumption DEF FailedReports
    <3>4. /\ Cardinality(others \cup {r}) = Cardinality(others) + 1
          /\ Cardinality(others \cup {r}) <= Cardinality(FailedReports')
      BY <3>2, <3>3, FS_AddElement, FS_Subset
    <3>5. Cardinality(others) \in Nat /\ Cardinality(FailedReports') \in Nat
      BY <3>3, FS_CardinalityType
    <3>6. PrevFailures(prev) \in Nat /\ PrevFailures(prev) <= Cardinality(others)
      BY <1>1, <3>5 DEF PrevFailures, ReportOnly, HealthRecords
    <3>7. health'.consecutiveFailures = PrevFailures(prev) + 1
      BY <1>1, <1>2, <2>1, NextHealthFields
    <3>. QED
      BY <3>4, <3>5, <3>6, <3>7
  <2>2. CASE outcome # "sourceFailed"
    <3>1. health'.consecutiveFailures = 0
      BY <1>1, <1>2, <2>2, NextHealthFields
    <3>2. Cardinality(FailedReports') \in Nat
      BY FS_Subset, FS_CardinalityType, IngestionAssumption DEF FailedReports
    <3>. QED
      BY <3>1, <3>2
  <2>. QED
    BY <2>1, <2>2
<1>4. ASSUME health'.lastSuccessAt # None
      PROVE  \E s \in Runs : SuccessfulReport(s)' /\ completedAt'[s] = health'.lastSuccessAt
  <2>1. CASE outcome \in {"partial", "success"}
    <3>1. health'.lastSuccessAt = completedAt[r]
      BY <1>1, <1>2, <2>1, NextHealthFields
    <3>2. ~SourceFailed(batch[r]) /\ jobWrite[r] # "failed"
      BY <2>1 DEF RunOutcome
    <3>3. jobWrite[r] = "ok" \/ Unique(r) = {}
      BY <3>2 DEF TypeOK, StoreInv, OrderInv, PastJobs
    <3>4. SuccessfulReport(r)'
      BY <3>2, <3>3 DEF SuccessfulReport, Unique
    <3>. QED
      BY <3>1, <3>4
  <2>2. CASE outcome \notin {"partial", "success"}
    <3>1. health'.lastSuccessAt = PrevLastSuccess(prev)
      BY <1>1, <1>2, <2>2, NextHealthFields
    <3>2. prev # None /\ prev.lastSuccessAt = health'.lastSuccessAt
      BY <3>1, <1>4 DEF PrevLastSuccess
    <3>. QED
      BY <1>1, <1>4, <3>2, ReportOnlyStays
  <2>. QED
    BY <2>1, <2>2
<1>. QED
  BY <1>3, <1>4 DEF ReportOnly

\* A health write gets behind a run's back at its end, or when it is cancelled there.
LEMMA LateHealth ==
  ASSUME TypeOK, [Next]_vars, NEW s \in Runs, "health" \in late'[s], "health" \notin late[s]
  PROVE  Reported(s)'
<1>. USE DEF TypeOK
<1>1. pc[s] = "savingHealth"
  BY LateStep DEF Writes
<1>2. ASSUME NEW r \in Runs, JobsSaveFails(r) \/ TelemetrySaved(r) \/ SnapshotSaved(r)
      PROVE  FALSE
  <2>1. PICK w \in {"jobs", "run", "snapshot"} : Write(r, w)
    BY <1>2 DEF JobsSaveFails, TelemetrySaved, SnapshotSaved, Write
  <2>. QED
    BY <2>1, FailedWrite, WritesAre
<1>3. ASSUME NEW r \in Runs, HealthSaved(r) PROVE Reported(s)'
  <2>1. s = r
    BY <1>3, FailedWrite, WritesAre DEF HealthSaved
  <2>. QED
    BY <1>3, <2>1 DEF HealthSaved, Goto, Reported
<1>4. ASSUME NEW r \in Runs, Cancel(r) PROVE Reported(s)'
  <2>1. s = r
    BY <1>4 DEF Cancel
  <2>. QED
    BY <1>1, <1>4, <2>1 DEF Cancel, Reported
<1>5. ASSUME NEW r \in Runs, LandLate(r) PROVE FALSE
  BY <1>5 DEF LandLate
<1>6. ASSUME NEW r \in Runs,
             \/ Start(r) \/ RejectSource(r) \/ FetchReturns(r) \/ JobsSaved(r) \/ HealthRead(r)
      PROVE  FALSE
  BY <1>6 DEF Start, RejectSource, FetchReturns, JobsSaved, HealthRead, storeVars
<1>7. CASE UNCHANGED vars
  BY <1>7 DEF vars, storeVars
<1>. QED
  BY <1>2, <1>3, <1>4, <1>5, <1>6, <1>7 DEF Next, RunStep

\* No step puts an outage or a success that did not happen into a health record.
LEMMA HealthInvStep ==
  ASSUME TypeOK, StoreInv, HealthInv, [Next]_vars
  PROVE  HealthInv'
<1>0. \A s \in Runs : "health" \in late'[s] => Reported(s)'
  BY LateHealth, ReportsStay DEF HealthInv
<1>1. ASSUME UNCHANGED health PROVE ReportOnly(health, FailedReports)'
  <2>1. FailedReports \ {} = FailedReports /\ FailedReports' \ {} = FailedReports'
    OBVIOUS
  <2>2. /\ health # None => health.consecutiveFailures <= Cardinality(FailedReports' \ {})
        /\ health # None /\ health.lastSuccessAt # None =>
             \E r \in Runs : SuccessfulReport(r)' /\ completedAt'[r] = health.lastSuccessAt
    BY <2>1, ReportOnlyStays DEF HealthInv, TypeOK
  <2>. QED
    BY <1>1, <2>1, <2>2 DEF ReportOnly
<1>2. ASSUME NEW r \in Runs, NEW h \in HealthRecords \cup {None},
             ReportOnly(h, FailedReports \ {r}), prevHealth'[r] = h
      PROVE  ReportOnly(prevHealth[r], FailedReports \ {r})'
  BY <1>2, ReportOnlyStays DEF ReportOnly
<1>3. ASSUME NEW r \in Runs, prevHealth'[r] = prevHealth[r]
      PROVE  ReportOnly(prevHealth[r], FailedReports \ {r})'
  BY <1>2, <1>3 DEF HealthInv, TypeOK
<1>4. ASSUME UNCHANGED <<prevHealth, health>> PROVE HealthInv'
  BY <1>0, <1>1, <1>3, <1>4 DEF HealthInv
<1>5. ASSUME NEW r \in Runs, HealthRead(r) PROVE HealthInv'
  <2>1. UNCHANGED health /\ r \notin FailedReports
    BY <1>5 DEF HealthRead, storeVars, repositories, At, FailedReports, Reported
  <2>2. FailedReports \ {r} = FailedReports
    BY <2>1
  <2>3. ReportOnly(None, FailedReports \ {r})
    BY DEF ReportOnly
  <2>4. ReportOnly(prevHealth[r], FailedReports \ {r})'
    <3>1. prevHealth'[r] \in {health, None}
      BY <1>5 DEF HealthRead, TypeOK
    <3>2. CASE prevHealth'[r] = health
      BY <1>2, <2>2, <3>2 DEF HealthInv, TypeOK
    <3>3. CASE prevHealth'[r] = None
      BY <1>2, <2>3, <3>3
    <3>. QED
      BY <3>1, <3>2, <3>3
  <2>5. \A s \in Runs : s # r => prevHealth'[s] = prevHealth[s]
    BY <1>5 DEF HealthRead, TypeOK
  <2>6. \A s \in Runs : ReportOnly(prevHealth[s], FailedReports \ {s})'
    BY <1>3, <2>4, <2>5
  <2>. QED
    BY <1>0, <1>1, <2>1, <2>6 DEF HealthInv
<1>6. ASSUME NEW r \in Runs, HealthSaved(r) \/ LandLate(r), ~UNCHANGED health
      PROVE  HealthInv'
  <2>1. /\ pc[r] \in {"savingHealth", "done"} /\ StoreHealth(r) /\ Reported(r)'
        /\ UNCHANGED <<batch, limit, completedAt, jobWrite, prevHealth>>
    <3>1. CASE HealthSaved(r)
      BY <1>6, <3>1
      DEF HealthSaved, At, Goto, Write, Fail, Store, storeVars, repositories, Reported, TypeOK
    <3>2. CASE LandLate(r)
      <4>1. PICK operation \in late[r] : Store(r, operation) /\ UNCHANGED localVars
        BY <3>2 DEF LandLate
      <4>2. operation = "health" /\ StoreHealth(r)
        BY <1>6, <4>1 DEF Store, StoreJobs, StoreRun, StoreSnapshot
      <4>3. Reported(r)
        BY <4>1, <4>2 DEF HealthInv
      <4>. QED
        BY <4>1, <4>2, <4>3 DEF localVars, Reported
    <3>. QED
      BY <1>6, <3>1, <3>2
  <2>2. ReportOnly(health, FailedReports)'
    BY <2>1, HealthWrite
  <2>3. \A s \in Runs : ReportOnly(prevHealth[s], FailedReports \ {s})'
    BY <1>3, <2>1
  <2>. QED
    BY <1>0, <2>2, <2>3 DEF HealthInv
<1>7. ASSUME NEW r \in Runs, Start(r) \/ RejectSource(r) \/ FetchReturns(r) \/ Cancel(r)
      PROVE  UNCHANGED <<prevHealth, health>>
  BY <1>7 DEF Start, RejectSource, FetchReturns, Cancel, storeVars, repositories
<1>8. ASSUME NEW r \in Runs,
             \/ JobsSaved(r) \/ JobsSaveFails(r) \/ TelemetrySaved(r) \/ SnapshotSaved(r)
      PROVE  UNCHANGED <<prevHealth, health>>
  BY <1>8
  DEF JobsSaved, JobsSaveFails, TelemetrySaved, SnapshotSaved, StoreJobs, StoreRun,
      StoreSnapshot, Write, Fail, Store, storeVars, repositories
<1>9. ASSUME NEW r \in Runs, HealthSaved(r) \/ LandLate(r), UNCHANGED health
      PROVE  UNCHANGED <<prevHealth, health>>
  BY <1>9 DEF HealthSaved, LandLate, localVars
<1>10. CASE UNCHANGED vars
  BY <1>4, <1>10 DEF vars, localVars, storeVars, repositories
<1>. QED
  BY <1>4, <1>5, <1>6, <1>7, <1>8, <1>9, <1>10 DEF Next, RunStep

\* Whatever the interleaving, the stale copies and the lost updates, a health record
\* tells only of runs that reported.
THEOREM HealthInvariant == Spec => []HealthInv
<1>1. Init => HealthInv
  BY DEF Init, HealthInv, ReportOnly
<1>2. TypeOK /\ StoreInv /\ HealthInv /\ [Next]_vars => HealthInv'
  BY HealthInvStep
<1>. QED
  BY <1>1, <1>2, TypeCorrect, StoreInvariant, PTL DEF Spec

\* last_success_at is never the time of a run whose jobs are not stored: "No false health
\* success", for every number of overlapping runs.
THEOREM SuccessIsReal == Spec => []NoPhantomSuccess
<1>1. TypeOK /\ StoreInv /\ HealthInv => NoPhantomSuccess
  <2>1. ASSUME TypeOK, StoreInv, NEW r \in Runs, SuccessfulReport(r)
        PROVE  ReallySucceeded(r)
    BY <2>1
    DEF SuccessfulReport, Reported, ReallySucceeded, Fetched, StoreInv, OrderInv, AnswerInv
  <2>. QED
    BY <2>1 DEF HealthInv, ReportOnly, NoPhantomSuccess
<1>. QED
  BY <1>1, TypeCorrect, StoreInvariant, HealthInvariant, PTL

\* A step of ingestion writes the health record with the transition function, or not at all.
LEMMA HealthStep ==
  ASSUME TypeOK, [Next]_vars, ~UNCHANGED health
  PROVE  \E r \in Runs :
           /\ HealthSaved(r) \/ LandLate(r)
           /\ health' = NextHealth(prevHealth[r], RunOutcome(r), completedAt[r])
<1>1. \A r \in Runs :
        /\ Start(r) \/ RejectSource(r) \/ FetchReturns(r) \/ Cancel(r) => UNCHANGED health
        /\ JobsSaved(r) \/ JobsSaveFails(r) \/ TelemetrySaved(r) => UNCHANGED health
        /\ SnapshotSaved(r) \/ HealthRead(r) => UNCHANGED health
  BY DEF Start, RejectSource, FetchReturns, Cancel, JobsSaved, JobsSaveFails,
         TelemetrySaved, SnapshotSaved, HealthRead, StoreJobs, StoreRun, StoreSnapshot,
         Write, Fail, Store, storeVars, repositories
<1>2. ~UNCHANGED vars
  BY DEF vars, storeVars, repositories
<1>3. PICK r \in Runs : HealthSaved(r) \/ LandLate(r)
  BY <1>1, <1>2 DEF Next, RunStep
<1>4. StoreHealth(r)
  BY <1>3
  DEF HealthSaved, LandLate, StoreJobs, StoreRun, StoreSnapshot, Write, Fail, Store, storeVars,
      repositories
<1>. QED
  BY <1>3, <1>4 DEF StoreHealth

\* The status, the counter and the stamps of the stored health record agree, even when
\* runs overlap and overwrite each other's records.
THEOREM HealthAlwaysConsistent == Spec => []HealthConsistent
<1>. USE DEF HealthConsistent, SH!HealthConsistent
<1>1. Init => HealthConsistent
  BY DEF Init
<1>2. TypeOK /\ HealthConsistent /\ [Next]_vars => HealthConsistent'
  <2>1. ASSUME TypeOK, [Next]_vars, ~UNCHANGED health PROVE HealthConsistent'
    <3>1. PICK r \in Runs :
            health' = NextHealth(prevHealth[r], RunOutcome(r), completedAt[r])
      BY <2>1, HealthStep
    <3>2. prevHealth[r] \in HealthRecords \cup {None} /\ completedAt[r] \in Nat
      BY <2>1, IngestionAssumption DEF TypeOK
    <3>. QED
      BY <3>1, <3>2, OutcomeType, NextHealthConsistent DEF UnreachableAfter, SH!UnreachableAfter
  <2>2. ASSUME HealthConsistent, UNCHANGED health PROVE HealthConsistent'
    BY <2>2
  <2>. QED
    BY <2>1, <2>2
<1>. QED
  BY <1>1, <1>2, TypeCorrect, PTL DEF Spec

\* consecutive_failures never exceeds the number of runs that failed to read the source:
\* UNREACHABLE takes three real outages.
THEOREM OutagesAreReal == Spec => []NoPhantomOutage
<1>1. TypeOK /\ HealthInv /\ HealthConsistent => NoPhantomOutage
  <2>. SUFFICES ASSUME TypeOK, HealthInv, HealthConsistent, health # None
                PROVE  NoPhantomOutage
    BY DEF NoPhantomOutage
  <2>. DEFINE Outages == {r \in Runs : Fetched(r) /\ SourceFailed(batch[r])}
  <2>1. FailedReports \subseteq Outages /\ Outages \subseteq Runs
    BY DEF FailedReports, Reported, Fetched
  <2>2. IsFiniteSet(Outages)
    BY <2>1, FS_Subset, IngestionAssumption
  <2>3. /\ Cardinality(FailedReports) <= Cardinality(Outages)
        /\ Cardinality(FailedReports) \in Nat /\ Cardinality(Outages) \in Nat
    BY <2>1, <2>2, FS_Subset, FS_CardinalityType
  <2>4. health.consecutiveFailures \in Nat
    BY DEF TypeOK, HealthRecords
  <2>. QED
    BY <2>3, <2>4
    DEF HealthInv, ReportOnly, HealthConsistent, SH!HealthConsistent, NoPhantomOutage,
        UnreachableAfter, SH!UnreachableAfter
<1>. QED
  BY <1>1, TypeCorrect, HealthInvariant, HealthAlwaysConsistent, PTL

-----------------------------------------------------------------------------
(* Runs that do not overlap implement SourceHealth.                        *)

\* The deployments in which the health update is atomic.
Sequential ==
  ~Overlap /\ ~Cancels /\ ~ClockSlips /\ LateWrites = {} /\ "readHealth" \notin Faulty

\* Where nothing is cancelled or carried out late, no write gets behind a run's back.
LEMMA NothingLate ==
  ASSUME Sequential, SequentialInv, [Next]_vars
  PROVE  UNCHANGED late /\ \A r \in Runs : ~Cancel(r) /\ ~LandLate(r)
<1>1. \A r \in Runs : ~Cancel(r) /\ ~LandLate(r)
  BY DEF Sequential, SequentialInv, Cancel, LandLate
<1>2. UNCHANGED late
  BY <1>1
  DEF Sequential, Next, RunStep, Start, RejectSource, FetchReturns, JobsSaved, JobsSaveFails,
      TelemetrySaved, SnapshotSaved, HealthRead, HealthSaved, Write, Fail, vars, storeVars
<1>. QED
  BY <1>1, <1>2

\* Without overlap, faults of the health record and clock slips, no step disturbs the run that
\* is about to write the health record.
LEMMA SequentialInvStep ==
  ASSUME Sequential, TypeOK, SequentialInv, [Next]_vars
  PROVE  SequentialInv'
<1>. USE DEF Sequential, TypeOK, SequentialInv, Active, Ended, Fetched, Goto
<1>0. UNCHANGED late
  BY NothingLate
<1>1. ASSUME NEW r \in Runs, Start(r) PROVE SequentialInv'
  BY <1>0, <1>1 DEF Start, storeVars, repositories
<1>2. ASSUME NEW r \in Runs, RejectSource(r) PROVE SequentialInv'
  BY <1>0, <1>2 DEF RejectSource, storeVars, repositories
<1>3. ASSUME NEW r \in Runs, FetchReturns(r) PROVE SequentialInv'
  <2>1. /\ Active(r) /\ ~cancelled[r]
        /\ completedAt' = [completedAt EXCEPT ![r] = now']
        /\ UNCHANGED <<cancelled, prevHealth, health>>
    BY <1>3 DEF FetchReturns, At, storeVars, repositories
  <2>2. now' = now + 1 /\ now \in Nat
    BY <1>3, IngestionAssumption DEF FetchReturns, ClockReadings
  <2>3. pc' = [pc EXCEPT ![r] = pc'[r]] /\ pc'[r] \in {"savingJobs", "savingRun", "raised"}
    BY <1>3 DEF FetchReturns, ToTelemetry
  <2>4. \A s \in Runs : s # r => ~Active(s) /\ ~Active(s)'
    BY <2>1, <2>3
  <2>5. health # None => health.updatedAt \in Nat /\ health.updatedAt < now'
    BY <2>2 DEF HealthRecords
  <2>. QED
    BY <1>0, <2>1, <2>2, <2>3, <2>4, <2>5
<1>4. ASSUME NEW r \in Runs, JobsSaved(r) PROVE SequentialInv'
  BY <1>0, <1>4 DEF JobsSaved, storeVars, repositories, At, ToTelemetry, StoreJobs
<1>5. ASSUME NEW r \in Runs, JobsSaveFails(r) PROVE SequentialInv'
  BY <1>0, <1>5 DEF JobsSaveFails, storeVars, repositories, At, ToTelemetry, StoreJobs, Fail, Store
<1>6. ASSUME NEW r \in Runs, TelemetrySaved(r) PROVE SequentialInv'
  BY <1>0, <1>6 DEF TelemetrySaved, Write, storeVars, repositories, At, StoreRun, Fail, Store
<1>7. ASSUME NEW r \in Runs, SnapshotSaved(r) PROVE SequentialInv'
  BY <1>0, <1>7 DEF SnapshotSaved, Write, storeVars, repositories, At, StoreSnapshot, Fail, Store
<1>8. ASSUME NEW r \in Runs, HealthRead(r) PROVE SequentialInv'
  BY <1>0, <1>8 DEF HealthRead, storeVars, repositories, At
<1>9. ASSUME NEW r \in Runs, HealthSaved(r) PROVE SequentialInv'
  <2>1. Active(r) /\ ~Active(r)' /\ completedAt[r] = now /\ UNCHANGED <<now, completedAt>>
    BY <1>9 DEF HealthSaved, At
  <2>2. UNCHANGED health \/ health'.updatedAt = now
    <3>1. prevHealth[r] \in HealthRecords \cup {None} /\ completedAt[r] \in Nat
      BY IngestionAssumption
    <3>. QED
      BY <1>9, <2>1, <3>1, OutcomeType, NextHealthType DEF HealthSaved, Write, StoreHealth, Fail, Store, storeVars, repositories
  <2>3. \A s \in Runs : s # r => ~Active(s) /\ ~Active(s)'
    BY <1>9, <2>1 DEF HealthSaved
  <2>. QED
    BY <1>0, <1>9, <2>1, <2>2, <2>3, IngestionAssumption DEF HealthSaved
<1>10. ASSUME NEW r \in Runs, Cancel(r) \/ LandLate(r) PROVE SequentialInv'
  BY <1>10, NothingLate
<1>11. CASE UNCHANGED vars
  BY <1>11 DEF vars, localVars, storeVars, repositories
<1>. QED
  BY <1>1, <1>2, <1>3, <1>4, <1>5, <1>6, <1>7, <1>8, <1>9, <1>10, <1>11 DEF Next, RunStep

\* One active run at most, and it holds the record that is stored.
THEOREM SequentialInvariant ==
  ASSUME Sequential
  PROVE  Spec => []SequentialInv
<1>1. Init => SequentialInv
  BY DEF Init, SequentialInv, Active
<1>2. TypeOK /\ SequentialInv /\ [Next]_vars => SequentialInv'
  BY SequentialInvStep
<1>. QED
  BY <1>1, <1>2, TypeCorrect, PTL DEF Spec

\* Refinement: the orchestrator's get_health, computation and save_health amount to one
\* atomic transition of the abstract health record, when its calls do not overlap, are not
\* cancelled, can read the record and have a clock that runs forward.
THEOREM HealthUpdateIsAtomic ==
  ASSUME Sequential
  PROVE  Spec => HealthIsAtomic
<1>1. Init => SH!Init
  BY DEF Init, SH!Init
<1>2. TypeOK /\ SequentialInv /\ [Next]_vars => [SH!Next]_health
  <2>. SUFFICES ASSUME TypeOK, SequentialInv, [Next]_vars, ~UNCHANGED health
                PROVE  SH!Next
    OBVIOUS
  <2>1. PICK r \in Runs :
          /\ pc[r] = "savingHealth"
          /\ health' = NextHealth(prevHealth[r], RunOutcome(r), completedAt[r])
    BY HealthStep, NothingLate DEF HealthSaved, At
  <2>2. Active(r) /\ Fetched(r)
    BY <2>1 DEF SequentialInv, Active, Ended, Fetched
  <2>3. /\ prevHealth[r] = health
        /\ completedAt[r] \in 0..MaxTime
        /\ health # None => completedAt[r] > health.updatedAt
    BY <2>1, <2>2, IngestionAssumption DEF SequentialInv, TypeOK, HealthRecords
  <2>4. \A prev, outcome, at : NextHealth(prev, outcome, at) = SH!NextHealth(prev, outcome, at)
    BY DEF NextHealth, SH!NextHealth, Failed, SH!Failed, NotStored, SH!NotStored, Succeeded,
           SH!Succeeded, PrevFailures, SH!PrevFailures, PrevLastSuccess, SH!PrevLastSuccess,
           PrevLastFailure, SH!PrevLastFailure, UnreachableAfter, SH!UnreachableAfter
  <2>5. SH!RunReports(RunOutcome(r), completedAt[r])
    BY <2>1, <2>3, <2>4 DEF SH!RunReports
  <2>. QED
    BY <2>3, <2>5, OutcomeType DEF SH!Next, Outcomes, SH!Outcomes
<1>. QED
  BY <1>1, <1>2, TypeCorrect, SequentialInvariant, PTL DEF Spec, HealthIsAtomic, SH!Spec

-----------------------------------------------------------------------------
(* Runs that do not overlap store the freshest content.                    *)

\* The clock has passed every fetch that ended, and jobs come from such fetches.
PastInv ==
  /\ \A r \in Runs : completedAt[r] <= now
  /\ \A id \in Ids : jobs[id] # None => Fetched(jobs[id])
  /\ \A r, s \in Runs : pc[r] = "done" /\ Active(s) /\ Fetched(s) => completedAt[r] < now

\* A fetch that ends is later than all before it.
LEMMA FetchIsLatest ==
  ASSUME Sequential, TypeOK, NEW r \in Runs, FetchReturns(r)
  PROVE  /\ now \in Nat /\ now' = now + 1
         /\ completedAt' = [completedAt EXCEPT ![r] = now + 1]
BY IngestionAssumption DEF Sequential, TypeOK, FetchReturns, ClockReadings

\* The steps of a run after its fetch change no stamp, no batch and no limit.
LEMMA WriteSteps ==
  ASSUME TypeOK, NEW r \in Runs,
         \/ JobsSaved(r) \/ JobsSaveFails(r) \/ TelemetrySaved(r) \/ SnapshotSaved(r)
         \/ HealthRead(r) \/ HealthSaved(r)
  PROVE  /\ UNCHANGED <<now, cancelled, limit, startedAt, completedAt, batch>>
         /\ pc' = [pc EXCEPT ![r] = pc'[r]]
         /\ Active(r) /\ Fetched(r)
         /\ pc'[r] \notin {"idle", "rejected", "raisedEarly", "fetching"}
         /\ pc'[r] = "done" <=> HealthSaved(r)
BY DEF TypeOK, JobsSaved, JobsSaveFails, TelemetrySaved, SnapshotSaved, HealthRead, HealthSaved,
       Goto, ToTelemetry, At, Active, Ended, Fetched

\* What a write of jobs does to the table of jobs.
LEMMA JobsStep ==
  ASSUME TypeOK, [Next]_vars, NEW id \in Ids, jobs'[id] # jobs[id]
  PROVE  \E r \in Runs :
           jobs'[id] = r /\ (JobsSaved(r) \/ JobsSaveFails(r) \/ LandLate(r))
<1>1. PICK r \in Runs : JobsSaved(r) \/ JobsSaveFails(r) \/ LandLate(r)
  BY DEF Next, RunStep, Start, RejectSource, FetchReturns, TelemetrySaved, SnapshotSaved,
         HealthRead, HealthSaved, Cancel, StoreRun, StoreSnapshot, StoreHealth, Write, Fail,
         Store, vars, storeVars, repositories
<1>2. StoreJobs(r)
  BY <1>1
  DEF JobsSaved, JobsSaveFails, LandLate, Fail, Store, storeVars, repositories, StoreRun,
      StoreSnapshot, StoreHealth
<1>3. jobs'[id] = r
  BY <1>2 DEF StoreJobs, TypeOK
<1>. QED
  BY <1>1, <1>3

\* Without cancellations, a step is of a run that starts, fetches or writes.
LEMMA SequentialSteps ==
  ASSUME Sequential, SequentialInv, [Next]_vars
  PROVE  \/ \E r \in Runs : Start(r) \/ RejectSource(r) \/ FetchReturns(r)
         \/ \E r \in Runs :
              \/ JobsSaved(r) \/ JobsSaveFails(r) \/ TelemetrySaved(r) \/ SnapshotSaved(r)
              \/ HealthRead(r) \/ HealthSaved(r)
         \/ UNCHANGED vars
BY NothingLate DEF Next, RunStep

\* Every step keeps the order of the fetches.
LEMMA PastInvStep ==
  ASSUME Sequential, TypeOK, SequentialInv, PastInv, [Next]_vars
  PROVE  PastInv'
<1>1. ASSUME NEW r \in Runs, Start(r) \/ RejectSource(r) PROVE PastInv'
  <2>1. /\ UNCHANGED <<now, completedAt, jobs, cancelled>>
        /\ pc[r] = "idle" /\ pc'[r] \in {"fetching", "rejected"} /\ pc' = [pc EXCEPT ![r] = pc'[r]]
    BY <1>1, IngestionAssumption
    DEF Sequential, Start, RejectSource, storeVars, repositories, Goto, TypeOK
  <2>. QED
    BY <2>1 DEF PastInv, Fetched, Active, Ended, TypeOK
<1>2. ASSUME NEW r \in Runs, FetchReturns(r) PROVE PastInv'
  <2>1. /\ now \in Nat /\ now' = now + 1
        /\ completedAt' = [completedAt EXCEPT ![r] = now + 1]
    BY <1>2, FetchIsLatest
  <2>2. /\ UNCHANGED <<jobs, cancelled>> /\ pc[r] = "fetching"
        /\ pc'[r] \in {"savingJobs", "savingRun", "raised"} /\ pc' = [pc EXCEPT ![r] = pc'[r]]
    BY <1>2 DEF FetchReturns, At, Goto, ToTelemetry, storeVars, repositories, TypeOK
  <2>3. completedAt \in [Runs -> Nat]
    BY IngestionAssumption DEF TypeOK
  <2>4. \A s \in Runs : completedAt'[s] <= now'
    BY <2>1, <2>3 DEF PastInv
  <2>5. \A s \in Runs : Fetched(s) => Fetched(s)'
    BY <2>2 DEF Fetched, TypeOK
  <2>6. \A s \in Runs : pc'[s] = "done" => completedAt'[s] < now'
    BY <2>1, <2>2, <2>3 DEF PastInv, TypeOK
  <2>. QED
    BY <2>2, <2>4, <2>5, <2>6 DEF PastInv, TypeOK
<1>3. ASSUME NEW r \in Runs,
             \/ JobsSaved(r) \/ JobsSaveFails(r) \/ TelemetrySaved(r) \/ SnapshotSaved(r)
             \/ HealthRead(r) \/ HealthSaved(r)
      PROVE  PastInv'
  <2>1. /\ UNCHANGED <<now, cancelled, completedAt>>
        /\ pc' = [pc EXCEPT ![r] = pc'[r]]
        /\ Active(r) /\ Fetched(r)
        /\ pc'[r] \notin {"idle", "rejected", "raisedEarly", "fetching"}
    BY <1>3, WriteSteps
  <2>2. \A s \in Runs : Fetched(s) => Fetched(s)'
    BY <2>1 DEF Fetched, TypeOK
  <2>3. \A id \in Ids : jobs'[id] # None => Fetched(jobs[id])'
    <3>1. ASSUME NEW id \in Ids, jobs'[id] # jobs[id] PROVE Fetched(jobs[id])'
      BY <3>1, <2>2, JobsStep, NothingLate, WriteSteps
    <3>2. ASSUME NEW id \in Ids, jobs'[id] = jobs[id], jobs[id] # None PROVE Fetched(jobs[id])'
      BY <3>2, <2>2 DEF PastInv, TypeOK
    <3>. QED
      BY <3>1, <3>2
  <2>4. ASSUME NEW t \in Runs, NEW s \in Runs, pc'[t] = "done", Active(s)', Fetched(s)'
        PROVE  completedAt[t] < now
    <3>1. Active(s) /\ Fetched(s)
      BY <2>1, <2>4 DEF Active, Ended, Fetched, TypeOK
    <3>2. s = r
      BY <2>1, <3>1 DEF SequentialInv
    <3>3. t # r /\ pc[t] = "done"
      BY <2>1, <2>4, <3>2 DEF Active, Ended, TypeOK
    <3>. QED
      BY <3>1, <3>3 DEF PastInv
  <2>. QED
    BY <2>1, <2>3, <2>4 DEF PastInv
<1>4. CASE UNCHANGED vars
  BY <1>4 DEF vars, localVars, storeVars, repositories, PastInv, Fetched, Active, Ended
<1>. QED
  BY <1>1, <1>2, <1>3, <1>4, SequentialSteps

\* Without overlap, cancellation and clock slips, the fetches are ordered in time.
LEMMA PastInvariant ==
  ASSUME Sequential
  PROVE  Spec => []PastInv
<1>1. Init => PastInv
  BY IngestionAssumption DEF Init, PastInv
<1>2. TypeOK /\ SequentialInv /\ PastInv /\ [Next]_vars => PastInv'
  BY PastInvStep
<1>. QED
  BY <1>1, <1>2, TypeCorrect, SequentialInvariant, PTL DEF Spec

\* No step replaces the content of a later fetch.
LEMMA FreshestContentStep ==
  ASSUME Sequential, TypeOK, StoreInv, SequentialInv, PastInv, FreshestContent, [Next]_vars
  PROVE  FreshestContent'
<1>0. \A s \in Runs : Unique(s) \subseteq Ids
  BY UniqueType
<1>1. ASSUME NEW r \in Runs, Start(r) \/ RejectSource(r) PROVE FreshestContent'
  <2>1. /\ UNCHANGED <<completedAt, jobs, jobWrite, batch>>
        /\ jobWrite[r] = "none"
        /\ \A s \in Runs : s # r => limit'[s] = limit[s]
    BY <1>1 DEF Start, RejectSource, storeVars, repositories, StoreInv, OrderInv, Fetched, TypeOK
  <2>. QED
    BY <2>1 DEF FreshestContent, Unique
<1>2. ASSUME NEW r \in Runs, FetchReturns(r) PROVE FreshestContent'
  <2>1. /\ UNCHANGED <<jobs, jobWrite, limit>>
        /\ ~Fetched(r) /\ jobWrite[r] = "none"
        /\ \A s \in Runs : s # r => completedAt'[s] = completedAt[s] /\ batch'[s] = batch[s]
    BY <1>2 DEF FetchReturns, At, storeVars, repositories, StoreInv, OrderInv, Fetched, TypeOK
  <2>2. \A id \in Ids : jobs[id] # r
    BY <2>1, IngestionAssumption DEF PastInv
  <2>. QED
    BY <2>1, <2>2, <1>0 DEF FreshestContent, Unique, TypeOK
<1>3. ASSUME NEW r \in Runs,
             \/ JobsSaved(r) \/ JobsSaveFails(r) \/ TelemetrySaved(r) \/ SnapshotSaved(r)
             \/ HealthRead(r) \/ HealthSaved(r)
      PROVE  FreshestContent'
  <2>1. /\ UNCHANGED <<now, completedAt, batch, limit>>
        /\ Active(r) /\ Fetched(r)
    BY <1>3, WriteSteps
  <2>2. /\ completedAt[r] = now
        /\ \A s \in Runs : completedAt[s] <= completedAt[r]
    BY <2>1 DEF SequentialInv, PastInv
  <2>3. \A id \in Ids : jobs'[id] \in {jobs[id], r}
    BY <1>3
    DEF JobsSaved, JobsSaveFails, TelemetrySaved, SnapshotSaved, HealthRead, HealthSaved,
        StoreJobs, StoreRun, StoreSnapshot, StoreHealth, Write, Fail, Store, storeVars, repositories, TypeOK
  <2>4. \A s \in Runs : jobWrite'[s] = "ok" =>
          jobWrite[s] = "ok" \/ (s = r /\ \A id \in Unique(r) : jobs'[id] = r)
    BY <1>3, <1>0
    DEF JobsSaved, JobsSaveFails, TelemetrySaved, SnapshotSaved, HealthRead, HealthSaved,
        StoreJobs, TypeOK
  <2>5. r # None /\ completedAt \in [Runs -> Nat]
    BY IngestionAssumption DEF TypeOK
  <2>. QED
    BY <2>1, <2>2, <2>3, <2>4, <2>5, <1>0 DEF FreshestContent, Unique
<1>4. CASE UNCHANGED vars
  BY <1>4 DEF vars, localVars, storeVars, repositories, FreshestContent, Unique
<1>. QED
  BY <1>1, <1>2, <1>3, <1>4, SequentialSteps

\* What a run stored is never replaced by what an earlier run fetched, when runs do not
\* overlap, are not cancelled and have a clock that runs forward.
THEOREM ContentStaysFresh ==
  ASSUME Sequential
  PROVE  Spec => []FreshestContent
<1>1. Init => FreshestContent
  BY DEF Init, FreshestContent
<1>2. /\ TypeOK /\ StoreInv /\ SequentialInv /\ PastInv /\ FreshestContent
      /\ [Next]_vars
      => FreshestContent'
  BY FreshestContentStep
<1>. QED
  BY <1>1, <1>2, TypeCorrect, StoreInvariant, SequentialInvariant, PastInvariant, PTL DEF Spec

-----------------------------------------------------------------------------
(* Runs that do not overlap count every outage.                            *)

\* The counter is right in every state, also while a run is on its way.
CountInv == PrevFailures(health) = Cardinality(TrailingFailures)

\* What the end of a run does to the runs that failed since the last one that did not.
LEMMA TrailingStep ==
  ASSUME Sequential, TypeOK, SequentialInv, PastInv, NEW r \in Runs, HealthSaved(r)
  PROVE  /\ r \notin TrailingFailures
         /\ TrailingFailures' = IF SourceFailed(batch[r]) THEN TrailingFailures \cup {r} ELSE {}
<1>. DEFINE Done == {s \in Runs : pc[s] = "done"}
<1>1. /\ UNCHANGED <<completedAt, batch, now>> /\ Active(r) /\ Fetched(r)
      /\ pc[r] = "savingHealth" /\ pc' = [pc EXCEPT ![r] = "done"]
  BY WriteSteps DEF HealthSaved, At, Goto
<1>2. Done' = Done \cup {r} /\ r \notin Done
  BY <1>1 DEF TypeOK
<1>3. /\ completedAt[r] = now /\ now \in Nat
      /\ \A s \in Done : completedAt[s] \in Nat /\ completedAt[s] < now
  BY <1>1, IngestionAssumption DEF TypeOK, SequentialInv, PastInv
<1>4. TrailingFailures = {t \in Done : \A s \in Done :
                            completedAt[s] >= completedAt[t] => SourceFailed(batch[s])}
  BY DEF TrailingFailures
<1>5. TrailingFailures' = {t \in Done' : \A s \in Done' :
                             completedAt[s] >= completedAt[t] => SourceFailed(batch[s])}
  BY <1>1 DEF TrailingFailures
<1>6. CASE SourceFailed(batch[r])
  BY <1>2, <1>3, <1>4, <1>5, <1>6
<1>7. CASE ~SourceFailed(batch[r])
  <2>1. r \in Done' /\ \A t \in Done' : completedAt[r] >= completedAt[t]
    BY <1>2, <1>3
  <2>2. TrailingFailures' = {}
    BY <1>5, <1>7, <2>1
  <2>. QED
    BY <1>2, <1>4, <1>7, <2>2
<1>. QED
  BY <1>2, <1>4, <1>6, <1>7

\* The set of failed runs only changes when a run ends.
LEMMA TrailingStays ==
  ASSUME TypeOK, SequentialInv, [Next]_vars, Sequential, \A r \in Runs : ~HealthSaved(r)
  PROVE  UNCHANGED TrailingFailures
<1>. DEFINE Done == {s \in Runs : pc[s] = "done"}
<1>1. Done' = Done /\ \A s \in Done : completedAt'[s] = completedAt[s] /\ batch'[s] = batch[s]
  <2>1. ASSUME NEW r \in Runs, Start(r) \/ RejectSource(r)
        PROVE  /\ Done' = Done
               /\ \A s \in Done : completedAt'[s] = completedAt[s] /\ batch'[s] = batch[s]
    BY <2>1 DEF Start, RejectSource, Goto, TypeOK
  <2>2. ASSUME NEW r \in Runs, FetchReturns(r)
        PROVE  /\ Done' = Done
               /\ \A s \in Done : completedAt'[s] = completedAt[s] /\ batch'[s] = batch[s]
    BY <2>2 DEF FetchReturns, At, ToTelemetry, Goto, TypeOK
  <2>3. ASSUME NEW r \in Runs,
               \/ JobsSaved(r) \/ JobsSaveFails(r) \/ TelemetrySaved(r) \/ SnapshotSaved(r)
               \/ HealthRead(r)
        PROVE  /\ Done' = Done
               /\ \A s \in Done : completedAt'[s] = completedAt[s] /\ batch'[s] = batch[s]
    <3>1. /\ UNCHANGED <<completedAt, batch>> /\ Active(r) /\ pc'[r] # "done"
          /\ pc' = [pc EXCEPT ![r] = pc'[r]]
      BY <2>3, WriteSteps
    <3>. QED
      BY <3>1 DEF Active, Ended, TypeOK
  <2>4. CASE UNCHANGED vars
    BY <2>4 DEF vars, localVars
  <2>. QED
    BY <2>1, <2>2, <2>3, <2>4, SequentialSteps
<1>2. TrailingFailures = {t \in Done : \A s \in Done :
                            completedAt[s] >= completedAt[t] => SourceFailed(batch[s])}
  BY DEF TrailingFailures
<1>3. TrailingFailures' = {t \in Done' : \A s \in Done' :
                             completedAt'[s] >= completedAt'[t] => SourceFailed(batch'[s])}
  BY DEF TrailingFailures
<1>. QED
  BY <1>1, <1>2, <1>3

\* Every step keeps the counter right: the record read is the one stored, and it is written.
LEMMA CountInvStep ==
  ASSUME Sequential, "health" \notin Faulty, TypeOK, SequentialInv, PastInv, CountInv,
         [Next]_vars
  PROVE  CountInv'
<1>1. ASSUME NEW r \in Runs, HealthSaved(r) PROVE CountInv'
  <2>1. health' = NextHealth(health, RunOutcome(r), completedAt[r])
    BY <1>1 DEF HealthSaved, At, Write, Fail, Store, StoreHealth, storeVars, repositories, SequentialInv
  <2>2. health \in HealthRecords \cup {None} /\ completedAt[r] \in Nat
    BY IngestionAssumption DEF TypeOK
  <2>3. health' # None
    BY <2>1, <2>2, OutcomeType, NextHealthType, NoneAssumption
  <2>4. PrevFailures(health') = IF SourceFailed(batch[r]) THEN PrevFailures(health) + 1 ELSE 0
    <3>1. RunOutcome(r) = "sourceFailed" <=> SourceFailed(batch[r])
      BY DEF RunOutcome
    <3>2. PrevFailures(health') = health'.consecutiveFailures
      BY <2>3 DEF PrevFailures
    <3>. QED
      BY <2>1, <2>2, <3>1, <3>2, OutcomeType, NextHealthFields
  <2>5. IsFiniteSet(TrailingFailures)
    BY FS_Subset, IngestionAssumption DEF TrailingFailures
  <2>6. Cardinality(TrailingFailures') =
          IF SourceFailed(batch[r]) THEN Cardinality(TrailingFailures) + 1 ELSE 0
    <3>1. Cardinality(TrailingFailures \cup {r}) = Cardinality(TrailingFailures) + 1
      BY <1>1, <2>5, TrailingStep, FS_AddElement
    <3>. QED
      BY <1>1, <3>1, TrailingStep, FS_EmptySet
  <2>. QED
    BY <2>4, <2>6 DEF CountInv
<1>2. ASSUME \A r \in Runs : ~HealthSaved(r) PROVE CountInv'
  <2>1. UNCHANGED TrailingFailures
    BY <1>2, TrailingStays
  <2>2. UNCHANGED health
    BY <1>2, SequentialSteps
    DEF Start, RejectSource, FetchReturns, JobsSaved, JobsSaveFails, TelemetrySaved,
        SnapshotSaved, HealthRead, StoreJobs, StoreRun, StoreSnapshot, Write, Fail, Store, vars, storeVars, repositories
  <2>. QED
    BY <2>1, <2>2 DEF CountInv
<1>. QED
  BY <1>1, <1>2

\* Between runs, consecutive_failures is the number of runs that failed to read the source
\* since one last read it, when runs do not overlap, are not cancelled, have a clock that
\* runs forward, and the health record can be read and written.
THEOREM OutagesAreCounted ==
  ASSUME Sequential, "health" \notin Faulty
  PROVE  Spec => []CountsTrailingFailures
<1>1. Init => CountInv
  <2>1. Init => health = None /\ TrailingFailures = {}
    BY DEF Init, TrailingFailures
  <2>. QED
    BY <2>1, FS_EmptySet DEF CountInv, PrevFailures
<1>2. TypeOK /\ SequentialInv /\ PastInv /\ CountInv /\ [Next]_vars => CountInv'
  BY CountInvStep
<1>3. CountInv => CountsTrailingFailures
  BY DEF CountInv, CountsTrailingFailures
<1>. QED
  BY <1>1, <1>2, <1>3, TypeCorrect, SequentialInvariant, PastInvariant, PTL DEF Spec

-----------------------------------------------------------------------------
(* The stored numbers add up.                                              *)

\* A sequence has as many positions as it is long.
LEMMA Positions ==
  ASSUME NEW n \in Nat
  PROVE  IsFiniteSet(1..n) /\ Cardinality(1..n) = n
BY FS_Interval

\* The first records of their ids are all different, so that keeping them loses none.
LEMMA FirstsDiffer ==
  ASSUME NEW S, NEW records \in Seq(S),
         NEW i \in FirstOccurrences(records), NEW j \in FirstOccurrences(records),
         records[i] = records[j]
  PROVE  i = j
<1>1. i \in 1..Len(records) /\ j \in 1..Len(records)
  BY DEF FirstOccurrences
<1>2. ~(i < j) /\ ~(j < i)
  BY <1>1 DEF FirstOccurrences
<1>. QED
  BY <1>1, <1>2

\* What is kept are the first records of their ids, all of them if there is no limit.
LEMMA KeptCount ==
  ASSUME NEW S, NEW records \in Seq(S), NEW l
  PROVE  LET firsts == Cardinality(FirstOccurrences(records)) IN
         /\ firsts \in 0..Len(records)
         /\ IsFiniteSet(Kept(records, l))
         /\ Cardinality(Kept(records, l)) \in 0..firsts
         /\ l = 0 => Cardinality(Kept(records, l)) = firsts
<1>. DEFINE firsts == FirstOccurrences(records)
            rank(i) == Cardinality({j \in firsts : j <= i})
            chosen == {i \in firsts : l = 0 \/ rank(i) <= l}
            f == [i \in chosen |-> records[i]]
<1>1. /\ IsFiniteSet(1..Len(records)) /\ Cardinality(1..Len(records)) = Len(records)
      /\ firsts \subseteq 1..Len(records)
  <2>1. Len(records) \in Nat
    OBVIOUS
  <2>2. IsFiniteSet(1..Len(records)) /\ Cardinality(1..Len(records)) = Len(records)
    BY <2>1, Positions
  <2>3. firsts \subseteq 1..Len(records)
    BY DEF FirstOccurrences
  <2>. QED
    BY <2>1, <2>2, <2>3
<1>2. /\ IsFiniteSet(firsts) /\ Cardinality(firsts) <= Len(records)
      /\ Cardinality(firsts) \in Nat
  BY <1>1, FS_Subset, FS_CardinalityType
<1>3. /\ chosen \subseteq firsts /\ IsFiniteSet(chosen)
      /\ Cardinality(chosen) <= Cardinality(firsts)
      /\ Cardinality(chosen) \in Nat
  BY <1>2, FS_Subset, FS_CardinalityType
<1>4. Kept(records, l) = {records[i] : i \in chosen}
  BY Zenon DEF Kept, KeptAt
<1>5. f \in Surjection(chosen, Kept(records, l))
  <2>. HIDE DEF chosen
  <2>. QED
    BY <1>4 DEF Surjection
<1>6. f \in Injection(chosen, Kept(records, l))
  <2>1. \A i, j \in chosen : f[i] = f[j] => i = j
    BY <1>3, FirstsDiffer
  <2>2. f \in [chosen -> Kept(records, l)]
    BY <1>5 DEF Surjection
  <2>. QED
    BY <2>1, <2>2 DEF Injection, IsInjective
<1>7. /\ IsFiniteSet(Kept(records, l))
      /\ Cardinality(Kept(records, l)) = Cardinality(chosen)
  BY <1>3, <1>5, <1>6, FS_Surjection
<1>8. l = 0 => chosen = firsts
  OBVIOUS
<1>9. Len(records) \in Nat
  OBVIOUS
<1>. HIDE DEF chosen, firsts
<1>10. /\ Cardinality(firsts) \in 0..Len(records)
       /\ Cardinality(Kept(records, l)) \in 0..Cardinality(firsts)
       /\ l = 0 => Cardinality(Kept(records, l)) = Cardinality(firsts)
  BY <1>2, <1>3, <1>7, <1>8, <1>9
<1>. QED
  BY <1>7, <1>10 DEF firsts

\* The error of a failed write is not about a record, and does not count as a rejection.
LEMMA RejectionsAreTheFeeds ==
  ASSUME TypeOK, NEW r \in Runs
  PROVE  CountOfScope(AllErrors(r), "RECORD") = CountOfScope(batch[r].errors, "RECORD")
<1>1. batch[r].errors \in Seq(Errors)
  BY DEF TypeOK, ParsedBatches
<1>2. {i \in DOMAIN AllErrors(r) : AllErrors(r)[i].scope = "RECORD"}
        = {i \in DOMAIN batch[r].errors : batch[r].errors[i].scope = "RECORD"}
  <2>1. CASE jobWrite[r] = "failed"
    <3>. DEFINE es == batch[r].errors
                all == Append(es, PersistenceError)
    <3>1. AllErrors(r) = all
      BY <2>1 DEF AllErrors
    <3>2. /\ Len(es) \in Nat /\ DOMAIN es = 1..Len(es) /\ DOMAIN all = 1..(Len(es) + 1)
          /\ \A i \in 1..Len(es) : all[i] = es[i]
          /\ all[Len(es) + 1] = PersistenceError
      BY <1>1
    <3>3. PersistenceError.scope # "RECORD"
      BY DEF PersistenceError
    <3>. HIDE DEF es, all
    <3>4. {i \in DOMAIN all : all[i].scope = "RECORD"} = {i \in DOMAIN es : es[i].scope = "RECORD"}
      BY <3>2, <3>3
    <3>. QED
      BY <3>1, <3>4 DEF es
  <2>2. CASE jobWrite[r] # "failed"
    BY <2>2 DEF AllErrors
  <2>. QED
    BY <2>1, <2>2
<1>. QED
  BY <1>2 DEF CountOfScope

\* A batch with something to store was given to the store.
Given(r) == ~SourceFailed(batch[r]) /\ Unique(r) # {} => jobWrite[r] # "none"

\* What the telemetry of a run rests on: its batch is one an adapter returns, and a batch
\* with something to store was given to the store.
StatsInv ==
  /\ \A r \in Runs : Fetched(r) => AdapterShape(batch[r])
  /\ \A r \in Runs : r \in runs \/ "run" \in late[r] => Fetched(r) /\ Given(r)

\* A run's telemetry is stored by that run, or late.
LEMMA TelemetryStep ==
  ASSUME TypeOK, StatsInv, [Next]_vars, NEW r \in Runs, r \in runs' \/ "run" \in late'[r]
  PROVE  r \in runs \/ "run" \in late[r] \/ pc[r] = "savingRun"
<1>1. CASE "run" \in late'[r]
  BY <1>1, LateStep DEF Writes
<1>2. ASSUME NEW s \in Runs, TelemetrySaved(s), r \in runs'
      PROVE  r \in runs \/ pc[r] = "savingRun"
  BY <1>2 DEF TelemetrySaved, At, Write, Fail, Store, StoreJobs, StoreRun, StoreSnapshot,
              StoreHealth, storeVars, repositories
<1>3. ASSUME NEW s \in Runs, LandLate(s), r \in runs'
      PROVE  r \in runs \/ "run" \in late[r]
  BY <1>3 DEF LandLate, Store, StoreJobs, StoreRun, StoreSnapshot, StoreHealth
<1>4. ASSUME NEW s \in Runs,
             \/ Start(s) \/ RejectSource(s) \/ FetchReturns(s) \/ JobsSaved(s)
             \/ HealthRead(s) \/ Cancel(s)
      PROVE  UNCHANGED runs
  BY <1>4 DEF Start, RejectSource, FetchReturns, JobsSaved, HealthRead, Cancel, StoreJobs,
              storeVars, repositories
<1>5. ASSUME NEW s \in Runs, JobsSaveFails(s) \/ SnapshotSaved(s) \/ HealthSaved(s)
      PROVE  UNCHANGED runs
  BY <1>5 DEF JobsSaveFails, SnapshotSaved, HealthSaved, Write, Fail, Store, StoreJobs,
              StoreRun, StoreSnapshot, StoreHealth, storeVars, repositories
<1>6. CASE UNCHANGED vars
  BY <1>6 DEF vars, storeVars, repositories
<1>. QED
  BY <1>1, <1>2, <1>3, <1>4, <1>5, <1>6 DEF Next, RunStep

\* A run gets its batch from its fetch.
LEMMA FetchEnds ==
  ASSUME TypeOK, [Next]_vars, NEW r \in Runs, ~Fetched(r), Fetched(r)'
  PROVE  FetchReturns(r)
<1>. USE DEF TypeOK, Fetched
<1>1. ASSUME NEW s \in Runs, Start(s) \/ RejectSource(s) PROVE ~Fetched(r)'
  BY <1>1 DEF Start, RejectSource, Goto
<1>2. ASSUME NEW s \in Runs, FetchReturns(s) PROVE s = r
  BY <1>2 DEF FetchReturns, Goto, ToTelemetry
<1>3. ASSUME NEW s \in Runs,
             \/ JobsSaved(s) \/ JobsSaveFails(s) \/ TelemetrySaved(s) \/ SnapshotSaved(s)
             \/ HealthRead(s) \/ HealthSaved(s)
      PROVE  ~Fetched(r)'
  <2>1. pc' = [pc EXCEPT ![s] = pc'[s]] /\ Fetched(s)
    BY <1>3, WriteSteps
  <2>. QED
    BY <2>1
<1>4. ASSUME NEW s \in Runs, Cancel(s) \/ LandLate(s) PROVE UNCHANGED pc
  BY <1>4 DEF Cancel, LandLate, localVars
<1>5. CASE UNCHANGED vars
  BY <1>5 DEF vars, localVars
<1>. QED
  BY <1>1, <1>2, <1>3, <1>4, <1>5 DEF Next, RunStep

\* What a run fetched stays, and a batch given to the store stays given.
LEMMA FetchedStays ==
  ASSUME TypeOK, [Next]_vars, NEW r \in Runs, Fetched(r)
  PROVE  Fetched(r)' /\ UNCHANGED batch[r] /\ (Given(r) => Given(r)')
<1>. USE DEF TypeOK, Fetched, Given, Unique
<1>1. ASSUME NEW s \in Runs, Start(s) \/ RejectSource(s) \/ FetchReturns(s)
      PROVE  Fetched(r)' /\ UNCHANGED <<batch[r], limit[r], jobWrite[r]>>
  BY <1>1 DEF Start, RejectSource, FetchReturns, At, Goto, ToTelemetry
<1>2. ASSUME NEW s \in Runs,
             \/ JobsSaved(s) \/ JobsSaveFails(s) \/ TelemetrySaved(s) \/ SnapshotSaved(s)
             \/ HealthRead(s) \/ HealthSaved(s)
      PROVE  Fetched(r)' /\ UNCHANGED <<batch, limit>>
             /\ (jobWrite'[r] # "none" \/ jobWrite'[r] = jobWrite[r])
  <2>1. /\ UNCHANGED <<limit, batch>> /\ pc' = [pc EXCEPT ![s] = pc'[s]]
        /\ pc'[s] \notin {"idle", "rejected", "raisedEarly", "fetching"}
    BY <1>2, WriteSteps
  <2>2. jobWrite' = jobWrite \/ \E v \in {"ok", "failed"} : jobWrite' = [jobWrite EXCEPT ![s] = v]
    BY <1>2
    DEF JobsSaved, JobsSaveFails, TelemetrySaved, SnapshotSaved, HealthRead, HealthSaved
  <2>. QED
    BY <2>1, <2>2
<1>3. ASSUME NEW s \in Runs, Cancel(s) \/ LandLate(s)
      PROVE  UNCHANGED <<pc, batch, limit, jobWrite>>
  BY <1>3 DEF Cancel, LandLate, localVars
<1>4. CASE UNCHANGED vars
  BY <1>4 DEF vars, localVars
<1>. QED
  BY <1>1, <1>2, <1>3, <1>4 DEF Next, RunStep

\* Every step keeps what the telemetry rests on.
LEMMA StatsInvStep ==
  ASSUME TypeOK, StoreInv, StatsInv, [Next]_vars
  PROVE  StatsInv'
<1>1. ASSUME NEW r \in Runs, r \in runs' \/ "run" \in late'[r] PROVE (Fetched(r) /\ Given(r))'
  <2>1. Fetched(r) /\ Given(r)
    <3>1. CASE pc[r] = "savingRun"
      BY <3>1 DEF StoreInv, OrderInv, PastJobs, Fetched, Given
    <3>2. CASE r \in runs \/ "run" \in late[r]
      BY <3>2 DEF StatsInv
    <3>. QED
      BY <1>1, <3>1, <3>2, TelemetryStep
  <2>. QED
    BY <2>1, FetchedStays
<1>2. ASSUME NEW r \in Runs, Fetched(r)' PROVE AdapterShape(batch[r])'
  <2>1. CASE Fetched(r)
    BY <2>1, FetchedStays DEF StatsInv
  <2>2. CASE ~Fetched(r)
    <3>1. FetchReturns(r)
      BY <1>2, <2>2, FetchEnds
    <3>2. PICK b \in Batches : batch' = [batch EXCEPT ![r] = b]
      BY <3>1 DEF FetchReturns
    <3>. QED
      BY <3>2, IngestionAssumption DEF TypeOK
  <2>. QED
    BY <2>1, <2>2
<1>. QED
  BY <1>1, <1>2 DEF StatsInv

\* The arithmetic of the numbers of one run.
LEMMA StatsOfRun ==
  ASSUME TypeOK, StatsInv, NEW r \in runs
  PROVE  LET st == Stats(r) IN
         /\ limit[r] = 0 /\ RunStatus(r) # "FAILED" =>
              st.received = st.accepted + st.rejected + st.duplicates
         /\ st.accepted + st.rejected + st.duplicates <= st.received
<1>. DEFINE records == batch[r].records
            errors  == batch[r].errors
            firsts  == Cardinality(FirstOccurrences(records))
            rejects == CountOfScope(errors, "RECORD")
            kept    == Cardinality(Persisted(r))
<1>1. /\ records \in Seq(Ids) /\ errors \in Seq(Errors) /\ AdapterShape(batch[r])
      /\ jobWrite[r] \in {"none", "ok", "failed"}
  BY DEF TypeOK, ParsedBatches, StatsInv
<1>2. Len(records) \in Nat /\ Len(errors) \in Nat
  BY <1>1
<1>3. /\ firsts \in 0..Len(records)
      /\ Cardinality(Unique(r)) \in 0..firsts
      /\ limit[r] = 0 => Cardinality(Unique(r)) = firsts
  BY <1>1, KeptCount DEF Unique
<1>4. /\ kept \in 0..firsts
      /\ limit[r] = 0 /\ RunStatus(r) # "FAILED" => kept = firsts
  <2>1. kept \in 0..firsts
    BY <1>2, <1>3, FS_EmptySet DEF Persisted
  <2>2. ASSUME RunStatus(r) # "FAILED" PROVE kept = Cardinality(Unique(r))
    <3>1. ~SourceFailed(batch[r]) /\ jobWrite[r] # "failed"
      BY <2>2 DEF RunStatus, RunOutcome
    <3>2. jobWrite[r] = "ok" \/ Unique(r) = {}
      BY <1>1, <3>1 DEF StatsInv, Given, TypeOK
    <3>. QED
      BY <3>2 DEF Persisted
  <2>. QED
    BY <2>1, <2>2, <1>3
<1>5. /\ Stats(r).received = RawCount(batch[r])
      /\ Stats(r).accepted = kept
      /\ Stats(r).rejected = rejects
      /\ Stats(r).duplicates = Len(records) - firsts
  <2>1. r \in Runs
    BY DEF TypeOK
  <2>2. CountOfScope(AllErrors(r), "RECORD") = rejects
    BY <2>1, RejectionsAreTheFeeds
  <2>. QED
    BY <2>2 DEF Stats, Duplicates
<1>6. RawCount(batch[r]) = Len(records) + rejects
  <2>1. CASE \A i \in DOMAIN errors : errors[i].scope = "RECORD"
    <3>1. RawCount(batch[r]) = Len(records) + Len(errors)
      BY <2>1 DEF RawCount
    <3>2. {i \in DOMAIN errors : errors[i].scope = "RECORD"} = 1..Len(errors)
      BY <1>1, <2>1
    <3>3. Cardinality(1..Len(errors)) = Len(errors)
      BY <1>2, Positions
    <3>. QED
      BY <3>1, <3>2, <3>3 DEF CountOfScope
  <2>2. CASE records = <<>> /\ Len(errors) = 1 /\ errors[1].scope # "RECORD"
    <3>1. DOMAIN errors = {1}
      BY <1>1, <2>2
    <3>2. RawCount(batch[r]) = 0
      BY <2>2, <3>1 DEF RawCount
    <3>3. {i \in DOMAIN errors : errors[i].scope = "RECORD"} = {}
      BY <2>2, <3>1
    <3>4. rejects = 0 /\ Len(records) = 0
      BY <2>2, <3>3, FS_EmptySet DEF CountOfScope
    <3>. QED
      BY <3>2, <3>4
  <2>. QED
    BY <1>1, <2>1, <2>2 DEF AdapterShape
<1>7. rejects \in Nat
  <2>1. {i \in DOMAIN errors : errors[i].scope = "RECORD"} \in SUBSET (1..Len(errors))
    BY <1>1
  <2>. QED
    BY <1>2, <2>1, Positions, FS_Subset, FS_CardinalityType DEF CountOfScope
<1>. HIDE DEF records, firsts, rejects, kept
<1>. QED
  BY <1>2, <1>3, <1>4, <1>5, <1>6, <1>7

\* Every item a stored run received is accounted for: accepted, rejected or a duplicate, and
\* dropped only by a limit or a failed write; for any feed and any interleaving.
THEOREM StatsAlwaysAddUp == Spec => []StatsAddUp
<1>1. Init => StatsInv
  BY DEF Init, StatsInv, Fetched
<1>2. TypeOK /\ StoreInv /\ StatsInv /\ [Next]_vars => StatsInv'
  BY StatsInvStep
<1>3. TypeOK /\ StatsInv => StatsAddUp
  BY StatsOfRun DEF StatsAddUp
<1>. QED
  BY <1>1, <1>2, <1>3, TypeCorrect, StoreInvariant, PTL DEF Spec
=============================================================================
