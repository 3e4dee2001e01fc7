------------------------------ MODULE Ingestion ------------------------------
(***************************************************************************)
(* IngestionService.ingest as the event loop runs it: several calls (runs) *)
(* share the four repositories, and each call can be overtaken, fail or be *)
(* cancelled at every await.  A step of a run is the code between two      *)
(* awaits; it ends by issuing the next storage call.  The repositories are *)
(* those of PostgresStorage: a call goes to a worker thread, takes effect  *)
(* in the database at some moment, and the run goes on with its answer.  A *)
(* call that failed, or whose task was cancelled, may not have taken       *)
(* effect, may have, or may still do so later.  (InMemoryStorage never     *)
(* suspends: its behaviours are those in which a run goes from its fetch   *)
(* to its end without interruption.)                                       *)
(***************************************************************************)
EXTENDS BatchOps, HealthTransition

CONSTANTS
  Runs,         \* the calls of ingest()
  Ids,          \* canonical ids of job records
  Batches,      \* what fetch_and_parse may return
  Limits,       \* request.limit, 0 for none
  MaxTime,      \* bound of the wall clock
  Overlap,      \* may a call start while another one is running?
  Faulty,       \* the storage operations that may fail
  LateWrites,   \* the writes that may be carried out after they failed, by a timeout
  Cancels,      \* may a call's task be cancelled?
  ClockSlips    \* may the wall clock be set back?

Operations == {"jobs", "run", "snapshot", "readHealth", "health"}

\* The write a run waits for at each place.
Writes ==
  {<<"savingJobs", "jobs">>, <<"savingRun", "run">>, <<"savingSnapshot", "snapshot">>,
   <<"savingHealth", "health">>}

WriteOperations == {w[2] : w \in Writes}

Snapshots == [run : Runs, ids : SUBSET Ids, at : Nat]

ASSUME IngestionAssumption ==
  /\ None \notin Runs /\ None \notin Snapshots /\ IsFiniteSet(Runs)
  /\ Batches \subseteq ParsedBatches(Ids)
  /\ \A b \in Batches : AdapterShape(b)
  /\ Limits \subseteq Nat
  /\ MaxTime \in Nat
  /\ Faulty \subseteq Operations /\ LateWrites \subseteq WriteOperations
  /\ {Overlap, Cancels, ClockSlips} \subseteq BOOLEAN

VARIABLES
  now,          \* datetime.now(timezone.utc)
  \* local to each run
  pc,           \* the await the run is at
  cancelled,    \* the task was cancelled there
  limit, startedAt, completedAt, batch,
  jobWrite,     \* what save_jobs answered: none, ok, failed
  prevHealth,   \* what get_health answered
  \* the repositories
  jobs,         \* canonical id -> the run whose record is stored, or None
  runs,         \* the runs whose telemetry is stored
  snapshot, health,
  late          \* the writes of each run that are still under way behind its back

localVars == <<pc, cancelled, limit, startedAt, completedAt, batch, jobWrite,
               prevHealth>>
repositories == <<jobs, runs, snapshot, health>>
storeVars == <<repositories, late>>
vars == <<now, localVars, storeVars>>

-----------------------------------------------------------------------------
(* What a run computes from its local state.                               *)

Unique(r) == Kept(batch[r].records, limit[r])

\* Mutant: the write's verdict is ignored.
RunOutcomeIgnoringWrite(r) ==
  CASE SourceFailed(batch[r])       -> "sourceFailed"
    [] ~SourceFailed(batch[r]) /\ batch[r].errors # <<>> -> "partial"
    [] OTHER                        -> "success"

RunOutcome(r) ==
  CASE SourceFailed(batch[r])      -> "sourceFailed"
    [] ~SourceFailed(batch[r]) /\ jobWrite[r] = "failed" -> "persistFailed"
    [] ~SourceFailed(batch[r]) /\ jobWrite[r] # "failed" /\ batch[r].errors # <<>>
                                   -> "partial"
    [] OTHER                       -> "success"

RunStatus(r) ==
  CASE RunOutcome(r) \in {"sourceFailed", "persistFailed"} -> "FAILED"
    [] RunOutcome(r) = "partial" -> "PARTIAL_SUCCESS"
    [] RunOutcome(r) = "success" -> "SUCCESS"

\* persisted_jobs
Persisted(r) == IF jobWrite[r] = "ok" THEN Unique(r) ELSE {}

PersistenceError == [type |-> "PERSISTENCE_ERROR", scope |-> "RUN"]

\* all_errors: the adapter's errors, then those of the write.
AllErrors(r) ==
  IF jobWrite[r] = "failed" THEN Append(batch[r].errors, PersistenceError)
  ELSE batch[r].errors

\* Mutant: every error counts as a rejected record.
StatsRejectsAll(r) ==
  [received |-> RawCount(batch[r]), accepted |-> Cardinality(Persisted(r)),
   rejected |-> Len(AllErrors(r)), duplicates |-> Duplicates(batch[r].records)]

\* IngestionStats; retries and failed_requests are written as the constant 0.
Stats(r) ==
  [received |-> RawCount(batch[r]), accepted |-> Cardinality(Persisted(r)),
   rejected |-> CountOfScope(AllErrors(r), "RECORD"),
   duplicates |-> Duplicates(batch[r].records)]

\* Mutant: the snapshot lists what the feed had, not what was stored.
SnapshotOfFeed(r) ==
  [run |-> r, ids |-> {batch[r].records[i] : i \in DOMAIN batch[r].records},
   at |-> completedAt[r]]

\* Mutant: the snapshot lost the id of its run, because its telemetry was not stored.
SnapshotWithoutRun(r) ==
  [run |-> IF r \in runs THEN r ELSE None, ids |-> Persisted(r), at |-> completedAt[r]]

SnapshotOf(r) == [run |-> r, ids |-> Persisted(r), at |-> completedAt[r]]

\* trigger_ingestion: the HTTP status the caller gets for the result.
BadGatewayTypes ==
  {"TIMEOUT_ERROR", "RATE_LIMIT_ERROR", "NETWORK_TRANSPORT_ERROR",
   "SOURCE_SERVER_ERROR", "MALFORMED_RESPONSE_ERROR"}

FailureStatus(type) ==
  CASE type = "VALIDATION_ERROR" -> 400
    [] type \in BadGatewayTypes -> 502
    [] OTHER                     -> 500

HttpStatus(r) ==
  CASE pc[r] = "rejected" -> FailureStatus("VALIDATION_ERROR")
    [] pc[r] = "done" /\ RunStatus(r) # "FAILED" -> 200
    [] pc[r] = "done" /\ RunStatus(r) = "FAILED" -> FailureStatus(AllErrors(r)[1].type)
    [] OTHER -> 500

-----------------------------------------------------------------------------
\* fetch_and_parse returned: the run's batch and completed_at are set.
Fetched(r) == pc[r] \notin {"idle", "rejected", "raisedEarly", "fetching"}
Ended(r) == cancelled[r] \/ pc[r] \in {"done", "raised", "raisedEarly", "rejected"}
Active(r) == pc[r] # "idle" /\ ~Ended(r)

Init ==
  /\ now = 0
  /\ pc = [r \in Runs |-> "idle"]
  /\ cancelled = [r \in Runs |-> FALSE]
  /\ limit = [r \in Runs |-> 0]
  /\ startedAt = [r \in Runs |-> 0]
  /\ completedAt = [r \in Runs |-> 0]
  /\ batch = [r \in Runs |-> [records |-> <<>>, errors |-> <<>>]]
  /\ jobWrite = [r \in Runs |-> "none"]
  /\ prevHealth = [r \in Runs |-> None]
  /\ jobs = [id \in Ids |-> None]
  /\ runs = {}
  /\ snapshot = None
  /\ health = None
  /\ late = [r \in Runs |-> {}]

\* The run executes: it is at the await named where, and its task is alive.
At(r, where) == pc[r] = where /\ ~cancelled[r]
Goto(r, where) == pc' = [pc EXCEPT ![r] = where]

(***************************************************************************)
(* The effect of each storage call: an upsert of the whole batch, an       *)
(* insert, two upserts keyed by the source.                                *)
(***************************************************************************)

\* Mutant: a job that is already there is left as it is.
StoreJobsInsertOnly(r) ==
  /\ jobs' = [id \in Ids |-> IF id \in Unique(r) /\ jobs[id] = None THEN r ELSE jobs[id]]
  /\ UNCHANGED <<runs, snapshot, health>>

StoreJobs(r) ==
  /\ jobs' = [id \in Ids |-> IF id \in Unique(r) THEN r ELSE jobs[id]]
  /\ UNCHANGED <<runs, snapshot, health>>

StoreRun(r) == runs' = runs \cup {r} /\ UNCHANGED <<jobs, snapshot, health>>

StoreSnapshot(r) == snapshot' = SnapshotOf(r) /\ UNCHANGED <<jobs, runs, health>>

StoreHealth(r) ==
  /\ health' = NextHealth(prevHealth[r], RunOutcome(r), completedAt[r])
  /\ UNCHANGED <<jobs, runs, snapshot>>

Store(r, operation) ==
  \/ operation = "jobs"     /\ StoreJobs(r)
  \/ operation = "run"      /\ StoreRun(r)
  \/ operation = "snapshot" /\ StoreSnapshot(r)
  \/ operation = "health"   /\ StoreHealth(r)

\* The call fails: it never reaches the database, has been carried out, or still will be.
Fail(r, operation) ==
  /\ operation \in Faulty
  /\ \/ UNCHANGED storeVars
     \/ Store(r, operation) /\ UNCHANGED late
     \/ /\ operation \in LateWrites
        /\ late' = [late EXCEPT ![r] = @ \cup {operation}]
        /\ UNCHANGED repositories

\* A write whose failure the run does not look at is over.
Write(r, operation) == (Store(r, operation) /\ UNCHANGED late) \/ Fail(r, operation)

-----------------------------------------------------------------------------
\* ingest() is called for a registered source: read the clock, start the fetch.
Start(r) ==
  /\ pc[r] = "idle"
  /\ Overlap \/ \A s \in Runs : ~Active(s)
  /\ \E l \in Limits : limit' = [limit EXCEPT ![r] = l]
  /\ startedAt' = [startedAt EXCEPT ![r] = now]
  /\ Goto(r, "fetching")
  /\ UNCHANGED <<now, cancelled, completedAt, batch, jobWrite, prevHealth, storeVars>>

\* ingest() is called for a source nobody registered: nothing is written, and the two
\* readings of the clock still have to be in order.
RejectSource(r) ==
  /\ pc[r] = "idle"
  /\ \E t \in IF ClockSlips THEN 0..now ELSE {now} :
       /\ now' = t
       /\ Goto(r, IF t < now THEN "raisedEarly" ELSE "rejected")
  /\ UNCHANGED <<cancelled, limit, startedAt, completedAt, batch, jobWrite,
                 prevHealth, storeVars>>

(***************************************************************************)
(* Build the statistics and issue the telemetry write.  IngestionStats     *)
(* refuses a completed_at before started_at: the run dies there, after its *)
(* jobs were written.                                                      *)
(***************************************************************************)
ToTelemetry(r, completed) ==
  Goto(r, IF completed < startedAt[r] THEN "raised" ELSE "savingRun")

\* The wall clock when the fetch ends: later than the last reading, unless set back.
ClockReadings == (IF ClockSlips THEN 0..(now + 1) ELSE {now + 1}) \cap 0..MaxTime

\* fetch_and_parse returns: evaluate, de-duplicate, and write the jobs if there are any.
FetchReturns(r) ==
  /\ At(r, "fetching")
  /\ \E b \in Batches, t \in ClockReadings :
       /\ now' = t
       /\ batch' = [batch EXCEPT ![r] = b]
       /\ completedAt' = [completedAt EXCEPT ![r] = t]
       /\ IF Kept(b.records, limit[r]) # {} /\ ~SourceFailed(b)
          THEN Goto(r, "savingJobs")
          ELSE ToTelemetry(r, t)
  /\ UNCHANGED <<cancelled, limit, startedAt, jobWrite, prevHealth, storeVars>>

\* save_jobs answers that the batch is stored.
JobsSaved(r) ==
  /\ At(r, "savingJobs")
  /\ StoreJobs(r) /\ UNCHANGED late
  /\ jobWrite' = [jobWrite EXCEPT ![r] = "ok"]
  /\ ToTelemetry(r, completedAt[r])
  /\ UNCHANGED <<now, cancelled, limit, startedAt, completedAt, batch, prevHealth>>

\* save_jobs answers with an error.
JobsSaveFails(r) ==
  /\ At(r, "savingJobs")
  /\ Fail(r, "jobs")
  /\ jobWrite' = [jobWrite EXCEPT ![r] = "failed"]
  /\ ToTelemetry(r, completedAt[r])
  /\ UNCHANGED <<now, cancelled, limit, startedAt, completedAt, batch, prevHealth>>

\* Mutant: a snapshot is taken whatever the run found.
TakesSnapshotAlways(r) == TRUE

\* Only a run that stored something becomes the last known good.
TakesSnapshot(r) ==
  RunStatus(r) \in {"SUCCESS", "PARTIAL_SUCCESS"} /\ Persisted(r) # {}

\* The telemetry write is over, stored or not: its failure is swallowed.
TelemetrySaved(r) ==
  /\ At(r, "savingRun")
  /\ Write(r, "run")
  /\ Goto(r, IF TakesSnapshot(r) THEN "savingSnapshot" ELSE "readingHealth")
  /\ UNCHANGED <<now, cancelled, limit, startedAt, completedAt, batch, jobWrite,
                 prevHealth>>

SnapshotSaved(r) ==
  /\ At(r, "savingSnapshot")
  /\ Write(r, "snapshot")
  /\ Goto(r, "readingHealth")
  /\ UNCHANGED <<now, cancelled, limit, startedAt, completedAt, batch, jobWrite,
                 prevHealth>>

\* Mutant: the answer of get_health is not used.
HealthReadDropped(r) ==
  /\ At(r, "readingHealth")
  /\ Goto(r, "savingHealth")
  /\ UNCHANGED <<now, cancelled, limit, startedAt, completedAt, batch, jobWrite,
                 prevHealth, storeVars>>

\* get_health answers; a failure reads as "no record".
HealthRead(r) ==
  /\ At(r, "readingHealth")
  /\ \/ prevHealth' = [prevHealth EXCEPT ![r] = health]
     \/ "readHealth" \in Faulty /\ prevHealth' = [prevHealth EXCEPT ![r] = None]
  /\ Goto(r, "savingHealth")
  /\ UNCHANGED <<now, cancelled, limit, startedAt, completedAt, batch, jobWrite, storeVars>>

\* The health write is over, stored or not, and ingest() returns its result.
HealthSaved(r) ==
  /\ At(r, "savingHealth")
  /\ Write(r, "health")
  /\ Goto(r, "done")
  /\ UNCHANGED <<now, cancelled, limit, startedAt, completedAt, batch, jobWrite,
                 prevHealth>>

\* The task is cancelled at its await: nothing after it is executed, but the worker thread
\* of a write finishes it.
Cancel(r) ==
  /\ Cancels /\ Active(r)
  /\ cancelled' = [cancelled EXCEPT ![r] = TRUE]
  /\ late' = [late EXCEPT ![r] = @ \cup {w \in WriteOperations : <<pc[r], w>> \in Writes}]
  /\ UNCHANGED <<now, pc, limit, startedAt, completedAt, batch, jobWrite, prevHealth,
                 repositories>>

\* A write under way behind the run's back takes effect, at whatever place the run is.
LandLate(r) ==
  \E operation \in late[r] :
    /\ Store(r, operation)
    /\ late' = [late EXCEPT ![r] = @ \ {operation}]
    /\ UNCHANGED <<now, localVars>>

RunStep(r) ==
  \/ FetchReturns(r) \/ JobsSaved(r) \/ JobsSaveFails(r) \/ TelemetrySaved(r)
  \/ SnapshotSaved(r) \/ HealthRead(r) \/ HealthSaved(r)

Next ==
  \E r \in Runs :
    Start(r) \/ RejectSource(r) \/ RunStep(r) \/ Cancel(r) \/ LandLate(r)

Spec == Init /\ [][Next]_vars

-----------------------------------------------------------------------------
(* Correctness.                                                            *)

Places ==
  {"idle", "fetching", "savingJobs", "savingRun", "savingSnapshot", "readingHealth",
   "savingHealth", "done", "raised", "raisedEarly", "rejected"}

TypeOK ==
  /\ now \in 0..MaxTime
  /\ pc \in [Runs -> Places]
  /\ cancelled \in [Runs -> BOOLEAN]
  /\ limit \in [Runs -> Nat]
  /\ startedAt \in [Runs -> 0..MaxTime]
  /\ completedAt \in [Runs -> 0..MaxTime]
  /\ batch \in [Runs -> ParsedBatches(Ids)]
  /\ jobWrite \in [Runs -> {"none", "ok", "failed"}]
  /\ prevHealth \in [Runs -> HealthRecords \cup {None}]
  /\ jobs \in [Ids -> Runs \cup {None}]
  /\ runs \subseteq Runs
  /\ snapshot \in Snapshots \cup {None}
  /\ health \in HealthRecords \cup {None}
  /\ late \in [Runs -> SUBSET WriteOperations]

(***************************************************************************)
(* The last-known-good snapshot is one: it comes from a run that read the  *)
(* source and stored its jobs, it is not empty, and every id it lists can  *)
(* be served from the job store.  A failed, empty, cancelled or overtaken  *)
(* run never leaves anything else behind ("snapshot freezing").            *)
(***************************************************************************)
SnapshotIsStored ==
  snapshot # None =>
    /\ ~SourceFailed(batch[snapshot.run])
    /\ snapshot.ids # {}
    /\ \A id \in snapshot.ids : jobs[id] # None

(***************************************************************************)
(* An HTTP 200 means that every record the run kept is in the store, with  *)
(* the number the statistics report.                                       *)
(***************************************************************************)
SuccessIsStored ==
  \A r \in Runs :
    HttpStatus(r) = 200 =>
      /\ Stats(r).accepted = Cardinality(Unique(r))
      /\ \A id \in Unique(r) : jobs[id] # None

(***************************************************************************)
(* The failure counter never runs ahead of the outages: it counts distinct *)
(* runs that failed to read the source, so UNREACHABLE takes three of them, *)
(* whatever the interleaving, the lost writes and the cancellations.       *)
(***************************************************************************)
NoPhantomOutage ==
  health # None =>
    /\ health.consecutiveFailures <=
         Cardinality({r \in Runs : Fetched(r) /\ SourceFailed(batch[r])})
    /\ health.status = "UNREACHABLE" => health.consecutiveFailures >= UnreachableAfter

\* The run read the source and nothing it kept failed to be stored.
ReallySucceeded(r) ==
  /\ Fetched(r)
  /\ ~SourceFailed(batch[r])
  /\ jobWrite[r] # "failed"
  /\ \A id \in Unique(r) : jobs[id] # None

(***************************************************************************)
(* last_success_at is the completion time of a run that read the source    *)
(* and stored its jobs: a failed write is never recorded as a success.     *)
(***************************************************************************)
NoPhantomSuccess ==
  health # None /\ health.lastSuccessAt # None =>
    \E r \in Runs : completedAt[r] = health.lastSuccessAt /\ ReallySucceeded(r)

(***************************************************************************)
(* The stored numbers add up: when the jobs were stored and no limit was   *)
(* asked for, every item received was accepted, rejected or a duplicate.   *)
(***************************************************************************)
StatsAddUp ==
  \A r \in runs :
    LET st == Stats(r) IN
    /\ limit[r] = 0 /\ RunStatus(r) # "FAILED" =>
         st.received = st.accepted + st.rejected + st.duplicates
    /\ st.accepted + st.rejected + st.duplicates <= st.received

-----------------------------------------------------------------------------
(* Runs one after another (Overlap = FALSE).                               *)

SH == INSTANCE SourceHealth WITH Times <- 0..MaxTime

(***************************************************************************)
(* The read, the computation and the write of the health record amount to  *)
(* one atomic transition of the health state machine.                      *)
(***************************************************************************)
HealthIsAtomic == SH!Spec

\* The record written agrees with itself, also where overlapping runs overwrite each other's.
HealthConsistent == SH!HealthConsistent

Quiet == \A r \in Runs : pc[r] \in {"idle", "rejected", "done"} /\ ~cancelled[r]

\* The runs that failed to read the source since one last read it.
TrailingFailures ==
  LET done == {r \in Runs : pc[r] = "done"} IN
  {r \in done :
     \A s \in done : completedAt[s] >= completedAt[r] => SourceFailed(batch[s])}

(***************************************************************************)
(* Between runs, consecutive_failures is the number of failed runs since   *)
(* the last one that could read the source (outages 1 and 2: DEGRADED, 3:  *)
(* UNREACHABLE, then back to 0).                                           *)
(***************************************************************************)
CountsTrailingFailures ==
  Quiet => PrevFailures(health) = Cardinality(TrailingFailures)

(***************************************************************************)
(* What a run stored is never replaced by what an earlier run fetched.     *)
(***************************************************************************)
FreshestContent ==
  \A r \in Runs : jobWrite[r] = "ok" =>
    \A id \in Unique(r) :
      jobs[id] # None /\ completedAt[jobs[id]] >= completedAt[r]

-----------------------------------------------------------------------------
(* Inductive invariants.                                                   *)

\* The run is past its job write.
PastJobs(r) ==
  pc[r] \in {"savingRun", "savingSnapshot", "readingHealth", "savingHealth", "done"}

\* Jobs are written only for a source that was read and a batch that is not empty, and
\* before anything else is; a snapshot is only written after them.
OrderInv(r) ==
  /\ ~Fetched(r) => jobWrite[r] = "none"
  /\ pc[r] = "savingJobs" =>
       jobWrite[r] = "none" /\ ~SourceFailed(batch[r]) /\ Unique(r) # {}
  /\ PastJobs(r) /\ ~SourceFailed(batch[r]) /\ Unique(r) # {} => jobWrite[r] # "none"
  /\ jobWrite[r] # "none" => ~SourceFailed(batch[r]) /\ Unique(r) # {}
  /\ pc[r] = "savingSnapshot" => jobWrite[r] = "ok"

\* A positive answer means that the jobs are in the store.
AnswerInv(r) == jobWrite[r] = "ok" => \A id \in Unique(r) : jobs[id] # None

\* A snapshot is what such a run kept, also when it is written late.
LateInv(r) == "snapshot" \in late[r] => jobWrite[r] = "ok"

SnapshotInv ==
  snapshot # None =>
    jobWrite[snapshot.run] = "ok" /\ snapshot.ids = Unique(snapshot.run)

(***************************************************************************)
(* The order in which a run writes, and what its answers and its snapshot  *)
(* say about the job store.                                                *)
(***************************************************************************)
StoreInv == (\A r \in Runs : OrderInv(r) /\ AnswerInv(r) /\ LateInv(r)) /\ SnapshotInv

\* The run's health write is over, or in the hands of a worker thread.
Reported(r) == pc[r] = "done" \/ (pc[r] = "savingHealth" /\ cancelled[r])

\* Where a last_success_at may come from.
SuccessfulReport(r) ==
  /\ Reported(r)
  /\ ~SourceFailed(batch[r])
  /\ jobWrite[r] = "ok" \/ Unique(r) = {}

FailedReports == {r \in Runs : Reported(r) /\ SourceFailed(batch[r])}

\* A health record tells of runs that have reported, and counts only failures of those given.
ReportOnly(record, failures) ==
  record # None =>
    /\ record.consecutiveFailures <= Cardinality(failures)
    /\ record.lastSuccessAt # None =>
         \E r \in Runs : SuccessfulReport(r) /\ completedAt[r] = record.lastSuccessAt

(***************************************************************************)
(* Neither the stored health record, nor the copies in the hands of runs   *)
(* about to overwrite it, count an outage or a success that did not happen; *)
(* and the copy in a run's hands does not count that run's own.            *)
(***************************************************************************)
HealthInv ==
  /\ ReportOnly(health, FailedReports)
  /\ \A r \in Runs :
       /\ ReportOnly(prevHealth[r], FailedReports \ {r})
       /\ "health" \in late[r] => Reported(r)

(***************************************************************************)
(* What makes the health update atomic when runs do not overlap: only one  *)
(* run is active, it holds the record that is stored, and the stored record *)
(* is older than what the run is going to write.                           *)
(***************************************************************************)
SequentialInv ==
  /\ \A r, s \in Runs : Active(r) /\ Active(s) => r = s
  /\ \A r \in Runs : ~cancelled[r] /\ late[r] = {}
  /\ health # None => health.updatedAt <= now
  /\ \A r \in Runs :
       /\ Active(r) /\ Fetched(r) =>
            completedAt[r] = now /\ (health # None => health.updatedAt < now)
       /\ pc[r] = "savingHealth" => prevHealth[r] = health

-----------------------------------------------------------------------------
(* Claims of the documentation, a comment and a test, that the code does   *)
(* not keep.                                                               *)

(***************************************************************************)
(* RESILIENCE_MATRIX row 11: "Outages 1-2 mark DEGRADED, outage 3 marks    *)
(* UNREACHABLE"; test_source_recovery.py: the counter "accurately tracks   *)
(* repeated outages".  Runs that overlap read the same counter.            *)
(***************************************************************************)
OutagesCounted ==
  (\A r \in Runs : pc[r] = "done" /\ SourceFailed(batch[r])) /\
  Cardinality(Runs) >= UnreachableAfter
    => health # None /\ health.status = "UNREACHABLE"

(***************************************************************************)
(* orchestrator.py, on a failed job write: "Preserve prior                 *)
(* last_success_at".  When get_health fails there is no prior record.      *)
(***************************************************************************)
FailedWriteKeepsLastSuccess ==
  [][health # None /\ health' # health
       /\ (\E r \in Runs : pc[r] = "savingHealth" /\ pc'[r] = "done"
                           /\ RunOutcome(r) = "persistFailed")
     => health'.lastSuccessAt = health.lastSuccessAt]_vars
=============================================================================
