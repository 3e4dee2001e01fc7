------------------------------ MODULE BatchOps ------------------------------
(***************************************************************************)
(* What a source adapter hands to the orchestrator (ParsedBatch) and the   *)
(* decisions the orchestrator takes about it before it writes anything:    *)
(* whether the source failed, which records are kept, and the numbers that *)
(* go into IngestionStats.  Constant level.                                *)
(*                                                                         *)
(* A record is its canonical id.  An error is its type and its scope.      *)
(***************************************************************************)
EXTENDS Naturals, Sequences, FiniteSets

ErrorTypes ==
  {"VALIDATION_ERROR", "RATE_LIMIT_ERROR", "NETWORK_TRANSPORT_ERROR",
   "TIMEOUT_ERROR", "SOURCE_SERVER_ERROR", "MALFORMED_RESPONSE_ERROR",
   "INVALID_RECORD_ERROR", "PERSISTENCE_ERROR", "INTERNAL_ERROR"}

Errors == [type : ErrorTypes, scope : {"RUN", "REQUEST", "RECORD"}]

ParsedBatches(ids) == [records : Seq(ids), errors : Seq(Errors)]

(***************************************************************************)
(* The shapes the WWR adapter returns: one feed-level error (of the run or *)
(* of a request) and no record, or the parsed feed, whose errors are all   *)
(* about single records.                                                   *)
(***************************************************************************)
AdapterShape(batch) ==
  \/ batch.records = <<>> /\ Len(batch.errors) = 1 /\ batch.errors[1].scope # "RECORD"
  \/ \A i \in DOMAIN batch.errors : batch.errors[i].scope = "RECORD"

\* raw_count: the feed's items; each one became a record or an error.
RawCount(batch) ==
  IF \E i \in DOMAIN batch.errors : batch.errors[i].scope # "RECORD" THEN 0
  ELSE Len(batch.records) + Len(batch.errors)

\* The feed could not be fetched or parsed, or nothing in it was usable.
SourceFailed(batch) ==
  \/ \E i \in DOMAIN batch.errors : batch.errors[i].scope = "RUN"
  \/ batch.records = <<>> /\ batch.errors # <<>>

CountOfScope(errors, scope) ==
  Cardinality({i \in DOMAIN errors : errors[i].scope = scope})

-----------------------------------------------------------------------------
(* De-duplication inside a batch: the first record of each canonical id    *)
(* survives, and of those the first limit ones (0 stands for no limit).    *)

FirstOccurrences(records) ==
  {i \in DOMAIN records : \A j \in 1..(i - 1) : records[j] # records[i]}

\* Where unique_records stand in the batch.
KeptAt(records, limit) ==
  LET firsts  == FirstOccurrences(records)
      rank(i) == Cardinality({j \in firsts : j <= i})
  IN  {i \in firsts : limit = 0 \/ rank(i) <= limit}

\* The ids the orchestrator tries to store.
Kept(records, limit) == {records[i] : i \in KeptAt(records, limit)}

Duplicates(records) == Len(records) - Cardinality(FirstOccurrences(records))
=============================================================================
