------------------------------ MODULE JobRows ------------------------------
(***************************************************************************)
(* storage/mapping.py for jobs: a record to a row of the table and back.   *)
(* Constant level.  salary, requirements and metadata, which the feed      *)
(* either lacks or only copies, are left out of records and rows alike.    *)
(***************************************************************************)
EXTENDS FeedParser

Statuses == {"active", "expired", "archived", "unknown"}

FormatDatetime(dt) == Utc(dt.clock, IF dt.zone = Absent THEN 0 ELSE dt.zone)

job_to_row(job) ==
  [job EXCEPT !.published_at = FormatDatetime(@), !.ingested_at = FormatDatetime(@)]

\* A TIMESTAMPTZ is an instant; a query shows it in the zone of its session.
InZone(dt, zone) == [clock |-> dt.clock - dt.zone + zone, zone |-> zone]

Selected(row, zone) ==
  [row EXCEPT !.published_at = InZone(@, zone), !.ingested_at = InZone(@, zone)]

\* Mutant: the zone is overwritten and not converted.
ParseDatetimeAsIs(dt) == [dt EXCEPT !.zone = 0]

ParseDatetime(dt) == Utc(dt.clock, IF dt.zone = Absent THEN 0 ELSE dt.zone)

\* What the enumerations do not know becomes unknown, or active.
row_to_job(row) ==
  [row EXCEPT !.published_at = ParseDatetime(@), !.ingested_at = ParseDatetime(@),
              !.employment_type = IF @ \in EmploymentTypes THEN @ ELSE "unknown",
              !.status = IF @ \in Statuses THEN @ ELSE "active"]
=============================================================================
