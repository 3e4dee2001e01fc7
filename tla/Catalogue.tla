----------------------------- MODULE Catalogue -----------------------------
(***************************************************************************)
(* The jobs table: ingestion runs fill it from what the source publishes,  *)
(* and a reader walks through it page by page while they do.               *)
(*                                                                         *)
(* A run is reduced to its two steps that matter here: the parsed feed,    *)
(* and the upsert of its first records, one of each id, which may be lost. *)
(* Module Ingestion has the rest of a run; here its records have contents. *)
(* The reader is the jobs view's Next button, or any client of the list    *)
(* route that goes on while pages are full.                                *)
(***************************************************************************)
EXTENDS JobRows

CONSTANTS
  Documents,    \* what the source may serve: [form, items]
  Runs,
  Limits,       \* the limits a request may ask for; 0 stands for none
  PageSize,
  Zones         \* the zones a database session may show instants in

ASSUME CatalogueAssumption ==
  /\ IsFiniteSet(Runs)
  /\ Limits \subseteq Nat
  /\ PageSize \in Nat \ {0}
  /\ Zones \subseteq Int /\ Zones # {}
  /\ Documents \subseteq AllFeeds

VARIABLES
  now,          \* the number of feeds parsed
  stage,        \* of each run: idle, saving while its upsert is under way, over
  batch,        \* what each run parsed, Absent while it is idle
  source,       \* history: the document it parsed that from
  store,        \* canonical id -> row
  walk          \* the reader, with a history of what it must not miss

runVars == <<now, stage, batch, source>>
vars == <<runVars, store, walk>>

-----------------------------------------------------------------------------
(* The upsert.                                                             *)

CanonicalIds(b) == [i \in DOMAIN b.records |-> b.records[i].canonical_id]

\* unique_records, as the rows they become.
Rows(b, limit) ==
  LET kept == KeptAt(CanonicalIds(b), limit) IN
  [id \in {b.records[i].canonical_id : i \in kept} |->
     job_to_row(b.records[CHOOSE i \in kept : b.records[i].canonical_id = id])]

\* Each row as a whole: whatever it held before is replaced.
Upsert(rows) ==
  [id \in DOMAIN rows \cup DOMAIN store |->
     IF id \in DOMAIN rows THEN rows[id] ELSE store[id]]

-----------------------------------------------------------------------------
(* The reads.                                                              *)

\* Mutant: what was ingested last comes first.
NewerByIngestion(row, other) == row.ingested_at.clock > other.ingested_at.clock

Newer(row, other) == row.published_at.clock > other.published_at.clock

\* The orders a query may return the rows in: nothing orders rows of one date.
NewestFirst(s) ==
  {order \in SetToSeqs(DOMAIN s) :
     \A i, j \in DOMAIN order : Newer(s[order[i]], s[order[j]]) => i < j}

\* limit and offset
Page(order, offset) ==
  SubSeq(order, offset + 1,
         IF offset + PageSize <= Len(order) THEN offset + PageSize ELSE Len(order))

Pages(s, offset) == {Page(order, offset) : order \in NewestFirst(s)}

\* A job as the API serves it, read by a session in the given zone.
get_job(id, zone) == row_to_job(Selected(store[id], zone))

\* The rows whose date another row has too: their place in a list is not determined.
Tied(s) ==
  {id \in DOMAIN s :
     \E other \in DOMAIN s \ {id} : s[id].published_at = s[other].published_at}

NoWalk == [state |-> "idle", offset |-> 0, seen |-> {}, start |-> {}, unsteady |-> {},
           backdated |-> FALSE]

\* What the change of the table to s means for a walk under way.
Disturbed(w, s) ==
  [w EXCEPT
     !.unsteady = @ \cup Tied(s) \cup
                  {id \in DOMAIN store : s[id].published_at # store[id].published_at},
     !.backdated = @ \/ \E id \in DOMAIN store :
                          s[id].published_at.clock < store[id].published_at.clock]

-----------------------------------------------------------------------------
Init ==
  /\ now = 0 /\ stage = [r \in Runs |-> "idle"]
  /\ batch = [r \in Runs |-> Absent] /\ source = [r \in Runs |-> Absent]
  /\ store = <<>>
  /\ walk = NoWalk

\* A run parses what the source serves; a source that failed, or is empty, has no upsert.
Parse(r) ==
  /\ stage[r] = "idle"
  /\ now' = now + 1
  /\ \E document \in Documents :
       LET b == parse_feed(document, now') IN
       /\ batch' = [batch EXCEPT ![r] = b]
       /\ source' = [source EXCEPT ![r] = document]
       /\ stage' = [stage EXCEPT
            ![r] = IF SourceFailed(b) \/ b.records = <<>> THEN "over" ELSE "saving"]
  /\ UNCHANGED <<store, walk>>

\* The upsert of a run, as far as its request's limit allows, is committed or lost.
Save(r) ==
  /\ stage[r] = "saving"
  /\ stage' = [stage EXCEPT ![r] = "over"]
  /\ \/ /\ \E limit \in Limits : store' = Upsert(Rows(batch[r], limit))
        /\ walk' = IF walk.state = "reading" THEN Disturbed(walk, store') ELSE walk
     \/ UNCHANGED <<store, walk>>
  /\ UNCHANGED <<now, batch, source>>

\* A reader opens the list; it has to find what is stored now.
OpenList ==
  /\ walk.state # "reading"
  /\ walk' = [NoWalk EXCEPT !.state = "reading", !.start = DOMAIN store,
                            !.unsteady = Tied(store)]
  /\ UNCHANGED <<runVars, store>>

\* The list route answers with a page: a full one is followed by the next.
ReadPage ==
  /\ walk.state = "reading"
  /\ \E page \in Pages(store, walk.offset) :
       walk' = [walk EXCEPT !.seen = @ \cup ToSet(page),
                            !.offset = @ + PageSize,
                            !.state = IF Len(page) = PageSize THEN "reading" ELSE "over"]
  /\ UNCHANGED <<runVars, store>>

\* The query fails: the answer is an empty page, with which the walk ends.
ReadFails ==
  /\ walk.state = "reading"
  /\ walk' = [walk EXCEPT !.state = "cut"]
  /\ UNCHANGED <<runVars, store>>

Next == OpenList \/ ReadPage \/ ReadFails \/ \E r \in Runs : Parse(r) \/ Save(r)

Spec == Init /\ [][Next]_vars

-----------------------------------------------------------------------------
(* Correctness.                                                            *)

Instants == [clock : Int, zone : {0}]

TypeOK ==
  /\ now \in Nat
  /\ stage \in [Runs -> {"idle", "saving", "over"}]
  /\ \A id \in DOMAIN store :
       /\ store[id].canonical_id = id
       /\ store[id].employment_type \in EmploymentTypes
       /\ store[id].published_at \in Instants /\ store[id].ingested_at \in Instants
  /\ walk.state \in {"idle", "reading", "over", "cut"}
  /\ walk.start \cup walk.unsteady \cup walk.seen \subseteq DOMAIN store

(***************************************************************************)
(* Every parsed document gives the orchestrator a batch of the shape it    *)
(* relies on, in which each item of a feed is a record or one rejection:   *)
(* a bad item never hides its siblings.                                    *)
(***************************************************************************)
EveryItemIsCounted ==
  \A r \in Runs : stage[r] # "idle" =>
    /\ AdapterShape(batch[r])
    /\ source[r].form = "rss" => RawCount(batch[r]) = Len(source[r].items)
    /\ source[r].form # "rss" => SourceFailed(batch[r])

(***************************************************************************)
(* What the API serves is a record as a run parsed it, with the same       *)
(* instants, in whatever zone the database session shows them.             *)
(***************************************************************************)
ServedAsParsed ==
  \A id \in DOMAIN store, zone \in Zones :
    \E r \in Runs : stage[r] # "idle" /\ get_job(id, zone) \in Range(batch[r].records)

(***************************************************************************)
(* A reader that came to the end of the list has seen every job that was   *)
(* there when it began and kept a place of its own, whatever was ingested  *)
(* meanwhile; unless a job it had passed was given an earlier date.        *)
(***************************************************************************)
WalkMissesNothing ==
  walk.state = "over" /\ ~walk.backdated => walk.start \ walk.unsteady \subseteq walk.seen

-----------------------------------------------------------------------------
(* The table as a board of postings.                                       *)

\* How an item or a row names its posting.
Name(x) == [source_id |-> x.source_id, source_url |-> x.source_url]

\* What it says of it.
Edition(job) ==
  [company |-> job.company, title |-> job.title, location |-> job.location,
   description |-> job.description, employment_type |-> job.employment_type,
   published_at |-> job.published_at]

\* The items of a document that are usable when each is alone in a feed.
UsableAlone(document) ==
  IF document.form # "rss" THEN <<>>
  ELSE LET alone ==
             [i \in DOMAIN document.items |->
                parse_feed([form |-> "rss", items |-> <<document.items[i]>>], 0).records]
           usable == Pick(alone, {i \in DOMAIN alone : alone[i] # <<>>})
       IN  [k \in DOMAIN usable |-> usable[k][1]]

Names ==
  {Name(job) : job \in UNION {Range(UsableAlone(document)) : document \in Documents}}

\* A posting is all the names it goes by.
Postings == {{other \in Names : SamePosting(name, other)} : name \in Names}
PostingOf(x) == CHOOSE p \in Postings : Name(x) \in p

FeedsPublished ==
  {LET jobs == UsableAlone(document) IN
   [i \in DOMAIN jobs |-> [posting |-> PostingOf(jobs[i]), edition |-> Edition(jobs[i])]]
     : document \in Documents}

Board ==
  [p \in Postings |->
     {Edition(store[id]) : id \in {i \in DOMAIN store : Name(store[i]) \in p}}]

JB == INSTANCE JobBoard WITH Feeds <- FeedsPublished, board <- Board

(***************************************************************************)
(* The canonical id makes the table a board: one row for each posting,     *)
(* however it is spelled, no two postings in one row, the postings of a    *)
(* feed taken over at once up to the limit, each with its first edition    *)
(* and without regard to the items that are broken.                        *)
(***************************************************************************)
ImplementsBoard == JB!Spec

-----------------------------------------------------------------------------
(***************************************************************************)
(* ARCHITECTURE.md: an upsert updates existing jobs, "updating ingested_at *)
(* while preserving original published_at".  The whole row is replaced.    *)
(***************************************************************************)
PublishedAtPreserved ==
  [][\A id \in DOMAIN store : store'[id].published_at = store[id].published_at]_vars
=============================================================================
