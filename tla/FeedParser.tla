----------------------------- MODULE FeedParser -----------------------------
(***************************************************************************)
(* adapters/wwr/parser.py: from the document the source serves to job      *)
(* records and structured errors, with the checks of domain/job.py.        *)
(* Constant level.                                                         *)
(*                                                                         *)
(* An item is what _text finds in its elements, Absent where it finds      *)
(* nothing.  A title is the texts between its ": " separators.  Of the     *)
(* lengths, only which fields hold more than JobRecord admits is kept.     *)
(***************************************************************************)
EXTENDS BatchOps, Identity

CONSTANT ServerZone    \* the time zone of the server, in hours from UTC

ASSUME FeedParserAssumption == ServerZone \in Int

DateForms == {"rfc2822", "variant", "garbage"}

EmploymentTypes ==
  {"full_time", "part_time", "contract", "internship", "freelance", "temporary",
   "other", "unknown"}

\* The vocabulary of <type>.
EmploymentTypeMap ==
  [says \in {"full-time", "part-time", "contract", "freelance", "temporary", "internship"} |->
     CASE says = "full-time" -> "full_time" [] says = "part-time" -> "part_time"
       [] OTHER -> says]

Dates == [form : DateForms, clock : Int, zone : Int \cup {Absent}]

ASSUME DatesAssumption == Absent \notin Int \cup Dates

Items ==
  [title : Seq(Texts(STRING)), guid : Urls \cup {Absent}, link : Urls \cup {Absent},
   pubDate : Dates \cup {Absent}, description : STRING \cup {Absent},
   type : Texts(STRING) \cup {Absent}, region : Texts(STRING) \cup {Absent},
   oversized : SUBSET STRING]

AllFeeds ==
  [form : {"rss", "malformed", "forbidden", "noChannel"}, items : Seq(Items)]

\* An instant, as a reading of a clock in a zone.
Utc(clock, zone) == [clock |-> clock - zone, zone |-> 0]

-----------------------------------------------------------------------------
\* email.utils admits a date without a zone; astimezone then takes it for local time.
ParsePubDate(raw) ==
  IF raw = Absent THEN Absent
  ELSE IF raw.form = "garbage" THEN Absent
  ELSE Utc(raw.clock, IF raw.zone = Absent THEN ServerZone ELSE raw.zone)

\* Mutant: an unknown type is kept as it is.
MapEmploymentTypeVerbatim(raw) == IF raw = Absent THEN "unknown" ELSE raw.says

MapEmploymentType(raw) ==
  IF raw # Absent /\ Lower(raw).says \in DOMAIN EmploymentTypeMap
  THEN EmploymentTypeMap[Lower(raw).says]
  ELSE "unknown"

\* The text before the first separator, and all that follows it.
Company(title) == IF Len(title) < 2 THEN Absent ELSE title[1]
JobTitle(title) == Tail(title)

\* A placeholder stands for a missing description; a long one is cut.
Description(raw) ==
  CASE raw = Absent -> "placeholder" [] raw = "long" -> "cut" [] OTHER -> raw

\* The parser prefers <link>.
SourceUrl(item) == IF item.link # Absent THEN item.link ELSE item.guid

\* The fields that JobRecord is given; ingested_at is the time of its construction.
Fields(item, at) ==
  [canonical_id |->
     generate_canonical_id(item.guid, SourceUrl(item), Company(item.title),
                           JobTitle(item.title)),
   source_id |-> item.guid, source_url |-> SourceUrl(item),
   company |-> Company(item.title), title |-> JobTitle(item.title),
   location |-> IF item.region = Absent THEN "Remote" ELSE item.region,
   description |-> Description(item.description),
   employment_type |-> MapEmploymentType(item.type),
   published_at |-> ParsePubDate(item.pubDate), ingested_at |-> Utc(at, 0),
   status |-> "active"]

\* The validators of JobRecord; a description may be blank once its entities are decoded.
Valid(fields, oversized) ==
  /\ oversized = {}
  /\ fields.source_url.scheme \in {"http", "https"} /\ fields.source_url.host.says # ""
  /\ fields.description # "blank"

\* What _parse_item_inner requires before it builds a record.
Complete(item) ==
  /\ item.title # <<>> /\ SourceUrl(item) # Absent /\ Company(item.title) # Absent
  /\ ParsePubDate(item.pubDate) # Absent

InvalidRecord == [type |-> "INVALID_RECORD_ERROR", scope |-> "RECORD"]

\* _parse_item: a record, or an error about this item alone.
ParseItem(item, at) ==
  IF Complete(item) /\ Valid(Fields(item, at), item.oversized)
  THEN Fields(item, at)
  ELSE InvalidRecord

-----------------------------------------------------------------------------
FeedError(type) == [records |-> <<>>, errors |-> <<[type |-> type, scope |-> "RUN"]>>]

IsError(result) == "scope" \in DOMAIN result

Results(document, at) ==
  [i \in DOMAIN document.items |-> ParseItem(document.items[i], at)]

\* Mutant: the items after a bad one are not looked at.
SplitUpToFirstError(results) ==
  LET bad  == {i \in DOMAIN results : IsError(results[i])}
      good == {i \in DOMAIN results : \A j \in 1..i : j \notin bad}
  IN  [records |-> Pick(results, good), errors |-> Pick(results, bad)]

\* The records and the errors, each in the order of the items.
Split(results) ==
  LET bad == {i \in DOMAIN results : IsError(results[i])} IN
  [records |-> Pick(results, DOMAIN results \ bad), errors |-> Pick(results, bad)]

(***************************************************************************)
(* The document as a whole fails when it is not well-formed, when the      *)
(* parser forbids something in it (an entity), or when it has no channel.  *)
(***************************************************************************)
parse_feed(document, at) ==
  CASE document.form = "malformed" -> FeedError("MALFORMED_RESPONSE_ERROR")
    [] document.form = "forbidden" -> FeedError("INTERNAL_ERROR")
    [] document.form = "noChannel" -> FeedError("MALFORMED_RESPONSE_ERROR")
    [] document.form = "rss"       -> Split(Results(document, at))
=============================================================================
