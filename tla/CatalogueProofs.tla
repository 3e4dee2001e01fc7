-------------------------- MODULE CatalogueProofs --------------------------
(***************************************************************************)
(* Proofs about Catalogue, for any documents, any number of runs, any page *)
(* size and any session zones.                                             *)
(***************************************************************************)
EXTENDS Catalogue, FiniteSetTheorems, SequenceTheorems, WellFoundedInduction, TLAPS

-----------------------------------------------------------------------------
(* Sets of positions, and picking from a sequence.                         *)

Less == {pair \in Nat \X Nat : pair[1] < pair[2]}

\* A set of natural numbers has a least element.
LEMMA LeastElement ==
  ASSUME NEW T \in SUBSET Nat, T # {}
  PROVE  \E x \in T : \A y \in T : x <= y
<1>1. IsWellFoundedOn(Less, Nat)
  BY NatLessThanWellFounded DEF OpToRel, Less
<1>2. PICK x \in T : \A y \in T : ~(<<y, x>> \in Less)
  BY <1>1, WFMin
<1>3. ASSUME NEW y \in T PROVE x <= y
  <2>1. ~(y < x)
    BY <1>2 DEF Less
  <2>. QED
    BY <2>1
<1>. QED
  BY <1>3

\* A sequence has as many positions as it is long.
LEMMA Positions ==
  ASSUME NEW n \in Nat
  PROVE  IsFiniteSet(1..n) /\ Cardinality(1..n) = n
BY FS_Interval

\* The place of a position among some.
Rank(positions, i) == Cardinality({j \in positions : j <= i})

LEMMA RankGrows ==
  ASSUME NEW P \in SUBSET Nat, IsFiniteSet(P), NEW i \in P
  PROVE  /\ Rank(P, i) \in 1..Cardinality(P)
         /\ \A k \in P : i < k => Rank(P, i) < Rank(P, k)
<1>. DEFINE upTo(k) == {j \in P : j <= k}
<1>1. \A k \in P : /\ IsFiniteSet(upTo(k)) /\ Cardinality(upTo(k)) \in Nat
                   /\ Cardinality(upTo(k)) <= Cardinality(P)
  BY FS_Subset, FS_CardinalityType
<1>2. Cardinality(P) \in Nat
  BY FS_CardinalityType
<1>3. Cardinality(upTo(i)) # 0
  <2>1. upTo(i) # {} /\ IsFiniteSet(upTo(i))
    BY <1>1
  <2>. HIDE DEF upTo
  <2>. QED
    BY <2>1, FS_EmptySet
<1>4. ASSUME NEW k \in P, i < k PROVE Cardinality(upTo(i)) < Cardinality(upTo(k))
  <2>1. upTo(i) \in SUBSET upTo(k) /\ k \in upTo(k) /\ k \notin upTo(i)
    <3>1. P \subseteq Nat /\ i \in Nat /\ k \in Nat
      OBVIOUS
    <3>2. \A j \in P : j <= i => j <= k
      BY <1>4, <3>1
    <3>3. ~(k <= i) /\ k <= k
      BY <1>4, <3>1
    <3>. QED
      BY <3>2, <3>3, Zenon
  <2>2. /\ Cardinality(upTo(i)) <= Cardinality(upTo(k))
        /\ Cardinality(upTo(k)) = Cardinality(upTo(i)) => upTo(k) = upTo(i)
    BY <1>1, <2>1, FS_Subset
  <2>. QED
    BY <1>1, <2>1, <2>2
<1>. QED
  BY <1>1, <1>2, <1>3, <1>4 DEF Rank

\* The position at a place.
At(positions, k) == CHOOSE i \in positions : Rank(positions, i) = k

LEMMA AtRank ==
  ASSUME NEW P \in SUBSET Nat, IsFiniteSet(P)
  PROVE  /\ Cardinality(P) \in Nat
         /\ \A k \in 1..Cardinality(P) : At(P, k) \in P /\ Rank(P, At(P, k)) = k
         /\ \A k, l \in 1..Cardinality(P) : k < l => At(P, k) < At(P, l)
         /\ \A i \in P : Rank(P, i) \in 1..Cardinality(P) /\ At(P, Rank(P, i)) = i
<1>. DEFINE f == [i \in P |-> Rank(P, i)]
            n == Cardinality(P)
<1>1. n \in Nat
  BY FS_CardinalityType
<1>2. \A i \in P : Rank(P, i) \in 1..n
  BY RankGrows
<1>3. \A i, k \in P : i < k => Rank(P, i) < Rank(P, k)
  BY RankGrows
<1>4. \A i, k \in P : Rank(P, i) = Rank(P, k) => i = k
  <2>1. \A i, k \in P : i < k \/ k < i \/ i = k
    OBVIOUS
  <2>. QED
    BY <1>1, <1>2, <1>3, <2>1
<1>5. f \in Injection(P, 1..n)
  BY <1>2, <1>4 DEF Injection, IsInjective
<1>6. f \in Surjection(P, 1..n)
  BY <1>1, <1>5, Positions, FS_Injection
<1>7. \A k \in 1..n : \E i \in P : Rank(P, i) = k
  BY <1>6 DEF Surjection
<1>8. \A k \in 1..n : At(P, k) \in P /\ Rank(P, At(P, k)) = k
  BY <1>7 DEF At
<1>9. \A k, l \in 1..n : k < l => At(P, k) < At(P, l)
  <2>1. ASSUME NEW k \in 1..n, NEW l \in 1..n, k < l PROVE At(P, k) < At(P, l)
    <3>1. /\ At(P, k) \in P /\ Rank(P, At(P, k)) = k
          /\ At(P, l) \in P /\ Rank(P, At(P, l)) = l
      BY <1>8
    <3>2. ~(At(P, l) < At(P, k))
      <4>1. At(P, l) < At(P, k) => l < k
        BY <1>3, <3>1
      <4>. QED
        BY <1>1, <2>1, <4>1
    <3>3. At(P, k) # At(P, l)
      BY <1>1, <2>1, <3>1
    <3>4. At(P, k) \in Nat /\ At(P, l) \in Nat
      BY <3>1
    <3>. QED
      BY <3>2, <3>3, <3>4
  <2>. QED
    BY <2>1
<1>10. \A i \in P : At(P, Rank(P, i)) = i
  BY <1>2, <1>4, <1>8
<1>. QED
  BY <1>1, <1>2, <1>8, <1>9, <1>10

\* What is picked are the elements at the positions, in their order, and nothing else.
LEMMA PickElements ==
  ASSUME NEW S, NEW s \in Seq(S), NEW P \in SUBSET (DOMAIN s)
  PROVE  /\ IsFiniteSet(P) /\ P \in SUBSET Nat /\ Cardinality(P) \in Nat
         /\ DOMAIN Pick(s, P) = 1..Cardinality(P)
         /\ Pick(s, P) \in Seq(S)
         /\ Len(Pick(s, P)) = Cardinality(P)
         /\ \A k \in 1..Cardinality(P) : At(P, k) \in P /\ Pick(s, P)[k] = s[At(P, k)]
         /\ Range(Pick(s, P)) = {s[i] : i \in P}
<1>1. DOMAIN s = 1..Len(s) /\ Len(s) \in Nat
  BY LenProperties
<1>2. IsFiniteSet(P) /\ P \in SUBSET Nat
  BY <1>1, Positions, FS_Subset
<1>3. /\ Cardinality(P) \in Nat
      /\ \A k \in 1..Cardinality(P) : At(P, k) \in P
      /\ \A i \in P : Rank(P, i) \in 1..Cardinality(P) /\ At(P, Rank(P, i)) = i
  BY <1>2, AtRank
<1>4. Pick(s, P) = [k \in 1..Cardinality(P) |-> s[At(P, k)]]
  BY DEF Pick, At, Rank
<1>5. \A i \in P : s[i] \in S
  BY <1>1
<1>6. Pick(s, P) \in Seq(S) /\ Len(Pick(s, P)) = Cardinality(P)
  BY <1>3, <1>4, <1>5
<1>7. Range(Pick(s, P)) = {s[i] : i \in P}
  BY <1>3, <1>4 DEF Range
<1>. QED
  BY <1>2, <1>3, <1>4, <1>6, <1>7

CountOf(s, x) == Cardinality({i \in DOMAIN s : s[i] = x})
CountAt(s, positions, x) == Cardinality({i \in positions : s[i] = x})

\* Each element is picked as often as it stands at one of the positions.
LEMMA PickCounts ==
  ASSUME NEW S, NEW s \in Seq(S), NEW P \in SUBSET (DOMAIN s), NEW x
  PROVE  CountOf(Pick(s, P), x) = CountAt(s, P, x)
<1>. DEFINE places == {k \in DOMAIN Pick(s, P) : Pick(s, P)[k] = x}
            found == {i \in P : s[i] = x}
            f == [k \in places |-> At(P, k)]
<1>1. /\ IsFiniteSet(P) /\ P \in SUBSET Nat /\ Cardinality(P) \in Nat
      /\ DOMAIN Pick(s, P) = 1..Cardinality(P)
      /\ \A k \in 1..Cardinality(P) : At(P, k) \in P /\ Pick(s, P)[k] = s[At(P, k)]
  BY PickElements
<1>2. /\ \A k \in 1..Cardinality(P) : Rank(P, At(P, k)) = k
      /\ \A i \in P : Rank(P, i) \in 1..Cardinality(P) /\ At(P, Rank(P, i)) = i
  BY <1>1, AtRank
<1>3. IsFiniteSet(places)
  BY <1>1, Positions, FS_Subset
<1>4. f \in [places -> found]
  BY <1>1
<1>5. f \in Injection(places, found)
  BY <1>1, <1>2, <1>4 DEF Injection, IsInjective
<1>6. f \in Surjection(places, found)
  <2>1. \A i \in found : Rank(P, i) \in places /\ f[Rank(P, i)] = i
    BY <1>1, <1>2
  <2>. QED
    BY <1>4, <2>1 DEF Surjection
<1>. QED
  BY <1>3, <1>5, <1>6, FS_Surjection DEF CountOf, CountAt

-----------------------------------------------------------------------------
(* Parsing.                                                                *)

\* An item that becomes a record.
Usable(item) == Complete(item) /\ Valid(Fields(item, 0), item.oversized)

UsableAt(items) == {i \in DOMAIN items : Usable(items[i])}
RefusedAt(items) == DOMAIN items \ UsableAt(items)

\* An item becomes a record or an error, whatever the time.
LEMMA ParsedItem ==
  ASSUME NEW item, NEW at
  PROVE  /\ Usable(item) => ParseItem(item, at) = Fields(item, at)
         /\ ~Usable(item) => ParseItem(item, at) = InvalidRecord
         /\ IsError(ParseItem(item, at)) <=> ~Usable(item)
<1>1. /\ Fields(item, at).source_url = Fields(item, 0).source_url
      /\ Fields(item, at).description = Fields(item, 0).description
  BY DEF Fields
<1>2. Valid(Fields(item, at), item.oversized) <=> Valid(Fields(item, 0), item.oversized)
  BY <1>1 DEF Valid
<1>3. /\ Usable(item) => ParseItem(item, at) = Fields(item, at)
      /\ ~Usable(item) => ParseItem(item, at) = InvalidRecord
  BY <1>2 DEF ParseItem, Usable
<1>4. ~IsError(Fields(item, at))
  BY DEF IsError, Fields
<1>5. IsError(InvalidRecord)
  BY DEF IsError, InvalidRecord
<1>. QED
  BY <1>3, <1>4, <1>5

\* The records of a feed are its usable items, the errors stand for the others.
LEMMA ParsedFeed ==
  ASSUME NEW document \in AllFeeds, document.form = "rss", NEW at
  PROVE  LET b     == parse_feed(document, at)
             items == document.items
         IN  /\ items \in Seq(Items)
             /\ UsableAt(items) \in SUBSET (DOMAIN items)
             /\ b.records = Pick(Results(document, at), UsableAt(items))
             /\ DOMAIN b.records = 1..Cardinality(UsableAt(items))
             /\ Len(b.records) = Cardinality(UsableAt(items))
             /\ Cardinality(UsableAt(items)) \in Nat
             /\ \A k \in 1..Cardinality(UsableAt(items)) :
                  /\ At(UsableAt(items), k) \in UsableAt(items)
                  /\ b.records[k] = Fields(items[At(UsableAt(items), k)], at)
             /\ Range(b.records) = {Fields(items[i], at) : i \in UsableAt(items)}
             /\ DOMAIN b.errors = 1..Cardinality(RefusedAt(items))
             /\ Len(b.errors) = Cardinality(RefusedAt(items))
             /\ Cardinality(RefusedAt(items)) \in Nat
             /\ \A k \in 1..Cardinality(RefusedAt(items)) : b.errors[k] = InvalidRecord
<1>. DEFINE b == parse_feed(document, at)
            items == document.items
            good == UsableAt(items)
            bad == RefusedAt(items)
            results == Results(document, at)
            all == {results[i] : i \in DOMAIN items}
<1>1. items \in Seq(Items) /\ DOMAIN items = 1..Len(items) /\ Len(items) \in Nat
  BY DEF AllFeeds
<1>2. /\ DOMAIN results = DOMAIN items
      /\ \A i \in DOMAIN items : results[i] = ParseItem(items[i], at)
  BY DEF Results
<1>3. results \in Seq(all)
  BY <1>1 DEF Results
<1>4. good = DOMAIN results \ {i \in DOMAIN results : IsError(results[i])}
  BY <1>2, ParsedItem DEF UsableAt
<1>5. bad = {i \in DOMAIN results : IsError(results[i])}
  BY <1>2, <1>4 DEF RefusedAt
<1>6. b = [records |-> Pick(results, good), errors |-> Pick(results, bad)]
  <2>1. b = Split(results)
    BY DEF parse_feed
  <2>. HIDE DEF b, results, good, bad
  <2>. QED
    BY <2>1, <1>4, <1>5 DEF Split
<1>7. good \in SUBSET (DOMAIN results) /\ bad \in SUBSET (DOMAIN results)
  BY <1>4, <1>5
<1>10. \A i \in good : results[i] = Fields(items[i], at)
  BY <1>2, <1>7, ParsedItem DEF UsableAt
<1>11. \A i \in bad : results[i] = InvalidRecord
  BY <1>2, <1>7, ParsedItem DEF UsableAt, RefusedAt
<1>. HIDE DEF b, items, good, bad, results, all
<1>8. /\ Cardinality(good) \in Nat
      /\ DOMAIN b.records = 1..Cardinality(good)
      /\ Len(b.records) = Cardinality(good)
      /\ \A k \in 1..Cardinality(good) :
           At(good, k) \in good /\ b.records[k] = results[At(good, k)]
      /\ Range(b.records) = {results[i] : i \in good}
  <2>1. b.records = Pick(results, good)
    BY <1>6
  <2>. QED
    BY <1>3, <1>7, <2>1, PickElements
<1>9. /\ Cardinality(bad) \in Nat
      /\ DOMAIN b.errors = 1..Cardinality(bad)
      /\ Len(b.errors) = Cardinality(bad)
      /\ \A k \in 1..Cardinality(bad) :
           At(bad, k) \in bad /\ b.errors[k] = results[At(bad, k)]
  <2>1. b.errors = Pick(results, bad)
    BY <1>6
  <2>. QED
    BY <1>3, <1>7, <2>1, PickElements
<1>12. /\ \A k \in 1..Cardinality(good) : b.records[k] = Fields(items[At(good, k)], at)
       /\ \A k \in 1..Cardinality(bad) : b.errors[k] = InvalidRecord
       /\ Range(b.records) = {Fields(items[i], at) : i \in good}
  <2>1. \A k \in 1..Cardinality(good) : b.records[k] = Fields(items[At(good, k)], at)
    BY <1>8, <1>10
  <2>2. \A k \in 1..Cardinality(bad) : b.errors[k] = InvalidRecord
    BY <1>9, <1>11
  <2>3. {results[i] : i \in good} = {Fields(items[i], at) : i \in good}
    BY <1>10
  <2>. QED
    BY <1>8, <2>1, <2>2, <2>3
<1>13. good \in SUBSET (DOMAIN items)
  BY <1>2, <1>7
<1>14. b.records = Pick(results, good)
  BY <1>6
<1>. QED
  BY <1>1, <1>8, <1>9, <1>12, <1>13, <1>14 DEF b, items, good, bad, results

\* A document that is not a feed gives one error of the run, and no record.
LEMMA FailedFeed ==
  ASSUME NEW document \in AllFeeds, document.form # "rss", NEW at
  PROVE  \E type : parse_feed(document, at) = FeedError(type)
BY DEF parse_feed, AllFeeds

-----------------------------------------------------------------------------
(* The batches.                                                            *)

\* A run that has parsed holds what it parsed.
BatchesParsed ==
  /\ now \in Nat
  /\ stage \in [Runs -> {"idle", "saving", "over"}]
  /\ DOMAIN batch = Runs /\ batch = [r \in Runs |-> batch[r]]
  /\ DOMAIN source = Runs /\ source = [r \in Runs |-> source[r]]
  /\ \A r \in Runs : stage[r] # "idle" =>
       source[r] \in Documents /\ \E at \in Nat : batch[r] = parse_feed(source[r], at)

LEMMA BatchesParsedInit == Init => BatchesParsed
BY DEF Init, BatchesParsed

LEMMA BatchesParsedStep ==
  ASSUME BatchesParsed, [Next]_vars
  PROVE  BatchesParsed'
<1>. USE DEF BatchesParsed
<1>1. ASSUME NEW r \in Runs, Parse(r) PROVE BatchesParsed'
  <2>1. PICK document \in Documents :
          LET b == parse_feed(document, now') IN
          /\ batch' = [batch EXCEPT ![r] = b]
          /\ source' = [source EXCEPT ![r] = document]
          /\ stage' = [stage EXCEPT
               ![r] = IF SourceFailed(b) \/ b.records = <<>> THEN "over" ELSE "saving"]
    BY <1>1 DEF Parse
  <2>2. now' \in Nat
    BY <1>1 DEF Parse
  <2>3. stage' \in [Runs -> {"idle", "saving", "over"}]
    BY <2>1
  <2>4. batch' = [q \in Runs |-> batch'[q]] /\ source' = [q \in Runs |-> source'[q]]
    BY <2>1
  <2>5. source'[r] = document /\ batch'[r] = parse_feed(document, now')
    BY <2>1
  <2>6. \A q \in Runs \ {r} :
          stage'[q] = stage[q] /\ source'[q] = source[q] /\ batch'[q] = batch[q]
    BY <2>1
  <2>. QED
    BY <2>2, <2>3, <2>4, <2>5, <2>6
<1>2. ASSUME NEW r \in Runs, Save(r) PROVE BatchesParsed'
  BY <1>2 DEF Save
<1>3. CASE OpenList \/ ReadPage \/ ReadFails \/ UNCHANGED vars
  BY <1>3 DEF OpenList, ReadPage, ReadFails, vars, runVars
<1>. QED
  BY <1>1, <1>2, <1>3 DEF Next

THEOREM BatchesAreParsed == Spec => []BatchesParsed
<1>. QED
  BY BatchesParsedInit, BatchesParsedStep, PTL DEF Spec

\* Of each parsed document, the batch counts every item.
LEMMA EveryItemIsCountedOf ==
  ASSUME BatchesParsed
  PROVE  EveryItemIsCounted
<1>1. SUFFICES ASSUME NEW r \in Runs, stage[r] # "idle"
               PROVE  /\ AdapterShape(batch[r])
                      /\ source[r].form = "rss" => RawCount(batch[r]) = Len(source[r].items)
                      /\ source[r].form # "rss" => SourceFailed(batch[r])
  BY DEF EveryItemIsCounted
<1>2. PICK at \in Nat : batch[r] = parse_feed(source[r], at)
  BY <1>1 DEF BatchesParsed
<1>3. source[r] \in AllFeeds
  BY <1>1, CatalogueAssumption DEF BatchesParsed
<1>4. CASE source[r].form = "rss"
  <2>. DEFINE items == source[r].items
              good == UsableAt(items)
              bad == RefusedAt(items)
              b == parse_feed(source[r], at)
  <2>1. /\ items \in Seq(Items)
        /\ good \in SUBSET (DOMAIN items)
        /\ Len(b.records) = Cardinality(good) /\ Cardinality(good) \in Nat
        /\ DOMAIN b.errors = 1..Cardinality(bad)
        /\ Len(b.errors) = Cardinality(bad) /\ Cardinality(bad) \in Nat
        /\ \A k \in 1..Cardinality(bad) : b.errors[k] = InvalidRecord
    BY <1>3, <1>4, ParsedFeed
  <2>2. good \cup bad = DOMAIN items /\ good \cap bad = {}
    BY <2>1 DEF RefusedAt
  <2>. HIDE DEF items, good, bad, b
  <2>3. \A i \in DOMAIN b.errors : b.errors[i].scope = "RECORD"
    BY <2>1 DEF InvalidRecord
  <2>4. RawCount(b) = Len(b.records) + Len(b.errors)
    BY <2>3 DEF RawCount
  <2>5. Cardinality(good) + Cardinality(bad) = Len(items)
    <3>1. /\ DOMAIN items = 1..Len(items) /\ Len(items) \in Nat
          /\ IsFiniteSet(DOMAIN items) /\ Cardinality(DOMAIN items) = Len(items)
      BY <2>1, Positions
    <3>2. IsFiniteSet(good) /\ IsFiniteSet(bad)
      BY <2>2, <3>1, FS_Subset
    <3>3. Cardinality(DOMAIN items) = Cardinality(good) + Cardinality(bad) - Cardinality({})
      BY <2>2, <3>2, FS_Union
    <3>. QED
      BY <2>1, <3>1, <3>3, FS_EmptySet
  <2>6. AdapterShape(b)
    BY <2>3 DEF AdapterShape
  <2>. QED
    BY <1>2, <1>4, <2>1, <2>4, <2>5, <2>6 DEF items, b
<1>5. CASE source[r].form # "rss"
  <2>1. PICK type : batch[r] = FeedError(type)
    BY <1>2, <1>3, <1>5, FailedFeed
  <2>. QED
    BY <1>5, <2>1 DEF FeedError, AdapterShape, SourceFailed
<1>. QED
  BY <1>4, <1>5

(***************************************************************************)
(* A document the source serves becomes a batch of the shape the           *)
(* orchestrator relies on, and each item of a feed becomes one record or   *)
(* one rejection, whatever stands beside it (parse_feed).                  *)
(***************************************************************************)
THEOREM ItemsAreCounted == Spec => []EveryItemIsCounted
<1>1. BatchesParsed => EveryItemIsCounted
  BY EveryItemIsCountedOf
<1>. QED
  BY <1>1, BatchesAreParsed, PTL

-----------------------------------------------------------------------------
(* Records, rows, and what is served.                                      *)

\* What the proofs need to know of a record.
LEMMA RecordType ==
  ASSUME NEW item \in Items, Usable(item), NEW at \in Nat
  PROVE  LET job == Fields(item, at) IN
         /\ job.employment_type \in EmploymentTypes
         /\ job.published_at \in Instants /\ job.ingested_at \in Instants
         /\ job.status \in Statuses
<1>1. item.pubDate \in Dates /\ item.pubDate.form # "garbage"
  BY DatesAssumption DEF Items, Usable, Complete, ParsePubDate
<1>2. item.pubDate.clock \in Int /\ (item.pubDate.zone # Absent => item.pubDate.zone \in Int)
  BY <1>1 DEF Dates
<1>3. ParsePubDate(item.pubDate) \in Instants
  <2>1. item.pubDate # Absent
    BY <1>1, DatesAssumption
  <2>2. \A clock, zone \in Int : Utc(clock, zone) \in Instants
    BY DEF Utc, Instants
  <2>. QED
    BY <1>1, <1>2, <2>1, <2>2, FeedParserAssumption DEF ParsePubDate
<1>4. Utc(at, 0) \in Instants
  BY DEF Utc, Instants
<1>5. MapEmploymentType(item.type) \in EmploymentTypes
  BY DEF MapEmploymentType, EmploymentTypeMap, EmploymentTypes
<1>. QED
  BY <1>3, <1>4, <1>5 DEF Fields, Statuses

\* A record has its instants in UTC already.
LEMMA UtcIsKept ==
  ASSUME NEW dt \in Instants
  PROVE  /\ FormatDatetime(dt) = dt
         /\ \A zone \in Int : ParseDatetime(InZone(dt, zone)) = dt
<1>1. dt = [clock |-> dt.clock, zone |-> 0] /\ dt.clock \in Int
  BY DEF Instants
<1>2. FormatDatetime(dt) = dt
  BY <1>1 DEF FormatDatetime, Utc
<1>3. ASSUME NEW zone \in Int PROVE ParseDatetime(InZone(dt, zone)) = dt
  <2>1. InZone(dt, zone) = [clock |-> dt.clock + zone, zone |-> zone]
    BY <1>1 DEF InZone
  <2>2. zone # Absent
    BY DatesAssumption
  <2>3. dt.clock + zone - zone = dt.clock
    BY <1>1
  <2>. QED
    BY <1>1, <2>1, <2>2, <2>3 DEF ParseDatetime, Utc
<1>. QED
  BY <1>2, <1>3

\* The row of a record holds what the record does, and is read as that record.
LEMMA RowOfRecord ==
  ASSUME NEW item \in Items, Usable(item), NEW at \in Nat
  PROVE  LET job == Fields(item, at) IN
         /\ job_to_row(job) = job
         /\ \A zone \in Int : row_to_job(Selected(job, zone)) = job
<1>. DEFINE job == Fields(item, at)
<1>1. /\ job.employment_type \in EmploymentTypes /\ job.status \in Statuses
      /\ job.published_at \in Instants /\ job.ingested_at \in Instants
  BY RecordType
<1>2. job = [x \in DOMAIN job |-> job[x]]
  BY DEF Fields
<1>3. {"published_at", "ingested_at", "employment_type", "status"} \subseteq DOMAIN job
  BY DEF Fields
<1>. HIDE DEF job
<1>4. job_to_row(job) = job
  BY <1>1, <1>2, <1>3, UtcIsKept DEF job_to_row
<1>5. ASSUME NEW zone \in Int PROVE row_to_job(Selected(job, zone)) = job
  <2>1. /\ ParseDatetime(InZone(job.published_at, zone)) = job.published_at
        /\ ParseDatetime(InZone(job.ingested_at, zone)) = job.ingested_at
    BY <1>1, UtcIsKept
  <2>. QED
    BY <1>1, <1>2, <1>3, <2>1 DEF row_to_job, Selected
<1>. QED
  BY <1>4, <1>5 DEF job

\* A sequence, of whatever elements.
IsList(s) == Len(s) \in Nat /\ DOMAIN s = 1..Len(s)

\* What a run holds are records of usable items.
LEMMA RecordsOfBatch ==
  ASSUME BatchesParsed, NEW r \in Runs, stage[r] # "idle"
  PROVE  /\ IsList(batch[r].records)
         /\ \A job \in Range(batch[r].records) :
              \E item \in Items, at \in Nat : Usable(item) /\ job = Fields(item, at)
<1>1. PICK at \in Nat : batch[r] = parse_feed(source[r], at)
  BY DEF BatchesParsed
<1>2. source[r] \in AllFeeds
  BY CatalogueAssumption DEF BatchesParsed
<1>3. CASE source[r].form = "rss"
  <2>. DEFINE items == source[r].items
  <2>1. /\ items \in Seq(Items)
        /\ DOMAIN parse_feed(source[r], at).records = 1..Cardinality(UsableAt(items))
        /\ Len(parse_feed(source[r], at).records) = Cardinality(UsableAt(items))
        /\ Cardinality(UsableAt(items)) \in Nat
        /\ Range(parse_feed(source[r], at).records)
             = {Fields(items[i], at) : i \in UsableAt(items)}
    BY <1>2, <1>3, ParsedFeed
  <2>2. \A i \in UsableAt(items) : items[i] \in Items /\ Usable(items[i])
    BY <2>1 DEF UsableAt
  <2>. HIDE DEF items
  <2>. QED
    BY <1>1, <2>1, <2>2 DEF IsList
<1>4. CASE source[r].form # "rss"
  <2>1. PICK type : parse_feed(source[r], at) = FeedError(type)
    BY <1>2, <1>4, FailedFeed
  <2>2. batch[r].records = <<>>
    BY <1>1, <2>1 DEF FeedError
  <2>. QED
    BY <2>2 DEF Range, IsList
<1>. QED
  BY <1>3, <1>4

\* The upsert writes the records kept of a batch, each under an id of its own.
LEMMA RowsOfBatch ==
  ASSUME NEW b, NEW limit, IsList(b.records)
  PROVE  LET kept == KeptAt(CanonicalIds(b), limit)
             rows == Rows(b, limit)
         IN  /\ IsFiniteSet(DOMAIN rows)
             /\ kept \subseteq DOMAIN b.records
             /\ \A i, k \in kept :
                  b.records[i].canonical_id = b.records[k].canonical_id => i = k
             /\ DOMAIN rows = {b.records[i].canonical_id : i \in kept}
             /\ \A i \in kept : rows[b.records[i].canonical_id] = job_to_row(b.records[i])
<1>. DEFINE n == Len(b.records)
            id(i) == b.records[i].canonical_id
            kept == KeptAt(CanonicalIds(b), limit)
            rows == Rows(b, limit)
            f == [i \in kept |-> id(i)]
            chosen(x) == CHOOSE i \in kept : id(i) = x
<1>0. n \in Nat /\ DOMAIN b.records = 1..n
  BY DEF IsList
<1>. HIDE DEF n
<1>1. kept \subseteq 1..n /\ \A i \in kept : \A j \in 1..(i - 1) : id(j) # id(i)
  <2>1. DOMAIN CanonicalIds(b) = 1..n /\ \A i \in 1..n : CanonicalIds(b)[i] = id(i)
    BY <1>0 DEF CanonicalIds
  <2>2. \A i \in 1..n : \A j \in 1..(i - 1) : j \in 1..n
    BY <1>0
  <2>3. kept \subseteq FirstOccurrences(CanonicalIds(b))
    BY DEF KeptAt
  <2>. HIDE DEF id, kept
  <2>. QED
    BY <2>1, <2>2, <2>3 DEF FirstOccurrences
<1>2. \A i, k \in kept : id(i) = id(k) => i = k
  <2>. HIDE DEF id, kept
  <2>1. \A i, k \in kept : id(i) = id(k) => ~(i < k)
    BY <1>0, <1>1
  <2>2. kept \subseteq Nat
    BY <1>0, <1>1
  <2>. QED
    BY <2>1, <2>2
<1>3. rows = [x \in {id(i) : i \in kept} |->
                job_to_row(b.records[CHOOSE i \in kept : id(i) = x])]
  BY DEF Rows
<1>. HIDE DEF kept, rows
<1>4. DOMAIN rows = {id(i) : i \in kept}
  BY <1>3, Zenon
<1>5. \A x \in {id(i) : i \in kept} : rows[x] = job_to_row(b.records[chosen(x)])
  BY <1>3, Zenon
<1>6. \A i \in kept : rows[id(i)] = job_to_row(b.records[i])
  <2>1. SUFFICES ASSUME NEW i \in kept PROVE rows[id(i)] = job_to_row(b.records[i])
    OBVIOUS
  <2>2. chosen(id(i)) = i
    BY <1>2
  <2>3. id(i) \in {id(k) : k \in kept}
    OBVIOUS
  <2>. HIDE DEF chosen, id
  <2>. QED
    BY <1>5, <2>2, <2>3
<1>7. IsFiniteSet(DOMAIN rows)
  <2>1. IsFiniteSet(kept)
    BY <1>0, <1>1, Positions, FS_Subset
  <2>2. f \in Surjection(kept, DOMAIN rows)
    BY <1>4 DEF Surjection
  <2>. QED
    BY <2>1, <2>2, FS_Surjection
<1>. QED
  BY <1>0, <1>1, <1>2, <1>4, <1>6, <1>7 DEF kept, rows

-----------------------------------------------------------------------------
(* The table.                                                              *)

\* A row is a record that some run parsed, under its own id.
TableFromBatches ==
  /\ IsFiniteSet(DOMAIN store)
  /\ \A id \in DOMAIN store : \E r \in Runs :
       /\ stage[r] # "idle"
       /\ \E job \in Range(batch[r].records) : job.canonical_id = id /\ store[id] = job

\* The rows that a run writes are its records.
LEMMA RowsAreRecords ==
  ASSUME BatchesParsed, NEW r \in Runs, stage[r] # "idle", NEW limit
  PROVE  /\ IsFiniteSet(DOMAIN Rows(batch[r], limit))
         /\ \A id \in DOMAIN Rows(batch[r], limit) : \E job \in Range(batch[r].records) :
              job.canonical_id = id /\ Rows(batch[r], limit)[id] = job
<1>. DEFINE records == batch[r].records
            kept == KeptAt(CanonicalIds(batch[r]), limit)
            rows == Rows(batch[r], limit)
<1>1. IsList(records)
  BY RecordsOfBatch
<1>2. /\ IsFiniteSet(DOMAIN rows)
      /\ kept \subseteq DOMAIN records
      /\ DOMAIN rows = {records[i].canonical_id : i \in kept}
      /\ \A i \in kept : rows[records[i].canonical_id] = job_to_row(records[i])
  BY <1>1, RowsOfBatch
<1>3. \A i \in DOMAIN records : records[i] \in Range(records)
  BY DEF Range
<1>4. \A job \in Range(records) : job_to_row(job) = job
  BY RecordsOfBatch, RowOfRecord
<1>. HIDE DEF records, kept, rows
<1>. QED
  BY <1>2, <1>3, <1>4 DEF records, rows

\* A parsed batch stays as it is.
LEMMA BatchesStay ==
  ASSUME BatchesParsed, [Next]_vars, NEW r \in Runs, stage[r] # "idle"
  PROVE  stage'[r] # "idle" /\ batch'[r] = batch[r]
<1>1. ASSUME NEW q \in Runs, Parse(q) PROVE stage'[r] # "idle" /\ batch'[r] = batch[r]
  <2>1. q # r
    BY <1>1 DEF Parse
  <2>. QED
    BY <1>1, <2>1 DEF Parse, BatchesParsed
<1>2. ASSUME NEW q \in Runs, Save(q) PROVE stage'[r] # "idle" /\ batch'[r] = batch[r]
  BY <1>2 DEF Save, BatchesParsed
<1>3. CASE OpenList \/ ReadPage \/ ReadFails \/ UNCHANGED vars
  BY <1>3 DEF OpenList, ReadPage, ReadFails, vars, runVars
<1>. QED
  BY <1>1, <1>2, <1>3 DEF Next

LEMMA TableStep ==
  ASSUME BatchesParsed, TableFromBatches, [Next]_vars
  PROVE  TableFromBatches'
<1>1. \A r \in Runs : stage[r] # "idle" => stage'[r] # "idle" /\ batch'[r] = batch[r]
  BY BatchesStay
<1>2. CASE store' = store
  BY <1>1, <1>2 DEF TableFromBatches
<1>3. ASSUME NEW r \in Runs, stage[r] = "saving", NEW limit \in Limits,
             store' = Upsert(Rows(batch[r], limit))
      PROVE  TableFromBatches'
  <2>. DEFINE rows == Rows(batch[r], limit)
  <2>1. /\ IsFiniteSet(DOMAIN rows)
        /\ \A id \in DOMAIN rows : \E job \in Range(batch[r].records) :
             job.canonical_id = id /\ rows[id] = job
    BY <1>3, RowsAreRecords
  <2>. HIDE DEF rows
  <2>2. DOMAIN store' = DOMAIN rows \cup DOMAIN store
    BY <1>3 DEF Upsert, rows
  <2>3. IsFiniteSet(DOMAIN store')
    <3>1. IsFiniteSet(DOMAIN store)
      BY DEF TableFromBatches
    <3>2. IsFiniteSet(DOMAIN rows \cup DOMAIN store)
      BY <2>1, <3>1, FS_Union
    <3>. QED
      BY <2>2, <3>2
  <2>4. ASSUME NEW id \in DOMAIN store'
        PROVE  \E q \in Runs :
                 /\ stage'[q] # "idle"
                 /\ \E job \in Range(batch'[q].records) :
                      job.canonical_id = id /\ store'[id] = job
    <3>1. CASE id \in DOMAIN rows
      <4>1. store'[id] = rows[id]
        BY <1>3, <3>1 DEF Upsert, rows
      <4>2. stage'[r] # "idle" /\ batch'[r] = batch[r]
        BY <1>1, <1>3
      <4>. QED
        BY <2>1, <3>1, <4>1, <4>2
    <3>2. CASE id \notin DOMAIN rows
      <4>1. id \in DOMAIN store /\ store'[id] = store[id]
        BY <1>3, <2>2, <3>2 DEF Upsert, rows
      <4>. QED
        BY <1>1, <4>1 DEF TableFromBatches
    <3>. QED
      BY <3>1, <3>2
  <2>. QED
    BY <2>3, <2>4 DEF TableFromBatches
<1>4. \/ store' = store
      \/ \E r \in Runs, limit \in Limits :
           stage[r] = "saving" /\ store' = Upsert(Rows(batch[r], limit))
  BY DEF Next, Parse, Save, OpenList, ReadPage, ReadFails, vars, runVars
<1>. QED
  BY <1>2, <1>3, <1>4

\* What a row holds.
LEMMA RowType ==
  ASSUME BatchesParsed, TableFromBatches, NEW id \in DOMAIN store
  PROVE  \E item \in Items, at \in Nat :
           /\ Usable(item) /\ store[id] = Fields(item, at)
           /\ store[id].canonical_id = id
           /\ store[id].employment_type \in EmploymentTypes
           /\ store[id].published_at \in Instants /\ store[id].ingested_at \in Instants
<1>1. PICK r \in Runs : /\ stage[r] # "idle"
                        /\ \E job \in Range(batch[r].records) :
                             job.canonical_id = id /\ store[id] = job
  BY DEF TableFromBatches
<1>2. PICK item \in Items, at \in Nat : Usable(item) /\ store[id] = Fields(item, at)
  BY <1>1, RecordsOfBatch
<1>. QED
  BY <1>1, <1>2, RecordType

THEOREM TableIsFromBatches == Spec => [](BatchesParsed /\ TableFromBatches)
<1>1. Init => TableFromBatches
  <2>1. DOMAIN <<>> = {}
    OBVIOUS
  <2>. QED
    BY <2>1, FS_EmptySet DEF Init, TableFromBatches
<1>. QED
  BY <1>1, BatchesAreParsed, TableStep, PTL DEF Spec

(***************************************************************************)
(* What the API serves of a job is a record as a run parsed it: the        *)
(* conversions on the way into the table and out of it, through whatever   *)
(* zone the session shows instants in, lose nothing.                       *)
(***************************************************************************)
THEOREM ServedIsParsed == Spec => []ServedAsParsed
<1>1. ASSUME BatchesParsed, TableFromBatches PROVE ServedAsParsed
  <2>1. SUFFICES ASSUME NEW id \in DOMAIN store, NEW zone \in Zones
                 PROVE  \E r \in Runs : /\ stage[r] # "idle"
                                        /\ get_job(id, zone) \in Range(batch[r].records)
    BY DEF ServedAsParsed
  <2>2. PICK r \in Runs : stage[r] # "idle" /\ store[id] \in Range(batch[r].records)
    BY <1>1 DEF TableFromBatches
  <2>3. get_job(id, zone) = store[id]
    <3>1. PICK item \in Items, at \in Nat : Usable(item) /\ store[id] = Fields(item, at)
      BY <1>1, RowType
    <3>2. zone \in Int
      BY CatalogueAssumption
    <3>. QED
      BY <3>1, <3>2, RowOfRecord DEF get_job
  <2>. QED
    BY <2>2, <2>3
<1>. QED
  BY <1>1, TableIsFromBatches, PTL

-----------------------------------------------------------------------------
(* The reader.                                                             *)

WalkType ==
  walk \in [state : {"idle", "reading", "over", "cut"}, offset : Nat,
            seen : SUBSET (DOMAIN store), start : SUBSET (DOMAIN store),
            unsteady : SUBSET (DOMAIN store), backdated : BOOLEAN]

\* An order of the rows: each stands at one place, and none stands before a newer one.
LEMMA OrderFacts ==
  ASSUME NEW s, IsFiniteSet(DOMAIN s), NEW order \in NewestFirst(s)
  PROVE  /\ Cardinality(DOMAIN s) \in Nat
         /\ order \in Seq(DOMAIN s)
         /\ Len(order) = Cardinality(DOMAIN s)
         /\ \A i, j \in 1..Len(order) : order[i] = order[j] => i = j
         /\ \A id \in DOMAIN s : \E i \in 1..Len(order) : order[i] = id
         /\ \A i, j \in 1..Len(order) : Newer(s[order[i]], s[order[j]]) => i < j
<1>. DEFINE n == Cardinality(DOMAIN s)
<1>1. n \in Nat
  BY FS_CardinalityType
<1>. HIDE DEF n
<1>2. /\ order \in [1..n -> DOMAIN s]
      /\ \A i, j \in 1..n : i # j => order[i] # order[j]
      /\ \A i, j \in DOMAIN order : Newer(s[order[i]], s[order[j]]) => i < j
  BY DEF NewestFirst, SetToSeqs, n
<1>3. order \in Seq(DOMAIN s) /\ Len(order) = n /\ DOMAIN order = 1..n
  BY <1>1, <1>2
<1>4. order \in Injection(1..n, DOMAIN s)
  BY <1>2 DEF Injection, IsInjective
<1>5. order \in Surjection(1..n, DOMAIN s)
  BY <1>1, <1>4, Positions, FS_Injection DEF n
<1>6. \A id \in DOMAIN s : \E i \in 1..n : order[i] = id
  BY <1>5 DEF Surjection
<1>7. \A i, j \in 1..n : Newer(s[order[i]], s[order[j]]) => i < j
  BY <1>2, <1>3
<1>8. \A i, j \in 1..n : order[i] = order[j] => i = j
  BY <1>2
<1>. QED
  BY <1>1, <1>3, <1>6, <1>7, <1>8 DEF n

\* A page shows the places after the offset, as far as there are rows.
LEMMA PageFacts ==
  ASSUME NEW S, NEW order \in Seq(S), NEW offset \in Nat
  PROVE  /\ ToSet(Page(order, offset)) \subseteq S
         /\ \A i \in 1..Len(order) :
              offset < i /\ i <= offset + PageSize => order[i] \in ToSet(Page(order, offset))
         /\ Len(Page(order, offset)) # PageSize => Len(order) < offset + PageSize
<1>. DEFINE last == IF offset + PageSize <= Len(order) THEN offset + PageSize ELSE Len(order)
            page == Page(order, offset)
<1>1. Len(order) \in Nat /\ PageSize \in Nat /\ PageSize > 0
  BY CatalogueAssumption, LenProperties
<1>2. last \in Int /\ last <= Len(order) /\ last <= offset + PageSize
  BY <1>1
<1>3. \A i \in (offset + 1)..last : order[i] \in S
  BY <1>1, <1>2, LenProperties
<1>4. /\ page \in Seq(S)
      /\ Len(page) = IF offset + 1 <= last THEN last - (offset + 1) + 1 ELSE 0
      /\ \A k \in 1..(last - (offset + 1) + 1) : page[k] = order[k + (offset + 1) - 1]
  <2>1. page = SubSeq(order, offset + 1, last)
    BY DEF Page
  <2>. HIDE DEF last, page
  <2>2. CASE offset + 1 <= last
    BY <1>1, <1>2, <2>1, <2>2
  <2>3. CASE ~(offset + 1 <= last)
    <3>1. last < offset + 1 /\ offset + 1 \in Int
      BY <1>2, <2>3
    <3>2. page = <<>>
      BY <1>2, <2>1, <3>1, SubSeqEmpty
    <3>3. 1..(last - (offset + 1) + 1) = {}
      BY <1>2, <3>1
    <3>4. page \in Seq(S) /\ Len(page) = 0
      BY <3>2, EmptySeq, Zenon
    <3>5. \A k \in 1..(last - (offset + 1) + 1) : page[k] = order[k + (offset + 1) - 1]
      BY <3>3, Zenon
    <3>. QED
      BY <2>3, <3>4, <3>5
  <2>. QED
    BY <2>2, <2>3
<1>. HIDE DEF page
<1>5. ToSet(page) \subseteq S
  BY <1>4, LenProperties DEF ToSet
<1>6. ASSUME NEW i \in 1..Len(order), offset < i, i <= offset + PageSize
      PROVE  order[i] \in ToSet(page)
  <2>1. i <= last /\ i - offset \in 1..(last - offset)
    BY <1>1, <1>6
  <2>. HIDE DEF last
  <2>2. i - offset \in 1..Len(page)
    BY <1>2, <1>4, <2>1
  <2>3. page[i - offset] = order[i]
    BY <1>2, <1>4, <2>1
  <2>. QED
    BY <1>4, <2>2, <2>3, LenProperties DEF ToSet
<1>7. Len(page) # PageSize => Len(order) < offset + PageSize
  BY <1>1, <1>4
<1>. QED
  BY <1>5, <1>6, <1>7 DEF page

\* The rows that stand before one whose date no other row has.
Ahead(s, id) == {other \in DOMAIN s : Newer(s[other], s[id])}

\* A row with a date of its own has the same place in every order.
LEMMA OwnPlace ==
  ASSUME NEW s, IsFiniteSet(DOMAIN s),
         \A id \in DOMAIN s : s[id].published_at \in Instants,
         NEW order \in NewestFirst(s), NEW p \in 1..Len(order), order[p] \notin Tied(s)
  PROVE  Cardinality(Ahead(s, order[p])) = p - 1
<1>. DEFINE n == Len(order)
            ahead == Ahead(s, order[p])
            f == [i \in 1..(p - 1) |-> order[i]]
<1>1. /\ order \in Seq(DOMAIN s) /\ n \in Nat
      /\ \A i, j \in 1..n : order[i] = order[j] => i = j
      /\ \A id \in DOMAIN s : \E i \in 1..n : order[i] = id
      /\ \A i, j \in 1..n : Newer(s[order[i]], s[order[j]]) => i < j
  BY OrderFacts
<1>2. \A i \in 1..n : order[i] \in DOMAIN s
  BY <1>1
<1>3. ASSUME NEW i \in 1..(p - 1) PROVE order[i] \in ahead
  <2>1. i \in 1..n /\ i # p /\ order[i] \in DOMAIN s /\ order[p] \in DOMAIN s
    <3>1. n \in Nat /\ p \in 1..n
      BY <1>1
    <3>2. i \in 1..n /\ i # p
      BY <3>1
    <3>. QED
      BY <1>2, <3>1, <3>2
  <2>2. order[i] # order[p]
    BY <1>1, <2>1
  <2>3. s[order[i]].published_at # s[order[p]].published_at
    BY <2>1, <2>2 DEF Tied
  <2>4. /\ s[order[i]].published_at \in Instants
        /\ s[order[p]].published_at \in Instants
    BY <2>1
  <2>5. /\ s[order[i]].published_at.clock \in Int
        /\ s[order[p]].published_at.clock \in Int
        /\ s[order[i]].published_at.clock # s[order[p]].published_at.clock
    BY <2>3, <2>4 DEF Instants
  <2>6. ~Newer(s[order[p]], s[order[i]])
    <3>1. ~(p < i)
      BY <1>1
    <3>. QED
      BY <1>1, <2>1, <3>1
  <2>. QED
    BY <2>1, <2>5, <2>6 DEF Ahead, Newer
<1>4. ASSUME NEW id \in ahead PROVE \E i \in 1..(p - 1) : order[i] = id
  <2>1. id \in DOMAIN s /\ Newer(s[id], s[order[p]])
    BY DEF Ahead
  <2>2. PICK i \in 1..n : order[i] = id
    BY <1>1, <2>1
  <2>3. i < p
    BY <1>1, <2>1, <2>2
  <2>. QED
    BY <1>1, <2>2, <2>3
<1>5. p - 1 \in Nat
  BY <1>1
<1>6. f \in [1..(p - 1) -> ahead]
  BY <1>3
<1>. HIDE DEF ahead, n
<1>7. f \in Surjection(1..(p - 1), ahead)
  BY <1>4, <1>6 DEF Surjection
<1>8. f \in Injection(1..(p - 1), ahead)
  <2>1. \A i \in 1..(p - 1) : i \in 1..n
    BY <1>1 DEF n
  <2>. QED
    BY <1>1, <1>6, <2>1 DEF Injection, IsInjective
<1>. QED
  BY <1>5, <1>7, <1>8, Positions, FS_Surjection DEF ahead

(***************************************************************************)
(* What holds of a walk under way: a row that kept a place of its own has  *)
(* been seen, or at least as many rows stand before it as were passed.     *)
(***************************************************************************)
Unpassed(w, s) ==
  \A id \in w.start \ w.unsteady :
    id \in w.seen \/ w.offset <= Cardinality(Ahead(s, id))

WalkInv ==
  /\ walk.state = "reading" =>
       Tied(store) \subseteq walk.unsteady /\ (~walk.backdated => Unpassed(walk, store))
  /\ WalkMissesNothing

\* What the reader needs to know of the table.
TableTyped ==
  /\ IsFiniteSet(DOMAIN store)
  /\ \A id \in DOMAIN store : store[id].published_at \in Instants

LEMMA TableFacts ==
  ASSUME TableTyped
  PROVE  /\ \A id \in DOMAIN store : store[id].published_at.clock \in Int
         /\ \A id \in DOMAIN store : Cardinality(Ahead(store, id)) \in Nat
<1>1. \A id \in DOMAIN store : store[id].published_at.clock \in Int
  BY DEF Instants, TableTyped
<1>2. ASSUME NEW id \in DOMAIN store PROVE Cardinality(Ahead(store, id)) \in Nat
  <2>1. IsFiniteSet(Ahead(store, id))
    BY FS_Subset DEF Ahead, TableTyped
  <2>. QED
    BY <2>1, FS_CardinalityType
<1>. QED
  BY <1>1, <1>2

\* The list is opened at its beginning.
LEMMA OpenListStep ==
  ASSUME TableTyped, OpenList
  PROVE  WalkType' /\ WalkInv'
<1>1. /\ walk' = [state |-> "reading", offset |-> 0, seen |-> {}, start |-> DOMAIN store,
                  unsteady |-> Tied(store), backdated |-> FALSE]
      /\ store' = store
  BY DEF OpenList, NoWalk
<1>2. Tied(store) \subseteq DOMAIN store
  BY DEF Tied
<1>3. WalkType'
  BY <1>1, <1>2 DEF WalkType
<1>4. Unpassed(walk', store)
  <2>1. \A id \in DOMAIN store : 0 <= Cardinality(Ahead(store, id))
    BY TableFacts
  <2>. QED
    BY <1>1, <2>1 DEF Unpassed
<1>. QED
  BY <1>1, <1>3, <1>4 DEF WalkInv, WalkMissesNothing

\* A page passes nothing that it does not show, but what is unsteady.
LEMMA ReadPageStep ==
  ASSUME TableTyped, WalkType, WalkInv, ReadPage
  PROVE  WalkType' /\ WalkInv'
<1>2. PICK page \in Pages(store, walk.offset) :
        walk' = [walk EXCEPT !.seen = @ \cup ToSet(page),
                             !.offset = @ + PageSize,
                             !.state = IF Len(page) = PageSize THEN "reading" ELSE "over"]
  BY DEF ReadPage
<1>3. walk.state = "reading" /\ store' = store
  BY DEF ReadPage
<1>4. /\ walk.offset \in Nat /\ PageSize \in Nat
      /\ walk.start \subseteq DOMAIN store /\ walk.unsteady \subseteq DOMAIN store
      /\ Tied(store) \subseteq walk.unsteady
  BY <1>3, CatalogueAssumption DEF WalkType, WalkInv
<1>5. /\ IsFiniteSet(DOMAIN store)
      /\ \A id \in DOMAIN store : store[id].published_at \in Instants
      /\ \A id \in DOMAIN store : Cardinality(Ahead(store, id)) \in Nat
  BY TableFacts DEF TableTyped
<1>6. PICK order \in NewestFirst(store) : page = Page(order, walk.offset)
  BY DEF Pages
<1>7. /\ order \in Seq(DOMAIN store) /\ Len(order) \in Nat
      /\ \A id \in DOMAIN store : \E i \in 1..Len(order) : order[i] = id
  BY <1>5, OrderFacts
<1>8. /\ ToSet(page) \subseteq DOMAIN store
      /\ \A i \in 1..Len(order) :
           walk.offset < i /\ i <= walk.offset + PageSize => order[i] \in ToSet(page)
      /\ Len(page) # PageSize => Len(order) < walk.offset + PageSize
  BY <1>4, <1>6, <1>7, PageFacts
<1>9. /\ walk'.start = walk.start /\ walk'.unsteady = walk.unsteady
      /\ walk'.backdated = walk.backdated /\ walk'.offset = walk.offset + PageSize
      /\ walk'.seen = walk.seen \cup ToSet(page)
      /\ walk'.state = IF Len(page) = PageSize THEN "reading" ELSE "over"
      /\ WalkType'
  <2>1. walk.offset + PageSize \in Nat /\ walk.seen \cup ToSet(page) \subseteq DOMAIN store
    BY <1>4, <1>8 DEF WalkType
  <2>2. (IF Len(page) = PageSize THEN "reading" ELSE "over") \in {"reading", "over"}
    OBVIOUS
  <2>. QED
    BY <1>2, <1>3, <2>1, <2>2 DEF WalkType
<1>10. ASSUME ~walk.backdated, NEW id \in walk.start \ walk.unsteady,
              id \notin walk.seen, id \notin ToSet(page)
       PROVE  /\ walk.offset + PageSize <= Cardinality(Ahead(store, id))
              /\ Len(page) = PageSize
  <2>1. id \in DOMAIN store /\ id \notin Tied(store)
    BY <1>4
  <2>2. PICK p \in 1..Len(order) : order[p] = id
    BY <1>7, <2>1
  <2>3. Cardinality(Ahead(store, id)) = p - 1
    BY <1>5, <2>1, <2>2, OwnPlace
  <2>4. walk.offset <= Cardinality(Ahead(store, id))
    BY <1>3, <1>10 DEF WalkInv, Unpassed
  <2>5. ~(walk.offset < p /\ p <= walk.offset + PageSize)
    BY <1>8, <1>10, <2>2
  <2>6. walk.offset + PageSize < p
    <3>1. /\ p \in Nat /\ Cardinality(Ahead(store, id)) \in Nat
          /\ walk.offset \in Nat /\ PageSize \in Nat
      BY <1>4, <1>5, <1>7, <2>1
    <3>2. \A o, n, c, q \in Nat :
            c = q - 1 /\ o <= c /\ ~(o < q /\ q <= o + n) => o + n < q
      OBVIOUS
    <3>. QED
      BY <2>3, <2>4, <2>5, <3>1, <3>2, Zenon
  <2>7. Len(page) = PageSize
    BY <1>4, <1>7, <1>8, <2>6
  <2>. QED
    BY <1>4, <1>7, <2>3, <2>6, <2>7
<1>11. walk'.state = "reading" =>
         Tied(store) \subseteq walk'.unsteady /\ (~walk'.backdated => Unpassed(walk', store))
  BY <1>4, <1>9, <1>10 DEF Unpassed
<1>12. WalkMissesNothing'
  BY <1>9, <1>10 DEF WalkMissesNothing
<1>. QED
  BY <1>3, <1>9, <1>11, <1>12 DEF WalkInv

\* A row that kept its place has all before it that had been before it.
LEMMA UpsertStep ==
  ASSUME TableTyped, TableTyped', WalkType, WalkInv, NEW rows, store' = Upsert(rows),
         walk' = IF walk.state = "reading" THEN Disturbed(walk, store') ELSE walk
  PROVE  WalkType' /\ WalkInv'
<1>2. DOMAIN store \subseteq DOMAIN store'
  BY DEF Upsert
<1>3. CASE walk.state # "reading"
  <2>1. walk' = walk
    BY <1>3
  <2>. QED
    BY <1>2, <1>3, <2>1 DEF WalkType, WalkInv, WalkMissesNothing
<1>4. CASE walk.state = "reading"
  <2>1. Tied(store') \subseteq DOMAIN store'
    BY DEF Tied
  <2>2. walk' = Disturbed(walk, store')
    BY <1>4
  <2>3. /\ walk'.state = "reading" /\ walk'.offset = walk.offset
        /\ walk'.seen = walk.seen /\ walk'.start = walk.start
        /\ walk'.unsteady = walk.unsteady \cup Tied(store') \cup
             {id \in DOMAIN store : store'[id].published_at # store[id].published_at}
        /\ ~walk'.backdated => /\ ~walk.backdated
                               /\ \A id \in DOMAIN store :
                                    ~(store'[id].published_at.clock < store[id].published_at.clock)
        /\ WalkType'
    <3>. DEFINE moved == {id \in DOMAIN store :
                            store'[id].published_at # store[id].published_at}
                back  == \E id \in DOMAIN store :
                           store'[id].published_at.clock < store[id].published_at.clock
    <3>1. walk' = [walk EXCEPT !.unsteady = @ \cup Tied(store') \cup moved,
                               !.backdated = @ \/ back]
      BY <2>2 DEF Disturbed
    <3>2. moved \subseteq DOMAIN store'
      BY <1>2
    <3>3. back \in BOOLEAN /\ (~back => \A id \in DOMAIN store :
            ~(store'[id].published_at.clock < store[id].published_at.clock))
      OBVIOUS
    <3>. HIDE DEF moved, back
    <3>4. /\ walk'.state = "reading" /\ walk'.offset = walk.offset
          /\ walk'.seen = walk.seen /\ walk'.start = walk.start
          /\ walk'.unsteady = walk.unsteady \cup Tied(store') \cup moved
          /\ walk'.backdated = (walk.backdated \/ back)
      BY <1>4, <3>1 DEF WalkType
    <3>5. ~walk'.backdated => ~walk.backdated /\ ~back
      BY <3>4
    <3>6. WalkType'
      BY <1>2, <1>4, <2>1, <3>1, <3>2, <3>3, <3>4 DEF WalkType
    <3>. QED
      BY <3>3, <3>4, <3>5, <3>6 DEF moved
  <2>4. ASSUME ~walk'.backdated, NEW id \in walk'.start \ walk'.unsteady
        PROVE  id \in walk'.seen \/ walk'.offset <= Cardinality(Ahead(store', id))
    <3>1. id \in DOMAIN store /\ id \in walk.start \ walk.unsteady
      BY <2>3, <2>4 DEF WalkType
    <3>2. store'[id].published_at = store[id].published_at
      BY <2>3, <2>4, <3>1
    <3>3. /\ \A k \in DOMAIN store : store[k].published_at.clock \in Int
          /\ Cardinality(Ahead(store, id)) \in Nat
      BY <3>1, TableFacts
    <3>4. /\ IsFiniteSet(DOMAIN store')
          /\ \A k \in DOMAIN store' : store'[k].published_at.clock \in Int
      BY DEF TableTyped, Instants
    <3>5. Ahead(store, id) \subseteq Ahead(store', id)
      BY <1>2, <2>3, <2>4, <3>1, <3>2, <3>3, <3>4 DEF Ahead, Newer
    <3>6. IsFiniteSet(Ahead(store', id)) /\ Cardinality(Ahead(store', id)) \in Nat
      BY <3>4, FS_Subset, FS_CardinalityType DEF Ahead
    <3>7. Cardinality(Ahead(store, id)) <= Cardinality(Ahead(store', id))
      BY <3>5, <3>6, FS_Subset
    <3>8. id \in walk.seen \/ walk.offset <= Cardinality(Ahead(store, id))
      BY <1>4, <2>3, <2>4, <3>1 DEF WalkInv, Unpassed
    <3>9. walk.offset \in Nat
      BY DEF WalkType
    <3>. QED
      BY <2>3, <3>3, <3>6, <3>7, <3>8, <3>9
  <2>5. Tied(store') \subseteq walk'.unsteady
    BY <2>3
  <2>6. ~walk'.backdated => Unpassed(walk', store')
    BY <2>4 DEF Unpassed
  <2>. QED
    BY <2>3, <2>5, <2>6 DEF WalkInv, WalkMissesNothing
<1>. QED
  BY <1>3, <1>4

LEMMA WalkStep ==
  ASSUME TableTyped, TableTyped', WalkType, WalkInv, [Next]_vars
  PROVE  WalkType' /\ WalkInv'
<1>1. CASE OpenList
  BY <1>1, OpenListStep
<1>2. CASE ReadPage
  BY <1>2, ReadPageStep
<1>3. CASE ReadFails
  BY <1>3 DEF ReadFails, WalkType, WalkInv, WalkMissesNothing
<1>4. CASE UNCHANGED <<store, walk>>
  BY <1>4 DEF WalkType, WalkInv, WalkMissesNothing, Tied, Unpassed, Ahead
<1>5. ASSUME NEW r \in Runs, Parse(r) PROVE WalkType' /\ WalkInv'
  BY <1>4, <1>5 DEF Parse
<1>6. ASSUME NEW r \in Runs, Save(r) PROVE WalkType' /\ WalkInv'
  BY <1>4, <1>6, UpsertStep DEF Save
<1>. QED
  BY <1>1, <1>2, <1>3, <1>4, <1>5, <1>6 DEF Next, vars, runVars

LEMMA WalkInit == Init => WalkType /\ WalkInv
BY DEF Init, NoWalk, WalkType, WalkInv, WalkMissesNothing

THEOREM WalkIsSafe == Spec => [](TableTyped /\ WalkType /\ WalkInv)
<1>1. BatchesParsed /\ TableFromBatches => TableTyped
  <2>1. ASSUME BatchesParsed, TableFromBatches PROVE TableTyped
    <3>1. IsFiniteSet(DOMAIN store)
      BY <2>1 DEF TableFromBatches
    <3>2. \A id \in DOMAIN store : store[id].published_at \in Instants
      BY <2>1, RowType
    <3>. QED
      BY <3>1, <3>2 DEF TableTyped
  <2>. QED
    BY <2>1
<1>2. TableTyped /\ TableTyped' /\ WalkType /\ WalkInv /\ [Next]_vars => WalkType' /\ WalkInv'
  BY WalkStep
<1>. QED
  BY <1>1, <1>2, WalkInit, TableIsFromBatches, PTL DEF Spec

(***************************************************************************)
(* Whoever turns pages by offset until one is not full has seen every job  *)
(* that was stored when the walk began and kept a place of its own, for    *)
(* every page size, whatever is ingested meanwhile; unless a job was given *)
(* an earlier date on the way (list_jobs, ORDER BY published_at).          *)
(***************************************************************************)
THEOREM ReaderMissesNothing == Spec => []WalkMissesNothing
<1>1. WalkInv => WalkMissesNothing
  BY DEF WalkInv
<1>. QED
  BY <1>1, WalkIsSafe, PTL

(***************************************************************************)
(* The stored rows have the types that the enumerations and the UTC        *)
(* conversions of the parser give them, each under its own id.             *)
(***************************************************************************)
THEOREM CatalogueType == Spec => []TypeOK
<1>1. ASSUME BatchesParsed, TableFromBatches, WalkType PROVE TypeOK
  <2>1. now \in Nat /\ stage \in [Runs -> {"idle", "saving", "over"}]
    BY <1>1 DEF BatchesParsed
  <2>2. \A id \in DOMAIN store :
          /\ store[id].canonical_id = id
          /\ store[id].employment_type \in EmploymentTypes
          /\ store[id].published_at \in Instants /\ store[id].ingested_at \in Instants
    BY <1>1, RowType
  <2>3. /\ walk.state \in {"idle", "reading", "over", "cut"}
        /\ walk.start \cup walk.unsteady \cup walk.seen \subseteq DOMAIN store
    BY <1>1 DEF WalkType
  <2>. QED
    BY <2>1, <2>2, <2>3 DEF TypeOK
<1>. QED
  BY <1>1, TableIsFromBatches, WalkIsSafe, PTL

-----------------------------------------------------------------------------
(* The canonical id says which posting a name is of.                       *)

\* What the canonical id of a record comes down to.
IdOfName(name) ==
  IF name.source_id # Absent THEN [tier |-> "id", id |-> name.source_id]
  ELSE [tier |-> "url", url |-> canonicalize_url(name.source_url)]

\* An element occurs in a query if and only if its number of occurrences is not zero.
LEMMA OccurrencesFacts ==
  ASSUME NEW url \in Urls, NEW param
  PROVE  /\ Occurrences(param, url) \in Nat
         /\ Occurrences(param, url) # 0 <=> param \in Range(url.query)
<1>. DEFINE places == {i \in DOMAIN url.query : url.query[i] = param}
<1>1. url.query \in Seq(Params)
  BY DEF Urls
<1>2. DOMAIN url.query = 1..Len(url.query) /\ Len(url.query) \in Nat
  BY <1>1, LenProperties
<1>3. IsFiniteSet(places)
  BY <1>2, Positions, FS_Subset
<1>4. places # {} <=> param \in Range(url.query)
  BY DEF Range
<1>. HIDE DEF places
<1>5. Cardinality(places) \in Nat /\ (Cardinality(places) = 0 <=> places = {})
  BY <1>3, FS_EmptySet, FS_CardinalityType
<1>. QED
  BY <1>4, <1>5 DEF Occurrences, places

IsTracked(param) == param.key.says \in TRACKING_PARAMS

Untracked(url) == {param \in Range(url.query) : ~IsTracked(param)}

\* What is left of a query: its parameters that do not track, with their numbers.
LEMMA CanonicalQuery ==
  ASSUME NEW url \in Urls
  PROVE  canonicalize_url(url).query
           = [param \in Untracked(url) |-> Occurrences(param, url)]
<1>. DEFINE q == url.query
            P == {i \in DOMAIN q : ~IsTracking(q[i])}
<1>1. q \in Seq(Params) /\ DOMAIN q = 1..Len(q)
  BY LenProperties DEF Urls
<1>2. \A i \in DOMAIN q : q[i] \in Params
  BY <1>1
<1>3. \A param \in Params : IsTracking(param) <=> IsTracked(param)
  <2>1. ASSUME NEW param \in Params PROVE Lower(param.key).says = param.key.says
    BY IdentityAssumption DEF Params, Texts, Lower
  <2>. QED
    BY <2>1 DEF IsTracking, IsTracked
<1>4. P = {i \in DOMAIN q : ~IsTracked(q[i])}
  BY <1>2, <1>3
<1>5. P \in SUBSET (DOMAIN q)
  OBVIOUS
<1>6. canonicalize_url(url).query = ToBag(Pick(q, P))
  BY DEF canonicalize_url
<1>. HIDE DEF P, q
<1>7. Range(Pick(q, P)) = {q[i] : i \in P}
  BY <1>1, <1>5, PickElements
<1>8. {q[i] : i \in P} = Untracked(url)
  BY <1>4 DEF Untracked, Range, q
<1>9. \A param : CountOf(Pick(q, P), param) = CountAt(q, P, param)
  BY <1>1, <1>5, PickCounts
<1>10. ASSUME NEW param \in Untracked(url)
       PROVE  CountAt(q, P, param) = Occurrences(param, url)
  <2>1. {i \in P : q[i] = param} = {i \in DOMAIN q : q[i] = param}
    BY <1>4 DEF Untracked
  <2>. QED
    BY <2>1 DEF CountAt, Occurrences, q
<1>11. ToBag(Pick(q, P))
         = [param \in Range(Pick(q, P)) |-> CountOf(Pick(q, P), param)]
  BY DEF ToBag, CountOf
<1>. QED
  BY <1>6, <1>7, <1>8, <1>9, <1>10, <1>11

\* Two URLs have one canonical form if and only if they are of one page.
LEMMA CanonicalUrlIsPage ==
  ASSUME NEW u \in Urls, NEW v \in Urls
  PROVE  canonicalize_url(u) = canonicalize_url(v) <=> SamePage(u, v)
<1>. DEFINE cu == canonicalize_url(u)
            cv == canonicalize_url(v)
<1>1. /\ cu = [scheme |-> u.scheme, host |-> Lower(u.host), path |-> u.path,
               params |-> u.params, query |-> cu.query]
      /\ cv = [scheme |-> v.scheme, host |-> Lower(v.host), path |-> v.path,
               params |-> v.params, query |-> cv.query]
  BY DEF canonicalize_url
<1>2. Lower(u.host) = Lower(v.host) <=> u.host.says = v.host.says
  <2>1. ASSUME NEW url \in Urls
        PROVE  /\ Lower(url.host) \in Texts(STRING)
               /\ Lower(url.host).says = url.host.says
               /\ Lower(url.host).upper = FALSE /\ Lower(url.host).ragged = FALSE
    <3>1. url.host \in Texts(STRING) /\ ~url.host.ragged
      BY DEF Urls
    <3>2. url.host # Absent
      BY <3>1, IdentityAssumption
    <3>. QED
      BY <3>1, <3>2 DEF Lower, Texts
  <2>2. \A a, b \in Texts(STRING) :
          a.says = b.says /\ a.upper = b.upper /\ a.ragged = b.ragged => a = b
    BY DEF Texts
  <2>. QED
    BY <2>1, <2>2
<1>3. /\ cu.query = [param \in Untracked(u) |-> Occurrences(param, u)]
      /\ cv.query = [param \in Untracked(v) |-> Occurrences(param, v)]
  BY CanonicalQuery
<1>4. cu.query = cv.query <=>
        \A param \in Range(u.query) \cup Range(v.query) :
          ~IsTracked(param) => Occurrences(param, u) = Occurrences(param, v)
  <2>1. ASSUME cu.query = cv.query, NEW param \in Range(u.query) \cup Range(v.query),
               ~IsTracked(param)
        PROVE  Occurrences(param, u) = Occurrences(param, v)
    <3>1. Untracked(u) = Untracked(v)
      BY <1>3, <2>1
    <3>2. param \in Untracked(u) /\ param \in Untracked(v)
      BY <2>1, <3>1 DEF Untracked
    <3>. QED
      BY <1>3, <2>1, <3>2
  <2>2. ASSUME \A param \in Range(u.query) \cup Range(v.query) :
                 ~IsTracked(param) => Occurrences(param, u) = Occurrences(param, v)
        PROVE  cu.query = cv.query
    <3>1. \A param : /\ Occurrences(param, u) # 0 <=> param \in Range(u.query)
                     /\ Occurrences(param, v) # 0 <=> param \in Range(v.query)
      BY OccurrencesFacts
    <3>2. Untracked(u) = Untracked(v)
      BY <2>2, <3>1 DEF Untracked
    <3>3. \A param \in Untracked(u) : Occurrences(param, u) = Occurrences(param, v)
      BY <2>2 DEF Untracked
    <3>. QED
      BY <1>3, <3>2, <3>3
  <2>. QED
    BY <2>1, <2>2
<1>5. cu = cv <=> /\ u.scheme = v.scheme /\ Lower(u.host) = Lower(v.host)
                  /\ u.path = v.path /\ u.params = v.params /\ cu.query = cv.query
  <2>. HIDE DEF cu, cv
  <2>. QED
    BY <1>1
<1>. QED
  BY <1>2, <1>4, <1>5 DEF SamePage, IsTracked

SoundNames == [source_id : Urls \cup {Absent}, source_url : Urls]

\* Two names have one id if and only if they are of one posting.
LEMMA IdIsPosting ==
  ASSUME NEW n \in SoundNames, NEW m \in SoundNames
  PROVE  IdOfName(n) = IdOfName(m) <=> SamePosting(n, m)
<1>. DEFINE byId(x) == [tier |-> "id", id |-> x]
            byUrl(x) == [tier |-> "url", url |-> x]
<1>1. /\ \A x, y : byId(x) = byId(y) <=> x = y
      /\ \A x, y : byUrl(x) = byUrl(y) <=> x = y
  OBVIOUS
<1>2. \A x, y : byId(x) # byUrl(y)
  <2>1. \A x, y : byId(x).tier # byUrl(y).tier
    OBVIOUS
  <2>. QED
    BY <2>1, Zenon
<1>3. /\ IdOfName(n) = IF n.source_id # Absent THEN byId(n.source_id)
                       ELSE byUrl(canonicalize_url(n.source_url))
      /\ IdOfName(m) = IF m.source_id # Absent THEN byId(m.source_id)
                       ELSE byUrl(canonicalize_url(m.source_url))
  BY DEF IdOfName
<1>4. canonicalize_url(n.source_url) = canonicalize_url(m.source_url)
        <=> SamePage(n.source_url, m.source_url)
  <2>1. n.source_url \in Urls /\ m.source_url \in Urls
    BY DEF SoundNames
  <2>. QED
    BY <2>1, CanonicalUrlIsPage
<1>. HIDE DEF byId, byUrl
<1>. QED
  BY <1>1, <1>2, <1>3, <1>4 DEF SamePosting

\* The canonical id of a record is the id of its name, whatever else the item says.
LEMMA RecordName ==
  ASSUME NEW item \in Items, Usable(item), NEW at
  PROVE  /\ Name(Fields(item, at)) \in SoundNames
         /\ Fields(item, at).canonical_id = IdOfName(Name(Fields(item, at)))
         /\ Name(Fields(item, at)) = Name(Fields(item, 0))
         /\ Edition(Fields(item, at)) = Edition(Fields(item, 0))
<1>. DEFINE url == SourceUrl(item)
<1>1. url \in Urls /\ item.guid \in Urls \cup {Absent}
  BY DEF SourceUrl, Usable, Complete, Items
<1>2. url.scheme # ""
  <2>1. Fields(item, 0).source_url.scheme \in {"http", "https"}
    BY DEF Usable, Valid
  <2>2. Fields(item, 0).source_url = url
    BY DEF Fields
  <2>. QED
    BY <2>1, <2>2
<1>3. ~IsBlank(canonicalize_url(url))
  <2>1. canonicalize_url(url).scheme = url.scheme
    BY DEF canonicalize_url
  <2>. QED
    BY <1>2, <2>1 DEF IsBlank
<1>4. /\ Name(Fields(item, at)) = [source_id |-> item.guid, source_url |-> url]
      /\ Name(Fields(item, 0)) = [source_id |-> item.guid, source_url |-> url]
      /\ Edition(Fields(item, at)) = Edition(Fields(item, 0))
  BY DEF Name, Edition, Fields
<1>5. Fields(item, at).canonical_id =
        generate_canonical_id(item.guid, url, Company(item.title), JobTitle(item.title))
  BY DEF Fields
<1>. HIDE DEF url
<1>6. Fields(item, at).canonical_id =
        IF item.guid # Absent THEN [tier |-> "id", id |-> item.guid]
        ELSE [tier |-> "url", url |-> canonicalize_url(url)]
  BY <1>3, <1>5 DEF generate_canonical_id
<1>7. Fields(item, at).canonical_id = IdOfName([source_id |-> item.guid, source_url |-> url])
  BY <1>6 DEF IdOfName
<1>. QED
  BY <1>1, <1>4, <1>7 DEF SoundNames

(***************************************************************************)
(* Two records have one canonical id if and only if they are of one        *)
(* posting: spelling, tracking parameters and their order never part a     *)
(* posting, and nothing else brings two together (generate_canonical_id).  *)
(***************************************************************************)
THEOREM IdsTellPostingsApart ==
  ASSUME NEW item \in Items, Usable(item), NEW other \in Items, Usable(other),
         NEW at, NEW later
  PROVE  LET job == Fields(item, at)
             twin == Fields(other, later)
         IN  job.canonical_id = twin.canonical_id <=> SamePosting(job, twin)
<1>. DEFINE job == Fields(item, at)
            twin == Fields(other, later)
<1>1. /\ Name(job) \in SoundNames /\ Name(twin) \in SoundNames
      /\ job.canonical_id = IdOfName(Name(job))
      /\ twin.canonical_id = IdOfName(Name(twin))
  BY RecordName
<1>2. SamePosting(Name(job), Name(twin)) <=> SamePosting(job, twin)
  <2>1. /\ Name(job).source_id = job.source_id /\ Name(job).source_url = job.source_url
        /\ Name(twin).source_id = twin.source_id /\ Name(twin).source_url = twin.source_url
    BY DEF Name
  <2>. HIDE DEF job, twin
  <2>. QED
    BY <2>1 DEF SamePosting
<1>. HIDE DEF job, twin
<1>. QED
  BY <1>1, <1>2, IdIsPosting DEF job, twin

-----------------------------------------------------------------------------
(* What each item says when it stands alone.                               *)

AloneIn(item) == [form |-> "rss", items |-> <<item>>]

LEMMA AloneIsParsed ==
  ASSUME NEW item \in Items
  PROVE  LET records == parse_feed(AloneIn(item), 0).records IN
         /\ Usable(item) => records # <<>> /\ records[1] = Fields(item, 0)
         /\ ~Usable(item) => records = <<>>
<1>. DEFINE document == AloneIn(item)
            good == UsableAt(document.items)
            records == parse_feed(document, 0).records
            S == {ParseItem(item, 0)}
<1>1. document \in AllFeeds /\ document.form = "rss" /\ document.items = <<item>>
  BY DEF AllFeeds, AloneIn
<1>2. DOMAIN document.items = {1} /\ document.items[1] = item
  BY <1>1
<1>3. records = Pick(Results(document, 0), good)
  BY <1>1, ParsedFeed
<1>4. Len(records) = Cardinality(good)
  BY <1>1, ParsedFeed
<1>5. \A k \in 1..Cardinality(good) :
        At(good, k) \in good /\ records[k] = Fields(document.items[At(good, k)], 0)
  BY <1>1, ParsedFeed
<1>6. good = IF Usable(item) THEN {1} ELSE {}
  BY <1>2 DEF UsableAt
<1>7. CASE Usable(item)
  <2>1. Cardinality(good) = 1
    BY <1>6, <1>7, FS_Singleton
  <2>2. At(good, 1) \in {1} /\ records[1] = Fields(document.items[At(good, 1)], 0)
    BY <1>5, <1>6, <1>7, <2>1
  <2>3. records # <<>>
    <3>. HIDE DEF records, good
    <3>. QED
      BY <1>4, <2>1, EmptySeq
  <2>. QED
    BY <1>2, <1>7, <2>2, <2>3
<1>8. CASE ~Usable(item)
  <2>1. Cardinality(good) = 0
    BY <1>6, <1>8, FS_EmptySet
  <2>2. Results(document, 0) = [i \in 1..1 |-> ParseItem(item, 0)]
    <3>1. DOMAIN document.items = 1..1
      BY <1>2
    <3>. QED
      BY <1>2, <3>1 DEF Results
  <2>3. Results(document, 0) \in Seq(S)
    <3>1. Results(document, 0) = <<ParseItem(item, 0)>>
      BY <2>2
    <3>2. \A x : <<x>> \in Seq({x})
      OBVIOUS
    <3>. QED
      BY <3>1, <3>2, Zenon
  <2>4. good \in SUBSET (DOMAIN Results(document, 0))
    BY <1>6, <1>8
  <2>5. records \in Seq(S)
    BY <1>3, <2>3, <2>4, PickElements
  <2>. HIDE DEF records, S, good
  <2>6. records = <<>>
    BY <1>4, <2>1, <2>5, EmptySeq
  <2>. QED
    BY <1>8, <2>6 DEF records
<1>. QED
  BY <1>7, <1>8

\* The usable items of a feed make the records they would make alone.
LEMMA UsableAloneIs ==
  ASSUME NEW document \in AllFeeds, document.form = "rss"
  PROVE  LET jobs  == UsableAlone(document)
             items == document.items
             good  == UsableAt(items)
         IN  /\ DOMAIN jobs = 1..Cardinality(good)
             /\ \A k \in 1..Cardinality(good) :
                  At(good, k) \in good /\ jobs[k] = Fields(items[At(good, k)], 0)
<1>. DEFINE items == document.items
            good == UsableAt(items)
            alone == [i \in DOMAIN items |-> parse_feed(AloneIn(items[i]), 0).records]
            usable == Pick(alone, {i \in DOMAIN alone : alone[i] # <<>>})
            S == {alone[i] : i \in DOMAIN items}
<1>1. items \in Seq(Items) /\ DOMAIN items = 1..Len(items) /\ Len(items) \in Nat
  BY LenProperties DEF AllFeeds
<1>2. UsableAlone(document) = [k \in DOMAIN usable |-> usable[k][1]]
  BY DEF UsableAlone, AloneIn
<1>3. \A i \in DOMAIN items :
        /\ Usable(items[i]) => alone[i] # <<>> /\ alone[i][1] = Fields(items[i], 0)
        /\ ~Usable(items[i]) => alone[i] = <<>>
  <2>1. \A i \in DOMAIN items : items[i] \in Items
    BY <1>1
  <2>. QED
    BY <2>1, AloneIsParsed
<1>4. DOMAIN alone = DOMAIN items
  OBVIOUS
<1>5. alone \in Seq(S)
  BY <1>1
<1>. HIDE DEF alone
<1>6. {i \in DOMAIN alone : alone[i] # <<>>} = good
  BY <1>3, <1>4 DEF UsableAt
<1>7. good \in SUBSET (DOMAIN alone) /\ usable = Pick(alone, good)
  BY <1>4, <1>6 DEF UsableAt
<1>. HIDE DEF usable, good, S
<1>8. DOMAIN usable = 1..Cardinality(good)
  BY <1>5, <1>7, PickElements
<1>9. \A k \in 1..Cardinality(good) : At(good, k) \in good /\ usable[k] = alone[At(good, k)]
  BY <1>5, <1>7, PickElements
<1>10. \A i \in good : i \in DOMAIN items /\ Usable(items[i])
  BY DEF UsableAt, good
<1>11. \A k \in 1..Cardinality(good) :
         At(good, k) \in good /\ usable[k][1] = Fields(items[At(good, k)], 0)
  BY <1>3, <1>9, <1>10
<1>12. DOMAIN UsableAlone(document) = 1..Cardinality(good)
  BY <1>2, <1>8
<1>13. \A k \in 1..Cardinality(good) : UsableAlone(document)[k] = usable[k][1]
  BY <1>2, <1>8
<1>. QED
  BY <1>11, <1>12, <1>13 DEF good

-----------------------------------------------------------------------------
(* The table as a board of postings.                                       *)

\* What a document is good for, whenever it is parsed.
LEMMA FeedOfDocument ==
  ASSUME NEW document \in AllFeeds, NEW at
  PROVE  LET jobs    == UsableAlone(document)
             records == parse_feed(document, at).records
         IN  /\ DOMAIN jobs = DOMAIN records
             /\ \A i \in DOMAIN jobs :
                  /\ Name(jobs[i]) \in SoundNames
                  /\ Name(records[i]) = Name(jobs[i])
                  /\ Edition(records[i]) = Edition(jobs[i])
                  /\ records[i].canonical_id = IdOfName(Name(jobs[i]))
<1>. DEFINE jobs == UsableAlone(document)
            records == parse_feed(document, at).records
            items == document.items
            good == UsableAt(items)
<1>1. CASE document.form = "rss"
  <2>1. /\ items \in Seq(Items)
        /\ DOMAIN records = 1..Cardinality(good)
        /\ \A k \in 1..Cardinality(good) :
             At(good, k) \in good /\ records[k] = Fields(items[At(good, k)], at)
    BY <1>1, ParsedFeed
  <2>2. /\ DOMAIN jobs = 1..Cardinality(good)
        /\ \A k \in 1..Cardinality(good) : jobs[k] = Fields(items[At(good, k)], 0)
    BY <1>1, UsableAloneIs
  <2>3. \A i \in good : items[i] \in Items /\ Usable(items[i])
    BY <2>1 DEF UsableAt
  <2>. HIDE DEF jobs, records, items, good
  <2>4. ASSUME NEW i \in DOMAIN jobs
        PROVE  /\ Name(jobs[i]) \in SoundNames
               /\ Name(records[i]) = Name(jobs[i])
               /\ Edition(records[i]) = Edition(jobs[i])
               /\ records[i].canonical_id = IdOfName(Name(jobs[i]))
    <3>. DEFINE item == items[At(good, i)]
    <3>1. item \in Items /\ Usable(item)
      BY <2>1, <2>2, <2>3
    <3>2. records[i] = Fields(item, at) /\ jobs[i] = Fields(item, 0)
      BY <2>1, <2>2
    <3>. HIDE DEF item
    <3>3. /\ Name(Fields(item, at)) \in SoundNames
          /\ Fields(item, at).canonical_id = IdOfName(Name(Fields(item, at)))
          /\ Name(Fields(item, at)) = Name(Fields(item, 0))
          /\ Edition(Fields(item, at)) = Edition(Fields(item, 0))
      BY <3>1, RecordName
    <3>. QED
      BY <3>2, <3>3
  <2>. QED
    BY <2>1, <2>2, <2>4 DEF jobs, records
<1>2. CASE document.form # "rss"
  <2>1. PICK type : parse_feed(document, at) = FeedError(type)
    BY <1>2, FailedFeed
  <2>2. records = <<>>
    BY <2>1 DEF FeedError
  <2>3. jobs = <<>>
    BY <1>2 DEF UsableAlone
  <2>. HIDE DEF jobs, records
  <2>. QED
    BY <2>2, <2>3 DEF jobs, records
<1>. QED
  BY <1>1, <1>2

LEMMA NamesAreSound == Names \subseteq SoundNames
<1>1. ASSUME NEW name \in Names PROVE name \in SoundNames
  <2>1. PICK document \in Documents : \E job \in Range(UsableAlone(document)) : name = Name(job)
    BY DEF Names
  <2>2. PICK i \in DOMAIN UsableAlone(document) : name = Name(UsableAlone(document)[i])
    BY <2>1 DEF Range
  <2>3. document \in AllFeeds
    BY CatalogueAssumption
  <2>. QED
    BY <2>2, <2>3, FeedOfDocument
<1>. QED
  BY <1>1

\* A posting is what has one id.
LEMMA PostingsById ==
  ASSUME NEW p \in Postings
  PROVE  \E n \in Names : p = {m \in Names : IdOfName(m) = IdOfName(n)}
<1>1. PICK n \in Names : p = {m \in Names : SamePosting(n, m)}
  BY DEF Postings
<1>2. \A m \in Names : IdOfName(n) = IdOfName(m) <=> SamePosting(n, m)
  BY NamesAreSound, IdIsPosting
<1>. QED
  BY <1>1, <1>2

\* Every name is in one posting.
LEMMA PostingOfName ==
  ASSUME NEW x, Name(x) \in Names, NEW p \in Postings
  PROVE  PostingOf(x) = p <=> Name(x) \in p
<1>. DEFINE class == {m \in Names : SamePosting(Name(x), m)}
<1>1. class \in Postings
  BY DEF Postings
<1>2. Name(x) \in class
  BY NamesAreSound, IdIsPosting
<1>. HIDE DEF class
<1>3. PostingOf(x) \in Postings /\ Name(x) \in PostingOf(x)
  BY <1>1, <1>2 DEF PostingOf
<1>4. ASSUME NEW q \in Postings, Name(x) \in p, Name(x) \in q PROVE p = q
  <2>1. PICK n \in Names : p = {m \in Names : IdOfName(m) = IdOfName(n)}
    BY PostingsById
  <2>2. PICK k \in Names : q = {m \in Names : IdOfName(m) = IdOfName(k)}
    BY PostingsById
  <2>3. IdOfName(n) = IdOfName(Name(x)) /\ IdOfName(k) = IdOfName(Name(x))
    BY <1>4, <2>1, <2>2
  <2>. QED
    BY <2>1, <2>2, <2>3
<1>. QED
  BY <1>3, <1>4

\* Two names are in one posting if and only if they have one id.
LEMMA PostingIsId ==
  ASSUME NEW x, Name(x) \in Names, NEW y, Name(y) \in Names
  PROVE  PostingOf(x) = PostingOf(y) <=> IdOfName(Name(x)) = IdOfName(Name(y))
<1>. DEFINE class == {m \in Names : SamePosting(Name(y), m)}
<1>1. class \in Postings /\ Name(y) \in class
  BY NamesAreSound, IdIsPosting DEF Postings
<1>2. PostingOf(y) = class
  <2>. HIDE DEF class
  <2>. QED
    BY <1>1, PostingOfName
<1>3. PostingOf(x) = class <=> Name(x) \in class
  <2>. HIDE DEF class
  <2>. QED
    BY <1>1, PostingOfName
<1>4. Name(x) \in class <=> IdOfName(Name(x)) = IdOfName(Name(y))
  BY NamesAreSound, IdIsPosting
<1>. QED
  BY <1>2, <1>3, <1>4

\* A row has the id of its name, and a name that some document gives.
RowsNamed ==
  \A id \in DOMAIN store : Name(store[id]) \in Names /\ IdOfName(Name(store[id])) = id

LEMMA RowsAreNamed ==
  ASSUME BatchesParsed, TableFromBatches
  PROVE  RowsNamed
<1>1. SUFFICES ASSUME NEW id \in DOMAIN store
               PROVE  Name(store[id]) \in Names /\ IdOfName(Name(store[id])) = id
  BY DEF RowsNamed
<1>2. PICK r \in Runs : /\ stage[r] # "idle"
                        /\ \E job \in Range(batch[r].records) :
                             job.canonical_id = id /\ store[id] = job
  BY DEF TableFromBatches
<1>3. PICK at \in Nat : batch[r] = parse_feed(source[r], at)
  BY <1>2 DEF BatchesParsed
<1>4. source[r] \in Documents /\ source[r] \in AllFeeds
  BY <1>2, CatalogueAssumption DEF BatchesParsed
<1>. DEFINE records == parse_feed(source[r], at).records
            jobs == UsableAlone(source[r])
<1>5. PICK i \in DOMAIN records : records[i].canonical_id = id /\ store[id] = records[i]
  BY <1>2, <1>3 DEF Range
<1>6. /\ i \in DOMAIN jobs
      /\ Name(records[i]) = Name(jobs[i])
      /\ records[i].canonical_id = IdOfName(Name(jobs[i]))
  BY <1>4, FeedOfDocument
<1>7. Name(jobs[i]) \in Names
  BY <1>4, <1>6 DEF Names, Range
<1>. HIDE DEF records, jobs
<1>. QED
  BY <1>5, <1>6, <1>7

OneRowPerPosting ==
  \A id, other \in DOMAIN store : SamePosting(store[id], store[other]) <=> id = other

(***************************************************************************)
(* The table never holds two rows of one posting, whichever runs stored    *)
(* them and however their items were spelled (generate_canonical_id, the   *)
(* upsert on canonical_id).                                                *)
(***************************************************************************)
THEOREM PostingsHaveOneRow == Spec => []OneRowPerPosting
<1>1. ASSUME RowsNamed PROVE OneRowPerPosting
  <2>1. SUFFICES ASSUME NEW id \in DOMAIN store, NEW other \in DOMAIN store
                 PROVE  SamePosting(store[id], store[other]) <=> id = other
    BY DEF OneRowPerPosting
  <2>2. /\ Name(store[id]) \in SoundNames /\ IdOfName(Name(store[id])) = id
        /\ Name(store[other]) \in SoundNames /\ IdOfName(Name(store[other])) = other
    BY <1>1, NamesAreSound DEF RowsNamed
  <2>3. SamePosting(Name(store[id]), Name(store[other]))
          <=> SamePosting(store[id], store[other])
    BY DEF SamePosting, Name
  <2>. QED
    BY <2>2, <2>3, IdIsPosting
<1>2. BatchesParsed /\ TableFromBatches => RowsNamed
  BY RowsAreNamed
<1>. QED
  BY <1>1, <1>2, TableIsFromBatches, PTL

\* The board keeps of a posting what the row of its id holds.
BoardById ==
  \A p \in Postings : \A n \in Names :
    p = {m \in Names : IdOfName(m) = IdOfName(n)} =>
      Board[p] = IF IdOfName(n) \in DOMAIN store THEN {Edition(store[IdOfName(n)])} ELSE {}

LEMMA BoardIsById ==
  ASSUME RowsNamed
  PROVE  BoardById
<1>1. SUFFICES ASSUME NEW p \in Postings, NEW n \in Names,
                      p = {m \in Names : IdOfName(m) = IdOfName(n)}
               PROVE  Board[p] = IF IdOfName(n) \in DOMAIN store
                                 THEN {Edition(store[IdOfName(n)])} ELSE {}
  BY DEF BoardById
<1>. DEFINE k == IdOfName(n)
<1>2. \A id \in DOMAIN store : Name(store[id]) \in p <=> id = k
  BY <1>1 DEF RowsNamed
<1>3. Board[p] = {Edition(store[id]) : id \in {i \in DOMAIN store : Name(store[i]) \in p}}
  BY DEF Board
<1>. HIDE DEF k
<1>4. {i \in DOMAIN store : Name(store[i]) \in p} = IF k \in DOMAIN store THEN {k} ELSE {}
  BY <1>2
<1>. QED
  BY <1>3, <1>4 DEF k

LEMMA BoardInit == Init => JB!Init
<1>1. ASSUME Init PROVE \A p \in Postings : Board[p] = {}
  <2>1. DOMAIN store = {}
    BY <1>1 DEF Init
  <2>. QED
    BY <2>1 DEF Board
<1>2. Board = [p \in Postings |-> Board[p]]
  BY DEF Board
<1>. QED
  BY <1>1, <1>2 DEF JB!Init

\* What a run takes over, as postings and editions.
FeedOf(document) ==
  LET jobs == UsableAlone(document) IN
  [i \in DOMAIN jobs |-> [posting |-> PostingOf(jobs[i]), edition |-> Edition(jobs[i])]]

\* A committed upsert takes a feed over, as far as the limit allows.
LEMMA UpsertTakesOver ==
  ASSUME BatchesParsed, BoardById, BoardById',
         NEW r \in Runs, stage[r] # "idle", NEW limit,
         store' = Upsert(Rows(batch[r], limit))
  PROVE  JB!TakeOver(FeedOf(source[r]), limit)
<1>. DEFINE records == batch[r].records
            ids == CanonicalIds(batch[r])
            rows == Rows(batch[r], limit)
            kept == KeptAt(ids, limit)
            jobs == UsableAlone(source[r])
            feed == FeedOf(source[r])
            taken == JB!Taken(feed, limit)
<1>1. PICK at \in Nat : batch[r] = parse_feed(source[r], at)
  BY DEF BatchesParsed
<1>2. source[r] \in Documents /\ source[r] \in AllFeeds
  BY CatalogueAssumption DEF BatchesParsed
<1>3. IsList(records) /\ \A i \in DOMAIN records : job_to_row(records[i]) = records[i]
  <2>1. \A i \in DOMAIN records : records[i] \in Range(records)
    BY DEF Range
  <2>. QED
    BY <2>1, RecordsOfBatch, RowOfRecord
<1>4. /\ DOMAIN jobs = DOMAIN records
      /\ \A i \in DOMAIN records :
           /\ Edition(records[i]) = Edition(jobs[i])
           /\ records[i].canonical_id = IdOfName(Name(jobs[i]))
  BY <1>1, <1>2, FeedOfDocument
<1>5. \A i \in DOMAIN jobs : Name(jobs[i]) \in Names
  BY <1>2 DEF Names, Range
<1>6. /\ DOMAIN feed = DOMAIN records
      /\ \A i \in DOMAIN records : /\ feed[i].posting = PostingOf(jobs[i])
                                   /\ feed[i].edition = Edition(records[i])
  BY <1>4 DEF FeedOf
<1>7. /\ kept \subseteq DOMAIN records
      /\ \A i, k \in kept : records[i].canonical_id = records[k].canonical_id => i = k
      /\ DOMAIN rows = {records[i].canonical_id : i \in kept}
      /\ \A i \in kept : rows[records[i].canonical_id] = job_to_row(records[i])
  BY <1>3, RowsOfBatch
<1>8. DOMAIN ids = DOMAIN records /\ \A i \in DOMAIN records : ids[i] = records[i].canonical_id
  BY DEF CanonicalIds
<1>9. /\ DOMAIN store' = DOMAIN rows \cup DOMAIN store
      /\ \A id \in DOMAIN store' :
           store'[id] = IF id \in DOMAIN rows THEN rows[id] ELSE store[id]
  BY DEF Upsert
<1>10. taken = kept
  <2>1. JB!FirstMentions(feed) = {i \in DOMAIN feed :
          \A j \in 1..(i - 1) : feed[j].posting # feed[i].posting}
    BY DEF JB!FirstMentions
  <2>2. FirstOccurrences(ids) = {i \in DOMAIN ids : \A j \in 1..(i - 1) : ids[j] # ids[i]}
    BY DEF FirstOccurrences
  <2>3. \A i, j \in DOMAIN records : feed[i].posting = feed[j].posting <=> ids[i] = ids[j]
    <3>1. SUFFICES ASSUME NEW i \in DOMAIN records, NEW j \in DOMAIN records
                   PROVE  feed[i].posting = feed[j].posting <=> ids[i] = ids[j]
      OBVIOUS
    <3>. HIDE DEF records, ids, jobs, feed
    <3>2. PostingOf(jobs[i]) = PostingOf(jobs[j])
            <=> IdOfName(Name(jobs[i])) = IdOfName(Name(jobs[j]))
      BY <1>4, <1>5, PostingIsId
    <3>. QED
      BY <1>4, <1>6, <1>8, <3>2
  <2>4. \A i \in DOMAIN records : \A j \in 1..(i - 1) : j \in DOMAIN records
    <3>1. Len(records) \in Nat /\ DOMAIN records = 1..Len(records)
      BY <1>3 DEF IsList
    <3>. HIDE DEF records
    <3>. QED
      BY <3>1
  <2>. HIDE DEF records, ids, feed
  <2>5. JB!FirstMentions(feed) = FirstOccurrences(ids)
    BY <1>6, <1>8, <2>1, <2>2, <2>3, <2>4
  <2>6. \A S : JB!Cardinality(S) = Cardinality(S)
    BY Zenon DEF JB!Cardinality, Cardinality
  <2>. DEFINE firsts == FirstOccurrences(ids)
  <2>7. taken = {i \in firsts :
                   limit = 0 \/ JB!Cardinality({j \in firsts : j <= i}) <= limit}
    BY <2>5, Zenon DEF JB!Taken, taken
  <2>8. kept = {i \in firsts : limit = 0 \/ Cardinality({j \in firsts : j <= i}) <= limit}
    BY Zenon DEF KeptAt, kept
  <2>. HIDE DEF firsts, taken, kept
  <2>. QED
    BY <2>6, <2>7, <2>8
<1>. HIDE DEF records, ids, rows, kept, jobs, feed, taken
<1>11. ASSUME NEW p \in Postings
       PROVE  LET here == {i \in taken : feed[i].posting = p} IN
              Board'[p] = IF here = {} THEN Board[p] ELSE {feed[i].edition : i \in here}
  <2>1. PICK n \in Names : p = {m \in Names : IdOfName(m) = IdOfName(n)}
    BY PostingsById
  <2>. DEFINE k == IdOfName(n)
              here == {i \in taken : feed[i].posting = p}
  <2>2. here = {i \in kept : records[i].canonical_id = k}
    <3>1. ASSUME NEW i \in DOMAIN records
          PROVE  feed[i].posting = p <=> records[i].canonical_id = k
      <4>1. PostingOf(jobs[i]) = p <=> Name(jobs[i]) \in p
        BY <1>4, <1>5, PostingOfName
      <4>. QED
        BY <1>4, <1>5, <1>6, <2>1, <4>1
    <3>. HIDE DEF k
    <3>. QED
      BY <1>7, <1>10, <3>1
  <2>3. Board[p] = IF k \in DOMAIN store THEN {Edition(store[k])} ELSE {}
    BY <2>1 DEF BoardById
  <2>4. Board'[p] = IF k \in DOMAIN store' THEN {Edition(store'[k])} ELSE {}
    BY <2>1 DEF BoardById
  <2>. HIDE DEF k, here
  <2>5. CASE here = {}
    <3>1. k \notin DOMAIN rows
      BY <1>7, <2>2, <2>5
    <3>2. Board'[p] = Board[p]
      BY <1>9, <2>3, <2>4, <3>1
    <3>. QED
      BY <2>5, <3>2 DEF here
  <2>6. CASE here # {}
    <3>1. PICK i \in kept : records[i].canonical_id = k
      BY <2>2, <2>6
    <3>2. i \in DOMAIN records /\ k \in DOMAIN rows /\ rows[k] = records[i]
      BY <1>3, <1>7, <3>1
    <3>3. store'[k] = records[i] /\ k \in DOMAIN store'
      BY <1>9, <3>2
    <3>4. here = {i}
      BY <1>7, <2>2, <3>1
    <3>5. {feed[j].edition : j \in here} = {Edition(records[i])}
      BY <1>6, <3>2, <3>4
    <3>6. Board'[p] = {feed[j].edition : j \in here}
      BY <2>4, <3>3, <3>5
    <3>. QED
      BY <2>6, <3>6 DEF here
  <2>. QED
    BY <2>5, <2>6
<1>12. Board' = [p \in Postings |-> Board'[p]]
  BY DEF Board
<1>13. Board' = [p \in Postings |->
                   LET here == {i \in taken : feed[i].posting = p} IN
                   IF here = {} THEN Board[p] ELSE {feed[i].edition : i \in here}]
  BY <1>11, <1>12
<1>. QED
  BY <1>13 DEF JB!TakeOver, feed, taken

LEMMA BoardStep ==
  ASSUME BatchesParsed, BoardById, BoardById', [Next]_vars
  PROVE  [JB!Next]_Board
<1>1. CASE store' = store
  BY <1>1 DEF Board
<1>2. ASSUME NEW r \in Runs, stage[r] = "saving", NEW limit \in Limits,
             store' = Upsert(Rows(batch[r], limit))
      PROVE  JB!Next
  <2>1. JB!TakeOver(FeedOf(source[r]), limit)
    BY <1>2, UpsertTakesOver
  <2>2. FeedOf(source[r]) \in FeedsPublished
    BY <1>2 DEF FeedOf, FeedsPublished, BatchesParsed
  <2>. QED
    BY <2>1, <2>2 DEF JB!Next
<1>3. \/ store' = store
      \/ \E r \in Runs, limit \in Limits :
           stage[r] = "saving" /\ store' = Upsert(Rows(batch[r], limit))
  BY DEF Next, Parse, Save, OpenList, ReadPage, ReadFails, vars, runVars
<1>. QED
  BY <1>1, <1>2, <1>3

(***************************************************************************)
(* The jobs table is a board of postings, for every set of documents:      *)
(* canonical ids keep one row for each posting, however it is spelled, and *)
(* never two postings in one; an upsert takes over the first edition of    *)
(* each posting of a feed, up to the limit asked for, whatever broken      *)
(* items stand among them (generate_canonical_id, parse_feed, save_jobs).  *)
(***************************************************************************)
THEOREM CatalogueIsBoard == Spec => ImplementsBoard
<1>1. BatchesParsed /\ TableFromBatches => BoardById
  BY RowsAreNamed, BoardIsById
<1>2. BatchesParsed /\ BoardById /\ BoardById' /\ [Next]_vars => [JB!Next]_Board
  BY BoardStep
<1>3. Init => JB!Init
  BY BoardInit
<1>. QED
  BY <1>1, <1>2, <1>3, TableIsFromBatches, PTL DEF Spec, ImplementsBoard, JB!Spec
=============================================================================
