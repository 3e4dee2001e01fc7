----------------------------- MODULE MCIngestion -----------------------------
(* Instances of Ingestion for TLC: the batches and the symmetry.           *)
EXTENDS Ingestion, TLC

CONSTANTS a, b    \* two canonical ids

Failure(type, scope) ==
  [records |-> <<>>, errors |-> <<[type |-> type, scope |-> scope]>>]

RejectedRecord == [type |-> "INVALID_RECORD_ERROR", scope |-> "RECORD"]

Outage    == Failure("TIMEOUT_ERROR", "REQUEST")
BadFeed   == Failure("MALFORMED_RESPONSE_ERROR", "RUN")
EmptyFeed == [records |-> <<>>, errors |-> <<>>]
CleanFeed == [records |-> <<a, b>>, errors |-> <<>>]
PartFeed  == [records |-> <<a, a, b>>, errors |-> <<RejectedRecord>>]
AllBad    == [records |-> <<>>, errors |-> <<RejectedRecord, RejectedRecord>>]

\* One batch for each outcome of a run, with a duplicate and a rejected record.
FewBatches == {Outage, CleanFeed, PartFeed}
\* Also an empty feed, which is not an outage.
MoreBatches == FewBatches \cup {EmptyFeed}
\* Also the two other ways a source fails: an unreadable feed, and one with nothing usable.
AllBatches == MoreBatches \cup {BadFeed, AllBad}
OutageOnly == {Outage}

RunSymmetry == Permutations(Runs)
=============================================================================
