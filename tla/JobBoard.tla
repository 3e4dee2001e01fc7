------------------------------ MODULE JobBoard ------------------------------
(***************************************************************************)
(* What the job store promises, in terms of postings: it keeps, of each    *)
(* posting, one edition, the first one of the last feed that was taken     *)
(* over that far.  Nothing is forgotten.                                   *)
(***************************************************************************)
EXTENDS Naturals, Sequences, FiniteSets

CONSTANTS
  Postings,
  Feeds,     \* what may be taken over: sequences of [posting, edition]
  Limits     \* how many postings of a feed may be asked for; 0 for all

VARIABLE board    \* posting -> the editions kept of it: none, or one

\* Where a feed first mentions its postings.
FirstMentions(feed) ==
  {i \in DOMAIN feed : \A j \in 1..(i - 1) : feed[j].posting # feed[i].posting}

\* Those of the first postings, as many as the limit allows.
Taken(feed, limit) ==
  {i \in FirstMentions(feed) :
     limit = 0 \/ Cardinality({j \in FirstMentions(feed) : j <= i}) <= limit}

Init == board = [p \in Postings |-> {}]

\* The first postings of a feed are taken over in one step.
TakeOver(feed, limit) ==
  board' = [p \in Postings |->
              LET here == {i \in Taken(feed, limit) : feed[i].posting = p} IN
              IF here = {} THEN board[p] ELSE {feed[i].edition : i \in here}]

Next == \E feed \in Feeds, limit \in Limits : TakeOver(feed, limit)

Spec == Init /\ [][Next]_board
=============================================================================
