------------------------------ MODULE Identity ------------------------------
(***************************************************************************)
(* domain/identity.py: which postings are the same job.  Constant level.   *)
(*                                                                         *)
(* A text is what it says, whether it is written in capitals, and whether  *)
(* it has stray white space.  A URL is what urlparse and parse_qsl make of *)
(* it (urlparse gives the scheme in lower case).  The canonical id is the  *)
(* seed of its hash: SHA-256, cut to 64 bits, is taken to be injective.    *)
(***************************************************************************)
EXTENDS Integers, SequencesExt

CONSTANT Absent    \* None, or the empty string

Texts(words) == [says : words, upper : BOOLEAN, ragged : BOOLEAN]

Params == [key : Texts(STRING), value : STRING]

Urls ==
  [scheme : STRING, host : {text \in Texts(STRING) : ~text.ragged}, path : STRING,
   slashes : Nat, params : STRING, query : Seq(Params), fragment : BOOLEAN]

ASSUME IdentityAssumption == Absent \notin STRING \cup Texts(STRING) \cup Urls

\* A comprehension with a condition: the elements at the given positions, in their order.
Pick(s, positions) ==
  LET rank(i) == Cardinality({j \in positions : j <= i}) IN
  [k \in 1..Cardinality(positions) |-> s[CHOOSE i \in positions : rank(i) = k]]

\* Spelled in one of the ways that text.lower() makes one.
Lower(text) == IF text = Absent THEN Absent ELSE [text EXCEPT !.upper = FALSE]

normalize_string(text) ==
  IF text = Absent THEN Absent ELSE [text EXCEPT !.ragged = FALSE]

TRACKING_PARAMS ==
  {"utm_source", "utm_medium", "utm_campaign", "utm_term", "utm_content", "ref",
   "source", "fbclid", "gclid"}

\* Mutant: tracking parameters are recognised as they are spelled.
IsTrackingAsSpelled(param) == ~param.key.upper /\ param.key.says \in TRACKING_PARAMS

IsTracking(param) == Lower(param.key).says \in TRACKING_PARAMS

(***************************************************************************)
(* Sorting the parameters forgets their order: what is left of a query is  *)
(* the bag of its parameters.  The path loses its trailing slashes, its    *)
(* params (what follows a semicolon) stay, and the fragment is dropped.    *)
(***************************************************************************)
canonicalize_url(url) ==
  [scheme |-> url.scheme, host |-> Lower(url.host), path |-> url.path,
   params |-> url.params,
   query |-> ToBag(Pick(url.query, {i \in DOMAIN url.query : ~IsTracking(url.query[i])}))]

\* Nothing is left of the URL.
IsBlank(canonical) ==
  /\ canonical.scheme = "" /\ canonical.path = "" /\ canonical.params = ""
  /\ canonical.host.says = "" /\ canonical.query = EmptyBag

(***************************************************************************)
(* The source's own identifier, else the URL, else company and title; each *)
(* in a tier of its own.  A source identifier is a permanent link, without *)
(* white space for normalize_string to collapse.  A title is a sequence of *)
(* texts.                                                                  *)
(***************************************************************************)
generate_canonical_id(source_id, source_url, company, title) ==
  CASE source_id # Absent -> [tier |-> "id", id |-> source_id]
    [] source_id = Absent /\ ~IsBlank(canonicalize_url(source_url)) ->
         [tier |-> "url", url |-> canonicalize_url(source_url)]
    [] OTHER ->
         [tier |-> "composite", company |-> Lower(normalize_string(company)),
          title |-> [i \in DOMAIN title |-> Lower(normalize_string(title[i]))]]

-----------------------------------------------------------------------------
(* What the ids are meant to say, in terms of the postings themselves.     *)

Occurrences(param, url) == Cardinality({i \in DOMAIN url.query : url.query[i] = param})

\* Two URLs of one page: they differ in spelling and tracking only.
SamePage(u, v) ==
  /\ u.scheme = v.scheme /\ u.host.says = v.host.says /\ u.path = v.path
  /\ u.params = v.params
  /\ \A param \in Range(u.query) \cup Range(v.query) :
       param.key.says \notin TRACKING_PARAMS =>
         Occurrences(param, u) = Occurrences(param, v)

\* Two items of one posting: the source says so, or it says nothing and they are one page.
SamePosting(x, y) ==
  IF x.source_id # Absent \/ y.source_id # Absent THEN x.source_id = y.source_id
  ELSE SamePage(x.source_url, y.source_url)
=============================================================================
