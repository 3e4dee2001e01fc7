----------------------------- MODULE MCCatalogue -----------------------------
(* Instances of Catalogue for TLC: items of four postings, in several spellings. *)
EXTENDS Catalogue

Word(says) == [says |-> says, upper |-> FALSE, ragged |-> FALSE]
Capitals(text) == [text EXCEPT !.upper = TRUE]

Param(key, value) == [key |-> Word(key), value |-> value]
Tracker == [key |-> Capitals(Word("utm_source")), value |-> "x"]

Url(path, query) ==
  [scheme |-> "https", host |-> Word("wwr"), path |-> path, slashes |-> 0,
   params |-> "", query |-> query, fragment |-> FALSE]

\* The same page, by another link.
Shared(url) ==
  [url EXCEPT !.host = Capitals(@), !.slashes = 1, !.fragment = TRUE,
              !.query = <<Tracker>> \o Reverse(@)]

Date(clock, zone) == [form |-> "rfc2822", clock |-> clock, zone |-> zone]
LocalDate(clock)  == [form |-> "variant", clock |-> clock, zone |-> Absent]

Item(guid, link, clock) ==
  [title |-> <<Word("acme"), Word("dev")>>, guid |-> guid, link |-> link,
   pubDate |-> Date(clock, 0), description |-> "text", type |-> Word("contract"),
   region |-> Absent, oversized |-> {}]

\* Posting a has a guid; it is edited, and given a later or an earlier date.
A      == Item(Url("a", <<>>), Url("a", <<>>), 2)
ALater == [A EXCEPT !.pubDate = Date(6, 2), !.title = <<Word("acme"), Word("lead"), Word("dev")>>,
                    !.link = Shared(@), !.description = "long"]
AEarlier == [A EXCEPT !.pubDate = LocalDate(1)]

\* Postings b and c have none; their links differ in one parameter.
BUrl == Url("jobs", <<Param("id", "1"), Param("lang", "en")>>)
B    == Item(Absent, BUrl, 3)
BAlias == [B EXCEPT !.link = Shared(@), !.type = Capitals(Word("full-time")),
                    !.description = Absent]
C    == [Item(Absent, Url("jobs", <<Param("id", "2")>>), 3) EXCEPT !.type = Word("gig")]

\* Posting d has no link.
D == [Item(Url("d", <<>>), Absent, 4) EXCEPT !.region = Word("usa")]

\* Items to reject.
NoCompany == [A EXCEPT !.title = <<Word("dev")>>]
NoTitle   == [A EXCEPT !.title = <<>>]
NoUrl     == [A EXCEPT !.guid = Absent, !.link = Absent]
NoDate    == [A EXCEPT !.pubDate = Absent]
BadDate   == [A EXCEPT !.pubDate = [@ EXCEPT !.form = "garbage"]]
BadScheme == [A EXCEPT !.link.scheme = "ftp"]
TooLong   == [A EXCEPT !.oversized = {"title"}]
BlankText == [A EXCEPT !.description = "blank"]

Rss(items) == [form |-> "rss", items |-> items]

Unreadable == {[form |-> f, items |-> <<>>] : f \in {"malformed", "forbidden", "noChannel"}}

Feeds ==
  {Rss(<<A, B>>), Rss(<<NoCompany, BAlias, BadDate, ALater, A>>), Rss(<<C, TooLong, D>>),
   Rss(<<AEarlier, BlankText, BAlias>>), Rss(<<NoTitle, NoUrl, NoDate, BadScheme>>), Rss(<<>>)}

AllDocuments == Feeds \cup Unreadable

SessionZones == {-5, 0, 2}

\* Runs are told apart by what they parsed only.
RunSymmetry == Permutations(Runs)

EditedFeeds == {Rss(<<A, B>>), Rss(<<ALater>>), Rss(<<BAlias>>)}
=============================================================================
