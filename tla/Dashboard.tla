----------------------------- MODULE Dashboard -----------------------------
(***************************************************************************)
(* The dashboard page (static/app.js): the activations of its asynchronous *)
(* functions, which share the page's variables and are resumed in the      *)
(* order in which the API answers.  A step is the code between two awaits. *)
(*                                                                         *)
(* A list of jobs is the page asked for and the number of jobs stored when *)
(* the API read it.  loadJobCount and loadLatestRun only show figures: they *)
(* are one load here, of which nothing but the wait for it is kept.        *)
(***************************************************************************)
EXTENDS Naturals, Sequences, FiniteSets

CONSTANTS
  Clicks,      \* the activations that the user's clicks start
  Visit,       \* the activation of initDashboard
  PageSize,
  MaxJobs      \* bound of the number of jobs stored

ASSUME DashboardAssumption ==
  /\ IsFiniteSet(Clicks) /\ Visit \notin Clicks
  /\ PageSize \in Nat \ {0}
  /\ MaxJobs \in Nat

Tasks == Clicks \cup {Visit}

VARIABLES
  stored,       \* the number of jobs in the store
  firstVisit,   \* localStorage had no "acdyon_has_visited" when the page was opened
  step,         \* where each activation is
  pending,      \* the loads it awaits
  page,         \* the page its loadJobs asks for
  asked,        \* the number of jobs stored when it asked
  failed,       \* those whose POST /ingest was answered with a 502
  view,         \* what the page shows of the jobs, and the variables behind it
  button,       \* btn-ingest: disabled, dataset.busy
  errorBanner, offlineBanner

taskVars == <<step, pending, page, asked, failed>>
vars == <<stored, firstVisit, taskVars, view, button, errorBanner, offlineBanner>>

\* In the order in which a failed trigger makes them, one by one.
Loads == <<"figures", "health", "jobs">>
LoadKinds == {Loads[i] : i \in DOMAIN Loads}

Lists == [page : Nat \ {0}, total : 0..MaxJobs]

\* The number of rows the API returns for a page (limit and offset).
Rows(list) ==
  LET offset == (list.page - 1) * PageSize IN
  CASE list.total <= offset -> 0
    [] list.total > offset /\ list.total <= offset + PageSize -> list.total - offset
    [] OTHER -> PageSize

NoJobs == [page |-> 1, total |-> 0]

Views ==
  [cached : Lists, appState : {"fresh", "stale", "unavailable"}, staleBanner : BOOLEAN,
   table : {"loading", "jobs", "empty", "error", "unavailable"}, rows : Lists,
   currentPage : Nat \ {0}, next : BOOLEAN]

-----------------------------------------------------------------------------
(* What a load does to the page, in one go once it is answered.            *)

\* Mutant: the stale mark is set and not shown.
MarkStaleQuietly(v) ==
  IF Rows(v.cached) > 0 THEN [v EXCEPT !.appState = "stale"] ELSE v

\* There are jobs to look at, and they could not be refreshed.
MarkStale(v) ==
  IF Rows(v.cached) > 0 THEN [v EXCEPT !.appState = "stale", !.staleBanner = TRUE] ELSE v

\* Mutant: a failed load empties the cache and leaves the rows on the screen.
JobsFailedClearsCache(v) ==
  IF Rows(v.cached) > 0 THEN [MarkStale(v) EXCEPT !.cached = NoJobs]
  ELSE [v EXCEPT !.table = "error"]

\* loadJobs, with an answer that is not a list of jobs.
JobsFailed(v) ==
  IF Rows(v.cached) > 0 THEN MarkStale(v) ELSE [v EXCEPT !.table = "error"]

\* loadJobs, with a list: cache it, show it, set the page and its buttons.
JobsArrived(list) ==
  [cached |-> list, appState |-> "fresh", staleBanner |-> FALSE,
   table |-> IF Rows(list) = 0 THEN "empty" ELSE "jobs", rows |-> list,
   currentPage |-> list.page, next |-> Rows(list) = PageSize]

\* The repository answers with an empty list when its query fails.
Totals(t) == {0} \cup asked[t]..stored

\* What answers to a load of kind k of task t may make of the page.
Answered(t, k) ==
  CASE k = "jobs"   -> {JobsArrived([page |-> page[t], total |-> n]) : n \in Totals(t)}
                         \cup {JobsFailed(view)}
    [] k = "health" -> {view, MarkStale(view)}
    [] OTHER        -> {view}

-----------------------------------------------------------------------------
Init ==
  /\ stored \in 0..MaxJobs
  /\ firstVisit \in BOOLEAN
  /\ step = [t \in Tasks |-> IF t = Visit THEN "checking" ELSE "idle"]
  /\ pending = [t \in Tasks |-> {}]
  /\ page = [t \in Tasks |-> 1]
  /\ asked = [t \in Tasks |-> 0]
  /\ failed = {}
  /\ view = [cached |-> NoJobs, appState |-> "fresh", staleBanner |-> FALSE,
             table |-> "loading", rows |-> NoJobs, currentPage |-> 1, next |-> FALSE]
  /\ button = [disabled |-> FALSE, busy |-> FALSE]
  /\ errorBanner = FALSE
  /\ offlineBanner = FALSE

Goto(t, s) == step' = [step EXCEPT ![t] = s]

\* The loads of kinds ks are sent, the jobs for page p.
Send(t, ks, p) ==
  /\ pending' = [pending EXCEPT ![t] = ks]
  /\ page' = [page EXCEPT ![t] = p]
  /\ asked' = [asked EXCEPT ![t] = stored]

\* triggerIngestion up to its first await.
Trigger(t) ==
  /\ Goto(t, "posting")
  /\ button' = [disabled |-> TRUE, busy |-> TRUE]
  /\ errorBanner' = FALSE

\* Mutant: the button is enabled though an ingestion is under way.
EnableAnyway == [button EXCEPT !.disabled = FALSE]

\* checkApiHealth finds the API up: the button is enabled, unless it is busy.
EnableUnlessBusy == IF button.busy THEN button ELSE [button EXCEPT !.disabled = FALSE]

\* The API is up: a first visit triggers an ingestion, a later one loads what there is.
Online ==
  /\ step[Visit] = "checking"
  /\ offlineBanner' = FALSE
  /\ \/ /\ firstVisit
        /\ Trigger(Visit)
        /\ UNCHANGED <<pending, page, asked>>
     \/ /\ ~firstVisit
        /\ Goto(Visit, "loading")
        /\ Send(Visit, LoadKinds, view.currentPage)
        /\ button' = EnableUnlessBusy
        /\ UNCHANGED errorBanner
  /\ UNCHANGED <<stored, firstVisit, failed, view>>

\* The API is down: the page says so, and nothing is loaded.
Offline ==
  /\ step[Visit] = "checking"
  /\ Goto(Visit, "over")
  /\ offlineBanner' = TRUE
  /\ button' = [button EXCEPT !.disabled = TRUE]
  /\ view' = [view EXCEPT !.appState = "unavailable", !.table = "unavailable"]
  /\ UNCHANGED <<stored, firstVisit, pending, page, asked, failed, errorBanner>>

ClickIngest(t) ==
  /\ step[t] = "idle" /\ ~button.disabled
  /\ Trigger(t)
  /\ UNCHANGED <<stored, firstVisit, pending, page, asked, failed, view, offlineBanner>>

\* Mutant: the page before the first one can be asked for.
ClickPageUnguarded(t) ==
  /\ step[t] = "idle"
  /\ \/ Send(t, {"jobs"}, view.currentPage - 1)
     \/ view.next /\ Send(t, {"jobs"}, view.currentPage + 1)
  /\ Goto(t, "loading")
  /\ UNCHANGED <<stored, firstVisit, failed, view, button, errorBanner, offlineBanner>>

\* prevPage and nextPage, by buttons that are disabled on the first and on a short page.
ClickPage(t) ==
  /\ step[t] = "idle"
  /\ \/ view.currentPage > 1 /\ Send(t, {"jobs"}, view.currentPage - 1)
     \/ view.next /\ Send(t, {"jobs"}, view.currentPage + 1)
  /\ Goto(t, "loading")
  /\ UNCHANGED <<stored, firstVisit, failed, view, button, errorBanner, offlineBanner>>

(***************************************************************************)
(* The answer to POST /ingest.  A failed run is a 502 (HttpStatus of       *)
(* Ingestion) whose body is {"detail": ...}: its data.status is undefined, *)
(* so it goes on as a success does.  Another status, or no answer, throws. *)
(***************************************************************************)
PostAnswered(t) ==
  /\ step[t] = "posting"
  /\ \E o \in {"success", "partial", "failed", "error"} :
       /\ failed' = IF o = "failed" THEN failed \cup {t} ELSE failed
       /\ errorBanner' = (errorBanner \/ o \in {"partial", "error"})
       /\ IF o = "error"
          THEN Goto(t, "recovering") /\ Send(t, {Loads[1]}, 1)
          ELSE Goto(t, "refreshing") /\ Send(t, LoadKinds, 1)
  /\ UNCHANGED <<stored, firstVisit, view, button, offlineBanner>>

\* Mutant: a trigger that failed does not give the button back.
FinallyOnSuccess(t) ==
  button' = IF step[t] = "refreshing" THEN [disabled |-> FALSE, busy |-> FALSE] ELSE button

\* The finally clause of triggerIngestion.
Finally(t) ==
  button' = IF step[t] = "loading" THEN button ELSE [disabled |-> FALSE, busy |-> FALSE]

\* A load that is not the last one of its task is answered.
LoadAnswered(t, k) ==
  /\ k \in pending[t] /\ pending[t] # {k}
  /\ view' \in Answered(t, k)
  /\ pending' = [pending EXCEPT ![t] = @ \ {k}]
  /\ UNCHANGED <<stored, firstVisit, step, page, asked, failed, button, errorBanner,
                 offlineBanner>>

\* A load of a failed trigger is answered, and the next one is sent.
NextRecoveryLoad(t) ==
  /\ step[t] = "recovering"
  /\ \E i \in 1..(Len(Loads) - 1) :
       /\ pending[t] = {Loads[i]}
       /\ view' \in Answered(t, Loads[i])
       /\ Send(t, {Loads[i + 1]}, 1)
  /\ UNCHANGED <<stored, firstVisit, step, failed, button, errorBanner, offlineBanner>>

\* The last load is answered: the task ends, a failed trigger marking the jobs as stale.
LastLoadAnswered(t) ==
  /\ \E k \in LoadKinds :
       /\ pending[t] = {k}
       /\ step[t] = "recovering" => k = "jobs"
       /\ \E v \in Answered(t, k) :
            view' = IF step[t] = "recovering" THEN MarkStale(v) ELSE v
  /\ pending' = [pending EXCEPT ![t] = {}]
  /\ page' = [page EXCEPT ![t] = 1] /\ asked' = [asked EXCEPT ![t] = 0]
  /\ failed' = failed \ {t}
  /\ Goto(t, "over")
  /\ Finally(t)
  /\ UNCHANGED <<stored, firstVisit, errorBanner, offlineBanner>>

\* An ingestion, of this page or of another client, stores a job.
JobStored ==
  /\ stored < MaxJobs
  /\ stored' = stored + 1
  /\ UNCHANGED <<firstVisit, taskVars, view, button, errorBanner, offlineBanner>>

Load(t) ==
  (\E k \in LoadKinds : LoadAnswered(t, k)) \/ NextRecoveryLoad(t) \/ LastLoadAnswered(t)

Next ==
  \/ Online \/ Offline \/ JobStored
  \/ \E t \in Clicks : ClickIngest(t) \/ ClickPage(t)
  \/ \E t \in Tasks : PostAnswered(t) \/ Load(t)

Spec == Init /\ [][Next]_vars

\* The API answers, or the browser gives up: every await of fetch is resumed.
FairSpec ==
  /\ Spec
  /\ WF_vars(Online \/ Offline)
  /\ \A t \in Tasks : WF_vars(PostAnswered(t)) /\ WF_vars(Load(t))

-----------------------------------------------------------------------------
(* Correctness.                                                            *)

TypeOK ==
  /\ stored \in 0..MaxJobs
  /\ firstVisit \in BOOLEAN
  /\ step \in [Tasks -> {"idle", "checking", "loading", "posting", "refreshing",
                         "recovering", "over"}]
  /\ pending \in [Tasks -> SUBSET LoadKinds]
  /\ page \in [Tasks -> Nat \ {0}]
  /\ asked \in [Tasks -> 0..stored]
  /\ failed \subseteq Tasks
  /\ view \in Views
  /\ button \in [disabled : BOOLEAN, busy : BOOLEAN]
  /\ {errorBanner, offlineBanner} \subseteq BOOLEAN

(***************************************************************************)
(* Answers may come in any order, but never half: the rows on the screen   *)
(* are the jobs in cachedJobs, so that every "Details" finds its job, and  *)
(* the page number and the "Next" button are those of the same answer.     *)
(***************************************************************************)
RowsHaveDetails ==
  view.table = "jobs" =>
    /\ view.rows = view.cached /\ Rows(view.rows) # 0
    /\ view.currentPage = view.rows.page
    /\ view.next = (Rows(view.rows) = PageSize)

(***************************************************************************)
(* Jobs that could not be refreshed are announced as stale, and the banner *)
(* is gone when a later answer refreshes them.                             *)
(***************************************************************************)
StaleIsAnnounced ==
  /\ view.appState = "stale" => view.staleBanner /\ Rows(view.cached) > 0
  /\ view.staleBanner => view.appState # "fresh"

\* The activations of triggerIngestion under way.
Ingesting == {t \in Tasks : step[t] \in {"posting", "refreshing", "recovering"}}

\* The first visit's own trigger, which does not look at the button.
AutoTriggered == firstVisit /\ step[Visit] # "checking" /\ ~offlineBanner

(***************************************************************************)
(* The page asks for one ingestion at a time; it may be two only after a   *)
(* first visit, whose trigger can meet one that the user clicked.          *)
(***************************************************************************)
IngestionsBounded == Cardinality(Ingesting) <= IF AutoTriggered THEN 2 ELSE 1

(***************************************************************************)
(* The button comes back: it is not left disabled, unless the page has     *)
(* found the API down.                                                     *)
(***************************************************************************)
ButtonComesBack == button.disabled ~> ~button.disabled \/ offlineBanner

-----------------------------------------------------------------------------
(* Inductive invariants.                                                   *)

\* A task awaits loads only where it has sent them.
PendingInv ==
  \A t \in Tasks : pending[t] # {} => step[t] \in {"loading", "refreshing", "recovering"}

(***************************************************************************)
(* An enabled button is a permission to start one more ingestion; there is *)
(* one permission, and the first visit's own trigger is one more.  Before  *)
(* that trigger, a button that is not busy means that nothing is under way. *)
(***************************************************************************)
ButtonInv ==
  IF AutoTriggered
  THEN Cardinality(Ingesting) + (IF button.disabled THEN 0 ELSE 1) <= 2
  ELSE /\ Cardinality(Ingesting) <= 1
       /\ Ingesting # {} => button.busy /\ button.disabled

-----------------------------------------------------------------------------
(***************************************************************************)
(* app.js shows "Ingestion run status: FAILED" for a run that failed, and  *)
(* lets the status 502 through to that branch.  A 502 never gets there.    *)
(***************************************************************************)
FailureIsAnnounced == [][failed' \subseteq failed \/ errorBanner']_vars
=============================================================================
