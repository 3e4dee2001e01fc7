--------------------------- MODULE DashboardProofs ---------------------------
(***************************************************************************)
(* Proofs about the dashboard page: its types, what it shows, and how many *)
(* ingestions it asks for, whatever the order and the number of answers.   *)
(***************************************************************************)
EXTENDS Dashboard, FiniteSetTheorems, TLAPS

-----------------------------------------------------------------------------
(* What answers make of the page.                                          *)

\* The three loads are those that kinds name.
LEMMA KindsOfLoads ==
  /\ LoadKinds = {"figures", "health", "jobs"}
  /\ Len(Loads) = 3 /\ Loads[1] = "figures" /\ Loads[2] = "health" /\ Loads[3] = "jobs"
BY DEF LoadKinds, Loads

\* The stale mark changes two fields of a view.
LEMMA MarkStaleType ==
  ASSUME NEW v \in Views
  PROVE  MarkStale(v) \in Views
BY DEF MarkStale, Views

\* Every answer leaves a view.
LEMMA AnsweredType ==
  ASSUME TypeOK, NEW t \in Tasks, NEW k, NEW v \in Answered(t, k)
  PROVE  v \in Views
<1>. USE DEF TypeOK
<1>1. CASE k = "jobs"
  <2>1. ASSUME NEW n \in Totals(t)
        PROVE  JobsArrived([page |-> page[t], total |-> n]) \in Views
    <3>1. [page |-> page[t], total |-> n] \in Lists
      BY DashboardAssumption DEF Lists, Totals
    <3>. QED
      BY <3>1 DEF JobsArrived, Views, Lists
  <2>2. JobsFailed(view) \in Views
    BY MarkStaleType DEF JobsFailed, Views
  <2>3. v = JobsFailed(view) \/ \E n \in Totals(t) :
                                  v = JobsArrived([page |-> page[t], total |-> n])
    BY <1>1 DEF Answered
  <2>. QED
    BY <2>1, <2>2, <2>3
<1>2. CASE k # "jobs"
  BY <1>2, MarkStaleType DEF Answered
<1>. QED
  BY <1>1, <1>2

\* What the page shows of the jobs: one answer, and whether it is stale.
ViewInv(v) ==
  /\ v.table = "jobs" =>
       /\ v.rows = v.cached /\ Rows(v.rows) # 0
       /\ v.currentPage = v.rows.page
       /\ v.next = (Rows(v.rows) = PageSize)
  /\ v.appState = "stale" => v.staleBanner /\ Rows(v.cached) > 0
  /\ v.staleBanner => v.appState # "fresh"

\* Marking the page as stale keeps that.
LEMMA MarkStaleKeeps ==
  ASSUME NEW v \in Views, ViewInv(v)
  PROVE  ViewInv(MarkStale(v))
BY DEF ViewInv, MarkStale, Views

\* So does every answer.
LEMMA AnsweredKeeps ==
  ASSUME view \in Views, ViewInv(view), NEW t, NEW k, NEW v \in Answered(t, k)
  PROVE  ViewInv(v)
<1>1. ASSUME NEW list PROVE ViewInv(JobsArrived(list))
  BY DEF ViewInv, JobsArrived
<1>2. ViewInv(JobsFailed(view))
  <2>1. CASE Rows(view.cached) > 0
    BY <2>1, MarkStaleKeeps DEF JobsFailed
  <2>2. CASE ~(Rows(view.cached) > 0)
    BY <2>2 DEF JobsFailed, ViewInv, Views
  <2>. QED
    BY <2>1, <2>2
<1>. QED
  BY <1>1, <1>2, MarkStaleKeeps DEF Answered

-----------------------------------------------------------------------------
(* Types.                                                                  *)

\* Loads are sent for a page that exists, with the present number of jobs.
LEMMA SendType ==
  ASSUME TypeOK, NEW t \in Tasks, NEW ks \in SUBSET LoadKinds, NEW p \in Nat \ {0},
         Send(t, ks, p), UNCHANGED stored
  PROVE  /\ pending' \in [Tasks -> SUBSET LoadKinds]
         /\ page' \in [Tasks -> Nat \ {0}]
         /\ asked' \in [Tasks -> 0..stored']
BY DashboardAssumption DEF TypeOK, Send

\* Every step keeps the types.
LEMMA TypeStep ==
  ASSUME TypeOK, [Next]_vars
  PROVE  TypeOK'
<1>s. ASSUME NEW t \in Tasks, NEW ks \in SUBSET LoadKinds, Send(t, ks, 1), UNCHANGED stored
      PROVE  /\ pending' \in [Tasks -> SUBSET LoadKinds]
             /\ page' \in [Tasks -> Nat \ {0}]
             /\ asked' \in [Tasks -> 0..stored']
  BY <1>s, SendType
<1>. USE DEF TypeOK
<1>0. Visit \in Tasks /\ Clicks \subseteq Tasks
  BY DEF Tasks
<1>1. CASE Online
  <2>1. CASE Trigger(Visit) /\ UNCHANGED <<pending, page, asked>>
    BY <1>0, <1>1, <2>1 DEF Online, Trigger, Goto
  <2>2. CASE Send(Visit, LoadKinds, view.currentPage) /\ Goto(Visit, "loading")
             /\ button' = EnableUnlessBusy /\ UNCHANGED errorBanner
    <3>1. view.currentPage \in Nat \ {0}
      BY DEF Views
    <3>. QED
      BY <1>0, <1>1, <2>2, <3>1, SendType DEF Online, Goto, EnableUnlessBusy
  <2>. QED
    BY <1>1, <2>1, <2>2 DEF Online
<1>2. CASE Offline
  BY <1>0, <1>2 DEF Offline, Goto, Views
<1>3. ASSUME NEW t \in Clicks, ClickIngest(t) PROVE TypeOK'
  BY <1>0, <1>3 DEF ClickIngest, Trigger, Goto
<1>4. ASSUME NEW t \in Clicks, ClickPage(t) PROVE TypeOK'
  <2>1. PICK p \in Nat \ {0} : Send(t, {"jobs"}, p)
    BY <1>4 DEF ClickPage, Views
  <2>. QED
    BY <1>0, <1>4, <2>1, KindsOfLoads, SendType DEF ClickPage, Goto
<1>5. ASSUME NEW t \in Tasks, PostAnswered(t) PROVE TypeOK'
  <2>1. /\ pending' \in [Tasks -> SUBSET LoadKinds]
        /\ page' \in [Tasks -> Nat \ {0}]
        /\ asked' \in [Tasks -> 0..stored']
    <3>1. PICK ks \in SUBSET LoadKinds : Send(t, ks, 1)
      BY <1>5, KindsOfLoads DEF PostAnswered
    <3>. QED
      BY <1>s, <1>5, <3>1 DEF PostAnswered
  <2>2. step' \in [Tasks -> {"idle", "checking", "loading", "posting", "refreshing",
                             "recovering", "over"}]
    BY <1>5 DEF PostAnswered, Goto
  <2>. QED
    BY <1>5, <2>1, <2>2 DEF PostAnswered
<1>6. ASSUME NEW t \in Tasks, NEW k \in LoadKinds, LoadAnswered(t, k) PROVE TypeOK'
  <2>1. view' \in Views
    BY <1>6, AnsweredType DEF LoadAnswered
  <2>. QED
    BY <1>6, <2>1 DEF LoadAnswered
<1>7. ASSUME NEW t \in Tasks, NextRecoveryLoad(t) PROVE TypeOK'
  <2>1. PICK i \in 1..(Len(Loads) - 1) :
          view' \in Answered(t, Loads[i]) /\ Send(t, {Loads[i + 1]}, 1)
    BY <1>7 DEF NextRecoveryLoad
  <2>2. view' \in Views
    BY <2>1, AnsweredType
  <2>3. {Loads[i + 1]} \in SUBSET LoadKinds
    BY <2>1, KindsOfLoads
  <2>4. /\ pending' \in [Tasks -> SUBSET LoadKinds]
        /\ page' \in [Tasks -> Nat \ {0}]
        /\ asked' \in [Tasks -> 0..stored']
    <3>1. UNCHANGED stored
      BY <1>7 DEF NextRecoveryLoad
    <3>2. PICK ks \in SUBSET LoadKinds : Send(t, ks, 1)
      BY <2>1, <2>3
    <3>. QED
      BY <1>s, <3>1, <3>2
  <2>. QED
    BY <1>7, <2>2, <2>4 DEF NextRecoveryLoad
<1>8. ASSUME NEW t \in Tasks, LastLoadAnswered(t) PROVE TypeOK'
  <2>1. view' \in Views
    BY <1>8, AnsweredType, MarkStaleType DEF LastLoadAnswered
  <2>. QED
    BY <1>8, <2>1, DashboardAssumption DEF LastLoadAnswered, Goto, Finally
<1>9. CASE JobStored
  BY <1>9, DashboardAssumption DEF JobStored, taskVars
<1>10. CASE UNCHANGED vars
  BY <1>10 DEF vars, taskVars
<1>. QED
  BY <1>1, <1>2, <1>3, <1>4, <1>5, <1>6, <1>7, <1>8, <1>9, <1>10 DEF Next, Load

\* Type correctness: among others, no page before the first one is ever asked for.
THEOREM DashboardType == Spec => []TypeOK
<1>1. Init => TypeOK
  <2>. SUFFICES ASSUME Init PROVE TypeOK
    OBVIOUS
  <2>1. NoJobs \in Lists
    BY DashboardAssumption DEF NoJobs, Lists
  <2>2. view \in Views
    BY <2>1 DEF Init, Views
  <2>3. asked \in [Tasks -> 0..stored]
    BY DashboardAssumption DEF Init
  <2>4. step \in [Tasks -> {"idle", "checking", "loading", "posting", "refreshing",
                            "recovering", "over"}]
    BY DEF Init
  <2>5. page \in [Tasks -> Nat \ {0}] /\ pending \in [Tasks -> SUBSET LoadKinds]
    BY DEF Init
  <2>. QED
    BY <2>2, <2>3, <2>4, <2>5 DEF Init, TypeOK
<1>. QED
  BY <1>1, TypeStep, PTL DEF Spec

-----------------------------------------------------------------------------
(* What the page shows.                                                    *)

\* Every step keeps the page consistent.
LEMMA ViewStep ==
  ASSUME TypeOK, ViewInv(view), [Next]_vars
  PROVE  ViewInv(view')
<1>0. view \in Views
  BY DEF TypeOK
<1>1. ASSUME UNCHANGED view PROVE ViewInv(view')
  BY <1>1
<1>2. CASE Offline
  BY <1>0, <1>2 DEF Offline, ViewInv, Views
<1>3. ASSUME NEW t \in Tasks, Load(t) PROVE ViewInv(view')
  <2>1. CASE NextRecoveryLoad(t) \/ \E k \in LoadKinds : LoadAnswered(t, k)
    BY <1>0, <2>1, AnsweredKeeps DEF NextRecoveryLoad, LoadAnswered
  <2>2. CASE LastLoadAnswered(t)
    <3>1. PICK k \in LoadKinds : \E v \in Answered(t, k) :
            view' = IF step[t] = "recovering" THEN MarkStale(v) ELSE v
      BY <2>2 DEF LastLoadAnswered
    <3>. PICK v \in Answered(t, k) :
            view' = IF step[t] = "recovering" THEN MarkStale(v) ELSE v
      BY <3>1
    <3>2. v \in Views /\ ViewInv(v)
      BY <1>0, AnsweredType, AnsweredKeeps
    <3>. QED
      BY <3>2, MarkStaleKeeps
  <2>. QED
    BY <1>3, <2>1, <2>2 DEF Load
<1>4. ASSUME Online \/ JobStored \/ UNCHANGED vars
             \/ (\E t \in Clicks : ClickIngest(t) \/ ClickPage(t))
             \/ (\E t \in Tasks : PostAnswered(t))
      PROVE  UNCHANGED view
  BY <1>4 DEF Online, JobStored, vars, ClickIngest, ClickPage, PostAnswered
<1>. QED
  BY <1>1, <1>2, <1>3, <1>4 DEF Next

\* The page is consistent after every sequence of clicks and answers.
LEMMA ViewInvariant == Spec => [](ViewInv(view))
<1>1. Init => ViewInv(view)
  BY DEF Init, ViewInv
<1>2. TypeOK /\ ViewInv(view) /\ [Next]_vars => ViewInv(view)'
  BY ViewStep
<1>. QED
  BY <1>1, <1>2, DashboardType, PTL DEF Spec

\* The rows on the screen, the cache, the page number and the "Next" button are of one answer.
THEOREM RowsAlwaysHaveDetails == Spec => []RowsHaveDetails
<1>1. ViewInv(view) => RowsHaveDetails
  BY DEF ViewInv, RowsHaveDetails
<1>. QED
  BY <1>1, ViewInvariant, PTL

\* Stale jobs are announced, and refreshed ones are not.
THEOREM StaleAlwaysAnnounced == Spec => []StaleIsAnnounced
<1>1. ViewInv(view) => StaleIsAnnounced
  BY DEF ViewInv, StaleIsAnnounced
<1>. QED
  BY <1>1, ViewInvariant, PTL

-----------------------------------------------------------------------------
(* The ingestions asked for.                                               *)

\* Loads are awaited only where they were sent.
LEMMA PendingStep ==
  ASSUME TypeOK, PendingInv, [Next]_vars
  PROVE  PendingInv'
<1>. USE DEF TypeOK, PendingInv
<1>1. CASE Online
  BY <1>1 DEF Online, Trigger, Send, Goto
<1>2. CASE Offline
  BY <1>2 DEF Offline, Goto
<1>3. ASSUME NEW t \in Clicks, ClickIngest(t) \/ ClickPage(t) PROVE PendingInv'
  BY <1>3 DEF ClickIngest, ClickPage, Trigger, Send, Goto, Tasks
<1>4. ASSUME NEW t \in Tasks, PostAnswered(t) PROVE PendingInv'
  BY <1>4 DEF PostAnswered, Send, Goto
<1>5. ASSUME NEW t \in Tasks, Load(t) PROVE PendingInv'
  BY <1>5 DEF Load, LoadAnswered, NextRecoveryLoad, LastLoadAnswered, Send, Goto
<1>6. CASE JobStored \/ UNCHANGED vars
  BY <1>6 DEF JobStored, vars, taskVars
<1>. QED
  BY <1>1, <1>2, <1>3, <1>4, <1>5, <1>6 DEF Next

\* One task more, and one less, count for one.
LEMMA CountTasks ==
  ASSUME NEW S \in SUBSET Tasks, NEW t
  PROVE  /\ Cardinality(S) \in Nat
         /\ S = {} <=> Cardinality(S) = 0
         /\ Cardinality(S \cup {t}) <= Cardinality(S) + 1
         /\ t \in S => Cardinality(S \ {t}) = Cardinality(S) - 1
<1>1. IsFiniteSet(Tasks)
  BY DashboardAssumption, FS_AddElement DEF Tasks
<1>2. IsFiniteSet(S)
  BY <1>1, FS_Subset
<1>3. Cardinality(S) \in Nat /\ (S = {} <=> Cardinality(S) = 0)
  BY <1>2, FS_CardinalityType, FS_EmptySet
<1>4. Cardinality(S \cup {t}) = IF t \in S THEN Cardinality(S) ELSE Cardinality(S) + 1
  BY <1>2, FS_AddElement
<1>5. Cardinality(S \ {t}) = IF t \in S THEN Cardinality(S) - 1 ELSE Cardinality(S)
  BY <1>2, FS_RemoveElement
<1>. QED
  BY <1>3, <1>4, <1>5

\* Every step keeps the account of the button and of the ingestions under way.
LEMMA ButtonStep ==
  ASSUME TypeOK, PendingInv, ButtonInv, [Next]_vars
  PROVE  ButtonInv'
<1>. USE DEF TypeOK
<1>0. Visit \in Tasks /\ Clicks \subseteq Tasks /\ Visit \notin Clicks
  BY DashboardAssumption DEF Tasks
<1>. /\ Ingesting \in SUBSET Tasks
     /\ Ingesting' \in SUBSET Tasks
  BY DEF Ingesting
<1>c. /\ Cardinality(Ingesting) \in Nat /\ Cardinality(Ingesting') \in Nat
      /\ Ingesting = {} <=> Cardinality(Ingesting) = 0
      /\ Ingesting' = {} <=> Cardinality(Ingesting') = 0
  BY CountTasks
<1>d. \A t : Cardinality(Ingesting \cup {t}) <= Cardinality(Ingesting) + 1
  BY CountTasks
<1>e. \A t \in Ingesting : Cardinality(Ingesting \ {t}) = Cardinality(Ingesting) - 1
  BY CountTasks
<1>1. ASSUME Ingesting' = Ingesting, AutoTriggered' = AutoTriggered, UNCHANGED button
      PROVE  ButtonInv'
  BY <1>1 DEF ButtonInv
<1>2. CASE Online
  <2>1. CASE firstVisit
    <3>1. Ingesting' = Ingesting \cup {Visit} /\ button'.disabled
      BY <1>0, <1>2, <2>1 DEF Online, Trigger, Goto, Ingesting
    <3>2. Cardinality(Ingesting) <= 1
      BY <1>2, <2>1 DEF Online, AutoTriggered, ButtonInv
    <3>3. AutoTriggered'
      BY <1>0, <1>2, <2>1 DEF Online, AutoTriggered, Trigger, Goto
    <3>4. Cardinality(Ingesting') <= Cardinality(Ingesting) + 1
      BY <1>d, <3>1
    <3>. QED
      BY <1>c, <3>1, <3>2, <3>3, <3>4 DEF ButtonInv
  <2>2. CASE ~firstVisit
    <3>1. Ingesting' = Ingesting
      BY <1>0, <1>2, <2>2 DEF Online, Goto, Ingesting
    <3>2. ~AutoTriggered /\ ~AutoTriggered'
      BY <1>2, <2>2 DEF Online, AutoTriggered
    <3>3. button.busy /\ button.disabled => button'.busy /\ button'.disabled
      BY <1>2, <2>2 DEF Online, EnableUnlessBusy
    <3>. QED
      BY <3>1, <3>2, <3>3 DEF ButtonInv
  <2>. QED
    BY <2>1, <2>2
<1>3. CASE Offline
  <2>1. Ingesting' = Ingesting
    BY <1>0, <1>3 DEF Offline, Goto, Ingesting
  <2>2. ~AutoTriggered /\ ~AutoTriggered'
    BY <1>3 DEF Offline, AutoTriggered
  <2>3. button'.disabled /\ button'.busy = button.busy
    BY <1>3 DEF Offline
  <2>. QED
    BY <2>1, <2>2, <2>3 DEF ButtonInv
<1>4. ASSUME NEW t \in Clicks, ClickIngest(t) PROVE ButtonInv'
  <2>1. /\ Ingesting' = Ingesting \cup {t}
        /\ button'.disabled /\ button'.busy /\ ~button.disabled
        /\ AutoTriggered' = AutoTriggered
    BY <1>0, <1>4 DEF ClickIngest, Trigger, Goto, Ingesting, AutoTriggered
  <2>2. Cardinality(Ingesting') <= Cardinality(Ingesting) + 1
    BY <1>d, <2>1
  <2>3. IF AutoTriggered THEN Cardinality(Ingesting) <= 1 ELSE Cardinality(Ingesting) = 0
    BY <1>c, <2>1 DEF ButtonInv
  <2>. QED
    BY <1>c, <2>1, <2>2, <2>3 DEF ButtonInv
<1>5. ASSUME NEW t \in Clicks, ClickPage(t) PROVE ButtonInv'
  <2>1. Ingesting' = Ingesting /\ AutoTriggered' = AutoTriggered
    BY <1>0, <1>5 DEF ClickPage, Goto, Ingesting, AutoTriggered
  <2>. QED
    BY <1>1, <1>5, <2>1 DEF ClickPage
<1>6. ASSUME NEW t \in Tasks, PostAnswered(t) PROVE ButtonInv'
  <2>1. /\ step[t] = "posting" /\ step'[t] \in {"refreshing", "recovering"}
        /\ \A u \in Tasks \ {t} : step'[u] = step[u]
    <3>1. Goto(t, "recovering") \/ Goto(t, "refreshing")
      BY <1>6 DEF PostAnswered
    <3>2. step[t] = "posting"
      BY <1>6 DEF PostAnswered
    <3>. QED
      BY <3>1, <3>2 DEF Goto
  <2>2. Ingesting' = Ingesting /\ AutoTriggered' = AutoTriggered
    BY <1>0, <1>6, <2>1 DEF PostAnswered, Ingesting, AutoTriggered
  <2>. QED
    BY <1>1, <1>6, <2>2 DEF PostAnswered
<1>7. ASSUME NEW t \in Tasks, NextRecoveryLoad(t)
                              \/ (\E k \in LoadKinds : LoadAnswered(t, k))
      PROVE  ButtonInv'
  <2>1. UNCHANGED <<step, firstVisit, offlineBanner, button>>
    BY <1>7 DEF LoadAnswered, NextRecoveryLoad
  <2>2. Ingesting' = Ingesting /\ AutoTriggered' = AutoTriggered
    BY <2>1 DEF Ingesting, AutoTriggered
  <2>. QED
    BY <1>1, <2>1, <2>2
<1>8. ASSUME NEW t \in Tasks, LastLoadAnswered(t) PROVE ButtonInv'
  <2>1. step[t] \in {"loading", "refreshing", "recovering"}
    BY <1>8 DEF LastLoadAnswered, PendingInv
  <2>2. Ingesting' = Ingesting \ {t} /\ AutoTriggered' = AutoTriggered
    BY <1>0, <1>8, <2>1 DEF LastLoadAnswered, Goto, Ingesting, AutoTriggered
  <2>3. CASE step[t] = "loading"
    <3>1. Ingesting' = Ingesting /\ UNCHANGED button
      BY <1>8, <2>2, <2>3 DEF LastLoadAnswered, Finally, Ingesting
    <3>. QED
      BY <1>1, <2>2, <3>1
  <2>4. CASE step[t] # "loading"
    <3>0. t \in Ingesting
      BY <2>1, <2>4 DEF Ingesting
    <3>1. Cardinality(Ingesting') = Cardinality(Ingesting) - 1
      BY <1>e, <2>2, <3>0
    <3>2. ~button'.disabled
      BY <1>8, <2>4 DEF LastLoadAnswered, Finally
    <3>. QED
      BY <1>c, <2>2, <3>1, <3>2 DEF ButtonInv
  <2>. QED
    BY <2>3, <2>4
<1>9. CASE JobStored \/ UNCHANGED vars
  <2>1. UNCHANGED <<step, firstVisit, offlineBanner, button>>
    BY <1>9 DEF JobStored, vars, taskVars
  <2>2. Ingesting' = Ingesting /\ AutoTriggered' = AutoTriggered
    BY <2>1 DEF Ingesting, AutoTriggered
  <2>. QED
    BY <1>1, <2>1, <2>2
<1>. QED
  BY <1>2, <1>3, <1>4, <1>5, <1>6, <1>7, <1>8, <1>9 DEF Next, Load

\* One ingestion at a time, two with the one that a first visit triggers by itself: for any
\* number of clicks, and whatever the order of the answers.
THEOREM IngestionsAreBounded == Spec => []IngestionsBounded
<1>1. Init => PendingInv /\ ButtonInv
  <2>. SUFFICES ASSUME Init PROVE PendingInv /\ ButtonInv
    OBVIOUS
  <2>1. Ingesting = {} /\ ~AutoTriggered
    BY DEF Init, Ingesting, AutoTriggered, Tasks
  <2>2. Cardinality(Ingesting) = 0
    BY <2>1, FS_EmptySet
  <2>. QED
    BY <2>1, <2>2 DEF Init, PendingInv, ButtonInv
<1>2. ButtonInv => IngestionsBounded
  <2>1. Cardinality(Ingesting) \in Nat
    BY CountTasks DEF Ingesting
  <2>. QED
    BY <2>1 DEF ButtonInv, IngestionsBounded
<1>3. TypeOK /\ PendingInv /\ ButtonInv /\ [Next]_vars => PendingInv' /\ ButtonInv'
  BY PendingStep, ButtonStep
<1>. QED
  BY <1>1, <1>2, <1>3, DashboardType, PTL DEF Spec
=============================================================================
