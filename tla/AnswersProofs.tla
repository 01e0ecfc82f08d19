---------------------------- MODULE AnswersProofs -----------------------------
(***************************************************************************)
(* What the answers of the API are about, for any number of entries and    *)
(* services: the counts and the list of the queue, the entries of a list   *)
(* and their detail, and the services an overview flags.                   *)
(***************************************************************************)
EXTENDS ReadersProofs, FiniteSetTheorems, WellFoundedInduction

-----------------------------------------------------------------------------
(* Every entry has one of the statuses. *)
StatusInv == \A e \in Entries : staging[e] # None => staging[e].status \in Statuses

LEMMA StagedStatus == "staged" \in Statuses
  BY DEF Statuses

LEMMA StepKeepsStatus ==
    ASSUME RowsInv, StatusInv, ForeignNext \/ UNCHANGED foreignVars
    PROVE  StatusInv'
  <1> USE DEF StatusInv
  <1>1. PICK Values : staging \in [Entries ->
          [status : Values, created : Values, updated : Values, lease : Values,
           counted : Nat] \cup {None}]
    BY DEF RowsInv
  <1>2. ASSUME NEW e \in Entries, Stage(e) PROVE StatusInv'
    <2>1. staging'[e].status = "staged" /\ \A f \in Entries : f # e => staging'[f] = staging[f]
      BY <1>1, <1>2 DEF Stage
    <2> QED
      BY <2>1, StagedStatus
  <1>3. ASSUME NEW e \in Entries, Advance(e) PROVE StatusInv'
    <2>1. PICK s \in Advanced : staging' = [staging EXCEPT ![e].status = s,
                ![e].updated = clock,
                ![e].lease = IF s = "claimed_for_send" THEN clock ELSE None]
      BY <1>3 DEF Advance
    <2>2. staging[e] # None
      BY <1>3 DEF Advance
    <2>3. staging'[e].status = s /\ \A f \in Entries : f # e => staging'[f] = staging[f]
      BY <1>1, <2>1, <2>2
    <2> QED
      BY <2>3, AdvancedAssumption
  <1>4. ASSUME NEW e \in Entries, CountAttempts(e) PROVE StatusInv'
    <2>1. /\ staging[e] # None
          /\ staging' = [staging EXCEPT ![e].counted = attempts[e], ![e].updated = clock]
      BY <1>4 DEF CountAttempts
    <2>2. /\ staging'[e].status = staging[e].status
          /\ \A f \in Entries : f # e => staging'[f] = staging[f]
      BY <1>1, <2>1
    <2> QED
      BY <2>1, <2>2
  <1>5. \/ UNCHANGED staging
        \/ \E e \in Entries : Stage(e) \/ Advance(e) \/ CountAttempts(e)
    BY DEF ForeignNext, PromotionWrite, RecordAttempt, ServiceWrite, LineageWrite,
           DocumentWrite, Tick, foreignVars, tables, promotionTables
  <1>6. CASE UNCHANGED staging
    BY <1>6
  <1> QED
    BY <1>2, <1>3, <1>4, <1>5, <1>6

(* Two disjoint sets of entries. *)
LEMMA DisjointCounts ==
    ASSUME NEW S \in SUBSET Entries, NEW T \in SUBSET Entries, S \cap T = {}
    PROVE  /\ Cardinality(S \cup T) = Cardinality(S) + Cardinality(T)
           /\ Cardinality(S) \in Nat /\ Cardinality(T) \in Nat
  <1>1. IsFiniteSet(S) /\ IsFiniteSet(T)
    BY EntriesAreFinite, FS_Subset
  <1>2. Cardinality(S) \in Nat /\ Cardinality(T) \in Nat
    BY <1>1, FS_CardinalityType
  <1>3. Cardinality(S \cup T) = Cardinality(S) + Cardinality(T) - Cardinality(S \cap T)
    BY <1>1, FS_Union
  <1> QED
    BY <1>2, <1>3, FS_EmptySet

(* The entries of a bucket. *)
InBucket(b) == {e \in Entries : staging[e] # None /\ QueueBucket(staging[e].status) = b}

LEMMA CountsAreOfBuckets ==
    ASSUME NEW b \in Buckets
    PROVE  ComputeQueue(AnalyticsQueueRows, clock).counts[b] = Cardinality(InBucket(b))
  <1> DEFINE rows == AnalyticsQueueRows
  <1>1. /\ DOMAIN rows = {e \in Entries : staging[e] # None}
        /\ \A e \in DOMAIN rows : rows[e] = staging[e]
    BY DEF AnalyticsQueueRows
  <1>2. {e \in DOMAIN rows : QueueBucket(rows[e].status) = b} = InBucket(b)
    BY <1>1 DEF InBucket
  <1> HIDE DEF rows
  <1>3. ComputeQueue(rows, clock).counts[b] =
           Cardinality({e \in DOMAIN rows : QueueBucket(rows[e].status) = b})
    BY DEF ComputeQueue
  <1> QED
    BY <1>2, <1>3 DEF rows

(* What is not accepted is in one bucket, and has an artifact or has none. *)
LEMMA CountsMatch == StatusInv => CountsMatchList
  <1> SUFFICES ASSUME StatusInv PROVE CountsMatchList
    OBVIOUS
  <1> DEFINE Queued == InBucket("queued")
             Leased == InBucket("leased")
             Failed == InBucket("failed")
             Deferred == InBucket("deferred")
             Unlisted == {e \in Entries : /\ staging[e] # None /\ payload[e] = None
                                          /\ staging[e].status # "accepted"}
  <1>1. ASSUME NEW s \in Statuses
        PROVE  QueueBucket(s) \in Buckets <=> s # "accepted"
    BY <1>1, NoneIsNoBucket DEF Statuses, TerminalStatuses, QueueBucket, Buckets
  <1>2. Queued \cup Leased \cup (Failed \cup Deferred) = Listable \cup Unlisted
    <2> SUFFICES ASSUME NEW e \in Entries, staging[e] # None
                 PROVE  QueueBucket(staging[e].status) \in Buckets
                           <=> staging[e].status # "accepted"
      BY DEF InBucket, Buckets, Listable
    <2> QED
      BY <1>1 DEF StatusInv
  <1>3. /\ Queued \cap Leased = {} /\ Failed \cap Deferred = {}
        /\ (Queued \cup Leased) \cap (Failed \cup Deferred) = {}
        /\ Listable \cap Unlisted = {}
    BY DEF InBucket, Listable
  <1>4. /\ Queued \in SUBSET Entries /\ Leased \in SUBSET Entries
        /\ Failed \in SUBSET Entries /\ Deferred \in SUBSET Entries
        /\ Listable \in SUBSET Entries /\ Unlisted \in SUBSET Entries
    BY DEF InBucket, Listable
  <1>5. CountsMatchList <=>
           Cardinality(Queued) + Cardinality(Leased) + Cardinality(Failed)
              + Cardinality(Deferred) = Cardinality(Listable) + Cardinality(Unlisted)
    BY CountsAreOfBuckets DEF CountsMatchList, Buckets
  <1> HIDE DEF Queued, Leased, Failed, Deferred, Unlisted
  <1>6. /\ Cardinality(Queued \cup Leased) = Cardinality(Queued) + Cardinality(Leased)
        /\ Cardinality(Failed \cup Deferred) = Cardinality(Failed) + Cardinality(Deferred)
        /\ Cardinality(Queued) \in Nat /\ Cardinality(Leased) \in Nat
        /\ Cardinality(Failed) \in Nat /\ Cardinality(Deferred) \in Nat
    BY <1>3, <1>4, DisjointCounts
  <1>7. /\ Cardinality(Queued \cup Leased \cup (Failed \cup Deferred))
             = Cardinality(Queued \cup Leased) + Cardinality(Failed \cup Deferred)
        /\ Cardinality(Listable \cup Unlisted) = Cardinality(Listable) + Cardinality(Unlisted)
        /\ Cardinality(Listable) \in Nat /\ Cardinality(Unlisted) \in Nat
    <2>1. Queued \cup Leased \in SUBSET Entries /\ Failed \cup Deferred \in SUBSET Entries
      BY <1>4
    <2> QED
      BY <1>3, <1>4, <2>1, DisjointCounts
  <1>8. Cardinality(Queued) + Cardinality(Leased) + Cardinality(Failed)
           + Cardinality(Deferred) = Cardinality(Listable) + Cardinality(Unlisted)
    <2>1. Cardinality(Queued \cup Leased) + Cardinality(Failed \cup Deferred)
             = Cardinality(Listable) + Cardinality(Unlisted)
      BY <1>2, <1>7
    <2> QED
      BY <1>6, <2>1
  <1> QED
    BY <1>5, <1>8

(* The counts of the analytics are those of the entries that the queue      *)
(* lists, and of those it cannot list, whatever the worker does.            *)
THEOREM CountsMatchTheList == ReadersSpec => []CountsMatchList
  <1>1. ReadersInit => StatusInv
    BY DEF ReadersInit, ForeignInit, StatusInv
  <1>2. ReadInv /\ StatusInv /\ [ReadersNext]_vars => StatusInv'
    BY StepsOfTables, StepKeepsStatus DEF ReadInv
  <1> QED
    BY <1>1, <1>2, CountsMatch, ReadsInvariant, PTL DEF ReadersSpec

-----------------------------------------------------------------------------
(* The two plans, and what their SELECTs and answers are. *)
LEMMA ListRequests ==
    /\ Plan("slice") = <<"list">>
    /\ \A arg : ArgIsValid("slice", arg)
    /\ \A r : r.route = "slice" =>
          /\ Rows(r, "list") = QueueRows(r.arg)
          /\ Compute(r) = ComputeQueueResponse(r.read.list, clock)
  <1>1. /\ "slice" \in SliceRoutes
        /\ "slice" \notin AnalyticsRoutes \cup LineageRoutes \cup DocumentRoutes
    BY DEF AnalyticsRoutes, AnalyticsPlan, SliceRoutes, LineageRoutes, DocumentRoutes
  <1>2. Plan("slice") = <<"list">>
    BY <1>1 DEF Plan, SlicePlan
  <1>3. \A arg : ArgIsValid("slice", arg)
    BY DEF ArgIsValid
  <1>4. ASSUME NEW r, r.route = "slice"
        PROVE  /\ Rows(r, "list") = SliceRows("list", r.arg)
               /\ Compute(r) = SliceAnswer("slice", r.read)
    <2>1. /\ r.route \in SliceRoutes
          /\ r.route \notin AnalyticsRoutes \cup LineageRoutes \cup DocumentRoutes
      BY <1>1, <1>4
    <2>2. Rows(r, "list") = SliceRows("list", r.arg)
      BY <2>1, Zenon DEF Rows
    <2>3. Compute(r) = SliceAnswer(r.route, r.read)
      BY <2>1, Zenon DEF Compute
    <2> QED
      BY <1>4, <2>2, <2>3
  <1> QED
    BY <1>2, <1>3, <1>4 DEF SliceRows, SliceAnswer

OverviewPlan == <<"systems", "queue", "freshness">>

LEMMA OverviewRequests ==
    /\ Plan("overview") = OverviewPlan
    /\ \A arg : ArgIsValid("overview", arg)
    /\ \A r : r.route = "overview" =>
          /\ \A select : Rows(r, select) = AnalyticsRows(select)
          /\ Compute(r) = AnalyticsAnswer("overview", r.read, r.began)
  <1>1. "overview" \in AnalyticsRoutes
    BY DEF AnalyticsRoutes, AnalyticsPlan
  <1>2. "overview" \notin SliceRoutes \cup LineageRoutes \cup DocumentRoutes
    BY DEF SliceRoutes, LineageRoutes, DocumentRoutes
  <1>3. Plan("overview") = OverviewPlan
    <2>1. Plan("overview") = AnalyticsPlan["overview"]
      BY <1>1, <1>2, Zenon DEF Plan
    <2> QED
      BY <2>1 DEF AnalyticsPlan, OverviewPlan
  <1>4. \A arg : ArgIsValid("overview", arg)
    BY DEF ArgIsValid
  <1>5. ASSUME NEW r, r.route = "overview"
        PROVE  /\ \A select : Rows(r, select) = AnalyticsRows(select)
               /\ Compute(r) = AnalyticsAnswer("overview", r.read, r.began)
    <2>1. /\ r.route \in AnalyticsRoutes
          /\ r.route \notin SliceRoutes \cup LineageRoutes \cup DocumentRoutes
      BY <1>1, <1>2, <1>5
    <2>2. ASSUME NEW select PROVE Rows(r, select) = AnalyticsRows(select)
      BY <2>1, Zenon DEF Rows
    <2>3. Compute(r) = AnalyticsAnswer(r.route, r.read, r.began)
      BY <2>1, Zenon DEF Compute
    <2> QED
      BY <1>5, <2>2, <2>3
  <1> QED
    BY <1>3, <1>4, <1>5

(***************************************************************************)
(* The list of the queue has rows of entries that are staged.              *)
(***************************************************************************)
SliceInv(c) ==
    LET r == req[c] IN
    r.phase # "idle" /\ r.route = "slice" =>
       /\ r.todo \in {<<"list">>, <<>>}
       /\ r.todo = <<>> => \A e \in DOMAIN r.read.list : r.read.list[e].row # None
       /\ r.phase = "done" /\ r.answer.kind = "ok" =>
             r.todo = <<>> /\ \E now : r.answer = ComputeQueueResponse(r.read.list, now)

LEMMA QueueRowsAreStaged ==
    ASSUME NEW limit, NEW rows \in QueueRows(limit), NEW e \in DOMAIN rows
    PROVE  rows[e].row # None
  <1>1. PICK chosen \in Latest(Listable, [f \in Listable |-> staging[f].updated],
                               Clamp(limit, MaxRows)) :
           rows = [f \in chosen |-> [row |-> staging[f], payload |-> payload[f]]]
    BY DEF QueueRows
  <1>2. chosen \subseteq Listable
    BY <1>1 DEF Latest
  <1> QED
    BY <1>1, <1>2 DEF Listable

LEMMA StepKeepsSlice ==
    ASSUME ReadersInv, ReadInv, \A c \in Clients : SliceInv(c), [ReadersNext]_vars,
           NEW c \in Clients
    PROVE  SliceInv(c)'
  <1>1. SliceInv(c)
    OBVIOUS
  <1>2. Unavailable.kind # "ok"
    BY DEF Unavailable
  <1>3. ASSUME NEW route \in Routes, NEW arg \in Args(route), Ask(c, route, arg)
        PROVE  SliceInv(c)'
    <2>1. /\ req'[c].route = route
          /\ \/ req'[c].phase = "connect" /\ req'[c].todo = Plan(route)
             \/ ~ArgIsValid(route, arg) /\ req'[c].phase = "done"
      BY <1>3, AskBegins
    <2> QED
      BY <2>1, ListRequests DEF SliceInv
  <1>4. CASE Select(c)
    <2>1. req[c].phase = "select" /\ ~Ended(req[c])
      BY <1>4 DEF Select, ReadInv
    <2>2. PICK rows \in Rows(req[c], Head(req[c].todo)) :
              /\ req'[c].route = req[c].route
              /\ req'[c].todo = Tail(req[c].todo)
              /\ req'[c].read = Reading(req[c].read, Head(req[c].todo), rows)
              /\ req'[c].phase \in {"select", "close"}
      BY <1>4, SelectReads
    <2> SUFFICES ASSUME req[c].route = "slice" PROVE SliceInv(c)'
      BY <2>2 DEF SliceInv
    <2>3. Head(req[c].todo) = "list" /\ req'[c].todo = <<>>
      <3>1. req[c].todo \in {<<"list">>, <<>>}
        BY <1>1, <2>1 DEF SliceInv
      <3>2. req[c].todo # <<>>
        BY <2>1 DEF Ended
      <3>3. req[c].todo = <<"list">>
        BY <3>1, <3>2
      <3>4. Head(<<"list">>) = "list" /\ Tail(<<"list">>) = <<>>
        OBVIOUS
      <3> QED
        BY <2>2, <3>3, <3>4
    <2>4. rows \in QueueRows(req[c].arg)
      BY <2>2, <2>3, ListRequests
    <2>5. req'[c].read["list"] = rows
      BY <2>2, <2>3, ReadingAdds
    <2>6. \A e \in DOMAIN rows : rows[e].row # None
      BY <2>4, QueueRowsAreStaged
    <2> QED
      BY <2>2, <2>3, <2>5, <2>6 DEF SliceInv
  <1>5. CASE Close(c)
    <2>1. /\ req'[c].route = req[c].route
          /\ req'[c].todo = req[c].todo /\ req'[c].read = req[c].read
          /\ \/ req'[c].phase = "done" /\ req'[c].answer = Unavailable
             \/ req'[c].phase = "done" /\ Ended(req[c]) /\ req'[c].answer = Compute(req[c])
             \/ req'[c].phase = "connect" /\ ~Ended(req[c])
      BY <1>5, CloseComputes
    <2>2. req[c].phase = "close"
      BY <1>5 DEF Close
    <2> SUFFICES ASSUME req[c].route = "slice" PROVE SliceInv(c)'
      BY <2>1 DEF SliceInv
    <2>3. Ended(req[c]) => req[c].todo = <<>>
      BY <1>1, <2>2 DEF SliceInv, Ended
    <2>4. Compute(req[c]) = ComputeQueueResponse(req[c].read.list, clock)
      BY ListRequests
    <2> QED
      BY <1>1, <1>2, <2>1, <2>2, <2>3, <2>4 DEF SliceInv
  <1>6. CASE GoesOn(c)
    BY <1>1, <1>2, <1>6 DEF SliceInv, GoesOn
  <1> QED
    BY <1>3, <1>4, <1>5, <1>6, StepsOfRequests

(* An entry that was listed opens, or its payload is a quoted value. *)
LEMMA ListedEntriesAreDicts ==
    ASSUME NEW v, IsDict(JsonValue(JsonValue(v)))
    PROVE  IsDict(JsonValue(v)) \/ v = "quoted"
  BY DEF IsDict, JsonValue

LEMMA OpenedEntry ==
    ASSUME NEW rows, NEW now, NEW later, ComputeQueueResponse(rows, now).kind = "ok",
           \A e \in DOMAIN rows : rows[e].row # None,
           NEW e \in DOMAIN rows, NEW n
    PROVE  \/ ComputeDetailResponse([staging |-> rows[e].row, artifact |-> rows[e].payload,
                                     attempts |-> n], later).kind = "ok"
           \/ rows[e].payload = "quoted"
  <1>1. IsDict(JsonValue(JsonValue(rows[e].payload)))
    BY DEF ComputeQueueResponse, InternalError
  <1>2. IsDict(JsonValue(rows[e].payload)) \/ rows[e].payload = "quoted"
    BY <1>1, ListedEntriesAreDicts
  <1> QED
    BY <1>2 DEF ComputeDetailResponse, Ok

(* Every entry of a queue list that was given opens, but for the one quoted *)
(* kind of payload that only the list puts up with.                         *)
THEOREM ListedEntriesCanBeOpened == ReadersSpec => []ListedEntriesOpen
  <1> DEFINE Inv == \A c \in Clients : SliceInv(c)
  <1>1. ReadersInit => Inv
    BY DEF ReadersInit, NoRequest, SliceInv
  <1>2. ReadersInv /\ ReadInv /\ Inv /\ [ReadersNext]_vars => Inv'
    BY StepKeepsSlice
  <1>3. Inv => ListedEntriesOpen
    <2> SUFFICES ASSUME Inv, NEW c \in Clients,
                        req[c].route = "slice", Answered(c, "ok"),
                        NEW e \in DOMAIN req[c].answer.body
                 PROVE  LET row == req[c].read["list"][e]
                            opened == [staging |-> row.row, artifact |-> row.payload,
                                       attempts |-> row.row.counted]
                        IN \/ ComputeDetailResponse(opened, clock).kind = "ok"
                           \/ row.payload = "quoted"
      BY DEF ListedEntriesOpen
    <2> DEFINE rows == req[c].read.list
    <2>1. /\ SliceInv(c)
          /\ req[c].phase = "done" /\ req[c].answer.kind = "ok"
      BY DEF Answered
    <2>2. PICK now : req[c].answer = ComputeQueueResponse(rows, now)
      BY <2>1 DEF SliceInv
    <2>3. \A f \in DOMAIN rows : rows[f].row # None
      BY <2>1 DEF SliceInv
    <2>4. e \in DOMAIN rows
      BY <2>1, <2>2 DEF ComputeQueueResponse, InternalError, Ok
    <2> QED
      BY <2>1, <2>2, <2>3, <2>4, OpenedEntry
  <1> HIDE DEF Inv
  <1> QED
    BY <1>1, <1>2, <1>3, ReadersInvariant, ReadsInvariant, PTL DEF ReadersSpec
-----------------------------------------------------------------------------
(* Times are numbers, and a service reported at one of them or never. *)
ServiceInv ==
    /\ clock \in Nat
    /\ services \in [Services -> [enabled : BOOLEAN, state : Reported \cup {None},
                                  reported : Nat \cup {None}]]

LEMMA StepKeepsServices ==
    ASSUME ServiceInv, ForeignNext \/ UNCHANGED foreignVars
    PROVE  ServiceInv'
  <1> USE DEF ServiceInv
  <1>1. CASE Tick
    BY <1>1 DEF Tick, tables
  <1>2. CASE ServiceWrite
    <2>1. clock' = clock /\ \E s \in Services : Report(s) \/ Enable(s)
      BY <1>2 DEF ServiceWrite, WritesAs
    <2>2. ASSUME NEW s \in Services, Report(s) PROVE ServiceInv'
      BY <2>1, <2>2 DEF Report
    <2>3. ASSUME NEW s \in Services, Enable(s) PROVE ServiceInv'
      BY <2>1, <2>3 DEF Enable
    <2> QED
      BY <2>1, <2>2, <2>3
  <1>3. CASE UNCHANGED <<clock, services>>
    BY <1>3
  <1>4. PromotionWrite \/ LineageWrite \/ DocumentWrite \/ UNCHANGED foreignVars
           => UNCHANGED <<clock, services>>
    BY DEF PromotionWrite, LineageWrite, DocumentWrite, WritesAs, foreignVars, tables
  <1> QED
    BY <1>1, <1>2, <1>3, <1>4 DEF ForeignNext

(* A report that is overdue for a request that began then. *)
LateReport(at, began) == at \in Nat /\ began - at >= StaleThreshold

(***************************************************************************)
(* The services that were overdue when an overview began, and that nothing *)
(* happened to since, are among the rows of its last SELECT.               *)
(***************************************************************************)
OverviewInv(c) ==
    LET r == req[c]
        overdue == seen[c].overdue IN
    r.phase # "idle" /\ r.route = "overview" =>
       /\ r.began \in Nat
       /\ r.todo \in {OverviewPlan, <<"queue", "freshness">>, <<"freshness">>, <<>>}
       /\ r.phase # "done" => \A s \in overdue : /\ s \in Enabled
                                                 /\ LateReport(services[s].reported, r.began)
       /\ r.todo = <<>> => \A s \in overdue : /\ s \in DOMAIN r.read["freshness"]
                                              /\ LateReport(r.read["freshness"][s], r.began)
       /\ r.phase = "done" /\ r.answer.kind = "ok" =>
             r.todo = <<>> /\ r.answer = AnalyticsAnswer("overview", r.read, r.began)

LEMMA ObservedOverdue ==
    ASSUME [ReadersNext]_vars, NEW c \in Clients
    PROVE  /\ ~Resting(c) => \A s \in seen'[c].overdue :
                 s \in seen[c].overdue /\ services'[s] = services[s]
           /\ Resting(c) /\ req'[c].phase # "connect" => seen'[c].overdue = seen[c].overdue
           /\ Resting(c) /\ req'[c].phase = "connect" =>
                 seen'[c].overdue = {s \in Services : IsOverdue(s)}
  <1>1. CASE UNCHANGED vars
    BY <1>1 DEF vars, readerVars, foreignVars, tables, Resting
  <1>2. CASE ReadersNext
    BY <1>2 DEF ReadersNext, Observe
  <1> QED
    BY <1>1, <1>2

(* Which of the SELECTs of an overview are left. *)
LEMMA OverviewSteps ==
    ASSUME NEW todo \in {OverviewPlan, <<"queue", "freshness">>, <<"freshness">>, <<>>}
    PROVE  /\ todo # <<>> =>
                 /\ Head(todo) \in {"systems", "queue", "freshness"}
                 /\ Tail(todo) \in {<<"queue", "freshness">>, <<"freshness">>, <<>>}
           /\ todo # <<>> /\ Tail(todo) = <<>> => Head(todo) = "freshness"
  <1>1. CASE todo = OverviewPlan
    BY <1>1 DEF OverviewPlan
  <1>2. CASE todo = <<"queue", "freshness">>
    BY <1>2
  <1>3. CASE todo = <<"freshness">>
    BY <1>3
  <1> QED
    BY <1>1, <1>2, <1>3

(* The rows of the last SELECT have every service that is still overdue. *)
LEMMA FreshnessSelect ==
    ASSUME [ReadersNext]_vars, NEW c \in Clients, Select(c), ~Resting(c), OverviewInv(c),
           req[c].route = "overview",
           NEW rows, rows = FreshnessRows, NEW s \in seen'[c].overdue
    PROVE  s \in DOMAIN rows /\ LateReport(rows[s], req[c].began)
  <1>1. s \in seen[c].overdue
    BY ObservedOverdue
  <1>2. req[c].phase # "done" /\ req[c].phase # "idle"
    BY DEF Resting
  <1>3. s \in Enabled /\ LateReport(services[s].reported, req[c].began)
    BY <1>1, <1>2 DEF OverviewInv
  <1> QED
    BY <1>3 DEF FreshnessRows

LEMMA StepKeepsOverview ==
    ASSUME ReadersInv, ReadInv, ServiceInv, \A c \in Clients : OverviewInv(c),
           [ReadersNext]_vars, NEW c \in Clients
    PROVE  OverviewInv(c)'
  <1>1. OverviewInv(c)
    OBVIOUS
  <1>2. Unavailable.kind # "ok"
    BY DEF Unavailable
  <1>3. ASSUME ~Resting(c), req'[c].route = req[c].route, req'[c].began = req[c].began,
               req[c].route = "overview", NEW s \in seen'[c].overdue
        PROVE  /\ (s \in Enabled)'
               /\ LateReport(services'[s].reported, req'[c].began)
    <2>1. s \in seen[c].overdue /\ services'[s] = services[s]
      BY <1>3, ObservedOverdue
    <2>2. s \in Enabled /\ LateReport(services[s].reported, req[c].began)
      BY <1>1, <1>3, <2>1 DEF OverviewInv, Resting
    <2> QED
      BY <1>3, <2>1, <2>2 DEF Enabled
  <1>4. ASSUME NEW route \in Routes, NEW arg \in Args(route), Ask(c, route, arg)
        PROVE  OverviewInv(c)'
    <2> SUFFICES ASSUME req'[c].route = "overview" PROVE OverviewInv(c)'
      BY DEF OverviewInv
    <2>1. /\ req'[c].phase = "connect" /\ req'[c].todo = OverviewPlan
          /\ req'[c].began = clock
      BY <1>4, AskBegins, OverviewRequests
    <2>2. Resting(c) /\ UNCHANGED services
      BY <1>4 DEF Ask, foreignVars, tables
    <2>3. seen'[c].overdue = {s \in Services : IsOverdue(s)}
      BY <2>1, <2>2, ObservedOverdue
    <2>4. ASSUME NEW s \in seen'[c].overdue
          PROVE  (s \in Enabled)' /\ LateReport(services'[s].reported, req'[c].began)
      <3>1. s \in Services /\ IsOverdue(s)
        BY <2>3, <2>4
      <3> QED
        BY <2>1, <2>2, <3>1 DEF IsOverdue, Enabled, LateReport, ServiceInv
    <2>5. OverviewPlan # <<>>
      BY DEF OverviewPlan
    <2> QED
      BY <2>1, <2>4, <2>5 DEF OverviewInv, ServiceInv
  <1>5. CASE Select(c)
    <2>1. req[c].phase = "select" /\ ~Ended(req[c])
      BY <1>5 DEF Select, ReadInv
    <2>2. PICK rows \in Rows(req[c], Head(req[c].todo)) :
              /\ req'[c].route = req[c].route
              /\ req'[c].began = req[c].began
              /\ req'[c].todo = Tail(req[c].todo)
              /\ req'[c].read = Reading(req[c].read, Head(req[c].todo), rows)
              /\ req'[c].phase \in {"select", "close"}
      BY <1>5, SelectReads
    <2> SUFFICES ASSUME req[c].route = "overview" PROVE OverviewInv(c)'
      BY <2>2 DEF OverviewInv
    <2>3. /\ req[c].began \in Nat /\ req[c].todo # <<>>
          /\ req[c].todo \in {OverviewPlan, <<"queue", "freshness">>, <<"freshness">>, <<>>}
      BY <1>1, <2>1 DEF OverviewInv, Ended
    <2>4. req'[c].todo \in {<<"queue", "freshness">>, <<"freshness">>, <<>>}
      BY <2>2, <2>3, OverviewSteps
    <2>5. ~Resting(c)
      BY <2>1 DEF Resting
    <2>6. ASSUME req'[c].todo = <<>>, NEW s \in seen'[c].overdue
          PROVE  /\ s \in DOMAIN req'[c].read["freshness"]
                 /\ LateReport(req'[c].read["freshness"][s], req'[c].began)
      <3>1. Head(req[c].todo) = "freshness"
        BY <2>2, <2>3, <2>6, OverviewSteps
      <3>2. rows = FreshnessRows
        <4>1. rows \in AnalyticsRows("freshness")
          BY <2>2, <3>1, OverviewRequests
        <4> QED
          BY <4>1 DEF AnalyticsRows
      <3>3. req'[c].read["freshness"] = rows
        BY <2>2, <3>1, ReadingAdds
      <3> QED
        BY <1>1, <1>5, <2>2, <2>5, <2>6, <3>2, <3>3, FreshnessSelect
    <2> QED
      BY <1>3, <2>2, <2>3, <2>4, <2>5, <2>6 DEF OverviewInv
  <1>6. CASE Close(c)
    <2>1. /\ req'[c].route = req[c].route /\ req'[c].began = req[c].began
          /\ req'[c].todo = req[c].todo /\ req'[c].read = req[c].read
          /\ \/ req'[c].phase = "done" /\ req'[c].answer = Unavailable
             \/ req'[c].phase = "done" /\ Ended(req[c]) /\ req'[c].answer = Compute(req[c])
             \/ req'[c].phase = "connect" /\ ~Ended(req[c])
      BY <1>6, CloseComputes
    <2>2. req[c].phase = "close" /\ ~Resting(c)
      BY <1>6 DEF Close, Resting
    <2> SUFFICES ASSUME req[c].route = "overview" PROVE OverviewInv(c)'
      BY <2>1 DEF OverviewInv
    <2>3. Ended(req[c]) => req[c].todo = <<>>
      BY <1>1, <2>2, OverviewSteps DEF OverviewInv, Ended
    <2>4. Compute(req[c]) = AnalyticsAnswer("overview", req[c].read, req[c].began)
      BY OverviewRequests
    <2>5. \A s \in seen'[c].overdue : s \in seen[c].overdue
      BY <2>2, ObservedOverdue
    <2> QED
      BY <1>1, <1>2, <1>3, <2>1, <2>2, <2>3, <2>4, <2>5 DEF OverviewInv
  <1>7. CASE GoesOn(c)
    <2> SUFFICES ASSUME req'[c].route = "overview", req'[c].phase # "idle"
                 PROVE  OverviewInv(c)'
      BY DEF OverviewInv
    <2>1. /\ req[c].route = "overview" /\ req[c].phase # "idle"
          /\ req'[c].began = req[c].began
          /\ req'[c].todo = req[c].todo /\ req'[c].read = req[c].read
          /\ req[c].phase = "done" => req'[c].phase = "done"
          /\ req'[c].phase = "done" =>
                \/ req'[c].answer = Unavailable
                \/ req[c].phase = "done" /\ req'[c].answer = req[c].answer
      BY <1>7 DEF GoesOn
    <2>2. \A s \in seen'[c].overdue : s \in seen[c].overdue
      BY <2>1, ObservedOverdue DEF Resting
    <2>3. req'[c].phase # "done" => ~Resting(c)
      BY <2>1 DEF Resting
    <2> QED
      BY <1>1, <1>2, <1>3, <2>1, <2>2, <2>3 DEF OverviewInv
  <1> QED
    BY <1>4, <1>5, <1>6, <1>7, StepsOfRequests

(* One report that is late makes the freshness, and the overview, stale. *)
LEMMA LateReportsAreFlagged ==
    ASSUME NEW read, NEW began \in Nat, NEW s \in DOMAIN read["freshness"],
           LateReport(read["freshness"][s], began), AgingThreshold <= StaleThreshold
    PROVE  LET body == AnalyticsAnswer("overview", read, began).body
           IN "stale_source" \in body.flags /\ body.posture = "stale"
  <1> DEFINE rows == read["freshness"]
             posture == [t \in DOMAIN rows |-> PostureForAge(AgeSeconds(began, rows[t]))]
             freshness == ComputeFreshness(rows, began)
  <1>1. posture[s] = "stale"
    <2>1. /\ rows[s] \in Nat /\ rows[s] # None /\ began - rows[s] >= StaleThreshold
          /\ AgingThreshold \in Int /\ StaleThreshold \in Int
      BY NoneIsNoNumber, ThresholdsAssumption DEF LateReport
    <2>2. AgeSeconds(began, rows[s]) \in Nat /\ AgeSeconds(began, rows[s]) >= began - rows[s]
      BY <2>1 DEF AgeSeconds
    <2>3. AgeSeconds(began, rows[s]) # None
      BY <2>2, NoneIsNoNumber
    <2>4. PostureForAge(AgeSeconds(began, rows[s])) = "stale"
      <3> DEFINE age == AgeSeconds(began, rows[s])
      <3>1. age \in Int /\ age # None /\ age >= StaleThreshold
        BY <2>1, <2>2, <2>3
      <3>2. age >= AgingThreshold
        BY <2>1, <3>1
      <3> HIDE DEF age
      <3>3. ~(age < AgingThreshold) /\ ~(age < StaleThreshold)
        BY <2>1, <3>1, <3>2
      <3>4. PostureForAge(age) = "stale"
        BY <3>1, <3>3 DEF PostureForAge
      <3> QED
        BY <3>4 DEF age
    <2>5. s \in DOMAIN rows
      OBVIOUS
    <2> QED
      BY <2>4, <2>5, Zenon
  <1>2. freshness = [posture |-> OverallPosture({posture[t] : t \in DOMAIN rows}),
                     stale |-> {t \in DOMAIN rows : posture[t] = "stale"}]
    BY DEF ComputeFreshness
  <1> HIDE DEF posture, rows
  <1>3. s \in DOMAIN rows
    BY DEF rows
  <1>4. freshness.posture = "stale" /\ freshness.stale # {}
    <2>1. "stale" \in {posture[t] : t \in DOMAIN rows}
      BY <1>1, <1>3
    <2> HIDE DEF freshness
    <2> QED
      BY <1>1, <1>2, <1>3, <2>1 DEF OverallPosture
  <1>5. AnalyticsAnswer("overview", read, began).body =
           ComposeOverview(ComputeSystems(read.systems, began),
                           ComputeQueue(read.queue, began), freshness)
    BY DEF AnalyticsAnswer, Ok, rows
  <1> HIDE DEF freshness
  <1>6. ASSUME NEW systems, NEW queue
        PROVE  /\ "stale_source" \in ComposeOverview(systems, queue, freshness).flags
               /\ ComposeOverview(systems, queue, freshness).posture = "stale"
    BY <1>4 DEF ComposeOverview, OverallPosture
  <1> QED
    BY <1>5, <1>6

(* A service that was overdue when an overview was asked for, and did        *)
(* nothing since, is in the flags and makes the posture stale, however the   *)
(* other services report between the three SELECTs.                          *)
THEOREM OverdueServicesAreSeen == ReadersSpec => []OverdueServicesAreFlagged
  <1> DEFINE Inv == ServiceInv /\ \A c \in Clients : OverviewInv(c)
  <1>1. ReadersInit => Inv
    BY DEF ReadersInit, ForeignInit, NoRequest, ServiceInv, OverviewInv
  <1>2. ReadersInv /\ ReadInv /\ Inv /\ [ReadersNext]_vars => Inv'
    BY StepKeepsOverview, StepKeepsServices, StepsOfTables
  <1>3. Inv => OverdueServicesAreFlagged
    <2> SUFFICES ASSUME Inv, NEW c \in Clients,
                        req[c].route = "overview", Answered(c, "ok"),
                        NEW s \in seen[c].overdue, AgingThreshold <= StaleThreshold
                 PROVE  /\ "stale_source" \in req[c].answer.body.flags
                        /\ req[c].answer.body.posture = "stale"
      BY DEF OverdueServicesAreFlagged
    <2>1. /\ OverviewInv(c)
          /\ req[c].phase = "done" /\ req[c].answer.kind = "ok"
      BY DEF Answered
    <2>2. /\ req[c].began \in Nat
          /\ s \in DOMAIN req[c].read["freshness"]
          /\ LateReport(req[c].read["freshness"][s], req[c].began)
          /\ req[c].answer = AnalyticsAnswer("overview", req[c].read, req[c].began)
      BY <2>1 DEF OverviewInv
    <2> QED
      BY <2>2, LateReportsAreFlagged
  <1> HIDE DEF Inv
  <1> QED
    BY <1>1, <1>2, <1>3, ReadersInvariant, ReadsInvariant, PTL DEF ReadersSpec
-----------------------------------------------------------------------------
(***************************************************************************)
(* What a request can wait for.  Whatever rows there are, and whatever the *)
(* order of their times, a SELECT with a limit that is not negative has    *)
(* something it can return.                                                *)
(***************************************************************************)
LEMMA LeastOf ==
    ASSUME NEW S, S \subseteq Nat, S # {}
    PROVE  \E least \in S : \A n \in S : least <= n
  <1> DEFINE Below == OpToRel(<, Nat)
  <1>1. IsWellFoundedOn(Below, Nat)
    BY NatLessThanWellFounded
  <1> HIDE DEF Below
  <1>2. PICK least \in S : \A n \in S : ~ (<<n, least>> \in Below)
    BY <1>1, WFMin
  <1>3. ASSUME NEW n \in S PROVE least <= n
    <2>1. n \in Nat /\ least \in Nat
      OBVIOUS
    <2>2. n < least => <<n, least>> \in Below
      BY <2>1 DEF Below, OpToRel
    <2> QED
      BY <1>2, <2>1, <2>2
  <1> QED
    BY <1>3

(* Of finitely many rows, some row is among the latest. *)
LEMMA LatestRow ==
    ASSUME NEW rows, rows # {}, NEW at, NEW most \in Nat,
           \A r \in rows : at[r] \in 0..most
    PROVE  \E o \in rows : \A r \in rows : at[o] >= at[r]
  <1> DEFINE Ages == {most - at[r] : r \in rows}
  <1>1. Ages \subseteq Nat /\ Ages # {}
    OBVIOUS
  <1> HIDE DEF Ages
  <1>2. PICK least \in Ages : \A age \in Ages : least <= age
    BY <1>1, LeastOf
  <1>3. PICK o \in rows : least = most - at[o]
    BY <1>2 DEF Ages
  <1>4. ASSUME NEW r \in rows PROVE at[o] >= at[r]
    <2>1. most - at[o] <= most - at[r]
      BY <1>2, <1>3 DEF Ages
    <2>2. at[o] \in 0..most /\ at[r] \in 0..most
      OBVIOUS
    <2> QED
      BY <2>1, <2>2
  <1> QED
    BY <1>4

(* Some `size` of the rows have no other row after them: the latest of the  *)
(* rest joins the `size - 1` that have none.                                *)
LEMMA LatestOfSize ==
    ASSUME NEW rows, IsFiniteSet(rows), NEW at, NEW most \in Nat,
           \A r \in rows : at[r] \in 0..most,
           NEW size \in 0..Cardinality(rows)
    PROVE  \E chosen \in SUBSET rows :
              /\ Cardinality(chosen) = size
              /\ \A r \in chosen, o \in rows \ chosen : at[r] >= at[o]
  <1> DEFINE AreLatest(chosen, k) ==
                 /\ Cardinality(chosen) = k
                 /\ \A r \in chosen, o \in rows \ chosen : at[r] >= at[o]
             Missing == {k \in 0..Cardinality(rows) :
                            \A chosen \in SUBSET rows : ~AreLatest(chosen, k)}
  <1>1. Cardinality(rows) \in Nat
    BY FS_CardinalityType
  <1>2. ASSUME Missing # {} PROVE FALSE
    <2>1. PICK k \in Missing : \A j \in Missing : k <= j
      <3>1. Missing \subseteq Nat
        BY <1>1
      <3> HIDE DEF Missing
      <3> QED
        BY <1>2, <3>1, LeastOf
    <2>2. AreLatest({}, 0)
      BY FS_EmptySet
    <2>3. k \in 0..Cardinality(rows) /\ k # 0 /\ k - 1 \in 0..Cardinality(rows)
      BY <1>1, <2>2
    <2>4. k - 1 \notin Missing
      BY <2>1, <2>3
    <2>5. PICK chosen \in SUBSET rows : AreLatest(chosen, k - 1)
      BY <2>3, <2>4
    <2>6. chosen # rows
      BY <1>1, <2>3, <2>5
    <2>7. PICK o \in rows \ chosen : \A r \in rows \ chosen : at[o] >= at[r]
      <3> DEFINE rest == rows \ chosen
      <3>1. rest # {} /\ \A r \in rest : at[r] \in 0..most
        BY <2>6
      <3> HIDE DEF rest
      <3>2. \E o \in rest : \A r \in rest : at[o] >= at[r]
        BY <3>1, LatestRow
      <3> QED
        BY <3>2 DEF rest
    <2>8. IsFiniteSet(chosen)
      BY FS_Subset
    <2>9. Cardinality(chosen \cup {o}) = k
      <3>1. Cardinality(chosen \cup {o}) = Cardinality(chosen) + 1
        BY <2>7, <2>8, FS_AddElement
      <3> QED
        BY <1>1, <2>3, <2>5, <3>1
    <2>10. \A r \in chosen \cup {o}, p \in rows \ (chosen \cup {o}) : at[r] >= at[p]
      BY <2>5, <2>7
    <2>11. AreLatest(chosen \cup {o}, k) /\ chosen \cup {o} \in SUBSET rows
      BY <2>7, <2>9, <2>10
    <2> QED
      BY <2>1, <2>11
  <1> QED
    BY <1>2

(* The helper that models ORDER BY ... LIMIT always has a result. *)
LEMMA LatestExists ==
    ASSUME NEW rows, IsFiniteSet(rows), NEW at, NEW most \in Nat,
           \A r \in rows : at[r] \in 0..most, NEW n \in Nat
    PROVE  Latest(rows, at, n) # {}
  <1>1. Cardinality(rows) \in Nat
    BY FS_CardinalityType
  <1>2. CASE Cardinality(rows) <= n
    <2>1. rows \in Latest(rows, at, n)
      BY <1>2 DEF Latest
    <2> QED
      BY <2>1
  <1>3. CASE ~(Cardinality(rows) <= n)
    <2>1. n \in 0..Cardinality(rows)
      BY <1>1, <1>3
    <2>2. PICK chosen \in SUBSET rows :
             /\ Cardinality(chosen) = n
             /\ \A r \in chosen, o \in rows \ chosen : at[r] >= at[o]
      BY <2>1, LatestOfSize
    <2>3. chosen \in Latest(rows, at, n)
      BY <1>3, <2>2 DEF Latest
    <2> QED
      BY <2>3
  <1> QED
    BY <1>2, <1>3

LEMMA ClampIsPositive ==
    ASSUME NEW limit \in Int, NEW most \in Nat \ {0}
    PROVE  Clamp(limit, most) \in 1..most
  BY DEF Clamp

(* The SELECTs with a limit: the queue, the nodes and the proposals. *)
LEMMA LimitedSelectsReturn ==
    ASSUME ForeignInv, NEW limit \in Int
    PROVE  /\ QueueRows(limit) # {}
           /\ \A filter : NodeRows(filter, limit) # {}
           /\ \A filter : ProposalRows(filter, limit) # {}
  <1>1. /\ Clamp(limit, MaxRows) \in Nat /\ Clamp(limit, MaxProposals) \in Nat
        /\ MaxTime(writer) \in Nat
    BY ClampIsPositive, LimitsAssumption, MaxProposalsAssumption, TableBoundsAssumption
    DEF ForeignInv, ForeignTypeOK
  <1>2. QueueRows(limit) # {}
    <2> DEFINE at == [e \in Listable |-> staging[e].updated]
    <2>1. IsFiniteSet(Listable)
      BY EntriesAreFinite, FS_Subset DEF Listable
    <2>2. ASSUME NEW e \in Listable PROVE at[e] \in 0..MaxTime(writer)
      <3>1. staging[e] \in Staged
        BY DEF Listable, ForeignInv, ForeignTypeOK
      <3> QED
        BY <3>1 DEF Staged, Time
    <2> HIDE DEF at
    <2>3. Latest(Listable, at, Clamp(limit, MaxRows)) # {}
      BY <1>1, <2>1, <2>2, LatestExists
    <2> QED
      BY <2>3 DEF QueueRows, at
  <1>3. ASSUME NEW filter PROVE NodeRows(filter, limit) # {}
    <2> DEFINE rows == ExistingNodes \cap filter
    <2>1. IsFiniteSet(rows)
      BY KeysAreFinite, FS_Subset DEF ExistingNodes
    <2>2. \A n \in rows : nodes[n] \in 0..MaxTime(writer)
      BY DEF ExistingNodes, ForeignInv, ForeignTypeOK, Time
    <2> HIDE DEF rows
    <2>3. Latest(rows, nodes, Clamp(limit, MaxRows)) # {}
      BY <1>1, <2>1, <2>2, LatestExists
    <2> QED
      BY <2>3 DEF NodeRows, rows
  <1>4. ASSUME NEW filter PROVE ProposalRows(filter, limit) # {}
    <2> DEFINE rows == ExistingProposals \cap filter
    <2>1. IsFiniteSet(rows)
      BY KeysAreFinite, FS_Subset DEF ExistingProposals
    <2>2. \A d \in rows : proposals[d] \in 0..MaxTime(writer)
      BY DEF ExistingProposals, ForeignInv, ForeignTypeOK, Time
    <2> HIDE DEF rows
    <2>3. Latest(rows, proposals, Clamp(limit, MaxProposals)) # {}
      BY <1>1, <2>1, <2>2, LatestExists
    <2> QED
      BY <2>3 DEF ProposalRows, rows
  <1> QED
    BY <1>2, <1>3, <1>4

(* And with them every SELECT of every plan. *)
LEMMA SelectsReturn ==
    ASSUME ForeignInv, NEW r, r.route \in Routes, r.arg \in Args(r.route),
           NEW select \in SelectsOf(r.route)
    PROVE  Rows(r, select) # {}
  <1> USE DEF AnalyticsRoutes, AnalyticsPlan, SliceRoutes, LineageRoutes, DocumentRoutes
  <1>1. CASE r.route \in AnalyticsRoutes
    <2>1. Rows(r, select) = AnalyticsRows(select)
      BY <1>1 DEF Rows
    <2>2. select \in {"systems", "queue", "freshness"}
      BY <1>1, SelectsAre
    <2> QED
      BY <2>1, <2>2 DEF AnalyticsRows
  <1>2. CASE r.route = "slice"
    <2>1. Rows(r, select) = QueueRows(r.arg)
      BY <1>2, SelectsAre DEF Rows, SliceRows
    <2>2. r.arg \in Int
      BY <1>2, LimitsAssumption DEF Args, SliceArgs
    <2> QED
      BY <2>1, <2>2, LimitedSelectsReturn
  <1>3. CASE r.route = "sliceDetail"
    <2>1. Rows(r, select) = SliceRows(select, r.arg)
      BY <1>3 DEF Rows
    <2>2. select \in {"staging", "artifact", "attempts"}
      BY <1>3, SelectsAre
    <2> QED
      BY <2>1, <2>2 DEF SliceRows
  <1>4. CASE r.route = "nodes"
    <2>1. Rows(r, select) = NodeRows(r.arg[1], r.arg[2])
      BY <1>4, SelectsAre DEF Rows, LineageRows
    <2>2. r.arg[2] \in Int
      BY <1>4, LimitsAssumption DEF Args, LineageArgs
    <2> QED
      BY <2>1, <2>2, LimitedSelectsReturn
  <1>5. CASE r.route \in {"node", "downstream"}
    <2>1. Rows(r, select) = LineageRows(select, r.arg, r.read)
      BY <1>5 DEF Rows
    <2>2. select \in {"node", "edges", "targets"}
      BY <1>5, SelectsAre
    <2> QED
      BY <2>1, <2>2 DEF LineageRows
  <1>6. CASE r.route \in DocumentRoutes
    <2>1. Rows(r, select) = DocumentRows(select, r.arg) /\ select = r.route
      BY <1>6, SelectsAre DEF Rows
    <2>2. ASSUME r.route = "proposals" PROVE r.arg[2] \in Int
      BY <2>2, LimitsAssumption DEF Args, DocumentArgs
    <2> QED
      BY <1>6, <2>1, <2>2, LimitedSelectsReturn DEF DocumentRows
  <1> QED
    BY <1>1, <1>2, <1>3, <1>4, <1>5, <1>6 DEF Routes

(***************************************************************************)
(* No request is stuck between its question and its answer: its SELECTs    *)
(* return or its session is lost, whatever the limits asked for.  With     *)
(* RequestsNeverGoBack this is what EveryRequestIsAnswered rests on; that  *)
(* the steps are taken is the fairness of the event loop.                  *)
(***************************************************************************)
THEOREM RequestsAreNeverStuck == ReadersSpec => []RequestsCanGoOn
  <1>1. ReadersInv /\ ReadInv /\ ForeignInv /\ TodoInv => RequestsCanGoOn
    <2> SUFFICES ASSUME ReadersInv, ReadInv, ForeignInv, TodoInv,
                        NEW c \in Clients, ~Resting(c)
                 PROVE  CanGoOn(c)
      BY DEF RequestsCanGoOn
    <2>1. PICK Values : req \in [Clients -> Request(Values)]
      BY DEF ReadersInv
    <2>2. /\ req[c].phase \in {"connect", "select", "close"}
          /\ req[c].session \in {"none", "open", "lost"}
          /\ req[c].phase = "select" => req[c].session # "none"
      BY <2>1 DEF Resting, Request, Phases, ReadersInv, RequestInv
    <2>3. ASSUME req[c].phase = "select", req[c].session = "open"
          PROVE  Rows(req[c], Head(req[c].todo)) # {}
      <3>1. req[c].route \in Routes /\ req[c].arg \in Args(req[c].route)
        BY DEF Resting, ReadersInv, RequestInv, TodoInv
      <3>2. req[c].todo \in Seq(SelectsOf(req[c].route)) /\ req[c].todo # <<>>
        BY <2>3 DEF ReadInv, Ended, TodoInv
      <3>3. Head(req[c].todo) \in SelectsOf(req[c].route)
        BY <3>2, HeadTailProperties
      <3> QED
        BY <3>1, <3>3, SelectsReturn
    <2> QED
      BY <2>2, <2>3 DEF CanGoOn
  <1> QED
    BY <1>1, ReadersInvariant, ReadsInvariant, TablesInvariant, TodosInvariant, PTL
=============================================================================
