---------------------------- MODULE ReadersProofs -----------------------------
(***************************************************************************)
(* The requests of the read-only API, for any clients, tables, bounds and  *)
(* thresholds, and any choice of what is asked beside a writer.            *)
(***************************************************************************)
EXTENDS Readers, SequenceTheorems, TLAPS

(* A request has these fields; what was asked, read and answered are any     *)
(* values.                                                                   *)
Request(Values) ==
    [route : Values, arg : Values, began : Values, todo : Values, read : Values,
     phase : Phases, session : {"none", "open", "lost"}, failed : BOOLEAN,
     answer : Values]

(* A request that ended was invalid, or failed, or was computed from all it *)
(* had to read.                                                             *)
IsAnswer(r) ==
    \/ r.answer = Invalid
    \/ r.failed /\ r.answer = Unavailable
    \/ ~r.failed /\ Ended(r) /\ r.answer.kind \in {"ok", "notFound", "error"}

(***************************************************************************)
(* The phase of a request tells what became of its connection, and what    *)
(* failed is on record until the request has ended as IsAnswer says.       *)
(***************************************************************************)
RequestInv(c) ==
    LET r == req[c] IN
    /\ r.phase = "idle" => r = NoRequest
    /\ r.phase # "idle" => r.route \in Routes
    /\ r.phase # "done" => r.answer = NoAnswer
    /\ r.session # "none" <=> r.phase \in {"select", "close"}
    /\ r.failed => r.phase \in {"close", "done"}
    /\ r.phase = "done" => IsAnswer(r)

ReadersInv ==
    /\ accepts \in BOOLEAN
    /\ \E Values : req \in [Clients -> Request(Values)]
    /\ \A c \in Clients : RequestInv(c)

-----------------------------------------------------------------------------
(* What is computed is never a 503, and never a 422. *)
LEMMA ComputedAnswers ==
    ASSUME NEW r, r.route \in Routes
    PROVE  Compute(r).kind \in {"ok", "notFound", "error"}
  <1> USE DEF Ok, NotFound, InternalError
  <1>1. ASSUME r.route \in AnalyticsRoutes
        PROVE  AnalyticsAnswer(r.route, r.read, r.began).kind = "ok"
    BY <1>1 DEF AnalyticsRoutes, AnalyticsPlan, AnalyticsAnswer
  <1>2. SliceAnswer(r.route, r.read).kind \in {"ok", "notFound", "error"}
    <2>1. \A rows, now : ComputeQueueResponse(rows, now).kind \in {"ok", "error"}
      BY DEF ComputeQueueResponse
    <2>2. \A read, now :
             ComputeDetailResponse(read, now).kind \in {"ok", "notFound", "error"}
      BY DEF ComputeDetailResponse
    <2> QED
      BY <2>1, <2>2 DEF SliceAnswer
  <1>3. ASSUME r.route \in LineageRoutes
        PROVE  LineageAnswer(r.route, r.read).kind \in {"ok", "notFound"}
    BY <1>3 DEF LineageRoutes, LineageAnswer, ComputeNodesResponse, ComputeNodeResponse,
                ComputeDownstreamResponse
  <1>4. ASSUME r.route \in DocumentRoutes
        PROVE  DocumentAnswer(r.route, r.read).kind \in {"ok", "notFound", "error"}
    BY <1>4 DEF DocumentRoutes, DocumentAnswer, ComputeProposalsResponse,
                ComputeProposalResponse, ComputePackResponse, ComputeApplicationsResponse
  <1>5. \/ /\ r.route \in AnalyticsRoutes
           /\ Compute(r) = AnalyticsAnswer(r.route, r.read, r.began)
        \/ r.route \in SliceRoutes /\ Compute(r) = SliceAnswer(r.route, r.read)
        \/ r.route \in LineageRoutes /\ Compute(r) = LineageAnswer(r.route, r.read)
        \/ r.route \in DocumentRoutes /\ Compute(r) = DocumentAnswer(r.route, r.read)
    BY DEF Routes, Compute, AnalyticsRoutes, AnalyticsPlan, SliceRoutes, LineageRoutes,
           DocumentRoutes
  <1> QED
    BY <1>1, <1>2, <1>3, <1>4, <1>5

(* A request that nobody proceeds with stays as it is. *)
LEMMA WaitingKeepsInv ==
    ASSUME ReadersInv, NEW c \in Clients, req'[c] = req[c], accepts' \in BOOLEAN, Observe
    PROVE  RequestInv(c)'
  BY DEF ReadersInv, RequestInv, IsAnswer, Ended

LEMMA InitSatisfiesInv == ReadersInit => ReadersInv
  <1> SUFFICES ASSUME ReadersInit PROVE ReadersInv
    OBVIOUS
  <1>1. ASSUME NEW c \in Clients PROVE req[c] = NoRequest
    BY DEF ReadersInit
  <1>2. NoRequest \in Request({None, 0, <<>>, NoAnswer})
    BY DEF Request, NoRequest, Phases
  <1>3. req \in [Clients -> Request({None, 0, <<>>, NoAnswer})]
    BY <1>2 DEF ReadersInit
  <1>4. /\ NoRequest.phase = "idle" /\ NoRequest.session = "none"
        /\ NoRequest.failed = FALSE /\ NoRequest.answer = NoAnswer
    BY DEF NoRequest
  <1>5. ASSUME NEW c \in Clients PROVE RequestInv(c)
    BY <1>1, <1>4 DEF RequestInv, Resting
  <1> QED
    BY <1>3, <1>5 DEF ReadersInit, ReadersInv

(* A step of a request, by the request r that it leaves. *)
LEMMA StepOfRequest ==
    ASSUME ReadersInv, Observe, accepts' = accepts,
           NEW c \in Clients, ~Resting(c),
           NEW Values, req \in [Clients -> Request(Values)],
           NEW r \in Request(Values),
           req' = [req EXCEPT ![c] = r],
           r.phase # "idle", r.route = req[c].route,
           r.session # "none" <=> r.phase \in {"select", "close"},
           r.failed => r.phase \in {"close", "done"},
           r.phase = "done" => IsAnswer(r),
           r.phase # "done" => r.answer = NoAnswer
    PROVE  ReadersInv'
  <1>1. req'[c] = r /\ req' \in [Clients -> Request(Values)]
    OBVIOUS
  <1>2. \A d \in Clients : d # c => req'[d] = req[d]
    OBVIOUS
  <1>3. RequestInv(c)'
    BY <1>1 DEF ReadersInv, RequestInv, Resting, Request
  <1> QED
    BY <1>1, <1>2, <1>3, WaitingKeepsInv DEF ReadersInv

LEMMA ProceedKeepsInv ==
    ASSUME ReadersInv, Observe, NEW c \in Clients, Proceed(c)
    PROVE  ReadersInv'
  <1>1. PICK Values : req \in [Clients -> Request(Values)]
    BY DEF ReadersInv
  <1>2. RequestInv(c)
    BY DEF ReadersInv
  <1> USE <1>1 DEF Request
  <1>3. CASE Connect(c)
    <2> DEFINE r == [req[c] EXCEPT !.phase = "select", !.session = "open"]
    <2>1. req' = [req EXCEPT ![c] = r] /\ accepts' = accepts /\ req[c].phase = "connect"
      BY <1>3 DEF Connect
    <2>2. r \in Request(Values) /\ ~Resting(c) /\ ~r.failed
      BY <1>2, <2>1 DEF Phases, RequestInv, Resting
    <2>3. /\ r.phase = "select" /\ r.session = "open" /\ r.route = req[c].route
          /\ r.answer = NoAnswer
      BY <1>2, <2>1 DEF RequestInv
    <2> HIDE DEF r
    <2> QED
      BY <2>1, <2>2, <2>3, StepOfRequest
  <1>4. CASE ConnectFails(c)
    <2> DEFINE r == [req[c] EXCEPT !.phase = "done", !.failed = TRUE, !.answer = Unavailable]
               More == Values \cup {Unavailable}
    <2>1. /\ req' = [req EXCEPT ![c] = r] /\ accepts' = accepts
          /\ req[c].phase = "connect"
      BY <1>4 DEF ConnectFails
    <2>2. r \in Request(More) /\ req \in [Clients -> Request(More)]
      BY DEF Phases
    <2>3. /\ r.phase = "done" /\ r.session = req[c].session /\ r.route = req[c].route
          /\ r.failed /\ r.answer = Unavailable
      OBVIOUS
    <2> HIDE DEF r, More
    <2>4. ~Resting(c) /\ r.session = "none" /\ IsAnswer(r)
      BY <1>2, <2>1, <2>3 DEF RequestInv, Resting, IsAnswer
    <2> QED
      BY <2>1, <2>2, <2>3, <2>4, StepOfRequest
  <1>5. CASE Select(c)
    <2> DEFINE select == Head(req[c].todo)
    <2>1. PICK rows \in Rows(req[c], select) :
             LET q == [req[c] EXCEPT !.todo = Tail(@), !.read = Reading(@, select, rows)]
             IN req' = [req EXCEPT ![c] = [q EXCEPT !.phase =
                   IF ~Ended(q) /\ Head(q.todo) \in SameConnection
                   THEN "select" ELSE "close"]]
      BY <1>5 DEF Select
    <2> DEFINE todo == Tail(req[c].todo)
               read == Reading(req[c].read, select, rows)
               q == [req[c] EXCEPT !.todo = todo, !.read = read]
               phase == IF ~Ended(q) /\ Head(q.todo) \in SameConnection
                        THEN "select" ELSE "close"
               r == [q EXCEPT !.phase = phase]
               More == Values \cup {todo, read}
    <2>2. req' = [req EXCEPT ![c] = r]
      BY <2>1
    <2>3. phase \in {"select", "close"}
      OBVIOUS
    <2> HIDE DEF phase, todo, read
    <2>4. accepts' = accepts /\ req[c].phase = "select" /\ req[c].session = "open"
      BY <1>5 DEF Select
    <2>5. r \in Request(More) /\ req \in [Clients -> Request(More)]
      BY <2>3 DEF Phases
    <2>6. /\ r.phase = phase /\ r.session = "open" /\ r.route = req[c].route
          /\ r.failed = req[c].failed /\ r.answer = NoAnswer
      BY <1>2, <2>4 DEF RequestInv
    <2>7. ~Resting(c) /\ ~r.failed
      BY <1>2, <2>4, <2>6 DEF RequestInv, Resting
    <2> HIDE DEF r, More
    <2> QED
      BY <2>4, <2>5, <2>6, <2>7, <2>2, <2>3, StepOfRequest
  <1>6. CASE SelectFails(c)
    <2> DEFINE r == [req[c] EXCEPT !.phase = "close", !.failed = TRUE]
    <2>1. /\ req' = [req EXCEPT ![c] = r] /\ accepts' = accepts
          /\ req[c].phase = "select"
      BY <1>6 DEF SelectFails
    <2>2. r \in Request(Values)
      BY DEF Phases
    <2>3. /\ r.phase = "close" /\ r.session = req[c].session /\ r.route = req[c].route
          /\ r.failed /\ r.answer = NoAnswer
      BY <1>2, <2>1 DEF RequestInv
    <2> HIDE DEF r
    <2>4. ~Resting(c) /\ r.session # "none"
      BY <1>2, <2>1, <2>3 DEF RequestInv, Resting
    <2> QED
      BY <2>1, <2>2, <2>3, <2>4, StepOfRequest
  <1>7. CASE Close(c)
    <2> DEFINE phase == IF req[c].failed \/ Ended(req[c]) THEN "done" ELSE "connect"
               answer == IF req[c].failed THEN Unavailable
                         ELSE IF Ended(req[c]) THEN Compute(req[c]) ELSE NoAnswer
               r == [req[c] EXCEPT !.session = "none", !.phase = phase, !.answer = answer]
               More == Values \cup {answer}
    <2>1. /\ req' = [req EXCEPT ![c] = r] /\ accepts' = accepts /\ req[c].phase = "close"
      BY <1>7 DEF Close
    <2>2. /\ phase \in {"done", "connect"} /\ (req[c].failed => phase = "done")
          /\ phase = "done" => req[c].failed \/ Ended(req[c])
          /\ phase # "done" => answer = NoAnswer
      OBVIOUS
    <2>3. phase = "done" => \/ req[c].failed /\ answer = Unavailable
                            \/ ~req[c].failed /\ answer.kind \in {"ok", "notFound", "error"}
      <3>1. req[c].route \in Routes
        BY <1>2, <2>1 DEF RequestInv
      <3> QED
        BY <3>1, ComputedAnswers
    <2> HIDE DEF phase, answer
    <2>4. r \in Request(More) /\ req \in [Clients -> Request(More)]
      BY <2>2 DEF Phases
    <2>5. /\ r.phase = phase /\ r.session = "none" /\ r.route = req[c].route
          /\ r.failed = req[c].failed /\ r.answer = answer
          /\ r.todo = req[c].todo /\ r.read = req[c].read
      OBVIOUS
    <2> HIDE DEF r, More
    <2>6. phase = "done" => IsAnswer(r)
      BY <2>2, <2>3, <2>5 DEF IsAnswer, Ended
    <2>7. ~Resting(c)
      BY <1>2, <2>1, <2>5 DEF RequestInv, Resting
    <2> QED
      BY <2>1, <2>2, <2>4, <2>5, <2>6, <2>7, StepOfRequest
  <1>8. CASE CloseFails(c)
    <2> DEFINE r == [req[c] EXCEPT !.phase = "done", !.session = "none", !.failed = TRUE,
                                   !.answer = Unavailable]
               More == Values \cup {Unavailable}
    <2>1. /\ req' = [req EXCEPT ![c] = r] /\ accepts' = accepts
          /\ req[c].phase = "close"
      BY <1>8 DEF CloseFails
    <2>2. r \in Request(More) /\ req \in [Clients -> Request(More)]
      BY DEF Phases
    <2>3. /\ r.phase = "done" /\ r.session = "none" /\ r.route = req[c].route
          /\ r.failed /\ r.answer = Unavailable
      OBVIOUS
    <2> HIDE DEF r, More
    <2>4. ~Resting(c) /\ IsAnswer(r)
      BY <1>2, <2>1, <2>3 DEF RequestInv, Resting, IsAnswer
    <2> QED
      BY <2>1, <2>2, <2>3, <2>4, StepOfRequest
  <1> QED
    BY <1>3, <1>4, <1>5, <1>6, <1>7, <1>8 DEF Proceed

LEMMA AskKeepsInv ==
    ASSUME ReadersInv, Observe,
           NEW c \in Clients, NEW route \in Routes, NEW arg, Ask(c, route, arg)
    PROVE  ReadersInv'
  <1>1. PICK Values : req \in [Clients -> Request(Values)]
    BY DEF ReadersInv
  <1> DEFINE r == [NoRequest EXCEPT !.route = route, !.arg = arg, !.began = clock]
             asked == IF ArgIsValid(route, arg)
                      THEN [r EXCEPT !.phase = "connect", !.todo = Plan(route)]
                      ELSE [r EXCEPT !.phase = "done", !.answer = Invalid]
             More == Values \cup {route, arg, clock, <<>>, NoAnswer, Plan(route), Invalid}
  <1>2. req' = [req EXCEPT ![c] = asked] /\ accepts' = accepts /\ Resting(c)
    BY DEF Ask
  <1>3. asked \in Request(More) /\ req \in [Clients -> Request(More)]
    BY <1>1 DEF Request, Phases, NoRequest
  <1>4. /\ asked.route = route /\ ~asked.failed /\ asked.session = "none"
        /\ \/ asked.phase = "connect" /\ asked.answer = NoAnswer
           \/ asked.phase = "done" /\ asked.answer = Invalid
    BY DEF NoRequest
  <1> HIDE DEF asked, More, r
  <1>5. /\ req'[c] = asked /\ req' \in [Clients -> Request(More)]
        /\ \A d \in Clients : d # c => req'[d] = req[d]
    BY <1>2, <1>3
  <1>6. RequestInv(c)'
    BY <1>2, <1>4, <1>5 DEF ReadersInv, RequestInv, Resting, IsAnswer
  <1> QED
    BY <1>2, <1>5, <1>6, WaitingKeepsInv DEF ReadersInv

LEMMA ServerGoesDownKeepsInv ==
    ASSUME ReadersInv, Observe, ServerGoesDown
    PROVE  ReadersInv'
  <1>1. PICK Values : req \in [Clients -> Request(Values)]
    BY DEF ReadersInv
  <1>2. req' \in [Clients -> Request(Values)]
    BY <1>1 DEF ServerGoesDown, Request
  <1>3. ASSUME NEW c \in Clients PROVE RequestInv(c)'
    <2>1. CASE req[c].session # "open"
      BY <1>3, <2>1, WaitingKeepsInv DEF ServerGoesDown
    <2>2. CASE req[c].session = "open"
      <3>1. req'[c] = [req[c] EXCEPT !.session = "lost"] /\ accepts' = FALSE
        BY <2>2 DEF ServerGoesDown
      <3>2. req[c].phase \in {"select", "close"} /\ ~Resting(c) /\ RequestInv(c)
        BY <2>2 DEF ReadersInv, RequestInv, Resting
      <3>4. /\ req'[c].session = "lost" /\ req'[c].phase = req[c].phase
            /\ req'[c].failed = req[c].failed /\ req'[c].route = req[c].route
            /\ req'[c].answer = req[c].answer
        BY <1>1, <3>1 DEF Request
      <3> QED
        BY <3>2, <3>4 DEF RequestInv
    <2> QED
      BY <2>1, <2>2
  <1> QED
    BY <1>2, <1>3 DEF ServerGoesDown, ReadersInv

LEMMA StepKeepsInv == ReadersInv /\ [ReadersNext]_vars => ReadersInv'
  <1> SUFFICES ASSUME ReadersInv, [ReadersNext]_vars PROVE ReadersInv'
    OBVIOUS
  <1>1. CASE UNCHANGED vars
    BY <1>1 DEF vars, readerVars, ReadersInv, RequestInv, Resting, IsAnswer, Ended
  <1>2. ASSUME accepts' \in BOOLEAN, UNCHANGED req, Observe PROVE ReadersInv'
    BY <1>2, WaitingKeepsInv DEF ReadersInv
  <1>3. CASE ReadersNext
    <2>1. Observe
      BY <1>3 DEF ReadersNext
    <2>2. ServerIsFull \/ ServerAccepts \/ Write => accepts' \in BOOLEAN /\ UNCHANGED req
      BY DEF ServerIsFull, ServerAccepts, Write, ReadersInv
    <2> QED
      BY <1>2, <1>3, <2>1, <2>2, AskKeepsInv, ProceedKeepsInv, ServerGoesDownKeepsInv
      DEF ReadersNext
  <1> QED
    BY <1>1, <1>3

-----------------------------------------------------------------------------
(* The inductive invariant of the requests. *)
THEOREM ReadersInvariant == ReadersSpec => []ReadersInv
  BY InitSatisfiesInv, StepKeepsInv, PTL DEF ReadersSpec

(* A request has a connection while it reads with it, and at no other time. *)
THEOREM RequestsReleaseConnections == ReadersSpec => []ConnectionsAreReleased
  <1>1. ReadersInv => ConnectionsAreReleased
    BY DEF ReadersInv, RequestInv, ConnectionsAreReleased
  <1> QED
    BY <1>1, ReadersInvariant, PTL

(* A 200 or a 404 is computed from all that its route had to read. *)
THEOREM FailuresAreNotAnswers == ReadersSpec => []FailureIsNotAnEmptyAnswer
  <1>1. ReadersInv => FailureIsNotAnEmptyAnswer
    BY DEF ReadersInv, RequestInv, FailureIsNotAnEmptyAnswer, Answered, IsAnswer, Invalid,
           Unavailable
  <1> QED
    BY <1>1, ReadersInvariant, PTL

-----------------------------------------------------------------------------
(***************************************************************************)
(* What a request has read.  Attempts are recorded before they are counted *)
(* and only grow; edges join nodes.  So of a detail, the count that was    *)
(* read first is covered by the attempts that are read last, and of a      *)
(* downstream answer, a target that was not found is on record as absent.  *)
(***************************************************************************)
RowsInv ==
    /\ \E Values : staging \in [Entries ->
          [status : Values, created : Values, updated : Values, lease : Values,
           counted : Nat] \cup {None}]
    /\ attempts \in [Entries -> Nat]
    /\ \A e \in Entries : staging[e] # None => staging[e].counted <= attempts[e]
    /\ edges \subseteq Nodes \X Nodes

DownstreamPlan == <<"edges", "targets">>
DownstreamInv(c) ==
    LET r == req[c] IN
    r.phase # "idle" /\ r.route = "downstream" =>
       /\ r.todo \in {DownstreamPlan, <<"targets">>, <<>>}
       /\ r.todo # DownstreamPlan =>
             "edges" \in DOMAIN r.read /\ r.read.edges \subseteq Nodes \X Nodes
       /\ r.todo = <<>> =>
             /\ r.read.targets \subseteq TargetIds(r.read.edges)
             /\ TargetIds(r.read.edges) \ r.read.targets \subseteq seen[c].absent
       /\ r.phase = "done" /\ r.answer.kind = "ok" =>
             Ended(r) /\ r.answer = ComputeDownstreamResponse(r.read)

DetailPlan == <<"staging", "artifact", "attempts">>
DetailInv(c) ==
    LET r == req[c] IN
    r.phase # "idle" /\ r.route = "sliceDetail" =>
       /\ r.arg \in Entries
       /\ r.todo \in {DetailPlan, <<"artifact", "attempts">>, <<"attempts">>, <<>>}
       /\ r.todo # DetailPlan =>
             /\ "staging" \in DOMAIN r.read
             /\ r.read.staging # None => /\ r.read.staging.counted \in Nat
                                         /\ r.read.staging.counted <= attempts[r.arg]
       /\ r.todo = <<>> =>
             /\ r.read.staging # None => /\ r.read.attempts \in Nat
                                         /\ r.read.staging.counted <= r.read.attempts
       /\ r.phase = "done" /\ r.answer.kind = "ok" =>
             Ended(r) /\ \E now : r.answer = ComputeDetailResponse(r.read, now)

ReadInv ==
    /\ RowsInv
    /\ \A c \in Clients :
          /\ req[c].phase \in {"connect", "select"} => ~Ended(req[c])
          /\ DownstreamInv(c) /\ DetailInv(c)

(* The writers of the tables. *)
LEMMA RowsStep ==
    ASSUME RowsInv, ForeignNext \/ UNCHANGED foreignVars
    PROVE  RowsInv' /\ \A e \in Entries : attempts[e] <= attempts'[e]
  <1> USE DEF RowsInv
  <1>1. CASE UNCHANGED <<staging, attempts, edges>>
    BY <1>1
  <1>2. CASE PromotionWrite
    <2>1. PICK e \in Entries : Stage(e) \/ Advance(e) \/ RecordAttempt(e) \/ CountAttempts(e)
      BY <1>2 DEF PromotionWrite
    <2>2. UNCHANGED edges
      BY <1>2 DEF PromotionWrite, lineageTables
    <2>3. PICK Values : staging \in [Entries ->
            [status : Values, created : Values, updated : Values, lease : Values,
             counted : Nat] \cup {None}]
      OBVIOUS
    <2>4. CASE Stage(e)
      <3> DEFINE More == Values \cup {"staged", clock, None}
      <3>1. staging' \in [Entries ->
              [status : More, created : More, updated : More, lease : More,
               counted : Nat] \cup {None}]
        BY <2>3, <2>4 DEF Stage
      <3> HIDE DEF More
      <3>2. /\ UNCHANGED attempts /\ staging'[e].counted = attempts[e]
            /\ \A f \in Entries : f # e => staging'[f] = staging[f]
        BY <2>3, <2>4 DEF Stage
      <3>3. attempts[e] \in Nat /\ attempts[e] <= attempts[e]
        OBVIOUS
      <3>4. \A f \in Entries : staging'[f] # None => staging'[f].counted <= attempts'[f]
        BY <3>2, <3>3
      <3>5. \E V : staging' \in [Entries ->
              [status : V, created : V, updated : V, lease : V, counted : Nat] \cup {None}]
        BY <3>1
      <3>6. attempts' \in [Entries -> Nat] /\ \A f \in Entries : attempts[f] <= attempts'[f]
        BY <3>2
      <3> QED
        BY <2>2, <3>4, <3>5, <3>6
    <2>5. CASE Advance(e)
      <3>1. PICK s : staging' = [staging EXCEPT ![e].status = s, ![e].updated = clock,
                        ![e].lease = IF s = "claimed_for_send" THEN clock ELSE None]
        BY <2>5 DEF Advance
      <3> DEFINE More == Values \cup {s, clock, None}
      <3>2. staging[e] # None /\ UNCHANGED attempts
        BY <2>5 DEF Advance
      <3>3. staging' \in [Entries ->
              [status : More, created : More, updated : More, lease : More,
               counted : Nat] \cup {None}]
        BY <2>3, <3>1, <3>2
      <3> HIDE DEF More
      <3>4. /\ staging'[e].counted = staging[e].counted
            /\ \A f \in Entries : f # e => staging'[f] = staging[f]
        BY <2>3, <3>1, <3>2
      <3> QED
        BY <2>2, <3>2, <3>3, <3>4
    <2>6. CASE RecordAttempt(e)
      BY <2>2, <2>6 DEF RecordAttempt
    <2>7. CASE CountAttempts(e)
      <3> DEFINE More == Values \cup {clock}
      <3>1. /\ staging[e] # None /\ UNCHANGED attempts
            /\ staging' = [staging EXCEPT ![e].counted = attempts[e], ![e].updated = clock]
        BY <2>7 DEF CountAttempts
      <3>2. staging' \in [Entries ->
              [status : More, created : More, updated : More, lease : More,
               counted : Nat] \cup {None}]
        BY <2>3, <3>1
      <3> HIDE DEF More
      <3>3. /\ staging'[e].counted = attempts[e]
            /\ \A f \in Entries : f # e => staging'[f] = staging[f]
        BY <2>3, <3>1
      <3> QED
        BY <2>2, <3>1, <3>2, <3>3
    <2> QED
      BY <2>1, <2>4, <2>5, <2>6, <2>7
  <1>3. CASE LineageWrite
    BY <1>3 DEF LineageWrite, promotionTables, AddNode, DropNode, AddEdge
  <1>4. ServiceWrite \/ DocumentWrite \/ Tick \/ UNCHANGED foreignVars
        => UNCHANGED <<staging, attempts, edges>>
    BY DEF ServiceWrite, DocumentWrite, Tick, foreignVars, tables, promotionTables,
           lineageTables
  <1> QED
    BY <1>1, <1>2, <1>3, <1>4 DEF ForeignNext

(* The tables change in steps of their writers only. *)
LEMMA StepsOfTables ==
    [ReadersNext]_vars => ForeignNext \/ UNCHANGED foreignVars
  BY DEF ReadersNext, Ask, Proceed, Connect, ConnectFails, Select, SelectFails, Close,
         CloseFails, ServerIsFull, ServerGoesDown, ServerAccepts, Write, vars

(* The steps of a request that neither ask, nor read, nor compute. *)
GoesOn(c) ==
    LET r == req[c] IN
    /\ req'[c].route = r.route /\ req'[c].arg = r.arg /\ req'[c].began = r.began
    /\ req'[c].todo = r.todo /\ req'[c].read = r.read
    /\ req'[c].phase # "idle" => r.phase # "idle"
    /\ r.phase = "done" => req'[c].phase = "done"
    /\ req'[c].phase \in {"connect", "select"} => r.phase \in {"connect", "select"}
    /\ req'[c].phase = "done" =>
          \/ req'[c].answer = Unavailable
          \/ r.phase = "done" /\ req'[c].answer = r.answer

LEMMA StepsOfRequests ==
    ASSUME ReadersInv, [ReadersNext]_vars, NEW c \in Clients
    PROVE  \/ \E route \in Routes : \E arg \in Args(route) : Ask(c, route, arg)
           \/ Select(c) \/ Close(c)
           \/ GoesOn(c)
  <1>1. PICK Values : req \in [Clients -> Request(Values)]
    BY DEF ReadersInv
  <1> USE DEF Request
  <1>2. req'[c] = req[c] => GoesOn(c)
    BY DEF GoesOn
  <1>3. ASSUME NEW d \in Clients, d # c,
               Proceed(d) \/ \E route \in Routes : \E arg \in Args(route) : Ask(d, route, arg)
        PROVE  GoesOn(c)
    <2>1. req'[c] = req[c]
      BY <1>1, <1>3 DEF Proceed, Connect, ConnectFails, Select, SelectFails, Close, CloseFails,
                        Ask
    <2> QED
      BY <1>2, <2>1
  <1>4. Connect(c) \/ ConnectFails(c) => GoesOn(c)
    BY <1>1 DEF Connect, ConnectFails, GoesOn
  <1>5. SelectFails(c) \/ CloseFails(c) => GoesOn(c)
    BY <1>1 DEF SelectFails, CloseFails, GoesOn
  <1>6. ServerGoesDown => GoesOn(c)
    <2> SUFFICES ASSUME ServerGoesDown PROVE GoesOn(c)
      OBVIOUS
    <2>1. req'[c] = IF req[c].session = "open" THEN [req[c] EXCEPT !.session = "lost"]
                    ELSE req[c]
      BY DEF ServerGoesDown
    <2> QED
      BY <1>1, <2>1 DEF GoesOn
  <1>7. ServerIsFull \/ ServerAccepts \/ Write \/ UNCHANGED vars => req'[c] = req[c]
    BY DEF ServerIsFull, ServerAccepts, Write, vars, readerVars
  <1> QED
    BY <1>2, <1>3, <1>4, <1>5, <1>6, <1>7 DEF ReadersNext, Proceed

LEMMA SelectReads ==
    ASSUME ReadersInv, NEW c \in Clients, Select(c)
    PROVE  LET select == Head(req[c].todo) IN
           \E rows \in Rows(req[c], select) :
              /\ req'[c].route = req[c].route /\ req'[c].arg = req[c].arg
              /\ req'[c].began = req[c].began
              /\ req'[c].todo = Tail(req[c].todo)
              /\ req'[c].read = Reading(req[c].read, select, rows)
              /\ \/ req'[c].phase = "select" /\ ~Ended(req'[c])
                 \/ req'[c].phase = "close"
  <1>1. PICK Values : req \in [Clients -> Request(Values)]
    BY DEF ReadersInv
  <1> DEFINE select == Head(req[c].todo)
  <1>2. PICK rows \in Rows(req[c], select) :
           LET q == [req[c] EXCEPT !.todo = Tail(@), !.read = Reading(@, select, rows)]
           IN req' = [req EXCEPT ![c] = [q EXCEPT !.phase =
                 IF ~Ended(q) /\ Head(q.todo) \in SameConnection
                 THEN "select" ELSE "close"]]
    BY DEF Select
  <1> DEFINE todo == Tail(req[c].todo)
             read == Reading(req[c].read, select, rows)
             q == [req[c] EXCEPT !.todo = todo, !.read = read]
             phase == IF ~Ended(q) /\ Head(q.todo) \in SameConnection
                      THEN "select" ELSE "close"
             r == [q EXCEPT !.phase = phase]
  <1>3. req' = [req EXCEPT ![c] = r]
    BY <1>2
  <1>4. phase = "close" \/ (phase = "select" /\ ~Ended(q))
    OBVIOUS
  <1>5. q.todo = todo /\ q.read = read
    BY <1>1 DEF Request
  <1> HIDE DEF phase, todo, read
  <1>6. /\ r.route = req[c].route /\ r.arg = req[c].arg /\ r.began = req[c].began
        /\ r.todo = todo /\ r.read = read /\ r.phase = phase
    BY <1>1 DEF Request
  <1> HIDE DEF q, r
  <1>7. req'[c] = r /\ (Ended(q) <=> Ended(r))
    BY <1>1, <1>3, <1>5, <1>6 DEF Ended
  <1> QED
    BY <1>2, <1>4, <1>6, <1>7 DEF todo, read

LEMMA CloseComputes ==
    ASSUME ReadersInv, NEW c \in Clients, Close(c)
    PROVE  /\ req'[c].route = req[c].route /\ req'[c].arg = req[c].arg
           /\ req'[c].began = req[c].began
           /\ req'[c].todo = req[c].todo /\ req'[c].read = req[c].read
           /\ \/ req'[c].phase = "done" /\ req'[c].answer = Unavailable
              \/ req'[c].phase = "done" /\ Ended(req[c]) /\ req'[c].answer = Compute(req[c])
              \/ req'[c].phase = "connect" /\ ~Ended(req[c])
  <1>1. PICK Values : req \in [Clients -> Request(Values)]
    BY DEF ReadersInv
  <1> QED
    BY <1>1 DEF Request, Close

LEMMA AskBegins ==
    ASSUME ReadersInv, NEW c \in Clients, NEW route, NEW arg, Ask(c, route, arg)
    PROVE  /\ req'[c].route = route /\ req'[c].arg = arg /\ req'[c].began = clock
           /\ \/ req'[c].phase = "connect" /\ req'[c].todo = Plan(route)
              \/ ~ArgIsValid(route, arg) /\ req'[c].phase = "done"
  <1>1. PICK Values : req \in [Clients -> Request(Values)]
    BY DEF ReadersInv
  <1> DEFINE r == [NoRequest EXCEPT !.route = route, !.arg = arg, !.began = clock]
             asked == IF ArgIsValid(route, arg)
                      THEN [r EXCEPT !.phase = "connect", !.todo = Plan(route)]
                      ELSE [r EXCEPT !.phase = "done", !.answer = Invalid]
  <1>2. req' = [req EXCEPT ![c] = asked]
    BY DEF Ask
  <1>3. /\ asked.route = route /\ asked.arg = arg /\ asked.began = clock
        /\ \/ asked.phase = "connect" /\ asked.todo = Plan(route)
           \/ ~ArgIsValid(route, arg) /\ asked.phase = "done"
    BY DEF NoRequest
  <1> HIDE DEF asked
  <1> QED
    BY <1>1, <1>2, <1>3

(* What the routes read, and in which order. *)
LEMMA PlansAre ==
    ASSUME NEW route \in Routes
    PROVE  \/ /\ route \in AnalyticsRoutes
              /\ Plan(route) \in {<<"systems">>, <<"queue">>, <<"freshness">>,
                                 <<"systems", "queue", "freshness">>}
           \/ route = "slice" /\ Plan(route) = <<"list">>
           \/ route = "sliceDetail" /\ Plan(route) = DetailPlan
           \/ route = "downstream" /\ Plan(route) = DownstreamPlan
           \/ route \in {"nodes", "node"} \cup DocumentRoutes /\ Plan(route) = <<route>>
  <1>1. ASSUME route \in AnalyticsRoutes
        PROVE  Plan(route) \in {<<"systems">>, <<"queue">>, <<"freshness">>,
                               <<"systems", "queue", "freshness">>}
    <2>1. Plan(route) = AnalyticsPlan[route]
      BY <1>1 DEF Plan, AnalyticsRoutes, SliceRoutes, LineageRoutes, DocumentRoutes,
                  AnalyticsPlan
    <2>2. route \in {"systems", "queue", "freshness", "overview"}
      BY <1>1 DEF AnalyticsRoutes, AnalyticsPlan
    <2>3. /\ AnalyticsPlan["systems"] = <<"systems">>
          /\ AnalyticsPlan["queue"] = <<"queue">>
          /\ AnalyticsPlan["freshness"] = <<"freshness">>
          /\ AnalyticsPlan["overview"] = <<"systems", "queue", "freshness">>
      BY DEF AnalyticsPlan
    <2> QED
      BY <2>1, <2>2, <2>3
  <1> USE DEF AnalyticsRoutes, SliceRoutes, LineageRoutes, DocumentRoutes, AnalyticsPlan
  <1>2. /\ Plan("slice") = <<"list">> /\ Plan("sliceDetail") = DetailPlan
        /\ Plan("nodes") = <<"nodes">> /\ Plan("node") = <<"node">>
        /\ Plan("downstream") = DownstreamPlan
    BY DEF Plan, SlicePlan, LineagePlan, DetailPlan, DownstreamPlan
  <1>3. ASSUME route \in DocumentRoutes PROVE Plan(route) = <<route>>
    BY <1>3 DEF Plan
  <1>4. \/ route \in AnalyticsRoutes \cup DocumentRoutes
        \/ route \in {"slice", "sliceDetail", "nodes", "node", "downstream"}
    BY DEF Routes
  <1> HIDE DEF AnalyticsRoutes, SliceRoutes, LineageRoutes, DocumentRoutes, AnalyticsPlan
  <1> QED
    BY <1>1, <1>2, <1>3, <1>4

(* A plan that begins has something to read. *)
LEMMA PlansBegin ==
    ASSUME NEW r, r.route \in Routes, r.todo = Plan(r.route)
    PROVE  ~Ended(r)
  <1>1. r.todo # <<>> /\ Head(r.todo) \notin {"artifact", "targets"}
    BY PlansAre DEF DetailPlan, DownstreamPlan, DocumentRoutes
  <1> QED
    BY <1>1 DEF Ended

LEMMA PlansOfReads ==
    /\ Plan("downstream") = DownstreamPlan /\ Plan("sliceDetail") = DetailPlan
    /\ \A arg : /\ ArgIsValid("downstream", arg) /\ ArgIsValid("sliceDetail", arg)
                /\ arg \in Args("sliceDetail") => arg \in Entries
    /\ \A r : r.route = "downstream" => Compute(r) = ComputeDownstreamResponse(r.read)
    /\ \A r : r.route = "sliceDetail" => Compute(r) = ComputeDetailResponse(r.read, clock)
  <1> USE DEF AnalyticsRoutes, AnalyticsPlan, SliceRoutes, LineageRoutes, DocumentRoutes
  <1>1. Plan("downstream") = DownstreamPlan
    BY DEF Plan, LineagePlan, DownstreamPlan
  <1>2. Plan("sliceDetail") = DetailPlan
    BY DEF Plan, SlicePlan, DetailPlan
  <1>3. ASSUME NEW arg
        PROVE  /\ ArgIsValid("downstream", arg) /\ ArgIsValid("sliceDetail", arg)
               /\ arg \in Args("sliceDetail") => arg \in Entries
    BY DEF ArgIsValid, Args, SliceArgs
  <1>4. ASSUME NEW r, r.route = "downstream"
        PROVE  Compute(r) = ComputeDownstreamResponse(r.read)
    BY <1>4 DEF Compute, LineageAnswer
  <1>5. ASSUME NEW r, r.route = "sliceDetail"
        PROVE  Compute(r) = ComputeDetailResponse(r.read, clock)
    BY <1>5 DEF Compute, SliceAnswer
  <1> QED
    BY <1>1, <1>2, <1>3, <1>4, <1>5

LEMMA InitSatisfiesReads == ReadersInit => ReadInv
  <1> SUFFICES ASSUME ReadersInit PROVE ReadInv
    OBVIOUS
  <1>1. \A c \in Clients : req[c].phase = "idle"
    BY DEF ReadersInit, NoRequest
  <1>2. RowsInv
    BY DEF ReadersInit, ForeignInit, RowsInv
  <1> QED
    BY <1>1, <1>2 DEF ReadInv, DownstreamInv, DetailInv

(* The SELECTs of the two routes, by what they return. *)
LEMMA RowsOfReads ==
    ASSUME NEW r
    PROVE  /\ r.route = "downstream" =>
                 /\ Rows(r, "edges") = {DownstreamEdges(r.arg)}
                 /\ Rows(r, "targets") = {NodesByIds(TargetIds(r.read.edges))}
           /\ r.route = "sliceDetail" =>
                 /\ Rows(r, "staging") = {staging[r.arg]}
                 /\ Rows(r, "attempts") = {attempts[r.arg]}
  <1>1. ASSUME r.route = "downstream", NEW select
        PROVE  Rows(r, select) = LineageRows(select, r.arg, r.read)
    <2>1. /\ r.route \in LineageRoutes
          /\ r.route \notin AnalyticsRoutes \cup SliceRoutes \cup DocumentRoutes
      BY <1>1 DEF AnalyticsRoutes, AnalyticsPlan, SliceRoutes, LineageRoutes, DocumentRoutes
    <2> QED
      BY <2>1, Zenon DEF Rows
  <1>2. ASSUME r.route = "sliceDetail", NEW select
        PROVE  Rows(r, select) = SliceRows(select, r.arg)
    <2>1. /\ r.route \in SliceRoutes
          /\ r.route \notin AnalyticsRoutes \cup LineageRoutes \cup DocumentRoutes
      BY <1>2 DEF AnalyticsRoutes, AnalyticsPlan, SliceRoutes, LineageRoutes, DocumentRoutes
    <2> QED
      BY <2>1, Zenon DEF Rows
  <1>3. /\ LineageRows("edges", r.arg, r.read) = {DownstreamEdges(r.arg)}
        /\ LineageRows("targets", r.arg, r.read) = {NodesByIds(TargetIds(r.read.edges))}
    BY DEF LineageRows
  <1>4. /\ SliceRows("staging", r.arg) = {staging[r.arg]}
        /\ SliceRows("attempts", r.arg) = {attempts[r.arg]}
    BY DEF SliceRows, DetailStaging, DetailAttempts
  <1> QED
    BY <1>1, <1>2, <1>3, <1>4

(* Reading one thing more leaves what was read before. *)
LEMMA ReadingAdds ==
    ASSUME NEW read, NEW select, NEW rows
    PROVE  LET more == Reading(read, select, rows) IN
           /\ select \in DOMAIN more /\ more[select] = rows
           /\ \A s \in DOMAIN read \ {select} : s \in DOMAIN more /\ more[s] = read[s]
  BY DEF Reading

LEMMA AbsentGrows ==
    ASSUME [ReadersNext]_vars, NEW c \in Clients, req'[c].phase = "connect" => ~Resting(c)
    PROVE  /\ seen[c].absent \subseteq seen'[c].absent
           /\ ReadersNext /\ ~Resting(c) =>
                 {n \in Nodes : nodes'[n] = None} \subseteq seen'[c].absent
  <1>1. CASE UNCHANGED vars /\ ~ReadersNext
    BY <1>1 DEF vars, readerVars
  <1>2. CASE ReadersNext
    BY <1>2 DEF ReadersNext, Observe
  <1> QED
    BY <1>1, <1>2

LEMMA DownstreamSelect ==
    ASSUME ReadersInv, ReadInv, ReadersNext, NEW c \in Clients, Select(c),
           req[c].route = "downstream"
    PROVE  DownstreamInv(c)'
  <1>1. req[c].phase = "select" /\ ~Resting(c) /\ UNCHANGED foreignVars
    BY DEF Select, Resting
  <1>2. ~Ended(req[c]) /\ DownstreamInv(c)
    BY <1>1 DEF ReadInv
  <1>3. PICK rows \in Rows(req[c], Head(req[c].todo)) :
              /\ req'[c].todo = Tail(req[c].todo)
              /\ req'[c].read = Reading(req[c].read, Head(req[c].todo), rows)
              /\ req'[c].phase \in {"select", "close"}
    BY SelectReads
  <1>4. <<"targets">> # <<>> /\ <<"targets">> # DownstreamPlan
    BY DEF DownstreamPlan
  <1>5. CASE req[c].todo = DownstreamPlan
    <2>1. Head(req[c].todo) = "edges" /\ req'[c].todo = <<"targets">>
      BY <1>3, <1>5 DEF DownstreamPlan
    <2>2. rows = DownstreamEdges(req[c].arg)
      BY <1>3, <2>1, RowsOfReads
    <2>3. "edges" \in DOMAIN req'[c].read /\ req'[c].read["edges"] = rows
      BY <1>3, <2>1, ReadingAdds
    <2>4. rows \subseteq Nodes \X Nodes
      BY <2>2 DEF DownstreamEdges, ReadInv, RowsInv
    <2> QED
      BY <1>3, <2>1, <2>3, <2>4, <1>4 DEF DownstreamInv
  <1>6. CASE req[c].todo = <<"targets">>
    <2>1. Head(req[c].todo) = "targets" /\ req'[c].todo = <<>>
      BY <1>3, <1>6
    <2>2. "edges" \in DOMAIN req[c].read /\ req[c].read.edges \subseteq Nodes \X Nodes
      BY <1>1, <1>2, <1>6 DEF DownstreamInv, DownstreamPlan
    <2>3. rows = NodesByIds(TargetIds(req[c].read.edges))
      BY <1>3, <2>1, RowsOfReads
    <2>4. /\ "edges" \in DOMAIN req'[c].read
          /\ req'[c].read.targets = rows /\ req'[c].read.edges = req[c].read.edges
      BY <1>3, <2>1, <2>2, ReadingAdds
    <2>5. nodes' = nodes
      BY <1>1 DEF foreignVars, tables, lineageTables
    <2>6. TargetIds(req[c].read.edges) \ rows \subseteq {n \in Nodes : nodes'[n] = None}
      BY <2>2, <2>3, <2>5 DEF NodesByIds, ExistingNodes, TargetIds
    <2>7. {n \in Nodes : nodes'[n] = None} \subseteq seen'[c].absent
      BY <1>1, AbsentGrows
    <2>8. rows \subseteq TargetIds(req[c].read.edges)
      BY <2>3 DEF NodesByIds
    <2>9. TargetIds(req'[c].read.edges) = TargetIds(req[c].read.edges)
      BY <2>4 DEF TargetIds
    <2>10. /\ req'[c].read.targets \subseteq TargetIds(req'[c].read.edges)
           /\ TargetIds(req'[c].read.edges) \ req'[c].read.targets \subseteq seen'[c].absent
      BY <2>4, <2>6, <2>7, <2>8, <2>9
    <2> QED
      BY <1>3, <2>1, <2>2, <2>4, <2>10 DEF DownstreamInv
  <1> QED
    BY <1>1, <1>2, <1>5, <1>6 DEF DownstreamInv, Ended

LEMMA DetailSelect ==
    ASSUME ReadersInv, ReadInv, ReadersNext, NEW c \in Clients, Select(c),
           req[c].route = "sliceDetail"
    PROVE  DetailInv(c)'
  <1>1. req[c].phase = "select" /\ UNCHANGED foreignVars
    BY DEF Select
  <1>2. ~Ended(req[c]) /\ DetailInv(c) /\ RowsInv /\ req[c].arg \in Entries
    BY <1>1 DEF ReadInv, DetailInv
  <1>3. PICK rows \in Rows(req[c], Head(req[c].todo)) :
              /\ req'[c].arg = req[c].arg
              /\ req'[c].todo = Tail(req[c].todo)
              /\ req'[c].read = Reading(req[c].read, Head(req[c].todo), rows)
              /\ req'[c].phase \in {"select", "close"}
    BY SelectReads
  <1>4. attempts' = attempts
    BY <1>1 DEF foreignVars, tables, promotionTables
  <1>5. /\ <<"artifact", "attempts">> # <<>> /\ <<"artifact", "attempts">> # DetailPlan
        /\ <<"attempts">> # <<>> /\ <<"attempts">> # DetailPlan
    BY DEF DetailPlan
  <1>6. CASE req[c].todo = DetailPlan
    <2>1. Head(req[c].todo) = "staging" /\ req'[c].todo = <<"artifact", "attempts">>
      BY <1>3, <1>6 DEF DetailPlan
    <2>2. rows = staging[req[c].arg]
      BY <1>3, <2>1, RowsOfReads
    <2>3. "staging" \in DOMAIN req'[c].read /\ req'[c].read["staging"] = rows
      BY <1>3, <2>1, ReadingAdds
    <2>4. rows # None => rows.counted \in Nat /\ rows.counted <= attempts[req[c].arg]
      BY <1>2, <2>2 DEF RowsInv
    <2> QED
      BY <1>2, <1>3, <1>4, <1>5, <2>1, <2>3, <2>4 DEF DetailInv
  <1>7. ASSUME req[c].todo # DetailPlan
        PROVE  /\ "staging" \in DOMAIN req[c].read
               /\ req[c].read.staging # None =>
                     /\ req[c].read.staging.counted \in Nat
                     /\ req[c].read.staging.counted <= attempts[req[c].arg]
    BY <1>1, <1>2, <1>7 DEF DetailInv
  <1>8. CASE req[c].todo = <<"artifact", "attempts">>
    <2>1. /\ Head(req[c].todo) = "artifact" /\ req'[c].todo = <<"attempts">>
          /\ req[c].todo # DetailPlan
      BY <1>3, <1>8 DEF DetailPlan
    <2>2. /\ "staging" \in DOMAIN req'[c].read
          /\ req'[c].read["staging"] = req[c].read["staging"]
      BY <1>3, <1>7, <2>1, ReadingAdds
    <2> QED
      BY <1>2, <1>3, <1>4, <1>7, <1>5, <2>1, <2>2 DEF DetailInv
  <1>9. CASE req[c].todo = <<"attempts">>
    <2>1. /\ Head(req[c].todo) = "attempts" /\ req'[c].todo = <<>>
          /\ req[c].todo # DetailPlan
      BY <1>3, <1>9 DEF DetailPlan
    <2>2. rows = attempts[req[c].arg]
      BY <1>3, <2>1, RowsOfReads
    <2>3. /\ "staging" \in DOMAIN req'[c].read
          /\ req'[c].read["staging"] = req[c].read["staging"]
          /\ req'[c].read["attempts"] = rows
      BY <1>3, <1>7, <2>1, ReadingAdds
    <2>4. attempts[req[c].arg] \in Nat
      BY <1>2 DEF RowsInv
    <2> QED
      BY <1>2, <1>3, <1>4, <1>7, <2>1, <2>2, <2>3, <2>4 DEF DetailInv
  <1> QED
    BY <1>1, <1>2, <1>6, <1>8, <1>9 DEF DetailInv, Ended

LEMMA StepKeepsReads ==
    ASSUME ReadersInv, ReadInv, [ReadersNext]_vars
    PROVE  ReadInv'
  <1>1. RowsInv' /\ \A e \in Entries : attempts[e] <= attempts'[e] /\ attempts'[e] \in Nat
    BY StepsOfTables, RowsStep DEF RowsInv, ReadInv
  <1> SUFFICES ASSUME NEW c \in Clients
               PROVE  /\ req'[c].phase \in {"connect", "select"} => ~Ended(req'[c])
                      /\ DownstreamInv(c)' /\ DetailInv(c)'
    BY <1>1 DEF ReadInv
  <1>2. /\ req[c].phase \in {"connect", "select"} => ~Ended(req[c])
        /\ DownstreamInv(c) /\ DetailInv(c)
    BY DEF ReadInv
  <1>3. ASSUME NEW route \in Routes, NEW arg \in Args(route), Ask(c, route, arg)
        PROVE  /\ req'[c].phase \in {"connect", "select"} => ~Ended(req'[c])
               /\ DownstreamInv(c)' /\ DetailInv(c)'
    <2>1. /\ req'[c].route = route /\ req'[c].arg = arg
          /\ \/ req'[c].phase = "connect" /\ req'[c].todo = Plan(route)
             \/ ~ArgIsValid(route, arg) /\ req'[c].phase = "done"
      BY <1>3, AskBegins
    <2>2. req'[c].phase = "connect" => ~Ended(req'[c])
      BY <2>1, PlansBegin
    <2> QED
      BY <2>1, <2>2, PlansOfReads DEF DownstreamInv, DetailInv, DownstreamPlan, DetailPlan
  <1>4. CASE ReadersNext /\ Select(c)
    <2>1. /\ req'[c].route = req[c].route
          /\ \/ req'[c].phase = "select" /\ ~Ended(req'[c])
             \/ req'[c].phase = "close"
      BY <1>4, SelectReads
    <2>2. DownstreamInv(c)'
      BY <1>4, <2>1, DownstreamSelect DEF DownstreamInv
    <2>3. DetailInv(c)'
      BY <1>4, <2>1, DetailSelect DEF DetailInv
    <2> QED
      BY <2>1, <2>2, <2>3
  <1>5. CASE Close(c)
    <2>1. /\ req'[c].route = req[c].route /\ req'[c].arg = req[c].arg
          /\ req'[c].todo = req[c].todo /\ req'[c].read = req[c].read
          /\ \/ req'[c].phase = "done" /\ req'[c].answer = Unavailable
             \/ req'[c].phase = "done" /\ Ended(req[c]) /\ req'[c].answer = Compute(req[c])
             \/ req'[c].phase = "connect" /\ ~Ended(req[c])
      BY <1>5, CloseComputes
    <2>2. req[c].phase = "close" /\ ~Resting(c)
      BY <1>5 DEF Close, Resting
    <2>3. seen[c].absent \subseteq seen'[c].absent
      BY <2>2, AbsentGrows
    <2>4. Ended(req'[c]) <=> Ended(req[c])
      BY <2>1 DEF Ended
    <2>5. Unavailable.kind # "ok"
      BY DEF Unavailable
    <2>6. DownstreamInv(c)'
      BY <1>2, <2>1, <2>2, <2>3, <2>4, <2>5, PlansOfReads DEF DownstreamInv
    <2>7. req[c].route = "sliceDetail" =>
             Compute(req[c]) = ComputeDetailResponse(req'[c].read, clock)
      BY <2>1, PlansOfReads
    <2>8. ASSUME req[c].arg \in Entries, NEW n \in Nat, n <= attempts[req[c].arg]
          PROVE  n <= attempts'[req[c].arg]
      BY <1>1, <2>8 DEF ReadInv, RowsInv
    <2>9. DetailInv(c)'
      BY <1>2, <2>1, <2>2, <2>4, <2>5, <2>7, <2>8 DEF DetailInv
    <2> QED
      BY <2>1, <2>4, <2>6, <2>9
  <1>6. CASE GoesOn(c)
    <2>1. seen[c].absent \subseteq seen'[c].absent
      BY <1>6, AbsentGrows DEF GoesOn, Resting
    <2>2. Ended(req'[c]) <=> Ended(req[c])
      BY <1>6 DEF GoesOn, Ended
    <2>3. Unavailable.kind # "ok"
      BY DEF Unavailable
    <2>4. DownstreamInv(c)'
      BY <1>2, <1>6, <2>1, <2>2, <2>3 DEF DownstreamInv, GoesOn
    <2>5. DetailInv(c)'
      BY <1>1, <1>2, <1>6, <2>2, <2>3 DEF DetailInv, GoesOn, RowsInv, ReadInv
    <2> QED
      BY <1>2, <1>6, <2>2, <2>4, <2>5 DEF GoesOn
  <1>7. CASE UNCHANGED vars
    BY <1>6, <1>7 DEF GoesOn, vars, readerVars
  <1> QED
    BY <1>3, <1>4, <1>5, <1>6, <1>7, StepsOfRequests

(* What was read, and what it says of the tables by now. *)
THEOREM ReadsInvariant == ReadersSpec => []ReadInv
  <1>1. ReadersInv /\ ReadInv /\ [ReadersNext]_vars => ReadInv'
    BY StepKeepsReads
  <1> QED
    BY <1>1, InitSatisfiesReads, ReadersInvariant, PTL DEF ReadersSpec

(* The audit of a detail covers the attempts its row has counted, whatever  *)
(* the worker does between the three SELECTs.                               *)
THEOREM AuditsCoverTheirState == ReadersSpec => []AuditIsNotOlderThanState
  <1>1. ReadInv => AuditIsNotOlderThanState
    <2> SUFFICES ASSUME ReadInv, NEW c \in Clients,
                        req[c].route = "sliceDetail", Answered(c, "ok")
                 PROVE  req[c].answer.body.row.attempt_count <= req[c].answer.body.audit_summary
      BY DEF AuditIsNotOlderThanState
    <2> DEFINE read == req[c].read
    <2>1. PICK now : req[c].answer = ComputeDetailResponse(read, now)
      BY DEF ReadInv, DetailInv, Answered
    <2>2. Ended(req[c]) /\ DetailInv(c)
      BY DEF ReadInv, DetailInv, Answered
    <2>3. read.staging # None
      BY <2>1 DEF ComputeDetailResponse, NotFound, Answered
    <2>4. req[c].todo = <<>>
      BY <2>2, <2>3 DEF DetailInv, Answered, Ended, DetailPlan
    <2>5. /\ req[c].answer.body.row.attempt_count = read.staging.counted
          /\ req[c].answer.body.audit_summary = read.attempts
      BY <2>1, <2>3 DEF ComputeDetailResponse, ComputeQueueRow, InternalError, Ok, Answered
    <2> QED
      BY <2>2, <2>3, <2>4, <2>5 DEF DetailInv, Answered
  <1> QED
    BY <1>1, ReadsInvariant, PTL

(* A downstream answer leaves a target out only if it was absent during the *)
(* request, and has no other nodes.                                         *)
THEOREM DownstreamAnswersAreExplained == ReadersSpec => []DownstreamIsExplained
  <1>1. ReadInv => DownstreamIsExplained
    <2> SUFFICES ASSUME ReadInv, NEW c \in Clients,
                        req[c].route = "downstream", Answered(c, "ok")
                 PROVE  LET body == req[c].answer.body
                        IN /\ body.nodes \subseteq TargetIds(body.edges)
                           /\ TargetIds(body.edges) \ body.nodes \subseteq seen[c].absent
      BY DEF DownstreamIsExplained
    <2> DEFINE read == req[c].read
    <2>1. DownstreamInv(c) /\ Ended(req[c]) /\ req[c].answer = ComputeDownstreamResponse(read)
      BY DEF ReadInv, DownstreamInv, Answered
    <2>2. /\ req[c].answer.body.edges = read.edges
          /\ req[c].answer.body.nodes = IF read.edges = {} THEN {} ELSE read.targets
      BY <2>1 DEF ComputeDownstreamResponse, Ok
    <2>3. CASE read.edges = {}
      BY <2>2, <2>3 DEF TargetIds
    <2>4. CASE read.edges # {}
      <3>1. req[c].todo = <<>>
        BY <2>1, <2>4 DEF DownstreamInv, Answered, Ended, DownstreamPlan
      <3> QED
        BY <2>1, <2>2, <2>4, <3>1 DEF DownstreamInv, Answered
    <2> QED
      BY <2>3, <2>4
  <1> QED
    BY <1>1, ReadsInvariant, PTL
-----------------------------------------------------------------------------
(***************************************************************************)
(* Types.  The tables are well typed because a writer counts no attempt    *)
(* that it has not recorded, and records one per write at most.            *)
(***************************************************************************)
ForeignInv == ForeignTypeOK /\ \A e \in Entries : attempts[e] <= writes

LEMMA InitSatisfiesForeign == ForeignInit => ForeignInv
  <1> SUFFICES ASSUME ForeignInit PROVE ForeignInv
    OBVIOUS
  <1>1. MaxTime(writer) \in Nat /\ MaxWrites(writer) \in Nat /\ writer \in Writers
    BY TableBoundsAssumption DEF ForeignInit
  <1>2. 0 \in Time /\ 0 \in 0..MaxWrites(writer)
    BY <1>1 DEF Time
  <1> QED
    BY <1>1, <1>2 DEF ForeignInit, ForeignInv, ForeignTypeOK, Service

LEMMA StepKeepsForeign ==
    ASSUME ForeignInv, ForeignNext \/ UNCHANGED foreignVars
    PROVE  ForeignInv'
  <1>1. /\ clock \in Time /\ writer \in Writers /\ writes \in 0..MaxWrites(writer)
        /\ MaxTime(writer) \in Nat /\ MaxWrites(writer) \in Nat
    BY TableBoundsAssumption DEF ForeignInv, ForeignTypeOK
  <1> USE DEF ForeignInv, ForeignTypeOK
  <1>2. ASSUME NEW w, WritesAs(w)
        PROVE  /\ clock' = clock /\ writer' = writer /\ writes' = writes + 1
               /\ writes' \in 0..MaxWrites(writer)
               /\ Time' = Time /\ Staged' = Staged /\ Service' = Service
               /\ MaxWrites(writer)' = MaxWrites(writer)
               /\ \A e \in Entries : attempts[e] <= writes'
    BY <1>1, <1>2 DEF WritesAs, Time, Staged, Service
  <1>3. CASE PromotionWrite
    <2>1. PICK e \in Entries : Stage(e) \/ Advance(e) \/ RecordAttempt(e) \/ CountAttempts(e)
      BY <1>3 DEF PromotionWrite
    <2>2. WritesAs("promotions") /\ UNCHANGED <<services, lineageTables, documentTables>>
      BY <1>3 DEF PromotionWrite
    <2>3. attempts[e] \in 0..MaxWrites(writer) /\ attempts[e] <= writes
      OBVIOUS
    <2>4. CASE Stage(e)
      <3> DEFINE row == [status |-> "staged", created |-> clock, updated |-> clock,
                         lease |-> None, counted |-> attempts[e]]
      <3>1. row \in Staged
        BY <1>1, <2>3 DEF Staged, Statuses
      <3>2. staging' = [staging EXCEPT ![e] = row]
        BY <2>4 DEF Stage
      <3> HIDE DEF row
      <3>3. staging' \in [Entries -> Staged \cup {None}]
        BY <3>1, <3>2
      <3>4. payload' \in [Entries -> Json \cup {None}] /\ attempts' = attempts
        BY <2>4 DEF Stage
      <3>5. ForeignTypeOK'
        BY <1>2, <2>2, <3>3, <3>4, <1>1 DEF lineageTables, documentTables
      <3> QED
        BY <1>2, <2>2, <3>4, <3>5
    <2>5. CASE Advance(e)
      <3>1. PICK s \in Advanced : staging' = [staging EXCEPT ![e].status = s,
                 ![e].updated = clock,
                 ![e].lease = IF s = "claimed_for_send" THEN clock ELSE None]
        BY <2>5 DEF Advance
      <3>2. staging[e] \in Staged /\ s \in Statuses /\ UNCHANGED <<payload, attempts>>
        BY <2>5, AdvancedAssumption DEF Advance
      <3>3. staging' \in [Entries -> Staged \cup {None}]
        BY <1>1, <3>1, <3>2 DEF Staged
      <3> QED
        BY <1>2, <2>2, <3>2, <3>3, <1>1 DEF lineageTables, documentTables
    <2>6. CASE RecordAttempt(e)
      <3>1. attempts' = [attempts EXCEPT ![e] = attempts[e] + 1] /\ UNCHANGED <<staging, payload>>
        BY <2>6 DEF RecordAttempt
      <3>2. attempts[e] + 1 \in 0..MaxWrites(writer) /\ attempts[e] + 1 <= writes'
        BY <1>1, <1>2, <2>2, <2>3
      <3>3. /\ attempts' \in [Entries -> 0..MaxWrites(writer)]
            /\ \A f \in Entries : attempts'[f] <= writes'
        BY <1>2, <2>2, <3>1, <3>2
      <3> QED
        BY <1>2, <2>2, <3>1, <3>3, <1>1 DEF lineageTables, documentTables
    <2>7. CASE CountAttempts(e)
      <3>1. /\ staging' = [staging EXCEPT ![e].counted = attempts[e], ![e].updated = clock]
            /\ staging[e] \in Staged /\ UNCHANGED <<payload, attempts>>
        BY <2>7 DEF CountAttempts
      <3>2. staging' \in [Entries -> Staged \cup {None}]
        BY <1>1, <2>3, <3>1 DEF Staged
      <3> QED
        BY <1>2, <2>2, <3>1, <3>2, <1>1 DEF lineageTables, documentTables
    <2> QED
      BY <2>1, <2>4, <2>5, <2>6, <2>7
  <1>4. CASE ServiceWrite
    <2>1. PICK s \in Services : Report(s) \/ Enable(s)
      BY <1>4 DEF ServiceWrite
    <2>2. WritesAs("services") /\ UNCHANGED <<promotionTables, lineageTables, documentTables>>
      BY <1>4 DEF ServiceWrite
    <2>3. services[s] \in Service
      OBVIOUS
    <2>4. ASSUME Report(s) PROVE services' \in [Services -> Service]
      <3>1. PICK st \in Reported :
               services' = [services EXCEPT ![s].state = st, ![s].reported = clock]
        BY <2>4 DEF Report
      <3> DEFINE row == [services[s] EXCEPT !.state = st, !.reported = clock]
      <3>2. row \in Service
        BY <1>1, <2>3, ReportedAssumption DEF Service
      <3>3. services' = [services EXCEPT ![s] = row]
        BY <3>1
      <3> HIDE DEF row
      <3> QED
        BY <3>2, <3>3
    <2>5. ASSUME Enable(s) PROVE services' \in [Services -> Service]
      <3>1. services' = [services EXCEPT ![s].enabled = ~@]
        BY <2>5 DEF Enable
      <3>2. services'[s] \in Service
        BY <2>3, <3>1 DEF Service
      <3> QED
        BY <3>1, <3>2
    <2>6. services' \in [Services -> Service]
      BY <2>1, <2>4, <2>5
    <2> QED
      BY <1>2, <2>2, <2>6, <1>1 DEF promotionTables, lineageTables, documentTables
  <1>5. CASE LineageWrite
    <2>1. /\ WritesAs("lineage")
          /\ UNCHANGED <<promotionTables, services, documentTables>>
      BY <1>5 DEF LineageWrite
    <2>2. nodes' \in [Nodes -> Time \cup {None}] /\ edges' \subseteq Nodes \X Nodes
      BY <1>1, <1>5 DEF LineageWrite, AddNode, DropNode, AddEdge
    <2> QED
      BY <1>2, <2>1, <2>2, <1>1 DEF promotionTables, documentTables
  <1>6. CASE DocumentWrite
    <2>1. /\ WritesAs("documents")
          /\ UNCHANGED <<promotionTables, services, lineageTables>>
      BY <1>6 DEF DocumentWrite
    <2> DEFINE Shown == [public: BOOLEAN, enabled: BOOLEAN]
    <2>2. PICK d \in Documents :
            \/ /\ proposals' = [proposals EXCEPT ![d] = clock]
               /\ UNCHANGED <<packs, applications>>
            \/ /\ \E p \in Json : packs' = [packs EXCEPT ![d] = p]
               /\ UNCHANGED <<proposals, applications>>
            \/ /\ \E s \in Shown : applications' = [applications EXCEPT ![d] = s]
               /\ UNCHANGED <<proposals, packs>>
      BY <1>6 DEF DocumentWrite
    <2>3. applications \in [Documents -> Shown]
      OBVIOUS
    <2> HIDE DEF Shown
    <2>4. /\ proposals' \in [Documents -> Time \cup {None}]
          /\ packs' \in [Documents -> Json \cup {None}]
          /\ applications' \in [Documents -> Shown]
      BY <1>1, <2>2, <2>3
    <2> QED
      BY <1>2, <2>1, <2>4, <1>1 DEF promotionTables, lineageTables, Shown
  <1>7. CASE Tick
    <2>1. clock' \in Time /\ UNCHANGED <<writer, writes, tables>>
      BY <1>1, <1>7 DEF Tick, Time
    <2> QED
      BY <1>1, <2>1
      DEF tables, promotionTables, lineageTables, documentTables, Time, Staged, Service
  <1>8. CASE UNCHANGED foreignVars
    BY <1>8 DEF foreignVars, tables, promotionTables, lineageTables, documentTables, Time,
                Staged, Service
  <1> QED
    BY <1>3, <1>4, <1>5, <1>6, <1>7, <1>8 DEF ForeignNext

(* The history speaks of services and nodes there are. *)
SeenInv ==
    \A c \in Clients : seen[c].overdue \subseteq Services /\ seen[c].absent \subseteq Nodes

LEMMA StepKeepsSeen == SeenInv /\ [ReadersNext]_vars => SeenInv'
  <1> SUFFICES ASSUME SeenInv, [ReadersNext]_vars PROVE SeenInv'
    OBVIOUS
  <1>1. CASE ReadersNext
    <2> SUFFICES ASSUME NEW c \in Clients
                 PROVE  seen'[c].overdue \subseteq Services /\ seen'[c].absent \subseteq Nodes
      BY DEF SeenInv
    <2>1. seen[c].overdue \subseteq Services /\ seen[c].absent \subseteq Nodes
      BY DEF SeenInv
    <2> QED
      BY <1>1, <2>1 DEF ReadersNext, Observe
  <1>2. CASE UNCHANGED vars
    BY <1>2 DEF vars, readerVars, SeenInv
  <1> QED
    BY <1>1, <1>2

LEMMA TablesInvariant == ReadersSpec => []ForeignInv
  <1>1. ReadersInit => ForeignInv
    BY InitSatisfiesForeign DEF ReadersInit
  <1>2. ForeignInv /\ [ReadersNext]_vars => ForeignInv'
    BY StepsOfTables, StepKeepsForeign
  <1> QED
    BY <1>1, <1>2, PTL DEF ReadersSpec

(* The tables, the requests and the history are well typed. *)
THEOREM ReadersTypeCorrect == ReadersSpec => []ReadersTypeOK
  <1>1. ReadersInit => SeenInv
    BY DEF ReadersInit, SeenInv
  <1>2. SeenInv /\ [ReadersNext]_vars => SeenInv'
    BY StepKeepsSeen
  <1>3. ReadersInv /\ ForeignInv /\ SeenInv => ReadersTypeOK
    <2> SUFFICES ASSUME ReadersInv, ForeignInv, SeenInv PROVE ReadersTypeOK
      OBVIOUS
    <2>1. PICK Values : req \in [Clients -> Request(Values)]
      BY DEF ReadersInv
    <2>2. NoAnswer \notin {Invalid, Unavailable} /\ NoAnswer.kind \notin {"ok", "notFound", "error"}
      BY DEF NoAnswer, Invalid, Unavailable
    <2>3. ASSUME NEW c \in Clients
          PROVE  /\ req[c].phase \in Phases /\ req[c].session \in {"none", "open", "lost"}
                 /\ req[c].failed \in BOOLEAN
                 /\ req[c].phase = "idle" => req[c] = NoRequest
                 /\ req[c].phase # "idle" => req[c].route \in Routes
                 /\ req[c].phase = "done" <=> req[c].answer # NoAnswer
      BY <2>1, <2>2 DEF ReadersInv, RequestInv, Request, IsAnswer
    <2> QED
      BY <2>3 DEF ReadersInv, ReadersTypeOK, ForeignInv, SeenInv
  <1> QED
    BY <1>1, <1>2, <1>3, ReadersInvariant, TablesInvariant, PTL DEF ReadersSpec

-----------------------------------------------------------------------------
(***************************************************************************)
(* Progress.  What is left to read is a sequence that begins as the plan   *)
(* of the route, and only loses its head.                                  *)
(***************************************************************************)
SelectsOf(route) ==
    CASE route \in AnalyticsRoutes -> {"systems", "queue", "freshness"}
      [] route = "slice"           -> {"list"}
      [] route = "sliceDetail"     -> {"staging", "artifact", "attempts"}
      [] route = "downstream"      -> {"edges", "targets"}
      [] OTHER                     -> {route}

TodoInv ==
    \A c \in Clients : ~Resting(c) =>
       /\ req[c].todo \in Seq(SelectsOf(req[c].route))
       /\ req[c].arg \in Args(req[c].route)

LEMMA SelectsAre ==
    /\ \A route \in AnalyticsRoutes :
          SelectsOf(route) = {"systems", "queue", "freshness"}
    /\ SelectsOf("slice") = {"list"}
    /\ SelectsOf("sliceDetail") = {"staging", "artifact", "attempts"}
    /\ SelectsOf("downstream") = {"edges", "targets"}
    /\ \A route \in {"nodes", "node"} \cup DocumentRoutes : SelectsOf(route) = {route}
  BY DEF SelectsOf, AnalyticsRoutes, AnalyticsPlan, DocumentRoutes

LEMMA PlansAreSequences ==
    ASSUME NEW route \in Routes
    PROVE  Plan(route) \in Seq(SelectsOf(route))
  <1>1. ASSUME NEW S, NEW a \in S, NEW b \in S, NEW c \in S
        PROVE  <<a>> \in Seq(S) /\ <<a, b>> \in Seq(S) /\ <<a, b, c>> \in Seq(S)
    <2>1. <<a, b, c>> \in [1..3 -> S]
      OBVIOUS
    <2> QED
      BY <2>1, SeqDef
  <1> DEFINE Names == SelectsOf(route)
  <1>2. ASSUME Names = {"systems", "queue", "freshness"}
        PROVE  {<<"systems">>, <<"queue">>, <<"freshness">>,
                <<"systems", "queue", "freshness">>} \subseteq Seq(Names)
    <2> HIDE DEF Names
    <2>1. "systems" \in Names /\ "queue" \in Names /\ "freshness" \in Names
      BY <1>2
    <2> QED
      BY <1>1, <2>1
  <1>3. ASSUME Names = {"staging", "artifact", "attempts"}
        PROVE  DetailPlan \in Seq(Names)
    <2> HIDE DEF Names
    <2>1. "staging" \in Names /\ "artifact" \in Names /\ "attempts" \in Names
      BY <1>3
    <2> QED
      BY <1>1, <2>1 DEF DetailPlan
  <1>4. ASSUME Names = {"edges", "targets"} PROVE DownstreamPlan \in Seq(Names)
    <2> HIDE DEF Names
    <2>1. "edges" \in Names /\ "targets" \in Names
      BY <1>4
    <2> QED
      BY <1>1, <2>1 DEF DownstreamPlan
  <1>5. ASSUME NEW name, Names = {name} PROVE <<name>> \in Seq(Names)
    <2> HIDE DEF Names
    <2> QED
      BY <1>1, <1>5
  <1>6. CASE route \in AnalyticsRoutes
    <2>1. Plan(route) \in {<<"systems">>, <<"queue">>, <<"freshness">>,
                          <<"systems", "queue", "freshness">>}
      BY <1>6, PlansAre DEF AnalyticsRoutes, AnalyticsPlan, DocumentRoutes
    <2> QED
      BY <1>2, <1>6, <2>1, SelectsAre
  <1>7. CASE route \in {"nodes", "node"} \cup DocumentRoutes
    <2>1. Plan(route) = <<route>>
      BY <1>7, PlansAre DEF AnalyticsRoutes, AnalyticsPlan, DocumentRoutes
    <2> QED
      BY <1>5, <1>7, <2>1, SelectsAre
  <1>8. CASE route = "slice"
    <2>1. Plan(route) = <<"list">>
      BY <1>8, PlansAre DEF AnalyticsRoutes, AnalyticsPlan, DocumentRoutes
    <2>2. Names = {"list"}
      BY <1>8, SelectsAre
    <2> HIDE DEF Names
    <2>3. <<"list">> \in Seq(Names)
      BY <1>5, <2>2
    <2> QED
      BY <2>1, <2>3 DEF Names
  <1>9. CASE route \in {"sliceDetail", "downstream"}
    BY <1>3, <1>4, <1>9, PlansAre, SelectsAre
    DEF AnalyticsRoutes, AnalyticsPlan, DocumentRoutes
  <1> QED
    BY <1>6, <1>7, <1>8, <1>9, PlansAre

LEMMA StepKeepsTodo ==
    ASSUME ReadersInv, ReadInv, TodoInv, [ReadersNext]_vars
    PROVE  TodoInv'
  <1> SUFFICES ASSUME NEW c \in Clients, ~Resting(c)'
               PROVE  /\ req'[c].todo \in Seq(SelectsOf(req'[c].route))
                      /\ req'[c].arg \in Args(req'[c].route)
    BY DEF TodoInv, SelectsOf, Args, SliceArgs, LineageArgs, DocumentArgs
  <1>1. ASSUME NEW route \in Routes, NEW arg \in Args(route), Ask(c, route, arg)
        PROVE  /\ req'[c].todo \in Seq(SelectsOf(req'[c].route))
               /\ req'[c].arg \in Args(req'[c].route)
    BY <1>1, AskBegins, PlansAreSequences DEF Resting
  <1>2. CASE Select(c)
    <2>1. /\ req[c].todo \in Seq(SelectsOf(req[c].route)) /\ req[c].todo # <<>>
          /\ req[c].arg \in Args(req[c].route)
      BY <1>2 DEF Select, Resting, TodoInv, ReadInv, Ended
    <2>2. /\ req'[c].todo = Tail(req[c].todo)
          /\ req'[c].route = req[c].route /\ req'[c].arg = req[c].arg
      BY <1>2, SelectReads
    <2>3. Tail(req[c].todo) \in Seq(SelectsOf(req[c].route))
      BY <2>1, HeadTailProperties
    <2> QED
      BY <2>1, <2>2, <2>3
  <1>3. CASE Close(c)
    BY <1>3, CloseComputes DEF Close, Resting, TodoInv
  <1>4. CASE GoesOn(c)
    <2>1. /\ req'[c].todo = req[c].todo /\ ~Resting(c)
          /\ req'[c].route = req[c].route /\ req'[c].arg = req[c].arg
      BY <1>4 DEF GoesOn, Resting, ReadersInv
    <2> QED
      BY <2>1 DEF TodoInv
  <1> QED
    BY <1>1, <1>2, <1>3, <1>4, StepsOfRequests

LEMMA TodosInvariant == ReadersSpec => []TodoInv
  <1>1. ReadersInit => TodoInv
    BY DEF ReadersInit, TodoInv, Resting, NoRequest
  <1>2. ReadersInv /\ ReadInv /\ TodoInv /\ [ReadersNext]_vars => TodoInv'
    BY StepKeepsTodo
  <1> QED
    BY <1>1, <1>2, ReadersInvariant, ReadsInvariant, PTL DEF ReadersSpec

(* How a request proceeds, by what its steps leave of it. *)
LEMMA ProceedAdvances ==
    ASSUME ReadersInv, ReadInv, TodoInv, NEW c \in Clients, Proceed(c)
    PROVE  StepsLeft(req'[c]) < StepsLeft(req[c])
  <1>1. PICK Values : req \in [Clients -> Request(Values)]
    BY DEF ReadersInv
  <1>2. ~Resting(c)
    BY DEF Proceed, Connect, ConnectFails, Select, SelectFails, Close, CloseFails, Resting
  <1>3. req[c].todo \in Seq(SelectsOf(req[c].route)) /\ Len(req[c].todo) \in Nat
    BY <1>2 DEF TodoInv
  <1>4. ASSUME req'[c].phase = "done" PROVE StepsLeft(req'[c]) = 0
    BY <1>4 DEF StepsLeft
  <1>5. StepsLeft(req[c]) > 0
    BY <1>1, <1>2, <1>3 DEF StepsLeft, Resting, Request, Phases
  <1>6. CASE Connect(c)
    <2>1. /\ req[c].phase = "connect" /\ req'[c].phase = "select"
          /\ req'[c].todo = req[c].todo
      BY <1>1, <1>6 DEF Connect, Request
    <2> QED
      BY <1>3, <2>1 DEF StepsLeft
  <1>7. CASE ConnectFails(c) \/ CloseFails(c)
    <2>1. req'[c].phase = "done"
      BY <1>1, <1>7 DEF ConnectFails, CloseFails, Request
    <2> QED
      BY <1>4, <1>5, <2>1
  <1>8. CASE Select(c)
    <2>1. /\ req[c].phase = "select" /\ req[c].todo # <<>>
      BY <1>8 DEF Select, ReadInv, Ended
    <2>2. req'[c].todo = Tail(req[c].todo) /\ req'[c].phase \in {"select", "close"}
      BY <1>8, SelectReads
    <2>3. Len(req'[c].todo) = Len(req[c].todo) - 1 /\ Len(req[c].todo) > 0
      BY <1>3, <2>1, <2>2
    <2> QED
      BY <1>3, <2>1, <2>2, <2>3 DEF StepsLeft
  <1>9. CASE SelectFails(c)
    <2>1. /\ req[c].phase = "select" /\ req'[c].phase = "close" /\ req'[c].failed
      BY <1>1, <1>9 DEF SelectFails, Request
    <2> QED
      BY <1>3, <2>1 DEF StepsLeft
  <1>10. CASE Close(c)
    <2>1. /\ req[c].phase = "close" /\ req'[c].todo = req[c].todo
          /\ \/ req'[c].phase = "done"
             \/ req'[c].phase = "connect" /\ ~req[c].failed
      BY <1>1, <1>10 DEF Close, Request
    <2> QED
      BY <1>3, <1>4, <1>5, <2>1 DEF StepsLeft
  <1> QED
    BY <1>6, <1>7, <1>8, <1>9, <1>10 DEF Proceed

LEMMA StepAdvances ==
    ASSUME ReadersInv, ReadInv, TodoInv, [ReadersNext]_vars,
           NEW c \in Clients, ~Resting(c)
    PROVE  \/ req'[c] = req[c]
           \/ req'[c] = [req[c] EXCEPT !.session = "lost"]
           \/ StepsLeft(req'[c]) < StepsLeft(req[c])
  <1>1. PICK Values : req \in [Clients -> Request(Values)]
    BY DEF ReadersInv
  <1>2. ASSUME NEW d \in Clients, NEW route, NEW arg, Ask(d, route, arg)
        PROVE  req'[c] = req[c]
    BY <1>1, <1>2 DEF Ask
  <1>3. ASSUME NEW d \in Clients, d # c, Proceed(d) PROVE req'[c] = req[c]
    BY <1>1, <1>3 DEF Proceed, Connect, ConnectFails, Select, SelectFails, Close, CloseFails
  <1>4. ServerGoesDown => \/ req'[c] = req[c]
                          \/ req'[c] = [req[c] EXCEPT !.session = "lost"]
    BY DEF ServerGoesDown
  <1>5. ServerIsFull \/ ServerAccepts \/ Write \/ UNCHANGED vars => req'[c] = req[c]
    BY DEF ServerIsFull, ServerAccepts, Write, vars, readerVars
  <1> QED
    BY <1>2, <1>3, <1>4, <1>5, ProceedAdvances DEF ReadersNext

(***************************************************************************)
(* A request takes no more steps of its own than its plan allows for,      *)
(* whatever the writers and the server do.  That one can always be taken   *)
(* is RequestsAreNeverStuck; that it is, the fairness of the event loop.   *)
(***************************************************************************)
THEOREM RequestsNeverGoBack == ReadersSpec => RequestsAdvance
  <1>1. ReadersInv /\ ReadInv /\ TodoInv /\ [ReadersNext]_vars =>
          [\A c \in Clients : ~Resting(c) =>
             \/ req'[c] = req[c]
             \/ req'[c] = [req[c] EXCEPT !.session = "lost"]
             \/ StepsLeft(req'[c]) < StepsLeft(req[c])]_vars
    BY StepAdvances
  <1> QED
    BY <1>1, ReadersInvariant, ReadsInvariant, TodosInvariant, PTL
    DEF ReadersSpec, RequestsAdvance
=============================================================================
