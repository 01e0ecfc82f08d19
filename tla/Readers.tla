------------------------------- MODULE Readers -------------------------------
(***************************************************************************)
(* The read-only routes of src/app/api, from the request to the answer.    *)
(* A route reads with one to three SELECTs.  Each fetch opens a connection *)
(* of its own (asyncpg.connect, no pool), makes its SELECTs one statement  *)
(* at a time, without a transaction around them, and closes in a finally.  *)
(* Each of these can raise whatever the state of the server, for a missing *)
(* table, a privilege or a bad value, and any exception becomes the        *)
(* route's 503.  Other systems write between any two steps, and the        *)
(* database goes down and comes back.                                      *)
(*                                                                         *)
(* A client asks one request at a time, any number of times.               *)
(***************************************************************************)
EXTENDS ProvingSlice, Analytics, Lineage, Documents, Sequences

CONSTANTS Clients,
          MayAsk(_, _)      \* which routes clients ask beside a writer

VARIABLES accepts,          \* does PostgreSQL accept a new connection
          req,              \* each client's request
          seen              \* history: what happened during it

readerVars == <<accepts, req, seen>>
vars == <<foreignVars, readerVars>>

(***************************************************************************)
(* Each router mounts its routes; a route has the SELECTs of its plan, what *)
(* each may return, and the answer that is computed from them.              *)
(***************************************************************************)
Routes == AnalyticsRoutes \cup SliceRoutes \cup LineageRoutes \cup DocumentRoutes

Args(route) ==
    CASE route \in AnalyticsRoutes -> {None}
      [] route \in SliceRoutes     -> SliceArgs(route)
      [] route \in LineageRoutes   -> LineageArgs(route)
      [] route \in DocumentRoutes  -> DocumentArgs(route)

Plan(route) ==
    CASE route \in AnalyticsRoutes -> AnalyticsPlan[route]
      [] route \in SliceRoutes     -> SlicePlan[route]
      [] route \in LineageRoutes   -> LineagePlan[route]
      [] route \in DocumentRoutes  -> <<route>>

Rows(r, select) ==
    CASE r.route \in AnalyticsRoutes -> AnalyticsRows(select)
      [] r.route \in SliceRoutes     -> SliceRows(select, r.arg)
      [] r.route \in LineageRoutes   -> LineageRows(select, r.arg, r.read)
      [] r.route \in DocumentRoutes  -> DocumentRows(select, r.arg)

Compute(r) ==
    CASE r.route \in AnalyticsRoutes -> AnalyticsAnswer(r.route, r.read, r.began)
      [] r.route \in SliceRoutes     -> SliceAnswer(r.route, r.read)
      [] r.route \in LineageRoutes   -> LineageAnswer(r.route, r.read)
      [] r.route \in DocumentRoutes  -> DocumentAnswer(r.route, r.read)

(* The SELECTs that continue on the connection of the one before. *)
SameConnection == {"artifact", "attempts"}

-----------------------------------------------------------------------------
Phases == {"idle", "connect", "select", "close", "done"}

NoAnswer == [kind |-> "none"]
NoRequest == [route |-> None, arg |-> None, began |-> 0,
              todo |-> <<>>, read |-> <<>>,
              phase |-> "idle", session |-> "none", failed |-> FALSE,
              answer |-> NoAnswer]

ReadersInit ==
    /\ ForeignInit
    /\ accepts \in BOOLEAN
    /\ req = [c \in Clients |-> NoRequest]
    /\ seen = [c \in Clients |-> [overdue |-> {}, absent |-> {}]]

Resting(c) == req[c].phase \in {"idle", "done"}

(* What was read, with the rows of one more SELECT. *)
Reading(read, select, rows) ==
    [s \in DOMAIN read \cup {select} |-> IF s = select THEN rows ELSE read[s]]

(* Nothing left to read, no row to go on with, or no edge to follow. *)
Ended(r) ==
    \/ r.todo = <<>>
    \/ Head(r.todo) = "artifact" /\ r.read.staging = None
    \/ Head(r.todo) = "targets" /\ r.read.edges = {}

Ask(c, route, arg) ==
    /\ Resting(c) /\ MayAsk(route, writer)
    /\ LET r == [NoRequest EXCEPT !.route = route, !.arg = arg, !.began = clock]
       IN req' = [req EXCEPT ![c] =
            IF ArgIsValid(route, arg)
            THEN [r EXCEPT !.phase = "connect", !.todo = Plan(route)]
            ELSE [r EXCEPT !.phase = "done", !.answer = Invalid]]
    /\ UNCHANGED <<foreignVars, accepts>>

Connect(c) ==
    /\ req[c].phase = "connect"
    /\ accepts
    /\ req' = [req EXCEPT ![c].phase = "select", ![c].session = "open"]
    /\ UNCHANGED <<foreignVars, accepts>>

(* Mutant: without a connection there is nothing to list. *)
ConnectFailsAsEmpty(c) ==
    /\ req[c].phase = "connect"
    /\ req' = [req EXCEPT ![c].phase = "done", ![c].failed = TRUE,
                          ![c].answer = Ok({})]
    /\ UNCHANGED <<foreignVars, accepts>>

(* Mutant: connect again until the server accepts. *)
ConnectFailsRetried(c) ==
    /\ req[c].phase = "connect"
    /\ UNCHANGED <<foreignVars, accepts, req>>

(* Any exception: refused, no connection left, wrong password, no database. *)
ConnectFails(c) ==
    /\ req[c].phase = "connect"
    /\ req' = [req EXCEPT ![c].phase = "done", ![c].failed = TRUE,
                          ![c].answer = Unavailable]
    /\ UNCHANGED <<foreignVars, accepts>>

Select(c) ==
    /\ req[c].phase = "select" /\ req[c].session = "open"
    /\ LET select == Head(req[c].todo)
       IN \E rows \in Rows(req[c], select) :
          LET r == [req[c] EXCEPT !.todo = Tail(@),
                                  !.read = Reading(@, select, rows)]
          IN req' = [req EXCEPT ![c] = [r EXCEPT !.phase =
                 IF ~Ended(r) /\ Head(r.todo) \in SameConnection
                 THEN "select" ELSE "close"]]
    /\ UNCHANGED <<foreignVars, accepts>>

(* Mutant: no finally around the SELECTs. *)
SelectFailsWithoutClose(c) ==
    /\ req[c].phase = "select"
    /\ req' = [req EXCEPT ![c].phase = "done", ![c].failed = TRUE,
                          ![c].answer = Unavailable]
    /\ UNCHANGED <<foreignVars, accepts>>

(* Any exception of a query, on a session that is lost or on a live one. *)
SelectFails(c) ==
    /\ req[c].phase = "select"
    /\ req' = [req EXCEPT ![c].phase = "close", ![c].failed = TRUE]
    /\ UNCHANGED <<foreignVars, accepts>>

(* Mutant: the except clause logs and does not raise. *)
CloseWithoutRaise(c) ==
    /\ req[c].phase = "close"
    /\ req' = [req EXCEPT ![c].session = "none",
           ![c].phase = IF req[c].failed \/ Ended(req[c]) THEN "done" ELSE "connect",
           ![c].answer = IF ~req[c].failed /\ Ended(req[c]) THEN Compute(req[c])
                         ELSE NoAnswer]
    /\ UNCHANGED <<foreignVars, accepts>>

(* Mutant: a fetch that failed is made once more. *)
CloseAndRetry(c) ==
    /\ req[c].phase = "close"
    /\ req' = [req EXCEPT ![c].session = "none", ![c].failed = FALSE,
           ![c].phase = IF ~req[c].failed /\ Ended(req[c]) THEN "done" ELSE "connect",
           ![c].answer = IF ~req[c].failed /\ Ended(req[c]) THEN Compute(req[c])
                         ELSE NoAnswer]
    /\ UNCHANGED <<foreignVars, accepts>>

(* The finally; then the next fetch, the 503, or the computed answer. *)
Close(c) ==
    /\ req[c].phase = "close"
    /\ req' = [req EXCEPT ![c].session = "none",
           ![c].phase = IF req[c].failed \/ Ended(req[c]) THEN "done" ELSE "connect",
           ![c].answer = IF req[c].failed THEN Unavailable
                         ELSE IF Ended(req[c]) THEN Compute(req[c])
                         ELSE NoAnswer]
    /\ UNCHANGED <<foreignVars, accepts>>

(* close() raises in its turn, and has dropped the session all the same. *)
CloseFails(c) ==
    /\ req[c].phase = "close"
    /\ req' = [req EXCEPT ![c].phase = "done", ![c].session = "none",
                          ![c].failed = TRUE, ![c].answer = Unavailable]
    /\ UNCHANGED <<foreignVars, accepts>>

Proceed(c) ==
    \/ Connect(c) \/ ConnectFails(c)
    \/ Select(c) \/ SelectFails(c)
    \/ Close(c) \/ CloseFails(c)

(* Other programs have all connections the server allows. *)
ServerIsFull ==
    /\ accepts
    /\ accepts' = FALSE
    /\ UNCHANGED <<foreignVars, req>>

ServerGoesDown ==
    /\ accepts' = FALSE
    /\ req' = [c \in Clients |->
                 IF req[c].session = "open" THEN [req[c] EXCEPT !.session = "lost"]
                 ELSE req[c]]
    /\ UNCHANGED foreignVars

ServerAccepts ==
    /\ ~accepts
    /\ accepts' = TRUE
    /\ UNCHANGED <<foreignVars, req>>

Write ==
    /\ ForeignNext
    /\ UNCHANGED <<accepts, req>>

-----------------------------------------------------------------------------
(***************************************************************************)
(* History, no part of the program, read by properties only.  From the     *)
(* request on: the services that were overdue then and have neither        *)
(* reported nor been disabled since; and the nodes that were absent at     *)
(* some time.                                                              *)
(***************************************************************************)
IsOverdue(s) ==
    /\ services[s].enabled /\ services[s].reported # None
    /\ clock - services[s].reported >= StaleThreshold

Observe ==
    seen' = [c \in Clients |->
       IF ~Resting(c)
       THEN [overdue |-> {s \in seen[c].overdue : services'[s] = services[s]},
             absent  |-> seen[c].absent \cup {n \in Nodes : nodes'[n] = None}]
       ELSE IF req'[c].phase = "connect"
       THEN [overdue |-> {s \in Services : IsOverdue(s)},
             absent  |-> Nodes \ ExistingNodes]
       ELSE seen[c]]

ReadersNext ==
    /\ \/ \E c \in Clients : \/ \E route \in Routes : \E arg \in Args(route) :
                                   Ask(c, route, arg)
                             \/ Proceed(c)
       \/ ServerIsFull \/ ServerGoesDown \/ ServerAccepts \/ Write
    /\ Observe

ReadersSpec ==
    /\ ReadersInit /\ [][ReadersNext]_vars
    /\ \A c \in Clients : WF_vars(Proceed(c) /\ Observe)

-----------------------------------------------------------------------------
(* A client has an answer exactly when its request is done. *)
ReadersTypeOK ==
    /\ ForeignTypeOK /\ accepts \in BOOLEAN
    /\ \A c \in Clients :
          /\ req[c].phase \in Phases
          /\ req[c].session \in {"none", "open", "lost"}
          /\ req[c].failed \in BOOLEAN
          /\ req[c].phase = "idle" => req[c] = NoRequest
          /\ req[c].phase # "idle" => req[c].route \in Routes
          /\ req[c].phase = "done" <=> req[c].answer # NoAnswer
          /\ seen[c].overdue \subseteq Services
          /\ seen[c].absent \subseteq Nodes

Answered(c, kind) == req[c].phase = "done" /\ req[c].answer.kind = kind

(* No request keeps a connection beyond its fetch: not the one that failed, *)
(* not the one that waits for its next, not the one that has its answer.    *)
ConnectionsAreReleased ==
    \A c \in Clients :
       req[c].session # "none" <=> req[c].phase \in {"select", "close"}

(* A route that could not read answers 503 (local-api-target-roles.md): an  *)
(* empty list or a 404 was read from the tables, with every SELECT it needs.*)
FailureIsNotAnEmptyAnswer ==
    \A c \in Clients :
       Answered(c, "ok") \/ Answered(c, "notFound") => ~req[c].failed /\ Ended(req[c])

(* The detail of an entry never shows fewer attempts in its audit than the  *)
(* staging row in the same answer has counted, whatever the worker does     *)
(* between the three SELECTs.                                               *)
AuditIsNotOlderThanState ==
    \A c \in Clients :
       req[c].route = "sliceDetail" /\ Answered(c, "ok") =>
          req[c].answer.body.row.attempt_count <= req[c].answer.body.audit_summary

(* The nodes of a downstream answer are targets of its edges, and a target  *)
(* that is missing from it was missing from the table during the request.   *)
DownstreamIsExplained ==
    \A c \in Clients :
       req[c].route = "downstream" /\ Answered(c, "ok") =>
          LET body == req[c].answer.body
          IN /\ body.nodes \subseteq TargetIds(body.edges)
             /\ TargetIds(body.edges) \ body.nodes \subseteq seen[c].absent

(* A service whose report was overdue when the overview was asked for, and  *)
(* that did nothing since, is flagged and makes the posture stale.          *)
OverdueServicesAreFlagged ==
    \A c \in Clients :
       /\ req[c].route = "overview" /\ Answered(c, "ok")
       /\ seen[c].overdue # {} /\ AgingThreshold <= StaleThreshold
       => /\ "stale_source" \in req[c].answer.body.flags
          /\ req[c].answer.body.posture = "stale"

(* The counts of the analytics and the list of the queue speak of the same  *)
(* entries; the counts have those without an artifact besides.              *)
CountsMatchList ==
    LET counts == ComputeQueue(AnalyticsQueueRows, clock).counts
        Unlisted == {e \in Entries : /\ staging[e] # None /\ payload[e] = None
                                     /\ staging[e].status # "accepted"}
    IN counts["queued"] + counts["leased"] + counts["failed"] + counts["deferred"]
          = Cardinality(Listable) + Cardinality(Unlisted)

(* An entry of a list that was given can be opened, unless its payload is a *)
(* JSON null or was encoded twice, which the list puts up with and the      *)
(* detail does not.                                                         *)
ListedEntriesOpen ==
    \A c \in Clients :
       req[c].route = "slice" /\ Answered(c, "ok") =>
          \A e \in DOMAIN req[c].answer.body :
             LET row == req[c].read["list"][e]
                 opened == [staging |-> row.row, artifact |-> row.payload,
                            attempts |-> row.row.counted]
             IN \/ ComputeDetailResponse(opened, clock).kind = "ok"
                \/ row.payload = "quoted"

(* What the steps of a request wait for: every SELECT has an answer, as no  *)
(* limit of one is below zero, and a lost session its except clause.        *)
CanGoOn(c) ==
    \/ req[c].phase \in {"connect", "close"}
    \/ req[c].phase = "select" /\ req[c].session = "lost"
    \/ /\ req[c].phase = "select" /\ req[c].session = "open"
       /\ Rows(req[c], Head(req[c].todo)) # {}

(* No request under way is left to fail, whatever it asked for and whatever *)
(* befell the tables: as long as its session lives, its SELECT has an       *)
(* answer.                                                                  *)
RequestsCanGoOn == \A c \in Clients : ~Resting(c) => CanGoOn(c)

(* Connect, SELECT and close for each SELECT still to make, at most. *)
StepsLeft(r) ==
    CASE r.phase = "connect" -> 3 * Len(r.todo) + 3
      [] r.phase = "select"  -> 3 * Len(r.todo) + 2
      [] r.phase = "close"   -> IF r.failed THEN 1 ELSE 3 * Len(r.todo) + 4
      [] OTHER               -> 0

(* A request under way never goes back: every step of its own brings it     *)
(* nearer its answer, with no SELECT repeated and no fetch retried, and     *)
(* nobody else changes more of it than the session it loses.                *)
RequestsAdvance ==
    [][\A c \in Clients : ~Resting(c) =>
          \/ req'[c] = req[c]
          \/ req'[c] = [req[c] EXCEPT !.session = "lost"]
          \/ StepsLeft(req'[c]) < StepsLeft(req[c])]_vars

(* Every request gets an answer: no fetch waits for a connection, and what  *)
(* is lost, refused or rejected ends in an exception.                       *)
EveryRequestIsAnswered ==
    \A c \in Clients : ~Resting(c) ~> Resting(c)
=============================================================================
