------------------------------ MODULE Analytics ------------------------------
(***************************************************************************)
(* src/app/analytics_services.py: how old the reports of the services are, *)
(* and how many promotions are where.                                      *)
(***************************************************************************)
EXTENDS Selects

CONSTANTS AgingThreshold, StaleThreshold,   \* of analytics_config.py
          LeaseGrace
ASSUME ThresholdsAssumption == {AgingThreshold, StaleThreshold} \subseteq Int

Buckets == {"queued", "leased", "failed", "deferred"}
ASSUME NoneIsNoBucket == None \notin Buckets
Enabled == {s \in Services : services[s].enabled}

(* _SERVICE_STATE_TO_STATUS; a service without a report has no state. *)
SystemStatus(state) ==
    CASE state = "ready"                     -> "healthy"
      [] state \in {"degraded", "migrating"} -> "degraded"
      [] state = "unavailable"               -> "offline"
      [] OTHER                               -> "unknown"

(* Mutant: the table of the buckets has no line for dead letters. *)
QueueBucketWithoutDeadLetters(status) ==
    CASE status \in {"staged", "queued"} -> "queued"
      [] status \in {"claimed_for_send", "awaiting_receipt_reconciliation"} -> "leased"
      [] status = "send_failed_retryable" -> "failed"
      [] status = "rejected" -> "deferred"
      [] OTHER -> None

(* _QUEUE_STATUS_TO_BUCKET: "accepted" has none. *)
QueueBucket(status) ==
    CASE status \in {"staged", "queued"} -> "queued"
      [] status \in {"claimed_for_send", "awaiting_receipt_reconciliation"} -> "leased"
      [] status = "send_failed_retryable" -> "failed"
      [] status \in {"rejected", "dead_lettered"} -> "deferred"
      [] OTHER -> None

(* _SYSTEMS_SQL, _QUEUE_SQL and _FRESHNESS_SQL. *)
SystemRows == [s \in Enabled |-> services[s]]
AnalyticsQueueRows == [e \in {x \in Entries : staging[x] # None} |-> staging[e]]
FreshnessRows == [s \in Enabled |-> services[s].reported]

AgeSeconds(now, at) ==
    IF at = None THEN None ELSE IF now < at THEN 0 ELSE now - at

PostureForAge(age) ==
    IF age = None THEN "unknown"
    ELSE IF age < AgingThreshold THEN "fresh"
    ELSE IF age < StaleThreshold THEN "aging"
    ELSE "stale"

(* Mutant: the freshest wins. *)
OverallPostureFreshest(postures) ==
    IF "fresh" \in postures THEN "fresh"
    ELSE IF "aging" \in postures THEN "aging"
    ELSE IF "stale" \in postures THEN "stale" ELSE "unknown"

(* _overall_posture: the least fresh wins, and unknown only among unknowns. *)
OverallPosture(postures) ==
    IF "stale" \in postures THEN "stale"
    ELSE IF "aging" \in postures THEN "aging"
    ELSE IF "fresh" \in postures THEN "fresh" ELSE "unknown"

ComputeSystems(rows, now) ==
    [posture |-> OverallPosture({PostureForAge(AgeSeconds(now, rows[s].reported)) :
                                    s \in DOMAIN rows}),
     status |-> [s \in DOMAIN rows |-> SystemStatus(rows[s].state)]]

(* `now` is fixed before the rows are read: a lease may end in between. *)
ComputeQueue(rows, now) ==
    [counts |-> [b \in Buckets |->
        Cardinality({e \in DOMAIN rows : QueueBucket(rows[e].status) = b})],
     stale_leases |-> {e \in DOMAIN rows :
        /\ rows[e].status = "claimed_for_send" /\ rows[e].lease # None
        /\ rows[e].lease < now - LeaseGrace},
     active_ages |-> {AgeSeconds(now, rows[e].created) : e \in
        {x \in DOMAIN rows : rows[x].status \notin TerminalStatuses}}]

ComputeFreshness(rows, now) ==
    LET posture == [s \in DOMAIN rows |-> PostureForAge(AgeSeconds(now, rows[s]))]
    IN [posture |-> OverallPosture({posture[s] : s \in DOMAIN rows}),
        stale |-> {s \in DOMAIN rows : posture[s] = "stale"}]

HasStatus(systems, status) ==
    \E s \in DOMAIN systems.status : systems.status[s] = status

ComposeOverview(systems, queue, freshness) ==
    [posture |-> OverallPosture({systems.posture, freshness.posture}),
     flags |-> {flag \in {"stale_lease", "offline", "degraded", "stale_source"} :
        CASE flag = "stale_lease"  -> queue.stale_leases # {}
          [] flag = "offline"      -> HasStatus(systems, "offline")
          [] flag = "degraded"     -> HasStatus(systems, "degraded")
          [] flag = "stale_source" -> freshness.stale # {}},
     counts |-> queue.counts]

-----------------------------------------------------------------------------
AnalyticsPlan ==
    [systems   |-> <<"systems">>,
     queue     |-> <<"queue">>,
     freshness |-> <<"freshness">>,
     overview  |-> <<"systems", "queue", "freshness">>]

AnalyticsRoutes == DOMAIN AnalyticsPlan

AnalyticsRows(select) ==
    CASE select = "systems"   -> {SystemRows}
      [] select = "queue"     -> {AnalyticsQueueRows}
      [] select = "freshness" -> {FreshnessRows}

(* `now` is the time at which the route began, before its first SELECT. *)
AnalyticsAnswer(route, read, now) ==
    CASE route = "systems"   -> Ok(ComputeSystems(read.systems, now))
      [] route = "queue"     -> Ok(ComputeQueue(read.queue, now))
      [] route = "freshness" -> Ok(ComputeFreshness(read.freshness, now))
      [] route = "overview"  -> Ok(ComposeOverview(
                                    ComputeSystems(read.systems, now),
                                    ComputeQueue(read.queue, now),
                                    ComputeFreshness(read.freshness, now)))
=============================================================================
