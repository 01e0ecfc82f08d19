---------------------------- MODULE ProvingSlice -----------------------------
(***************************************************************************)
(* src/app/proving_slice_queue_services.py: the promotion queue and the    *)
(* detail of one of its entries.                                           *)
(***************************************************************************)
EXTENDS Selects

CONSTANT QueueStaleAfter    \* PS_STALENESS_THRESHOLD_SECONDS

(* _QUEUE_SQL: a row needs an artifact, and what is accepted is left out. *)
Listable ==
    {e \in Entries : /\ staging[e] # None /\ payload[e] # None
                     /\ staging[e].status # "accepted"}

QueueRows(limit) ==
    {[e \in chosen |-> [row |-> staging[e], payload |-> payload[e]]] :
        chosen \in Latest(Listable, [e \in Listable |-> staging[e].updated],
                          Clamp(limit, MaxRows))}

(* The three queries of fetch_detail_rows. *)
DetailStaging(e) == staging[e]
DetailArtifact(e) == payload[e]
DetailAttempts(e) == attempts[e]

QueueStaleness(updated, now) ==
    IF now - updated > QueueStaleAfter THEN "stale" ELSE "fresh"

ComputeQueueRow(row, now) ==
    [promotion_state |-> row.status,
     staleness_posture |-> QueueStaleness(row.updated, now),
     attempt_count |-> row.counted]

(* Mutant: what is not a dict is listed without its payload. *)
ComputeQueueResponseTolerant(rows, now) ==
    Ok([e \in DOMAIN rows |-> ComputeQueueRow(rows[e].row, now)])

(***************************************************************************)
(* The list decodes a payload twice, once for the join and once for the    *)
(* row; `.get` on what is not a dict fails, and the whole list with it.    *)
(***************************************************************************)
ComputeQueueResponse(rows, now) ==
    IF \A e \in DOMAIN rows : IsDict(JsonValue(JsonValue(rows[e].payload)))
    THEN Ok([e \in DOMAIN rows |-> ComputeQueueRow(rows[e].row, now)])
    ELSE InternalError

RejectionBlock(status) ==
    IF status \in {"rejected", "dead_lettered"}
    THEN [state |-> status, operator_action_required |-> status = "dead_lettered"]
    ELSE None

(* The detail decodes a payload once; no artifact row counts as no payload. *)
ComputeDetailResponse(read, now) ==
    IF read.staging = None THEN NotFound
    ELSE IF read.artifact # None /\ ~IsDict(JsonValue(read.artifact))
    THEN InternalError
    ELSE Ok([row |-> ComputeQueueRow(read.staging, now),
             rejection |-> RejectionBlock(read.staging.status),
             audit_summary |-> read.attempts])

-----------------------------------------------------------------------------
SliceRoutes == {"slice", "sliceDetail"}

SliceArgs(route) == IF route = "slice" THEN Limits ELSE Entries

(* Mutant: the attempts are read before the row that counts them. *)
SlicePlanAttemptsFirst ==
    [slice       |-> <<"list">>,
     sliceDetail |-> <<"attempts", "staging", "artifact">>]

SlicePlan ==
    [slice       |-> <<"list">>,
     sliceDetail |-> <<"staging", "artifact", "attempts">>]

SliceRows(select, arg) ==
    CASE select = "list"     -> QueueRows(arg)
      [] select = "staging"  -> {DetailStaging(arg)}
      [] select = "artifact" -> {DetailArtifact(arg)}
      [] select = "attempts" -> {DetailAttempts(arg)}

(* The staleness of a row is that of the time it is computed. *)
SliceAnswer(route, read) ==
    IF route = "slice" THEN ComputeQueueResponse(read.list, clock)
                       ELSE ComputeDetailResponse(read, clock)
=============================================================================
