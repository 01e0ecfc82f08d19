------------------------------ MODULE Documents ------------------------------
(***************************************************************************)
(* The readers that make one SELECT: healing_proposal_services.py,         *)
(* context_pack_services.py and public_applications_services.py.           *)
(***************************************************************************)
EXTENDS Selects

CONSTANT MaxProposals       \* the 200 of the healing-proposal LIMIT

ASSUME MaxProposalsAssumption == MaxProposals \in Nat \ {0}

ExistingProposals == {d \in Documents : proposals[d] # None}

ProposalRows(filter, limit) ==
    Latest(ExistingProposals \cap filter, proposals, Clamp(limit, MaxProposals))
ProposalRow(d) == IF d \in ExistingProposals THEN d ELSE None
ComputeProposalsResponse(rows) == Ok(rows)
ComputeProposalResponse(row) == IF row = None THEN NotFound ELSE Ok(row)

PackRow(d) == packs[d]
(* `{**metadata, ...}` fails on what is not a dict. *)
ComputePackResponse(row) ==
    IF row = None THEN NotFound
    ELSE IF IsDict(JsonValue(row)) THEN Ok(row) ELSE InternalError

ApplicationRows ==
    [d \in {x \in Documents : applications[x].enabled /\ applications[x].public}
        |-> applications[d]]
(* Filtered once more after the SELECT. *)
ComputeApplicationsResponse(rows) ==
    Ok({d \in DOMAIN rows : rows[d].enabled /\ rows[d].public})

-----------------------------------------------------------------------------
DocumentRoutes == {"proposals", "proposal", "pack", "applications"}

DocumentArgs(route) ==
    CASE route = "proposals"           -> (SUBSET Documents) \X Limits
      [] route \in {"proposal", "pack"} -> Documents
      [] route = "applications"        -> {None}

(* Query(50, ge=1, le=200) is checked before the handler runs. *)
ArgIsValid(route, arg) ==
    route = "proposals" => arg[2] \in 1..MaxProposals

(* Each route makes the SELECT of its name. *)
DocumentRows(route, arg) ==
    CASE route = "proposals"    -> ProposalRows(arg[1], arg[2])
      [] route = "proposal"     -> {ProposalRow(arg)}
      [] route = "pack"         -> {PackRow(arg)}
      [] route = "applications" -> {ApplicationRows}

DocumentAnswer(route, read) ==
    CASE route = "proposals"    -> ComputeProposalsResponse(read.proposals)
      [] route = "proposal"     -> ComputeProposalResponse(read.proposal)
      [] route = "pack"         -> ComputePackResponse(read.pack)
      [] route = "applications" -> ComputeApplicationsResponse(read.applications)
=============================================================================
