------------------------------- MODULE Lineage -------------------------------
(***************************************************************************)
(* src/app/lineage_services.py: nodes, and what lies downstream of one.    *)
(* A filter is the set of nodes its type and source system match.          *)
(***************************************************************************)
EXTENDS Selects

CONSTANT Filters            \* sets of nodes that filters match

ExistingNodes == {n \in Nodes : nodes[n] # None}

NodeRows(filter, limit) ==
    Latest(ExistingNodes \cap filter, nodes, Clamp(limit, MaxRows))

NodeRow(n) == IF n \in ExistingNodes THEN n ELSE None
DownstreamEdges(n) == {edge \in edges : edge[1] = n}

(* Mutant: the WHERE clause is lost. *)
NodesByIdsUnfiltered(ids) == ExistingNodes

NodesByIds(ids) == ExistingNodes \cap ids

TargetIds(edgeRows) == {edge[2] : edge \in edgeRows}

ComputeNodesResponse(rows) == Ok(rows)
ComputeNodeResponse(row) == IF row = None THEN NotFound ELSE Ok(row)

(* Without edges the answer is empty, not a 404, be the node there or not. *)
ComputeDownstreamResponse(read) ==
    Ok([edges |-> read.edges,
        nodes |-> IF read.edges = {} THEN {} ELSE read.targets])

-----------------------------------------------------------------------------
LineageRoutes == {"nodes", "node", "downstream"}

LineageArgs(route) ==
    IF route = "nodes" THEN Filters \X Limits ELSE Nodes

(* The SELECTs of each route, in their order. *)
LineagePlan ==
    [nodes      |-> <<"nodes">>,
     node       |-> <<"node">>,
     downstream |-> <<"edges", "targets">>]

(* What a SELECT may return, given the argument and what was read before. *)
LineageRows(select, arg, read) ==
    CASE select = "nodes"   -> NodeRows(arg[1], arg[2])
      [] select = "node"    -> {NodeRow(arg)}
      [] select = "edges"   -> {DownstreamEdges(arg)}
      [] select = "targets" -> {NodesByIds(TargetIds(read.edges))}

LineageAnswer(route, read) ==
    CASE route = "nodes"      -> ComputeNodesResponse(read.nodes)
      [] route = "node"       -> ComputeNodeResponse(read.node)
      [] route = "downstream" -> ComputeDownstreamResponse(read)
=============================================================================
