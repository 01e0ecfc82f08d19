------------------------------ MODULE MCReaders ------------------------------
(***************************************************************************)
(* Two entries, services and lineage nodes, one document; one system that  *)
(* writes, and one client, who asks the routes that read what it writes.   *)
(***************************************************************************)
EXTENDS Readers

MCEntries   == {"e1", "e2"}
MCServices  == {"s1", "s2"}
MCNodes     == {"n1", "n2"}
MCDocuments == {"d1"}
MCClients   == {"c1"}
MCAdvanced  == {"claimed_for_send", "dead_lettered", "accepted"}
MCReported  == {"ready", "unavailable"}
MCLimits    == {-1, 3}
MCFilters   == {{"n1"}, MCNodes}

MCMaxWrites(w) == IF w = "services" THEN 2 ELSE 3
MCMaxTime(w) == IF w = "services" THEN 2 ELSE 1

MCMayAsk(route, w) ==
    route \in CASE w = "promotions" -> {"queue", "slice", "sliceDetail"}
                [] w = "services"   -> {"overview", "systems", "freshness"}
                [] w = "lineage"    -> {"nodes", "node", "downstream"}
                [] w = "documents"  -> {"proposals", "proposal", "pack", "applications"}
=============================================================================
