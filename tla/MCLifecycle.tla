----------------------------- MODULE MCLifecycle -----------------------------
(***************************************************************************)
(* An API process p with its start() and one request at a time, another    *)
(* process q that starts (a second API, or a tool), and one bootstrap that *)
(* applies the core files.                                                 *)
(***************************************************************************)
EXTENDS Lifecycle, BundledMigrations

MCProcs   == {"p", "q"}
MCCallers == (MCProcs \X {"start"}) \cup {<<"p", "request">>}
MCStarts  == MCProcs \X {"start"}
MCProcOf(c) == c[1]

MCRunners  == {"boot"}
MCTargets  == {"core"}
MCVersions == {"0001", "0002"}
MCPlan     == [r \in MCRunners |-> CoreFiles]
MCFinal    == [t \in MCTargets |-> EXPECTED_CORE_VERSION]
==============================================================================
