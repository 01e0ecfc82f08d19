--------------------------- MODULE MCSchemaVersions ---------------------------
(***************************************************************************)
(* The bundled files with two bootstraps that run all of them and an       *)
(* AuthorForge that runs its own four.                                     *)
(***************************************************************************)
EXTENDS SchemaVersions, BundledMigrations

MCRunners  == {"bootA", "bootB", "app"}
MCTargets  == {"core", "authorforge"}
MCVersions == {"0001", "0002", "0003", "0004"}
MCPlan     == [r \in MCRunners |-> IF r = "app" THEN AuthorForgeFiles
                                   ELSE CoreFiles \o AuthorForgeFiles]
MCFinal    == [core |-> EXPECTED_CORE_VERSION, authorforge |-> "0004"]
==============================================================================
