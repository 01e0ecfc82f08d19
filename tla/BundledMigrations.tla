-------------------------- MODULE BundledMigrations --------------------------
(***************************************************************************)
(* The SQL files of the repository as the data SchemaVersions runs on:     *)
(* what each transaction creates and what it records in                    *)
(* core_schema_versions.  The tables of the files other than the core ones *)
(* are not told apart.                                                     *)
(***************************************************************************)
EXTENDS Naturals, Sequences

LOCAL Insert(t, v) == [target |-> t, version |-> v, upsert |-> TRUE, creates |-> FALSE]
LOCAL Update(t, v) == [target |-> t, version |-> v, upsert |-> FALSE, creates |-> FALSE]

(* CREATE TABLE IF NOT EXISTS core_schema_versions, ...; INSERT ('core')   *)
(* ... ON CONFLICT DO UPDATE: it records '0001' over any later version.    *)
Core0001 == [Insert("core", "0001") EXCEPT !.creates = TRUE]
Core0002 == Update("core", "0002")

(* The attachment writes the registry row, its version row and an event in *)
(* tables it does not create.                                              *)
AuthorForge0001 == Insert("authorforge", "0001")
AuthorForge0002 == Update("authorforge", "0002")
AuthorForge0003 == Update("authorforge", "0003")
AuthorForge0004 == Update("authorforge", "0004")

CoreFiles == <<Core0001, Core0002>>
AuthorForgeFiles ==
    <<AuthorForge0001, AuthorForge0002, AuthorForge0003, AuthorForge0004>>

(* LifecycleManager.EXPECTED_CORE_VERSION is the version of the last core file. *)
EXPECTED_CORE_VERSION == "0002"
==============================================================================
