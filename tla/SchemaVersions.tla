---------------------------- MODULE SchemaVersions ----------------------------
(***************************************************************************)
(* The bundled migrations (src/sql/core, src/sql/apps/authorforge) and     *)
(* what they do to core_schema_versions, the table every readiness verdict *)
(* is read from.                                                           *)
(*                                                                         *)
(* No program under src/ applies them: a bootstrap outside the repository  *)
(* "re-applies every bundled migration on each boot (no version tracking)" *)
(* (sql/apps/authorforge/0004:20-21), and AuthorForge runs its own.  Each  *)
(* of these runners is modelled by its plan, the files it runs in order.   *)
(* Each file is one transaction: BEGIN ... COMMIT.                         *)
(***************************************************************************)
EXTENDS Naturals, Sequences

CONSTANTS Runners,      \* who applies migrations: bootstraps, AuthorForge
          Targets,      \* rows of core_schema_versions: "core" and app ids
          Versions,     \* migration identifiers
          Plan,         \* for each runner, its sequence of files
          Final,        \* for each target, the version its last file records
          NoRow         \* the target has no row yet

(***************************************************************************)
(* A file: the target and version it records, whether it records them by   *)
(* INSERT ... ON CONFLICT DO UPDATE or by a bare UPDATE (which changes     *)
(* nothing when the row is missing), and whether it creates the core       *)
(* tables if they do not exist.                                            *)
(***************************************************************************)
Migration == [target : Targets, version : Versions,
              upsert : BOOLEAN, creates : BOOLEAN]

ASSUME NoRowAssumption == NoRow \notin Versions
ASSUME FinalAssumption == Final \in [Targets -> Versions]
ASSUME PlanAssumption ==
    /\ Plan \in [Runners -> Seq(Migration)]
    /\ \A r \in Runners : Plan[r] # <<>>

(* A plan never stops short of the last file of a target it touches ...    *)
ASSUME PlanIsComplete ==
    \A r \in Runners : \A i \in 1..Len(Plan[r]) :
       \E j \in i..Len(Plan[r]) :
          /\ Plan[r][j].target = Plan[r][i].target
          /\ Plan[r][j].version = Final[Plan[r][i].target]

(* ... and inserts the row of a target before it updates it.               *)
ASSUME PlanInsertsFirst ==
    \A r \in Runners : \A i \in 1..Len(Plan[r]) :
       \E j \in 1..i : /\ Plan[r][j].target = Plan[r][i].target
                       /\ Plan[r][j].upsert

VARIABLES version,      \* current_version of each target
          tables,       \* do the core tables exist
          runner,       \* what each runner is doing
          next          \* the next file a runner applies

schemaVars == <<version, tables, runner, next>>

SchemaTypeOK ==
    /\ version \in [Targets -> Versions \cup {NoRow}]
    /\ tables \in BOOLEAN
    /\ runner \in [Runners -> {"idle", "running", "stopped", "done"}]
    /\ next \in [Runners -> Nat \ {0}]
    /\ \A r \in Runners : runner[r] = "running" => next[r] <= Len(Plan[r])

(* A database nothing was installed in. *)
SchemaInit ==
    /\ version = [t \in Targets |-> NoRow]
    /\ tables = FALSE
    /\ runner = [r \in Runners |-> "idle"]
    /\ next = [r \in Runners |-> 1]

------------------------------------------------------------------------------

NextFile(r) == Plan[r][next[r]]

(* Mutant: after a failure a boot goes on behind the file that failed. *)
BootSkipsFailedFile(r) ==
    /\ runner[r] # "running"
    /\ runner' = [runner EXCEPT ![r] = "running"]
    /\ next' = [next EXCEPT ![r] =
                   IF runner[r] = "stopped" /\ @ < Len(Plan[r]) THEN @ + 1 ELSE 1]
    /\ UNCHANGED <<version, tables>>

(* A boot starts the plan again from its first file, whatever is applied. *)
Boot(r) ==
    /\ runner[r] # "running"
    /\ runner' = [runner EXCEPT ![r] = "running"]
    /\ next' = [next EXCEPT ![r] = 1]
    /\ UNCHANGED <<version, tables>>

(* Mutant: ON CONFLICT aside, the row is only ever updated. *)
RecordedByUpdate(m) ==
    IF version[m.target] # NoRow
    THEN [version EXCEPT ![m.target] = m.version]
    ELSE version

Recorded(m) ==
    IF m.upsert \/ version[m.target] # NoRow
    THEN [version EXCEPT ![m.target] = m.version]
    ELSE version

(* Mutant: the plan ends one file too late. *)
CommitPastTheEnd(r) ==
    /\ runner[r] = "running"
    /\ tables \/ NextFile(r).creates
    /\ tables' = TRUE
    /\ version' = Recorded(NextFile(r))
    /\ next' = [next EXCEPT ![r] = @ + 1]
    /\ runner' = [runner EXCEPT ![r] = IF next[r] > Len(Plan[r])
                                       THEN "done" ELSE "running"]

(* One file commits: its tables and its version row appear together. *)
Commit(r) ==
    /\ runner[r] = "running"
    /\ tables \/ NextFile(r).creates
    /\ tables' = TRUE
    /\ version' = Recorded(NextFile(r))
    /\ next' = [next EXCEPT ![r] = @ + 1]
    /\ runner' = [runner EXCEPT ![r] = IF next[r] = Len(Plan[r])
                                       THEN "done" ELSE "running"]

(* Mutant: a failed file is skipped and the rest of the plan still runs. *)
AbortGoesOn(r) ==
    /\ runner[r] = "running"
    /\ next' = [next EXCEPT ![r] = @ + 1]
    /\ runner' = [runner EXCEPT ![r] = IF next[r] = Len(Plan[r])
                                       THEN "done" ELSE "running"]
    /\ UNCHANGED <<version, tables>>

(* A file fails, or the runner dies: the open transaction is rolled back   *)
(* and the files after it are not run.                                     *)
Abort(r) ==
    /\ runner[r] = "running"
    /\ runner' = [runner EXCEPT ![r] = "stopped"]
    /\ UNCHANGED <<version, tables, next>>

SchemaNext == \E r \in Runners : Boot(r) \/ Commit(r) \/ Abort(r)

SchemaSpec == SchemaInit /\ [][SchemaNext]_schemaVars

------------------------------------------------------------------------------
(* Properties. *)

Touches(r, t) == \E i \in 1..Len(Plan[r]) : Plan[r][i].target = t

(* Runner r may have left target t at an old version. *)
MidPlan(r) == runner[r] \in {"running", "stopped"}

(* Some runner of t has finished since its last boot, and none is midway. *)
Settled(t) ==
    /\ \E r \in Runners : Touches(r, t) /\ runner[r] = "done"
    /\ \A r \in Runners : Touches(r, t) => ~MidPlan(r)

(***************************************************************************)
(* Re-applying everything on each boot, by several runners at once and     *)
(* with aborts in between, still converges: whenever the runners of a      *)
(* target have finished, its row records the last version.  (In between    *)
(* it goes back to the first one: 0001 upserts '0001' over '0002'.)        *)
(***************************************************************************)
Converged == \A t \in Targets : Settled(t) => version[t] = Final[t]

(***************************************************************************)
(* The reason: a row at an old version is the trace of a runner that still *)
(* has the last file of that target ahead of it.                           *)
(***************************************************************************)
OldVersionIsPending ==
    \A t \in Targets : version[t] \notin {NoRow, Final[t]} =>
       \E r \in Runners :
          /\ MidPlan(r)
          /\ \E i \in next[r]..Len(Plan[r]) :
                /\ Plan[r][i].target = t
                /\ Plan[r][i].version = Final[t]

(***************************************************************************)
(* A runner that is past a file of a target finds that target's row: the   *)
(* bare UPDATEs of 0002 and later never hit a missing row and so never     *)
(* silently record nothing.                                                *)
(***************************************************************************)
AppliedTargetHasRow ==
    \A r \in Runners : \A i \in 1..Len(Plan[r]) :
       (runner[r] # "idle" /\ i < next[r]) => version[Plan[r][i].target] # NoRow

(* The inductive invariant behind these. *)
DoneIsPastTheEnd == \A r \in Runners : runner[r] = "done" => next[r] > Len(Plan[r])

SchemaInv ==
    SchemaTypeOK /\ DoneIsPastTheEnd /\ AppliedTargetHasRow /\ OldVersionIsPending
==============================================================================
