----------------------------- MODULE CoreTables ------------------------------
(***************************************************************************)
(* Three core tables that grow and are rewritten without a lock:           *)
(* core_app_registry, written by AuthorForge's attach file on every boot   *)
(* (src/sql/apps/authorforge/0001) and by apps that register after the     *)
(* checks of Compatibility; core_health_events and core_backup_log, which  *)
(* src/core/lifecycle/maintenance.py prunes.                               *)
(*                                                                         *)
(* No code of src/ calls the checks: that a caller reads the stored row,   *)
(* asks, and then writes is what their parameters require of it.  The logs *)
(* are sets of the days on which rows were written.                        *)
(***************************************************************************)
EXTENDS Compatibility, FiniteSets

CONSTANTS Apps, AuthorForge,
          Registrations,        \* what apps send: required version and mode
          Attached,             \* what the attach file writes
          Foundations,          \* versions the foundation may have
          Registrars, Pruners,
          MinimumPruneDays,     \* MINIMUM_PRUNE_DAYS
          Windows,              \* values of older_than_days
          MaxSkew,              \* of a client's clock, in days
          MaxDay                \* bound

ASSUME PruneAssumption ==
    /\ MinimumPruneDays \in Nat /\ MaxSkew \in Nat /\ MaxDay \in Nat
    /\ Windows \subseteq Int

(* The foundation's own versions parse; app_mode is NOT NULL. *)
ASSUME RegistryAssumption ==
    /\ AuthorForge \in Apps
    /\ \A v \in Foundations : v \in Seq(Int) /\ Parses(v)
    /\ Attached.required \in Foundations
    /\ \A i \in Registrations \cup {Attached} :
          /\ i # None /\ i.mode # None
          /\ i.required # None => i.required \in Seq(Int)

VARIABLES running,              \* FOUNDATION_VERSION of the installation
          registry,             \* core_app_registry
          registrar,            \* each registration that is under way
          day, healthEvents, backupLog,
          pruner,               \* each prune that is under way
          downgraded            \* history: an older foundation was installed

registryVars == <<running, registry, registrar, downgraded>>
pruneVars == <<day, healthEvents, backupLog, pruner>>
coreVars == <<registryVars, pruneVars>>

Days == 0..MaxDay
Logs == {"core_health_events", "core_backup_log"}
Skews == (-MaxSkew)..MaxSkew

NoRegistration == [step |-> "idle", app |-> None, incoming |-> None,
                   existing |-> None, force |-> FALSE]
NoPrune == [step |-> "idle", table |-> None, cutoff |-> 0]

(* A prune that has computed its cutoff has kept to the minimum window. *)
CoreTypeOK ==
    /\ running \in Foundations
    /\ registry \in [Apps -> Registrations \cup {Attached, None}]
    /\ \A r \in Registrars :
          /\ registrar[r].step \in {"idle", "check", "write"}
          /\ registrar[r].step # "idle" => registrar[r].app \in Apps
    /\ day \in Days /\ healthEvents \subseteq Days /\ backupLog \subseteq Days
    /\ \A p \in Pruners :
          pruner[p].step = "delete" =>
             /\ pruner[p].table \in Logs
             /\ pruner[p].cutoff <= day + MaxSkew - MinimumPruneDays
    /\ downgraded \in BOOLEAN

CoreInit ==
    /\ running = Attached.required
    /\ registry = [a \in Apps |-> None]
    /\ registrar = [r \in Registrars |-> NoRegistration]
    /\ day = 0 /\ healthEvents = {} /\ backupLog = {}
    /\ pruner = [p \in Pruners |-> NoPrune]
    /\ downgraded = FALSE

-----------------------------------------------------------------------------
(* The installation: a new process has another FOUNDATION_VERSION. *)
Install(version) ==
    /\ version # running
    /\ running' = version
    /\ downgraded' = (downgraded \/ Newer(running, version))
    /\ UNCHANGED <<registry, registrar, pruneVars>>

(* The attach file: an upsert that nothing checks, and a health event. *)
Attach ==
    /\ registry' = [registry EXCEPT ![AuthorForge] = Attached]
    /\ healthEvents' = healthEvents \cup {day}
    /\ UNCHANGED <<running, registrar, downgraded, day, backupLog, pruner>>

ReadRegistration(r, a, incoming, force) ==
    /\ registrar[r].step = "idle"
    /\ registrar' = [registrar EXCEPT ![r] =
           [step |-> "check", app |-> a, incoming |-> incoming,
            existing |-> registry[a], force |-> force]]
    /\ UNCHANGED <<running, registry, downgraded, pruneVars>>

Verdict(r) ==
    LET s == registrar[r]
    IN IF s.existing = None THEN CheckRegistration(s.incoming, running)
       ELSE CheckReregistration(s.existing, s.incoming, running, s.force)

Check(r) ==
    /\ registrar[r].step = "check"
    /\ registrar' = [registrar EXCEPT ![r] =
           IF Verdict(r) = "ok" THEN [@ EXCEPT !.step = "write"]
           ELSE NoRegistration]
    /\ UNCHANGED <<running, registry, downgraded, pruneVars>>

WriteRegistration(r) ==
    /\ registrar[r].step = "write"
    /\ registry' = [registry EXCEPT ![registrar[r].app] = registrar[r].incoming]
    /\ registrar' = [registrar EXCEPT ![r] = NoRegistration]
    /\ UNCHANGED <<running, downgraded, pruneVars>>

-----------------------------------------------------------------------------
LogBackup ==
    /\ backupLog' = backupLog \cup {day}
    /\ UNCHANGED <<registryVars, day, healthEvents, pruner>>

NextDay ==
    /\ day < MaxDay
    /\ day' = day + 1
    /\ UNCHANGED <<registryVars, healthEvents, backupLog, pruner>>

(* Mutant: any window is good. *)
ComputeCutoffUnchecked(p, table, older_than_days, skew) ==
    /\ pruner[p].step = "idle"
    /\ pruner' = [pruner EXCEPT ![p] = [step |-> "delete", table |-> table,
                     cutoff |-> day + skew - older_than_days]]
    /\ UNCHANGED <<registryVars, day, healthEvents, backupLog>>

(* A smaller window is a MaintenanceError. *)
WindowIsAllowed(older_than_days) == older_than_days >= MinimumPruneDays

(* The clock is the client's. *)
ComputeCutoff(p, table, older_than_days, skew) ==
    /\ pruner[p].step = "idle"
    /\ WindowIsAllowed(older_than_days)
    /\ pruner' = [pruner EXCEPT ![p] = [step |-> "delete", table |-> table,
                     cutoff |-> day + skew - older_than_days]]
    /\ UNCHANGED <<registryVars, day, healthEvents, backupLog>>

(* Mutant: what is on the wrong side of the cutoff goes. *)
KeptByWrongSide(log, cutoff) == {d \in log : d < cutoff}

(* DELETE ... WHERE occurred_at < $1, or backup_at. *)
Kept(log, cutoff) == {d \in log : ~(d < cutoff)}

PruneHealthEvents(p) ==
    /\ pruner[p].step = "delete" /\ pruner[p].table = "core_health_events"
    /\ healthEvents' = Kept(healthEvents, pruner[p].cutoff)
    /\ pruner' = [pruner EXCEPT ![p] = NoPrune]
    /\ UNCHANGED <<registryVars, day, backupLog>>

PruneBackupLog(p) ==
    /\ pruner[p].step = "delete" /\ pruner[p].table = "core_backup_log"
    /\ backupLog' = Kept(backupLog, pruner[p].cutoff)
    /\ pruner' = [pruner EXCEPT ![p] = NoPrune]
    /\ UNCHANGED <<registryVars, day, healthEvents>>

(* The process ends before its DELETE, or the DELETE fails. *)
PruneDies(p) ==
    /\ pruner[p].step = "delete"
    /\ pruner' = [pruner EXCEPT ![p] = NoPrune]
    /\ UNCHANGED <<registryVars, day, healthEvents, backupLog>>

RegistryNext ==
    \/ \E version \in Foundations : Install(version)
    \/ Attach
    \/ \E r \in Registrars :
          \/ \E a \in Apps, i \in Registrations, f \in BOOLEAN : ReadRegistration(r, a, i, f)
          \/ Check(r) \/ WriteRegistration(r)

PruneNext ==
    \/ LogBackup \/ NextDay
    \/ \E p \in Pruners :
          \/ \E t \in Logs, w \in Windows, k \in Skews : ComputeCutoff(p, t, w, k)
          \/ PruneHealthEvents(p) \/ PruneBackupLog(p) \/ PruneDies(p)

CoreNext == RegistryNext \/ PruneNext

CoreSpec == CoreInit /\ [][CoreNext]_coreVars

-----------------------------------------------------------------------------
(* Every stored registration is one the foundation meets, until an older    *)
(* foundation is installed: nothing looks at the stored rows then.          *)
RequiredIsMet ==
    ~downgraded =>
       \A a \in Apps : registry[a] # None =>
          Parses(registry[a].required) /\ ~Newer(registry[a].required, running)

(* The required version of an app goes up only by the attach file, with     *)
(* force, or over a row that was written after the check had read it.       *)
RaisesAreIntended ==
    [][\A a \in Apps :
         (/\ registry[a] # None /\ registry'[a] # None
          /\ Newer(registry'[a].required, registry[a].required))
         => \/ a = AuthorForge /\ registry'[a] = Attached
            \/ \E r \in Registrars :
                  /\ registrar[r].step = "write" /\ registrar[r].app = a
                  /\ registrar[r].force \/ registrar[r].existing # registry[a]]_coreVars

(* Whatever the clocks and however late the DELETE, a row that goes is      *)
(* older than the minimum window less the skew of the clocks.               *)
PruneKeepsRecent ==
    [][\A d \in (healthEvents \ healthEvents') \cup (backupLog \ backupLog') :
          day - d > MinimumPruneDays - MaxSkew]_coreVars
=============================================================================
