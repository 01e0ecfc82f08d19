------------------------------ MODULE Lifecycle ------------------------------
(***************************************************************************)
(* LifecycleManager (src/core/lifecycle/manager.py) in the processes that  *)
(* use it: the API of src/app/main.py, whose lifespan runs start() once    *)
(* and whose /health requests run status(), and the tools, which call      *)
(* start() or, db-status, status() alone.                                  *)
(*                                                                         *)
(* All processes share one database: the advisory lock (MigrationGate),    *)
(* and core_schema_versions, which migration runners write without the     *)
(* lock (SchemaVersions).  The database goes down and comes back, sessions *)
(* are lost, processes die and are started again.                          *)
(*                                                                         *)
(* `logger.error(msg, error=...)` and `logger.warning(msg, error=...)` on  *)
(* a standard-library logger raise TypeError; the paths through them end   *)
(* in that exception here, as they do in the program.                      *)
(***************************************************************************)
EXTENDS MigrationGate, SchemaVersions

CONSTANTS Procs,        \* processes with a LifecycleManager
          Starts,       \* the callers that run start(), one per process
          ProcOf(_)     \* the process of a caller

ASSUME StartsAssumption ==
    /\ Starts \subseteq Callers
    /\ \A c \in Callers : ProcOf(c) \in Procs
    /\ \A p \in Procs : \E s \in Starts : ProcOf(s) = p
    /\ \A s1, s2 \in Starts : ProcOf(s1) = ProcOf(s2) => s1 = s2
ASSUME CoreIsATarget == "core" \in Targets

VARIABLES dbUp,         \* does PostgreSQL accept connections
          app,          \* the life of each process
          pool,         \* is LifecycleManager._pool set
          verdict,      \* what the last call of each caller came to
          seen          \* history: what was true at some time during the call

procVars == <<dbUp, app, pool, verdict>>
vars == <<procVars, gateVars, schemaVars, seen>>

Requests == Callers \ Starts
CallersOf(p) == {c \in Callers : ProcOf(c) = p}
IsStart(c) == c \in Starts

(***************************************************************************)
(* READY, MIGRATING after reading another version, MIGRATING because of    *)
(* MigrationLockTimeout, UNAVAILABLE, or an exception out of the call.     *)
(***************************************************************************)
Verdicts == {"none", "ready", "pending", "contended", "unavailable", "error"}
Facts == {"current", "stale", "held"}

(* stop() has been called while "stopping", and has returned once "stopped". *)
Lives == {"off", "starting", "logging", "serving", "stopping", "stopped", "crashed"}

LifecycleTypeOK ==
    /\ GateTypeOK /\ SchemaTypeOK
    /\ dbUp \in BOOLEAN
    /\ app \in [Procs -> Lives]
    /\ pool \in [Procs -> BOOLEAN]
    /\ verdict \in [Callers -> Verdicts]
    /\ seen \in [Callers -> SUBSET Facts]

LifecycleInit ==
    /\ GateInit /\ SchemaInit
    /\ dbUp \in BOOLEAN
    /\ app = [p \in Procs |-> "off"]
    /\ pool = [p \in Procs |-> FALSE]
    /\ verdict = [c \in Callers |-> "none"]
    /\ seen = [c \in Callers |-> {}]

IsCurrent == version["core"] = Final["core"]
Answer(c, v) == verdict' = [verdict EXCEPT ![c] = v]
BecomesWithPool(p, life, open) ==
    /\ app' = [app EXCEPT ![p] = life]
    /\ pool' = [pool EXCEPT ![p] = open]

(***************************************************************************)
(* History, no part of the program: what held in some state of a call, the *)
(* first included, kept for as long as its answer speaks of it.  Every     *)
(* step keeps it and none reads it.                                        *)
(***************************************************************************)
WitnessOf(v) ==
    CASE v = "ready"     -> {"current"}
      [] v = "pending"   -> {"stale"}
      [] v = "contended" -> {"held"}
      [] OTHER           -> {}
FactsFor(c) ==
    {IF IsCurrent THEN "current" ELSE "stale"}
       \cup (IF owner \in {None, c} THEN {} ELSE {"held"})

Observe ==
    seen' = [c \in Callers |->
               IF phase'[c] = "out" THEN seen[c] \cap WitnessOf(verdict'[c])
               ELSE (IF phase[c] = "out" THEN {} ELSE seen[c]) \cup FactsFor(c)']

------------------------------------------------------------------------------
(* start() *)

(* _connect() makes the pool; _locked_check_and_migrate() asks for the lock. *)
Start(c) ==
    /\ IsStart(c) /\ app[ProcOf(c)] \in {"off", "crashed"}
    /\ dbUp
    /\ BecomesWithPool(ProcOf(c), "starting", TRUE)
    /\ Ask(c)
    /\ Answer(c, "none")
    /\ UNCHANGED <<dbUp, schemaVars>>
    /\ Observe

(***************************************************************************)
(* create_pool() fails.  The handler's logger.error(..., error=...) raises *)
(* TypeError before LifecycleStartError can be, and lifespan() catches     *)
(* only that one: the process does not boot.                               *)
(***************************************************************************)
StartWithoutDatabase(c) ==
    /\ IsStart(c) /\ app[ProcOf(c)] \in {"off", "crashed"}
    /\ ~dbUp
    /\ BecomesWithPool(ProcOf(c), "crashed", FALSE)
    /\ Answer(c, "error")
    /\ UNCHANGED <<dbUp, gateVars, schemaVars>>
    /\ Observe

(* _log_health_event(): the row goes into a table of the core migrations. *)
LogHealthEvent(p) ==
    /\ app[p] = "logging"
    /\ dbUp /\ tables
    /\ app' = [app EXCEPT ![p] = "serving"]
    /\ UNCHANGED <<dbUp, pool, verdict, gateVars, schemaVars>>
    /\ Observe

(* The insert fails; logger.warning(..., error=...) raises out of start(). *)
LogHealthEventFails(p) ==
    /\ app[p] = "logging"
    /\ BecomesWithPool(p, "crashed", FALSE)
    /\ UNCHANGED <<dbUp, verdict, gateVars, schemaVars>>
    /\ Observe

(* Mutant: `_pool` is cleared before the pool is closed. *)
StopClearsPoolFirst(p) ==
    /\ app[p] = "serving"
    /\ BecomesWithPool(p, "stopping", FALSE)
    /\ UNCHANGED <<dbUp, verdict, gateVars, schemaVars>>
    /\ Observe

(***************************************************************************)
(* stop() begins `await self._pool.close()`, whatever calls are inside.    *)
(* They go on: a query that has its connection ends, one that asks the     *)
(* closing pool for another fails.                                         *)
(***************************************************************************)
Stop(p) ==
    /\ app[p] = "serving"
    /\ app' = [app EXCEPT ![p] = "stopping"]
    /\ UNCHANGED <<dbUp, pool, verdict, gateVars, schemaVars>>
    /\ Observe

(***************************************************************************)
(* close() has waited, without a timeout, for the last connection to come  *)
(* back; `_pool = None` follows.  A call that waits may have none.         *)
(***************************************************************************)
PoolCloses(p) ==
    /\ app[p] = "stopping"
    /\ \A c \in CallersOf(p) : phase[c] \in {"out", "waiting"}
    /\ BecomesWithPool(p, "stopped", FALSE)
    /\ UNCHANGED <<dbUp, verdict, gateVars, schemaVars>>
    /\ Observe

------------------------------------------------------------------------------
(* status(), and the locked check it shares with start() *)

Status(c) ==
    /\ c \in Requests /\ app[ProcOf(c)] = "serving"
    /\ pool[ProcOf(c)]
    /\ Ask(c)
    /\ Answer(c, "none")
    /\ UNCHANGED <<dbUp, app, pool, schemaVars>>
    /\ Observe

(* A closing pool takes no new call: acquire() raises InterfaceError. *)
StatusWhileStopping(c) ==
    /\ c \in Requests /\ app[ProcOf(c)] = "stopping"
    /\ pool[ProcOf(c)] /\ phase[c] = "out"
    /\ Answer(c, "error")
    /\ UNCHANGED <<dbUp, app, pool, gateVars, schemaVars>>
    /\ Observe

(* status() with no pool: tools/db-status never calls start(), or after stop(). *)
StatusWithoutPool(c) ==
    /\ c \in Requests /\ app[ProcOf(c)] \in {"off", "serving", "stopped"}
    /\ ~pool[ProcOf(c)] /\ phase[c] = "out"
    /\ Answer(c, "unavailable")
    /\ UNCHANGED <<dbUp, app, pool, gateVars, schemaVars>>
    /\ Observe

Granted(c) ==
    /\ dbUp /\ pool[ProcOf(c)]
    /\ Enter(c)
    /\ UNCHANGED <<procVars, schemaVars>>
    /\ Observe

(* MigrationLockTimeout: reported as MIGRATING, whoever the owner is. *)
Contended(c) ==
    /\ dbUp /\ pool[ProcOf(c)]
    /\ Refuse(c)
    /\ Answer(c, "contended")
    /\ UNCHANGED <<dbUp, app, pool, schemaVars>>
    /\ Observe

(* No connection, or MigrationLockError: neither is caught. *)
CannotAsk(c) ==
    /\ Fail(c)
    /\ owner' # owner => dbUp /\ pool[ProcOf(c)]
    /\ Answer(c, "error")
    /\ UNCHANGED <<dbUp, app, pool, schemaVars>>
    /\ Observe

(* Mutant: READY is remembered from the start of the process. *)
ReadVersionCached(c) ==
    /\ dbUp
    /\ Leave(c)
    /\ Answer(c, IF \/ IsCurrent
                    \/ \E s \in Starts : ProcOf(s) = ProcOf(c) /\ verdict[s] = "ready"
                 THEN "ready" ELSE "pending")
    /\ UNCHANGED <<dbUp, app, pool, schemaVars>>
    /\ Observe

(* Mutant: the answer is the version itself. *)
ReadVersionRaw(c) ==
    /\ dbUp
    /\ Leave(c)
    /\ Answer(c, version["core"])
    /\ UNCHANGED <<dbUp, app, pool, schemaVars>>
    /\ Observe

(* _check_and_migrate(): one query on another connection of the pool. *)
ReadVersion(c) ==
    /\ dbUp
    /\ Leave(c)
    /\ Answer(c, IF IsCurrent THEN "ready" ELSE "pending")
    /\ UNCHANGED <<dbUp, app, pool, schemaVars>>
    /\ Observe

(* Mutant: the version query is tried again until it succeeds. *)
ReadVersionFailsRetried(c) ==
    /\ phase[c] = "inside"
    /\ UNCHANGED <<procVars, gateVars, schemaVars>>
    /\ Observe

(* The query fails: logger.error(..., error=...) raises in the handler. *)
ReadVersionFails(c) ==
    /\ Leave(c)
    /\ Answer(c, "error")
    /\ UNCHANGED <<dbUp, app, pool, schemaVars>>
    /\ Observe

(* The caller is answered; an error ends a process that was starting. *)
Return(c, v) ==
    /\ Finish(c)
    /\ Answer(c, v)
    /\ IF ~IsStart(c) THEN UNCHANGED <<app, pool>>
       ELSE IF v = "error" THEN BecomesWithPool(ProcOf(c), "crashed", FALSE)
       ELSE BecomesWithPool(ProcOf(c), "logging", TRUE)
    /\ UNCHANGED <<dbUp, schemaVars>>
    /\ Observe

(* A caller that was refused or failed unlocks nothing: the pool resets. *)
ReturnWithoutLock(c) ==
    /\ phase[c] \in {"refused", "failed"}
    /\ Return(c, verdict[c])

(* The unlock needs the session that took the lock. *)
ReturnUnlocked(c) ==
    /\ phase[c] = "leaving" /\ owner = c
    /\ Return(c, verdict[c])

(* The unlock fails; logger.warning(..., lock_id=...) replaces the answer. *)
ReturnUnlockFailed(c) ==
    /\ phase[c] = "leaving"
    /\ Return(c, "error")

------------------------------------------------------------------------------
(* The environment *)

DatabaseDown ==
    /\ dbUp /\ dbUp' = FALSE
    /\ owner' = None
    /\ UNCHANGED <<app, pool, verdict, phase, schemaVars>>
    /\ Observe

DatabaseUp ==
    /\ ~dbUp /\ dbUp' = TRUE
    /\ UNCHANGED <<app, pool, verdict, gateVars, schemaVars>>
    /\ Observe

(* The session that holds the lock is lost on its own. *)
LoseSession(c) ==
    /\ Release(c)
    /\ UNCHANGED <<procVars, schemaVars>>
    /\ Observe

(* The process ends: it is killed, or it has stopped. *)
Kill(p) ==
    /\ app[p] \notin {"off", "crashed"}
    /\ BecomesWithPool(p, "off", FALSE)
    /\ Abandon(CallersOf(p))
    /\ verdict' = [c \in Callers |-> IF ProcOf(c) = p THEN "none" ELSE verdict[c]]
    /\ UNCHANGED <<dbUp, schemaVars>>
    /\ Observe

(* A migration runner takes a step: it never looks at the advisory lock. *)
Migrate(r) ==
    /\ Boot(r) \/ (dbUp /\ Commit(r)) \/ Abort(r)
    /\ UNCHANGED <<procVars, gateVars>>
    /\ Observe

------------------------------------------------------------------------------

Proceed(c) ==
    \/ Granted(c) \/ Contended(c) \/ CannotAsk(c)
    \/ ReadVersion(c) \/ ReadVersionFails(c)
    \/ ReturnWithoutLock(c) \/ ReturnUnlocked(c) \/ ReturnUnlockFailed(c)

Next ==
    \/ \E c \in Callers :
          \/ Start(c) \/ StartWithoutDatabase(c)
          \/ Status(c) \/ StatusWhileStopping(c) \/ StatusWithoutPool(c)
          \/ Proceed(c) \/ LoseSession(c)
    \/ \E p \in Procs :
          \/ LogHealthEvent(p) \/ LogHealthEventFails(p)
          \/ Stop(p) \/ PoolCloses(p) \/ Kill(p)
    \/ \E r \in Runners : Migrate(r)
    \/ DatabaseDown \/ DatabaseUp

Spec == LifecycleInit /\ [][Next]_vars

(***************************************************************************)
(* A call that was asked comes to its end, as MigrationLock shows, and the *)
(* pool closes when it can.  Nothing is assumed about the database, the    *)
(* runners, or when anybody starts, asks, stops or dies.                   *)
(***************************************************************************)
Fairness ==
    /\ \A c \in Callers : WF_vars(Proceed(c))
    /\ \A p \in Procs : WF_vars(PoolCloses(p))

FairSpec == Spec /\ Fairness

------------------------------------------------------------------------------
(* Properties. *)

(***************************************************************************)
(* "Never caches stale status as ready" (manager.py:160) and "Never        *)
(* promotes to ready while migrations are pending" (manager.py:221): a     *)
(* READY answer means that the expected version was recorded at some time  *)
(* during that call, a MIGRATING one that another version was, or that     *)
(* another caller had the lock.  Runners that regress and restore the      *)
(* version, lost sessions and restarts interleave with the call.           *)
(***************************************************************************)
VerdictIsWitnessed ==
    \A c \in Callers : WitnessOf(verdict[c]) \subseteq seen[c]

(***************************************************************************)
(* Whoever has the advisory lock is a call in progress of a process that   *)
(* is starting, serving or in the middle of stop(), with its pool still    *)
(* there: the guarded region asserts it (manager.py:223, 273).  Nobody     *)
(* else has it after a failed try, a stop, a crash or an outage.           *)
(***************************************************************************)
LockHasALiveOwner ==
    owner # None =>
       /\ dbUp /\ pool[ProcOf(owner)]
       /\ phase[owner] \in {"inside", "leaving", "failed"}
       /\ app[ProcOf(owner)] \in IF IsStart(owner) THEN {"starting"}
                                 ELSE {"serving", "stopping"}

(***************************************************************************)
(* stop() waits without a timeout for the calls that hold a connection     *)
(* (manager.py:179): it comes to its end all the same, whatever the        *)
(* database does meanwhile and however many more requests arrive.          *)
(***************************************************************************)
StopEnds == \A p \in Procs : app[p] = "stopping" ~> app[p] # "stopping"

(***************************************************************************)
(* The inductive invariant behind these: a call in progress belongs to a   *)
(* process in the matching stage of its life, with its pool open unless    *)
(* stop() has overtaken it before it had a connection, and the way it      *)
(* leaves the gate says what it can answer.                                *)
(***************************************************************************)
CallsMatchProcess ==
    \A c \in Callers : phase[c] # "out" =>
       \/ /\ pool[ProcOf(c)]
          /\ app[ProcOf(c)] \in IF IsStart(c) THEN {"starting"}
                                ELSE {"serving", "stopping"}
       \/ /\ ~IsStart(c) /\ owner # c /\ ~pool[ProcOf(c)]
          /\ app[ProcOf(c)] = "stopped" /\ phase[c] \in {"waiting", "failed"}

LeavingTellsVerdict ==
    \A c \in Callers :
       /\ phase[c] = "refused" => verdict[c] = "contended"
       /\ phase[c] = "failed" => verdict[c] = "error"
       /\ phase[c] = "leaving" => verdict[c] \in {"ready", "pending", "error"}

OwnerIsInGate ==
    owner # None => dbUp /\ phase[owner] \in {"inside", "leaving", "failed"}

LifecycleInv ==
    /\ LifecycleTypeOK
    /\ CallsMatchProcess /\ LeavingTellsVerdict /\ OwnerIsInGate

(***************************************************************************)
(* lifespan(): "fail closed (not crash) if the database is down", "rather  *)
(* than the process failing to boot" (app/main.py:44-47), in the middle of *)
(* start() too: the health event is "Best-effort" and "does not block the  *)
(* lifecycle" (manager.py:293-294).                                        *)
(***************************************************************************)
DownDatabaseDoesNotStopBoot ==
    [][\A p \in Procs : (~dbUp /\ app[p] # "crashed") => app'[p] # "crashed"]_vars

(***************************************************************************)
(* status(): "a concurrent migrator is correctly reflected as 'migrating', *)
(* not 'ready'" (manager.py:161-162): no call turns READY while a runner   *)
(* is in the middle of the core migrations.                                *)
(***************************************************************************)
ReadyExcludesMigrator ==
    [][\A c \in Callers : (verdict'[c] = "ready" /\ verdict[c] # "ready") =>
          \A r \in Runners : Touches(r, "core") => runner[r] # "running"]_vars

(***************************************************************************)
(* GET /health "Fails closed: reports unavailable when the database is     *)
(* unreachable" (doc/system/08-api-layer.md:17): no request of a serving   *)
(* process ends in an exception.                                           *)
(***************************************************************************)
HealthAlwaysAnswers ==
    \A c \in Requests : app[ProcOf(c)] = "serving" => verdict[c] # "error"
==============================================================================
