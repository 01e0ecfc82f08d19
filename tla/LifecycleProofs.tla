-------------------------- MODULE LifecycleProofs --------------------------
(***************************************************************************)
(* The lifecycle for any number of processes, requests and runners.        *)
(***************************************************************************)
EXTENDS Lifecycle, SchemaVersionsProofs

(* The lifecycle takes no other steps on the schema than the runners'. *)
LEMMA SchemaStep == [Next]_vars => [SchemaNext]_schemaVars
  <1> SUFFICES ASSUME [Next]_vars PROVE [SchemaNext]_schemaVars
    OBVIOUS
  <1> USE DEF procVars, schemaVars
  <1>1. ASSUME NEW c \in Callers, Start(c) PROVE [SchemaNext]_schemaVars
    BY <1>1 DEF Start
  <1>2. ASSUME NEW c \in Callers, StartWithoutDatabase(c) PROVE [SchemaNext]_schemaVars
    BY <1>2 DEF StartWithoutDatabase
  <1>3. ASSUME NEW c \in Callers, Status(c) PROVE [SchemaNext]_schemaVars
    BY <1>3 DEF Status
  <1>4. ASSUME NEW c \in Callers, StatusWithoutPool(c) PROVE [SchemaNext]_schemaVars
    BY <1>4 DEF StatusWithoutPool
  <1>5. ASSUME NEW c \in Callers, Granted(c) PROVE [SchemaNext]_schemaVars
    BY <1>5 DEF Granted
  <1>6. ASSUME NEW c \in Callers, Contended(c) PROVE [SchemaNext]_schemaVars
    BY <1>6 DEF Contended
  <1>7. ASSUME NEW c \in Callers, CannotAsk(c) PROVE [SchemaNext]_schemaVars
    BY <1>7 DEF CannotAsk
  <1>8. ASSUME NEW c \in Callers, ReadVersion(c) PROVE [SchemaNext]_schemaVars
    BY <1>8 DEF ReadVersion
  <1>9. ASSUME NEW c \in Callers, ReadVersionFails(c) PROVE [SchemaNext]_schemaVars
    BY <1>9 DEF ReadVersionFails
  <1>10. ASSUME NEW c \in Callers, ReturnWithoutLock(c) PROVE [SchemaNext]_schemaVars
    BY <1>10 DEF ReturnWithoutLock, Return
  <1>11. ASSUME NEW c \in Callers, ReturnUnlocked(c) PROVE [SchemaNext]_schemaVars
    BY <1>11 DEF ReturnUnlocked, Return
  <1>12. ASSUME NEW c \in Callers, ReturnUnlockFailed(c) PROVE [SchemaNext]_schemaVars
    BY <1>12 DEF ReturnUnlockFailed, Return
  <1>13. ASSUME NEW c \in Callers, LoseSession(c) PROVE [SchemaNext]_schemaVars
    BY <1>13 DEF LoseSession
  <1>14. ASSUME NEW p \in Procs, LogHealthEvent(p) PROVE [SchemaNext]_schemaVars
    BY <1>14 DEF LogHealthEvent
  <1>15. ASSUME NEW p \in Procs, LogHealthEventFails(p) PROVE [SchemaNext]_schemaVars
    BY <1>15 DEF LogHealthEventFails
  <1>16. ASSUME NEW p \in Procs, Stop(p) PROVE [SchemaNext]_schemaVars
    BY <1>16 DEF Stop
  <1>22. ASSUME NEW c \in Callers, StatusWhileStopping(c) PROVE [SchemaNext]_schemaVars
    BY <1>22 DEF StatusWhileStopping
  <1>23. ASSUME NEW p \in Procs, PoolCloses(p) PROVE [SchemaNext]_schemaVars
    BY <1>23 DEF PoolCloses
  <1>17. ASSUME NEW p \in Procs, Kill(p) PROVE [SchemaNext]_schemaVars
    BY <1>17 DEF Kill
  <1>18. ASSUME NEW r \in Runners, Migrate(r) PROVE [SchemaNext]_schemaVars
    BY <1>18 DEF Migrate, SchemaNext
  <1>19. CASE DatabaseDown
    BY <1>19 DEF DatabaseDown
  <1>20. CASE DatabaseUp
    BY <1>20 DEF DatabaseUp
  <1>21. CASE UNCHANGED vars
    BY <1>21 DEF vars, procVars, gateVars, schemaVars
  <1> QED
    BY <1>1, <1>2, <1>3, <1>4, <1>5, <1>6, <1>7, <1>8, <1>9, <1>10, <1>11,
       <1>12, <1>13, <1>14, <1>15, <1>16, <1>17, <1>18, <1>19, <1>20, <1>21,
       <1>22, <1>23 DEF Next, Proceed

(* The migrations converge in the lifecycle as they do on their own. *)
THEOREM LifecycleSchemaInvariant == Spec => []SchemaInv
  <1>1. LifecycleInit => SchemaInv
    BY InitSchemaInv DEF LifecycleInit
  <1> QED
    BY <1>1, SchemaStep, StepSchemaInv, PTL DEF Spec

(* Its history of the schema is one of the runners'. *)
THEOREM LifecycleImplementsSchemaVersions == Spec => SchemaSpec
  <1>1. LifecycleInit => SchemaInit
    BY DEF LifecycleInit
  <1> QED
    BY <1>1, SchemaStep, PTL DEF Spec, SchemaSpec

(***************************************************************************)
(* So whatever holds of the runners alone holds beside requests, restarts  *)
(* and outages: a run to completion leaves the version it was meant to.    *)
(***************************************************************************)
THEOREM LifecycleMigrationsConverge == Spec => []Converged
  BY LifecycleImplementsSchemaVersions, MigrationsConverge, PTL

------------------------------------------------------------------------------

LEMMA InitLifecycleInv == LifecycleInit => LifecycleInv
  <1> SUFFICES ASSUME LifecycleInit PROVE LifecycleInv
    OBVIOUS
  <1>1. SchemaTypeOK
    BY InitSchemaInv DEF LifecycleInit, SchemaInv
  <1>2. LifecycleTypeOK
    BY <1>1, StartsAssumption DEF LifecycleInit, LifecycleTypeOK, GateInit, GateTypeOK,
       Phases, Verdicts, Facts, Lives
  <1> QED
    BY <1>2, NoneIsNoCaller, StartsAssumption
    DEF LifecycleInit, GateInit, LifecycleInv, CallsMatchProcess, LeavingTellsVerdict,
        OwnerIsInGate

(* Every step keeps the history well typed. *)
LEMMA ObserveType ==
  ASSUME seen \in [Callers -> SUBSET Facts], Observe
  PROVE  seen' \in [Callers -> SUBSET Facts]
  <1>1. \A c \in Callers : FactsFor(c)' \subseteq Facts
    BY DEF FactsFor, Facts
  <1> QED
    BY <1>1 DEF Observe

(* A call that returns: its process moves on only if it was the start. *)
LEMMA ReturnKeepsLifecycleInv ==
  ASSUME LifecycleInv, SchemaTypeOK', NEW c \in Callers,
         NEW v \in {"ready", "pending", "contended", "error"}, Return(c, v)
  PROVE  LifecycleInv'
  <1> USE NoneIsNoCaller, StartsAssumption
  <1> USE DEF LifecycleInv, LifecycleTypeOK, GateTypeOK, Phases, Verdicts, Return,
              Finish, Answer, BecomesWithPool, MoveTo, schemaVars, IsStart
  <1>1. phase[c] # "out" /\ IsStart(c) => app[ProcOf(c)] = "starting"
    BY DEF CallsMatchProcess
  <1>2. /\ phase' = [phase EXCEPT ![c] = "out"]
        /\ verdict' = [verdict EXCEPT ![c] = v]
        /\ owner' = IF owner = c THEN None ELSE owner
        /\ dbUp' = dbUp /\ tables' = tables
    OBVIOUS
  <1>3. IF IsStart(c)
        THEN IF v = "error" THEN BecomesWithPool(ProcOf(c), "crashed", FALSE)
                            ELSE BecomesWithPool(ProcOf(c), "logging", TRUE)
        ELSE app' = app /\ pool' = pool
    OBVIOUS
  <1>4. LifecycleTypeOK'
    <2>1. app' \in [Procs -> Lives]
      BY <1>3 DEF Lives
    <2>2. pool' \in [Procs -> BOOLEAN]
      BY <1>3
    <2>3. verdict' \in [Callers -> {"none", "ready", "pending", "contended",
                                    "unavailable", "error"}]
      BY <1>2
    <2>4. seen' \in [Callers -> SUBSET Facts]
      BY ObserveType
    <2>5. owner' \in Callers \cup {None} /\ dbUp' \in BOOLEAN
      BY <1>2
    <2>6. phase' \in [Callers -> {"out", "waiting", "inside", "leaving", "refused", "failed"}]
      BY <1>2
    <2> QED
      BY <2>1, <2>2, <2>3, <2>4, <2>5, <2>6
  <1>5. CallsMatchProcess'
    <2>1. CASE IsStart(c)
      <3> SUFFICES ASSUME NEW d \in Callers, phase'[d] # "out"
                   PROVE  ProcOf(d) # ProcOf(c)
        BY <1>2, <1>3, <2>1 DEF CallsMatchProcess
      <3>1. d # c /\ phase[d] # "out"
        BY <1>2
      <3> QED
        BY <1>1, <2>1, <3>1 DEF CallsMatchProcess
    <2>2. CASE ~IsStart(c)
      BY <1>2, <1>3, <2>2 DEF CallsMatchProcess
    <2> QED
      BY <2>1, <2>2
  <1>6. LeavingTellsVerdict'
    BY <1>2 DEF LeavingTellsVerdict
  <1>9. OwnerIsInGate'
    BY <1>2 DEF OwnerIsInGate
  <1> QED
    BY <1>4, <1>5, <1>6, <1>9

LEMMA StepLifecycleInv ==
  LifecycleInv /\ SchemaTypeOK' /\ [Next]_vars => LifecycleInv'
  <1> SUFFICES ASSUME LifecycleInv, SchemaTypeOK', [Next]_vars PROVE LifecycleInv'
    OBVIOUS
  <1> USE NoneIsNoCaller, StartsAssumption, ObserveType
  <1> USE DEF LifecycleInv, LifecycleTypeOK, GateTypeOK, Phases, Verdicts,
              CallsMatchProcess, LeavingTellsVerdict, OwnerIsInGate,
              Lives, IsStart, Requests, CallersOf,
              Answer, BecomesWithPool, MoveTo, procVars, gateVars, schemaVars
  <1>1. ASSUME NEW c \in Callers, Start(c) PROVE LifecycleInv'
    BY <1>1 DEF Start, Ask
  <1>2. ASSUME NEW c \in Callers, StartWithoutDatabase(c) PROVE LifecycleInv'
    BY <1>2 DEF StartWithoutDatabase
  <1>3. ASSUME NEW c \in Callers, Status(c) PROVE LifecycleInv'
    BY <1>3 DEF Status, Ask
  <1>4. ASSUME NEW c \in Callers, StatusWithoutPool(c) PROVE LifecycleInv'
    BY <1>4 DEF StatusWithoutPool
  <1>5. ASSUME NEW c \in Callers, Granted(c) PROVE LifecycleInv'
    BY <1>5 DEF Granted, Enter
  <1>6. ASSUME NEW c \in Callers, Contended(c) PROVE LifecycleInv'
    BY <1>6 DEF Contended, Refuse
  <1>7. ASSUME NEW c \in Callers, CannotAsk(c) PROVE LifecycleInv'
    BY <1>7 DEF CannotAsk, Fail
  <1>8. ASSUME NEW c \in Callers, ReadVersion(c) PROVE LifecycleInv'
    BY <1>8 DEF ReadVersion, Leave
  <1>9. ASSUME NEW c \in Callers, ReadVersionFails(c) PROVE LifecycleInv'
    BY <1>9 DEF ReadVersionFails, Leave
  <1>10. ASSUME NEW c \in Callers, ReturnWithoutLock(c) PROVE LifecycleInv'
    BY <1>10, ReturnKeepsLifecycleInv DEF ReturnWithoutLock
  <1>11. ASSUME NEW c \in Callers, ReturnUnlocked(c) PROVE LifecycleInv'
    BY <1>11, ReturnKeepsLifecycleInv DEF ReturnUnlocked
  <1>12. ASSUME NEW c \in Callers, ReturnUnlockFailed(c) PROVE LifecycleInv'
    BY <1>12, ReturnKeepsLifecycleInv DEF ReturnUnlockFailed
  <1>13. ASSUME NEW c \in Callers, LoseSession(c) PROVE LifecycleInv'
    BY <1>13 DEF LoseSession, Release
  <1>14. ASSUME NEW p \in Procs, LogHealthEvent(p) PROVE LifecycleInv'
    BY <1>14 DEF LogHealthEvent
  <1>15. ASSUME NEW p \in Procs, LogHealthEventFails(p) PROVE LifecycleInv'
    BY <1>15 DEF LogHealthEventFails
  <1>16. ASSUME NEW p \in Procs, Stop(p) PROVE LifecycleInv'
    BY <1>16 DEF Stop
  <1>22. ASSUME NEW c \in Callers, StatusWhileStopping(c) PROVE LifecycleInv'
    BY <1>22 DEF StatusWhileStopping
  <1>23. ASSUME NEW p \in Procs, PoolCloses(p) PROVE LifecycleInv'
    BY <1>23 DEF PoolCloses
  <1>17. ASSUME NEW p \in Procs, Kill(p) PROVE LifecycleInv'
    BY <1>17 DEF Kill, Abandon
  <1>18. ASSUME NEW r \in Runners, Migrate(r) PROVE LifecycleInv'
    BY <1>18 DEF Migrate, Boot, Commit, Abort
  <1>19. CASE DatabaseDown
    BY <1>19 DEF DatabaseDown
  <1>20. CASE DatabaseUp
    BY <1>20 DEF DatabaseUp
  <1>21. CASE UNCHANGED vars
    BY <1>21 DEF vars, procVars, gateVars, schemaVars
  <1> QED
    BY <1>1, <1>2, <1>3, <1>4, <1>5, <1>6, <1>7, <1>8, <1>9, <1>10, <1>11,
       <1>12, <1>13, <1>14, <1>15, <1>16, <1>17, <1>18, <1>19, <1>20, <1>21,
       <1>22, <1>23 DEF Next, Proceed

THEOREM LifecycleInvariant == Spec => []LifecycleInv
  <1>1. SchemaInv => SchemaTypeOK
    BY DEF SchemaInv
  <1> QED
    BY <1>1, InitLifecycleInv, StepLifecycleInv, LifecycleSchemaInvariant, PTL DEF Spec

(* Every variable of the lifecycle keeps its type. *)
THEOREM LifecycleTypeCorrect == Spec => []LifecycleTypeOK
  <1>1. LifecycleInv => LifecycleTypeOK
    BY DEF LifecycleInv
  <1> QED
    BY <1>1, LifecycleInvariant, PTL

(* The advisory lock belongs to a call in progress of a process that has    *)
(* its pool, stop() under way included.                                     *)
THEOREM LockOwnerIsAlive == Spec => []LockHasALiveOwner
  <1>1. LifecycleInv => LockHasALiveOwner
    BY NoneIsNoCaller DEF LifecycleInv, LifecycleTypeOK, GateTypeOK, OwnerIsInGate,
       CallsMatchProcess, LockHasALiveOwner
  <1> QED
    BY <1>1, LifecycleInvariant, PTL

------------------------------------------------------------------------------
(* The history of a call contains what held in each of its states. *)

LEMMA SeenKept ==
  ASSUME Observe, NEW c \in Callers, phase[c] # "out" \/ phase'[c] = "out"
  PROVE  seen[c] \cap WitnessOf(verdict'[c]) \subseteq seen'[c]
  BY DEF Observe

LEMMA SeenNow ==
  ASSUME Observe, NEW c \in Callers, phase'[c] # "out"
  PROVE  /\ IsCurrent' => "current" \in seen'[c]
         /\ ~IsCurrent' => "stale" \in seen'[c]
         /\ owner' \notin {None, c} => "held" \in seen'[c]
  BY DEF Observe, FactsFor

(* A step that answers one call. *)
LEMMA AnswerWitnessed ==
  ASSUME LifecycleTypeOK, VerdictIsWitnessed, Observe, NEW c \in Callers,
         NEW v \in Verdicts, verdict' = [verdict EXCEPT ![c] = v],
         WitnessOf(verdict'[c]) \subseteq seen'[c],
         \A d \in Callers : d # c => phase[d] # "out" \/ phase'[d] = "out"
  PROVE  VerdictIsWitnessed'
  <1> SUFFICES ASSUME NEW d \in Callers, d # c
               PROVE  WitnessOf(verdict'[d]) \subseteq seen'[d]
    BY DEF VerdictIsWitnessed
  <1>1. verdict'[d] = verdict[d]
    BY DEF LifecycleTypeOK
  <1>2. seen[d] \cap WitnessOf(verdict'[d]) \subseteq seen'[d]
    BY SeenKept
  <1>3. WitnessOf(verdict[d]) \subseteq seen[d]
    BY DEF VerdictIsWitnessed
  <1> QED
    BY <1>1, <1>2, <1>3

(* A call whose answer a step leaves alone, or turns into another value. *)
LEMMA WitnessKept ==
  ASSUME VerdictIsWitnessed, Observe,
         \A c \in Callers :
            \/ verdict'[c] \in {"none", "unavailable", "error"}
            \/ verdict'[c] = verdict[c] /\ (phase[c] # "out" \/ phase'[c] = "out")
  PROVE  VerdictIsWitnessed'
  <1> SUFFICES ASSUME NEW c \in Callers PROVE WitnessOf(verdict'[c]) \subseteq seen'[c]
    BY DEF VerdictIsWitnessed
  <1>1. CASE verdict'[c] \in {"none", "unavailable", "error"}
    BY <1>1 DEF WitnessOf
  <1>2. CASE verdict'[c] = verdict[c] /\ (phase[c] # "out" \/ phase'[c] = "out")
    <2>1. seen[c] \cap WitnessOf(verdict'[c]) \subseteq seen'[c]
      BY <1>2, SeenKept
    <2>2. WitnessOf(verdict'[c]) \subseteq seen[c]
      BY <1>2 DEF VerdictIsWitnessed
    <2> QED
      BY <2>1, <2>2
  <1> QED
    BY <1>1, <1>2

LEMMA ReturnWitnessed ==
  ASSUME LifecycleTypeOK, VerdictIsWitnessed, NEW c \in Callers,
         NEW v \in {verdict[c], "error"}, Return(c, v)
  PROVE  VerdictIsWitnessed'
  <1>1. Observe /\ verdict' = [verdict EXCEPT ![c] = v]
    BY DEF Return, Answer
  <1>2. phase' = [phase EXCEPT ![c] = "out"]
    BY DEF Return, Finish, MoveTo
  <1>3. \A d \in Callers : \/ verdict'[d] \in {"none", "unavailable", "error"}
                           \/ /\ verdict'[d] = verdict[d]
                              /\ phase[d] # "out" \/ phase'[d] = "out"
    BY <1>1, <1>2 DEF LifecycleTypeOK, GateTypeOK
  <1> QED
    BY <1>1, <1>3, WitnessKept

LEMMA StepWitnessed ==
  LifecycleInv /\ VerdictIsWitnessed /\ [Next]_vars => VerdictIsWitnessed'
  <1> SUFFICES ASSUME LifecycleInv, VerdictIsWitnessed, [Next]_vars
               PROVE  VerdictIsWitnessed'
    OBVIOUS
  <1> USE WitnessKept
  <1> USE DEF LifecycleInv, LifecycleTypeOK, GateTypeOK, Answer, MoveTo, gateVars, procVars
  <1>1. ASSUME NEW c \in Callers, Start(c) PROVE VerdictIsWitnessed'
    BY <1>1 DEF Start, Ask
  <1>2. ASSUME NEW c \in Callers, StartWithoutDatabase(c) PROVE VerdictIsWitnessed'
    BY <1>2 DEF StartWithoutDatabase
  <1>3. ASSUME NEW c \in Callers, Status(c) PROVE VerdictIsWitnessed'
    BY <1>3 DEF Status, Ask
  <1>4. ASSUME NEW c \in Callers, StatusWithoutPool(c) PROVE VerdictIsWitnessed'
    BY <1>4 DEF StatusWithoutPool
  <1>5. ASSUME NEW c \in Callers, Granted(c) PROVE VerdictIsWitnessed'
    BY <1>5 DEF Granted, Enter
  <1>6. ASSUME NEW c \in Callers, Contended(c) PROVE VerdictIsWitnessed'
    <2>1. phase'[c] # "out" /\ owner' \notin {None, c} /\ phase[c] # "out"
      BY <1>6 DEF Contended, Refuse
    <2>2. \A d \in Callers : d # c => phase[d] # "out" \/ phase'[d] = "out"
      BY <1>6 DEF Contended, Refuse
    <2>3. "held" \in seen'[c]
      BY <1>6, <2>1, SeenNow DEF Contended
    <2>4. verdict' = [verdict EXCEPT ![c] = "contended"]
      BY <1>6 DEF Contended
    <2>5. WitnessOf(verdict'[c]) \subseteq seen'[c]
      BY <2>3, <2>4 DEF WitnessOf
    <2> QED
      BY <1>6, <2>2, <2>4, <2>5, AnswerWitnessed DEF Contended, Verdicts
  <1>7. ASSUME NEW c \in Callers, CannotAsk(c) PROVE VerdictIsWitnessed'
    BY <1>7 DEF CannotAsk, Fail
  <1>8. ASSUME NEW c \in Callers, ReadVersion(c) PROVE VerdictIsWitnessed'
    <2>1. phase'[c] # "out" /\ phase[c] # "out"
      BY <1>8 DEF ReadVersion, Leave
    <2>2. \A d \in Callers : d # c => phase[d] # "out" \/ phase'[d] = "out"
      BY <1>8 DEF ReadVersion, Leave
    <2>3. IF IsCurrent THEN "current" \in seen'[c] ELSE "stale" \in seen'[c]
      <3>1. IsCurrent' <=> IsCurrent
        BY <1>8 DEF ReadVersion, IsCurrent, schemaVars
      <3> QED
        BY <1>8, <2>1, <3>1, SeenNow DEF ReadVersion
    <2>4. verdict' = [verdict EXCEPT ![c] = IF IsCurrent THEN "ready" ELSE "pending"]
      BY <1>8 DEF ReadVersion
    <2>5. WitnessOf(verdict'[c]) \subseteq seen'[c]
      BY <2>3, <2>4 DEF WitnessOf
    <2> QED
      BY <1>8, <2>2, <2>4, <2>5, AnswerWitnessed DEF ReadVersion, Verdicts
  <1>9. ASSUME NEW c \in Callers, ReadVersionFails(c) PROVE VerdictIsWitnessed'
    BY <1>9 DEF ReadVersionFails, Leave
  <1>10. ASSUME NEW c \in Callers, ReturnWithoutLock(c) PROVE VerdictIsWitnessed'
    BY <1>10, ReturnWitnessed DEF ReturnWithoutLock
  <1>11. ASSUME NEW c \in Callers, ReturnUnlocked(c) PROVE VerdictIsWitnessed'
    BY <1>11, ReturnWitnessed DEF ReturnUnlocked
  <1>12. ASSUME NEW c \in Callers, ReturnUnlockFailed(c) PROVE VerdictIsWitnessed'
    BY <1>12, ReturnWitnessed DEF ReturnUnlockFailed
  <1>13. ASSUME NEW c \in Callers, LoseSession(c) PROVE VerdictIsWitnessed'
    BY <1>13 DEF LoseSession, Release
  <1>14. ASSUME NEW p \in Procs, LogHealthEvent(p) PROVE VerdictIsWitnessed'
    BY <1>14 DEF LogHealthEvent
  <1>15. ASSUME NEW p \in Procs, LogHealthEventFails(p) PROVE VerdictIsWitnessed'
    BY <1>15 DEF LogHealthEventFails
  <1>16. ASSUME NEW p \in Procs, Stop(p) PROVE VerdictIsWitnessed'
    BY <1>16 DEF Stop
  <1>22. ASSUME NEW c \in Callers, StatusWhileStopping(c) PROVE VerdictIsWitnessed'
    BY <1>22 DEF StatusWhileStopping
  <1>23. ASSUME NEW p \in Procs, PoolCloses(p) PROVE VerdictIsWitnessed'
    BY <1>23 DEF PoolCloses
  <1>17. ASSUME NEW p \in Procs, Kill(p) PROVE VerdictIsWitnessed'
    BY <1>17 DEF Kill, Abandon
  <1>18. ASSUME NEW r \in Runners, Migrate(r) PROVE VerdictIsWitnessed'
    BY <1>18 DEF Migrate
  <1>19. CASE DatabaseDown
    BY <1>19 DEF DatabaseDown
  <1>20. CASE DatabaseUp
    BY <1>20 DEF DatabaseUp
  <1>21. CASE UNCHANGED vars
    BY <1>21 DEF vars, VerdictIsWitnessed
  <1> QED
    BY <1>1, <1>2, <1>3, <1>4, <1>5, <1>6, <1>7, <1>8, <1>9, <1>10, <1>11,
       <1>12, <1>13, <1>14, <1>15, <1>16, <1>17, <1>18, <1>19, <1>20, <1>21,
       <1>22, <1>23 DEF Next, Proceed

(***************************************************************************)
(* READY, MIGRATING after a read, and MIGRATING under contention are each  *)
(* backed by a state of the call they answer.                              *)
(***************************************************************************)
THEOREM VerdictsAreWitnessed == Spec => []VerdictIsWitnessed
  <1>1. LifecycleInit => VerdictIsWitnessed
    BY DEF LifecycleInit, VerdictIsWitnessed, WitnessOf
  <1> QED
    BY <1>1, StepWitnessed, LifecycleInvariant, PTL DEF Spec
------------------------------------------------------------------------------
(* The lifecycle uses the lock as its promise allows, and no other way. *)

LEMMA GateStep == GateTypeOK /\ [Next]_vars => [GateNext]_gateVars
  <1> SUFFICES ASSUME GateTypeOK, [Next]_vars PROVE GateNext \/ UNCHANGED gateVars
    OBVIOUS
  <1> USE DEF GateNext, procVars
  <1>1. ASSUME NEW c \in Callers, Start(c) PROVE GateNext
    BY <1>1 DEF Start
  <1>2. ASSUME NEW c \in Callers, StartWithoutDatabase(c) PROVE UNCHANGED gateVars
    BY <1>2 DEF StartWithoutDatabase
  <1>3. ASSUME NEW c \in Callers, Status(c) PROVE GateNext
    BY <1>3 DEF Status
  <1>4. ASSUME NEW c \in Callers, StatusWithoutPool(c) PROVE UNCHANGED gateVars
    BY <1>4 DEF StatusWithoutPool
  <1>5. ASSUME NEW c \in Callers, Granted(c) PROVE GateNext
    BY <1>5 DEF Granted
  <1>6. ASSUME NEW c \in Callers, Contended(c) PROVE GateNext
    BY <1>6 DEF Contended
  <1>7. ASSUME NEW c \in Callers, CannotAsk(c) PROVE GateNext
    BY <1>7 DEF CannotAsk
  <1>8. ASSUME NEW c \in Callers, ReadVersion(c) PROVE GateNext
    BY <1>8 DEF ReadVersion
  <1>9. ASSUME NEW c \in Callers, ReadVersionFails(c) PROVE GateNext
    BY <1>9 DEF ReadVersionFails
  <1>10. ASSUME NEW c \in Callers, ReturnWithoutLock(c) PROVE GateNext
    BY <1>10 DEF ReturnWithoutLock, Return
  <1>11. ASSUME NEW c \in Callers, ReturnUnlocked(c) PROVE GateNext
    BY <1>11 DEF ReturnUnlocked, Return
  <1>12. ASSUME NEW c \in Callers, ReturnUnlockFailed(c) PROVE GateNext
    BY <1>12 DEF ReturnUnlockFailed, Return
  <1>13. ASSUME NEW c \in Callers, LoseSession(c) PROVE GateNext
    BY <1>13 DEF LoseSession
  <1>14. ASSUME NEW p \in Procs, LogHealthEvent(p) PROVE UNCHANGED gateVars
    BY <1>14 DEF LogHealthEvent
  <1>15. ASSUME NEW p \in Procs, LogHealthEventFails(p) PROVE UNCHANGED gateVars
    BY <1>15 DEF LogHealthEventFails
  <1>16. ASSUME NEW p \in Procs, Stop(p) PROVE UNCHANGED gateVars
    BY <1>16 DEF Stop
  <1>22. ASSUME NEW c \in Callers, StatusWhileStopping(c) PROVE UNCHANGED gateVars
    BY <1>22 DEF StatusWhileStopping
  <1>23. ASSUME NEW p \in Procs, PoolCloses(p) PROVE UNCHANGED gateVars
    BY <1>23 DEF PoolCloses
  <1>17. ASSUME NEW p \in Procs, Kill(p) PROVE GateNext
    <2>1. CallersOf(p) \in SUBSET Callers /\ Abandon(CallersOf(p))
      BY <1>17 DEF Kill, CallersOf
    <2> QED
      BY <2>1
  <1>18. ASSUME NEW r \in Runners, Migrate(r) PROVE UNCHANGED gateVars
    BY <1>18 DEF Migrate
  <1>19. CASE DatabaseDown
    <2>1. owner' = None /\ phase' = phase
      BY <1>19 DEF DatabaseDown
    <2>2. CASE owner = None
      BY <2>1, <2>2 DEF gateVars
    <2>3. CASE owner \in Callers
      BY <2>1, <2>3 DEF Release
    <2> QED
      BY <2>2, <2>3 DEF GateTypeOK
  <1>20. CASE DatabaseUp
    BY <1>20 DEF DatabaseUp
  <1>21. CASE UNCHANGED vars
    BY <1>21 DEF vars
  <1> QED
    BY <1>1, <1>2, <1>3, <1>4, <1>5, <1>6, <1>7, <1>8, <1>9, <1>10, <1>11,
       <1>12, <1>13, <1>14, <1>15, <1>16, <1>17, <1>18, <1>19, <1>20, <1>21,
       <1>22, <1>23 DEF Next, Proceed

(***************************************************************************)
(* The lifecycle implements the gate that MigrationLock implements too:    *)
(* an outage takes the lock from at most its one owner, a killed process   *)
(* abandons all its calls at once, and no step grants or drops the lock    *)
(* in any other way.                                                       *)
(***************************************************************************)
THEOREM LifecycleImplementsGate == Spec => GateSpec
  <1>1. LifecycleInit => GateInit
    BY DEF LifecycleInit
  <1>2. LifecycleTypeOK => GateTypeOK
    BY DEF LifecycleTypeOK
  <1> QED
    BY <1>1, <1>2, GateStep, LifecycleTypeCorrect, PTL DEF Spec, GateSpec
==============================================================================
