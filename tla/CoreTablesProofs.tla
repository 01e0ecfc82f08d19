--------------------------- MODULE CoreTablesProofs ---------------------------
(***************************************************************************)
(* The registry and the pruned logs, for any apps, versions, registrars,   *)
(* windows and clocks.                                                     *)
(***************************************************************************)
EXTENDS CoreTables, SequenceTheorems, TLAPS

Versions == {v \in Seq(Int) : Parses(v)}
Stored == Registrations \cup {Attached}

(* What a row, or a registration, may require of the foundation that runs. *)
Met(required) == ~Newer(required, running)

Registrar == [step: {"idle", "check", "write"}, app: Apps \cup {None},
              incoming: Registrations \cup {None},
              existing: Stored \cup {None}, force: BOOLEAN]
Pruner == [step: {"idle", "delete"}, table: Logs \cup {None}, cutoff: Int]

(***************************************************************************)
(* Between the check and the write, a registrar holds a registration that  *)
(* was accepted against the row it had read.  It need not be acceptable    *)
(* against the row that is there by then.                                  *)
(***************************************************************************)
Accepted(s) ==
    /\ s.incoming.required \in Versions
    /\ ~downgraded => Met(s.incoming.required)
    /\ s.existing # None /\ Newer(s.incoming.required, s.existing.required) => s.force

RegistryInv ==
    /\ running \in Foundations /\ downgraded \in BOOLEAN
    /\ registry \in [Apps -> Stored \cup {None}]
    /\ registrar \in [Registrars -> Registrar]
    /\ \A r \in Registrars : registrar[r].step # "idle" =>
          registrar[r].app \in Apps /\ registrar[r].incoming \in Registrations
    /\ \A r \in Registrars : registrar[r].step = "write" => Accepted(registrar[r])
    /\ ~downgraded => Met(Attached.required)
    /\ \A a \in Apps : registry[a] # None => registry[a].required \in Versions
    /\ ~downgraded => \A a \in Apps : registry[a] # None => Met(registry[a].required)

(* A cutoff that was computed is on the safe side, and time only helps. *)
PruneInv ==
    /\ day \in Days /\ healthEvents \subseteq Days /\ backupLog \subseteq Days
    /\ pruner \in [Pruners -> Pruner]
    /\ \A p \in Pruners : pruner[p].step = "delete" =>
          /\ pruner[p].table \in Logs
          /\ pruner[p].cutoff <= day + MaxSkew - MinimumPruneDays

-----------------------------------------------------------------------------
LEMMA VersionParts == \A v \in Versions : v[1] \in Int /\ v[2] \in Int /\ v[3] \in Int
  <1> SUFFICES ASSUME NEW v \in Seq(Int), Len(v) = 3
               PROVE  v[1] \in Int /\ v[2] \in Int /\ v[3] \in Int
    BY DEF Versions, Parses
  <1>1. 1 \in 1..Len(v) /\ 2 \in 1..Len(v) /\ 3 \in 1..Len(v)
    OBVIOUS
  <1> QED
    BY <1>1, ElementOfSeq

(* The order of versions is total and transitive. *)
LEMMA NotNewerTrans ==
    ASSUME NEW u \in Versions, NEW v \in Versions, NEW w \in Versions,
           ~Newer(u, v), ~Newer(v, w)
    PROVE  ~Newer(u, w)
  BY VersionParts DEF Newer

LEMMA NotNewerThanItself == \A v \in Versions : ~Newer(v, v)
  BY VersionParts DEF Newer

LEMMA FoundationsAreVersions == Foundations \subseteq Versions
  BY RegistryAssumption DEF Versions

LEMMA StoredIsTyped ==
    \A i \in Stored : i # None /\ i.mode # None
                      /\ (i.required # None => i.required \in Seq(Int))
  BY RegistryAssumption DEF Stored

(* A registration that passes the check is met by the foundation that runs. *)
LEMMA CheckedIsMet ==
    ASSUME running \in Foundations, NEW i \in Registrations,
           CheckRegistration(i, running) = "ok"
    PROVE  i.required \in Versions /\ Met(i.required)
  BY StoredIsTyped DEF CheckRegistration, Met, Versions, Stored

(* A re-registration that passes is no unforced raise. *)
LEMMA RecheckedIsKept ==
    ASSUME running \in Foundations, NEW i \in Registrations, NEW e \in Stored,
           NEW f \in BOOLEAN, CheckReregistration(e, i, running, f) = "ok"
    PROVE  /\ i.required \in Versions /\ Met(i.required)
           /\ Newer(i.required, e.required) => f
  <1>1. CheckRegistration(i, running) = "ok"
    BY DEF CheckReregistration
  <1> QED
    BY <1>1, CheckedIsMet DEF CheckReregistration
-----------------------------------------------------------------------------
LEMMA RegistryInit == CoreInit => RegistryInv
  <1> SUFFICES ASSUME CoreInit PROVE RegistryInv
    OBVIOUS
  <1>1. registrar \in [Registrars -> Registrar]
    BY DEF CoreInit, NoRegistration, Registrar
  <1>2. running \in Versions /\ ~Newer(running, running)
    BY RegistryAssumption, FoundationsAreVersions, NotNewerThanItself DEF CoreInit
  <1> QED
    BY <1>1, <1>2, RegistryAssumption DEF CoreInit, RegistryInv, NoRegistration, Met

(* What a new foundation keeps: it is met by all that was met before. *)
LEMMA InstallKeeps ==
    ASSUME NEW version \in Foundations, running \in Foundations,
           Install(version), NEW q \in Versions, Met(q), ~downgraded'
    PROVE  Met(q)'
  <1>1. ~Newer(running, version) /\ running' = version
    BY DEF Install
  <1>2. ~Newer(q, version)
    BY <1>1, NotNewerTrans, FoundationsAreVersions DEF Met
  <1> QED
    BY <1>1, <1>2 DEF Met

LEMMA RegistryStep == RegistryInv /\ [CoreNext]_coreVars => RegistryInv'
  <1> SUFFICES ASSUME RegistryInv, [CoreNext]_coreVars PROVE RegistryInv'
    OBVIOUS
  <1>1. ASSUME NEW version \in Foundations, Install(version) PROVE RegistryInv'
    <2>1. UNCHANGED <<registry, registrar>> /\ running' = version
      BY <1>1 DEF Install
    <2>2. downgraded' \in BOOLEAN /\ (~downgraded' => ~downgraded)
      BY <1>1 DEF Install, RegistryInv
    <2>3. \A q \in Versions : ~downgraded' /\ Met(q) => Met(q)'
      BY <1>1, InstallKeeps DEF RegistryInv
    <2>4. ~downgraded' => Met(Attached.required)'
      BY <2>2, <2>3, RegistryAssumption, FoundationsAreVersions DEF RegistryInv
    <2>5. ~downgraded' => \A a \in Apps : registry[a] # None => Met(registry[a].required)'
      BY <2>1, <2>2, <2>3 DEF RegistryInv
    <2>6. ASSUME NEW r \in Registrars, registrar[r].step = "write"
          PROVE  Accepted(registrar[r])'
      BY <2>1, <2>2, <2>3, <2>6 DEF RegistryInv, Accepted
    <2> QED
      BY <2>1, <2>2, <2>4, <2>5, <2>6 DEF RegistryInv
  <1>2. CASE Attach
    BY <1>2, RegistryAssumption, FoundationsAreVersions
       DEF Attach, RegistryInv, Stored, Accepted, Met
  <1>3. ASSUME NEW r \in Registrars, NEW a \in Apps, NEW i \in Registrations,
               NEW f \in BOOLEAN, ReadRegistration(r, a, i, f)
        PROVE  RegistryInv'
    <2>1. registrar' \in [Registrars -> Registrar]
      BY <1>3 DEF ReadRegistration, RegistryInv, Registrar
    <2> QED
      BY <2>1, <1>3 DEF ReadRegistration, RegistryInv, Accepted, Met
  <1>4. ASSUME NEW r \in Registrars, Check(r) PROVE RegistryInv'
    <2>1. registrar' \in [Registrars -> Registrar]
      BY <1>4 DEF Check, RegistryInv, Registrar, NoRegistration
    <2>2. CASE Verdict(r) # "ok"
      BY <2>1, <2>2, <1>4 DEF Check, RegistryInv, Accepted, Met, NoRegistration
    <2>3. CASE Verdict(r) = "ok"
      <3>1. Accepted(registrar[r])
        <4> DEFINE s == registrar[r]
        <4>1. s.incoming \in Registrations /\ s.existing \in Stored \cup {None}
              /\ s.force \in BOOLEAN
          BY <1>4 DEF Check, RegistryInv, Registrar
        <4>2. CASE s.existing = None
          BY <4>1, <4>2, <2>3, CheckedIsMet DEF Verdict, Accepted, RegistryInv
        <4>3. CASE s.existing # None
          BY <4>1, <4>3, <2>3, RecheckedIsKept DEF Verdict, Accepted, RegistryInv
        <4> QED
          BY <4>2, <4>3
      <3>2. registrar' = [registrar EXCEPT ![r] = [@ EXCEPT !.step = "write"]]
        BY <1>4, <2>3 DEF Check
      <3>3. /\ registrar'[r].incoming = registrar[r].incoming
            /\ registrar'[r].existing = registrar[r].existing
            /\ registrar'[r].force = registrar[r].force
            /\ registrar'[r].app = registrar[r].app
        BY <3>2 DEF RegistryInv, Registrar
      <3>4. \A o \in Registrars \ {r} : registrar'[o] = registrar[o]
        BY <3>2 DEF RegistryInv
      <3> QED
        BY <2>1, <3>1, <3>3, <3>4, <1>4 DEF Check, RegistryInv, Accepted, Met
    <2> QED
      BY <2>2, <2>3
  <1>5. ASSUME NEW r \in Registrars, WriteRegistration(r) PROVE RegistryInv'
    <2>1. registrar' \in [Registrars -> Registrar]
      BY <1>5 DEF WriteRegistration, RegistryInv, Registrar, NoRegistration
    <2>2. registry' \in [Apps -> Stored \cup {None}]
      BY <1>5 DEF WriteRegistration, RegistryInv, Stored
    <2> QED
      BY <1>5, <2>1, <2>2 DEF WriteRegistration, RegistryInv, Accepted, Met, NoRegistration
  <1>6. CASE PruneNext
    <2>1. UNCHANGED registryVars
      BY <1>6 DEF PruneNext, LogBackup, NextDay, ComputeCutoff, PruneHealthEvents,
                  PruneBackupLog, PruneDies
    <2> QED
      BY <2>1 DEF RegistryInv, Accepted, Met, registryVars
  <1>7. CASE UNCHANGED coreVars
    BY <1>7 DEF RegistryInv, Accepted, Met, coreVars, registryVars
  <1> QED
    BY <1>1, <1>2, <1>3, <1>4, <1>5, <1>6, <1>7 DEF CoreNext, RegistryNext

(* The inductive invariant of the registry and those who write it. *)
THEOREM RegistryInvariant == CoreSpec => []RegistryInv
  BY RegistryInit, RegistryStep, PTL DEF CoreSpec

(* No stored registration requires more than the foundation that runs,      *)
(* until an older foundation is installed.                                  *)
THEOREM RequirementsAreMet == CoreSpec => []RequiredIsMet
  <1>1. RegistryInv => RequiredIsMet
    BY DEF RegistryInv, RequiredIsMet, Met, Versions
  <1> QED
    BY <1>1, RegistryInvariant, PTL
-----------------------------------------------------------------------------
(* A row changes by the attach file or by a registrar that had its check;   *)
(* if the row is still the one it had read, the check speaks of this change. *)
LEMMA RowChange ==
    ASSUME RegistryInv, [CoreNext]_coreVars, NEW a \in Apps, registry'[a] # registry[a]
    PROVE  \/ a = AuthorForge /\ registry'[a] = Attached
           \/ \E r \in Registrars :
                 /\ registrar[r].step = "write" /\ registrar[r].app = a
                 /\ registry'[a] = registrar[r].incoming
                 /\ Accepted(registrar[r])
  <1>1. CASE Attach
    BY <1>1 DEF Attach, RegistryInv
  <1>2. ASSUME NEW r \in Registrars, WriteRegistration(r)
        PROVE  /\ registrar[r].step = "write" /\ registrar[r].app = a
               /\ registry'[a] = registrar[r].incoming
               /\ Accepted(registrar[r])
    BY <1>2 DEF WriteRegistration, RegistryInv
  <1>3. \/ Attach
        \/ \E r \in Registrars : WriteRegistration(r)
        \/ UNCHANGED registry
    BY DEF CoreNext, RegistryNext, Install, ReadRegistration, Check, PruneNext,
           LogBackup, NextDay, ComputeCutoff, PruneHealthEvents, PruneBackupLog,
           PruneDies, registryVars, coreVars
  <1> QED
    BY <1>1, <1>2, <1>3

(* The required version of an app is raised by the attach file, by force,   *)
(* or by a registrar that was overtaken after its check.                    *)
THEOREM RequirementsAreRaisedOnPurpose == CoreSpec => RaisesAreIntended
  <1> DEFINE Raise(a) ==
        (/\ registry[a] # None /\ registry'[a] # None
         /\ Newer(registry'[a].required, registry[a].required))
        => \/ a = AuthorForge /\ registry'[a] = Attached
           \/ \E r \in Registrars :
                 /\ registrar[r].step = "write" /\ registrar[r].app = a
                 /\ registrar[r].force \/ registrar[r].existing # registry[a]
  <1>1. RegistryInv /\ [CoreNext]_coreVars => [\A a \in Apps : Raise(a)]_coreVars
    <2> SUFFICES ASSUME RegistryInv, [CoreNext]_coreVars, NEW a \in Apps,
                        registry[a] # None, registry'[a] # None, ~(UNCHANGED coreVars),
                        Newer(registry'[a].required, registry[a].required)
                 PROVE  \/ a = AuthorForge /\ registry'[a] = Attached
                        \/ \E r \in Registrars :
                              /\ registrar[r].step = "write" /\ registrar[r].app = a
                              /\ registrar[r].force \/ registrar[r].existing # registry[a]
      OBVIOUS
    <2>1. registry'[a] # registry[a]
      BY NotNewerThanItself DEF RegistryInv
    <2> QED
      BY <2>1, RowChange DEF Accepted
  <1> QED
    BY <1>1, RegistryInvariant, PTL DEF CoreSpec, RaisesAreIntended

-----------------------------------------------------------------------------
LEMMA PruneInit == CoreInit => PruneInv
  BY PruneAssumption DEF CoreInit, PruneInv, NoPrune, Pruner, Days, Logs

LEMMA PruneStep == PruneInv /\ [CoreNext]_coreVars => PruneInv'
  <1> SUFFICES ASSUME PruneInv, [CoreNext]_coreVars PROVE PruneInv'
    OBVIOUS
  <1> USE PruneAssumption
  <1>1. CASE RegistryNext \/ UNCHANGED coreVars
    <2>1. /\ UNCHANGED <<day, backupLog, pruner>>
          /\ healthEvents' \in {healthEvents, healthEvents \cup {day}}
      BY <1>1 DEF RegistryNext, Install, Attach, ReadRegistration, Check,
                  WriteRegistration, pruneVars, coreVars
    <2> QED
      BY <2>1 DEF PruneInv
  <1>2. CASE LogBackup
    BY <1>2 DEF LogBackup, PruneInv
  <1>3. CASE NextDay
    BY <1>3 DEF NextDay, PruneInv, Days, Pruner
  <1>4. ASSUME NEW p \in Pruners, NEW table \in Logs, NEW w \in Windows,
               NEW k \in Skews, ComputeCutoff(p, table, w, k)
        PROVE  PruneInv'
    <2>1. k \in Int /\ k <= MaxSkew /\ w \in Int /\ w >= MinimumPruneDays /\ day \in Int
      BY <1>4 DEF ComputeCutoff, WindowIsAllowed, Skews, PruneInv, Days
    <2>2. day + k - w \in Int /\ day + k - w <= day + MaxSkew - MinimumPruneDays
      BY <2>1
    <2>3. pruner' \in [Pruners -> Pruner]
      BY <1>4, <2>2 DEF ComputeCutoff, PruneInv, Pruner
    <2> QED
      BY <1>4, <2>2, <2>3 DEF ComputeCutoff, PruneInv
  <1>5. ASSUME NEW p \in Pruners,
               PruneHealthEvents(p) \/ PruneBackupLog(p) \/ PruneDies(p)
        PROVE  PruneInv'
    <2>1. pruner' = [pruner EXCEPT ![p] = NoPrune] /\ day' = day
          /\ healthEvents' \subseteq healthEvents /\ backupLog' \subseteq backupLog
      BY <1>5 DEF PruneHealthEvents, PruneBackupLog, PruneDies, Kept
    <2>2. NoPrune \in Pruner /\ NoPrune.step = "idle"
      BY DEF NoPrune, Pruner
    <2> QED
      BY <2>1, <2>2 DEF PruneInv
  <1> QED
    BY <1>1, <1>2, <1>3, <1>4, <1>5 DEF CoreNext, PruneNext

(* The inductive invariant of the prunes that are under way. *)
THEOREM PruneInvariant == CoreSpec => []PruneInv
  BY PruneInit, PruneStep, PTL DEF CoreSpec

(* The core tables and those who write them are well typed, and no cutoff   *)
(* is later than the minimum window allows on the most advanced clock.      *)
THEOREM CoreTypeCorrect == CoreSpec => []CoreTypeOK
  <1>1. RegistryInv /\ PruneInv => CoreTypeOK
    BY DEF RegistryInv, PruneInv, CoreTypeOK, Registrar, Stored
  <1> QED
    BY <1>1, RegistryInvariant, PruneInvariant, PTL

(* No prune removes a row of the minimum window, less the skew of clocks.   *)
THEOREM RecentRowsAreKept == CoreSpec => PruneKeepsRecent
  <1> DEFINE Gone == (healthEvents \ healthEvents') \cup (backupLog \ backupLog')
  <1>1. PruneInv /\ [CoreNext]_coreVars =>
           [\A d \in Gone : day - d > MinimumPruneDays - MaxSkew]_coreVars
    <2> SUFFICES ASSUME PruneInv, CoreNext, NEW d \in Gone
                 PROVE  day - d > MinimumPruneDays - MaxSkew
      OBVIOUS
    <2>1. PICK p \in Pruners : PruneHealthEvents(p) \/ PruneBackupLog(p)
      BY DEF CoreNext, RegistryNext, Install, Attach, ReadRegistration, Check,
             WriteRegistration, PruneNext, LogBackup, NextDay, ComputeCutoff,
             PruneDies, pruneVars
    <2>2. d < pruner[p].cutoff /\ pruner[p].step = "delete"
      BY <2>1 DEF PruneHealthEvents, PruneBackupLog, Kept
    <2>3. d \in Int /\ day \in Int /\ pruner[p].cutoff \in Int
      BY DEF PruneInv, Days, Pruner
    <2> QED
      BY <2>2, <2>3, PruneAssumption DEF PruneInv
  <1> QED
    BY <1>1, PruneInvariant, PTL DEF CoreSpec, PruneKeepsRecent
=============================================================================
