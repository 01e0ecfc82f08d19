------------------------------- MODULE Backups -------------------------------
(***************************************************************************)
(* BackupManager (src/core/backup/manager.py) and ExportManager            *)
(* (src/core/export/manager.py) in the processes of db-backup, db-export   *)
(* and db-restore, which share a file system, the signing key and one      *)
(* database.  Nothing locks a path: tools on the same path, or on paths    *)
(* with the same stem, run in each other's way.                            *)
(*                                                                         *)
(* What is in a file is a number: each time a file is written it gets a    *)
(* new one, so the number is also its SHA-256.  `whole` are the numbers of *)
(* archives that one pg_dump wrote from beginning to end.                  *)
(***************************************************************************)
EXTENDS SigningKey

CONSTANTS Paths,        \* paths of backup and export files
          Stem(_),      \* path.with_suffix(".envelope.json") of a path
          ForeignKey,   \* a key of another installation
          NoEnvelope,   \* no sidecar
          Malformed,    \* a sidecar that is no JSON, or not yet
          Nobody,       \* no tool
          MaxRuns,      \* bound: tools started
          MaxChanges    \* bound: files an operator puts or damages

ASSUME ForeignKeyAssumption == ForeignKey \notin Keys \cup {NoKey}
ASSUME NobodyAssumption == Nobody \notin Tools
ASSUME BoundsAssumption == MaxRuns \in Nat /\ MaxChanges \in Nat

VARIABLES files,        \* what is at each path; 0: no file
          sidecars,     \* what is at each stem
          whole,        \* contents that are complete archives
          log,          \* `completed` rows of core_backup_log, core_export_log
          db,           \* what was last restored; 0: the live data
          torn,         \* the tool whose restore is under way or was cut short
          job,          \* what each tool is doing, or did last
          result,       \* how its last run ended
          stamp,        \* the last content written
          runs, changes \* tools started, files put or damaged

(* History, read by properties and by no step of the program. *)
VARIABLES signed,       \* envelopes signed by this installation
          touched,      \* did another one write at a tool's stem, or restore, during its run
          settled       \* the envelope of a backup nobody interfered with since

fileVars == <<files, sidecars, whole, stamp>>
dbVars   == <<db, torn>>
history  == <<signed, touched, settled>>
vars     == <<keyVars, fileVars, dbVars, history, log, job, result, runs, changes>>

Stems == {Stem(p) : p \in Paths}
Envelope == [kind : {"backup", "export"}, app : {"own", "other"},
             hash : Nat, mac : Keys \cup {NoKey, ForeignKey}]
ASSUME EnvelopeAssumption == {NoEnvelope, Malformed} \cap Envelope = {}

WriteSteps   == {"dump", "dumping", "hash", "sign", "sidecar", "writeSidecar", "log"}
RestoreSteps == {"envelope", "rehash", "verify", "apply", "applying"}
Job == [op : {"none", "backup", "export", "restore"}, path : Paths,
        step : WriteSteps \cup RestoreSteps \cup {"ended"},
        hash : Nat, env : Envelope \cup {NoEnvelope},
        unsigned : BOOLEAN, dry : BOOLEAN]

BackupsTypeOK ==
    /\ KeyTypeOK
    /\ files \in [Paths -> Nat]
    /\ sidecars \in [Stems -> Envelope \cup {NoEnvelope, Malformed}]
    /\ whole \in SUBSET (1..stamp)
    /\ log \in SUBSET [path : Paths, env : Envelope]
    /\ db \in Nat /\ torn \in Tools \cup {Nobody}
    /\ job \in [Tools -> Job]
    /\ result \in [Tools -> {"none", "success", "blocked", "raised"}]
    /\ runs \in Nat /\ changes \in Nat /\ stamp \in Nat
    /\ signed \in SUBSET Envelope
    /\ touched \in [Tools -> BOOLEAN]
    /\ settled \in [Paths -> Envelope \cup {NoEnvelope}]

BackupsInit ==
    /\ KeyInit
    /\ files = [p \in Paths |-> 0]
    /\ sidecars = [s \in Stems |-> NoEnvelope]
    /\ whole = {} /\ log = {}
    /\ db = 0 /\ torn = Nobody
    /\ \E p \in Paths :
          job = [t \in Tools |-> [op |-> "none", path |-> p, step |-> "ended", hash |-> 0,
                                  env |-> NoEnvelope, unsigned |-> FALSE, dry |-> FALSE]]
    /\ result = [t \in Tools |-> "none"]
    /\ runs = 0 /\ changes = 0 /\ stamp = 0
    /\ signed = {}
    /\ touched = [t \in Tools |-> FALSE]
    /\ settled = [p \in Paths |-> NoEnvelope]

------------------------------------------------------------------------------

At(t, step) == job[t].step = step
StemOf(t) == Stem(job[t].path)
GoTo(t, step) == job' = [job EXCEPT ![t].step = step]

(* Who (a tool, or Nobody) writes at stem s: the others are interfered with. *)
Touch(who, s) ==
    /\ touched' = [t \in Tools |-> touched[t] \/ (t # who /\ ~At(t, "ended") /\ StemOf(t) = s)]
    /\ settled' = [p \in Paths |-> IF Stem(p) = s THEN NoEnvelope ELSE settled[p]]

(* A new content at path p. *)
WriteFile(p) ==
    /\ stamp' = stamp + 1
    /\ files' = [files EXCEPT ![p] = stamp + 1]

(* The tool ends: its manager and its key are gone. *)
End(t, how) ==
    /\ GoTo(t, "ended")
    /\ result' = [result EXCEPT ![t] = how]
    /\ DropKey(t)
EndsAlone(t, how) ==
    /\ End(t, how)
    /\ UNCHANGED <<fileVars, dbVars, history, log, runs, changes>>

Begin(t, op, p, first, unsigned, dry) ==
    /\ At(t, "ended") /\ runs < MaxRuns
    /\ runs' = runs + 1
    /\ job' = [job EXCEPT ![t] =
                 [op |-> op, path |-> p, step |-> first, hash |-> 0, env |-> NoEnvelope,
                  unsigned |-> unsigned, dry |-> dry]]
    /\ result' = [result EXCEPT ![t] = "none"]
    /\ touched' = [touched EXCEPT ![t] = FALSE]
    /\ UNCHANGED <<keyVars, fileVars, dbVars, log, signed, settled, changes>>

(* db-backup, db-export: start() was READY, the namespaces are registered  *)
(* (and an export's is not "core"), and the version query has answered.    *)
BeginWrite(t, op, p) == Begin(t, op, p, "dump", FALSE, FALSE)

(* db-restore --confirm; any state but a failed start() will do. *)
BeginRestore(t, p, unsigned, dry) == Begin(t, "restore", p, "envelope", unsigned, dry)

------------------------------------------------------------------------------
(* backup() and export() *)

(* pg_dump opens its output file, whatever is there. *)
DumpStarts(t) ==
    /\ At(t, "dump")
    /\ WriteFile(job[t].path)
    /\ job' = [job EXCEPT ![t].step = "dumping", ![t].hash = stamp + 1]
    /\ Touch(t, StemOf(t))
    /\ UNCHANGED <<keyVars, sidecars, whole, dbVars, signed, log, result, runs, changes>>

(* It has written all of it: an archive, if nobody wrote there meanwhile. *)
DumpEnds(t) ==
    /\ At(t, "dumping")
    /\ WriteFile(job[t].path)
    /\ whole' = IF files[job[t].path] = job[t].hash THEN whole \cup {stamp + 1} ELSE whole
    /\ GoTo(t, "hash")
    /\ Touch(t, StemOf(t))
    /\ UNCHANGED <<keyVars, sidecars, dbVars, signed, log, result, runs, changes>>

(* pg_dump fails.  logger.error(..., error=...) raises TypeError before the *)
(* failure is logged in the database; what was written stays.              *)
DumpFails(t) ==
    /\ At(t, "dump") \/ At(t, "dumping")
    /\ EndsAlone(t, "raised")

(* Mutant: the hash is that of the file as pg_dump began it. *)
HashTooEarly(t) ==
    /\ At(t, "hash") /\ files[job[t].path] # 0
    /\ GoTo(t, "sign")
    /\ UNCHANGED <<keyVars, fileVars, dbVars, history, log, result, runs, changes>>

(* _compute_hash(): of what is at the path by now. *)
Hash(t) ==
    /\ At(t, "hash") /\ files[job[t].path] # 0
    /\ job' = [job EXCEPT ![t].hash = files[job[t].path], ![t].step = "sign"]
    /\ UNCHANGED <<keyVars, fileVars, dbVars, history, log, result, runs, changes>>

Seal(t, mac) ==
    LET e == [kind |-> job[t].op, app |-> "own", hash |-> job[t].hash, mac |-> mac] IN
    /\ job' = [job EXCEPT ![t].env = e, ![t].step = "sidecar"]
    /\ signed' = IF mac = NoKey THEN signed ELSE signed \cup {e}

(* sign_envelope() with the key of the installation. *)
SignBackup(t) ==
    /\ At(t, "sign") /\ job[t].op = "backup"
    /\ HasKey(t)
    /\ Seal(t, raw[t])
    /\ UNCHANGED <<keyVars, fileVars, dbVars, touched, settled, log, result, runs, changes>>

(* Without a key a backup stops; the TypeError again precedes the log row. *)
CannotSign(t) ==
    /\ At(t, "sign") /\ keyStep[t] = "refused"
    /\ EndsAlone(t, "raised")

(* An export's envelope has other fields and no mac. *)
SealExport(t) ==
    /\ At(t, "sign") /\ job[t].op = "export"
    /\ Seal(t, NoKey)
    /\ UNCHANGED <<keyVars, fileVars, dbVars, touched, settled, log, result, runs, changes>>

(* write_text() opens the sidecar: until it is written it is no JSON. *)
OpenSidecar(t) ==
    /\ At(t, "sidecar")
    /\ sidecars' = [sidecars EXCEPT ![StemOf(t)] = Malformed]
    /\ GoTo(t, "writeSidecar")
    /\ Touch(t, StemOf(t))
    /\ UNCHANGED <<keyVars, files, whole, stamp, dbVars, signed, log, result, runs, changes>>

(* Over a text that another tool wrote meanwhile, it may not be JSON either. *)
WriteSidecar(t) ==
    /\ At(t, "writeSidecar")
    /\ \/ sidecars' = [sidecars EXCEPT ![StemOf(t)] = job[t].env]
       \/ sidecars[StemOf(t)] # Malformed /\ sidecars' = [sidecars EXCEPT ![StemOf(t)] = Malformed]
    /\ GoTo(t, "log")
    /\ Touch(t, StemOf(t))
    /\ UNCHANGED <<keyVars, files, whole, stamp, dbVars, signed, log, result, runs, changes>>

(* The `completed` row; the tool reports success. *)
LogCompleted(t) ==
    /\ At(t, "log")
    /\ log' = log \cup {[path |-> job[t].path, env |-> job[t].env]}
    /\ settled' = IF touched[t] \/ job[t].op = "export" THEN settled
                  ELSE [settled EXCEPT ![job[t].path] = job[t].env]
    /\ End(t, "success")
    /\ UNCHANGED <<fileVars, dbVars, signed, touched, runs, changes>>

(* The insert fails, and logger.warning(..., error=...) raises. *)
LogFails(t) ==
    /\ At(t, "log")
    /\ EndsAlone(t, "raised")

------------------------------------------------------------------------------
(* restore() *)

(* The sidecar exists, parses as a BackupEnvelope, and is of this app. *)
ReadSidecar(t) ==
    /\ At(t, "envelope")
    /\ LET e == sidecars[StemOf(t)]
           fits == e \in Envelope /\ e.kind = "backup" /\ e.app = "own" IN
       \/ /\ fits
          /\ job' = [job EXCEPT ![t].env = e, ![t].step = "rehash"]
          /\ UNCHANGED <<keyVars, fileVars, dbVars, history, log, result, runs, changes>>
       \/ ~fits /\ EndsAlone(t, "blocked")

(* Mutant: the file is hashed, and the hash compared with itself. *)
CheckHashNever(t) ==
    /\ At(t, "rehash") /\ files[job[t].path] # 0
    /\ GoTo(t, IF job[t].env.mac = NoKey THEN "apply" ELSE "verify")
    /\ UNCHANGED <<keyVars, fileVars, dbVars, history, log, result, runs, changes>>

(* The file exists and hashes to what the envelope says; no mac needs      *)
(* --allow-unsigned.                                                       *)
CheckHash(t) ==
    /\ At(t, "rehash")
    /\ LET e == job[t].env
           fits == /\ files[job[t].path] = e.hash /\ e.hash # 0
                   /\ e.mac = NoKey => job[t].unsigned IN
       \/ /\ fits
          /\ GoTo(t, IF e.mac = NoKey THEN "apply" ELSE "verify")
          /\ UNCHANGED <<keyVars, fileVars, dbVars, history, log, result, runs, changes>>
       \/ ~fits /\ EndsAlone(t, "blocked")

(* Mutant: --allow-unsigned also lets a wrong mac pass. *)
VerifyUnlessUnsigned(t) ==
    /\ At(t, "verify")
    /\ \/ /\ job[t].unsigned \/ (HasKey(t) /\ job[t].env.mac = raw[t])
          /\ GoTo(t, "apply")
          /\ UNCHANGED <<keyVars, fileVars, dbVars, history, log, result, runs, changes>>
       \/ /\ \/ keyStep[t] = "refused"
             \/ HasKey(t) /\ job[t].env.mac # raw[t]
          /\ EndsAlone(t, "blocked")

(* verify_envelope() with the key of the installation. *)
Verify(t) ==
    /\ At(t, "verify")
    /\ \/ /\ HasKey(t) /\ job[t].env.mac = raw[t]
          /\ GoTo(t, "apply")
          /\ UNCHANGED <<keyVars, fileVars, dbVars, history, log, result, runs, changes>>
       \/ /\ \/ keyStep[t] = "refused"
             \/ HasKey(t) /\ job[t].env.mac # raw[t]
          /\ EndsAlone(t, "blocked")

DryRunPasses(t) ==
    /\ At(t, "apply") /\ job[t].dry
    /\ EndsAlone(t, "success")

(* pg_restore gives up before its first statement: RestoreBlockedError. *)
PgRestoreRefuses(t) ==
    /\ At(t, "apply") /\ ~job[t].dry
    /\ EndsAlone(t, "blocked")

(* It opens the file, whatever is there by now, and begins to drop. *)
PgRestoreCleans(t) ==
    /\ At(t, "apply") /\ ~job[t].dry
    /\ files[job[t].path] # 0
    /\ job' = [job EXCEPT ![t].hash = files[job[t].path], ![t].step = "applying"]
    /\ torn' = t
    /\ touched' = [u \in Tools |-> touched[u] \/ (u # t /\ ~At(u, "ended") /\ job[u].op = "restore")]
    /\ UNCHANGED <<keyVars, fileVars, db, signed, settled, log, result, runs, changes>>

(***************************************************************************)
(* It has read an archive to its end.  Unless another restore began to     *)
(* drop what this one put there, the database now holds that archive.      *)
(***************************************************************************)
PgRestoreEnds(t) ==
    /\ At(t, "applying")
    /\ job[t].hash \in whole /\ files[job[t].path] = job[t].hash
    /\ IF torn = t THEN db' = job[t].hash /\ torn' = Nobody ELSE UNCHANGED dbVars
    /\ End(t, "success")
    /\ UNCHANGED <<fileVars, history, log, runs, changes>>

(* A statement fails or the archive breaks off: it was not one transaction. *)
PgRestoreFails(t) ==
    /\ At(t, "applying")
    /\ EndsAlone(t, "blocked")

------------------------------------------------------------------------------
(* The environment *)

(***************************************************************************)
(* A tool is killed, or the version query or a file operation raises.  Its *)
(* pg_dump or pg_restore may outlive it; that is the same tool killed when *)
(* the child has ended, since until then it would only have waited for it. *)
(***************************************************************************)
Dies(t) ==
    /\ ~At(t, "ended")
    /\ EndsAlone(t, "raised")

(* A file is put at p, with a sidecar made elsewhere, or one made by hand. *)
Import(p, e) ==
    /\ changes < MaxChanges /\ changes' = changes + 1
    /\ WriteFile(p)
    /\ \E archive \in BOOLEAN : whole' = IF archive THEN whole \cup {stamp + 1} ELSE whole
    /\ sidecars' = [sidecars EXCEPT ![Stem(p)] = e]
    /\ Touch(Nobody, Stem(p))
    /\ UNCHANGED <<keyVars, dbVars, signed, log, job, result, runs>>

(* The file at p is damaged. *)
Corrupt(p) ==
    /\ changes < MaxChanges /\ changes' = changes + 1
    /\ files[p] # 0
    /\ WriteFile(p)
    /\ Touch(Nobody, Stem(p))
    /\ UNCHANGED <<keyVars, sidecars, whole, dbVars, signed, log, job, result, runs>>

(* The sidecars of other installations, for a content h. *)
OthersEnvelopes(h) ==
    [kind : {"backup"}, app : {"own", "other"}, hash : {h}, mac : {NoKey, ForeignKey}]

------------------------------------------------------------------------------

(* The manager loads the key when it first signs or verifies. *)
LoadsKey(t) ==
    /\ At(t, "sign") \/ At(t, "verify")
    /\ job[t].op # "export"
    /\ GetSigningKey(t)
    /\ UNCHANGED <<fileVars, dbVars, history, log, job, result, runs, changes>>

Next ==
    \/ \E t \in Tools, p \in Paths :
          \/ \E op \in {"backup", "export"} : BeginWrite(t, op, p)
          \/ \E unsigned, dry \in BOOLEAN : BeginRestore(t, p, unsigned, dry)
    \/ \E t \in Tools :
          \/ DumpStarts(t) \/ DumpEnds(t) \/ DumpFails(t) \/ Hash(t)
          \/ SignBackup(t) \/ CannotSign(t) \/ SealExport(t)
          \/ OpenSidecar(t) \/ WriteSidecar(t) \/ LogCompleted(t) \/ LogFails(t)
          \/ ReadSidecar(t) \/ CheckHash(t) \/ Verify(t) \/ DryRunPasses(t)
          \/ PgRestoreRefuses(t) \/ PgRestoreCleans(t) \/ PgRestoreEnds(t) \/ PgRestoreFails(t)
          \/ LoadsKey(t) \/ Dies(t)
    \/ \E p \in Paths :
          \/ Corrupt(p)
          \/ \E e \in OthersEnvelopes(stamp + 1) : Import(p, e)

Spec == BackupsInit /\ [][Next]_vars

------------------------------------------------------------------------------
(* Properties. *)

(***************************************************************************)
(* A backup that reported success can be restored: as long as nobody else  *)
(* wrote at its stem since it began, the file is a complete archive, the   *)
(* sidecar describes it, and the key on disk is the one that signed it,    *)
(* unless two tools were creating the key at once.                         *)
(***************************************************************************)
SettledBackupVerifies ==
    \A p \in Paths : settled[p] # NoEnvelope =>
       /\ files[p] = settled[p].hash /\ files[p] \in whole
       /\ sidecars[Stem(p)] = settled[p]
       /\ contested \/ (keyFile = settled[p].mac /\ keyMode = "strict")

(***************************************************************************)
(* What this installation signed it can verify for ever: the key on disk,  *)
(* which every later tool reads (signing.py:74-97), is the one in the mac  *)
(* of every envelope ever signed, and its mode is the one the reader asks  *)
(* for, unless two tools were creating the key at once.                    *)
(***************************************************************************)
SignedEnvelopesVerify ==
    contested \/ \A e \in signed : e.mac = keyFile /\ keyMode = "strict"

(***************************************************************************)
(* "Restore validates all checks (including HMAC) before applying          *)
(* anything" (manager.py:8): pg_restore only ever runs on an envelope that *)
(* this installation signed for this app, or, with --allow-unsigned, on    *)
(* one without a mac.                                                      *)
(***************************************************************************)
OnlyCheckedEnvelopesPass ==
    \A t \in Tools : job[t].step \in {"apply", "applying"} =>
       /\ job[t].env.kind = "backup" /\ job[t].env.app = "own"
       /\ IF job[t].env.mac = NoKey THEN job[t].unsigned ELSE job[t].env \in signed

(***************************************************************************)
(* What a successful restore applied is what its envelope vouches for, and *)
(* all of it, unless somebody wrote at its stem or restored meanwhile: the *)
(* file is hashed, and opened again by pg_restore.                         *)
(***************************************************************************)
RestoreAppliesWhatItChecked ==
    \A t \in Tools :
       (job[t].op = "restore" /\ result[t] = "success" /\ ~job[t].dry /\ ~touched[t]) =>
          /\ job[t].hash = job[t].env.hash /\ job[t].hash \in whole
          /\ torn # t

(***************************************************************************)
(* RestoreBlockedError: "This is fail-closed behavior. Restore is not      *)
(* applied." (manager.py:79): a restore that ends in it has dropped        *)
(* nothing.                                                                *)
(***************************************************************************)
BlockedRestoreChangesNothing == \A t \in Tools : result[t] = "blocked" => torn # t

(***************************************************************************)
(* "Partial or failed backup/restore states must not be reported as        *)
(* complete" (docs/backup-export-restore.md:28): a completed row is about  *)
(* a complete archive.                                                     *)
(***************************************************************************)
CompletedIsWhole == \A row \in log : row.env.hash \in whole
==============================================================================
