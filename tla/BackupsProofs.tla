---------------------------- MODULE BackupsProofs -----------------------------
(***************************************************************************)
(* The signing key and the backups that are signed with it, for any tools, *)
(* keys, paths and stems, and any number of runs and changes.              *)
(***************************************************************************)
EXTENDS Backups, TLAPS

(* Who is creating the key, has found it, or has it. *)
IsCreating(t) == keyStep[t] \in Creating
HasFound(t) == keyStep[t] \in {"present", "checked", "opened", "written"} \/ HasKey(t)

(***************************************************************************)
(* A file that was found stays, and a mode that was checked.  As long as   *)
(* no two tools have found no file at once, one tool at most is creating   *)
(* the key, and its step tells what is in the file.                        *)
(***************************************************************************)
KeyInv ==
    /\ KeyTypeOK
    /\ \A t \in Tools :
          /\ HasFound(t) => keyFile # NoFile
          /\ keyStep[t] = "checked" \/ HasKey(t) => keyMode = "strict"
          /\ keyStep[t] \in {"opened", "written"} => raw[t] \in Keys
    /\ ~contested =>
          /\ \A t, u \in Tools : IsCreating(t) /\ IsCreating(u) => t = u
          /\ \A t \in Tools :
                /\ keyStep[t] = "absent" => keyFile = NoFile
                /\ keyStep[t] = "opened" => keyFile = Empty
                /\ keyStep[t] = "written" \/ HasKey(t) => keyFile = raw[t]

HoldingEnvelope ==
    {"sidecar", "writeSidecar", "log", "rehash", "verify", "apply", "applying"}

(* The step of a tool tells what it is doing and what it has in hand. *)
JobInv ==
    \A t \in Tools :
       /\ job[t].step \in WriteSteps => job[t].op \in {"backup", "export"}
       /\ job[t].step \in RestoreSteps => job[t].op = "restore"
       /\ job[t].step # "ended" => result[t] = "none"
       /\ job[t].step \in HoldingEnvelope => job[t].env \in Envelope

TypeInv == KeyInv /\ BackupsTypeOK /\ JobInv

(* A mac of this installation is on an envelope that was signed here,       *)
(* wherever the envelope is.                                                *)
IsKnown(e) == e \in Envelope /\ e.mac \in Keys => e \in signed

OriginInv ==
    /\ \A s \in Stems : IsKnown(sidecars[s])
    /\ \A t \in Tools :
          /\ IsKnown(job[t].env)
          /\ job[t].step \in RestoreSteps \ {"envelope"} =>
                job[t].env.kind = "backup" /\ job[t].env.app = "own"
          /\ job[t].step \in {"apply", "applying"} =>
                IF job[t].env.mac = NoKey THEN job[t].unsigned ELSE job[t].env \in signed

(***************************************************************************)
(* What a tool with which nobody interferes finds at its path and stem, by *)
(* its step, and what it has left when its restore has succeeded.          *)
(***************************************************************************)
Intact(t) ==
    LET j == job[t] IN
    /\ j.step = "dumping" => files[j.path] = j.hash
    /\ j.step = "hash" => files[j.path] \in whole
    /\ j.step = "sign" => files[j.path] = j.hash /\ j.hash \in whole
    /\ j.step \in {"sidecar", "writeSidecar", "log"} =>
          files[j.path] = j.env.hash /\ j.env.hash \in whole
    /\ j.step = "writeSidecar" => sidecars[Stem(j.path)] = Malformed
    /\ j.step = "log" => sidecars[Stem(j.path)] = j.env
    /\ j.step \in {"verify", "apply"} => files[j.path] = j.env.hash
    /\ j.step = "applying" => j.hash = j.env.hash /\ torn = t
    /\ j.op = "restore" /\ result[t] = "success" /\ ~j.dry =>
          j.hash = j.env.hash /\ j.hash \in whole /\ torn # t

FileInv == \A t \in Tools : ~touched[t] => Intact(t)

(* A backup that is signed and not yet logged has its key in hand. *)
HasSigned(t) ==
    job[t].op = "backup" /\ job[t].step \in {"sidecar", "writeSidecar", "log"}

MacInv == \A t \in Tools : HasSigned(t) => HasKey(t) /\ job[t].env.mac = raw[t]

SettledInv ==
    /\ SettledBackupVerifies
    /\ \A p \in Paths : settled[p] # NoEnvelope => settled[p].mac \in Keys

-----------------------------------------------------------------------------
LEMMA KeyInitSatisfiesInv == KeyInit => KeyInv
  BY DEF KeyInit, KeyInv, KeyTypeOK, KeySteps, Creating, HasFound, HasKey, IsCreating

LEMMA KeyStepKeepsInv == KeyInv /\ [KeyNext]_keyVars => KeyInv'
  <1> SUFFICES ASSUME KeyInv, [KeyNext]_keyVars PROVE KeyInv'
    OBVIOUS
  <1> USE KeysAreNotMarks, MarksDiffer
  <1> USE DEF KeyInv, KeyTypeOK, KeySteps, Creating, HasFound, HasKey, IsCreating, KeyGoTo
  <1>1. ASSUME NEW t \in Tools, LookForKey(t) PROVE KeyInv'
    BY <1>1 DEF LookForKey
  <1>2. ASSUME NEW t \in Tools, CheckMode(t) PROVE KeyInv'
    BY <1>2 DEF CheckMode
  <1>3. ASSUME NEW t \in Tools, ReadKey(t) PROVE KeyInv'
    BY <1>3 DEF ReadKey
  <1>4. ASSUME NEW t \in Tools, CannotCreateKey(t) PROVE KeyInv'
    BY <1>4 DEF CannotCreateKey
  <1>5. ASSUME NEW t \in Tools, OpenKeyFile(t) PROVE KeyInv'
    BY <1>5 DEF OpenKeyFile
  <1>6. ASSUME NEW t \in Tools, WriteKey(t) PROVE KeyInv'
    BY <1>6 DEF WriteKey
  <1>7. ASSUME NEW t \in Tools, ChmodKey(t) PROVE KeyInv'
    BY <1>7 DEF ChmodKey
  <1>8. ASSUME NEW t \in Tools, DropKey(t) PROVE KeyInv'
    BY <1>8 DEF DropKey
  <1>9. CASE UNCHANGED keyVars
    BY <1>9 DEF keyVars
  <1> QED
    BY <1>1, <1>2, <1>3, <1>4, <1>5, <1>6, <1>7, <1>8, <1>9 DEF KeyNext, GetSigningKey

(* A complete key that tools agree on stays, with its mode. *)
LEMMA KeyStays ==
    ASSUME KeyInv, [KeyNext]_keyVars, ~contested, keyFile \in Keys
    PROVE  keyFile' = keyFile /\ (keyMode = "strict" => keyMode' = "strict")
  BY KeysAreNotMarks
  DEF KeyInv, KeyNext, GetSigningKey, LookForKey, CheckMode, ReadKey, CannotCreateKey,
      OpenKeyFile, WriteKey, ChmodKey, DropKey, keyVars

LEMMA ContestedForGood ==
    ASSUME KeyInv, [KeyNext]_keyVars, contested
    PROVE  contested'
  BY DEF KeyInv, KeyTypeOK, KeyNext, GetSigningKey, LookForKey, CheckMode, ReadKey,
         CannotCreateKey, OpenKeyFile, WriteKey, ChmodKey, DropKey, keyVars

(***************************************************************************)
(* The managers use the key file as SigningKey says: every step of a tool  *)
(* is a step of it or leaves it alone.                                     *)
(***************************************************************************)
LEMMA StepIsKeyStep == [Next]_vars => [KeyNext]_keyVars
  <1> SUFFICES ASSUME [Next]_vars PROVE KeyNext \/ UNCHANGED keyVars
    OBVIOUS
  <1> USE DEF EndsAlone, End, KeyNext
  <1>1. ASSUME NEW t \in Tools, NEW p \in Paths
        PROVE  /\ \A op \in {"backup", "export"} : BeginWrite(t, op, p) => UNCHANGED keyVars
               /\ \A unsigned, dry \in BOOLEAN :
                     BeginRestore(t, p, unsigned, dry) => UNCHANGED keyVars
    BY DEF BeginWrite, BeginRestore, Begin
  <1>2. ASSUME NEW t \in Tools
        PROVE  /\ DumpStarts(t) \/ DumpEnds(t) \/ Hash(t) \/ SignBackup(t) \/ SealExport(t)
                  => UNCHANGED keyVars
               /\ OpenSidecar(t) \/ WriteSidecar(t) \/ PgRestoreCleans(t)
                  => UNCHANGED keyVars
               /\ DumpFails(t) \/ CannotSign(t) \/ LogCompleted(t) \/ LogFails(t)
                  => DropKey(t)
               /\ DryRunPasses(t) \/ PgRestoreRefuses(t) \/ PgRestoreEnds(t)
                  \/ PgRestoreFails(t) \/ Dies(t) => DropKey(t)
               /\ ReadSidecar(t) \/ CheckHash(t) \/ Verify(t)
                  => DropKey(t) \/ UNCHANGED keyVars
               /\ LoadsKey(t) => GetSigningKey(t)
    <2>1. DumpStarts(t) \/ DumpEnds(t) \/ Hash(t) \/ SignBackup(t) \/ SealExport(t)
          => UNCHANGED keyVars
      BY DEF DumpStarts, DumpEnds, Hash, SignBackup, SealExport
    <2>2. OpenSidecar(t) \/ WriteSidecar(t) \/ PgRestoreCleans(t) => UNCHANGED keyVars
      BY DEF OpenSidecar, WriteSidecar, PgRestoreCleans
    <2>3. DumpFails(t) \/ CannotSign(t) \/ LogCompleted(t) \/ LogFails(t) => DropKey(t)
      BY DEF DumpFails, CannotSign, LogCompleted, LogFails
    <2>4. DryRunPasses(t) \/ PgRestoreRefuses(t) \/ PgRestoreEnds(t)
          \/ PgRestoreFails(t) \/ Dies(t) => DropKey(t)
      BY DEF DryRunPasses, PgRestoreRefuses, PgRestoreEnds, PgRestoreFails, Dies
    <2>5. ReadSidecar(t) \/ CheckHash(t) \/ Verify(t) => DropKey(t) \/ UNCHANGED keyVars
      BY DEF ReadSidecar, CheckHash, Verify
    <2>6. LoadsKey(t) => GetSigningKey(t)
      BY DEF LoadsKey
    <2> QED
      BY <2>1, <2>2, <2>3, <2>4, <2>5, <2>6
  <1>3. ASSUME NEW p \in Paths
        PROVE  /\ Corrupt(p) => UNCHANGED keyVars
               /\ \A e \in OthersEnvelopes(stamp + 1) : Import(p, e) => UNCHANGED keyVars
    BY DEF Corrupt, Import
  <1>4. UNCHANGED vars => UNCHANGED keyVars
    BY DEF vars
  <1> QED
    BY <1>1, <1>2, <1>3, <1>4 DEF Next

(* The managers use the signing key as SigningKey says. *)
THEOREM BackupsImplementSigningKey == Spec => KeySpec
  <1>1. BackupsInit => KeyInit
    BY DEF BackupsInit
  <1> QED
    BY <1>1, StepIsKeyStep, PTL DEF Spec, KeySpec

(* The inductive invariant of the key file. *)
THEOREM KeyInvariant == KeySpec => []KeyInv
  BY KeyInitSatisfiesInv, KeyStepKeepsInv, PTL DEF KeySpec

(* Tools that have a key have the one on disk, unless two of them found no  *)
(* file at the same time.                                                   *)
THEOREM ToolsAgreeOnTheKey == Spec => []OneKeyUnlessContested
  <1>1. KeyInv => OneKeyUnlessContested
    BY DEF KeyInv, KeyTypeOK, OneKeyUnlessContested
  <1> QED
    BY <1>1, BackupsImplementSigningKey, KeyInvariant, PTL

(* A key that is complete on disk is there for good, with the same          *)
(* exception.                                                               *)
THEOREM TheKeyIsNeverReplaced == Spec => KeyIsNeverReplaced
  <1>1. KeyInv /\ [KeyNext]_keyVars =>
          [(keyFile \in Keys /\ ~contested) => keyFile' = keyFile]_keyVars
    BY KeyStays
  <1>2. KeySpec => [][KeyNext]_keyVars
    BY PTL DEF KeySpec
  <1> QED
    BY <1>1, <1>2, BackupsImplementSigningKey, KeyInvariant, PTL DEF KeyIsNeverReplaced

-----------------------------------------------------------------------------
(***************************************************************************)
(* Types.  A step that only ends a run is the same for every reason.       *)
(***************************************************************************)
LEMMA InitSatisfiesTypes == BackupsInit => TypeInv
  <1> SUFFICES ASSUME BackupsInit PROVE TypeInv
    OBVIOUS
  <1>1. KeyInv /\ KeyTypeOK
    BY KeyInitSatisfiesInv DEF BackupsInit, KeyInv
  <1>2. PICK p \in Paths :
           job = [t \in Tools |-> [op |-> "none", path |-> p, step |-> "ended", hash |-> 0,
                                   env |-> NoEnvelope, unsigned |-> FALSE, dry |-> FALSE]]
    BY DEF BackupsInit
  <1>3. job \in [Tools -> Job] /\ JobInv
    BY <1>2 DEF Job, JobInv, WriteSteps, RestoreSteps, HoldingEnvelope
  <1> QED
    BY <1>1, <1>3 DEF BackupsInit, TypeInv, BackupsTypeOK

LEMMA TouchTypes ==
    ASSUME TypeInv, NEW who, NEW s, Touch(who, s)
    PROVE  /\ touched' \in [Tools -> BOOLEAN]
           /\ settled' \in [Paths -> Envelope \cup {NoEnvelope}]
  BY DEF Touch, TypeInv, BackupsTypeOK, At

LEMMA WriteFileTypes ==
    ASSUME TypeInv, NEW p, WriteFile(p)
    PROVE  /\ files' \in [Paths -> Nat] /\ stamp' \in Nat /\ stamp' = stamp + 1
           /\ whole \in SUBSET (1..stamp') /\ stamp + 1 \in 1..stamp'
  <1>1. stamp \in Nat /\ files \in [Paths -> Nat] /\ whole \in SUBSET (1..stamp)
    BY DEF TypeInv, BackupsTypeOK
  <1>2. stamp' = stamp + 1 /\ files' = [files EXCEPT ![p] = stamp + 1]
    BY DEF WriteFile
  <1>3. 1..stamp \subseteq 1..(stamp + 1) /\ stamp + 1 \in 1..(stamp + 1)
    BY <1>1
  <1>4. stamp + 1 \in Nat
    BY <1>1
  <1>5. files' \in [Paths -> Nat]
    BY <1>1, <1>2, <1>4
  <1> QED
    BY <1>1, <1>2, <1>3, <1>4, <1>5

LEMMA StepThatOnlyEnds ==
    ASSUME TypeInv, NEW t \in Tools,
           \/ DumpFails(t) \/ CannotSign(t) \/ LogFails(t) \/ DryRunPasses(t)
           \/ PgRestoreRefuses(t) \/ PgRestoreFails(t) \/ Dies(t)
           \/ ReadSidecar(t) /\ job'[t].step # "rehash"
           \/ (CheckHash(t) \/ Verify(t)) /\ job'[t].step = "ended"
    PROVE  \E how \in {"success", "blocked", "raised"} :
              EndsAlone(t, how) /\ (how = "success" => job[t].dry)
  BY DEF TypeInv, BackupsTypeOK, Job, GoTo, DumpFails, CannotSign, LogFails, DryRunPasses,
         PgRestoreRefuses, PgRestoreFails, Dies, ReadSidecar, CheckHash, Verify

LEMMA StepKeepsTypes == TypeInv /\ [Next]_vars => TypeInv'
  <1> SUFFICES ASSUME TypeInv, [Next]_vars PROVE TypeInv'
    OBVIOUS
  <1>1. KeyInv' /\ KeyTypeOK'
    BY KeyStepKeepsInv, StepIsKeyStep DEF TypeInv, KeyInv
  <1> USE <1>1 DEF TypeInv, BackupsTypeOK, JobInv, At, GoTo, Job, WriteSteps, RestoreSteps,
                   HoldingEnvelope, StemOf, fileVars, dbVars, history, Stems
  <1>2. ASSUME NEW t \in Tools, NEW p \in Paths, NEW op \in {"backup", "export"},
               BeginWrite(t, op, p)
        PROVE  TypeInv'
    BY <1>2 DEF BeginWrite, Begin
  <1>3. ASSUME NEW t \in Tools, NEW p \in Paths, NEW unsigned \in BOOLEAN,
               NEW dry \in BOOLEAN, BeginRestore(t, p, unsigned, dry)
        PROVE  TypeInv'
    BY <1>3 DEF BeginRestore, Begin
  <1>4. ASSUME NEW t \in Tools, DumpStarts(t) PROVE TypeInv'
    <2>1. job' = [job EXCEPT ![t].step = "dumping", ![t].hash = stamp + 1]
      BY <1>4 DEF DumpStarts
    <2>2. job' \in [Tools -> Job]
      <3>1. stamp + 1 \in Nat
        OBVIOUS
      <3>2. [job[t] EXCEPT !.step = "dumping", !.hash = stamp + 1] \in Job
        BY <3>1
      <3> QED
        BY <2>1, <3>2
    <2>3. JobInv'
      BY <1>4, <2>1 DEF DumpStarts
    <2> QED
      BY <1>4, <2>2, <2>3, TouchTypes, WriteFileTypes DEF DumpStarts
  <1>5. ASSUME NEW t \in Tools, DumpEnds(t) PROVE TypeInv'
    BY <1>5, TouchTypes, WriteFileTypes DEF DumpEnds
  <1>6. ASSUME NEW t \in Tools, Hash(t) PROVE TypeInv'
    BY <1>6 DEF Hash
  <1>7. ASSUME NEW t \in Tools, SignBackup(t) PROVE TypeInv'
    BY <1>7 DEF SignBackup, Seal, HasKey, KeyTypeOK, Envelope
  <1>8. ASSUME NEW t \in Tools, SealExport(t) PROVE TypeInv'
    BY <1>8 DEF SealExport, Seal, Envelope
  <1>9. ASSUME NEW t \in Tools, OpenSidecar(t) PROVE TypeInv'
    BY <1>9, TouchTypes DEF OpenSidecar
  <1>10. ASSUME NEW t \in Tools, WriteSidecar(t) PROVE TypeInv'
    <2>1. job[t].env \in Envelope
      BY <1>10 DEF WriteSidecar
    <2>2. sidecars' \in [Stems -> Envelope \cup {NoEnvelope, Malformed}]
      BY <1>10, <2>1 DEF WriteSidecar
    <2> QED
      BY <1>10, TouchTypes, <2>2 DEF WriteSidecar
  <1>11. ASSUME NEW t \in Tools, LogCompleted(t) PROVE TypeInv'
    BY <1>11 DEF LogCompleted, End
  <1>12. ASSUME NEW t \in Tools, ReadSidecar(t), job'[t].step = "rehash" PROVE TypeInv'
    BY <1>12 DEF ReadSidecar, EndsAlone, End
  <1>13. ASSUME NEW t \in Tools, PgRestoreCleans(t) PROVE TypeInv'
    BY <1>13 DEF PgRestoreCleans
  <1>14. ASSUME NEW t \in Tools, PgRestoreEnds(t) PROVE TypeInv'
    BY <1>14 DEF PgRestoreEnds, End
  <1>15. ASSUME NEW t \in Tools, LoadsKey(t) PROVE TypeInv'
    BY <1>15 DEF LoadsKey
  <1>16. ASSUME NEW t \in Tools, NEW how \in {"success", "blocked", "raised"},
                EndsAlone(t, how)
         PROVE  TypeInv'
    BY <1>16 DEF EndsAlone, End
  <1>17. ASSUME NEW t \in Tools, CheckHash(t) \/ Verify(t), job'[t].step # "ended"
         PROVE  TypeInv'
    <2>1. /\ \E step \in {"verify", "apply"} : GoTo(t, step)
          /\ job[t].step \in {"rehash", "verify"}
          /\ UNCHANGED <<keyVars, fileVars, dbVars, history, log, result, runs, changes>>
      BY <1>17 DEF CheckHash, Verify, EndsAlone, End
    <2> QED
      BY <2>1
  <1>18. ASSUME NEW p \in Paths, Corrupt(p) PROVE TypeInv'
    BY <1>18, TouchTypes, WriteFileTypes DEF Corrupt
  <1>19. ASSUME NEW p \in Paths, NEW e \in OthersEnvelopes(stamp + 1), Import(p, e)
         PROVE  TypeInv'
    <2>1. e \in Envelope
      BY DEF OthersEnvelopes, Envelope
    <2>2. sidecars' \in [Stems -> Envelope \cup {NoEnvelope, Malformed}]
      BY <1>19, <2>1 DEF Import
    <2> QED
      BY <1>19, TouchTypes, WriteFileTypes, <2>2 DEF Import
  <1>20. CASE UNCHANGED vars
    BY <1>20 DEF vars
  <1> HIDE DEF TypeInv
  <1>21. ASSUME NEW t \in Tools,
                \/ DumpFails(t) \/ CannotSign(t) \/ LogFails(t) \/ DryRunPasses(t)
                \/ PgRestoreRefuses(t) \/ PgRestoreFails(t) \/ Dies(t)
                \/ ReadSidecar(t) \/ CheckHash(t) \/ Verify(t)
         PROVE  TypeInv'
    BY <1>12, <1>16, <1>17, <1>21, StepThatOnlyEnds
  <1> QED
    BY <1>2, <1>3, <1>4, <1>5, <1>6, <1>7, <1>8, <1>9, <1>10, <1>11, <1>13, <1>14, <1>15,
       <1>18, <1>19, <1>20, <1>21 DEF Next

-----------------------------------------------------------------------------
(* Where envelopes come from. *)
LEMMA StepKeepsOrigin == TypeInv /\ OriginInv /\ [Next]_vars => OriginInv'
  <1> SUFFICES ASSUME TypeInv, OriginInv, [Next]_vars PROVE OriginInv'
    OBVIOUS
  <1> USE DEF OriginInv, IsKnown, At, GoTo, RestoreSteps, StemOf, EndsAlone, End,
              fileVars, dbVars, history
  <1>1. /\ job \in [Tools -> Job] /\ JobInv
        /\ sidecars \in [Stems -> Envelope \cup {NoEnvelope, Malformed}]
        /\ raw \in [Tools -> Keys \cup {NoKey}]
    BY DEF TypeInv, BackupsTypeOK, KeyTypeOK
  <1> USE <1>1, EnvelopeAssumption DEF Job
  <1>2. ASSUME NEW t \in Tools, NEW p \in Paths, NEW op, NEW first \in {"dump", "envelope"},
               NEW unsigned, NEW dry, Begin(t, op, p, first, unsigned, dry)
        PROVE  OriginInv'
    BY <1>2 DEF Begin
  <1>3. ASSUME NEW t \in Tools, DumpStarts(t) \/ DumpEnds(t) \/ Hash(t) PROVE OriginInv'
    BY <1>3 DEF DumpStarts, DumpEnds, Hash
  <1>4. ASSUME NEW t \in Tools, SignBackup(t) \/ SealExport(t) PROVE OriginInv'
    <2>1. PICK mac : Seal(t, mac) /\ (mac \in Keys => mac # NoKey)
                     /\ (mac = NoKey \/ mac \in Keys) /\ UNCHANGED sidecars
      BY <1>4, KeysAreNotMarks DEF SignBackup, SealExport, HasKey
    <2> DEFINE e == [kind |-> job[t].op, app |-> "own", hash |-> job[t].hash, mac |-> mac]
    <2>2. /\ job' = [job EXCEPT ![t].env = e, ![t].step = "sidecar"]
          /\ signed' = IF mac = NoKey THEN signed ELSE signed \cup {e}
      BY <2>1 DEF Seal
    <2>3. mac \in Keys => e \in signed'
      BY <2>1, <2>2
    <2>4. e.mac = mac
      OBVIOUS
    <2> HIDE DEF e
    <2>5. signed \subseteq signed'
      BY <2>2
    <2> QED
      BY <2>1, <2>2, <2>3, <2>4, <2>5
  <1>5. ASSUME NEW t \in Tools, OpenSidecar(t) \/ WriteSidecar(t) PROVE OriginInv'
    <2>1. /\ \E to \in {"writeSidecar", "log"} : GoTo(t, to)
          /\ UNCHANGED signed
      BY <1>5 DEF OpenSidecar, WriteSidecar
    <2>2. \A s \in Stems : sidecars'[s] \in {sidecars[s], Malformed, job[t].env}
      BY <1>5 DEF OpenSidecar, WriteSidecar
    <2>3. \A s \in Stems : IsKnown(sidecars[s])'
      BY <2>1, <2>2
    <2> QED
      BY <2>1, <2>3
  <1>6. ASSUME NEW t \in Tools, LogCompleted(t) \/ PgRestoreEnds(t) PROVE OriginInv'
    BY <1>6 DEF LogCompleted, PgRestoreEnds
  <1>7. ASSUME NEW t \in Tools, NEW how, EndsAlone(t, how) PROVE OriginInv'
    BY <1>7
  <1>8. ASSUME NEW t \in Tools, ReadSidecar(t), job'[t].step = "rehash" PROVE OriginInv'
    <2>1. LET e == sidecars[StemOf(t)]
          IN /\ e \in Envelope /\ e.kind = "backup" /\ e.app = "own"
             /\ job' = [job EXCEPT ![t].env = e, ![t].step = "rehash"]
             /\ UNCHANGED <<sidecars, signed>>
      BY <1>8 DEF ReadSidecar
    <2>2. StemOf(t) \in Stems
      BY DEF Stems
    <2> QED
      BY <2>1, <2>2
  <1>9. ASSUME NEW t \in Tools, CheckHash(t), job'[t].step # "ended" PROVE OriginInv'
    <2>1. /\ job[t].step = "rehash" /\ (job[t].env.mac = NoKey => job[t].unsigned)
          /\ GoTo(t, IF job[t].env.mac = NoKey THEN "apply" ELSE "verify")
          /\ UNCHANGED <<sidecars, signed>>
      BY <1>9 DEF CheckHash
    <2> QED
      BY <2>1
  <1>10. ASSUME NEW t \in Tools, Verify(t), job'[t].step # "ended" PROVE OriginInv'
    <2>1. /\ job[t].step = "verify" /\ HasKey(t) /\ job[t].env.mac = raw[t]
          /\ GoTo(t, "apply") /\ UNCHANGED <<sidecars, signed>>
      BY <1>10 DEF Verify
    <2>2. job[t].env \in signed /\ job[t].env.mac # NoKey
      BY <2>1 DEF HasKey, JobInv, HoldingEnvelope
    <2> QED
      BY <2>1, <2>2
  <1>11. ASSUME NEW t \in Tools, PgRestoreCleans(t) PROVE OriginInv'
    BY <1>11 DEF PgRestoreCleans
  <1>12. ASSUME NEW t \in Tools, LoadsKey(t) PROVE OriginInv'
    BY <1>12 DEF LoadsKey
  <1>13. ASSUME NEW p \in Paths, Corrupt(p) PROVE OriginInv'
    BY <1>13 DEF Corrupt
  <1>14. ASSUME NEW p \in Paths, NEW e \in OthersEnvelopes(stamp + 1), Import(p, e)
         PROVE  OriginInv'
    <2>1. e.mac \notin Keys
      BY ForeignKeyAssumption, KeysAreNotMarks DEF OthersEnvelopes
    <2>2. \A s \in Stems : sidecars'[s] \in {sidecars[s], e}
      BY <1>14 DEF Import
    <2> QED
      BY <1>14, <2>1, <2>2 DEF Import
  <1>15. CASE UNCHANGED vars
    BY <1>15 DEF vars
  <1> HIDE <1>1 DEF OriginInv, GoTo
  <1>16. ASSUME NEW t \in Tools,
                \/ DumpFails(t) \/ CannotSign(t) \/ LogFails(t) \/ DryRunPasses(t)
                \/ PgRestoreRefuses(t) \/ PgRestoreFails(t) \/ Dies(t)
                \/ ReadSidecar(t) /\ job'[t].step # "rehash"
                \/ (CheckHash(t) \/ Verify(t)) /\ job'[t].step = "ended"
         PROVE  OriginInv'
    BY <1>7, <1>16, StepThatOnlyEnds
  <1> QED
    BY <1>2, <1>3, <1>4, <1>5, <1>6, <1>8, <1>9, <1>10, <1>11, <1>12, <1>13, <1>14, <1>15,
       <1>16 DEF Next, BeginWrite, BeginRestore

-----------------------------------------------------------------------------
(* The key in hand. *)
LEMMA OthersKeepTheirKey ==
    ASSUME TypeInv, NEW t \in Tools, NEW u \in Tools, t # u,
           GetSigningKey(t) \/ DropKey(t)
    PROVE  keyStep'[u] = keyStep[u] /\ raw'[u] = raw[u]
  BY DEF TypeInv, KeyInv, KeyTypeOK, GetSigningKey, LookForKey, CheckMode, ReadKey,
         CannotCreateKey, OpenKeyFile, WriteKey, ChmodKey, DropKey, KeyGoTo

LEMMA StepKeepsMac == TypeInv /\ MacInv /\ [Next]_vars => MacInv'
  <1> SUFFICES ASSUME TypeInv, MacInv, [Next]_vars PROVE MacInv'
    OBVIOUS
  <1> USE DEF MacInv, HasSigned, HasKey, At, GoTo, StemOf, keyVars
  <1>1. job \in [Tools -> Job] /\ raw \in [Tools -> Keys \cup {NoKey}] /\ JobInv
    BY DEF TypeInv, BackupsTypeOK, KeyTypeOK
  <1> USE <1>1 DEF Job
  <1>2. ASSUME NEW t \in Tools, NEW p \in Paths, NEW op, NEW first \in {"dump", "envelope"},
               NEW unsigned, NEW dry, Begin(t, op, p, first, unsigned, dry)
        PROVE  MacInv'
    BY <1>2 DEF Begin
  <1>3. ASSUME NEW t \in Tools, DumpStarts(t) \/ DumpEnds(t) \/ Hash(t) PROVE MacInv'
    BY <1>3 DEF DumpStarts, DumpEnds, Hash
  <1>4. ASSUME NEW t \in Tools, SignBackup(t) PROVE MacInv'
    BY <1>4 DEF SignBackup, Seal
  <1>5. ASSUME NEW t \in Tools, SealExport(t) PROVE MacInv'
    BY <1>5 DEF SealExport, Seal
  <1>6. ASSUME NEW t \in Tools, OpenSidecar(t) \/ WriteSidecar(t) PROVE MacInv'
    BY <1>6 DEF OpenSidecar, WriteSidecar
  <1>7. ASSUME NEW t \in Tools, DropKey(t), GoTo(t, "ended") PROVE MacInv'
    BY <1>7, OthersKeepTheirKey
  <1>8. ASSUME NEW t \in Tools, ReadSidecar(t), job'[t].step = "rehash" PROVE MacInv'
    <2>1. /\ \E e : job' = [job EXCEPT ![t].env = e, ![t].step = "rehash"]
          /\ UNCHANGED keyVars
      BY <1>8 DEF ReadSidecar, EndsAlone, End
    <2> QED
      BY <2>1
  <1>9. ASSUME NEW t \in Tools, CheckHash(t) \/ Verify(t), job'[t].step # "ended"
        PROVE  MacInv'
    <2>1. /\ \E step \in {"verify", "apply"} : GoTo(t, step)
          /\ UNCHANGED keyVars
      BY <1>9 DEF CheckHash, Verify, EndsAlone, End
    <2> QED
      BY <2>1
  <1>10. ASSUME NEW t \in Tools, PgRestoreCleans(t) PROVE MacInv'
    BY <1>10 DEF PgRestoreCleans
  <1>11. ASSUME NEW t \in Tools, LoadsKey(t) PROVE MacInv'
    <2>1. UNCHANGED job /\ job[t].step \in {"sign", "verify"} /\ GetSigningKey(t)
      BY <1>11 DEF LoadsKey
    <2> QED
      BY <2>1, OthersKeepTheirKey
  <1>12. ASSUME NEW p \in Paths,
                Corrupt(p) \/ \E e \in OthersEnvelopes(stamp + 1) : Import(p, e)
         PROVE  MacInv'
    BY <1>12 DEF Corrupt, Import
  <1>13. CASE UNCHANGED vars
    BY <1>13 DEF vars
  <1> HIDE <1>1 DEF MacInv, GoTo
  <1>14. ASSUME NEW t \in Tools,
                \/ DumpFails(t) \/ CannotSign(t) \/ LogFails(t) \/ DryRunPasses(t)
                \/ PgRestoreRefuses(t) \/ PgRestoreFails(t) \/ Dies(t)
                \/ ReadSidecar(t) /\ job'[t].step # "rehash"
                \/ (CheckHash(t) \/ Verify(t)) /\ job'[t].step = "ended"
                \/ LogCompleted(t) \/ PgRestoreEnds(t)
         PROVE  MacInv'
    BY <1>7, <1>14, StepThatOnlyEnds DEF EndsAlone, End, LogCompleted, PgRestoreEnds
  <1> QED
    BY <1>2, <1>3, <1>4, <1>5, <1>6, <1>8, <1>9, <1>10, <1>11, <1>12, <1>13, <1>14
    DEF Next, BeginWrite, BeginRestore

-----------------------------------------------------------------------------
(***************************************************************************)
(* Files.  A step at a stem interferes with every tool that is busy there; *)
(* the others find what they found before.                                 *)
(***************************************************************************)
LEMMA TouchedIsBusyThere ==
    ASSUME TypeInv, NEW who, NEW s, Touch(who, s),
           NEW u \in Tools, u # who, ~touched'[u]
    PROVE  ~touched[u] /\ (At(u, "ended") \/ StemOf(u) # s)
  BY DEF Touch, TypeInv, BackupsTypeOK

LEMMA TouchSparesTheActor ==
    ASSUME TypeInv, NEW t \in Tools, NEW s, Touch(t, s)
    PROVE  touched'[t] = touched[t]
  BY DEF Touch, TypeInv, BackupsTypeOK

LEMMA OthersStayIntact ==
    ASSUME FileInv, NEW u \in Tools, ~touched[u],
           job'[u] = job[u], result'[u] = result[u], whole \subseteq whole',
           \/ At(u, "ended")
           \/ /\ files'[job[u].path] = files[job[u].path]
              /\ sidecars'[StemOf(u)] = sidecars[StemOf(u)],
           torn' = torn \/ (torn' # u /\ (torn # u \/ job[u].step # "applying"))
    PROVE  Intact(u)'
  BY DEF FileInv, Intact, At, StemOf

(* A step at the path of a tool, as the other tools see it. *)
LEMMA OthersSeeTheStep ==
    ASSUME TypeInv, FileInv, NEW t, NEW p \in Paths, Touch(t, Stem(p)),
           NEW u \in Tools, u # t, ~touched'[u],
           job'[u] = job[u], UNCHANGED <<result, torn>>, whole \subseteq whole',
           \A q \in Paths : q # p => files'[q] = files[q],
           \A s \in Stems : s # Stem(p) => sidecars'[s] = sidecars[s]
    PROVE  Intact(u)'
  <1>1. ~touched[u] /\ (At(u, "ended") \/ StemOf(u) # Stem(p))
    BY TouchedIsBusyThere
  <1>2. job[u].path \in Paths /\ StemOf(u) \in Stems
    BY DEF TypeInv, BackupsTypeOK, Job, StemOf, Stems
  <1>3. StemOf(u) # Stem(p) => /\ files'[job[u].path] = files[job[u].path]
                              /\ sidecars'[StemOf(u)] = sidecars[StemOf(u)]
    BY <1>2 DEF StemOf
  <1> QED
    BY <1>1, <1>3, OthersStayIntact

LEMMA StepKeepsFiles == TypeInv /\ FileInv /\ [Next]_vars => FileInv'
  <1> SUFFICES ASSUME TypeInv, FileInv, [Next]_vars PROVE FileInv'
    OBVIOUS
  <1>1. /\ job \in [Tools -> Job] /\ JobInv /\ files \in [Paths -> Nat]
        /\ sidecars \in [Stems -> Envelope \cup {NoEnvelope, Malformed}]
        /\ result \in [Tools -> {"none", "success", "blocked", "raised"}]
        /\ touched \in [Tools -> BOOLEAN]
    BY DEF TypeInv, BackupsTypeOK
  <1>2. \A t \in Tools : job[t].path \in Paths /\ StemOf(t) \in Stems
    BY <1>1 DEF Job, StemOf, Stems
  <1> USE <1>1, <1>2 DEF At, GoTo, Job
  <1>3. ASSUME NEW t \in Tools, NEW p \in Paths, NEW op \in {"backup", "export", "restore"},
               NEW first \in {"dump", "envelope"}, NEW unsigned, NEW dry,
               Begin(t, op, p, first, unsigned, dry)
        PROVE  FileInv'
    <2>1. \A u \in Tools : u # t => /\ job'[u] = job[u] /\ result'[u] = result[u]
                                    /\ touched'[u] = touched[u]
      BY <1>3 DEF Begin
    <2>2. job'[t].step = first /\ result'[t] = "none"
      BY <1>3 DEF Begin
    <2>3. UNCHANGED <<files, sidecars, whole, torn>>
      BY <1>3 DEF Begin, fileVars, dbVars
    <2>4. Intact(t)'
      BY <2>2 DEF Intact
    <2> QED
      BY <2>1, <2>3, <2>4, OthersStayIntact DEF FileInv
  <1>4. ASSUME NEW t \in Tools, DumpStarts(t) PROVE FileInv'
    <2>1. /\ job' = [job EXCEPT ![t].step = "dumping", ![t].hash = stamp + 1]
          /\ files' = [files EXCEPT ![job[t].path] = stamp + 1]
          /\ Touch(t, Stem(job[t].path)) /\ UNCHANGED <<sidecars, whole, torn, result>>
      BY <1>4 DEF DumpStarts, WriteFile, dbVars, StemOf
    <2>2. Intact(t)'
      BY <1>4, <2>1 DEF Intact, DumpStarts, JobInv, WriteSteps
    <2>3. ASSUME NEW u \in Tools, u # t, ~touched'[u] PROVE Intact(u)'
      BY <2>1, <2>3, OthersSeeTheStep
    <2> QED
      BY <2>2, <2>3 DEF FileInv
  <1>5. ASSUME NEW t \in Tools, DumpEnds(t) PROVE FileInv'
    <2>1. /\ job' = [job EXCEPT ![t].step = "hash"] /\ job[t].step = "dumping"
          /\ files' = [files EXCEPT ![job[t].path] = stamp + 1]
          /\ whole' = IF files[job[t].path] = job[t].hash THEN whole \cup {stamp + 1} ELSE whole
          /\ Touch(t, Stem(job[t].path)) /\ UNCHANGED <<sidecars, torn, result>>
      BY <1>5 DEF DumpEnds, WriteFile, dbVars, StemOf
    <2>2. ~touched[t] => Intact(t)'
      BY <2>1 DEF Intact, FileInv, JobInv, WriteSteps
    <2>3. ASSUME NEW u \in Tools, u # t, ~touched'[u] PROVE Intact(u)'
      BY <2>1, <2>3, OthersSeeTheStep
    <2>4. touched'[t] = touched[t]
      BY <2>1, TouchSparesTheActor
    <2> QED
      BY <2>2, <2>3, <2>4 DEF FileInv
  <1>6. ASSUME NEW t \in Tools, NEW step,
               job' = [job EXCEPT ![t] = step],
               UNCHANGED <<files, sidecars, whole, torn, touched, result>>,
               ~touched[t] => Intact(t)'
        PROVE  FileInv'
    BY <1>6, OthersStayIntact DEF FileInv
  <1>7. ASSUME NEW t \in Tools, Hash(t) PROVE FileInv'
    <2>1. /\ job' = [job EXCEPT ![t] = [job[t] EXCEPT !.hash = files[job[t].path],
                                                     !.step = "sign"]]
          /\ UNCHANGED <<files, sidecars, whole, torn, touched, result>>
          /\ job[t].step = "hash"
      BY <1>7 DEF Hash, fileVars, dbVars, history
    <2>2. ~touched[t] => Intact(t)'
      BY <2>1 DEF Intact, FileInv, JobInv, WriteSteps
    <2> QED
      BY <1>6, <2>1, <2>2
  <1>8. ASSUME NEW t \in Tools, SignBackup(t) \/ SealExport(t) PROVE FileInv'
    <2>1. PICK mac : Seal(t, mac)
      BY <1>8 DEF SignBackup, SealExport
    <2> DEFINE e == [kind |-> job[t].op, app |-> "own", hash |-> job[t].hash, mac |-> mac]
    <2>2. e.hash = job[t].hash
      OBVIOUS
    <2>3. /\ job' = [job EXCEPT ![t] = [job[t] EXCEPT !.env = e, !.step = "sidecar"]]
          /\ UNCHANGED <<files, sidecars, whole, torn, touched, result>>
          /\ job[t].step = "sign"
      BY <1>8, <2>1 DEF Seal, SignBackup, SealExport, fileVars, dbVars
    <2> HIDE DEF e
    <2>4. ~touched[t] => Intact(t)'
      BY <2>2, <2>3 DEF Intact, FileInv, JobInv, WriteSteps
    <2> QED
      BY <1>6, <2>3, <2>4
  <1>9. ASSUME NEW t \in Tools, OpenSidecar(t) PROVE FileInv'
    <2>1. /\ job' = [job EXCEPT ![t].step = "writeSidecar"] /\ job[t].step = "sidecar"
          /\ sidecars' = [sidecars EXCEPT ![Stem(job[t].path)] = Malformed]
          /\ Touch(t, Stem(job[t].path)) /\ UNCHANGED <<files, whole, torn, result>>
      BY <1>9 DEF OpenSidecar, dbVars, StemOf
    <2>2. ~touched[t] => Intact(t)'
      BY <2>1 DEF Intact, FileInv, JobInv, WriteSteps, StemOf
    <2>3. ASSUME NEW u \in Tools, u # t, ~touched'[u] PROVE Intact(u)'
      BY <2>1, <2>3, OthersSeeTheStep
    <2>4. touched'[t] = touched[t]
      BY <2>1, TouchSparesTheActor
    <2> QED
      BY <2>2, <2>3, <2>4 DEF FileInv
  <1>10. ASSUME NEW t \in Tools, WriteSidecar(t) PROVE FileInv'
    <2>1. /\ job' = [job EXCEPT ![t].step = "log"] /\ job[t].step = "writeSidecar"
          /\ \E text : /\ sidecars' = [sidecars EXCEPT ![Stem(job[t].path)] = text]
                       /\ text = job[t].env \/ sidecars[Stem(job[t].path)] # Malformed
          /\ Touch(t, Stem(job[t].path)) /\ UNCHANGED <<files, whole, torn, result>>
      BY <1>10 DEF WriteSidecar, dbVars, StemOf
    <2>2. ~touched[t] => Intact(t)'
      BY <2>1 DEF Intact, FileInv, JobInv, WriteSteps, StemOf
    <2>3. ASSUME NEW u \in Tools, u # t, ~touched'[u] PROVE Intact(u)'
      BY <2>1, <2>3, OthersSeeTheStep
    <2>4. touched'[t] = touched[t]
      BY <2>1, TouchSparesTheActor
    <2> QED
      BY <2>2, <2>3, <2>4 DEF FileInv
  <1>11. ASSUME NEW t \in Tools, NEW how,
                GoTo(t, "ended"), result' = [result EXCEPT ![t] = how],
                UNCHANGED <<files, sidecars, whole, torn, touched>>,
                how = "success" => job[t].op # "restore" \/ job[t].dry
         PROVE  FileInv'
    <2>1. Intact(t)'
      BY <1>11 DEF Intact
    <2>2. \A u \in Tools : u # t => job'[u] = job[u] /\ result'[u] = result[u]
      BY <1>11
    <2> QED
      BY <1>11, <2>1, <2>2, OthersStayIntact DEF FileInv
  <1>12. ASSUME NEW t \in Tools, LogCompleted(t) PROVE FileInv'
    <2>1. job[t].op # "restore"
      BY <1>12 DEF LogCompleted, JobInv, WriteSteps
    <2> QED
      BY <1>11, <1>12, <2>1 DEF LogCompleted, End, fileVars, dbVars
  <1>13. ASSUME NEW t \in Tools, ReadSidecar(t), job'[t].step = "rehash" PROVE FileInv'
    <2> DEFINE e == sidecars[StemOf(t)]
    <2>1. job[t].step = "envelope"
      BY <1>13 DEF ReadSidecar
    <2>2. ~EndsAlone(t, "blocked")
      BY <1>13 DEF EndsAlone, End
    <2>3. /\ job' = [job EXCEPT ![t] = [job[t] EXCEPT !.env = e, !.step = "rehash"]]
          /\ UNCHANGED <<files, sidecars, whole, torn, touched, result>>
      BY <1>13, <2>2 DEF ReadSidecar, fileVars, dbVars, history
    <2> HIDE DEF e
    <2>4. ~touched[t] => Intact(t)'
      BY <2>1, <2>3 DEF Intact, FileInv, JobInv, RestoreSteps
    <2> QED
      BY <1>6, <2>3, <2>4
  <1>14. ASSUME NEW t \in Tools, CheckHash(t) \/ Verify(t), job'[t].step # "ended"
         PROVE  FileInv'
    <2>1. PICK step \in {"verify", "apply"} :
             /\ job' = [job EXCEPT ![t] = [job[t] EXCEPT !.step = step]]
             /\ UNCHANGED <<files, sidecars, whole, torn, touched, result>>
             /\ \/ job[t].step = "rehash" /\ files[job[t].path] = job[t].env.hash
                \/ job[t].step = "verify"
      BY <1>14 DEF CheckHash, Verify, EndsAlone, End, fileVars, dbVars, history
    <2>2. ~touched[t] => Intact(t)'
      BY <2>1 DEF Intact, FileInv, JobInv, RestoreSteps
    <2> QED
      BY <1>6, <2>1, <2>2
  <1>15. ASSUME NEW t \in Tools, PgRestoreCleans(t) PROVE FileInv'
    <2>1. /\ job' = [job EXCEPT ![t].hash = files[job[t].path], ![t].step = "applying"]
          /\ job[t].step = "apply" /\ torn' = t
          /\ UNCHANGED <<files, sidecars, whole, result>>
      BY <1>15 DEF PgRestoreCleans, fileVars
    <2>2. \A u \in Tools : touched'[u] =
             (touched[u] \/ (u # t /\ ~At(u, "ended") /\ job[u].op = "restore"))
      BY <1>15 DEF PgRestoreCleans
    <2>3. ~touched[t] => Intact(t)'
      BY <2>1 DEF Intact, FileInv, JobInv, RestoreSteps
    <2>4. ASSUME NEW u \in Tools, u # t, ~touched'[u] PROVE Intact(u)'
      <3>1. ~touched[u] /\ job[u].step # "applying"
        BY <2>2, <2>4 DEF JobInv, RestoreSteps
      <3> QED
        BY <2>1, <2>4, <3>1, OthersStayIntact
    <2> QED
      BY <2>2, <2>3, <2>4 DEF FileInv
  <1>16. ASSUME NEW t \in Tools, PgRestoreEnds(t) PROVE FileInv'
    <2>1. /\ job' = [job EXCEPT ![t].step = "ended"]
          /\ result' = [result EXCEPT ![t] = "success"]
          /\ job[t].step = "applying" /\ job[t].hash \in whole
          /\ torn' = IF torn = t THEN Nobody ELSE torn
          /\ UNCHANGED <<files, sidecars, whole, touched>>
      BY <1>16 DEF PgRestoreEnds, End, fileVars, history, dbVars
    <2>2. ~touched[t] => Intact(t)'
      BY <2>1, NobodyAssumption DEF Intact, FileInv, JobInv, RestoreSteps
    <2>3. ASSUME NEW u \in Tools, u # t, ~touched[u] PROVE Intact(u)'
      BY <2>1, <2>3, NobodyAssumption, OthersStayIntact
    <2> QED
      BY <2>1, <2>2, <2>3 DEF FileInv
  <1>17. ASSUME NEW t \in Tools, LoadsKey(t) PROVE FileInv'
    BY <1>17, OthersStayIntact DEF LoadsKey, FileInv, fileVars, dbVars, history
  <1>18. ASSUME NEW p \in Paths,
                Corrupt(p) \/ \E e \in OthersEnvelopes(stamp + 1) : Import(p, e)
         PROVE  FileInv'
    <2>1. /\ Touch(Nobody, Stem(p)) /\ UNCHANGED <<torn, job, result>>
          /\ files' = [files EXCEPT ![p] = stamp + 1] /\ whole \subseteq whole'
          /\ \A s \in Stems : s # Stem(p) => sidecars'[s] = sidecars[s]
      BY <1>18 DEF Corrupt, Import, WriteFile, dbVars
    <2>2. ASSUME NEW u \in Tools, ~touched'[u] PROVE Intact(u)'
      BY <2>1, <2>2, NobodyAssumption, OthersSeeTheStep
    <2> QED
      BY <2>2 DEF FileInv
  <1>19. CASE UNCHANGED vars
    BY <1>19, OthersStayIntact DEF FileInv, vars, fileVars, dbVars, history
  <1> HIDE <1>1, <1>2 DEF GoTo
  <1>20. ASSUME NEW t \in Tools,
                \/ DumpFails(t) \/ CannotSign(t) \/ LogFails(t) \/ DryRunPasses(t)
                \/ PgRestoreRefuses(t) \/ PgRestoreFails(t) \/ Dies(t)
                \/ ReadSidecar(t) /\ job'[t].step # "rehash"
                \/ (CheckHash(t) \/ Verify(t)) /\ job'[t].step = "ended"
         PROVE  FileInv'
    <2>1. PICK how : EndsAlone(t, how) /\ (how = "success" => job[t].dry)
      BY <1>20, StepThatOnlyEnds
    <2> QED
      BY <1>11, <2>1 DEF EndsAlone, End, fileVars, dbVars, history
  <1> QED
    BY <1>3, <1>4, <1>5, <1>7, <1>8, <1>9, <1>10, <1>12, <1>13, <1>14, <1>15, <1>16, <1>17,
       <1>18, <1>19, <1>20 DEF Next, BeginWrite, BeginRestore

LEMMA InitSatisfiesRest == BackupsInit => OriginInv /\ MacInv /\ FileInv /\ SettledInv
  <1> SUFFICES ASSUME BackupsInit PROVE OriginInv /\ MacInv /\ FileInv /\ SettledInv
    OBVIOUS
  <1>1. NoEnvelope \notin Envelope
    BY EnvelopeAssumption
  <1>2. \A t \in Tools : /\ job[t].op = "none" /\ job[t].step = "ended"
                         /\ job[t].env = NoEnvelope
    BY DEF BackupsInit
  <1>3. \A s \in Stems : sidecars[s] = NoEnvelope
    BY DEF BackupsInit
  <1>4. \A p \in Paths : settled[p] = NoEnvelope
    BY DEF BackupsInit
  <1> QED
    BY <1>1, <1>2, <1>3, <1>4
    DEF OriginInv, IsKnown, MacInv, HasSigned, FileInv, Intact, SettledInv,
        SettledBackupVerifies, RestoreSteps

-----------------------------------------------------------------------------
(***************************************************************************)
(* A settled backup.  Whoever writes at its stem unsettles it, and so      *)
(* nothing that it depends on changes but the key.                         *)
(***************************************************************************)
KeyServes(mac) == contested \/ (keyFile = mac /\ keyMode = "strict")

LEMMA KeyServesOn ==
    ASSUME TypeInv, [Next]_vars, NEW mac \in Keys, KeyServes(mac)
    PROVE  KeyServes(mac)'
  <1>1. KeyInv /\ [KeyNext]_keyVars
    BY StepIsKeyStep DEF TypeInv
  <1>2. CASE contested
    BY <1>1, <1>2, ContestedForGood DEF KeyServes
  <1>3. CASE ~contested
    <2>1. keyFile \in Keys /\ keyMode = "strict" /\ keyFile = mac
      BY <1>3 DEF KeyServes
    <2>2. keyFile' = keyFile /\ keyMode' = "strict"
      BY <1>1, <1>3, <2>1, KeyStays
    <2> QED
      BY <2>1, <2>2 DEF KeyServes
  <1> QED
    BY <1>2, <1>3

(* What a step leaves as it was of the backup at p, if it stays settled. *)
StaysSettled(p) ==
    settled'[p] # NoEnvelope =>
       /\ settled'[p] = settled[p] /\ files'[p] = files[p]
       /\ sidecars'[Stem(p)] = sidecars[Stem(p)]

LEMMA TouchUnsettles ==
    ASSUME TypeInv, NEW who, NEW q \in Paths, Touch(who, Stem(q)),
           \A p \in Paths : p # q => files'[p] = files[p],
           \A s \in Stems : s # Stem(q) => sidecars'[s] = sidecars[s],
           NEW p \in Paths
    PROVE  StaysSettled(p)
  BY DEF Touch, StaysSettled, Stems, TypeInv, BackupsTypeOK

LEMMA StepKeepsSettled ==
    TypeInv /\ FileInv /\ MacInv /\ SettledInv /\ [Next]_vars => SettledInv'
  <1> SUFFICES ASSUME TypeInv, FileInv, MacInv, SettledInv, [Next]_vars PROVE SettledInv'
    OBVIOUS
  <1>1. /\ job \in [Tools -> Job] /\ files \in [Paths -> Nat]
        /\ sidecars \in [Stems -> Envelope \cup {NoEnvelope, Malformed}]
        /\ settled \in [Paths -> Envelope \cup {NoEnvelope}] /\ stamp \in Nat
        /\ whole \in SUBSET (1..stamp)
    BY DEF TypeInv, BackupsTypeOK
  <1>2. \A t \in Tools : job[t].path \in Paths
    BY <1>1 DEF Job
  <1>3. ASSUME NEW t \in Tools, LogCompleted(t) PROVE SettledInv'
    <2> DEFINE p == job[t].path
               e == job[t].env
    <2>1. /\ UNCHANGED <<files, sidecars, whole>>
          /\ settled' = IF touched[t] \/ job[t].op = "export" THEN settled
                        ELSE [settled EXCEPT ![p] = e]
          /\ job[t].step = "log"
      BY <1>3 DEF LogCompleted, fileVars, At
    <2>2. UNCHANGED <<keyFile, keyMode, contested>>
      BY <1>3 DEF LogCompleted, End, DropKey
    <2>3. CASE touched[t] \/ job[t].op = "export"
      BY <2>1, <2>2, <2>3 DEF SettledInv, SettledBackupVerifies
    <2>4. CASE ~touched[t] /\ job[t].op # "export"
      <3>1. files[p] = e.hash /\ files[p] \in whole /\ sidecars[Stem(p)] = e
        BY <2>1, <2>4 DEF FileInv, Intact
      <3>2. HasKey(t) /\ e.mac = raw[t]
        BY <2>1, <2>4 DEF MacInv, HasSigned, TypeInv, JobInv, WriteSteps
      <3>3. keyMode = "strict" /\ (~contested => keyFile = e.mac) /\ e.mac \in Keys
        BY <3>2 DEF TypeInv, KeyInv, KeyTypeOK, HasKey
      <3> HIDE DEF e, p
      <3>4. settled'[p] = e /\ \A q \in Paths : q # p => settled'[q] = settled[q]
        BY <1>1, <1>2, <2>1, <2>4 DEF p
      <3> QED
        BY <2>1, <2>2, <3>1, <3>3, <3>4 DEF SettledInv, SettledBackupVerifies
    <2> QED
      BY <2>3, <2>4
  <1>4. ASSUME \A p \in Paths : StaysSettled(p), whole \subseteq whole' PROVE SettledInv'
    <2> SUFFICES ASSUME NEW p \in Paths, settled'[p] # NoEnvelope
                 PROVE  /\ files'[p] = settled'[p].hash /\ files'[p] \in whole'
                        /\ sidecars'[Stem(p)] = settled'[p]
                        /\ KeyServes(settled[p].mac)' /\ settled'[p].mac \in Keys
      BY DEF SettledInv, SettledBackupVerifies, KeyServes
    <2>1. /\ settled'[p] = settled[p] /\ files'[p] = files[p]
          /\ sidecars'[Stem(p)] = sidecars[Stem(p)]
      BY <1>4 DEF StaysSettled
    <2> DEFINE mac == settled[p].mac
    <2>2. mac \in Keys /\ KeyServes(mac)
      BY <2>1 DEF SettledInv, SettledBackupVerifies, KeyServes
    <2>3. contested' \/ (keyFile' = mac /\ keyMode' = "strict")
      BY <2>2, KeyServesOn DEF KeyServes
    <2> QED
      BY <1>4, <2>1, <2>2, <2>3 DEF SettledInv, SettledBackupVerifies, KeyServes
  <1>5. ASSUME UNCHANGED <<files, sidecars, whole, settled>> PROVE SettledInv'
    BY <1>4, <1>5 DEF StaysSettled
  <1>6. ASSUME NEW t \in Tools, DumpStarts(t) \/ DumpEnds(t) PROVE SettledInv'
    <2>1. /\ Touch(t, Stem(job[t].path)) /\ UNCHANGED sidecars
          /\ files' = [files EXCEPT ![job[t].path] = stamp + 1]
      BY <1>6 DEF DumpStarts, DumpEnds, WriteFile, StemOf
    <2>2. whole \subseteq whole'
      BY <1>6 DEF DumpStarts, DumpEnds
    <2> QED
      BY <1>1, <1>2, <1>4, <2>1, <2>2, TouchUnsettles
  <1>7. ASSUME NEW t \in Tools, OpenSidecar(t) \/ WriteSidecar(t) PROVE SettledInv'
    <2>1. /\ Touch(t, Stem(job[t].path)) /\ UNCHANGED <<files, whole>>
          /\ \A s \in Stems : s # Stem(job[t].path) => sidecars'[s] = sidecars[s]
      BY <1>1, <1>7 DEF OpenSidecar, WriteSidecar, StemOf
    <2> QED
      BY <1>2, <1>4, <2>1, TouchUnsettles
  <1>8. ASSUME NEW p \in Paths,
               Corrupt(p) \/ \E e \in OthersEnvelopes(stamp + 1) : Import(p, e)
        PROVE  SettledInv'
    <2>1. /\ Touch(Nobody, Stem(p)) /\ whole \subseteq whole'
          /\ files' = [files EXCEPT ![p] = stamp + 1]
          /\ \A s \in Stems : s # Stem(p) => sidecars'[s] = sidecars[s]
      BY <1>1, <1>8 DEF Corrupt, Import, WriteFile
    <2> QED
      BY <1>1, <1>4, <2>1, TouchUnsettles
  <1>9. ASSUME NEW t \in Tools
        PROVE  /\ Hash(t) \/ SignBackup(t) \/ SealExport(t) \/ LoadsKey(t)
                  => UNCHANGED <<files, sidecars, whole, settled>>
               /\ ReadSidecar(t) \/ CheckHash(t) \/ Verify(t)
                  => UNCHANGED <<files, sidecars, whole, settled>>
               /\ PgRestoreCleans(t) \/ PgRestoreEnds(t) \/ DumpFails(t) \/ CannotSign(t)
                  => UNCHANGED <<files, sidecars, whole, settled>>
               /\ LogFails(t) \/ DryRunPasses(t) \/ PgRestoreRefuses(t)
                  \/ PgRestoreFails(t) \/ Dies(t)
                  => UNCHANGED <<files, sidecars, whole, settled>>
    <2> USE DEF EndsAlone, fileVars, history
    <2>1. Hash(t) \/ SignBackup(t) \/ SealExport(t) \/ LoadsKey(t)
          => UNCHANGED <<files, sidecars, whole, settled>>
      BY DEF Hash, SignBackup, SealExport, LoadsKey
    <2>2. ReadSidecar(t) \/ CheckHash(t) \/ Verify(t)
          => UNCHANGED <<files, sidecars, whole, settled>>
      BY DEF ReadSidecar, CheckHash, Verify
    <2>3. PgRestoreCleans(t) \/ PgRestoreEnds(t) \/ DumpFails(t) \/ CannotSign(t)
          => UNCHANGED <<files, sidecars, whole, settled>>
      BY DEF PgRestoreCleans, PgRestoreEnds, DumpFails, CannotSign
    <2>4. LogFails(t) \/ DryRunPasses(t) \/ PgRestoreRefuses(t) \/ PgRestoreFails(t) \/ Dies(t)
          => UNCHANGED <<files, sidecars, whole, settled>>
      BY DEF LogFails, DryRunPasses, PgRestoreRefuses, PgRestoreFails, Dies
    <2> QED
      BY <2>1, <2>2, <2>3, <2>4
  <1>10. ASSUME NEW t \in Tools, NEW op, NEW p, NEW first, NEW unsigned, NEW dry,
                Begin(t, op, p, first, unsigned, dry)
         PROVE  SettledInv'
    BY <1>5, <1>10 DEF Begin, fileVars
  <1>11. CASE UNCHANGED vars
    BY <1>5, <1>11 DEF vars, fileVars, history
  <1> QED
    BY <1>3, <1>5, <1>6, <1>7, <1>8, <1>9, <1>10, <1>11 DEF Next, BeginWrite, BeginRestore

-----------------------------------------------------------------------------
(***************************************************************************)
(* What was ever signed.  Only a tool with its key in hand adds to it, and *)
(* the key in hand is then the one on disk.                                *)
(***************************************************************************)
SignedInv == \A e \in signed : e.mac \in Keys /\ KeyServes(e.mac)

(* The envelopes that a step adds to `signed` carry the key of their tool. *)
SignedGrows ==
    \/ signed' = signed
    \/ \E t \in Tools : /\ HasKey(t) /\ UNCHANGED keyVars
                         /\ \A e \in signed' : e \in signed \/ e.mac = raw[t]

LEMMA StepsSign == [Next]_vars => SignedGrows
  <1> SUFFICES ASSUME [Next]_vars PROVE SignedGrows
    OBVIOUS
  <1> USE DEF SignedGrows, EndsAlone, history
  <1>1. ASSUME NEW t \in Tools, SignBackup(t) PROVE SignedGrows
    <2> DEFINE e == [kind |-> job[t].op, app |-> "own", hash |-> job[t].hash, mac |-> raw[t]]
    <2>1. HasKey(t) /\ UNCHANGED keyVars /\ signed' \subseteq signed \cup {e}
      BY <1>1 DEF SignBackup, Seal
    <2>2. e.mac = raw[t]
      OBVIOUS
    <2> QED
      BY <2>1, <2>2
  <1>2. ASSUME NEW t \in Tools
        PROVE  /\ DumpStarts(t) \/ DumpEnds(t) \/ Hash(t) \/ SealExport(t)
                  => signed' = signed
               /\ OpenSidecar(t) \/ WriteSidecar(t) \/ LogCompleted(t)
                  => signed' = signed
               /\ ReadSidecar(t) \/ CheckHash(t) \/ Verify(t) \/ LoadsKey(t)
                  => signed' = signed
               /\ PgRestoreCleans(t) \/ PgRestoreEnds(t) => signed' = signed
               /\ DumpFails(t) \/ CannotSign(t) \/ LogFails(t) \/ DryRunPasses(t)
                  => signed' = signed
               /\ PgRestoreRefuses(t) \/ PgRestoreFails(t) \/ Dies(t)
                  => signed' = signed
    <2>1. DumpStarts(t) \/ DumpEnds(t) \/ Hash(t) \/ SealExport(t) => signed' = signed
      BY DEF DumpStarts, DumpEnds, Hash, SealExport, Seal
    <2>2. OpenSidecar(t) \/ WriteSidecar(t) \/ LogCompleted(t) => signed' = signed
      BY DEF OpenSidecar, WriteSidecar, LogCompleted
    <2>3. ReadSidecar(t) \/ CheckHash(t) \/ Verify(t) \/ LoadsKey(t) => signed' = signed
      BY DEF ReadSidecar, CheckHash, Verify, LoadsKey
    <2>4. PgRestoreCleans(t) \/ PgRestoreEnds(t) => signed' = signed
      BY DEF PgRestoreCleans, PgRestoreEnds
    <2>5. DumpFails(t) \/ CannotSign(t) \/ LogFails(t) \/ DryRunPasses(t)
          => signed' = signed
      BY DEF DumpFails, CannotSign, LogFails, DryRunPasses
    <2>6. PgRestoreRefuses(t) \/ PgRestoreFails(t) \/ Dies(t) => signed' = signed
      BY DEF PgRestoreRefuses, PgRestoreFails, Dies
    <2> QED
      BY <2>1, <2>2, <2>3, <2>4, <2>5, <2>6
  <1>3. ASSUME NEW t, NEW op, NEW p, NEW first, NEW unsigned, NEW dry,
               Begin(t, op, p, first, unsigned, dry)
        PROVE  signed' = signed
    BY <1>3 DEF Begin
  <1>4. ASSUME NEW p \in Paths,
               Corrupt(p) \/ \E e \in OthersEnvelopes(stamp + 1) : Import(p, e)
        PROVE  signed' = signed
    BY <1>4 DEF Corrupt, Import
  <1>5. CASE UNCHANGED vars
    BY <1>5 DEF vars
  <1> QED
    BY <1>1, <1>2, <1>3, <1>4, <1>5 DEF Next, BeginWrite, BeginRestore, SignedGrows

LEMMA StepKeepsSigned == TypeInv /\ SignedInv /\ [Next]_vars => SignedInv'
  <1> SUFFICES ASSUME TypeInv, SignedInv, [Next]_vars, NEW e \in signed'
               PROVE  e.mac \in Keys /\ KeyServes(e.mac)'
    BY DEF SignedInv
  <1>1. CASE e \in signed
    <2>1. e.mac \in Keys /\ KeyServes(e.mac)
      BY <1>1 DEF SignedInv
    <2> QED
      BY <2>1, KeyServesOn
  <1>2. CASE e \notin signed
    <2>1. PICK t \in Tools : HasKey(t) /\ e.mac = raw[t] /\ UNCHANGED keyVars
      BY <1>2, StepsSign DEF SignedGrows
    <2>2. e.mac \in Keys /\ KeyServes(e.mac)
      BY <2>1 DEF TypeInv, KeyInv, KeyTypeOK, HasKey, KeyServes
    <2> QED
      BY <2>1, <2>2 DEF KeyServes, keyVars
  <1> QED
    BY <1>1, <1>2

-----------------------------------------------------------------------------
BackupsInv == TypeInv /\ OriginInv /\ MacInv /\ FileInv /\ SettledInv /\ SignedInv

(***************************************************************************)
(* The inductive invariant: the step of a tool, what it has in hand, what  *)
(* is at its path and stem unless somebody interfered, and where a mac of  *)
(* this installation comes from.                                           *)
(***************************************************************************)
THEOREM BackupsInvariant == Spec => []BackupsInv
  <1>1. BackupsInit => BackupsInv
    BY InitSatisfiesTypes, InitSatisfiesRest DEF BackupsInv, BackupsInit, SignedInv
  <1>2. BackupsInv /\ [Next]_vars => BackupsInv'
    BY StepKeepsTypes, StepKeepsOrigin, StepKeepsMac, StepKeepsFiles, StepKeepsSettled,
       StepKeepsSigned
    DEF BackupsInv
  <1> QED
    BY <1>1, <1>2, PTL DEF Spec

(* Type correctness of the tools, the files and the key. *)
THEOREM BackupsTypeCorrect == Spec => []BackupsTypeOK
  <1>1. BackupsInv => BackupsTypeOK
    BY DEF BackupsInv, TypeInv
  <1> QED
    BY <1>1, BackupsInvariant, PTL

(* pg_restore only runs on an envelope that this installation signed, or on *)
(* one without a mac when that was asked for.                               *)
THEOREM OnlyCheckedEnvelopesAreApplied == Spec => []OnlyCheckedEnvelopesPass
  <1>1. BackupsInv => OnlyCheckedEnvelopesPass
    BY DEF BackupsInv, OriginInv, OnlyCheckedEnvelopesPass, RestoreSteps
  <1> QED
    BY <1>1, BackupsInvariant, PTL

(* A restore that succeeded with nobody in its way has applied the archive  *)
(* its envelope vouches for, and all of it.                                 *)
THEOREM RestoresApplyWhatTheyChecked == Spec => []RestoreAppliesWhatItChecked
  <1>1. BackupsInv => RestoreAppliesWhatItChecked
    BY DEF BackupsInv, FileInv, Intact, RestoreAppliesWhatItChecked
  <1> QED
    BY <1>1, BackupsInvariant, PTL

(* A backup that reported success with nobody in its way can be restored    *)
(* for as long as nobody writes at its stem.                                *)
THEOREM SettledBackupsVerify == Spec => []SettledBackupVerifies
  <1>1. BackupsInv => SettledBackupVerifies
    BY DEF BackupsInv, SettledInv
  <1> QED
    BY <1>1, BackupsInvariant, PTL

(***************************************************************************)
(* Whatever was signed, by whichever tool and whatever became of its run,  *)
(* is verifiable with the key that later tools read, unless two tools were *)
(* creating the key at once.                                               *)
(***************************************************************************)
THEOREM SignedEnvelopesStayVerifiable == Spec => []SignedEnvelopesVerify
  <1>1. BackupsInv => SignedEnvelopesVerify
    BY DEF BackupsInv, SignedInv, KeyServes, SignedEnvelopesVerify
  <1> QED
    BY <1>1, BackupsInvariant, PTL
=============================================================================
