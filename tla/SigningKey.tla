------------------------------ MODULE SigningKey ------------------------------
(***************************************************************************)
(* load_or_create_signing_key (src/core/backup/signing.py): the key file   *)
(* {data_dir}/signing.key, read or created by several tools at once.       *)
(* Nothing locks the file; a tool may die between any two of its steps.    *)
(***************************************************************************)
EXTENDS Naturals, FiniteSets

CONSTANTS Tools,        \* processes of db-backup, db-export, db-restore
          Keys,         \* what secrets.token_bytes(32) may return, each once
          NoFile,       \* no file at this path
          Empty,        \* a file that was opened for writing and is still empty
          NoKey         \* a tool that has no key; an envelope without a mac

ASSUME KeysAreNotMarks == {NoFile, Empty, NoKey} \cap Keys = {}
ASSUME MarksDiffer == NoFile # Empty

VARIABLES keyFile,      \* the contents of signing.key
          keyMode,      \* "strict" is 0600
          keyStep,      \* where each tool is in the function; "out" of it
          raw,          \* the key bytes each tool has
          made,         \* the keys generated so far
          contested     \* history: two tools found no file at the same time

keyVars == <<keyFile, keyMode, keyStep, raw, made, contested>>

Creating == {"absent", "opened", "written"}
KeySteps == Creating \cup {"out", "present", "checked", "refused"}

KeyTypeOK ==
    /\ keyFile \in Keys \cup {NoFile, Empty}
    /\ keyMode \in {"strict", "loose"}
    /\ keyStep \in [Tools -> KeySteps]
    /\ raw \in [Tools -> Keys \cup {NoKey}]
    /\ made \in SUBSET Keys
    /\ contested \in BOOLEAN

KeyInit ==
    /\ keyFile = NoFile
    /\ keyMode = "loose"
    /\ keyStep = [t \in Tools |-> "out"]
    /\ raw = [t \in Tools |-> NoKey]
    /\ made = {}
    /\ contested = FALSE

(* The manager has its key and keeps it for its lifetime. *)
HasKey(t) == keyStep[t] = "out" /\ raw[t] # NoKey
KeyGoTo(t, step) == keyStep' = [keyStep EXCEPT ![t] = step]

------------------------------------------------------------------------------

(* Mutant: a new key per process, whether there is one or not. *)
LookForKeyNever(t) ==
    /\ keyStep[t] = "out" /\ raw[t] = NoKey
    /\ KeyGoTo(t, "absent")
    /\ contested' = (contested \/ \E u \in Tools \ {t} : keyStep[u] = "absent")
    /\ UNCHANGED <<keyFile, keyMode, raw, made>>

(* key_path.exists() *)
LookForKey(t) ==
    /\ keyStep[t] = "out" /\ raw[t] = NoKey
    /\ KeyGoTo(t, IF keyFile = NoFile THEN "absent" ELSE "present")
    /\ contested' = (contested \/ /\ keyFile = NoFile
                                  /\ \E u \in Tools \ {t} : keyStep[u] = "absent")
    /\ UNCHANGED <<keyFile, keyMode, raw, made>>

(* The mode of the file must be 0600. *)
CheckMode(t) ==
    /\ keyStep[t] = "present"
    /\ KeyGoTo(t, IF keyMode = "strict" THEN "checked" ELSE "refused")
    /\ UNCHANGED <<keyFile, keyMode, raw, made, contested>>

(* Mutant: the length of the key is not looked at. *)
ReadKeyOfAnyLength(t) ==
    /\ keyStep[t] = "checked"
    /\ raw' = [raw EXCEPT ![t] = keyFile]
    /\ KeyGoTo(t, "out")
    /\ UNCHANGED <<keyFile, keyMode, made, contested>>

(* Its length must be 32 bytes: a file that is still empty is refused. *)
ReadKey(t) ==
    /\ keyStep[t] = "checked"
    /\ \/ /\ keyFile \in Keys
          /\ raw' = [raw EXCEPT ![t] = keyFile]
          /\ KeyGoTo(t, "out")
       \/ /\ keyFile \notin Keys
          /\ KeyGoTo(t, "refused")
          /\ UNCHANGED raw
    /\ UNCHANGED <<keyFile, keyMode, made, contested>>

(* The data directory does not exist. *)
CannotCreateKey(t) ==
    /\ keyStep[t] = "absent" /\ keyFile = NoFile
    /\ KeyGoTo(t, "refused")
    /\ UNCHANGED <<keyFile, keyMode, raw, made, contested>>

(***************************************************************************)
(* secrets.token_bytes(), and write_bytes() opens the file: it is empty,   *)
(* and if it is new its mode is what the umask leaves.                     *)
(***************************************************************************)
OpenKeyFile(t) ==
    /\ keyStep[t] = "absent"
    /\ \E k \in Keys \ made :
          /\ raw' = [raw EXCEPT ![t] = k]
          /\ made' = made \cup {k}
    /\ keyFile' = Empty
    /\ keyMode' \in IF keyFile = NoFile THEN {"strict", "loose"} ELSE {keyMode}
    /\ KeyGoTo(t, "opened")
    /\ UNCHANGED contested

WriteKey(t) ==
    /\ keyStep[t] = "opened"
    /\ keyFile' = raw[t]
    /\ KeyGoTo(t, "written")
    /\ UNCHANGED <<keyMode, raw, made, contested>>

(* chmod(0o600), and the function returns the bytes it generated. *)
ChmodKey(t) ==
    /\ keyStep[t] = "written"
    /\ keyMode' = "strict"
    /\ KeyGoTo(t, "out")
    /\ UNCHANGED <<keyFile, raw, made, contested>>

(* The process ends, here or later: what it had in memory is gone. *)
DropKey(t) ==
    /\ KeyGoTo(t, "out")
    /\ raw' = [raw EXCEPT ![t] = NoKey]
    /\ UNCHANGED <<keyFile, keyMode, made, contested>>

GetSigningKey(t) ==
    \/ LookForKey(t) \/ CheckMode(t) \/ ReadKey(t) \/ CannotCreateKey(t)
    \/ OpenKeyFile(t) \/ WriteKey(t) \/ ChmodKey(t)

KeyNext == \E t \in Tools : GetSigningKey(t) \/ DropKey(t)

KeySpec == KeyInit /\ [][KeyNext]_keyVars

------------------------------------------------------------------------------
(* Properties. *)

(***************************************************************************)
(* "a per-install key" (signing.py:7): the tools that have a key all have  *)
(* the one on disk, although they read it, create it and die in any order, *)
(* unless two of them found no file at the same time.                      *)
(***************************************************************************)
OneKeyUnlessContested ==
    contested \/ \A t \in Tools : HasKey(t) => raw[t] = keyFile

(***************************************************************************)
(* A key that was once complete on disk is there for good: no later call   *)
(* and no crash replaces it, and so what was signed with it stays          *)
(* verifiable, unless two tools found no file at the same time.            *)
(***************************************************************************)
KeyIsNeverReplaced ==
    [][(keyFile \in Keys /\ ~contested) => keyFile' = keyFile]_keyVars
==============================================================================
