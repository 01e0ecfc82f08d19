---------------------------- MODULE MigrationGate ----------------------------
(***************************************************************************)
(* What `async with migration_lock(pool): ...` promises its callers        *)
(* (src/core/lifecycle/migration_lock.py, docstrings at lines 3-11, 37-40  *)
(* and 57-80): a gate that one caller at a time owns.                      *)
(*                                                                         *)
(* A caller asks, and is then granted the gate, or refused because another *)
(* caller owns it (MigrationLockTimeout), or fails (any other exception).  *)
(* The owner leaves the guarded region and finishes.  Ownership can also   *)
(* disappear under the owner: it belongs to a database session.            *)
(*                                                                         *)
(* MigrationLock implements this module; Lifecycle is built on it.         *)
(***************************************************************************)

CONSTANTS Callers,      \* the coroutines that enter the context manager
          None          \* "no caller"

ASSUME NoneIsNoCaller == None \notin Callers

VARIABLES owner,        \* the caller whose session holds the advisory lock
          phase         \* where each caller is

gateVars == <<owner, phase>>

Phases == {"out", "waiting", "inside", "leaving", "refused", "failed"}

GateTypeOK ==
    /\ owner \in Callers \cup {None}
    /\ phase \in [Callers -> Phases]

GateInit ==
    /\ owner = None
    /\ phase = [c \in Callers |-> "out"]

MoveTo(c, p) == phase' = [phase EXCEPT ![c] = p]

(* A caller evaluates the `async with`. *)
Ask(c) ==
    /\ phase[c] = "out"
    /\ MoveTo(c, "waiting")
    /\ UNCHANGED owner

(* The guarded region begins. *)
Enter(c) ==
    /\ phase[c] = "waiting"
    /\ owner = None
    /\ owner' = c
    /\ MoveTo(c, "inside")

(* The wait ends without the gate, and only because another caller owns it. *)
Refuse(c) ==
    /\ phase[c] = "waiting"
    /\ owner \notin {None, c}
    /\ MoveTo(c, "refused")
    /\ UNCHANGED owner

(* No connection, or the lock query raises, perhaps after it was granted. *)
Fail(c) ==
    /\ phase[c] = "waiting"
    /\ MoveTo(c, "failed")
    /\ UNCHANGED owner \/ (owner = None /\ owner' = c)

(* The guarded region ends, by return or by exception. *)
Leave(c) ==
    /\ phase[c] = "inside"
    /\ MoveTo(c, "leaving")
    /\ UNCHANGED owner

(* The lock goes back: on unlock, or when its session ends. *)
Release(c) ==
    /\ owner = c
    /\ owner' = None
    /\ UNCHANGED phase

(* The context manager has been left: nothing of the gate is kept. *)
Finish(c) ==
    /\ phase[c] \in {"leaving", "refused", "failed"}
    /\ MoveTo(c, "out")
    /\ owner' = IF owner = c THEN None ELSE owner

(* The process that runs the callers in S dies. *)
Abandon(S) ==
    /\ phase' = [c \in Callers |-> IF c \in S THEN "out" ELSE phase[c]]
    /\ owner' = IF owner \in S THEN None ELSE owner

GateNext ==
    \/ \E c \in Callers :
          Ask(c) \/ Enter(c) \/ Refuse(c) \/ Fail(c) \/ Leave(c)
             \/ Release(c) \/ Finish(c)
    \/ \E S \in SUBSET Callers : Abandon(S)

GateSpec == GateInit /\ [][GateNext]_gateVars
==============================================================================
