---------------------------- MODULE Compatibility ----------------------------
(***************************************************************************)
(* src/core/lifecycle/compatibility.py: may an app register, or register   *)
(* again, with the foundation that is running.                             *)
(*                                                                         *)
(* A version text is the sequence of the integers before its pre-release   *)
(* suffix; a text with parts missing or not numbers has fewer than three.  *)
(***************************************************************************)
EXTENDS Integers, Sequences

CONSTANT None

(* _parse_version succeeds. *)
Parses(text) == Len(text) = 3

(* Comparison of Python tuples: the first difference decides. *)
Newer(v, w) ==
    \/ v[1] > w[1]
    \/ v[1] = w[1] /\ v[2] > w[2]
    \/ v[1] = w[1] /\ v[2] = w[2] /\ v[3] > w[3]

(* Mutant: the same major version is enough. *)
CheckRegistrationByMajor(incoming, running) ==
    IF /\ incoming.required # None
       /\ Parses(incoming.required) /\ Parses(running)
       /\ incoming.required[1] <= running[1]
    THEN "ok" ELSE "rejected"

CheckRegistration(incoming, running) ==
    IF /\ incoming.required # None
       /\ Parses(incoming.required) /\ Parses(running)
       /\ ~Newer(incoming.required, running)
    THEN "ok" ELSE "rejected"

ModeChanges(existing, incoming) ==
    existing.mode # None /\ incoming.mode # None /\ existing.mode # incoming.mode

(* Mutant: a required version is compared with the running one only. *)
CheckReregistrationByRunning(existing, incoming, running, force) ==
    IF CheckRegistration(incoming, running) # "ok" THEN "rejected"
    ELSE IF ~Parses(existing.required) THEN "rejected"
    ELSE IF ModeChanges(existing, incoming) THEN "raised"
    ELSE "ok"

(***************************************************************************)
(* "Mode changes are allowed but logged" (compatibility.py:149), and the   *)
(* tests expect that.  But logger.warning with keywords raises TypeError   *)
(* on a standard-library logger: the check does not return.  (So would     *)
(* logger.debug in the check before it; debug logging is taken as off.)    *)
(***************************************************************************)
CheckReregistration(existing, incoming, running, force) ==
    IF CheckRegistration(incoming, running) # "ok" THEN "rejected"
    ELSE IF ~Parses(existing.required) THEN "rejected"
    ELSE IF Newer(incoming.required, existing.required) /\ ~force THEN "rejected"
    ELSE IF ModeChanges(existing, incoming) THEN "raised"
    ELSE "ok"
=============================================================================
