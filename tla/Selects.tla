------------------------------- MODULE Selects -------------------------------
(***************************************************************************)
(* What the readers of src/app share: bounded SELECTs, the decoding of a   *)
(* JSON column, and the answers their routes give.                         *)
(***************************************************************************)
EXTENDS ForeignTables

CONSTANTS MaxRows,          \* the 1000 of the readers' LIMIT
          Limits            \* limits that requests carry

ASSUME LimitsAssumption == MaxRows \in Nat \ {0} /\ Limits \subseteq Int

(* max(1, min(limit, most)) *)
Clamp(limit, most) ==
    IF limit < 1 THEN 1 ELSE IF limit > most THEN most ELSE limit

(* ORDER BY at DESC LIMIT n: which rows a SELECT may return, ties as they come. *)
Latest(rows, at, n) ==
    {chosen \in SUBSET rows :
        /\ IF Cardinality(rows) <= n THEN chosen = rows
                                     ELSE Cardinality(chosen) = n
        /\ \A r \in chosen, o \in rows \ chosen : at[r] >= at[o]}

(***************************************************************************)
(* _json_value of a value that is not NULL.  Decoding a quoted value gives *)
(* None or a str; decoding that once more gives the fallback, or the       *)
(* object that was encoded twice.                                          *)
(***************************************************************************)
JsonValue(v) ==
    CASE v = "quoted"   -> "unquoted"
      [] v = "unquoted" -> "object"
      [] OTHER          -> v

IsDict(v) == v = "object"

(* Answers: 200, 404, 503, 422, and 500 for an exception nobody expects. *)
Ok(body) == [kind |-> "ok", body |-> body]
NotFound == [kind |-> "notFound"]
Unavailable == [kind |-> "unavailable"]
Invalid == [kind |-> "invalid"]
InternalError == [kind |-> "error"]
=============================================================================
