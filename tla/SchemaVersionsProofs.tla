------------------------ MODULE SchemaVersionsProofs ------------------------
(***************************************************************************)
(* Re-applied migrations converge, for any number of runners, targets and  *)
(* files whose plans are complete and insert a row before they update it.  *)
(***************************************************************************)
EXTENDS SchemaVersions, TLAPS

LEMMA PlanFile ==
  ASSUME NEW r \in Runners, NEW i \in 1..Len(Plan[r])
  PROVE  /\ Plan[r][i] \in Migration
         /\ Plan[r][i].target \in Targets
         /\ Plan[r][i].version \in Versions
         /\ Len(Plan[r]) \in Nat
  <1>1. Plan[r] \in Seq(Migration)
    BY PlanAssumption
  <1>2. Plan[r][i] \in Migration /\ Len(Plan[r]) \in Nat
    BY <1>1
  <1> QED
    BY <1>2 DEF Migration

LEMMA PlanLength ==
  ASSUME NEW r \in Runners
  PROVE  Len(Plan[r]) \in Nat /\ Len(Plan[r]) >= 1
  <1>1. Plan[r] \in Seq(Migration) /\ Plan[r] # <<>>
    BY PlanAssumption
  <1> QED
    BY <1>1

(***************************************************************************)
(* What a commit does to the version table: one row, never to NoRow.       *)
(***************************************************************************)
LEMMA RecordedFacts ==
  ASSUME NEW m \in Migration, version \in [Targets -> Versions \cup {NoRow}]
  PROVE  /\ Recorded(m) \in [Targets -> Versions \cup {NoRow}]
         /\ \A t \in Targets \ {m.target} : Recorded(m)[t] = version[t]
         /\ \/ Recorded(m)[m.target] = m.version
            \/ ~m.upsert /\ version[m.target] = NoRow /\ Recorded(m)[m.target] = NoRow
         /\ m.target \in Targets /\ m.version \in Versions
  BY DEF Recorded, Migration

LEMMA InitSchemaInv == SchemaInit => SchemaInv
  <1> SUFFICES ASSUME SchemaInit PROVE SchemaInv
    OBVIOUS
  <1>1. SchemaTypeOK
    <2>1. \A r \in Runners : runner[r] = "idle"
      BY DEF SchemaInit
    <2>2. next \in [Runners -> Nat \ {0}]
      BY DEF SchemaInit
    <2>3. version \in [Targets -> Versions \cup {NoRow}] /\ tables \in BOOLEAN
      BY DEF SchemaInit
    <2>4. runner \in [Runners -> {"idle", "running", "stopped", "done"}]
      BY DEF SchemaInit
    <2> QED
      BY <2>1, <2>2, <2>3, <2>4 DEF SchemaTypeOK
  <1>2. DoneIsPastTheEnd /\ AppliedTargetHasRow
    BY DEF SchemaInit, DoneIsPastTheEnd, AppliedTargetHasRow
  <1>3. OldVersionIsPending
    BY DEF SchemaInit, OldVersionIsPending
  <1> QED
    BY <1>1, <1>2, <1>3 DEF SchemaInv

LEMMA CommitKeepsSchemaInv ==
  ASSUME SchemaInv, NEW r \in Runners, Commit(r)
  PROVE  SchemaInv'
  <1> DEFINE i == next[r]
             m == Plan[r][i]
  <1>1. /\ i \in 1..Len(Plan[r]) /\ Len(Plan[r]) \in Nat
        /\ m \in Migration /\ m.target \in Targets /\ m.version \in Versions
    BY PlanFile, PlanLength DEF Commit, SchemaInv, SchemaTypeOK
  <1>2. version \in [Targets -> Versions \cup {NoRow}]
    BY DEF SchemaInv, SchemaTypeOK
  <1>3. /\ version' \in [Targets -> Versions \cup {NoRow}]
        /\ \A t \in Targets \ {m.target} : version'[t] = version[t]
        /\ \/ version'[m.target] = m.version
           \/ ~m.upsert /\ version[m.target] = NoRow /\ version'[m.target] = NoRow
    BY <1>1, <1>2, RecordedFacts DEF Commit, NextFile
  <1>4. /\ next' = [next EXCEPT ![r] = i + 1]
        /\ runner' = [runner EXCEPT ![r] = IF i = Len(Plan[r]) THEN "done" ELSE "running"]
        /\ runner[r] = "running"
    BY DEF Commit
  <1>5. SchemaTypeOK'
    BY <1>1, <1>3, <1>4 DEF Commit, SchemaInv, SchemaTypeOK
  <1>6. DoneIsPastTheEnd'
    BY <1>1, <1>4 DEF SchemaInv, SchemaTypeOK, DoneIsPastTheEnd
  <1>7. version'[m.target] = m.version
    <2> SUFFICES ASSUME ~m.upsert, version[m.target] = NoRow PROVE FALSE
      BY <1>3
    <2>1. PICK j \in 1..i : Plan[r][j].target = m.target /\ Plan[r][j].upsert
      BY <1>1, PlanInsertsFirst
    <2>2. j < i /\ j \in 1..Len(Plan[r])
      BY <1>1, <2>1
    <2> QED
      BY <1>4, <2>1, <2>2 DEF SchemaInv, AppliedTargetHasRow
  <1>8. \A t \in Targets : version[t] # NoRow => version'[t] # NoRow
    BY <1>1, <1>3, <1>7, NoRowAssumption
  <1>9. AppliedTargetHasRow'
    <2> SUFFICES ASSUME NEW q \in Runners, NEW k \in 1..Len(Plan[q]),
                        runner'[q] # "idle", k < next'[q]
                 PROVE  version'[Plan[q][k].target] # NoRow
      BY DEF AppliedTargetHasRow
    <2>1. CASE q = r /\ k = i
      BY <2>1, <1>1, <1>7, NoRowAssumption
    <2>2. CASE ~(q = r /\ k = i)
      <3>1. runner[q] # "idle" /\ k < next[q]
        BY <1>1, <1>4, <2>2 DEF SchemaInv, SchemaTypeOK
      <3>2. version[Plan[q][k].target] # NoRow
        BY <3>1 DEF SchemaInv, AppliedTargetHasRow
      <3> QED
        BY <3>2, <1>8, PlanFile
    <2> QED
      BY <2>1, <2>2
  <1>10. OldVersionIsPending'
    <2> SUFFICES ASSUME NEW t \in Targets, version'[t] \notin {NoRow, Final[t]}
                 PROVE  \E q \in Runners :
                           /\ MidPlan(q)'
                           /\ \E k \in next'[q]..Len(Plan[q]) :
                                 /\ Plan[q][k].target = t
                                 /\ Plan[q][k].version = Final[t]
      BY DEF OldVersionIsPending
    <2>1. CASE t = m.target
      <3>1. m.version # Final[t]
        BY <1>7, <2>1
      <3>2. PICK k \in i..Len(Plan[r]) : /\ Plan[r][k].target = t
                                         /\ Plan[r][k].version = Final[t]
        BY <1>1, <2>1, PlanIsComplete
      <3>3. k # i
        BY <3>1, <3>2
      <3>4. k \in next'[r]..Len(Plan[r]) /\ i # Len(Plan[r])
        BY <1>1, <1>4, <3>2, <3>3 DEF SchemaInv, SchemaTypeOK
      <3>5. MidPlan(r)'
        BY <1>4, <3>4 DEF MidPlan, SchemaInv, SchemaTypeOK
      <3> QED
        BY <3>2, <3>4, <3>5
    <2>2. CASE t # m.target
      <3>1. version[t] \notin {NoRow, Final[t]}
        BY <1>3, <2>2
      <3>2. PICK q \in Runners :
               /\ MidPlan(q)
               /\ \E k \in next[q]..Len(Plan[q]) :
                     Plan[q][k].target = t /\ Plan[q][k].version = Final[t]
        BY <3>1 DEF SchemaInv, OldVersionIsPending
      <3>3. PICK k \in next[q]..Len(Plan[q]) :
               Plan[q][k].target = t /\ Plan[q][k].version = Final[t]
        BY <3>2
      <3>4. CASE q = r
        <4>1. k # i
          BY <2>2, <3>3, <3>4
        <4>2. k \in next'[r]..Len(Plan[r]) /\ i # Len(Plan[r])
          BY <1>1, <1>4, <3>3, <3>4, <4>1 DEF SchemaInv, SchemaTypeOK
        <4>3. MidPlan(r)'
          BY <1>4, <4>2 DEF MidPlan, SchemaInv, SchemaTypeOK
        <4> QED
          BY <3>3, <3>4, <4>2, <4>3
      <3>5. CASE q # r
        <4>1. next'[q] = next[q] /\ MidPlan(q)'
          BY <1>4, <3>2, <3>5 DEF MidPlan, SchemaInv, SchemaTypeOK
        <4> QED
          BY <3>3, <4>1
      <3> QED
        BY <3>4, <3>5
    <2> QED
      BY <2>1, <2>2
  <1> QED
    BY <1>5, <1>6, <1>9, <1>10 DEF SchemaInv

(* A boot, an abort: versions stay, and the rest of a plan is only longer. *)
LEMMA BootKeepsSchemaInv ==
  ASSUME SchemaInv, NEW r \in Runners, Boot(r)
  PROVE  SchemaInv'
  <1>1. /\ version' = version /\ tables' = tables
        /\ next' = [next EXCEPT ![r] = 1]
        /\ runner' = [runner EXCEPT ![r] = "running"]
    BY DEF Boot
  <1>2. SchemaTypeOK' /\ DoneIsPastTheEnd'
    BY <1>1, PlanLength DEF SchemaInv, SchemaTypeOK, DoneIsPastTheEnd
  <1>3. AppliedTargetHasRow'
    BY <1>1, PlanLength DEF SchemaInv, SchemaTypeOK, AppliedTargetHasRow
  <1>4. OldVersionIsPending'
    <2>1. \A q \in Runners : MidPlan(q) => MidPlan(q)' /\ next'[q] <= next[q]
      BY <1>1 DEF MidPlan, SchemaInv, SchemaTypeOK
    <2>2. \A q \in Runners : next[q] \in Nat /\ next'[q] \in Nat /\ Len(Plan[q]) \in Nat
      BY <1>2, PlanLength DEF SchemaInv, SchemaTypeOK
    <2> QED
      BY <1>1, <2>1, <2>2 DEF SchemaInv, OldVersionIsPending
  <1> QED
    BY <1>2, <1>3, <1>4 DEF SchemaInv

LEMMA AbortKeepsSchemaInv ==
  ASSUME SchemaInv, NEW r \in Runners, Abort(r)
  PROVE  SchemaInv'
  <1>1. /\ version' = version /\ tables' = tables /\ next' = next
        /\ runner[r] = "running"
        /\ runner' = [runner EXCEPT ![r] = "stopped"]
    BY DEF Abort
  <1>2. SchemaTypeOK' /\ DoneIsPastTheEnd' /\ AppliedTargetHasRow'
    BY <1>1 DEF SchemaInv, SchemaTypeOK, DoneIsPastTheEnd, AppliedTargetHasRow
  <1>3. \A q \in Runners : MidPlan(q) => MidPlan(q)'
    BY <1>1 DEF MidPlan, SchemaInv, SchemaTypeOK
  <1>4. OldVersionIsPending'
    BY <1>1, <1>3 DEF SchemaInv, OldVersionIsPending
  <1> QED
    BY <1>2, <1>4 DEF SchemaInv

LEMMA StepSchemaInv == SchemaInv /\ [SchemaNext]_schemaVars => SchemaInv'
  <1> SUFFICES ASSUME SchemaInv, [SchemaNext]_schemaVars PROVE SchemaInv'
    OBVIOUS
  <1>1. CASE SchemaNext
    BY <1>1, BootKeepsSchemaInv, CommitKeepsSchemaInv, AbortKeepsSchemaInv DEF SchemaNext
  <1>2. CASE UNCHANGED schemaVars
    BY <1>2 DEF schemaVars, SchemaInv, SchemaTypeOK, DoneIsPastTheEnd,
                AppliedTargetHasRow, OldVersionIsPending, MidPlan
  <1> QED
    BY <1>1, <1>2

THEOREM SchemaInvariant == SchemaSpec => []SchemaInv
  BY InitSchemaInv, StepSchemaInv, PTL DEF SchemaSpec

(* Type correctness of the versions and of the runners' places in their plans. *)
THEOREM SchemaTypeCorrect == SchemaSpec => []SchemaTypeOK
  <1>1. SchemaInv => SchemaTypeOK
    BY DEF SchemaInv
  <1> QED
    BY <1>1, SchemaInvariant, PTL

(* A bare UPDATE of a later file never misses its row. *)
THEOREM AppliedTargetsHaveRows == SchemaSpec => []AppliedTargetHasRow
  <1>1. SchemaInv => AppliedTargetHasRow
    BY DEF SchemaInv
  <1> QED
    BY <1>1, SchemaInvariant, PTL

(* A row at an old version is the trace of an unfinished runner. *)
THEOREM OldVersionsArePending == SchemaSpec => []OldVersionIsPending
  <1>1. SchemaInv => OldVersionIsPending
    BY DEF SchemaInv
  <1> QED
    BY <1>1, SchemaInvariant, PTL

(***************************************************************************)
(* When the runners of a target have finished, its row records the last    *)
(* version: it is not NoRow, because a finished runner applied a file of   *)
(* the target, and not an old one, because no runner is midway.            *)
(***************************************************************************)
THEOREM MigrationsConverge == SchemaSpec => []Converged
  <1>1. SchemaInv => Converged
    <2> SUFFICES ASSUME SchemaInv, NEW t \in Targets, Settled(t)
                 PROVE  version[t] = Final[t]
      BY DEF Converged
    <2>1. version[t] # NoRow
      <3>1. PICK r \in Runners : Touches(r, t) /\ runner[r] = "done"
        BY DEF Settled
      <3>2. PICK i \in 1..Len(Plan[r]) : Plan[r][i].target = t
        BY <3>1 DEF Touches
      <3>3. i < next[r]
        BY <3>1, <3>2, PlanLength DEF SchemaInv, SchemaTypeOK, DoneIsPastTheEnd
      <3> QED
        BY <3>1, <3>2, <3>3 DEF SchemaInv, AppliedTargetHasRow
    <2>2. version[t] \in {NoRow, Final[t]}
      <3> SUFFICES ASSUME version[t] \notin {NoRow, Final[t]} PROVE FALSE
        OBVIOUS
      <3>1. PICK r \in Runners :
               /\ MidPlan(r)
               /\ \E i \in next[r]..Len(Plan[r]) : Plan[r][i].target = t
        BY DEF SchemaInv, OldVersionIsPending
      <3>2. Touches(r, t)
        BY <3>1, PlanLength DEF Touches, SchemaInv, SchemaTypeOK
      <3> QED
        BY <3>1, <3>2 DEF Settled
    <2> QED
      BY <2>1, <2>2
  <1> QED
    BY <1>1, SchemaInvariant, PTL
==============================================================================
