---------------------------- MODULE NilCanonProofs ----------------------------
(***************************************************************************)
(* The canon of AuthorForge against its log, for any transactions, nodes,  *)
(* callers and statuses, and any number of appends and rebuilds.           *)
(***************************************************************************)
EXTENDS NilCanon, WellFoundedInduction, TLAPS

Steps == {"idle", "deleting", "deleted", "inserted"}
Cache == [Blocks -> Cached \cup {Null}]
Calls == [step: Steps, old: Cache, new: Cache, id: Nat]

(* A call that has deleted rows and not committed holds their locks. *)
HoldsRows(s) == rebuild[s].step \in {"deleted", "inserted"}

(* Each call has a number, and no row is deleted by two calls.              *)
NilTypeInv ==
    /\ log \in [Txs -> Row \cup {Null}]
    /\ now \in 0..MaxTime
    /\ canon \in Cache
    /\ calls \in 0..MaxRebuilds
    /\ rebuild \in [Sessions -> Calls]
    /\ \A s \in Sessions :
          /\ rebuild[s].id <= calls
          /\ Underway(s) => 1 <= rebuild[s].id
    /\ \A s, o \in Sessions : s # o /\ HoldsRows(s) /\ HoldsRows(o) =>
          \A b \in Blocks :
             rebuild[s].old[b] = Null \/ rebuild[o].old[b] # rebuild[s].old[b]
    /\ contested \in BOOLEAN /\ current \in BOOLEAN

(* A row of the canon, and a row that a call is about to put there. *)
IsAccepted(rows, b, row) ==
    /\ row.source \in Txs /\ rows[row.source] # Null
    /\ rows[row.source].status = "accepted" /\ rows[row.source].block = b

AcceptedInv ==
    /\ \A b \in Blocks : canon[b] # Null => IsAccepted(log, b, canon[b])
    /\ \A s \in Sessions, b \in Blocks :
          rebuild[s].new[b] # Null => IsAccepted(log, b, rebuild[s].new[b])

(* What the replay of the log gives a node. *)
IsReplay(b, row) ==
    IF row = Null THEN Live(b) = {} ELSE row.source \in Chosen(b)

(***************************************************************************)
(* A call that overlaps no other is alone; the rows it deletes are the     *)
(* canon, all of it; and once it has inserted, what it leaves is the       *)
(* replay of the log, until something is appended.                         *)
(***************************************************************************)
ReplayInv ==
    ~contested =>
       /\ \A s, o \in Sessions : Underway(s) /\ Underway(o) => s = o
       /\ \A s \in Sessions : Underway(s) => rebuild[s].old = canon
       /\ current => \A s \in Sessions : Underway(s) =>
             /\ rebuild[s].step = "inserted"
             /\ \A b \in Blocks : IsReplay(b, rebuild[s].new[b])
       /\ current /\ (\A s \in Sessions : ~Underway(s)) =>
             \A b \in Blocks : IsReplay(b, canon[b])

-----------------------------------------------------------------------------
(* Two arithmetic facts: a set of numbers has a least, a bounded one a      *)
(* greatest member.                                                         *)
LEMMA LeastOf ==
    ASSUME NEW S, S \subseteq Nat, S # {}
    PROVE  \E least \in S : \A n \in S : least <= n
  <1> DEFINE R == OpToRel(<, Nat)
  <1>1. IsWellFoundedOn(R, Nat)
    BY NatLessThanWellFounded
  <1> HIDE DEF R
  <1>2. PICK least \in S : \A n \in S : ~ (<<n, least>> \in R)
    BY <1>1, WFMin
  <1>3. ASSUME NEW n \in S PROVE least <= n
    <2>1. n \in Nat /\ least \in Nat
      OBVIOUS
    <2>2. n < least => <<n, least>> \in R
      BY <2>1 DEF R, OpToRel
    <2> QED
      BY <1>2, <2>1, <2>2
  <1> QED
    BY <1>3

LEMMA GreatestOf ==
    ASSUME NEW bound \in Nat, NEW S, S \subseteq 0..bound, S # {}
    PROVE  \E greatest \in S : \A n \in S : n <= greatest
  <1> DEFINE D == {bound - n : n \in S}
  <1>1. D \subseteq Nat /\ D # {}
    <2>1. PICK n \in S : TRUE
      OBVIOUS
    <2>2. bound - n \in D
      BY <2>1
    <2>3. ASSUME NEW d \in D PROVE d \in Nat
      <3>1. PICK k \in S : d = bound - k
        OBVIOUS
      <3>2. k \in 0..bound
        OBVIOUS
      <3> QED
        BY <3>1, <3>2
    <2> QED
      BY <2>2, <2>3
  <1>2. PICK least \in D : \A d \in D : least <= d
    BY <1>1, LeastOf
  <1>3. PICK greatest \in S : least = bound - greatest
    OBVIOUS
  <1>4. ASSUME NEW n \in S PROVE n <= greatest
    <2>1. least <= bound - n
      BY <1>2
    <2> QED
      BY <1>3, <2>1
  <1> QED
    BY <1>4

(* A node with a live row has one that is chosen for it. *)
LEMMA LiveHasAChosen ==
    ASSUME NEW b, NilTypeInv, Live(b) # {}
    PROVE  Chosen(b) # {}
  <1> DEFINE Times == {log[x].created_at : x \in Live(b)}
  <1>1. \A x \in Live(b) : x \in Txs /\ log[x] \in Row
    BY DEF NilTypeInv, Live, InLog
  <1>2. Times \subseteq 0..MaxTime /\ Times # {}
    BY <1>1 DEF Row
  <1>3. PICK latest \in Times : \A n \in Times : n <= latest
    BY <1>2, GreatestOf, NilAssumption
  <1>4. PICK x \in Live(b) : latest = log[x].created_at
    OBVIOUS
  <1>5. x \in Chosen(b)
    BY <1>3, <1>4 DEF Chosen
  <1> QED
    BY <1>5

(* What a call inserts: rows of its own, from the log, and for each node    *)
(* what the replay gives it.                                                *)
LEMMA NewRowsAreTheReplay ==
    ASSUME NEW s \in Sessions, NEW pick \in Picks, NilTypeInv, Underway(s),
           NEW b \in Blocks
    PROVE  /\ NewRows(s, pick)[b] \in Cached \cup {Null}
           /\ NewRows(s, pick)[b] # Null => IsAccepted(log, b, NewRows(s, pick)[b])
           /\ IsReplay(b, NewRows(s, pick)[b])
  <1>1. CASE Chosen(b) = {}
    <2>1. NewRows(s, pick)[b] = Null
      BY <1>1 DEF NewRows
    <2>2. Live(b) = {}
      BY <1>1, LiveHasAChosen
    <2> QED
      BY <2>1, <2>2 DEF IsReplay
  <1>2. CASE Chosen(b) # {}
    <2> DEFINE row == [source |-> pick[b], by |-> rebuild[s].id]
    <2>1. NewRows(s, pick)[b] = row
      BY <1>2 DEF NewRows
    <2>2. pick[b] \in Chosen(b)
      BY <1>2 DEF Picks
    <2>3. pick[b] \in Live(b) /\ pick[b] \in Txs
      BY <2>2 DEF Chosen, Live
    <2>4. rebuild[s].id \in 1..MaxRebuilds
      BY NilAssumption DEF NilTypeInv, Calls
    <2>5. row \in Cached
      BY <2>3, <2>4 DEF Cached
    <2>6. row # Null
      BY <2>5, NilAssumption
    <2> QED
      BY <2>1, <2>2, <2>3, <2>5, <2>6 DEF IsAccepted, IsReplay, Live, InLog
  <1> QED
    BY <1>1, <1>2

-----------------------------------------------------------------------------
(* A transaction writes rows that are new to the log. *)
LEMMA BatchesAreNew ==
    ASSUME now \in 0..MaxTime, NEW began \in 0..now, NEW batch \in Batches(began)
    PROVE  \A x \in DOMAIN batch : x \in Txs /\ log[x] = Null /\ batch[x] \in Row
  <1> DEFINE Rows(X) == [block: Blocks, status: NilStatuses, created_at: {began},
                         supersedes: X \cup {x \in Txs : log[x] # Null} \cup {Null}]
  <1>1. PICK X \in SUBSET Free : batch \in [X -> Rows(X)]
    BY DEF Batches
  <1>2. X \subseteq Txs /\ \A x \in X : log[x] = Null
    BY DEF Free
  <1>3. began \in 0..MaxTime
    BY NilAssumption
  <1>4. Rows(X) \subseteq Row
    BY <1>2, <1>3 DEF Row
  <1> HIDE DEF Rows
  <1> QED
    BY <1>1, <1>2, <1>4

LEMMA NoCallIsACall == NoCall \in Calls /\ NoCall.step = "idle" /\ NoCall.id = 0
  BY DEF NoCall, NoRows, Calls, Steps, Cache

(* The types, and that rows which are deleted are deleted by one call. *)
LEMMA InitSatisfiesTypes == NilInit => NilTypeInv
  <1> SUFFICES ASSUME NilInit PROVE NilTypeInv
    OBVIOUS
  <1>1. NoCall \in Calls
    BY NoCallIsACall
  <1>2. \A s \in Sessions : rebuild[s] = NoCall
    BY DEF NilInit
  <1>3. \A s \in Sessions : /\ rebuild[s].id <= calls
                             /\ ~Underway(s) /\ ~HoldsRows(s)
    BY <1>2 DEF NilInit, NoCall, Underway, HoldsRows
  <1>4. canon \in Cache /\ rebuild \in [Sessions -> Calls]
    BY <1>1 DEF NilInit, NoRows, Cache
  <1>5. contested \in BOOLEAN /\ current \in BOOLEAN
    BY DEF NilInit
  <1> QED
    BY <1>3, <1>4, <1>5, NilAssumption DEF NilInit, NilTypeInv

LEMMA StepKeepsTypes == NilTypeInv /\ [NilNext]_nilVars => NilTypeInv'
  <1> SUFFICES ASSUME NilTypeInv, [NilNext]_nilVars PROVE NilTypeInv'
    OBVIOUS
  <1> USE NilAssumption
  <1>1. ASSUME NEW began \in 0..now, NEW batch \in Batches(began), CommitAppend(batch)
        PROVE  NilTypeInv'
    <2>1. /\ log' = [x \in Txs |-> IF x \in DOMAIN batch THEN batch[x] ELSE log[x]]
          /\ UNCHANGED <<now, canon, rebuild, calls, contested>> /\ current' = FALSE
      BY <1>1 DEF CommitAppend
    <2>2. \A x \in DOMAIN batch : batch[x] \in Row
      BY BatchesAreNew DEF NilTypeInv
    <2>3. log' \in [Txs -> Row \cup {Null}]
      BY <2>1, <2>2 DEF NilTypeInv
    <2>4. contested' \in BOOLEAN /\ current' \in BOOLEAN
      BY <2>1 DEF NilTypeInv
    <2> QED
      BY <2>1, <2>3, <2>4 DEF NilTypeInv, Underway, HoldsRows
  <1>2. CASE Elapse
    BY <1>2 DEF Elapse, NilTypeInv, Underway, HoldsRows
  <1>3. ASSUME NEW s \in Sessions, Call(s) PROVE NilTypeInv'
    <2> DEFINE call == [step |-> "deleting", old |-> canon, new |-> NoRows,
                        id |-> calls + 1]
    <2>1. call \in Calls
      BY DEF NilTypeInv, Calls, Steps, NoRows, Cache
    <2>2. /\ rebuild' = [rebuild EXCEPT ![s] = call]
          /\ calls' = calls + 1 /\ calls < MaxRebuilds
      BY <1>3 DEF Call
    <2>3. rebuild' \in [Sessions -> Calls]
      BY <2>1, <2>2 DEF NilTypeInv
    <2>4. \A o \in Sessions : rebuild'[o] = IF o = s THEN call ELSE rebuild[o]
      BY <2>2 DEF NilTypeInv
    <2>5. calls' \in 0..MaxRebuilds
      BY <2>2 DEF NilTypeInv
    <2>6. \A o \in Sessions :
             rebuild'[o].id <= calls' /\ (Underway(o)' => 1 <= rebuild'[o].id)
      BY <2>2, <2>4 DEF NilTypeInv, Underway, Calls
    <2>7. \A o \in Sessions : HoldsRows(o)' => o # s /\ HoldsRows(o)
      BY <2>4 DEF HoldsRows
    <2>8. contested' \in BOOLEAN /\ current' \in BOOLEAN
      BY <1>3 DEF Call
    <2> QED
      BY <1>3, <2>3, <2>4, <2>5, <2>6, <2>7, <2>8 DEF Call, NilTypeInv
  <1>4. ASSUME NEW s \in Sessions, Delete(s) PROVE NilTypeInv'
    <2> DEFINE old == [b \in Blocks |-> IF canon[b] = rebuild[s].old[b]
                                        THEN rebuild[s].old[b] ELSE Null]
               call == [rebuild[s] EXCEPT !.step = "deleted", !.old = old]
    <2>1. old \in Cache
      BY DEF NilTypeInv, Calls, Cache
    <2> HIDE DEF old
    <2>2. /\ call \in Calls /\ call.step = "deleted"
          /\ call.old = old /\ call.id = rebuild[s].id
      <3>1. rebuild[s] \in Calls
        BY DEF NilTypeInv
      <3> QED
        BY <2>1, <3>1 DEF Calls, Steps
    <2> HIDE DEF call
    <2>3. rebuild' = [rebuild EXCEPT ![s] = call]
      BY <1>4 DEF Delete, call, old, NilTypeInv
    <2>4. \A o \in Sessions : rebuild'[o] = IF o = s THEN call ELSE rebuild[o]
      BY <2>3 DEF NilTypeInv
    <2>5. rebuild' \in [Sessions -> Calls]
      BY <2>2, <2>3 DEF NilTypeInv
    <2>6. rebuild[s].step = "deleting"
      BY <1>4 DEF Delete
    <2>7. \A o \in Sessions :
             rebuild'[o].id <= calls /\ (Underway(o)' => 1 <= rebuild'[o].id)
      BY <2>2, <2>4, <2>6 DEF NilTypeInv, Underway
    <2>8. ASSUME NEW o \in Sessions, o # s, HoldsRows(o), NEW b \in Blocks
          PROVE  old[b] = Null \/ rebuild[o].old[b] # old[b]
      <3>1. rebuild[s].old[b] = Null \/ rebuild[o].old[b] # rebuild[s].old[b]
        BY <1>4, <2>8 DEF Delete, WaitsToDelete, Others, HoldsRows
      <3> QED
        BY <3>1 DEF old
    <2>9. ASSUME NEW r \in Sessions, NEW o \in Sessions, r # o,
                 HoldsRows(r)', HoldsRows(o)', NEW b \in Blocks
          PROVE  rebuild'[r].old[b] = Null \/ rebuild'[o].old[b] # rebuild'[r].old[b]
      <3>1. CASE r = s
        BY <3>1, <2>2, <2>4, <2>8, <2>9 DEF HoldsRows
      <3>2. CASE o = s
        BY <3>2, <2>2, <2>4, <2>8, <2>9 DEF HoldsRows
      <3>3. CASE r # s /\ o # s
        BY <3>3, <2>4, <2>9 DEF HoldsRows, NilTypeInv
      <3> QED
        BY <3>1, <3>2, <3>3
    <2> QED
      BY <1>4, <2>5, <2>7, <2>9 DEF Delete, NilTypeInv
  <1>5. ASSUME NEW s \in Sessions, Insert(s) PROVE NilTypeInv'
    <2>1. PICK pick \in Picks :
             IF Duplicate(s, NewRows(s, pick))
             THEN rebuild' = [rebuild EXCEPT ![s] = NoCall] /\ current' = current
             ELSE /\ rebuild' = [rebuild EXCEPT ![s].step = "inserted",
                                                ![s].new = NewRows(s, pick)]
                  /\ current' = TRUE
      BY <1>5 DEF Insert
    <2> DEFINE call == [rebuild[s] EXCEPT !.step = "inserted", !.new = NewRows(s, pick)]
    <2>2. Underway(s) /\ rebuild[s].step = "deleted"
      BY <1>5 DEF Insert, Underway
    <2>3. NewRows(s, pick) \in Cache
      BY <2>2, NewRowsAreTheReplay DEF Cache, NewRows
    <2>4. /\ call \in Calls /\ call.step = "inserted"
          /\ call.old = rebuild[s].old /\ call.id = rebuild[s].id
      <3>1. rebuild[s] \in Calls
        BY DEF NilTypeInv
      <3> QED
        BY <2>3, <3>1 DEF Calls, Steps
    <2> HIDE DEF call
    <2>5. PICK then \in {NoCall, call} : rebuild' = [rebuild EXCEPT ![s] = then]
      BY <2>1 DEF call
    <2>6. \A o \in Sessions : rebuild'[o] = IF o = s THEN then ELSE rebuild[o]
      BY <2>5 DEF NilTypeInv
    <2>7. rebuild' \in [Sessions -> Calls]
      BY <2>4, <2>5, NoCallIsACall DEF NilTypeInv
    <2>8. \A o \in Sessions :
             rebuild'[o].id <= calls /\ (Underway(o)' => 1 <= rebuild'[o].id)
      BY <2>2, <2>4, <2>6, NoCallIsACall DEF NilTypeInv, Underway
    <2>9. \A o \in Sessions :
             HoldsRows(o)' => HoldsRows(o) /\ rebuild'[o].old = rebuild[o].old
      BY <2>2, <2>4, <2>6, NoCallIsACall DEF HoldsRows
    <2>10. current' \in BOOLEAN
      BY <2>1 DEF NilTypeInv
    <2> QED
      BY <1>5, <2>7, <2>8, <2>9, <2>10 DEF Insert, NilTypeInv
  <1>6. ASSUME NEW s \in Sessions, Commit(s) \/ RollBack(s) PROVE NilTypeInv'
    <2>1. rebuild' = [rebuild EXCEPT ![s] = NoCall]
      BY <1>6 DEF Commit, RollBack
    <2>2. \A o \in Sessions : rebuild'[o] = IF o = s THEN NoCall ELSE rebuild[o]
      BY <2>1 DEF NilTypeInv
    <2>3. rebuild' \in [Sessions -> Calls]
      BY <2>1, NoCallIsACall DEF NilTypeInv
    <2>4. \A o \in Sessions :
             rebuild'[o].id <= calls /\ (Underway(o)' => 1 <= rebuild'[o].id)
      BY <2>2, NoCallIsACall DEF NilTypeInv, Underway
    <2>5. \A o \in Sessions :
             HoldsRows(o)' => HoldsRows(o) /\ rebuild'[o].old = rebuild[o].old
      BY <2>2, NoCallIsACall DEF HoldsRows
    <2>6. canon' \in Cache
      BY <1>6 DEF Commit, RollBack, NilTypeInv, Calls, Cache
    <2>7. current' \in BOOLEAN
      BY <1>6 DEF Commit, RollBack, NilTypeInv
    <2> QED
      BY <1>6, <2>3, <2>4, <2>5, <2>6, <2>7 DEF Commit, RollBack, NilTypeInv
  <1>7. CASE UNCHANGED nilVars
    BY <1>7 DEF nilVars, NilTypeInv, Underway, HoldsRows
  <1> QED
    BY <1>1, <1>2, <1>3, <1>4, <1>5, <1>6, <1>7 DEF NilNext

(***************************************************************************)
(* What a step does to the log and to the rows of a call.                  *)
(***************************************************************************)
LEMMA LogOnlyGrows ==
    ASSUME NilTypeInv, [NilNext]_nilVars
    PROVE  \A x \in Txs : InLog(x) => log'[x] = log[x]
  <1>1. ASSUME NEW began \in 0..now, NEW batch \in Batches(began), CommitAppend(batch)
        PROVE  \A y \in Txs : InLog(y) => log'[y] = log[y]
    BY <1>1, BatchesAreNew DEF CommitAppend, NilTypeInv, InLog
  <1>2. (\A began \in 0..now : \A batch \in Batches(began) : ~CommitAppend(batch))
           => UNCHANGED log
    BY DEF NilNext, nilVars, Elapse, Call, Delete, Insert, Commit, RollBack
  <1> QED
    BY <1>1, <1>2

LEMMA AcceptedRowsStay ==
    ASSUME NilTypeInv, [NilNext]_nilVars
    PROVE  \A b, row : IsAccepted(log, b, row) => IsAccepted(log', b, row)
  BY LogOnlyGrows DEF IsAccepted, InLog

(* The rows of the canon are those it had or those of a call that commits. *)
LEMMA CanonOfAStep ==
    ASSUME NilTypeInv, [NilNext]_nilVars, NEW b \in Blocks
    PROVE  \/ canon'[b] = canon[b] \/ canon'[b] = Null
           \/ \E s \in Sessions : canon'[b] = rebuild[s].new[b]
  <1>1. ASSUME NEW s \in Sessions, Commit(s)
        PROVE  canon'[b] \in {canon[b], Null, rebuild[s].new[b]}
    BY <1>1 DEF Commit
  <1>2. (\A s \in Sessions : ~Commit(s)) => UNCHANGED canon
    BY DEF NilNext, nilVars, CommitAppend, Elapse, Call, Delete, Insert, RollBack
  <1> QED
    BY <1>1, <1>2

(* A call has the rows it had, none, or, by its INSERT, those of a pick. *)
LEMMA RowsOfAStep ==
    ASSUME NilTypeInv, [NilNext]_nilVars, NEW s \in Sessions
    PROVE  \/ rebuild'[s].new = rebuild[s].new
           \/ rebuild'[s].new = NoRows
           \/ Underway(s) /\ \E pick \in Picks : rebuild'[s].new = NewRows(s, pick)
  <1>1. ASSUME NEW o \in Sessions, Call(o)
        PROVE  rebuild'[s].new \in {rebuild[s].new, NoRows}
    BY <1>1 DEF Call, NilTypeInv
  <1>2. ASSUME NEW o \in Sessions, Delete(o) PROVE rebuild'[s].new = rebuild[s].new
    BY <1>2 DEF Delete, NilTypeInv, Calls
  <1>3. ASSUME NEW o \in Sessions, Commit(o) \/ RollBack(o)
        PROVE  rebuild'[s].new \in {rebuild[s].new, NoRows}
    BY <1>3 DEF Commit, RollBack, NilTypeInv, NoCall
  <1>4. ASSUME NEW o \in Sessions, Insert(o)
        PROVE  \/ rebuild'[s].new \in {rebuild[s].new, NoRows}
               \/ Underway(s) /\ \E pick \in Picks : rebuild'[s].new = NewRows(s, pick)
    <2>1. PICK pick \in Picks :
             \/ rebuild' = [rebuild EXCEPT ![o] = NoCall]
             \/ rebuild' = [rebuild EXCEPT ![o].step = "inserted",
                                           ![o].new = NewRows(o, pick)]
      BY <1>4 DEF Insert
    <2>2. s # o => rebuild'[s] = rebuild[s]
      BY <2>1 DEF NilTypeInv
    <2>3. s = o => rebuild'[s].new \in {NoRows, NewRows(s, pick)}
      BY <2>1 DEF NilTypeInv, Calls, NoCall
    <2>4. Underway(o)
      BY <1>4 DEF Insert, Underway
    <2> QED
      BY <2>2, <2>3, <2>4
  <1>5. \/ \E o \in Sessions : Call(o) \/ Delete(o) \/ Insert(o) \/ Commit(o) \/ RollBack(o)
        \/ UNCHANGED rebuild
    BY DEF NilNext, nilVars, CommitAppend, Elapse
  <1> QED
    BY <1>1, <1>2, <1>3, <1>4, <1>5

LEMMA StepKeepsAccepted ==
    NilTypeInv /\ AcceptedInv /\ [NilNext]_nilVars => AcceptedInv'
  <1> SUFFICES ASSUME NilTypeInv, AcceptedInv, [NilNext]_nilVars PROVE AcceptedInv'
    OBVIOUS
  <1>1. ASSUME NEW b \in Blocks, canon'[b] # Null PROVE IsAccepted(log', b, canon'[b])
    <2>1. IsAccepted(log, b, canon'[b])
      BY <1>1, CanonOfAStep DEF AcceptedInv
    <2> QED
      BY <2>1, AcceptedRowsStay
  <1>2. ASSUME NEW s \in Sessions, NEW b \in Blocks, rebuild'[s].new[b] # Null
        PROVE  IsAccepted(log', b, rebuild'[s].new[b])
    <2>1. rebuild'[s].new # NoRows
      BY <1>2 DEF NoRows
    <2>2. CASE rebuild'[s].new = rebuild[s].new
      BY <1>2, <2>2, AcceptedRowsStay DEF AcceptedInv
    <2>3. ASSUME Underway(s), NEW pick \in Picks, rebuild'[s].new = NewRows(s, pick)
          PROVE  IsAccepted(log, b, rebuild'[s].new[b])
      BY <1>2, <2>3, NewRowsAreTheReplay
    <2> QED
      BY <2>1, <2>2, <2>3, RowsOfAStep, AcceptedRowsStay
  <1> QED
    BY <1>1, <1>2 DEF AcceptedInv

(***************************************************************************)
(* The replay.                                                             *)
(***************************************************************************)
LEMMA ReplayIsOfTheLog ==
    ASSUME UNCHANGED log
    PROVE  \A b : Live(b)' = Live(b) /\ Chosen(b)' = Chosen(b)
  BY DEF Live, Chosen, InLog, Superseders

LEMMA StepKeepsReplay ==
    NilTypeInv /\ ReplayInv /\ [NilNext]_nilVars => ReplayInv'
  <1> SUFFICES ASSUME NilTypeInv, ReplayInv, [NilNext]_nilVars, ~contested'
               PROVE  ReplayInv'
    BY DEF ReplayInv
  <1>1. CASE UNCHANGED <<log, canon, rebuild, contested, current>>
    BY <1>1, ReplayIsOfTheLog DEF ReplayInv, Underway, IsReplay
  <1>2. ASSUME NEW began \in 0..now, NEW batch \in Batches(began), CommitAppend(batch)
        PROVE  ReplayInv'
    BY <1>2 DEF CommitAppend, ReplayInv, Underway
  <1>3. ASSUME NEW s \in Sessions, Call(s) PROVE ReplayInv'
    <2>1. \A o \in Sessions : o # s => ~Underway(o)
      BY <1>3 DEF Call, Others
    <2>2. rebuild'[s].old = canon
      BY <1>3 DEF Call, NilTypeInv
    <2>3. \A o \in Sessions : Underway(o)' => o = s
      BY <1>3, <2>1 DEF Call, Underway, NilTypeInv
    <2> QED
      BY <1>3, <2>2, <2>3 DEF Call, ReplayInv
  <1>4. ASSUME NEW s \in Sessions, Delete(s) PROVE ReplayInv'
    <2>1. Underway(s) /\ rebuild[s].step = "deleting" /\ ~contested
      BY <1>4 DEF Delete, Underway
    <2>2. ~current /\ rebuild[s].old = canon
      BY <2>1 DEF ReplayInv
    <2>3. \A o \in Sessions : Underway(o)' => o = s
      BY <1>4, <2>1 DEF Delete, Underway, NilTypeInv, ReplayInv
    <2>4. rebuild'[s].old = [b \in Blocks |-> IF canon[b] = rebuild[s].old[b]
                                              THEN rebuild[s].old[b] ELSE Null]
      BY <1>4 DEF Delete, NilTypeInv, Calls
    <2>5. rebuild'[s].old = canon
      BY <2>2, <2>4 DEF NilTypeInv, Cache
    <2> QED
      BY <1>4, <2>2, <2>3, <2>5 DEF Delete, ReplayInv
  <1>5. ASSUME NEW s \in Sessions, Insert(s) PROVE ReplayInv'
    <2>1. Underway(s) /\ rebuild[s].step = "deleted" /\ ~contested
      BY <1>5 DEF Insert, Underway
    <2>2. rebuild[s].old = canon
      BY <2>1 DEF ReplayInv
    <2>3. PICK pick \in Picks :
             IF Duplicate(s, NewRows(s, pick))
             THEN rebuild' = [rebuild EXCEPT ![s] = NoCall] /\ current' = current
             ELSE /\ rebuild' = [rebuild EXCEPT ![s].step = "inserted",
                                                ![s].new = NewRows(s, pick)]
                  /\ current' = TRUE
      BY <1>5 DEF Insert
    <2>4. ~Duplicate(s, NewRows(s, pick))
      BY <2>2 DEF Duplicate
    <2>5. /\ rebuild'[s].step = "inserted" /\ rebuild'[s].new = NewRows(s, pick)
          /\ rebuild'[s].old = rebuild[s].old
      BY <2>3, <2>4 DEF NilTypeInv, Calls
    <2>6. \A o \in Sessions : Underway(o)' => o = s
      BY <2>1, <2>3, <2>4 DEF Underway, NilTypeInv, ReplayInv
    <2>7. UNCHANGED <<log, canon, contested>>
      BY <1>5 DEF Insert
    <2>8. \A b \in Blocks : IsReplay(b, NewRows(s, pick)[b])
      BY <2>1, NewRowsAreTheReplay
    <2>9. \A b \in Blocks : IsReplay(b, rebuild[s].new[b])'
      BY <2>5, <2>7, <2>8, ReplayIsOfTheLog DEF IsReplay
    <2>10. Underway(s)'
      BY <2>5 DEF Underway
    <2> QED
      BY <2>2, <2>5, <2>6, <2>7, <2>9, <2>10 DEF ReplayInv
  <1>6. ASSUME NEW s \in Sessions, Commit(s) PROVE ReplayInv'
    <2>1. /\ Underway(s) /\ rebuild[s].step = "inserted"
          /\ UNCHANGED <<log, contested, current>>
      BY <1>6 DEF Commit, Underway
    <2>2. \A o \in Sessions : ~Underway(o)'
      BY <1>6, <2>1 DEF Commit, Underway, NilTypeInv, ReplayInv, NoCall
    <2>3. ASSUME current, NEW b \in Blocks PROVE IsReplay(b, canon[b])'
      <3>1. IsReplay(b, rebuild[s].new[b]) /\ rebuild[s].old = canon
        BY <2>1, <2>3 DEF ReplayInv
      <3>2. canon'[b] = rebuild[s].new[b]
        BY <1>6, <3>1 DEF Commit
      <3> QED
        BY <2>1, <3>1, <3>2, ReplayIsOfTheLog DEF IsReplay
    <2> QED
      BY <2>1, <2>2, <2>3 DEF ReplayInv
  <1>7. ASSUME NEW s \in Sessions, RollBack(s) PROVE ReplayInv'
    <2>1. \A o \in Sessions : Underway(o)' => o # s /\ rebuild'[o] = rebuild[o]
      BY <1>7 DEF RollBack, Underway, NilTypeInv, NoCall
    <2> QED
      BY <1>7, <2>1 DEF RollBack, ReplayInv, Underway
  <1> QED
    BY <1>1, <1>2, <1>3, <1>4, <1>5, <1>6, <1>7
    DEF NilNext, nilVars, Elapse

-----------------------------------------------------------------------------
(* The inductive invariant. *)
NilInv == NilTypeInv /\ AcceptedInv /\ ReplayInv

(* In every behaviour of the log and its rebuilds the types, the origin of  *)
(* the rows and what a lone call leaves are as NilInv says.                 *)
THEOREM NilInvariant == NilSpec => []NilInv
  <1>1. NilInit => NilInv
    <2> SUFFICES ASSUME NilInit PROVE AcceptedInv /\ ReplayInv
      BY InitSatisfiesTypes DEF NilInv
    <2>1. \A s \in Sessions : ~Underway(s) /\ rebuild[s].new = NoRows
      BY DEF NilInit, NoCall, Underway
    <2> QED
      BY <2>1 DEF NilInit, NoRows, AcceptedInv, ReplayInv
  <1>2. NilInv /\ [NilNext]_nilVars => NilInv'
    BY StepKeepsTypes, StepKeepsAccepted, StepKeepsReplay DEF NilInv
  <1> QED
    BY <1>1, <1>2, PTL DEF NilSpec

(* The cache and the calls of nil_rebuild_canon_current() are well typed,   *)
(* and no row is deleted by two calls.                                      *)
THEOREM NilTypeCorrect == NilSpec => []NilTypeOK
  <1>1. NilInv => NilTypeOK
    BY NilAssumption DEF NilInv, NilTypeInv, NilTypeOK, Calls, Cache, Steps, HoldsRows
  <1> QED
    BY <1>1, NilInvariant, PTL

(* A node of the canon comes from an accepted row of its own, however the   *)
(* rebuilds overlap.                                                        *)
THEOREM CanonComesFromAcceptedRows == NilSpec => []CanonIsAccepted
  <1>1. NilInv => CanonIsAccepted
    BY DEF NilInv, AcceptedInv, IsAccepted, CanonIsAccepted, InLog
  <1> QED
    BY <1>1, NilInvariant, PTL

(* A rebuild that overlaps no other leaves the replay of the log. *)
THEOREM CanonIsTheReplay == NilSpec => []CanonIsReplay
  <1>1. NilInv => CanonIsReplay
    BY DEF NilInv, ReplayInv, IsReplay, CanonIsReplay, Settled, Chosen
  <1> QED
    BY <1>1, NilInvariant, PTL
-----------------------------------------------------------------------------
(***************************************************************************)
(* A call under way has a number that no other has, and that no row of the *)
(* canon or of a snapshot bears: what it will commit is in neither.        *)
(***************************************************************************)
NumberedInv ==
    /\ \A b \in Blocks : canon[b] # Null => canon[b].by <= calls
    /\ \A s \in Sessions, b \in Blocks :
          /\ rebuild[s].old[b] # Null => rebuild[s].old[b].by <= calls
          /\ rebuild[s].new[b] # Null => rebuild[s].new[b].by = rebuild[s].id
    /\ \A o \in Sessions : Underway(o) =>
          /\ \A s \in Sessions : s # o /\ Underway(s) => rebuild[s].id # rebuild[o].id
          /\ \A b \in Blocks : canon[b] # Null => canon[b].by # rebuild[o].id
          /\ \A s \in Sessions, b \in Blocks :
                rebuild[s].old[b] # Null => rebuild[s].old[b].by # rebuild[o].id

LEMMA StepKeepsNumbers == NilTypeInv /\ NumberedInv /\ [NilNext]_nilVars => NumberedInv'
  <1> SUFFICES ASSUME NilTypeInv, NumberedInv, [NilNext]_nilVars PROVE NumberedInv'
    OBVIOUS
  <1>1. CASE UNCHANGED <<canon, rebuild, calls>>
    BY <1>1 DEF NumberedInv, Underway
  <1>2. ASSUME NEW s \in Sessions, Call(s) PROVE NumberedInv'
    <2> DEFINE call == [step |-> "deleting", old |-> canon, new |-> NoRows,
                        id |-> calls + 1]
    <2>1. /\ \A o \in Sessions : rebuild'[o] = IF o = s THEN call ELSE rebuild[o]
          /\ calls' = calls + 1 /\ canon' = canon /\ calls \in Nat
      BY <1>2, NilAssumption DEF Call, NilTypeInv
    <2>2. \A o \in Sessions : rebuild[o].id <= calls /\ rebuild[o].id \in Nat
      BY DEF NilTypeInv, Calls
    <2>3. \A b \in Blocks : /\ canon[b] \in Cached \cup {Null} /\ NoRows[b] = Null
                            /\ \A o \in Sessions : rebuild[o].old[b] \in Cached \cup {Null}
      BY DEF NilTypeInv, Calls, Cache, NoRows
    <2>4. \A row \in Cached : row.by \in Nat
      BY DEF Cached
    <2>5. \A b \in Blocks : /\ canon'[b] # Null => canon'[b].by <= calls
                            /\ \A o \in Sessions : rebuild'[o].old[b] # Null =>
                                  rebuild'[o].old[b].by <= calls
      BY <2>1 DEF NumberedInv
    <2>6. \A o \in Sessions, b \in Blocks :
             rebuild'[o].new[b] # Null => rebuild'[o].new[b].by = rebuild'[o].id
      BY <2>1, <2>3 DEF NumberedInv
    <2>7. ASSUME NEW o \in Sessions, Underway(o)'
          PROVE  /\ \A r \in Sessions : r # o /\ Underway(r)' => rebuild'[r].id # rebuild'[o].id
                 /\ \A b \in Blocks : canon'[b] # Null => canon'[b].by # rebuild'[o].id
                 /\ \A r \in Sessions, b \in Blocks :
                       rebuild'[r].old[b] # Null => rebuild'[r].old[b].by # rebuild'[o].id
      <3>1. CASE o = s
        <4>1. \A r \in Sessions : r # o => rebuild'[r].id <= calls
          BY <2>1, <2>2, <3>1
        <4>2. rebuild'[o].id = calls + 1
          BY <2>1, <3>1
        <4>3. /\ \A r \in Sessions : r # o => rebuild'[r].id \in Nat
              /\ \A b \in Blocks : /\ canon'[b] # Null => canon'[b].by \in Nat
                     /\ \A r \in Sessions : rebuild'[r].old[b] # Null =>
                            rebuild'[r].old[b].by \in Nat
          BY <2>1, <2>2, <2>3, <2>4
        <4> QED
          BY <2>1, <2>5, <4>1, <4>2, <4>3
      <3>2. CASE o # s
        <4>1. Underway(o) /\ rebuild'[o] = rebuild[o]
          BY <2>1, <2>7, <3>2 DEF Underway
        <4>2. ASSUME NEW r \in Sessions, r # o, Underway(r)'
              PROVE  rebuild'[r].id # rebuild'[o].id
          <5>1. CASE r = s
            BY <2>1, <2>2, <4>1, <5>1
          <5>2. CASE r # s
            BY <2>1, <4>1, <4>2, <5>2 DEF NumberedInv, Underway
          <5> QED
            BY <5>1, <5>2
        <4> QED
          BY <2>1, <4>1, <4>2 DEF NumberedInv
      <3> QED
        BY <3>1, <3>2
    <2>8. /\ \A b \in Blocks : canon'[b] # Null => canon'[b].by <= calls'
          /\ \A o \in Sessions, b \in Blocks :
                rebuild'[o].old[b] # Null => rebuild'[o].old[b].by <= calls'
      BY <2>1, <2>3, <2>4, <2>5
    <2> QED
      BY <2>6, <2>7, <2>8 DEF NumberedInv
  <1>3. ASSUME NEW s \in Sessions, Delete(s) \/ Insert(s), UNCHANGED <<canon, calls>>,
               \A o \in Sessions :
                  /\ Underway(o)' => Underway(o) /\ rebuild'[o].id = rebuild[o].id
                  /\ \A b \in Blocks :
                        /\ rebuild'[o].old[b] \in {rebuild[o].old[b], Null}
                        /\ rebuild'[o].new[b] # Null => rebuild'[o].new[b].by = rebuild'[o].id
        PROVE  NumberedInv'
    BY <1>3 DEF NumberedInv
  <1>4. ASSUME NEW s \in Sessions, Delete(s) PROVE NumberedInv'
    <2>1. \A o \in Sessions : o # s => rebuild'[o] = rebuild[o]
      BY <1>4 DEF Delete, NilTypeInv
    <2>2. /\ rebuild'[s].id = rebuild[s].id /\ rebuild'[s].new = rebuild[s].new
          /\ Underway(s)
          /\ \A b \in Blocks : rebuild'[s].old[b] \in {rebuild[s].old[b], Null}
      BY <1>4 DEF Delete, NilTypeInv, Calls, Underway
    <2>3. UNCHANGED <<canon, calls>>
      BY <1>4 DEF Delete
    <2> QED
      BY <1>3, <1>4, <2>1, <2>2, <2>3 DEF NumberedInv, Underway
  <1>5. ASSUME NEW s \in Sessions, Insert(s) PROVE NumberedInv'
    <2>1. PICK pick \in Picks :
             \/ rebuild' = [rebuild EXCEPT ![s] = NoCall]
             \/ rebuild' = [rebuild EXCEPT ![s].step = "inserted", ![s].new = NewRows(s, pick)]
      BY <1>5 DEF Insert
    <2>2. \A o \in Sessions : o # s => rebuild'[o] = rebuild[o]
      BY <2>1 DEF NilTypeInv
    <2>3. Underway(s) /\ UNCHANGED <<canon, calls>>
      BY <1>5 DEF Insert, Underway
    <2>4. \A b \in Blocks : NewRows(s, pick)[b] # Null => NewRows(s, pick)[b].by = rebuild[s].id
      BY DEF NewRows
    <2>5. /\ Underway(s)' => rebuild'[s].id = rebuild[s].id
          /\ \A b \in Blocks :
                /\ rebuild'[s].old[b] \in {rebuild[s].old[b], Null}
                /\ rebuild'[s].new[b] # Null => rebuild'[s].new[b].by = rebuild'[s].id
      <3>1. CASE rebuild' = [rebuild EXCEPT ![s] = NoCall]
        BY <3>1 DEF NilTypeInv, NoCall, NoRows, Underway
      <3>2. CASE rebuild' = [rebuild EXCEPT ![s].step = "inserted", ![s].new = NewRows(s, pick)]
        <4>1. /\ rebuild'[s].id = rebuild[s].id /\ rebuild'[s].old = rebuild[s].old
              /\ rebuild'[s].new = NewRows(s, pick)
          BY <3>2 DEF NilTypeInv, Calls
        <4> QED
          BY <2>4, <4>1
      <3> QED
        BY <2>1, <3>1, <3>2
    <2> QED
      BY <1>3, <1>5, <2>2, <2>3, <2>5 DEF NumberedInv, Underway
  <1>6. ASSUME NEW s \in Sessions, Commit(s) \/ RollBack(s) PROVE NumberedInv'
    <2>1. /\ \A o \in Sessions : rebuild'[o] = IF o = s THEN NoCall ELSE rebuild[o]
          /\ Underway(s) /\ calls' = calls
      BY <1>6 DEF Commit, RollBack, NilTypeInv, Underway
    <2>2. \A b \in Blocks : canon'[b] \in {canon[b], Null, rebuild[s].new[b]}
      BY <1>6 DEF Commit, RollBack
    <2>3. rebuild[s].id <= calls
      BY DEF NilTypeInv
    <2>4. NoCall.step = "idle" /\ \A b \in Blocks : NoCall.old[b] = Null /\ NoCall.new[b] = Null
      BY DEF NoCall, NoRows
    <2>5. \A b \in Blocks : canon'[b] # Null => canon'[b].by <= calls
      BY <2>2, <2>3 DEF NumberedInv
    <2>6. \A o \in Sessions : Underway(o)' => /\ o # s /\ Underway(o)
                                               /\ rebuild[s].id # rebuild[o].id
      BY <2>1, <2>4 DEF NumberedInv, Underway
    <2>7. \A o \in Sessions, b \in Blocks : Underway(o)' /\ canon'[b] # Null =>
             canon'[b].by # rebuild'[o].id
      BY <2>1, <2>2, <2>6 DEF NumberedInv
    <2> QED
      BY <2>1, <2>4, <2>5, <2>6, <2>7 DEF NumberedInv
  <1> QED
    BY <1>1, <1>2, <1>4, <1>5, <1>6
    DEF NilNext, nilVars, CommitAppend, Elapse

(***************************************************************************)
(* A call that will take a node out of the canon, and give it no row, knew *)
(* of none; and while it holds the row that it has deleted, no other call  *)
(* inserts one.                                                            *)
(***************************************************************************)
Removes(s, b) ==
    /\ rebuild[s].step = "inserted" /\ rebuild[s].new[b] = Null
    /\ canon[b] # Null /\ rebuild[s].old[b] = canon[b]

CauseInv ==
    current => \A s \in Sessions, b \in Blocks : Removes(s, b) => Live(b) = {}

LEMMA StepKeepsCause ==
    NilTypeInv /\ NumberedInv /\ CauseInv /\ [NilNext]_nilVars => CauseInv'
  <1> SUFFICES ASSUME NilTypeInv, NumberedInv, CauseInv, [NilNext]_nilVars, current',
                      NEW s \in Sessions, NEW b \in Blocks, Removes(s, b)'
               PROVE  Live(b)' = {}
    BY DEF CauseInv
  <1>1. UNCHANGED log => Live(b)' = Live(b)
    BY ReplayIsOfTheLog
  <1>2. CASE UNCHANGED <<log, canon, rebuild, current>>
    BY <1>1, <1>2 DEF CauseInv, Removes
  <1>3. (\E began \in 0..now : \E batch \in Batches(began) : CommitAppend(batch)) => ~current'
    BY DEF CommitAppend
  <1>4. (\E o \in Sessions : Call(o) \/ RollBack(o)) => ~current'
    BY DEF Call, RollBack
  <1>5. ASSUME NEW o \in Sessions, Delete(o) PROVE Live(b)' = {}
    <2>1. rebuild \in [Sessions -> Calls]
      BY DEF NilTypeInv
    <2>2. rebuild'[o].step = "deleted" /\ (s # o => rebuild'[s] = rebuild[s])
      BY <1>5, <2>1 DEF Delete, Calls
    <2>3. s # o /\ UNCHANGED <<log, canon, current>>
      BY <1>5, <2>2 DEF Delete, Removes
    <2> QED
      BY <1>1, <2>2, <2>3 DEF CauseInv, Removes
  <1>6. ASSUME NEW o \in Sessions, Insert(o) PROVE Live(b)' = {}
    <2>1. PICK pick \in Picks :
             /\ ~WaitsToInsert(o, NewRows(o, pick))
             /\ \/ rebuild' = [rebuild EXCEPT ![o] = NoCall] /\ current' = current
                \/ rebuild' = [rebuild EXCEPT ![o].step = "inserted", ![o].new = NewRows(o, pick)]
      BY <1>6 DEF Insert
    <2>2. UNCHANGED <<log, canon>> /\ Underway(o)
      BY <1>6 DEF Insert, Underway
    <2>3. NewRows(o, pick)[b] = Null => Live(b) = {}
      BY <2>2, NewRowsAreTheReplay DEF IsReplay
    <2>4. CASE rebuild' = [rebuild EXCEPT ![o] = NoCall] /\ current' = current
      <3>1. s # o /\ rebuild'[s] = rebuild[s]
        BY <2>4 DEF NilTypeInv, Removes, NoCall
      <3> QED
        BY <1>1, <2>2, <2>4, <3>1 DEF CauseInv, Removes
    <2>5. CASE rebuild' = [rebuild EXCEPT ![o].step = "inserted", ![o].new = NewRows(o, pick)]
      <3>1. CASE s = o
        BY <1>1, <2>2, <2>3, <2>5, <3>1 DEF Removes, NilTypeInv, Calls
      <3>2. CASE s # o
        <4>1. rebuild'[s] = rebuild[s]
          BY <2>5, <3>2 DEF NilTypeInv
        <4>2. /\ rebuild[s].step = "inserted"
              /\ rebuild[s].old[b] # Null /\ rebuild[s].old[b] = canon[b]
          BY <2>2, <4>1 DEF Removes
        <4>3. NewRows(o, pick)[b] = Null
          BY <2>1, <3>2, <4>2 DEF WaitsToInsert, Others
        <4> QED
          BY <1>1, <2>2, <2>3, <4>3
      <3> QED
        BY <3>1, <3>2
    <2> QED
      BY <2>1, <2>4, <2>5
  <1>7. ASSUME NEW o \in Sessions, Commit(o) PROVE Live(b)' = {}
    <2>1. /\ UNCHANGED <<log, current>> /\ Underway(o)
          /\ canon'[b] = IF rebuild[o].new[b] # Null THEN rebuild[o].new[b]
                         ELSE IF canon[b] = rebuild[o].old[b] THEN Null ELSE canon[b]
      BY <1>7 DEF Commit, Underway
    <2>2. s # o /\ rebuild'[s] = rebuild[s]
      BY <1>7 DEF Commit, NilTypeInv, Removes, NoCall
    <2>3. /\ rebuild[s].step = "inserted" /\ rebuild[s].new[b] = Null
          /\ canon'[b] # Null /\ rebuild[s].old[b] = canon'[b]
      BY <2>2 DEF Removes
    <2>4. canon'[b] # rebuild[o].new[b]
      BY <2>1, <2>3 DEF NumberedInv
    <2>5. canon'[b] = canon[b]
      BY <2>1, <2>3, <2>4
    <2> QED
      BY <1>1, <2>1, <2>3, <2>5 DEF CauseInv, Removes
  <1> QED
    BY <1>2, <1>3, <1>4, <1>5, <1>6, <1>7 DEF NilNext, nilVars, Elapse

LEMMA CauseInvariant == NilSpec => [](NumberedInv /\ CauseInv)
  <1>1. NilInit => NumberedInv /\ CauseInv
    <2> SUFFICES ASSUME NilInit PROVE NumberedInv /\ CauseInv
      OBVIOUS
    <2>1. /\ canon = NoRows /\ current = FALSE /\ \A b \in Blocks : NoRows[b] = Null
          /\ \A s \in Sessions : rebuild[s] = NoCall
      BY DEF NilInit, NoRows
    <2>2. NoCall.step = "idle" /\ \A b \in Blocks : NoCall.old[b] = Null /\ NoCall.new[b] = Null
      BY DEF NoCall, NoRows
    <2> QED
      BY <2>1, <2>2 DEF NumberedInv, CauseInv, Underway
  <1>2. NilInv /\ NumberedInv /\ CauseInv /\ [NilNext]_nilVars => (NumberedInv /\ CauseInv)'
    BY StepKeepsNumbers, StepKeepsCause DEF NilInv
  <1> QED
    BY <1>1, <1>2, NilInvariant, PTL DEF NilSpec

(***************************************************************************)
(* However the rebuilds overlap, a node with a live row is not taken out   *)
(* of the canon, unless the row was appended after the INSERT.             *)
(***************************************************************************)
THEOREM NodesLeaveForCause == NilSpec => NodesGoForCause
  <1>1. CauseInv /\ [NilNext]_nilVars =>
          [\A b \in Blocks :
              canon[b] # Null /\ canon'[b] = Null /\ current => Live(b) = {}]_nilVars
    <2> SUFFICES ASSUME CauseInv, NilNext, current,
                        NEW b \in Blocks, canon[b] # Null, canon'[b] = Null
                 PROVE  Live(b) = {}
      OBVIOUS
    <2>1. PICK s \in Sessions : Commit(s)
      BY DEF NilNext, CommitAppend, Elapse, Call, Delete, Insert, RollBack
    <2>2. Removes(s, b)
      BY <2>1 DEF Commit, Removes
    <2> QED
      BY <2>2 DEF CauseInv
  <1> QED
    BY <1>1, CauseInvariant, PTL DEF NilSpec, NodesGoForCause
=============================================================================
