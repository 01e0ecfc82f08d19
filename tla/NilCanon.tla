------------------------------ MODULE NilCanon -------------------------------
(***************************************************************************)
(* src/sql/apps/authorforge/0003_authorforge_nil_schema.sql: the log of    *)
(* narrative transactions, and nil_rebuild_canon_current(), which derives  *)
(* the canon from it.                                                      *)
(*                                                                         *)
(* Who appends and who calls the function is outside the repository.       *)
(* PostgreSQL runs each call as a transaction of two statements, and under *)
(* READ COMMITTED each takes a snapshot of its own.  A DELETE waits for    *)
(* rows that another transaction has deleted and passes over them when it  *)
(* commits; an INSERT waits for a key another transaction holds.           *)
(*                                                                         *)
(* created_at is the time a transaction began, not the one it committed:   *)
(* a row can appear with a time before that of rows long there, and rows   *)
(* of one transaction have the same.                                       *)
(***************************************************************************)
EXTENDS Integers, FiniteSets

CONSTANTS Txs,              \* transaction_ids
          Blocks,           \* block_ids, the nodes of the canon
          Sessions,         \* callers of the function
          NilStatuses,      \* values of the status column in use
          Null,               \* no row, SQL NULL
          MaxTime,          \* bounds: of created_at,
          MaxBatch,         \* of the rows of one transaction,
          MaxRebuilds       \* and of the calls

VARIABLES log,              \* nil_transactions of the domain 'canon'
          now,
          canon,            \* nil_canon_current: the row of a node
          rebuild,          \* the call of each session
          calls,
          contested,        \* history: the last call overlapped another
          current           \* history: nothing was appended since its INSERT

nilVars == <<log, now, canon, rebuild, calls, contested, current>>

Row == [block: Blocks, status: NilStatuses, created_at: 0..MaxTime,
        supersedes: Txs \cup {Null}]
(* A row of the cache: its source, and the call that wrote it. *)
Cached == [source: Txs, by: 1..MaxRebuilds]

(* A row is not NULL, and no transaction is. *)
ASSUME NilAssumption ==
    /\ MaxTime \in Nat /\ MaxBatch \in Nat /\ MaxRebuilds \in Nat
    /\ Null \notin Txs \cup Row \cup Cached

(* No row of the cache is deleted by two calls at a time. *)
NilTypeOK ==
    /\ log \in [Txs -> Row \cup {Null}]
    /\ now \in 0..MaxTime
    /\ canon \in [Blocks -> Cached \cup {Null}]
    /\ \A s \in Sessions :
          /\ rebuild[s].step \in {"idle", "deleting", "deleted", "inserted"}
          /\ rebuild[s].old \in [Blocks -> Cached \cup {Null}]
          /\ rebuild[s].new \in [Blocks -> Cached \cup {Null}]
          /\ rebuild[s].id \in 0..calls
          /\ \A o \in Sessions \ {s}, b \in Blocks :
                rebuild[s].step = "deleted" /\ rebuild[o].step = "deleted"
                   => rebuild[s].old[b] = Null \/ rebuild[o].old[b] # rebuild[s].old[b]
    /\ calls \in 0..MaxRebuilds
    /\ contested \in BOOLEAN /\ current \in BOOLEAN

NoRows == [b \in Blocks |-> Null]
NoCall == [step |-> "idle", old |-> NoRows, new |-> NoRows, id |-> 0]

NilInit ==
    /\ log = [x \in Txs |-> Null]
    /\ now = 0
    /\ canon = NoRows
    /\ rebuild = [s \in Sessions |-> NoCall]
    /\ calls = 0 /\ contested = FALSE /\ current = FALSE

-----------------------------------------------------------------------------
Free == {x \in Txs : log[x] = Null}

(* What one transaction may write: the foreign key is checked at the end of *)
(* a statement, so a row may supersede itself, or another of its INSERT.    *)
Batches(began) ==
    UNION {[X -> [block: Blocks, status: NilStatuses, created_at: {began},
                  supersedes: X \cup {x \in Txs : log[x] # Null} \cup {Null}]] :
           X \in {Y \in SUBSET Free : Y # {} /\ Cardinality(Y) <= MaxBatch}}

(* Its transaction, begun at some time up to now, commits: nobody has seen *)
(* anything of it before.                                                   *)
CommitAppend(batch) ==
    /\ log' = [x \in Txs |-> IF x \in DOMAIN batch THEN batch[x] ELSE log[x]]
    /\ current' = FALSE
    /\ UNCHANGED <<now, canon, rebuild, calls, contested>>

Elapse ==
    /\ now < MaxTime
    /\ now' = now + 1
    /\ UNCHANGED <<log, canon, rebuild, calls, contested, current>>

-----------------------------------------------------------------------------
InLog(x) == log[x] # Null
Superseders(x) == {s \in Txs : InLog(s) /\ log[s].supersedes = x}

(* Mutant: what is in the log is in the canon. *)
LiveOfAnyStatus(b) ==
    {x \in Txs : InLog(x) /\ log[x].block = b /\ Superseders(x) = {}}

(* WHERE: accepted, and named by no row of the log, whatever that row's status. *)
Live(b) ==
    {x \in Txs : /\ InLog(x) /\ log[x].block = b /\ log[x].status = "accepted"
                 /\ Superseders(x) = {}}

(* Mutant: the newest row of the node counts, if it is accepted. *)
ChosenBeforeFilter(b) ==
    {x \in Live(b) : \A y \in Txs : InLog(y) /\ log[y].block = b =>
                         log[y].created_at <= log[x].created_at}

(* DISTINCT ON ... ORDER BY created_at DESC: any of those that tie. *)
Chosen(b) ==
    {x \in Live(b) : \A y \in Live(b) : log[y].created_at <= log[x].created_at}

Underway(s) == rebuild[s].step # "idle"
Others(s) == Sessions \ {s}

Call(s) ==
    /\ rebuild[s].step = "idle" /\ calls < MaxRebuilds
    /\ calls' = calls + 1
    /\ rebuild' = [rebuild EXCEPT ![s] =
           [step |-> "deleting", old |-> canon, new |-> NoRows, id |-> calls + 1]]
    /\ contested' = \E o \in Others(s) : Underway(o)
    /\ current' = FALSE
    /\ UNCHANGED <<log, now, canon>>

(* Rows of the snapshot that another call has deleted and not committed. *)
WaitsToDelete(s) ==
    \E o \in Others(s), b \in Blocks :
       /\ rebuild[o].step \in {"deleted", "inserted"}
       /\ rebuild[s].old[b] # Null /\ rebuild[o].old[b] = rebuild[s].old[b]

(* Mutant: no DELETE before the INSERT. *)
DeleteNothing(s) ==
    /\ rebuild[s].step = "deleting"
    /\ rebuild' = [rebuild EXCEPT ![s].step = "deleted", ![s].old = NoRows]
    /\ UNCHANGED <<log, now, canon, calls, contested, current>>

Delete(s) ==
    /\ rebuild[s].step = "deleting" /\ ~WaitsToDelete(s)
    /\ rebuild' = [rebuild EXCEPT ![s].step = "deleted",
           ![s].old = [b \in Blocks |->
                          IF canon[b] = @[b] THEN @[b] ELSE Null]]
    /\ UNCHANGED <<log, now, canon, calls, contested, current>>

NewRows(s, pick) ==
    [b \in Blocks |-> IF Chosen(b) = {} THEN Null
                      ELSE [source |-> pick[b], by |-> rebuild[s].id]]

(* Keys of these rows that another call has deleted or inserted so far. *)
WaitsToInsert(s, rows) ==
    \E o \in Others(s), b \in Blocks :
       /\ rebuild[o].step \in {"deleted", "inserted"} /\ rows[b] # Null
       /\ \/ rebuild[o].new[b] # Null
          \/ rebuild[o].old[b] # Null /\ rebuild[o].old[b] = canon[b]

Duplicate(s, rows) ==
    \E b \in Blocks :
       rows[b] # Null /\ canon[b] # Null /\ canon[b] # rebuild[s].old[b]

Picks == {pick \in [Blocks -> Txs] :
             \A b \in Blocks : Chosen(b) # {} => pick[b] \in Chosen(b)}

Insert(s) ==
    /\ rebuild[s].step = "deleted"
    /\ \E pick \in Picks :
       LET rows == NewRows(s, pick)
       IN /\ ~WaitsToInsert(s, rows)
          /\ IF Duplicate(s, rows)      \* unique violation: all is undone
             THEN /\ rebuild' = [rebuild EXCEPT ![s] = NoCall]
                  /\ UNCHANGED current
             ELSE /\ rebuild' = [rebuild EXCEPT ![s].step = "inserted", ![s].new = rows]
                  /\ current' = TRUE
    /\ UNCHANGED <<log, now, canon, calls, contested>>

Commit(s) ==
    /\ rebuild[s].step = "inserted"
    /\ canon' = [b \in Blocks |->
           IF rebuild[s].new[b] # Null THEN rebuild[s].new[b]
           ELSE IF canon[b] = rebuild[s].old[b] THEN Null ELSE canon[b]]
    /\ rebuild' = [rebuild EXCEPT ![s] = NoCall]
    /\ UNCHANGED <<log, now, calls, contested, current>>

(* The session is lost, or its caller gives up. *)
RollBack(s) ==
    /\ Underway(s)
    /\ rebuild' = [rebuild EXCEPT ![s] = NoCall]
    /\ current' = FALSE
    /\ UNCHANGED <<log, now, canon, calls, contested>>

NilNext ==
    \/ \E began \in 0..now : \E batch \in Batches(began) : CommitAppend(batch)
    \/ Elapse
    \/ \E s \in Sessions :
          Call(s) \/ Delete(s) \/ Insert(s) \/ Commit(s) \/ RollBack(s)

NilSpec == NilInit /\ [][NilNext]_nilVars

-----------------------------------------------------------------------------
(* The cache is up to date: a call's INSERT saw the log as it is now, and it *)
(* has committed.                                                            *)
Settled == current /\ \A s \in Sessions : ~Underway(s)

(* Replaying the log reproduces the canon exactly (0003:154-158): each node *)
(* has the newest accepted row that nothing supersedes, a node without one  *)
(* has none.  Calls that overlap may mix their rows; the next call that     *)
(* overlaps no other repairs that.                                          *)
CanonIsReplay ==
    Settled /\ ~contested =>
       \A b \in Blocks :
          IF canon[b] = Null THEN Live(b) = {}
          ELSE /\ canon[b].source \in Live(b)
               /\ \A y \in Live(b) : log[y].created_at <= log[canon[b].source].created_at

(* Even then, and at any time, a node of the canon comes from an accepted   *)
(* row of its own: "a queued item is not accepted state" (0003:129).        *)
CanonIsAccepted ==
    \A b \in Blocks : canon[b] # Null =>
       LET x == canon[b].source
       IN InLog(x) /\ log[x].status = "accepted" /\ log[x].block = b

(* A node leaves the canon only for want of a live row at the last INSERT:  *)
(* not because calls overlapped, each of which deletes and inserts with a   *)
(* snapshot of its own, and not because a newer row of it is queued.        *)
NodesGoForCause ==
    [][\A b \in Blocks :
          canon[b] # Null /\ canon'[b] = Null /\ current => Live(b) = {}]_nilVars
=============================================================================
