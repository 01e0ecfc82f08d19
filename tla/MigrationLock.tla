---------------------------- MODULE MigrationLock ----------------------------
(***************************************************************************)
(* src/core/lifecycle/migration_lock.py as its one caller uses it          *)
(* (LifecycleManager._locked_check_and_migrate in manager.py): a           *)
(* PostgreSQL session-level advisory lock, polled with                     *)
(* pg_try_advisory_lock on a connection borrowed from an asyncpg pool.     *)
(*                                                                         *)
(* Each process has one pool; its callers (coroutines) share it.  A caller *)
(* keeps one connection for the lock and, inside the guarded region,       *)
(* borrows a second one of the same pool for the version query, so the     *)
(* size of the pool matters.  A session can be lost and a process can die  *)
(* at any time: both free the lock on the server.                          *)
(***************************************************************************)
EXTENDS Naturals

CONSTANTS Procs,        \* operating-system processes with a LifecycleManager
          Callers,      \* their coroutines that call status() or start()
          Conns,        \* the connections of their pools (max_size of each)
          ProcOf(_),    \* the process of a caller or of a connection
          MaxCalls,     \* bound: calls a caller makes
          None          \* "no connection", "no caller"

ASSUME NoneIsNothing == None \notin Conns \cup Callers
ASSUME EachHasAProcess == \A x \in Callers \cup Conns : ProcOf(x) \in Procs
ASSUME MaxCallsAssumption == MaxCalls \in Nat
(* create_pool(min_size=1, max_size=5), manager.py:211-215: two will do. *)
ASSUME PoolOfTwo ==
    \A c \in Callers : \E s, t \in Conns : s # t /\ ProcOf(s) = ProcOf(c) /\ ProcOf(t) = ProcOf(c)

VARIABLES
    lock,       \* the session that holds the advisory lock, or None
    broken,     \* borrowed connections whose session is lost
    pc,         \* where each caller is
    lockConn,   \* the connection a caller polls and holds the lock on
    bodyConn,   \* the connection its guarded query runs on
    expired,    \* has the caller's deadline passed
    result,     \* how the call that is being left ends
    left        \* calls it may still make

vars == <<lock, broken, pc, lockConn, bodyConn, expired, result, left>>

Polling == {"try", "sleep"}
Waiting == {"acquire"} \cup Polling
Inside  == {"bodyAcquire", "query"}
Steps   == Waiting \cup Inside \cup {"idle", "unlock", "giveBack"}
Results == {"none", "returned", "raised", "timeout", "error"}

TypeOK ==
    /\ lock \in Conns \cup {None}
    /\ broken \in SUBSET Conns
    /\ pc \in [Callers -> Steps]
    /\ lockConn \in [Callers -> Conns \cup {None}]
    /\ bodyConn \in [Callers -> Conns \cup {None}]
    /\ expired \in [Callers -> BOOLEAN]
    /\ result \in [Callers -> Results]
    /\ left \in [Callers -> Nat]

Init ==
    /\ lock = None
    /\ broken = {}
    /\ pc = [c \in Callers |-> "idle"]
    /\ lockConn = [c \in Callers |-> None]
    /\ bodyConn = [c \in Callers |-> None]
    /\ expired = [c \in Callers |-> FALSE]
    /\ result = [c \in Callers |-> "none"]
    /\ left = [c \in Callers |-> MaxCalls]

------------------------------------------------------------------------------
(* The pool. *)

Borrowed(s) == \E c \in Callers : s \in {lockConn[c], bodyConn[c]}
FreeConns(c) == {s \in Conns : ProcOf(s) = ProcOf(c) /\ ~Borrowed(s)}

GoTo(c, step) == pc' = [pc EXCEPT ![c] = step]
EndsAs(c, how) == result' = [result EXCEPT ![c] = how]

(* Whoever loses or resets session s no longer holds the advisory lock. *)
FreedBy(s) == lock' = IF lock = s THEN None ELSE lock

------------------------------------------------------------------------------
(* One call. *)

(* status() or start() reaches `async with migration_lock(self._pool)`. *)
Call(c) ==
    /\ pc[c] = "idle" /\ left[c] > 0
    /\ left' = [left EXCEPT ![c] = @ - 1]
    /\ GoTo(c, "acquire")
    /\ UNCHANGED <<lock, broken, lockConn, bodyConn, expired, result>>

(* `pool.acquire()` yields a connection; the deadline starts only now. *)
AcquireLockConn(c) ==
    /\ pc[c] = "acquire"
    /\ \E s \in FreeConns(c) : lockConn' = [lockConn EXCEPT ![c] = s]
    /\ GoTo(c, "try")
    /\ UNCHANGED <<lock, broken, bodyConn, expired, result, left>>

(* The pool has room but cannot open a session: the exception escapes. *)
AcquireLockConnFails(c) ==
    /\ pc[c] = "acquire" /\ FreeConns(c) # {}
    /\ GoTo(c, "giveBack")
    /\ EndsAs(c, "error")
    /\ UNCHANGED <<lock, broken, lockConn, bodyConn, expired, left>>

(* Mutant: the answer of pg_try_advisory_lock is not looked at. *)
TryLockAnyway(c) ==
    /\ pc[c] = "try"
    /\ lockConn[c] \notin broken
    /\ lock' = lockConn[c]
    /\ GoTo(c, "bodyAcquire")
    /\ UNCHANGED <<broken, lockConn, bodyConn, expired, result, left>>

(* pg_try_advisory_lock: true when free or already held by this session. *)
TryLock(c) ==
    /\ pc[c] = "try"
    /\ lockConn[c] \notin broken
    /\ lock \in {None, lockConn[c]}
    /\ lock' = lockConn[c]
    /\ GoTo(c, "bodyAcquire")
    /\ UNCHANGED <<broken, lockConn, bodyConn, expired, result, left>>

(* Mutant: the deadline is not looked at, the caller polls for ever. *)
LockIsTakenNoDeadline(c) ==
    /\ pc[c] = "try"
    /\ lockConn[c] \notin broken
    /\ lock \notin {None, lockConn[c]}
    /\ GoTo(c, "sleep")
    /\ UNCHANGED <<lock, broken, lockConn, bodyConn, expired, result, left>>

(* It answers false: sleep while time remains, otherwise give up. *)
LockIsTaken(c) ==
    /\ pc[c] = "try"
    /\ lockConn[c] \notin broken
    /\ lock \notin {None, lockConn[c]}
    /\ \/ /\ ~expired[c]
          /\ GoTo(c, "sleep")
          /\ UNCHANGED result
       \/ /\ expired[c]
          /\ GoTo(c, "giveBack")
          /\ EndsAs(c, "timeout")
    /\ UNCHANGED <<lock, broken, lockConn, bodyConn, expired, left>>

(* The server has tried the lock for a query that then raises. *)
TriedInVain(c) ==
    \/ UNCHANGED lock
    \/ /\ lockConn[c] \notin broken
       /\ lock \in {None, lockConn[c]}
       /\ lock' = lockConn[c]

(* Mutant: a failed lock query is reported as a timeout. *)
LockQueryFailsAsTimeout(c) ==
    /\ pc[c] = "try"
    /\ TriedInVain(c)
    /\ GoTo(c, "giveBack")
    /\ EndsAs(c, "timeout")
    /\ UNCHANGED <<broken, lockConn, bodyConn, expired, left>>

(***************************************************************************)
(* The query raises, whatever the exception: MigrationLockError.  The      *)
(* session may be lost, or live, and then even have been granted the lock. *)
(***************************************************************************)
LockQueryFails(c) ==
    /\ pc[c] = "try"
    /\ TriedInVain(c)
    /\ GoTo(c, "giveBack")
    /\ EndsAs(c, "error")
    /\ UNCHANGED <<broken, lockConn, bodyConn, expired, left>>

(* `await asyncio.sleep(min(poll_interval, remaining))` is over. *)
Wake(c) ==
    /\ pc[c] = "sleep"
    /\ GoTo(c, "try")
    /\ UNCHANGED <<lock, broken, lockConn, bodyConn, expired, result, left>>

(* The clock reaches the deadline of a polling caller. *)
DeadlinePasses(c) ==
    /\ pc[c] \in Polling /\ ~expired[c]
    /\ expired' = [expired EXCEPT ![c] = TRUE]
    /\ UNCHANGED <<lock, broken, pc, lockConn, bodyConn, result, left>>

(* The guarded body is `self._pool.fetchrow(...)`: a second connection. *)
AcquireBodyConn(c) ==
    /\ pc[c] = "bodyAcquire"
    /\ \E s \in FreeConns(c) : bodyConn' = [bodyConn EXCEPT ![c] = s]
    /\ GoTo(c, "query")
    /\ UNCHANGED <<lock, broken, lockConn, expired, result, left>>

AcquireBodyConnFails(c) ==
    /\ pc[c] = "bodyAcquire" /\ FreeConns(c) # {}
    /\ GoTo(c, "unlock")
    /\ EndsAs(c, "raised")
    /\ UNCHANGED <<lock, broken, lockConn, bodyConn, expired, left>>

(* The query ends, well or badly, and its connection goes back. *)
RunBody(c) ==
    /\ pc[c] = "query"
    /\ EndsAs(c, IF bodyConn[c] \in broken THEN "raised" ELSE "returned")
    /\ broken' = broken \ {bodyConn[c]}
    /\ bodyConn' = [bodyConn EXCEPT ![c] = None]
    /\ GoTo(c, "unlock")
    /\ UNCHANGED <<lock, lockConn, expired, left>>

(* The `finally`: pg_advisory_unlock on the session that took the lock. *)
Unlock(c) ==
    /\ pc[c] = "unlock"
    /\ lockConn[c] \notin broken
    /\ FreedBy(lockConn[c])
    /\ GoTo(c, "giveBack")
    /\ UNCHANGED <<broken, lockConn, bodyConn, expired, result, left>>

(* Mutant: the exception of the failed unlock skips the return to the pool. *)
UnlockFailsAndLeaks(c) ==
    /\ pc[c] = "unlock"
    /\ GoTo(c, "idle")
    /\ EndsAs(c, "none")
    /\ UNCHANGED <<lock, broken, lockConn, bodyConn, expired, left>>

(***************************************************************************)
(* The unlock query fails: the session is lost, or it is alive and the     *)
(* statement was cancelled.  logger.warning(..., lock_id=...) then raises  *)
(* TypeError, which replaces whatever the body returned or raised.         *)
(***************************************************************************)
UnlockFails(c) ==
    /\ pc[c] = "unlock"
    /\ GoTo(c, "giveBack")
    /\ EndsAs(c, "raised")
    /\ UNCHANGED <<lock, broken, lockConn, bodyConn, expired, left>>

(* Mutant: the pool takes the session back as it is. *)
GiveBackWithoutReset(c) ==
    /\ pc[c] = "giveBack"
    /\ broken' = broken \ {lockConn[c]}
    /\ lockConn' = [lockConn EXCEPT ![c] = None]
    /\ expired' = [expired EXCEPT ![c] = FALSE]
    /\ EndsAs(c, "none")
    /\ GoTo(c, "idle")
    /\ UNCHANGED <<lock, bodyConn, left>>

(***************************************************************************)
(* Leaving `async with pool.acquire()`: the pool resets the session        *)
(* (pg_advisory_unlock_all) or, if it cannot, terminates it.  Either way   *)
(* the next borrower gets a session without locks.  (A caller that got no  *)
(* connection has nothing to give back.)                                   *)
(***************************************************************************)
GiveBack(c) ==
    /\ pc[c] = "giveBack"
    /\ FreedBy(lockConn[c])
    /\ broken' = broken \ {lockConn[c]}
    /\ lockConn' = [lockConn EXCEPT ![c] = None]
    /\ expired' = [expired EXCEPT ![c] = FALSE]
    /\ EndsAs(c, "none")
    /\ GoTo(c, "idle")
    /\ UNCHANGED <<bodyConn, left>>

------------------------------------------------------------------------------
(* The environment. *)

(* A borrowed session dies: the server frees its lock at once. *)
LoseSession(s) ==
    /\ Borrowed(s) /\ s \notin broken
    /\ broken' = broken \cup {s}
    /\ FreedBy(s)
    /\ UNCHANGED <<pc, lockConn, bodyConn, expired, result, left>>

(* Process p dies and is started again: its sessions close with it. *)
Crash(p) ==
    /\ \E c \in Callers : ProcOf(c) = p /\ pc[c] # "idle"
    /\ LET gone(c) == ProcOf(c) = p IN
       /\ pc' = [c \in Callers |-> IF gone(c) THEN "idle" ELSE pc[c]]
       /\ lockConn' = [c \in Callers |-> IF gone(c) THEN None ELSE lockConn[c]]
       /\ bodyConn' = [c \in Callers |-> IF gone(c) THEN None ELSE bodyConn[c]]
       /\ expired' = [c \in Callers |-> IF gone(c) THEN FALSE ELSE expired[c]]
       /\ result' = [c \in Callers |-> IF gone(c) THEN "none" ELSE result[c]]
    /\ broken' = {s \in broken : ProcOf(s) # p}
    /\ lock' = IF lock # None /\ ProcOf(lock) = p THEN None ELSE lock
    /\ UNCHANGED left

------------------------------------------------------------------------------

Proceed(c) ==
    \/ AcquireLockConn(c) \/ AcquireLockConnFails(c)
    \/ TryLock(c) \/ LockIsTaken(c) \/ LockQueryFails(c) \/ Wake(c)
    \/ AcquireBodyConn(c) \/ AcquireBodyConnFails(c) \/ RunBody(c)
    \/ Unlock(c) \/ UnlockFails(c) \/ GiveBack(c)

Next ==
    \/ \E c \in Callers : Call(c) \/ Proceed(c) \/ DeadlinePasses(c)
    \/ \E s \in Conns : LoseSession(s)
    \/ \E p \in Procs : Crash(p)

Spec == Init /\ [][Next]_vars

(***************************************************************************)
(* The event loop runs every coroutine that can run, and clocks advance.   *)
(* Nothing is assumed about callers, lost sessions or crashes, nor about   *)
(* who wins a connection or the lock.                                      *)
(***************************************************************************)
Fairness == \A c \in Callers : WF_vars(Proceed(c)) /\ WF_vars(DeadlinePasses(c))

FairSpec == Spec /\ Fairness

------------------------------------------------------------------------------
(* Properties. *)

InForce(c) == pc[c] \in Inside /\ lockConn[c] \notin broken

(***************************************************************************)
(* "only one process can check ... migration state at a time"              *)
(* (migration_lock.py:3-4): two callers, of one process or of two, are     *)
(* never both in the guarded region with their lock sessions alive.  The   *)
(* try, the sleep, the unlock and the reset of other callers, lost         *)
(* sessions and crashes all interleave with the region.                    *)
(***************************************************************************)
OneInForce ==
    \A c, d \in Callers : InForce(c) /\ InForce(d) => c = d

(***************************************************************************)
(* "Lock is session-scoped" (migration_lock.py:8): the lock never sits on  *)
(* a pooled connection nobody is using, nor on that of a caller that polls *)
(* or sleeps, even after an unlock that failed or a try that was granted   *)
(* and then raised.  Otherwise every later caller would report `migrating` *)
(* for ever.                                                               *)
(***************************************************************************)
NoStrayLock ==
    lock # None =>
       \E c \in Callers : /\ lockConn[c] = lock
                          /\ pc[c] \in Inside \cup {"unlock", "giveBack"}

(***************************************************************************)
(* The pool never lends one connection twice: the lock session of a caller *)
(* carries neither another caller's lock nor any guarded query.            *)
(***************************************************************************)
NoSharedConn ==
    /\ \A c \in Callers : lockConn[c] # None => lockConn[c] # bodyConn[c]
    /\ \A c, d \in Callers : c # d =>
          ({lockConn[c], bodyConn[c]} \cap {lockConn[d], bodyConn[d]}) \subseteq {None}

(***************************************************************************)
(* Where a caller is determines which connections of its own process's     *)
(* pool it has: none between calls, however the last one ended, the query  *)
(* connection only while the query runs, and the lock connection from the  *)
(* first try to the unlock.  A call that kept one would take it from the   *)
(* five of the pool for ever (manager.py:211-215).                         *)
(***************************************************************************)
ConnsMatchStep ==
    \A c \in Callers :
       /\ pc[c] \in {"idle", "acquire"} => lockConn[c] = None
       /\ pc[c] \in Polling \cup Inside \cup {"unlock"} => lockConn[c] # None
       /\ bodyConn[c] # None <=> pc[c] = "query"
       /\ lockConn[c] # None => ProcOf(lockConn[c]) = ProcOf(c)
       /\ bodyConn[c] # None => ProcOf(bodyConn[c]) = ProcOf(c)
       /\ pc[c] = "unlock" => result[c] \in {"returned", "raised"}

(***************************************************************************)
(* The rest of the inductive invariant: the lock belongs to no lost        *)
(* session, and a caller past the try holds it unless its session is lost. *)
(***************************************************************************)
LostSessionsHoldNothing == lock \notin broken

PastTheTryHoldsLock ==
    \A c \in Callers :
       (pc[c] \in Inside \cup {"unlock"} /\ lockConn[c] \notin broken)
          => lock = lockConn[c]

LockInv ==
    /\ TypeOK /\ NoSharedConn /\ NoStrayLock
    /\ ConnsMatchStep /\ LostSessionsHoldNothing /\ PastTheTryHoldsLock

(***************************************************************************)
(* A caller holds its lock connection while it waits for a second one of   *)
(* the same pool, and other callers hold all of the rest while they poll,  *)
(* without a timeout on either wait (manager.py:276, migration_lock.py:    *)
(* 83).  Still the callers of one process never all wait for each other's  *)
(* connections while no borrowed session is lost: of the callers that hold *)
(* a lock connection at most one has passed the try, so either the pool    *)
(* has a connection to give or somebody who holds one can take a step.     *)
(***************************************************************************)
CanGoOn(c) ==
    /\ pc[c] # "idle"
    /\ pc[c] \in {"acquire", "bodyAcquire"} => FreeConns(c) # {}

NoPoolDeadlock ==
    broken = {} =>
       \A c \in Callers : pc[c] # "idle" =>
          \E d \in Callers : ProcOf(d) = ProcOf(c) /\ CanGoOn(d)

(***************************************************************************)
(* "Timeout-bounded" (migration_lock.py:72): every call returns, although  *)
(* a caller holds its lock connection while it waits for a second one and  *)
(* other callers may hold all of the rest while they poll.  The lost       *)
(* session is a real exception: it lets a second caller of the same pool   *)
(* enter while the first still waits for a connection, and callers that    *)
(* hold all lock connections then wait for one another without a deadline. *)
(***************************************************************************)
EveryCallReturns ==
    \A c \in Callers : (pc[c] # "idle") ~> (pc[c] = "idle" \/ broken # {})

(***************************************************************************)
(* The comment at migration_lock.py:3-4 read literally: no two callers are *)
(* ever in the guarded region, whatever happens to their sessions.         *)
(***************************************************************************)
OneInside == \A c, d \in Callers : pc[c] \in Inside /\ pc[d] \in Inside => c = d

------------------------------------------------------------------------------
(* Refinement: the pool and the polling implement the gate. *)

ownerOf == IF lock = None THEN None
           ELSE CHOOSE c \in Callers : lockConn[c] = lock

PhaseOf(c) ==
    CASE pc[c] \in Waiting                              -> "waiting"
      [] pc[c] \in Inside                               -> "inside"
      [] pc[c] = "giveBack" /\ result[c] = "timeout"    -> "refused"
      [] pc[c] = "giveBack" /\ result[c] = "error"      -> "failed"
      [] pc[c] = "idle"                                 -> "out"
      [] OTHER                                          -> "leaving"

phaseOf == [c \in Callers |-> PhaseOf(c)]

Gate == INSTANCE MigrationGate WITH owner <- ownerOf, phase <- phaseOf

ImplementsGate == Gate!GateSpec
==============================================================================
