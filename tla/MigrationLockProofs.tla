------------------------- MODULE MigrationLockProofs -------------------------
(***************************************************************************)
(* The advisory lock for every number of processes, callers and            *)
(* connections: LockInv is inductive, so at most one caller is in the      *)
(* guarded region with its lock in force, the lock is never left on an     *)
(* idle connection, and no connection is lent twice.                       *)
(***************************************************************************)
EXTENDS MigrationLock, TLAPS

LEMMA InitLockInv == Init => LockInv
  BY NoneIsNothing, MaxCallsAssumption
  DEF Init, LockInv, TypeOK, NoSharedConn, NoStrayLock, ConnsMatchStep,
      LostSessionsHoldNothing, PastTheTryHoldsLock,
      Steps, Results, Polling, Waiting, Inside

(* Type correctness is preserved by every step on its own. *)
LEMMA StepTypeOK == TypeOK /\ [Next]_vars => TypeOK'
  <1> SUFFICES ASSUME TypeOK, [Next]_vars PROVE TypeOK'
    OBVIOUS
  <1> USE DEF TypeOK, Steps, Results, Polling, Waiting, Inside, GoTo, EndsAs, FreedBy, FreeConns
  <1>1. ASSUME NEW c \in Callers, Call(c) PROVE TypeOK'
    BY <1>1 DEF Call
  <1>2. ASSUME NEW c \in Callers, AcquireLockConn(c) PROVE TypeOK'
    BY <1>2 DEF AcquireLockConn
  <1>3. ASSUME NEW c \in Callers, AcquireLockConnFails(c) PROVE TypeOK'
    BY <1>3 DEF AcquireLockConnFails
  <1>4. ASSUME NEW c \in Callers, TryLock(c) PROVE TypeOK'
    BY <1>4 DEF TryLock
  <1>5. ASSUME NEW c \in Callers, LockIsTaken(c) PROVE TypeOK'
    BY <1>5 DEF LockIsTaken
  <1>6. ASSUME NEW c \in Callers, LockQueryFails(c) PROVE TypeOK'
    BY <1>6 DEF LockQueryFails, TriedInVain
  <1>7. ASSUME NEW c \in Callers, Wake(c) PROVE TypeOK'
    BY <1>7 DEF Wake
  <1>8. ASSUME NEW c \in Callers, DeadlinePasses(c) PROVE TypeOK'
    BY <1>8 DEF DeadlinePasses
  <1>9. ASSUME NEW c \in Callers, AcquireBodyConn(c) PROVE TypeOK'
    BY <1>9 DEF AcquireBodyConn
  <1>10. ASSUME NEW c \in Callers, AcquireBodyConnFails(c) PROVE TypeOK'
    BY <1>10 DEF AcquireBodyConnFails
  <1>11. ASSUME NEW c \in Callers, RunBody(c) PROVE TypeOK'
    BY <1>11 DEF RunBody
  <1>12. ASSUME NEW c \in Callers, Unlock(c) PROVE TypeOK'
    BY <1>12 DEF Unlock
  <1>13. ASSUME NEW c \in Callers, UnlockFails(c) PROVE TypeOK'
    BY <1>13 DEF UnlockFails
  <1>14. ASSUME NEW c \in Callers, GiveBack(c) PROVE TypeOK'
    BY <1>14 DEF GiveBack
  <1>15. ASSUME NEW s \in Conns, LoseSession(s) PROVE TypeOK'
    BY <1>15 DEF LoseSession
  <1>16. ASSUME NEW p \in Procs, Crash(p) PROVE TypeOK'
    BY <1>16 DEF Crash
  <1>17. CASE UNCHANGED vars
    BY <1>17 DEF vars
  <1> QED
    BY <1>1, <1>2, <1>3, <1>4, <1>5, <1>6, <1>7, <1>8, <1>9, <1>10, <1>11,
       <1>12, <1>13, <1>14, <1>15, <1>16, <1>17 DEF Next, Proceed

THEOREM TypeCorrect == Spec => []TypeOK
  <1>1. Init => TypeOK
    BY InitLockInv DEF LockInv
  <1> QED
    BY <1>1, StepTypeOK, PTL DEF Spec

------------------------------------------------------------------------------

LEMMA StepLockInv == LockInv /\ [Next]_vars => LockInv'
  <1> SUFFICES ASSUME LockInv, [Next]_vars PROVE LockInv'
    OBVIOUS
  <1>0. TypeOK'
    BY StepTypeOK DEF LockInv
  <1> USE <1>0, NoneIsNothing
  <1> USE DEF LockInv, TypeOK, NoSharedConn, NoStrayLock, ConnsMatchStep,
              LostSessionsHoldNothing, PastTheTryHoldsLock,
              Polling, Inside, GoTo, EndsAs, FreedBy, FreeConns, Borrowed
  <1>1. ASSUME NEW c \in Callers, Call(c) PROVE LockInv'
    BY <1>1 DEF Call
  <1>2. ASSUME NEW c \in Callers, AcquireLockConn(c) PROVE LockInv'
    BY <1>2 DEF AcquireLockConn
  <1>3. ASSUME NEW c \in Callers, AcquireLockConnFails(c) PROVE LockInv'
    BY <1>3 DEF AcquireLockConnFails
  <1>4. ASSUME NEW c \in Callers, TryLock(c) PROVE LockInv'
    BY <1>4 DEF TryLock
  <1>5. ASSUME NEW c \in Callers, LockIsTaken(c) PROVE LockInv'
    BY <1>5 DEF LockIsTaken
  <1>6. ASSUME NEW c \in Callers, LockQueryFails(c) PROVE LockInv'
    BY <1>6 DEF LockQueryFails, TriedInVain
  <1>7. ASSUME NEW c \in Callers, Wake(c) PROVE LockInv'
    BY <1>7 DEF Wake
  <1>8. ASSUME NEW c \in Callers, DeadlinePasses(c) PROVE LockInv'
    BY <1>8 DEF DeadlinePasses
  <1>9. ASSUME NEW c \in Callers, AcquireBodyConn(c) PROVE LockInv'
    BY <1>9 DEF AcquireBodyConn
  <1>10. ASSUME NEW c \in Callers, AcquireBodyConnFails(c) PROVE LockInv'
    BY <1>10 DEF AcquireBodyConnFails
  <1>11. ASSUME NEW c \in Callers, RunBody(c) PROVE LockInv'
    <2>1. NoSharedConn'
      BY <1>11 DEF RunBody
    <2>2. NoStrayLock'
      BY <1>11 DEF RunBody
    <2>3. ConnsMatchStep'
      BY <1>11 DEF RunBody
    <2>4. LostSessionsHoldNothing'
      BY <1>11 DEF RunBody
    <2>5. PastTheTryHoldsLock'
      BY <1>11 DEF RunBody
    <2> QED
      BY <2>1, <2>2, <2>3, <2>4, <2>5
  <1>12. ASSUME NEW c \in Callers, Unlock(c) PROVE LockInv'
    BY <1>12 DEF Unlock
  <1>13. ASSUME NEW c \in Callers, UnlockFails(c) PROVE LockInv'
    BY <1>13 DEF UnlockFails
  <1>14. ASSUME NEW c \in Callers, GiveBack(c) PROVE LockInv'
    <2>1. NoSharedConn'
      BY <1>14 DEF GiveBack
    <2>2. NoStrayLock'
      BY <1>14 DEF GiveBack
    <2>3. ConnsMatchStep'
      BY <1>14 DEF GiveBack
    <2>4. LostSessionsHoldNothing'
      BY <1>14 DEF GiveBack
    <2>5. PastTheTryHoldsLock'
      <3> SUFFICES ASSUME NEW d \in Callers,
                          pc'[d] \in Inside \cup {"unlock"},
                          lockConn'[d] \notin broken'
                   PROVE  lock' = lockConn'[d]
        OBVIOUS
      <3>1. d # c /\ pc'[d] = pc[d] /\ lockConn'[d] = lockConn[d]
        BY <1>14 DEF GiveBack
      <3>2. lockConn[d] # None /\ lockConn[d] # lockConn[c]
        BY <3>1
      <3>3. lock = lockConn[d]
        BY <1>14, <3>1, <3>2 DEF GiveBack
      <3> QED
        BY <1>14, <3>1, <3>2, <3>3 DEF GiveBack
    <2> QED
      BY <2>1, <2>2, <2>3, <2>4, <2>5
  <1>15. ASSUME NEW s \in Conns, LoseSession(s) PROVE LockInv'
    BY <1>15 DEF LoseSession
  <1>16. ASSUME NEW p \in Procs, Crash(p) PROVE LockInv'
    BY <1>16 DEF Crash
  <1>17. CASE UNCHANGED vars
    BY <1>17 DEF vars
  <1> QED
    BY <1>1, <1>2, <1>3, <1>4, <1>5, <1>6, <1>7, <1>8, <1>9, <1>10, <1>11,
       <1>12, <1>13, <1>14, <1>15, <1>16, <1>17 DEF Next, Proceed

THEOREM LockInvariant == Spec => []LockInv
  BY InitLockInv, StepLockInv, PTL DEF Spec

(***************************************************************************)
(* Two callers in the guarded region with live sessions would hold the one *)
(* lock on two different connections.                                      *)
(***************************************************************************)
THEOREM MutualExclusion == Spec => []OneInForce
  <1>1. LockInv => OneInForce
    BY NoneIsNothing DEF LockInv, OneInForce, InForce, PastTheTryHoldsLock, ConnsMatchStep, NoSharedConn
  <1> QED
    BY <1>1, LockInvariant, PTL

(* The lock is never left on a connection nobody uses it on. *)
THEOREM LockIsNeverStray == Spec => []NoStrayLock
  <1>1. LockInv => NoStrayLock
    BY DEF LockInv
  <1> QED
    BY <1>1, LockInvariant, PTL

(* A caller between two calls has given back all it borrowed. *)
THEOREM ConnectionsAreReturned == Spec => []ConnsMatchStep
  <1>1. LockInv => ConnsMatchStep
    BY DEF LockInv
  <1> QED
    BY <1>1, LockInvariant, PTL

(* No connection is lent to two callers, or twice to one. *)
THEOREM ConnsAreNeverShared == Spec => []NoSharedConn
  <1>1. LockInv => NoSharedConn
    BY DEF LockInv
  <1> QED
    BY <1>1, LockInvariant, PTL

(***************************************************************************)
(* While no borrowed session is lost, the callers of one process never all *)
(* wait for a connection of their own pool.  If they did, every connection *)
(* of the pool would be the lock connection of a caller that has passed    *)
(* the try, and two of them would both carry the one lock.                 *)
(***************************************************************************)
THEOREM PoolsNeverDeadlock == Spec => []NoPoolDeadlock
  <1>1. LockInv => NoPoolDeadlock
    <2> SUFFICES ASSUME LockInv, broken = {}, NEW c \in Callers, pc[c] # "idle",
                        \A d \in Callers : ProcOf(d) = ProcOf(c) => ~CanGoOn(d)
                 PROVE  FALSE
      BY DEF NoPoolDeadlock
    <2> USE DEF LockInv
    <2>1. \A d \in Callers : ProcOf(d) = ProcOf(c)
             => pc[d] \in {"idle", "acquire", "bodyAcquire"}
      BY DEF CanGoOn
    <2>2. \A s \in Conns : ProcOf(s) = ProcOf(c) => Borrowed(s)
      BY DEF CanGoOn, FreeConns
    <2>3. ASSUME NEW s \in Conns, ProcOf(s) = ProcOf(c) PROVE lock = s
      <3>1. PICK d \in Callers : s \in {lockConn[d], bodyConn[d]}
        BY <2>2, <2>3 DEF Borrowed
      <3>2. ProcOf(d) = ProcOf(c) /\ s # None
        BY <2>3, <3>1, NoneIsNothing DEF ConnsMatchStep
      <3>3. pc[d] \in {"idle", "acquire", "bodyAcquire"}
        BY <2>1, <3>2
      <3>4. pc[d] = "bodyAcquire" /\ lockConn[d] = s
        BY <3>1, <3>2, <3>3 DEF ConnsMatchStep
      <3> QED
        BY <3>4 DEF PastTheTryHoldsLock, Inside
    <2> QED
      BY <2>3, PoolOfTwo
  <1> QED
    BY <1>1, LockInvariant, PTL

------------------------------------------------------------------------------
(* MigrationLock implements MigrationGate. *)

(* A lock connection tells its caller. *)
LEMMA LockConnsDistinct ==
  ASSUME NoSharedConn, NEW c \in Callers, NEW d \in Callers,
         lockConn[c] = lockConn[d], lockConn[c] # None
  PROVE  c = d
  <1> SUFFICES ASSUME c # d PROVE FALSE
    OBVIOUS
  <1>1. ({lockConn[c], bodyConn[c]} \cap {lockConn[d], bodyConn[d]}) \subseteq {None}
    BY DEF NoSharedConn
  <1>2. lockConn[c] \in {lockConn[c], bodyConn[c]} \cap {lockConn[d], bodyConn[d]}
    OBVIOUS
  <1> QED
    BY <1>1, <1>2

(* What the refinement mapping calls the owner. *)
OwnerMatchesLock ==
    /\ lock = None => ownerOf = None
    /\ lock # None => ownerOf \in Callers /\ lockConn[ownerOf] = lock
    /\ \A c \in Callers : (lock # None /\ lockConn[c] = lock) => ownerOf = c

LEMMA OwnerLemma == LockInv => OwnerMatchesLock
  <1> SUFFICES ASSUME LockInv PROVE OwnerMatchesLock
    OBVIOUS
  <1> USE DEF LockInv
  <1>1. CASE lock = None
    BY <1>1 DEF OwnerMatchesLock, ownerOf
  <1>2. CASE lock # None
    <2>1. PICK c \in Callers : lockConn[c] = lock
      BY <1>2 DEF NoStrayLock
    <2>2. \A d \in Callers : lockConn[d] = lock => d = c
      BY <1>2, <2>1, LockConnsDistinct
    <2>3. ownerOf = c
      BY <1>2, <2>1, <2>2 DEF ownerOf
    <2> QED
      BY <1>2, <2>1, <2>2, <2>3 DEF OwnerMatchesLock
  <1> QED
    BY <1>1, <1>2

(* A step that touches one caller moves that caller's phase. *)
LEMMA PhaseMove ==
  ASSUME NEW c \in Callers, NEW x,
         \A d \in Callers \ {c} : pc'[d] = pc[d] /\ result'[d] = result[d],
         PhaseOf(c)' = x
  PROVE  phaseOf' = [phaseOf EXCEPT ![c] = x]
  <1>1. \A d \in Callers \ {c} : PhaseOf(d)' = PhaseOf(d)
    BY DEF PhaseOf
  <1> QED
    BY <1>1 DEF phaseOf

LEMMA PhaseStay ==
  ASSUME \A d \in Callers : PhaseOf(d)' = PhaseOf(d)
  PROVE  phaseOf' = phaseOf
  BY DEF phaseOf

LEMMA InitRefines == Init => Gate!GateInit
  <1> SUFFICES ASSUME Init PROVE Gate!GateInit
    OBVIOUS
  <1>1. \A c \in Callers : PhaseOf(c) = "out"
    BY DEF Init, PhaseOf, Waiting, Inside, Polling
  <1> QED
    BY <1>1 DEF Init, Gate!GateInit, ownerOf, phaseOf

LEMMA StepRefines ==
  LockInv /\ LockInv' /\ [Next]_vars => [Gate!GateNext]_(Gate!gateVars)
  <1> SUFFICES ASSUME LockInv, LockInv', [Next]_vars
               PROVE  Gate!GateNext \/ UNCHANGED <<ownerOf, phaseOf>>
    BY DEF Gate!gateVars
  <1>o. OwnerMatchesLock /\ OwnerMatchesLock'
    BY OwnerLemma, PTL
  <1> USE <1>o, NoneIsNothing
  <1> USE DEF LockInv, TypeOK, GoTo, EndsAs, FreedBy, Polling, Waiting, Inside
  <1>1. ASSUME NEW c \in Callers, Call(c) PROVE Gate!Ask(c)
    <2>1. ownerOf' = ownerOf
      BY <1>1 DEF Call, ownerOf
    <2>2. phaseOf[c] = "out"
      BY <1>1 DEF Call, phaseOf, PhaseOf
    <2>3. phaseOf' = [phaseOf EXCEPT ![c] = "waiting"]
      BY <1>1, PhaseMove DEF Call, PhaseOf
    <2> QED
      BY <2>1, <2>2, <2>3 DEF Gate!Ask, Gate!MoveTo
  <1>2. ASSUME NEW c \in Callers, AcquireLockConn(c)
        PROVE  UNCHANGED <<ownerOf, phaseOf>>
    <2>1. ownerOf' = ownerOf
      <3>1. CASE lock = None
        BY <1>2, <3>1 DEF AcquireLockConn, OwnerMatchesLock
      <3>2. CASE lock # None
        <4>1. PICK d \in Callers : /\ lockConn[d] = lock
                                   /\ pc[d] \in Inside \cup {"unlock", "giveBack"}
          BY <3>2 DEF NoStrayLock
        <4>2. d # c /\ lock' = lock
          BY <1>2, <4>1 DEF AcquireLockConn
        <4>3. lockConn'[d] = lock'
          BY <1>2, <4>1, <4>2 DEF AcquireLockConn
        <4> QED
          BY <3>2, <4>1, <4>2, <4>3 DEF OwnerMatchesLock
      <3> QED
        BY <3>1, <3>2
    <2>2. phaseOf' = phaseOf
      BY <1>2, PhaseStay DEF AcquireLockConn, PhaseOf
    <2> QED
      BY <2>1, <2>2
  <1>3. ASSUME NEW c \in Callers, AcquireLockConnFails(c) PROVE Gate!Fail(c)
    <2>1. ownerOf' = ownerOf
      BY <1>3 DEF AcquireLockConnFails, ownerOf
    <2>2. phaseOf[c] = "waiting"
      BY <1>3 DEF AcquireLockConnFails, phaseOf, PhaseOf
    <2>3. phaseOf' = [phaseOf EXCEPT ![c] = "failed"]
      BY <1>3, PhaseMove DEF AcquireLockConnFails, PhaseOf
    <2> QED
      BY <2>1, <2>2, <2>3 DEF Gate!Fail, Gate!MoveTo
  <1>4. ASSUME NEW c \in Callers, TryLock(c) PROVE Gate!Enter(c)
    <2>1. lock = None
      <3> SUFFICES ASSUME lock # None PROVE FALSE
        OBVIOUS
      <3>1. PICK d \in Callers : /\ lockConn[d] = lock
                                 /\ pc[d] \in Inside \cup {"unlock", "giveBack"}
        BY DEF NoStrayLock
      <3>2. lockConn[c] = lock /\ pc[c] = "try"
        BY <1>4 DEF TryLock
      <3> QED
        BY <3>1, <3>2, LockConnsDistinct
    <2>2. lockConn[c] # None /\ lock' = lockConn[c] /\ lockConn' = lockConn
      BY <1>4 DEF TryLock, ConnsMatchStep
    <2>3. ownerOf = None /\ ownerOf' = c
      BY <2>1, <2>2 DEF OwnerMatchesLock
    <2>4. phaseOf[c] = "waiting"
      BY <1>4 DEF TryLock, phaseOf, PhaseOf
    <2>5. phaseOf' = [phaseOf EXCEPT ![c] = "inside"]
      BY <1>4, PhaseMove DEF TryLock, PhaseOf
    <2> QED
      BY <2>3, <2>4, <2>5 DEF Gate!Enter, Gate!MoveTo
  <1>5. ASSUME NEW c \in Callers, LockIsTaken(c), ~expired[c]
        PROVE  UNCHANGED <<ownerOf, phaseOf>>
    <2>1. ownerOf' = ownerOf
      BY <1>5 DEF LockIsTaken, ownerOf
    <2>2. phaseOf' = phaseOf
      BY <1>5, PhaseStay DEF LockIsTaken, PhaseOf
    <2> QED
      BY <2>1, <2>2
  <1>6. ASSUME NEW c \in Callers, LockIsTaken(c), expired[c] PROVE Gate!Refuse(c)
    <2>1. ownerOf' = ownerOf
      BY <1>6 DEF LockIsTaken, ownerOf
    <2>2. ownerOf \notin {None, c}
      BY <1>6 DEF LockIsTaken, OwnerMatchesLock
    <2>3. phaseOf[c] = "waiting"
      BY <1>6 DEF LockIsTaken, phaseOf, PhaseOf
    <2>4. phaseOf' = [phaseOf EXCEPT ![c] = "refused"]
      BY <1>6, PhaseMove DEF LockIsTaken, PhaseOf
    <2> QED
      BY <2>1, <2>2, <2>3, <2>4 DEF Gate!Refuse, Gate!MoveTo
  <1>7. ASSUME NEW c \in Callers, LockQueryFails(c) PROVE Gate!Fail(c)
    <2>1. UNCHANGED ownerOf \/ (ownerOf = None /\ ownerOf' = c)
      <3>1. CASE UNCHANGED lock
        BY <1>7, <3>1 DEF LockQueryFails, ownerOf
      <3>2. CASE lock = None /\ lock' = lockConn[c]
        <4>1. lockConn[c] # None /\ lockConn' = lockConn
          BY <1>7 DEF LockQueryFails, ConnsMatchStep
        <4> QED
          BY <3>2, <4>1 DEF OwnerMatchesLock
      <3>3. CASE lock = lockConn[c] /\ lock' = lockConn[c]
        BY <1>7, <3>3 DEF LockQueryFails, ownerOf
      <3> QED
        BY <1>7, <3>1, <3>2, <3>3 DEF LockQueryFails, TriedInVain
    <2>2. phaseOf[c] = "waiting"
      BY <1>7 DEF LockQueryFails, phaseOf, PhaseOf
    <2>3. phaseOf' = [phaseOf EXCEPT ![c] = "failed"]
      BY <1>7, PhaseMove DEF LockQueryFails, PhaseOf
    <2> QED
      BY <2>1, <2>2, <2>3 DEF Gate!Fail, Gate!MoveTo
  <1>8. ASSUME NEW c \in Callers, Wake(c) PROVE UNCHANGED <<ownerOf, phaseOf>>
    <2>1. ownerOf' = ownerOf
      BY <1>8 DEF Wake, ownerOf
    <2>2. phaseOf' = phaseOf
      BY <1>8, PhaseStay DEF Wake, PhaseOf
    <2> QED
      BY <2>1, <2>2
  <1>9. ASSUME NEW c \in Callers, DeadlinePasses(c) PROVE UNCHANGED <<ownerOf, phaseOf>>
    <2>1. ownerOf' = ownerOf
      BY <1>9 DEF DeadlinePasses, ownerOf
    <2>2. phaseOf' = phaseOf
      BY <1>9, PhaseStay DEF DeadlinePasses, PhaseOf
    <2> QED
      BY <2>1, <2>2
  <1>10. ASSUME NEW c \in Callers, AcquireBodyConn(c) PROVE UNCHANGED <<ownerOf, phaseOf>>
    <2>1. ownerOf' = ownerOf
      BY <1>10 DEF AcquireBodyConn, ownerOf
    <2>2. phaseOf' = phaseOf
      BY <1>10, PhaseStay DEF AcquireBodyConn, PhaseOf
    <2> QED
      BY <2>1, <2>2
  <1>11. ASSUME NEW c \in Callers, AcquireBodyConnFails(c) PROVE Gate!Leave(c)
    <2>1. ownerOf' = ownerOf
      BY <1>11 DEF AcquireBodyConnFails, ownerOf
    <2>2. phaseOf[c] = "inside"
      BY <1>11 DEF AcquireBodyConnFails, phaseOf, PhaseOf
    <2>3. phaseOf' = [phaseOf EXCEPT ![c] = "leaving"]
      BY <1>11, PhaseMove DEF AcquireBodyConnFails, PhaseOf
    <2> QED
      BY <2>1, <2>2, <2>3 DEF Gate!Leave, Gate!MoveTo
  <1>12. ASSUME NEW c \in Callers, RunBody(c) PROVE Gate!Leave(c)
    <2>1. ownerOf' = ownerOf
      BY <1>12 DEF RunBody, ownerOf
    <2>2. phaseOf[c] = "inside"
      BY <1>12 DEF RunBody, phaseOf, PhaseOf
    <2>3. phaseOf' = [phaseOf EXCEPT ![c] = "leaving"]
      BY <1>12, PhaseMove DEF RunBody, PhaseOf
    <2> QED
      BY <2>1, <2>2, <2>3 DEF Gate!Leave, Gate!MoveTo
  <1>13. ASSUME NEW c \in Callers, Unlock(c)
         PROVE  Gate!Release(c) \/ UNCHANGED <<ownerOf, phaseOf>>
    <2>1. phaseOf' = phaseOf
      BY <1>13, PhaseStay DEF Unlock, PhaseOf, ConnsMatchStep
    <2>2. lock = lockConn[c] /\ lock # None /\ lock' = None
      BY <1>13 DEF Unlock, PastTheTryHoldsLock, ConnsMatchStep
    <2>3. ownerOf = c /\ ownerOf' = None
      BY <2>2 DEF OwnerMatchesLock
    <2> QED
      BY <2>1, <2>3 DEF Gate!Release
  <1>14. ASSUME NEW c \in Callers, UnlockFails(c)
         PROVE  UNCHANGED <<ownerOf, phaseOf>>
    <2>1. ownerOf' = ownerOf
      BY <1>14 DEF UnlockFails, ownerOf
    <2>2. phaseOf' = phaseOf
      BY <1>14, PhaseStay DEF UnlockFails, PhaseOf
    <2> QED
      BY <2>1, <2>2
  <1>15. ASSUME NEW c \in Callers, GiveBack(c) PROVE Gate!Finish(c)
    <2>1. ownerOf' = IF ownerOf = c THEN None ELSE ownerOf
      <3>1. CASE lock = None
        BY <1>15, <3>1 DEF GiveBack, OwnerMatchesLock
      <3>2. CASE lock # None /\ lock = lockConn[c]
        BY <1>15, <3>2 DEF GiveBack, OwnerMatchesLock
      <3>3. CASE lock # None /\ lock # lockConn[c]
        <4>1. PICK d \in Callers : lockConn[d] = lock
          BY <3>3 DEF NoStrayLock
        <4>2. d # c /\ lock' = lock /\ lockConn'[d] = lockConn[d]
          BY <1>15, <3>3, <4>1 DEF GiveBack
        <4> QED
          BY <3>3, <4>1, <4>2 DEF OwnerMatchesLock
      <3> QED
        BY <3>1, <3>2, <3>3
    <2>2. phaseOf[c] \in {"leaving", "refused", "failed"}
      BY <1>15 DEF GiveBack, phaseOf, PhaseOf
    <2>3. phaseOf' = [phaseOf EXCEPT ![c] = "out"]
      BY <1>15, PhaseMove DEF GiveBack, PhaseOf
    <2> QED
      BY <2>1, <2>2, <2>3 DEF Gate!Finish, Gate!MoveTo
  <1>16. ASSUME NEW s \in Conns, LoseSession(s)
         PROVE  (\E c \in Callers : Gate!Release(c)) \/ UNCHANGED <<ownerOf, phaseOf>>
    <2>1. phaseOf' = phaseOf
      BY <1>16, PhaseStay DEF LoseSession, PhaseOf
    <2>2. CASE lock = s
      <3>1. ownerOf \in Callers /\ ownerOf' = None
        BY <1>16, <2>2 DEF LoseSession, OwnerMatchesLock
      <3> QED
        BY <2>1, <3>1 DEF Gate!Release
    <2>3. CASE lock # s
      BY <1>16, <2>1, <2>3 DEF LoseSession, ownerOf
    <2> QED
      BY <2>2, <2>3
  <1>17. ASSUME NEW p \in Procs, Crash(p) PROVE Gate!GateNext
    <2> DEFINE S == {c \in Callers : ProcOf(c) = p}
    <2>1. phaseOf' = [c \in Callers |-> IF c \in S THEN "out" ELSE phaseOf[c]]
      <3>1. \A c \in S : PhaseOf(c)' = "out"
        BY <1>17 DEF Crash, PhaseOf
      <3>2. \A c \in Callers \ S : PhaseOf(c)' = PhaseOf(c)
        BY <1>17 DEF Crash, PhaseOf
      <3> QED
        BY <3>1, <3>2 DEF phaseOf
    <2>2. ownerOf' = IF ownerOf \in S THEN None ELSE ownerOf
      <3>1. CASE lock = None
        BY <1>17, <3>1 DEF Crash, OwnerMatchesLock
      <3>2. CASE lock # None
        <4>1. ownerOf \in Callers /\ lockConn[ownerOf] = lock
          BY <3>2 DEF OwnerMatchesLock
        <4>2. ProcOf(lock) = ProcOf(ownerOf)
          BY <3>2, <4>1 DEF ConnsMatchStep
        <4>3. CASE ownerOf \in S
          BY <1>17, <3>2, <4>2, <4>3 DEF Crash, OwnerMatchesLock
        <4>4. CASE ownerOf \notin S
          <5>1. lock' = lock /\ lockConn'[ownerOf] = lock
            BY <1>17, <4>1, <4>2, <4>4 DEF Crash
          <5> QED
            BY <3>2, <4>1, <4>4, <5>1 DEF OwnerMatchesLock
        <4> QED
          BY <4>3, <4>4
      <3> QED
        BY <3>1, <3>2
    <2>3. Gate!Abandon(S)
      BY <2>1, <2>2 DEF Gate!Abandon
    <2> QED
      BY <2>3 DEF Gate!GateNext
  <1>18. CASE UNCHANGED vars
    <2>1. ownerOf' = ownerOf
      BY <1>18 DEF vars, ownerOf
    <2>2. phaseOf' = phaseOf
      BY <1>18, PhaseStay DEF vars, PhaseOf
    <2> QED
      BY <2>1, <2>2
  <1> QED
    BY <1>1, <1>2, <1>3, <1>4, <1>5, <1>6, <1>7, <1>8, <1>9, <1>10, <1>11, <1>12,
       <1>13, <1>14, <1>15, <1>16, <1>17, <1>18 DEF Next, Proceed, Gate!GateNext

(***************************************************************************)
(* The pool, the polling and the lost sessions implement the gate: callers *)
(* are granted it one at a time, and refused only while another owns it.   *)
(***************************************************************************)
THEOREM MigrationLockImplementsGate == Spec => ImplementsGate
  BY InitRefines, StepRefines, LockInvariant, PTL DEF Spec, ImplementsGate, Gate!GateSpec
==============================================================================
