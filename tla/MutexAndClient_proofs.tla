--------------------------- MODULE MutexAndClient_proofs --------------------
(***************************************************************************)
(* The safety of CoMutex for every number of slaves and mutexes and for    *)
(* every number of calls: types, mutual exclusion, that no waiter is lost, *)
(* and that CoMutexResume resumes only slaves suspended in CoMutexLock.    *)
(*                                                                         *)
(* The second part has the safety of the BenchMark2 client, another        *)
(* program on the pool, for every number of clients, of requests, of parts *)
(* of a message and of timers.                                             *)
(***************************************************************************)
EXTENDS Mutex, BenchClient, Schedule_proofs

-----------------------------------------------------------------------------
(* Types.                                                                  *)

\* No mutex is what stands for none.
LEMMA NoMutexIsNone == NoMutex \notin Mutexes
BY MutexAssumption DEF NoMutex

\* What TypeOK says of the variables that are not the scheduler's.
MutexTypeOK ==
  /\ mutexs_ \subseteq Mutexes
  /\ lock \in [Mutexes -> BOOLEAN]
  /\ hold_cid \in [Mutexes -> Cids \cup {kInvalidCid}]
  /\ suspend_cid_list \in [Mutexes -> Seq(Cids)]
  /\ locking \in [Cids -> Mutexes \cup {NoMutex}]
  /\ holds \in [Cids -> SUBSET Mutexes]
  /\ todo \subseteq (IF resuming THEN mutexs_ ELSE {})

\* Taking a lock keeps the types.
LEMMA AcquireTyped ==
  ASSUME MutexTypeOK, NEW m \in Mutexes, slave_cid_ \in Cids, Acquire(m)
  PROVE  /\ lock' \in [Mutexes -> BOOLEAN]
         /\ hold_cid' \in [Mutexes -> Cids \cup {kInvalidCid}]
         /\ holds' \in [Cids -> SUBSET Mutexes]
<1>1. lock' \in [Mutexes -> BOOLEAN]
  BY DEF Acquire, MutexTypeOK
<1>2. hold_cid' \in [Mutexes -> Cids \cup {kInvalidCid}]
  BY DEF Acquire, MutexTypeOK
<1>3. holds' \in [Cids -> SUBSET Mutexes]
  BY DEF Acquire, MutexTypeOK
<1>4. QED
  BY <1>1, <1>2, <1>3

\* A turn of CoMutexLock keeps the types.
LEMMA LockTurnTyped ==
  ASSUME TypeOK, NEW m \in Mutexes, ~ is_master_, LockTurn(m), UNCHANGED <<todo, resuming>>
  PROVE  PoolOK' /\ MutexTypeOK'
<1>0. slave_cid_ \in Cids /\ PoolOK /\ MutexTypeOK
  BY DEF TypeOK, ScheduleTypeOK, PoolOK, is_master_, MutexTypeOK
<1>1. CASE ~ lock[m]
  <2>1. PoolOK'
    BY <1>0, <1>1 DEF LockTurn, pool_vars, PoolOK, OneRunner, CountsNotIdle
  <2>2. Acquire(m)
    BY <1>1 DEF LockTurn
  <2>3. locking' \in [Cids -> Mutexes \cup {NoMutex}]
    BY <1>0, <1>1 DEF LockTurn, MutexTypeOK
  <2>4. mutexs_' \subseteq Mutexes /\ suspend_cid_list' \in [Mutexes -> Seq(Cids)]
    BY <1>0, <2>2 DEF Acquire, MutexTypeOK
  <2>5. todo' \subseteq (IF resuming' THEN mutexs_' ELSE {})
    BY <1>0, <2>2 DEF Acquire, MutexTypeOK
  <2>6. QED
    BY <1>0, <2>1, <2>2, <2>3, <2>4, <2>5, AcquireTyped DEF MutexTypeOK
<1>2. CASE lock[m]
  <2>1. PoolOK'
    BY <1>0, <1>2, YieldKeepsPool DEF LockTurn
  <2>2. Append(suspend_cid_list[m], slave_cid_) \in Seq(Cids)
    BY <1>0, AppendProperties DEF TypeOK
  <2>3. suspend_cid_list' \in [Mutexes -> Seq(Cids)]
    BY <1>2, <2>2 DEF LockTurn, Enqueue, TypeOK
  <2>4. QED
    BY <1>0, <1>2, <2>1, <2>3 DEF LockTurn, TypeOK, MutexTypeOK
<1>3. QED
  BY <1>1, <1>2

\* So does erasing the entry of the slave that releases a lock.
LEMMA DequeueTyped ==
  ASSUME TypeOK, NEW m \in Mutexes, Dequeue(m)
  PROVE  suspend_cid_list' \in [Mutexes -> Seq(Cids)]
<1>1. CASE Queued(m, slave_cid_)
  <2>1. PICK i \in DOMAIN suspend_cid_list[m] :
          suspend_cid_list' = [suspend_cid_list EXCEPT ![m] = RemoveAt(@, i)]
    BY <1>1 DEF Dequeue
  <2>2. suspend_cid_list[m] \in Seq(Cids)
    BY DEF TypeOK
  <2>3. i \in 1 .. Len(suspend_cid_list[m])
    BY <2>2, LenProperties
  <2>4. RemoveAt(suspend_cid_list[m], i) \in Seq(Cids)
    BY <2>2, <2>3, RemoveAtProperties
  <2>5. QED
    BY <2>1, <2>4 DEF TypeOK
<1>2. CASE ~ Queued(m, slave_cid_)
  BY <1>2 DEF Dequeue, TypeOK
<1>3. QED
  BY <1>1, <1>2

\* Every step keeps the types.
LEMMA NextTyped ==
  ASSUME TypeOK, [Next]_vars
  PROVE  TypeOK'
<1>0. ScheduleTypeOK /\ PoolOK /\ MutexTypeOK
  BY DEF TypeOK, ScheduleTypeOK, MutexTypeOK
<1> SUFFICES ScheduleTypeOK' /\ MutexTypeOK'
  BY DEF TypeOK, MutexTypeOK
<1>1. ASSUME NEW m \in Mutexes, CoMutexLock(m)
      PROVE  ScheduleTypeOK' /\ MutexTypeOK'
  <2>1. PoolOK' /\ MutexTypeOK'
    BY <1>1, LockTurnTyped DEF CoMutexLock, InEntry, master_vars
  <2>2. calls' \in [Cids -> 0 .. MaxCalls]
    BY <1>0, <1>1, CallTyped DEF CoMutexLock
  <2>3. QED
    BY <1>0, <1>1, <2>1, <2>2 DEF CoMutexLock, master_vars, ScheduleTypeOK
<1>2. ASSUME NEW m \in Mutexes, CoMutexTryLock(m)
      PROVE  ScheduleTypeOK' /\ MutexTypeOK'
  <2>1. PoolOK' /\ slave_cid_ \in Cids
    BY <1>0, <1>2
       DEF CoMutexTryLock, InEntry, is_master_, pool_vars, PoolOK, OneRunner, CountsNotIdle
  <2>2. calls' \in [Cids -> 0 .. MaxCalls]
    BY <1>0, <1>2, CallTyped DEF CoMutexTryLock
  <2>3. MutexTypeOK'
    <3>1. CASE lock[m]
      BY <1>0, <1>2, <3>1 DEF CoMutexTryLock, mutex_vars, master_vars, MutexTypeOK
    <3>2. CASE ~ lock[m]
      <4>1. Acquire(m) /\ UNCHANGED <<resuming, locking, todo>>
        BY <1>2, <3>2 DEF CoMutexTryLock, master_vars
      <4>2. mutexs_' = mutexs_ /\ suspend_cid_list' = suspend_cid_list
        BY <4>1 DEF Acquire
      <4>3. QED
        BY <1>0, <2>1, <4>1, <4>2, AcquireTyped DEF MutexTypeOK
    <3>3. QED
      BY <3>1, <3>2
  <2>4. QED
    BY <1>0, <1>2, <2>1, <2>2, <2>3 DEF CoMutexTryLock, master_vars, ScheduleTypeOK
<1>3. ASSUME NEW m \in Mutexes, CoMutexUnLock(m)
      PROVE  ScheduleTypeOK' /\ MutexTypeOK'
  <2>1. ScheduleTypeOK'
    BY <1>0, <1>3, UnchangedTyped DEF CoMutexUnLock
  <2>2. suspend_cid_list' \in [Mutexes -> Seq(Cids)]
    BY <1>3, DequeueTyped DEF CoMutexUnLock
  <2>3. slave_cid_ \in Cids
    BY <1>0, <1>3 DEF CoMutexUnLock, InEntry, is_master_, PoolOK
  <2>4. QED
    BY <1>0, <1>3, <2>1, <2>2, <2>3
       DEF CoMutexUnLock, MutexTypeOK, schedule_vars, master_vars
<1>4. CASE CoMutexLockAgain
  <2>1. slave_cid_ \in Cids /\ locking[slave_cid_] \in Mutexes
    BY <1>0, <1>4 DEF CoMutexLockAgain, InEntry, is_master_, PoolOK, MutexTypeOK
  <2>2. PoolOK' /\ MutexTypeOK'
    BY <1>4, <2>1, LockTurnTyped DEF CoMutexLockAgain, master_vars
  <2>3. QED
    BY <1>0, <1>4, <2>2 DEF CoMutexLockAgain, master_vars, ScheduleTypeOK
<1>5. CASE SlaveStep
  <2>1. ScheduleTypeOK'
    BY <1>0, <1>5, SlaveStepTyped DEF SlaveStep
  <2>2. UNCHANGED resuming
    BY <1>5 DEF SlaveStep, Yield, Spawn, Return, master_vars
  <2>3. QED
    BY <1>0, <1>5, <2>1, <2>2 DEF SlaveStep, mutex_vars, MutexTypeOK
<1>6. CASE MasterStep
  <2>1. ScheduleTypeOK'
    BY <1>0, <1>6, MasterStepTyped DEF MasterStep
  <2>2. UNCHANGED resuming
    BY <1>6 DEF MasterStep, Create, RunBegin, EventResume, master_vars
  <2>3. QED
    BY <1>0, <1>6, <2>1, <2>2 DEF MasterStep, mutex_vars, MutexTypeOK
<1>7. CASE RunScanStep
  <2>1. ScheduleTypeOK'
    BY <1>0, <1>7, RunScanTyped DEF RunScanStep
  <2>2. QED
    BY <1>0, <1>7, <2>1 DEF RunScanStep, RunScan, mutex_vars, MutexTypeOK
<1>8. CASE CoMutexResumeBegin
  <2>1. ScheduleTypeOK'
    BY <1>0, <1>8, ResumeLoopTyped DEF CoMutexResumeBegin
  <2>2. QED
    BY <1>0, <1>8, <2>1 DEF CoMutexResumeBegin, ResumeBegin, mutex_vars, MutexTypeOK
<1>9. ASSUME NEW m \in Mutexes, CoMutexResume(m)
      PROVE  ScheduleTypeOK' /\ MutexTypeOK'
  <2>1. CASE ~ lock[m] /\ suspend_cid_list[m] # <<>>
    <3>1. /\ Head(suspend_cid_list[m]) \in Cids
          /\ Tail(suspend_cid_list[m]) \in Seq(Cids)
      BY <1>0, <2>1, HeadTailProperties DEF MutexTypeOK
    <3>2. PoolOK'
      BY <1>0, <1>9, <2>1, <3>1, ResumeKeepsPool DEF CoMutexResume
    <3>3. suspend_cid_list' \in [Mutexes -> Seq(Cids)]
      BY <1>0, <1>9, <2>1, <3>1 DEF CoMutexResume, MutexTypeOK
    <3>4. QED
      BY <1>0, <1>9, <3>2, <3>3 DEF CoMutexResume, master_vars, MutexTypeOK, ScheduleTypeOK
  <2>2. CASE ~ (~ lock[m] /\ suspend_cid_list[m] # <<>>)
    <3>1. UNCHANGED <<suspend_cid_list, schedule_vars>>
      BY <1>9, <2>2 DEF CoMutexResume, schedule_vars
    <3>2. ScheduleTypeOK'
      BY <1>0, <3>1, UnchangedTyped
    <3>3. QED
      BY <1>0, <1>9, <3>1, <3>2 DEF CoMutexResume, master_vars, MutexTypeOK
  <2>3. QED
    BY <2>1, <2>2
<1>10. CASE CoMutexResumeEnd
  <2>1. ScheduleTypeOK'
    BY <1>0, <1>10, ResumeLoopTyped DEF CoMutexResumeEnd
  <2>2. QED
    BY <1>0, <1>10, <2>1 DEF CoMutexResumeEnd, ResumeEnd, mutex_vars, MutexTypeOK
<1>11. ASSUME NEW m \in Mutexes, CoMutexInit(m) \/ CoMutexClear(m)
       PROVE  ScheduleTypeOK' /\ MutexTypeOK'
  <2>1. ScheduleTypeOK'
    BY <1>0, <1>11, UnchangedTyped DEF CoMutexInit, CoMutexClear
  <2>2. ~ resuming
    BY <1>11 DEF CoMutexInit, CoMutexClear, AtLarge
  <2>3. QED
    BY <1>0, <1>11, <2>1, <2>2
       DEF CoMutexInit, CoMutexClear, MutexTypeOK, schedule_vars, master_vars
<1>12. CASE UNCHANGED vars
  <2>1. ScheduleTypeOK'
    BY <1>0, <1>12, UnchangedTyped DEF vars
  <2>2. QED
    BY <1>0, <1>12, <2>1 DEF vars, mutex_vars, schedule_vars, master_vars, MutexTypeOK
<1>13. QED
  BY <1>1, <1>2, <1>3, <1>4, <1>5, <1>6, <1>7, <1>8, <1>9, <1>10, <1>11, <1>12
     DEF Next, Slave, Resume

\* The types hold at the start.
LEMMA InitTyped ==
  ASSUME Init
  PROVE  TypeOK
<1>1. ScheduleTypeOK
  BY InitPool DEF Init
<1>2. <<>> \in Seq(Cids)
  BY EmptySeq
<1>3. QED
  BY <1>1, <1>2 DEF Init, TypeOK

\* Every variable of CoMutex has its type and the pool is consistent, for every number of
\* slaves, of mutexes and of calls.
THEOREM Typed == Spec => []TypeOK
BY InitTyped, NextTyped, PTL DEF Spec

-----------------------------------------------------------------------------
(* The inductive invariant.  MutualExclusion is not inductive by itself: a *)
(* waiter taken from the queue must find the lock free, a lock that is     *)
(* constructed must not be held, and a slave that ends must not be waiting *)
(* nor queued.                                                             *)

\* A free lock has no holder.
FreeHasNoHolder == \A m \in Mutexes : ~ lock[m] => hold_cid[m] = kInvalidCid

\* A mutex that is held or waited for has been constructed.
UsedIsKnown == \A m \in Mutexes : InUse(m) => m \in mutexs_

\* A slave inside CoMutexLock is suspended, unless it has the thread.
WaiterSuspended ==
  \A c \in Cids : locking[c] # NoMutex /\ slave_cid_ # c => state[c] = "kSuspend"

\* Whoever is in a queue holds the lock or waits for it, and is there once.
QueueEntries ==
  \A m \in Mutexes : \A c \in ToSet(suspend_cid_list[m]) : hold_cid[m] = c \/ locking[c] = m

QueueUnique == \A m \in Mutexes : IsInjective(suspend_cid_list[m])

IInv ==
  /\ MutualExclusion
  /\ WaiterQueuedOrServed
  /\ FreeHasNoHolder
  /\ UsedIsKnown
  /\ WaiterSuspended
  /\ QueueEntries
  /\ QueueUnique

\* While the master or the entry function of a slave runs, every slave inside CoMutexLock
\* is suspended and queued.
LEMMA Quiet ==
  ASSUME TypeOK, IInv, is_master_ \/ InEntry
  PROVE  \A c \in Cids : locking[c] # NoMutex =>
           c # slave_cid_ /\ state[c] = "kSuspend" /\ Queued(locking[c], c)
<1>1. SUFFICES ASSUME NEW c \in Cids, locking[c] # NoMutex
               PROVE  c # slave_cid_ /\ state[c] = "kSuspend" /\ Queued(locking[c], c)
  OBVIOUS
<1>2. c # slave_cid_
  BY <1>1, InvalidIsNoCid DEF is_master_, InEntry
<1>3. locking[c] \in Mutexes
  BY <1>1 DEF TypeOK
<1>4. QED
  BY <1>1, <1>2, <1>3 DEF IInv, WaiterSuspended, WaiterQueuedOrServed

\* A step that leaves the mutexes alone and suspends or spares the waiters.
LEMMA QuietStep ==
  ASSUME TypeOK, IInv, is_master_ \/ InEntry,
         UNCHANGED <<mutex_vars, locking, holds>>,
         \A c \in Cids : locking[c] # NoMutex /\ slave_cid_' # c => state'[c] = "kSuspend"
  PROVE  IInv'
<1>1. WaiterQueuedOrServed'
  BY Quiet, NoMutexIsNone DEF WaiterQueuedOrServed, Queued, mutex_vars
<1>2. WaiterSuspended'
  BY DEF WaiterSuspended
<1>3. QED
  BY <1>1, <1>2
     DEF IInv, MutualExclusion, FreeHasNoHolder, UsedIsKnown, InUse, QueueEntries, QueueUnique,
         mutex_vars

\* Yielding, creating a slave, ending, and what the master does between the iterations.
LEMMA OtherStepKeepsIInv ==
  ASSUME TypeOK, IInv,
         SlaveStep \/ MasterStep \/ RunScanStep \/ CoMutexResumeBegin \/ CoMutexResumeEnd
  PROVE  IInv'
<1>1. /\ is_master_ \/ InEntry
      /\ UNCHANGED <<mutex_vars, locking, holds>>
  BY DEF SlaveStep, MasterStep, RunScanStep, CoMutexResumeBegin, CoMutexResumeEnd, Create,
         RunBegin, EventResume, AtLarge, RunScan, ResumeBegin, ResumeEnd
<1>2. \A c \in Cids : locking[c] # NoMutex => c # slave_cid_ /\ state[c] = "kSuspend"
  BY <1>1, Quiet
<1>3. SUFFICES ASSUME NEW c \in Cids, locking[c] # NoMutex, slave_cid_' # c
               PROVE  state'[c] = "kSuspend"
  BY <1>1, QuietStep
<1>4. state[c] = "kSuspend" /\ c # slave_cid_ /\ c \notin Idle /\ state \in [Cids -> State]
  BY <1>2, <1>3 DEF Idle, TypeOK, ScheduleTypeOK, PoolOK
<1>5. CASE SlaveStep
  <2>1. CASE Yield
    BY <1>3, <1>4, <2>1 DEF Yield, CoroutineYield
  <2>2. CASE Spawn
    BY <1>4, <2>2 DEF Spawn, LowestIdle, CoroutineInit
  <2>3. CASE Return
    BY <1>4, <2>3 DEF Return, CoroutineRun
  <2>4. QED
    BY <1>5, <2>1, <2>2, <2>3 DEF SlaveStep
<1>6. CASE MasterStep
  <2>1. CASE Create
    BY <1>4, <2>1 DEF Create, LowestIdle, CoroutineInit
  <2>2. CASE RunBegin
    BY <1>4, <2>2 DEF RunBegin, pool_vars
  <2>3. CASE \E d \in Cids : EventResume(d)
    BY <1>3, <1>4, <2>3 DEF EventResume, CoroutineResume
  <2>4. QED
    BY <1>6, <2>1, <2>2, <2>3 DEF MasterStep
<1>7. CASE RunScanStep
  BY <1>3, <1>4, <1>7 DEF RunScanStep, RunScan, CoroutineResume, pool_vars
<1>8. CASE CoMutexResumeBegin \/ CoMutexResumeEnd
  BY <1>4, <1>8 DEF CoMutexResumeBegin, CoMutexResumeEnd, ResumeBegin, ResumeEnd, pool_vars
<1>9. QED
  BY <1>5, <1>6, <1>7, <1>8

\* Only slaves are queued.
LEMMA QueuesTyped ==
  ASSUME TypeOK
  PROVE  \A n \in Mutexes : ToSet(suspend_cid_list[n]) \subseteq Cids
<1>1. SUFFICES ASSUME NEW n \in Mutexes PROVE ToSet(suspend_cid_list[n]) \subseteq Cids
  OBVIOUS
<1>2. suspend_cid_list[n] \in Seq(Cids)
  BY DEF TypeOK
<1>3. \A i \in DOMAIN suspend_cid_list[n] : suspend_cid_list[n][i] \in Cids
  BY <1>2, ElementOfSeq, LenProperties
<1>4. QED
  BY <1>3 DEF ToSet

\* The running slave takes a free lock, by CoMutexTryLock or in a turn of CoMutexLock.
LEMMA AcquireKeepsIInv ==
  ASSUME TypeOK, IInv, NEW m \in Mutexes, m \in mutexs_, ~ is_master_, ~ lock[m],
         locking[slave_cid_] \in {NoMutex, m},
         Acquire(m), UNCHANGED pool_vars,
         locking' = [locking EXCEPT ![slave_cid_] = NoMutex]
  PROVE  IInv'
<1>0. /\ slave_cid_ \in Cids
      /\ lock \in [Mutexes -> BOOLEAN]
      /\ hold_cid \in [Mutexes -> Cids \cup {kInvalidCid}]
      /\ locking \in [Cids -> Mutexes \cup {NoMutex}]
      /\ holds \in [Cids -> SUBSET Mutexes]
      /\ \A n \in Mutexes : ToSet(suspend_cid_list[n]) \subseteq Cids
  BY QueuesTyped DEF TypeOK, ScheduleTypeOK, PoolOK, is_master_
<1>1. MutualExclusion'
  BY <1>0 DEF IInv, MutualExclusion, Acquire
<1>2. WaiterQueuedOrServed'
  BY <1>0, NoMutexIsNone DEF IInv, WaiterQueuedOrServed, Queued, Acquire, pool_vars
<1>3. FreeHasNoHolder'
  BY <1>0 DEF IInv, FreeHasNoHolder, Acquire
<1>4. UsedIsKnown'
  BY <1>0, NoMutexIsNone DEF IInv, UsedIsKnown, InUse, Acquire
<1>5. WaiterSuspended'
  BY <1>0 DEF IInv, WaiterSuspended, pool_vars
<1>6. QueueEntries' /\ QueueUnique'
  BY <1>0, InvalidIsNoCid, NoMutexIsNone
     DEF IInv, QueueEntries, QueueUnique, FreeHasNoHolder, Acquire
<1>7. QED
  BY <1>1, <1>2, <1>3, <1>4, <1>5, <1>6 DEF IInv

\* The running slave finds the lock taken and is suspended in CoMutexLock.
LEMMA WaitKeepsIInv ==
  ASSUME TypeOK, IInv, NEW m \in Mutexes, m \in mutexs_, ~ is_master_,
         locking[slave_cid_] \in {NoMutex, m},
         Enqueue(m), CoroutineYield,
         locking' = [locking EXCEPT ![slave_cid_] = m],
         UNCHANGED <<mutexs_, lock, hold_cid, holds>>
  PROVE  IInv'
<1>0. /\ slave_cid_ \in Cids
      /\ state \in [Cids -> State]
      /\ locking \in [Cids -> Mutexes \cup {NoMutex}]
      /\ suspend_cid_list \in [Mutexes -> Seq(Cids)]
  BY DEF TypeOK, ScheduleTypeOK, PoolOK, is_master_
<1>1. /\ ToSet(suspend_cid_list'[m]) = ToSet(suspend_cid_list[m]) \cup {slave_cid_}
      /\ IsInjective(suspend_cid_list'[m])
      /\ \A n \in Mutexes \ {m} : suspend_cid_list'[n] = suspend_cid_list[n]
  <2>1. IsInjective(suspend_cid_list[m])
    BY DEF IInv, QueueUnique
  <2>2. CASE Queued(m, slave_cid_)
    BY <2>1, <2>2 DEF Enqueue, Queued
  <2>3. CASE ~ Queued(m, slave_cid_)
    <3>1. suspend_cid_list'[m] = Append(suspend_cid_list[m], slave_cid_)
      BY <1>0, <2>3 DEF Enqueue
    <3>2. \A n \in Mutexes \ {m} : suspend_cid_list'[n] = suspend_cid_list[n]
      BY <1>0, <2>3 DEF Enqueue
    <3>3. suspend_cid_list[m] \in Seq(Cids) /\ slave_cid_ \notin ToSet(suspend_cid_list[m])
      BY <1>0, <2>3 DEF Queued
    <3>4. QED
      BY <1>0, <2>1, <3>1, <3>2, <3>3, AppendEntries
  <2>4. QED
    BY <2>2, <2>3
<1>2. \A n \in Mutexes, c \in Cids \ {slave_cid_} : locking[c] = n => Queued(n, c)
  BY DEF IInv, WaiterQueuedOrServed
<1>3. WaiterQueuedOrServed'
  BY <1>0, <1>1, <1>2, NoMutexIsNone DEF WaiterQueuedOrServed, Queued
<1>4. WaiterSuspended'
  BY <1>0 DEF IInv, WaiterSuspended, CoroutineYield
<1>5. QueueEntries'
  BY <1>0, <1>1, QueuesTyped, NoMutexIsNone DEF IInv, QueueEntries
<1>6. QueueUnique'
  BY <1>1 DEF IInv, QueueUnique
<1>7. UsedIsKnown'
  BY <1>0 DEF IInv, UsedIsKnown, InUse
<1>8. QED
  BY <1>3, <1>4, <1>5, <1>6, <1>7 DEF IInv, MutualExclusion, FreeHasNoHolder

\* A turn of CoMutexLock, the first or a later one.
LEMMA LockTurnKeepsIInv ==
  ASSUME TypeOK, IInv, NEW m \in Mutexes, m \in mutexs_, ~ is_master_,
         locking[slave_cid_] \in {NoMutex, m}, LockTurn(m)
  PROVE  IInv'
<1>1. CASE lock[m]
  BY <1>1, WaitKeepsIInv DEF LockTurn
<1>2. CASE ~ lock[m]
  BY <1>2, AcquireKeepsIInv DEF LockTurn
<1>3. QED
  BY <1>1, <1>2

\* The holder releases the lock and leaves the queue.
LEMMA UnLockKeepsIInv ==
  ASSUME TypeOK, IInv, NEW m \in Mutexes, CoMutexUnLock(m)
  PROVE  IInv'
<1>0. /\ slave_cid_ \in Cids
      /\ lock \in [Mutexes -> BOOLEAN]
      /\ hold_cid \in [Mutexes -> Cids \cup {kInvalidCid}]
      /\ locking \in [Cids -> Mutexes \cup {NoMutex}]
      /\ holds \in [Cids -> SUBSET Mutexes]
      /\ suspend_cid_list \in [Mutexes -> Seq(Cids)]
  BY DEF CoMutexUnLock, InEntry, TypeOK, ScheduleTypeOK, PoolOK, is_master_
<1>1. /\ ToSet(suspend_cid_list'[m]) = ToSet(suspend_cid_list[m]) \ {slave_cid_}
      /\ IsInjective(suspend_cid_list'[m])
      /\ \A n \in Mutexes \ {m} : suspend_cid_list'[n] = suspend_cid_list[n]
  <2>1. IsInjective(suspend_cid_list[m]) /\ Dequeue(m)
    BY DEF IInv, QueueUnique, CoMutexUnLock
  <2>2. CASE Queued(m, slave_cid_)
    <3>1. PICK i \in DOMAIN suspend_cid_list[m] :
            /\ suspend_cid_list[m][i] = slave_cid_
            /\ suspend_cid_list' = [suspend_cid_list EXCEPT ![m] = RemoveAt(@, i)]
      BY <2>1, <2>2 DEF Dequeue
    <3>2. suspend_cid_list[m] \in Seq(Cids) /\ i \in 1 .. Len(suspend_cid_list[m])
      BY <1>0, LenProperties
    <3>3. /\ suspend_cid_list'[m] = RemoveAt(suspend_cid_list[m], i)
          /\ \A n \in Mutexes \ {m} : suspend_cid_list'[n] = suspend_cid_list[n]
      BY <1>0, <3>1
    <3>4. QED
      BY <2>1, <3>1, <3>2, <3>3, RemoveAtEntries
  <2>3. CASE ~ Queued(m, slave_cid_)
    BY <2>1, <2>3 DEF Dequeue, Queued
  <2>4. QED
    BY <2>2, <2>3
<1>2. /\ hold_cid[m] = slave_cid_ /\ lock[m]
      /\ locking[slave_cid_] = NoMutex
  BY <1>0 DEF CoMutexUnLock, InEntry, IInv, MutualExclusion
<1>3. MutualExclusion'
  BY <1>0, <1>2 DEF IInv, MutualExclusion, CoMutexUnLock
<1>4. WaiterQueuedOrServed'
  BY <1>0, <1>1, <1>2, NoMutexIsNone
     DEF IInv, WaiterQueuedOrServed, Queued, CoMutexUnLock, schedule_vars, pool_vars
<1>5. FreeHasNoHolder' /\ UsedIsKnown'
  BY <1>0 DEF IInv, FreeHasNoHolder, UsedIsKnown, InUse, CoMutexUnLock
<1>6. WaiterSuspended'
  BY DEF IInv, WaiterSuspended, CoMutexUnLock, schedule_vars, pool_vars
<1>7. QueueEntries'
  BY <1>0, <1>1, <1>2 DEF IInv, QueueEntries, CoMutexUnLock
<1>8. QueueUnique'
  BY <1>1 DEF IInv, QueueUnique
<1>9. QED
  BY <1>3, <1>4, <1>5, <1>6, <1>7, <1>8 DEF IInv

\* A mutex is constructed: nobody holds it, waits for it or is in its queue.
LEMMA InitKeepsIInv ==
  ASSUME TypeOK, IInv, NEW m \in Mutexes, CoMutexInit(m)
  PROVE  IInv'
<1>0. /\ lock \in [Mutexes -> BOOLEAN]
      /\ hold_cid \in [Mutexes -> Cids \cup {kInvalidCid}]
  BY DEF TypeOK
<1>1. \A c \in Cids : locking[c] # m /\ m \notin holds[c]
  BY DEF CoMutexInit, IInv, UsedIsKnown, InUse
<1>2. ToSet(suspend_cid_list[m]) = {}
  BY <1>0, <1>1, QueuesTyped, InvalidIsNoCid
     DEF IInv, QueueEntries, FreeHasNoHolder, MutualExclusion
<1>3. /\ MutualExclusion'
      /\ FreeHasNoHolder'
      /\ UsedIsKnown'
  BY <1>0, <1>1
     DEF IInv, MutualExclusion, FreeHasNoHolder, UsedIsKnown, InUse, CoMutexInit
<1>4. WaiterQueuedOrServed' /\ WaiterSuspended'
  BY <1>0, <1>1
     DEF IInv, WaiterQueuedOrServed, Queued, WaiterSuspended, CoMutexInit, schedule_vars, pool_vars
<1>5. QueueEntries' /\ QueueUnique'
  BY <1>0, <1>2 DEF IInv, QueueEntries, QueueUnique, CoMutexInit
<1>6. QED
  BY <1>3, <1>4, <1>5 DEF IInv

\* A mutex that is not in use is destroyed.
LEMMA ClearKeepsIInv ==
  ASSUME TypeOK, IInv, NEW m \in Mutexes, CoMutexClear(m)
  PROVE  IInv'
BY DEF CoMutexClear, InUse, IInv, MutualExclusion, FreeHasNoHolder, UsedIsKnown, QueueEntries,
       QueueUnique, WaiterQueuedOrServed, Queued, WaiterSuspended, schedule_vars, pool_vars

\* CoMutexResume comes to a mutex: the waiter it takes from the queue finds the lock free.
LEMMA ResumeKeepsIInv ==
  ASSUME TypeOK, IInv, NEW m \in Mutexes, CoMutexResume(m)
  PROVE  IInv'
<1>0. /\ state \in [Cids -> State]
      /\ suspend_cid_list \in [Mutexes -> Seq(Cids)]
      /\ is_master_
      /\ UNCHANGED <<mutexs_, lock, hold_cid, locking, holds>>
  BY DEF TypeOK, ScheduleTypeOK, PoolOK, CoMutexResume
<1>1. \A c \in Cids : locking[c] # NoMutex =>
        c # slave_cid_ /\ state[c] = "kSuspend" /\ Queued(locking[c], c)
  BY <1>0, Quiet
<1>2. CASE ~ lock[m] /\ suspend_cid_list[m] # <<>>
  <2> DEFINE c == Head(suspend_cid_list[m])
  <2>1. /\ c \in Cids
        /\ CoroutineResume(c)
        /\ ToSet(suspend_cid_list'[m]) = ToSet(suspend_cid_list[m]) \ {c}
        /\ IsInjective(suspend_cid_list'[m])
        /\ \A n \in Mutexes \ {m} : suspend_cid_list'[n] = suspend_cid_list[n]
    <3>1. suspend_cid_list[m] \in Seq(Cids) /\ IsInjective(suspend_cid_list[m])
      BY <1>0 DEF IInv, QueueUnique
    <3>2. /\ suspend_cid_list'[m] = Tail(suspend_cid_list[m])
          /\ \A n \in Mutexes \ {m} : suspend_cid_list'[n] = suspend_cid_list[n]
          /\ CoroutineResume(c)
      BY <1>0, <1>2 DEF CoMutexResume
    <3>3. c \in Cids
      BY <1>2, <3>1, HeadTailProperties
    <3>4. QED
      BY <1>2, <3>1, <3>2, <3>3, TailEntries
  <2> HIDE DEF c
  <2>2. slave_cid_' = c /\ state' = [state EXCEPT ![c] = "kRun"]
    BY <2>1 DEF CoroutineResume
  <2>3. WaiterQueuedOrServed'
    BY <1>0, <1>1, <1>2, <2>1, <2>2, NoMutexIsNone DEF WaiterQueuedOrServed, Queued
  <2>4. WaiterSuspended'
    BY <1>0, <1>1, <2>1, <2>2 DEF WaiterSuspended
  <2>5. QueueEntries' /\ QueueUnique'
    BY <1>0, <2>1 DEF IInv, QueueEntries, QueueUnique
  <2>6. QED
    BY <1>0, <2>3, <2>4, <2>5 DEF IInv, MutualExclusion, FreeHasNoHolder, UsedIsKnown, InUse
<1>3. CASE ~ (~ lock[m] /\ suspend_cid_list[m] # <<>>)
  <2>1. UNCHANGED <<suspend_cid_list, state>>
    BY <1>3 DEF CoMutexResume, pool_vars
  <2>2. QED
    BY <1>0, <1>1, <2>1, QuietStep DEF mutex_vars
<1>4. QED
  BY <1>2, <1>3

\* The invariant is inductive.
LEMMA NextKeepsIInv ==
  ASSUME TypeOK, IInv, [Next]_vars
  PROVE  IInv'
<1>1. ASSUME NEW m \in Mutexes, CoMutexLock(m) PROVE IInv'
  BY <1>1, LockTurnKeepsIInv DEF CoMutexLock, InEntry
<1>2. CASE CoMutexLockAgain
  <2>1. /\ ~ is_master_ /\ slave_cid_ \in Cids
        /\ locking[slave_cid_] \in Mutexes
        /\ LockTurn(locking[slave_cid_])
    BY <1>2 DEF CoMutexLockAgain, InEntry, is_master_, TypeOK, ScheduleTypeOK, PoolOK
  <2>2. locking[slave_cid_] \in mutexs_
    BY <2>1 DEF IInv, UsedIsKnown, InUse
  <2>3. QED
    BY <2>1, <2>2, LockTurnKeepsIInv
<1>3. ASSUME NEW m \in Mutexes, CoMutexTryLock(m) PROVE IInv'
  <2>1. /\ ~ is_master_ /\ slave_cid_ \in Cids /\ m \in mutexs_
        /\ locking[slave_cid_] = NoMutex
        /\ locking \in [Cids -> Mutexes \cup {NoMutex}]
        /\ UNCHANGED <<pool_vars, locking>>
    BY <1>3 DEF CoMutexTryLock, InEntry, is_master_, TypeOK, ScheduleTypeOK, PoolOK
  <2>2. CASE lock[m]
    <3>1. UNCHANGED <<mutex_vars, holds>>
      BY <1>3, <2>2 DEF CoMutexTryLock
    <3>2. QED
      BY <2>1, <3>1, Quiet, QuietStep DEF InEntry, pool_vars
  <2>3. CASE ~ lock[m]
    <3>1. Acquire(m)
      BY <1>3, <2>3 DEF CoMutexTryLock
    <3>2. locking' = [locking EXCEPT ![slave_cid_] = NoMutex]
      BY <2>1
    <3>3. QED
      BY <2>1, <2>3, <3>1, <3>2, AcquireKeepsIInv
  <2>4. QED
    BY <2>2, <2>3
<1>4. CASE UNCHANGED vars
  BY <1>4 DEF vars, schedule_vars, pool_vars, mutex_vars, IInv, MutualExclusion, FreeHasNoHolder,
       UsedIsKnown, InUse, QueueEntries, QueueUnique, WaiterQueuedOrServed, Queued, WaiterSuspended
<1>5. QED
  BY <1>1, <1>2, <1>3, <1>4, UnLockKeepsIInv, InitKeepsIInv, ClearKeepsIInv, ResumeKeepsIInv,
     OtherStepKeepsIInv DEF Next, Slave, Resume

\* It holds at the start.
LEMMA InitIInv ==
  ASSUME Init
  PROVE  IInv
<1>1. \A m \in Mutexes : suspend_cid_list[m] = <<>>
  BY DEF Init
<1>2. QueueEntries /\ QueueUnique
  BY <1>1 DEF QueueEntries, QueueUnique, ToSet, IsInjective
<1>3. QED
  BY <1>2, NoMutexIsNone
     DEF Init, IInv, MutualExclusion, WaiterQueuedOrServed, FreeHasNoHolder, UsedIsKnown, InUse,
         WaiterSuspended

\* So the invariant holds always: the step from one state to the next, made once for all states.
LEMMA AlwaysIInv == Spec => [](TypeOK /\ IInv)
<1>1. Init => TypeOK /\ IInv
  BY InitTyped, InitIInv
<1>2. TypeOK /\ IInv /\ [Next]_vars => TypeOK' /\ IInv'
  BY NextTyped, NextKeepsIInv
<1>3. QED
  BY <1>1, <1>2, PTL DEF Spec

-----------------------------------------------------------------------------
(* The safety properties of CoMutex.                                       *)

\* A mutex is held by at most one slave, the one it records, however the holder yields,
\* whoever resumes the waiters and however mutexes are constructed and destroyed meanwhile.
THEOREM Exclusive == Spec => []MutualExclusion
BY AlwaysIInv, PTL DEF IInv

\* No waiter is lost: who is inside CoMutexLock is queued, or was taken from the queue for
\* a lock that is still free when it looks.
THEOREM NoWaiterLost == Spec => []WaiterQueuedOrServed
BY AlwaysIInv, PTL DEF IInv

\* CoMutexResume resumes only slaves suspended inside CoMutexLock of the free mutex.
THEOREM Resumables == Spec => []QueueResumable
<1>1. TypeOK /\ IInv => QueueResumable
  <2>1. SUFFICES ASSUME TypeOK, IInv PROVE QueueResumable
    OBVIOUS
  <2>2. \A m \in Mutexes : ToSet(suspend_cid_list[m]) \subseteq Cids
    BY <2>1, QueuesTyped
  <2>3. QED
    BY <2>1, <2>2, NoMutexIsNone
       DEF IInv, QueueEntries, QueueUnique, WaiterSuspended, QueueResumable
<1>2. QED
  BY <1>1, AlwaysIInv, PTL

-----------------------------------------------------------------------------
(* The inductive invariant of the client.                                  *)

\* What may have stopped the process, and "none".
Failures == {"none", "empty", "clear", "decode", "pipe"}

\* Where a client is only while it has the thread; and where it is about to start a timer.
Holds == {"connect", "send", "write", "recv", "read", "clear"}
Begins == {"send", "write", "recv", "read"}

NeedsTimer(c) == at[c] \in Begins \/ (at[c] \in {"loop", "connect", "clear"} /\ fd_[c])

\* Live(c): the timers that can still run for c.
Live(c) == ClientTimers(c) \cap (timer_ids_ \ cancel_ids_)

\* A client that has given the thread away waits for its event, is stopped, has not begun or
\* is done; it has a descriptor when it waits for one, and there is a timer when it needs one.
ClientOK(c) ==
  /\ at[c] \in Holds => slave_cid_ = c
  /\ at[c] \in Waits /\ slave_cid_ # c => state[c] = "kSuspend"
  /\ at[c] \in Begins \cup Waits => fd_[c]
  /\ NeedsTimer(c) /\ failed = "none" => HasTimer(c)
  /\ is_stop_[c] => at[c] = "loop" /\ state[c] = "kSuspend"

\* FailuresKnown, of the descriptors.
WatchOK(c) ==
  /\ at[c] \in {"send", "connect"} => interest[c] = "none"
  /\ at[c] \in {"connecting", "write", "writing", "recv"} => interest[c] = "write"
  /\ at[c] \in {"read", "reading"} => interest[c] = "read"
  /\ at[c] \in {"loop", "done"} => interest[c] = "none"
  /\ at[c] = "clear" => interest[c] = IF fd_[c] THEN "read" ELSE "none"

\* TimeOutHasWaiter.
LiveOK(c) == Live(c) = IF at[c] \in Waits /\ ~ is_time_out[c] THEN {timer_id[c]} ELSE {}

ClientInv == \A c \in Cids : ClientOK(c) /\ WatchOK(c) /\ LiveOK(c)

\* The heap has no timer that is not known, and not the one that has been taken out; only
\* clients cancel timers; and as long as the loop runs there is the timer that is to end it.
HeapInv ==
  /\ timers_ \subseteq timer_ids_
  /\ cancel_ids_ \subseteq timer_ids_ \ {InitStartTimer, RateLimitTimer, StopTimer}
  /\ timer_data # NoTimer => timer_data \in timer_ids_ \ timers_
  /\ phase # "events" => timer_data = NoTimer /\ events = {}
  /\ phase = "events" /\ failed = "none" => timer_data # NoTimer
  /\ is_running_ => StopTimer \in timer_ids_

\* The first handler resumes each client for the first time.
StartInv ==
  /\ InitStartTimer \in timer_ids_ => phase # "InitStart" /\ \A c \in Cids : state[c] = "kReady"
  /\ phase = "InitStart" => \A c \in Cids : c >= next_client => state[c] = "kReady"

\* The clients that were stopped since the last refresh.  Each has taken one request too many.
StoppedSince == {c \in Cids : is_stop_[c] /\ (phase = "ReStart" => c < next_client)}
RateInv ==
  /\ phase = "ReStart" /\ ~ is_master_ => slave_cid_ < next_client
  /\ temp_rate_limit_ >= - Cardinality(StoppedSince)
  /\ \A c \in StoppedSince : temp_rate_limit_ < 0

\* What TypeOK says of all but the pool and temp_rate_limit_.
ClientsTyped ==
  /\ timers_ \subseteq Timers
  /\ timer_ids_ \subseteq Timers
  /\ cancel_ids_ \subseteq Timers
  /\ timer_data \in Timers \cup {NoTimer}
  /\ interest \in [Cids -> Interest]
  /\ events \subseteq Cids
  /\ is_running_ \in BOOLEAN
  /\ phase \in {"next", "events", "InitStart", "ReStart", "over"}
  /\ failed \in Failures
  /\ at \in [Cids -> Points]
  /\ fd_ \in [Cids -> BOOLEAN]
  /\ left \in [Cids -> 0 .. Pieces]
  /\ timer_id \in [Cids -> Timers \cup {NoTimer}]
  /\ is_time_out \in [Cids -> BOOLEAN]
  /\ is_stop_ \in [Cids -> BOOLEAN]
  /\ success_count \in [Cids -> 0 .. max_req_count_]
  /\ temp_rate_limit_ \in Int /\ temp_rate_limit_ <= rate_limit_
  /\ clients_run \in BOOLEAN
  /\ next_client \in 0 .. coroutine_count_

ClientIInv ==
  /\ PoolOK /\ ClientsTyped
  /\ ClientInv /\ EventHasWaiter
  /\ HeapInv /\ StartInv /\ RateInv

-----------------------------------------------------------------------------
(* Timers.                                                                 *)

\* A timer has one owner.
LEMMA TimerOwners ==
  /\ \A c \in Cids : \A t \in ClientTimers(c) :
       /\ t \in Timers /\ t # NoTimer /\ t[1] = c
       /\ t \notin {InitStartTimer, RateLimitTimer, StopTimer}
       /\ \A d \in Cids : t \in ClientTimers(d) => d = c
  /\ {InitStartTimer, RateLimitTimer, StopTimer} \subseteq Timers
  /\ NoTimer \notin Timers
  /\ InitStartTimer # RateLimitTimer /\ InitStartTimer # StopTimer
  /\ RateLimitTimer # StopTimer
<1>1. \A c \in Cids : c \in Int /\ c >= 0
  BY PoolAssumption DEF Cids
<1>2. ASSUME NEW c \in Cids, NEW t \in ClientTimers(c)
      PROVE  /\ t \in Timers /\ t # NoTimer /\ t[1] = c
             /\ t \notin {InitStartTimer, RateLimitTimer, StopTimer}
             /\ \A d \in Cids : t \in ClientTimers(d) => d = c
  <2>1. PICK n \in 1 .. MaxTimers : t = <<c, n>>
    BY DEF ClientTimers
  <2>2. t[1] = c /\ t # NoTimer
    BY <2>1 DEF NoTimer
  <2>3. InitStartTimer[1] = -2 /\ RateLimitTimer[1] = -3 /\ StopTimer[1] = -4
    BY DEF InitStartTimer, RateLimitTimer, StopTimer
  <2>4. t \notin {InitStartTimer, RateLimitTimer, StopTimer}
    BY <1>1, <2>2, <2>3
  <2>5. \A d \in Cids : t \in ClientTimers(d) => d = c
    BY <2>2 DEF ClientTimers
  <2>6. t \in Timers
    BY DEF Timers
  <2>7. QED
    BY <2>2, <2>4, <2>5, <2>6
<1>3. {InitStartTimer, RateLimitTimer, StopTimer} \subseteq Timers
  BY DEF Timers
<1>4. NoTimer \notin {InitStartTimer, RateLimitTimer, StopTimer}
  BY DEF NoTimer, InitStartTimer, RateLimitTimer, StopTimer
<1>5. NoTimer \notin Timers
  BY <1>2, <1>4 DEF Timers
<1>6. /\ InitStartTimer # RateLimitTimer /\ InitStartTimer # StopTimer
      /\ RateLimitTimer # StopTimer
  BY DEF InitStartTimer, RateLimitTimer, StopTimer
<1>7. QED
  BY <1>2, <1>3, <1>5, <1>6

\* When there is a timer the next one is the client's own and not in use.
LEMMA NextTimerUnused ==
  ASSUME NEW c \in Cids, HasTimer(c)
  PROVE  NextTimer(c) \in ClientTimers(c) /\ NextTimer(c) \notin timer_ids_
<1>1. Unused(c) \in SUBSET Nat /\ Unused(c) # {}
  BY ClientAssumption DEF Unused, HasTimer
<1>2. \E n \in Unused(c) : \A m \in Unused(c) : n <= m
  BY <1>1, LeastExists
<1>3. (CHOOSE n \in Unused(c) : \A m \in Unused(c) : n <= m) \in Unused(c)
  BY <1>2
<1>4. QED
  BY <1>3 DEF NextTimer, Unused, ClientTimers

\* A call starts a timer that was not in use, and touches nobody else's.
LEMMA OpBeginTimers ==
  ASSUME ClientIInv, NEW c \in Cids, HasTimer(c), OpBegin(c), UNCHANGED timer_data
  PROVE  /\ timer_ids_' = timer_ids_ \cup {NextTimer(c)}
         /\ NextTimer(c) \in ClientTimers(c) /\ NextTimer(c) \notin timer_ids_
         /\ timers_' \subseteq Timers /\ timer_ids_' \subseteq Timers
         /\ timers_' \subseteq timer_ids_'
         /\ cancel_ids_' = cancel_ids_
         /\ timer_data # NoTimer => timer_data \in timer_ids_' \ timers_'
         /\ timer_id' = [timer_id EXCEPT ![c] = NextTimer(c)]
         /\ timer_id' \in [Cids -> Timers \cup {NoTimer}]
         /\ ~ is_time_out'[c] /\ is_time_out' = [is_time_out EXCEPT ![c] = FALSE]
         /\ is_time_out' \in [Cids -> BOOLEAN]
         /\ at[c] \notin Waits => Live(c)' = {NextTimer(c)}
         /\ \A d \in Cids \ {c} : Live(d)' = Live(d) /\ Unused(d)' = Unused(d)
<1>0. ClientsTyped /\ HeapInv /\ ClientInv
  BY DEF ClientIInv
<1>1. NextTimer(c) \in ClientTimers(c) /\ NextTimer(c) \notin timer_ids_
  BY NextTimerUnused
<1>2. NextTimer(c) \in Timers /\ NextTimer(c) # NoTimer
  BY <1>1, TimerOwners
<1>3. /\ timer_ids_' = timer_ids_ \cup {NextTimer(c)} /\ timers_' = timers_ \cup {NextTimer(c)}
      /\ cancel_ids_' = cancel_ids_
  BY DEF OpBegin, TimerStart
<1>4. /\ timers_' \subseteq Timers /\ timer_ids_' \subseteq Timers
      /\ timers_' \subseteq timer_ids_'
  BY <1>0, <1>2, <1>3 DEF ClientsTyped, HeapInv
<1>5. timer_data # NoTimer => timer_data \in timer_ids_' \ timers_'
  BY <1>0, <1>1, <1>3 DEF HeapInv
<1>6. /\ timer_id' = [timer_id EXCEPT ![c] = NextTimer(c)]
      /\ timer_id' \in [Cids -> Timers \cup {NoTimer}]
      /\ ~ is_time_out'[c] /\ is_time_out' = [is_time_out EXCEPT ![c] = FALSE]
      /\ is_time_out' \in [Cids -> BOOLEAN]
  BY <1>0, <1>2 DEF OpBegin, ClientsTyped
<1>7. ASSUME at[c] \notin Waits PROVE Live(c)' = {NextTimer(c)}
  <2>1. Live(c) = {}
    BY <1>0, <1>7 DEF ClientInv, LiveOK
  <2>2. NextTimer(c) \notin cancel_ids_
    BY <1>0, <1>1 DEF HeapInv
  <2>3. QED
    BY <1>1, <1>3, <2>1, <2>2 DEF Live
<1>8. ASSUME NEW d \in Cids \ {c} PROVE Live(d)' = Live(d) /\ Unused(d)' = Unused(d)
  <2>1. NextTimer(c) \notin ClientTimers(d)
    BY <1>1, TimerOwners
  <2>2. Live(d)' = Live(d)
    BY <1>3, <2>1 DEF Live
  <2>3. \A n \in 1 .. MaxTimers : <<d, n>> # NextTimer(c)
    BY <2>1 DEF ClientTimers
  <2>4. QED
    BY <1>3, <2>2, <2>3 DEF Unused
<1>9. QED
  BY <1>1, <1>3, <1>4, <1>5, <1>6, <1>7, <1>8

\* A call that returns leaves no timer that can still run, and touches nobody else's.
LEMMA OpEndTimers ==
  ASSUME ClientIInv, NEW c \in Cids, at[c] \in Waits, OpEnd(c)
  PROVE  /\ timers_' = timers_ /\ timer_ids_' = timer_ids_
         /\ cancel_ids_' \subseteq Timers
         /\ cancel_ids_' \subseteq timer_ids_ \ {InitStartTimer, RateLimitTimer, StopTimer}
         /\ timer_id' = [timer_id EXCEPT ![c] = NoTimer]
         /\ timer_id' \in [Cids -> Timers \cup {NoTimer}]
         /\ is_time_out' = [is_time_out EXCEPT ![c] = FALSE]
         /\ is_time_out' \in [Cids -> BOOLEAN]
         /\ Live(c)' = {}
         /\ \A d \in Cids \ {c} : Live(d)' = Live(d)
         /\ \A d \in Cids : Unused(d)' = Unused(d)
<1>0. ClientsTyped /\ HeapInv /\ ClientInv
  BY DEF ClientIInv
<1>1. timers_' = timers_ /\ timer_ids_' = timer_ids_
  BY DEF OpEnd, heap_vars, TimerCancel
<1>2. /\ timer_id' = [timer_id EXCEPT ![c] = NoTimer]
      /\ timer_id' \in [Cids -> Timers \cup {NoTimer}]
      /\ is_time_out' = [is_time_out EXCEPT ![c] = FALSE]
      /\ is_time_out' \in [Cids -> BOOLEAN]
  BY <1>0 DEF OpEnd, ClientsTyped
<1>3. \A d \in Cids : Unused(d)' = Unused(d)
  BY <1>1 DEF Unused
<1>4. CASE is_time_out[c]
  <2>1. cancel_ids_' = cancel_ids_
    BY <1>4 DEF OpEnd, heap_vars
  <2>2. \A d \in Cids : Live(d)' = Live(d)
    BY <1>1, <2>1 DEF Live
  <2>3. Live(c) = {}
    BY <1>0, <1>4 DEF ClientInv, LiveOK
  <2>4. QED
    BY <1>0, <1>1, <1>2, <1>3, <2>1, <2>2, <2>3 DEF HeapInv, ClientsTyped
<1>5. CASE ~ is_time_out[c]
  <2>1. cancel_ids_' = cancel_ids_ \cup {timer_id[c]}
    BY <1>5 DEF OpEnd, TimerCancel
  <2>2. Live(c) = {timer_id[c]}
    BY <1>0, <1>5 DEF ClientInv, LiveOK
  <2>3. timer_id[c] \in ClientTimers(c) /\ timer_id[c] \in timer_ids_
    BY <2>2 DEF Live
  <2>4. /\ timer_id[c] \in Timers
        /\ timer_id[c] \notin {InitStartTimer, RateLimitTimer, StopTimer}
        /\ \A d \in Cids \ {c} : timer_id[c] \notin ClientTimers(d)
    BY <2>3, TimerOwners
  <2>5. /\ cancel_ids_' \subseteq Timers
        /\ cancel_ids_' \subseteq timer_ids_ \ {InitStartTimer, RateLimitTimer, StopTimer}
    BY <1>0, <2>1, <2>3, <2>4 DEF HeapInv, ClientsTyped
  <2>6. Live(c)' = {}
    BY <1>1, <2>1, <2>2 DEF Live
  <2>7. \A d \in Cids \ {c} : Live(d)' = Live(d)
    BY <1>1, <2>1, <2>4 DEF Live
  <2>8. QED
    BY <1>1, <1>2, <1>3, <2>5, <2>6, <2>7
<1>6. QED
  BY <1>4, <1>5

-----------------------------------------------------------------------------
(* The steps of a client.                                                  *)

\* A step of c leaves the other clients alone.
OnlyOf(c) ==
  \A d \in Cids \ {c} :
    /\ at'[d] = at[d] /\ fd_'[d] = fd_[d] /\ interest'[d] = interest[d]
    /\ is_stop_'[d] = is_stop_[d]
    /\ timer_id'[d] = timer_id[d] /\ is_time_out'[d] = is_time_out[d]
    /\ Live(d)' = Live(d) /\ Unused(d)' = Unused(d)

\* What a step of c does to the pool.
PoolStep(c) ==
  /\ slave_cid_' \in {c, kInvalidCid}
  /\ \A d \in Cids \ {c} : state'[d] = state[d]
  /\ slave_cid_' = kInvalidCid => state'[c] \in {"kSuspend", "kIdle"}

\* The client that has the thread is in state kRun.
LEMMA Running ==
  ASSUME PoolOK, NEW c \in Cids, slave_cid_ = c
  PROVE  state[c] = "kRun" /\ ~ is_master_
BY InvalidIsNoCid DEF PoolOK, OneRunner, is_master_

\* What a client does to the pool: nothing, yield, or end.
LEMMA PoolSteps ==
  ASSUME PoolOK, NEW c \in Cids, slave_cid_ = c,
         (UNCHANGED pool_vars) \/ CoroutineYield \/ CoroutineRun
  PROVE  /\ PoolOK' /\ PoolStep(c)
         /\ CoroutineYield => slave_cid_' = kInvalidCid /\ state'[c] = "kSuspend"
<1>1. c # kInvalidCid
  BY InvalidIsNoCid
<1>2. CASE UNCHANGED pool_vars
  BY <1>1, <1>2 DEF pool_vars, PoolOK, OneRunner, CountsNotIdle, PoolStep, CoroutineYield
<1>3. CASE CoroutineYield
  BY <1>3, YieldKeepsPool DEF CoroutineYield, PoolStep, PoolOK
<1>4. CASE CoroutineRun
  <2>1. PoolOK' /\ PoolStep(c)
    BY <1>4, EndKeepsPool DEF CoroutineRun, PoolStep, PoolOK
  <2>2. state'[c] = "kIdle"
    BY <1>4 DEF CoroutineRun, PoolOK
  <2>3. ~ CoroutineYield
    BY <2>2 DEF CoroutineYield, PoolOK
  <2>4. QED
    BY <2>1, <2>3
<1>5. QED
  BY <1>2, <1>3, <1>4

\* What is left to be shown of a step of c.
LEMMA StepKeeps ==
  ASSUME ClientIInv, failed = "none", NEW c \in Cids, slave_cid_ = c,
         OnlyOf(c), PoolStep(c), PoolOK', ClientsTyped', HeapInv', RateInv',
         UNCHANGED <<loop_vars, next_client>>,
         timer_ids_' \subseteq timer_ids_ \cup ClientTimers(c),
         ClientOK(c)', WatchOK(c)', LiveOK(c)'
  PROVE  ClientIInv'
<1>0. /\ PoolOK /\ ClientsTyped /\ ClientInv /\ StartInv /\ EventHasWaiter
      /\ state[c] = "kRun" /\ slave_cid_ # kInvalidCid
  BY InvalidIsNoCid, Running DEF ClientIInv
<1>1. events' = events /\ phase' = phase /\ next_client' = next_client
  BY DEF loop_vars
<1>2. ASSUME NEW d \in Cids \ {c}
      PROVE  ClientOK(d)' /\ WatchOK(d)' /\ LiveOK(d)'
  <2>1. ClientOK(d) /\ WatchOK(d) /\ LiveOK(d) /\ d # c
    BY <1>0 DEF ClientInv
  <2>2. /\ at'[d] = at[d] /\ fd_'[d] = fd_[d] /\ interest'[d] = interest[d]
        /\ is_stop_'[d] = is_stop_[d] /\ state'[d] = state[d]
        /\ timer_id'[d] = timer_id[d] /\ is_time_out'[d] = is_time_out[d]
        /\ Live(d)' = Live(d) /\ Unused(d)' = Unused(d)
    BY DEF OnlyOf, PoolStep
  <2>3. at[d] \notin Holds /\ at[d] \notin Begins
    BY <2>1 DEF ClientOK, Holds, Begins
  <2>4. slave_cid_ # d
    BY <2>1
  <2>5. ClientOK(d)'
    BY <2>1, <2>2, <2>3, <2>4 DEF ClientOK, NeedsTimer, HasTimer
  <2>6. WatchOK(d)'
    BY <2>1, <2>2 DEF WatchOK
  <2>7. LiveOK(d)'
    BY <2>1, <2>2 DEF LiveOK
  <2>8. QED
    BY <2>5, <2>6, <2>7
<1>3. ClientInv'
  BY <1>2 DEF ClientInv
<1>4. EventHasWaiter'
  <2>1. c \notin events
    BY <1>0 DEF EventHasWaiter
  <2>2. ASSUME NEW d \in events
        PROVE  state'[d] = "kSuspend" /\ interest'[d] # "none" /\ fd_'[d] /\ at'[d] \in Waits
    <3>1. d \in Cids \ {c}
      BY <1>0, <2>1 DEF ClientsTyped
    <3>2. QED
      BY <1>0, <3>1 DEF EventHasWaiter, OnlyOf, PoolStep
  <2>3. QED
    BY <1>1, <2>2 DEF EventHasWaiter
<1>5. StartInv'
  <2>1. InitStartTimer \notin timer_ids_
    BY <1>0 DEF StartInv
  <2>2. InitStartTimer \notin timer_ids_'
    BY <2>1, TimerOwners
  <2>3. ASSUME phase = "InitStart", NEW d \in Cids, d >= next_client
        PROVE  state'[d] = "kReady"
    <3>1. state[d] = "kReady"
      BY <1>0, <2>3 DEF StartInv
    <3>2. d # c
      BY <1>0, <3>1
    <3>3. QED
      BY <3>1, <3>2 DEF PoolStep
  <2>4. QED
    BY <1>1, <2>2, <2>3 DEF StartInv
<1>6. QED
  BY <1>3, <1>4, <1>5 DEF ClientIInv

\* Most steps have nothing to do with the rate limit.
LEMMA RateKept ==
  ASSUME ClientIInv, NEW c \in Cids, slave_cid_ = c, PoolStep(c), is_stop_' = is_stop_,
         UNCHANGED <<loop_vars, temp_rate_limit_, next_client>>
  PROVE  RateInv'
<1>1. StoppedSince' = StoppedSince
  BY DEF StoppedSince, loop_vars
<1>2. ~ is_master_
  BY Running DEF ClientIInv
<1>3. RateInv /\ phase' = phase
  BY DEF ClientIInv, loop_vars
<1>4. phase' = "ReStart" /\ ~ is_master_' => slave_cid_' < next_client'
  BY <1>2, <1>3 DEF RateInv, PoolStep, is_master_
<1>5. QED
  BY <1>1, <1>3, <1>4 DEF RateInv

\* A call begins.
LEMMA BeginKeeps ==
  ASSUME ClientIInv, failed = "none", NEW c \in Cids, slave_cid_ = c, at[c] \notin Waits,
         HasTimer(c), OpBegin(c),
         NEW p \in Waits, at' = [at EXCEPT ![c] = p],
         NEW w \in Interest, interest' = [interest EXCEPT ![c] = w],
         p = "reading" => w = "read", p # "reading" => w = "write",
         fd_' = [fd_ EXCEPT ![c] = TRUE], left' \in [Cids -> 0 .. Pieces],
         (UNCHANGED pool_vars) \/ CoroutineYield,
         UNCHANGED <<loop_vars, failed, success_count, manager_vars>>
  PROVE  ClientIInv'
<1>0. PoolOK /\ ClientsTyped /\ ClientInv /\ HeapInv /\ state[c] = "kRun"
  BY Running DEF ClientIInv
<1>1. /\ PoolOK' /\ PoolStep(c)
      /\ slave_cid_' = c \/ state'[c] = "kSuspend"
  BY <1>0, PoolSteps DEF pool_vars
<1>2. /\ UNCHANGED <<timer_data, events, is_running_, phase>>
      /\ UNCHANGED <<is_stop_, temp_rate_limit_, clients_run, next_client>>
  BY DEF loop_vars, manager_vars
<1>3. /\ timer_ids_' = timer_ids_ \cup {NextTimer(c)}
      /\ NextTimer(c) \in ClientTimers(c)
      /\ timers_' \subseteq Timers /\ timer_ids_' \subseteq Timers
      /\ timers_' \subseteq timer_ids_'
      /\ cancel_ids_' = cancel_ids_
      /\ timer_data # NoTimer => timer_data \in timer_ids_' \ timers_'
      /\ timer_id' = [timer_id EXCEPT ![c] = NextTimer(c)]
      /\ timer_id' \in [Cids -> Timers \cup {NoTimer}]
      /\ ~ is_time_out'[c] /\ is_time_out' = [is_time_out EXCEPT ![c] = FALSE]
      /\ is_time_out' \in [Cids -> BOOLEAN]
      /\ Live(c)' = {NextTimer(c)}
      /\ \A d \in Cids \ {c} : Live(d)' = Live(d) /\ Unused(d)' = Unused(d)
  BY <1>2, OpBeginTimers
<1>4. ClientsTyped'
  <2>1. p \in Points
    BY DEF Points
  <2>2. QED
    BY <1>0, <1>2, <1>3, <2>1 DEF ClientsTyped
<1>5. HeapInv'
  BY <1>0, <1>2, <1>3 DEF HeapInv
<1>6. OnlyOf(c)
  BY <1>0, <1>2, <1>3 DEF OnlyOf, ClientsTyped
<1>7. at'[c] = p /\ interest'[c] = w /\ fd_'[c] /\ timer_id'[c] = NextTimer(c)
  BY <1>0, <1>3 DEF ClientsTyped
<1>8. ClientOK(c)'
  <2>1. ~ is_stop_'[c]
    BY <1>0, <1>2 DEF ClientInv, ClientOK
  <2>2. p \notin Holds /\ p \notin Begins
    BY DEF Waits, Holds, Begins
  <2>3. QED
    BY <1>1, <1>7, <2>1, <2>2 DEF ClientOK, NeedsTimer, Waits
<1>9. WatchOK(c)'
  BY <1>7 DEF WatchOK, Waits
<1>10. LiveOK(c)'
  BY <1>3, <1>7 DEF LiveOK
<1>11. RateInv'
  BY <1>1, <1>2, RateKept
<1>12. QED
  BY <1>1, <1>2, <1>3, <1>4, <1>5, <1>6, <1>8, <1>9, <1>10, <1>11, StepKeeps DEF loop_vars

\* A call returns.
LEMMA EndKeeps ==
  ASSUME ClientIInv, failed = "none", NEW c \in Cids, slave_cid_ = c, at[c] \in Waits, OpEnd(c),
         NEW p \in {"loop", "send", "write", "recv", "read", "clear"},
         at' = [at EXCEPT ![c] = p],
         NEW w \in Interest, interest' = [interest EXCEPT ![c] = w],
         NEW f \in BOOLEAN, fd_' = [fd_ EXCEPT ![c] = f],
         p \in Begins => f, f /\ failed' = "none" => HasTimer(c),
         p \in {"loop", "send"} => w = "none", p \in {"write", "recv"} => w = "write",
         p = "read" => w = "read", p = "clear" => w = IF f THEN "read" ELSE "none",
         left' \in [Cids -> 0 .. Pieces],
         success_count' \in [Cids -> 0 .. max_req_count_],
         failed' \in Failures,
         UNCHANGED <<pool_vars, loop_vars, manager_vars>>
  PROVE  ClientIInv'
<1>0. PoolOK /\ ClientsTyped /\ ClientInv /\ HeapInv /\ state[c] = "kRun"
  BY Running DEF ClientIInv
<1>1. PoolOK' /\ PoolStep(c) /\ slave_cid_' = c
  BY <1>0, PoolSteps DEF pool_vars
<1>2. /\ UNCHANGED <<timer_data, events, is_running_, phase>>
      /\ UNCHANGED <<is_stop_, temp_rate_limit_, clients_run, next_client>>
  BY DEF loop_vars, manager_vars
<1>3. /\ timers_' = timers_ /\ timer_ids_' = timer_ids_
      /\ cancel_ids_' \subseteq Timers
      /\ cancel_ids_' \subseteq timer_ids_ \ {InitStartTimer, RateLimitTimer, StopTimer}
      /\ timer_id' = [timer_id EXCEPT ![c] = NoTimer]
      /\ timer_id' \in [Cids -> Timers \cup {NoTimer}]
      /\ is_time_out' = [is_time_out EXCEPT ![c] = FALSE]
      /\ is_time_out' \in [Cids -> BOOLEAN]
      /\ Live(c)' = {}
      /\ \A d \in Cids \ {c} : Live(d)' = Live(d)
      /\ \A d \in Cids : Unused(d)' = Unused(d)
  BY OpEndTimers
<1>4. ClientsTyped'
  <2>1. p \in Points
    BY DEF Points
  <2>2. QED
    BY <1>0, <1>2, <1>3, <2>1 DEF ClientsTyped
<1>5. HeapInv'
  BY <1>0, <1>2, <1>3 DEF HeapInv
<1>6. OnlyOf(c)
  BY <1>0, <1>2, <1>3 DEF OnlyOf, ClientsTyped
<1>7. at'[c] = p /\ interest'[c] = w /\ fd_'[c] = f
  BY <1>0 DEF ClientsTyped
<1>8. p \notin Waits
  BY DEF Waits
<1>9. ClientOK(c)'
  <2>1. ~ is_stop_'[c]
    BY <1>0, <1>2 DEF ClientInv, ClientOK
  <2>2. HasTimer(c)' = HasTimer(c)
    BY <1>3 DEF HasTimer
  <2>3. QED
    BY <1>1, <1>7, <1>8, <2>1, <2>2 DEF ClientOK, NeedsTimer
<1>10. WatchOK(c)'
  BY <1>7 DEF WatchOK, Interest
<1>11. LiveOK(c)'
  BY <1>3, <1>7, <1>8 DEF LiveOK
<1>12. RateInv'
  BY <1>1, <1>2, RateKept
<1>13. QED
  BY <1>1, <1>2, <1>3, <1>4, <1>5, <1>6, <1>9, <1>10, <1>11, <1>12, StepKeeps DEF loop_vars

\* A step without a timer.
LEMMA QuietKeeps ==
  ASSUME ClientIInv, failed = "none", NEW c \in Cids, slave_cid_ = c, PoolOK', PoolStep(c),
         NEW p \in Points, at' = [at EXCEPT ![c] = p], p \in Waits <=> at[c] \in Waits,
         NEW w \in Interest, interest' = [interest EXCEPT ![c] = w],
         NEW f \in BOOLEAN, fd_' = [fd_ EXCEPT ![c] = f],
         NEW s \in BOOLEAN, is_stop_' = [is_stop_ EXCEPT ![c] = s],
         failed' \in Failures,
         temp_rate_limit_' \in Int, temp_rate_limit_' <= rate_limit_,
         ClientOK(c)', WatchOK(c)', RateInv',
         UNCHANGED <<heap_vars, loop_vars, left, timer_id, is_time_out, success_count,
                     clients_run, next_client>>
  PROVE  ClientIInv'
<1>0. PoolOK /\ ClientsTyped /\ ClientInv /\ HeapInv
  BY DEF ClientIInv
<1>1. /\ UNCHANGED <<timer_data, events, is_running_, phase>>
      /\ UNCHANGED <<timers_, timer_ids_, cancel_ids_>>
  BY DEF loop_vars, heap_vars
<1>2. ClientsTyped'
  BY <1>0, <1>1 DEF ClientsTyped
<1>3. HeapInv'
  BY <1>0, <1>1 DEF HeapInv
<1>4. \A d \in Cids : Live(d)' = Live(d) /\ Unused(d)' = Unused(d)
  BY <1>1 DEF Live, Unused
<1>5. OnlyOf(c)
  BY <1>0, <1>4 DEF OnlyOf, ClientsTyped
<1>6. LiveOK(c)'
  <2>1. LiveOK(c) /\ at'[c] = p
    BY <1>0 DEF ClientInv, ClientsTyped
  <2>2. QED
    BY <1>4, <2>1 DEF LiveOK
<1>7. QED
  BY <1>1, <1>2, <1>3, <1>5, <1>6, StepKeeps DEF loop_vars

\* A client that is out of requests stops, and is one more of those that took one too many.
LEMMA RateOfStop ==
  ASSUME ClientIInv, NEW c \in Cids, slave_cid_ = c, PoolStep(c), slave_cid_' = kInvalidCid,
         temp_rate_limit_ <= 0, temp_rate_limit_' = temp_rate_limit_ - 1,
         is_stop_' = [is_stop_ EXCEPT ![c] = TRUE],
         UNCHANGED <<loop_vars, next_client>>
  PROVE  RateInv'
<1>0. PoolOK /\ ClientsTyped /\ ClientInv /\ RateInv /\ state[c] = "kRun" /\ ~ is_master_
  BY Running DEF ClientIInv
<1>1. phase' = phase /\ next_client' = next_client
  BY DEF loop_vars
<1>2. phase = "ReStart" => c < next_client
  BY <1>0 DEF RateInv
<1>3. ~ is_stop_[c]
  BY <1>0 DEF ClientInv, ClientOK
<1>4. StoppedSince' = StoppedSince \cup {c} /\ c \notin StoppedSince
  BY <1>0, <1>1, <1>2, <1>3 DEF StoppedSince, ClientsTyped
<1>5. IsFiniteSet(StoppedSince) /\ Cardinality(StoppedSince) \in Nat
  BY CidSets DEF StoppedSince
<1>6. Cardinality(StoppedSince') = Cardinality(StoppedSince) + 1
  BY <1>4, <1>5, FS_AddElement
<1>7. temp_rate_limit_ \in Int /\ temp_rate_limit_ >= - Cardinality(StoppedSince)
  BY <1>0 DEF ClientsTyped, RateInv
<1>8. temp_rate_limit_' >= - Cardinality(StoppedSince') /\ temp_rate_limit_' < 0
  BY <1>5, <1>6, <1>7
<1>9. QED
  BY <1>8 DEF RateInv, is_master_

\* One that goes on finds that nobody was stopped.
LEMMA RateOfRequest ==
  ASSUME ClientIInv, NEW c \in Cids, slave_cid_ = c, UNCHANGED pool_vars,
         temp_rate_limit_ > 0, temp_rate_limit_' = temp_rate_limit_ - 1,
         UNCHANGED <<is_stop_, loop_vars, next_client>>
  PROVE  RateInv'
<1>0. ClientsTyped /\ RateInv
  BY DEF ClientIInv
<1>1. StoppedSince' = StoppedSince
  BY DEF StoppedSince, loop_vars
<1>2. Cardinality(StoppedSince) \in Nat
  BY CidSets DEF StoppedSince
<1>3. temp_rate_limit_ \in Int
  BY <1>0 DEF ClientsTyped
<1>4. temp_rate_limit_' >= - Cardinality(StoppedSince)
  BY <1>2, <1>3
<1>5. StoppedSince = {}
  BY <1>0, <1>3 DEF RateInv
<1>6. phase' = phase /\ slave_cid_' = slave_cid_ /\ next_client' = next_client
  BY DEF loop_vars, pool_vars
<1>7. QED
  BY <1>0, <1>1, <1>4, <1>5, <1>6 DEF RateInv, is_master_

\* The test of Client::Run's loop: only here the rate limit stops a client, and one more
\* request is taken than is left.
LEMMA ClientLoopKeeps ==
  ASSUME ClientIInv, failed = "none", NEW c \in Cids, ClientLoop(c)
  PROVE  ClientIInv'
<1>0. /\ PoolOK /\ ClientsTyped /\ ClientInv /\ slave_cid_ = c /\ at[c] = "loop"
      /\ state[c] = "kRun"
  BY Running DEF ClientIInv, ClientLoop, Runs
<1>1. /\ ClientOK(c) /\ WatchOK(c) /\ interest[c] = "none" /\ ~ is_stop_[c]
  BY <1>0 DEF ClientInv, ClientOK, WatchOK
<1>2. /\ UNCHANGED <<heap_vars, loop_vars, left, timer_id, is_time_out, success_count,
                     clients_run, next_client>>
      /\ interest' = interest /\ failed' = failed /\ fd_' = fd_
  BY DEF ClientLoop, event_vars
<1>3. /\ interest' = [interest EXCEPT ![c] = "none"] /\ fd_' = [fd_ EXCEPT ![c] = fd_[c]]
      /\ fd_[c] \in BOOLEAN /\ "none" \in Interest
      /\ failed' \in Failures
      /\ temp_rate_limit_ \in Int /\ temp_rate_limit_ <= rate_limit_
  BY <1>0, <1>1, <1>2 DEF ClientsTyped, Interest
<1>4. CASE ~ clients_run
  <2>1. /\ CoroutineRun /\ at' = [at EXCEPT ![c] = "done"]
        /\ temp_rate_limit_' = temp_rate_limit_ /\ is_stop_' = is_stop_
    BY <1>4 DEF ClientLoop, Goto
  <2>2. PoolOK' /\ PoolStep(c)
    BY <1>0, <2>1, PoolSteps
  <2>3. is_stop_' = [is_stop_ EXCEPT ![c] = FALSE]
    BY <1>0, <1>1, <2>1 DEF ClientsTyped
  <2>4. at'[c] = "done" /\ interest'[c] = "none" /\ ~ is_stop_'[c]
    BY <1>0, <1>1, <1>2, <2>1 DEF ClientsTyped
  <2>5. ClientOK(c)' /\ WatchOK(c)'
    BY <2>4 DEF ClientOK, WatchOK, NeedsTimer, Waits, Begins, Holds
  <2>6. RateInv'
    BY <1>0, <1>2, <2>1, <2>2, RateKept
  <2>7. "done" \in Points /\ "done" \notin Waits /\ at[c] \notin Waits
    BY <1>0 DEF Points, Waits
  <2>8. QED
    BY <1>0, <1>2, <1>3, <2>1, <2>2, <2>3, <2>5, <2>6, <2>7, QuietKeeps
<1>5. CASE clients_run /\ temp_rate_limit_ <= 0
  <2>1. /\ CoroutineYield /\ at' = [at EXCEPT ![c] = "loop"]
        /\ temp_rate_limit_' = temp_rate_limit_ - 1 /\ is_stop_' = [is_stop_ EXCEPT ![c] = TRUE]
    BY <1>0, <1>5 DEF ClientLoop, ClientsTyped
  <2>2. PoolOK' /\ PoolStep(c) /\ slave_cid_' = kInvalidCid /\ state'[c] = "kSuspend"
    BY <1>0, <2>1, PoolSteps
  <2>3. at'[c] = "loop" /\ interest'[c] = "none" /\ fd_'[c] = fd_[c]
    BY <1>0, <1>1, <1>2, <2>1 DEF ClientsTyped
  <2>4. fd_[c] => HasTimer(c)
    BY <1>0, <1>1 DEF ClientOK, NeedsTimer
  <2>5. HasTimer(c)' = HasTimer(c)
    BY <1>2 DEF HasTimer, Unused, heap_vars
  <2>6. ClientOK(c)' /\ WatchOK(c)'
    BY <2>2, <2>3, <2>4, <2>5 DEF ClientOK, WatchOK, NeedsTimer, Waits, Begins, Holds
  <2>7. RateInv'
    BY <1>0, <1>2, <1>5, <2>1, <2>2, RateOfStop
  <2>8. "loop" \in Points /\ temp_rate_limit_' \in Int /\ temp_rate_limit_' <= rate_limit_
    BY <1>3, <2>1, ClientAssumption DEF Points
  <2>9. QED
    BY <1>0, <1>2, <1>3, <2>1, <2>2, <2>6, <2>7, <2>8, QuietKeeps
<1>6. CASE clients_run /\ temp_rate_limit_ > 0
  <2> DEFINE p == IF fd_[c] THEN "send" ELSE "connect"
  <2>1. /\ UNCHANGED pool_vars /\ at' = [at EXCEPT ![c] = p]
        /\ temp_rate_limit_' = temp_rate_limit_ - 1 /\ is_stop_' = is_stop_
    BY <1>3, <1>6 DEF ClientLoop, Goto
  <2>2. PoolOK' /\ PoolStep(c) /\ slave_cid_' = c
    BY <1>0, <2>1, PoolSteps DEF pool_vars
  <2>3. is_stop_' = [is_stop_ EXCEPT ![c] = FALSE]
    BY <1>0, <1>1, <2>1 DEF ClientsTyped
  <2>4. at'[c] = p /\ interest'[c] = "none" /\ fd_'[c] = fd_[c] /\ ~ is_stop_'[c]
    BY <1>0, <1>1, <1>2, <2>1 DEF ClientsTyped
  <2>5. fd_[c] => HasTimer(c)
    BY <1>0, <1>1 DEF ClientOK, NeedsTimer
  <2>6. HasTimer(c)' = HasTimer(c)
    BY <1>2 DEF HasTimer, Unused, heap_vars
  <2>7. ClientOK(c)' /\ WatchOK(c)'
    BY <2>2, <2>4, <2>5, <2>6 DEF ClientOK, WatchOK, NeedsTimer, Waits, Begins, Holds
  <2>8. RateInv'
    BY <1>0, <1>2, <1>6, <2>1, RateOfRequest
  <2>9. temp_rate_limit_' \in Int /\ temp_rate_limit_' <= rate_limit_
    BY <1>3, <2>1, ClientAssumption
  <2>10. p \in Points /\ p \notin Waits /\ at[c] \notin Waits
    BY <1>0 DEF Points, Waits
  <2> HIDE DEF p
  <2>11. QED
    BY <1>0, <1>2, <1>3, <2>1, <2>2, <2>3, <2>7, <2>8, <2>9, <2>10, QuietKeeps
<1>7. QED
  BY <1>3, <1>4, <1>5, <1>6

\* A step with no timer, no stop and no turn of the rate limit.
LEMMA PlainKeeps ==
  ASSUME ClientIInv, failed = "none", NEW c \in Cids, slave_cid_ = c,
         (UNCHANGED pool_vars) \/ (CoroutineYield /\ at[c] \in Waits),
         NEW p \in Points, at' = [at EXCEPT ![c] = p], p \in Waits <=> at[c] \in Waits,
         NEW w \in Interest, interest' = [interest EXCEPT ![c] = w],
         NEW f \in BOOLEAN, fd_' = [fd_ EXCEPT ![c] = f],
         failed' \in Failures,
         p \in Begins \cup Waits => f,
         p \in Begins \/ (p \in {"loop", "connect", "clear"} /\ f) => HasTimer(c),
         p \in {"send", "connect", "loop", "done"} => w = "none",
         p \in {"connecting", "write", "writing", "recv"} => w = "write",
         p \in {"read", "reading"} => w = "read", p = "clear" => w = IF f THEN "read" ELSE "none",
         UNCHANGED <<heap_vars, loop_vars, left, timer_id, is_time_out, success_count,
                     manager_vars>>
  PROVE  ClientIInv'
<1>0. PoolOK /\ ClientsTyped /\ ClientInv /\ state[c] = "kRun"
  BY Running DEF ClientIInv
<1>1. /\ PoolOK' /\ PoolStep(c)
      /\ slave_cid_' = c \/ (state'[c] = "kSuspend" /\ at[c] \in Waits)
  BY <1>0, PoolSteps DEF pool_vars
<1>2. /\ is_stop_' = is_stop_ /\ clients_run' = clients_run /\ next_client' = next_client
      /\ temp_rate_limit_' = temp_rate_limit_
  BY DEF manager_vars
<1>3. ~ is_stop_[c]
  BY <1>0 DEF ClientInv, ClientOK
<1>4. is_stop_' = [is_stop_ EXCEPT ![c] = FALSE]
  BY <1>0, <1>2, <1>3 DEF ClientsTyped
<1>5. at'[c] = p /\ interest'[c] = w /\ fd_'[c] = f /\ ~ is_stop_'[c]
  BY <1>0, <1>2, <1>3 DEF ClientsTyped
<1>6. HasTimer(c)' = HasTimer(c)
  BY DEF HasTimer, Unused, heap_vars
<1>7. p \in Holds => p \notin Waits
  BY DEF Holds, Waits
<1>8. ClientOK(c)'
  BY <1>1, <1>5, <1>6, <1>7 DEF ClientOK, NeedsTimer
<1>9. WatchOK(c)'
  BY <1>5 DEF WatchOK
<1>10. RateInv'
  BY <1>1, <1>2, RateKept
<1>11. temp_rate_limit_' \in Int /\ temp_rate_limit_' <= rate_limit_
  BY <1>0, <1>2 DEF ClientsTyped
<1>12. QED
  BY <1>1, <1>2, <1>4, <1>8, <1>9, <1>10, <1>11, QuietKeeps

\* What is known of the client that has the thread.
LEMMA RunnerOK ==
  ASSUME ClientIInv, NEW c \in Cids, slave_cid_ = c
  PROVE  /\ ClientOK(c) /\ WatchOK(c) /\ ClientsTyped
         /\ at[c] \in Points /\ fd_[c] \in BOOLEAN /\ interest[c] \in Interest
         /\ left[c] \in 0 .. Pieces /\ success_count[c] \in 0 .. max_req_count_
         /\ failed \in Failures
         /\ at = [at EXCEPT ![c] = at[c]] /\ fd_ = [fd_ EXCEPT ![c] = fd_[c]]
         /\ interest = [interest EXCEPT ![c] = interest[c]]
BY DEF ClientIInv, ClientInv, ClientsTyped

\* A connect that is over at once leaves a descriptor that is not watched, or none.
LEMMA ConnectAtOnceKeeps ==
  ASSUME ClientIInv, failed = "none", NEW c \in Cids, ConnectAtOnce(c)
  PROVE  ClientIInv'
<1>0. /\ slave_cid_ = c /\ at[c] = "connect"
      /\ UNCHANGED <<pool_vars, heap_vars, loop_vars, left, timer_id, is_time_out, success_count,
                     manager_vars>>
      /\ interest' = interest /\ failed' = failed
  BY DEF ConnectAtOnce, Runs, event_vars
<1>1. /\ ClientOK(c) /\ WatchOK(c) /\ interest' = [interest EXCEPT ![c] = "none"]
      /\ "none" \in Interest /\ failed' \in Failures
      /\ fd_[c] \in BOOLEAN /\ fd_ = [fd_ EXCEPT ![c] = fd_[c]]
  BY <1>0, RunnerOK DEF WatchOK, Interest
<1>2. at[c] \notin Waits /\ "send" \in Points \ Waits /\ "loop" \in Points \ Waits
  BY <1>0 DEF Waits, Points
<1>3. CASE HasTimer(c) /\ Goto(c, "send") /\ fd_' = [fd_ EXCEPT ![c] = TRUE]
  <2>1. at' = [at EXCEPT ![c] = "send"]
    BY <1>3 DEF Goto
  <2>2. QED
    BY <1>0, <1>1, <1>2, <1>3, <2>1, PlainKeeps
<1>4. CASE Goto(c, "loop") /\ UNCHANGED fd_
  <2>1. at' = [at EXCEPT ![c] = "loop"]
    BY <1>4 DEF Goto
  <2>2. fd_[c] => HasTimer(c)
    BY <1>0, <1>1 DEF ClientOK, NeedsTimer
  <2>3. QED
    BY <1>0, <1>1, <1>2, <1>4, <2>1, <2>2, PlainKeeps DEF Begins
<1>5. QED
  BY <1>3, <1>4 DEF ConnectAtOnce

\* A connect in progress watches the descriptor, starts the timer and waits.
LEMMA ConnectBeginKeeps ==
  ASSUME ClientIInv, failed = "none", NEW c \in Cids, ConnectBegin(c)
  PROVE  ClientIInv'
<1>1. /\ slave_cid_ = c /\ at[c] = "connect" /\ HasTimer(c) /\ OpBegin(c)
      /\ interest' = [interest EXCEPT ![c] = "write"] /\ fd_' = [fd_ EXCEPT ![c] = TRUE]
      /\ at' = [at EXCEPT ![c] = "connecting"] /\ CoroutineYield /\ left' = left
      /\ UNCHANGED <<loop_vars, failed, success_count, manager_vars>>
  BY DEF ConnectBegin, Runs, TcpStart, Goto
<1>2. at[c] \notin Waits /\ "connecting" \in Waits /\ "write" \in Interest
  BY <1>1 DEF Waits, Interest
<1>3. left' \in [Cids -> 0 .. Pieces]
  BY <1>1 DEF ClientIInv, ClientsTyped
<1>4. QED
  BY <1>1, <1>2, <1>3, BeginKeeps

\* CoRead and CoWrite.
LEMMA CallKeeps ==
  ASSUME ClientIInv, failed = "none", NEW c \in Cids, NEW p \in {"writing", "reading"},
         OpCall(c, p),
         slave_cid_ = c, at[c] \in Begins,
         NEW w \in {"write", "read"}, interest' = [interest EXCEPT ![c] = w],
         p = "reading" <=> w = "read", left' \in [Cids -> 0 .. Pieces]
  PROVE  ClientIInv'
<1>1. /\ OpBegin(c) /\ at' = [at EXCEPT ![c] = p] /\ fd_' = fd_ /\ UNCHANGED pool_vars
      /\ UNCHANGED <<loop_vars, failed, success_count, manager_vars>>
  BY DEF OpCall, Goto
<1>2. at[c] \notin Waits /\ p \in Waits /\ w \in Interest
  BY DEF Waits, Begins, Interest
<1>3. HasTimer(c) /\ fd_[c]
  BY RunnerOK DEF ClientOK, NeedsTimer
<1>4. fd_' = [fd_ EXCEPT ![c] = TRUE]
  BY <1>1, <1>3, RunnerOK
<1>5. QED
  BY <1>1, <1>2, <1>3, <1>4, BeginKeeps

\* CoWrite and CoRead begin: the descriptor is watched for what the call waits for.
LEMMA CallsKeep ==
  ASSUME ClientIInv, failed = "none", NEW c \in Cids,
         SendBegin(c) \/ RecvBegin(c) \/ CoWrite(c) \/ CoRead(c)
  PROVE  ClientIInv'
<1>0. left \in [Cids -> 0 .. Pieces] /\ Pieces \in 0 .. Pieces
  BY ClientAssumption DEF ClientIInv, ClientsTyped
<1>1. CASE SendBegin(c)
  BY <1>0, <1>1, CallKeeps DEF SendBegin, CallFirst, Runs, TcpStart, Begins
<1>2. CASE RecvBegin(c)
  BY <1>0, <1>2, CallKeeps DEF RecvBegin, CallFirst, Runs, TcpStart, Begins
<1>3. CASE CoWrite(c)
  <2>1. /\ slave_cid_ = c /\ at[c] = "write" /\ OpCall(c, "writing")
        /\ interest' = interest /\ left' = left
    BY <1>3 DEF CoWrite, Runs
  <2>2. interest' = [interest EXCEPT ![c] = "write"]
    BY <2>1, RunnerOK DEF WatchOK
  <2>3. QED
    BY <1>0, <2>1, <2>2, CallKeeps DEF Begins
<1>4. CASE CoRead(c)
  <2>1. /\ slave_cid_ = c /\ at[c] = "read" /\ OpCall(c, "reading")
        /\ interest' = interest /\ left' = left
    BY <1>4 DEF CoRead, Runs
  <2>2. interest' = [interest EXCEPT ![c] = "read"]
    BY <2>1, RunnerOK DEF WatchOK
  <2>3. QED
    BY <1>0, <2>1, <2>2, CallKeeps DEF Begins
<1>5. QED
  BY <1>1, <1>2, <1>3, <1>4

\* A call that would block has its timer and its event when it yields.
LEMMA WouldBlockKeeps ==
  ASSUME ClientIInv, failed = "none", NEW c \in Cids, WouldBlock(c)
  PROVE  ClientIInv'
<1>1. /\ slave_cid_ = c /\ at[c] \in {"writing", "reading"} /\ CoroutineYield
      /\ UNCHANGED <<heap_vars, loop_vars, left, timer_id, is_time_out, success_count,
                     manager_vars>>
      /\ interest' = interest /\ failed' = failed /\ fd_' = fd_ /\ at' = at
  BY DEF WouldBlock, Runs, event_vars, request_vars
<1>2. /\ at[c] \in Waits /\ at[c] \in Points /\ fd_[c] \in BOOLEAN /\ interest[c] \in Interest
      /\ failed' \in Failures
      /\ at' = [at EXCEPT ![c] = at[c]] /\ fd_' = [fd_ EXCEPT ![c] = fd_[c]]
      /\ interest' = [interest EXCEPT ![c] = interest[c]]
      /\ ClientOK(c) /\ WatchOK(c)
  BY <1>1, RunnerOK DEF Waits
<1>3. fd_[c] /\ at[c] = "writing" => interest[c] = "write"
  BY <1>2 DEF ClientOK, WatchOK
<1>4. fd_[c] /\ (at[c] = "reading" => interest[c] = "read")
  BY <1>2 DEF ClientOK, WatchOK
<1>5. at[c] \notin Begins
  BY <1>1 DEF Begins
<1>6. QED
  BY <1>1, <1>2, <1>3, <1>4, <1>5, PlainKeeps

\* A write that ends the process leaves the call as it is.
LEMMA PipeBreaksKeeps ==
  ASSUME ClientIInv, failed = "none", NEW c \in Cids, PipeBreaks(c)
  PROVE  ClientIInv'
<1>1. /\ slave_cid_ = c /\ at[c] = "writing" /\ UNCHANGED pool_vars
      /\ UNCHANGED <<heap_vars, loop_vars, left, timer_id, is_time_out, success_count,
                     manager_vars>>
      /\ interest' = interest /\ failed' = "pipe" /\ fd_' = fd_ /\ at' = at
  BY DEF PipeBreaks, Runs, request_vars
<1>2. /\ at[c] \in Waits /\ at[c] \in Points /\ fd_[c] \in BOOLEAN /\ interest[c] \in Interest
      /\ at' = [at EXCEPT ![c] = at[c]] /\ fd_' = [fd_ EXCEPT ![c] = fd_[c]]
      /\ interest' = [interest EXCEPT ![c] = interest[c]]
      /\ ClientOK(c) /\ WatchOK(c)
  BY <1>1, RunnerOK DEF Waits
<1>3. fd_[c] /\ interest[c] = "write" /\ failed' \in Failures
  BY <1>1, <1>2 DEF ClientOK, WatchOK, Failures
<1>4. at[c] \notin Begins
  BY <1>1 DEF Begins
<1>5. QED
  BY <1>1, <1>2, <1>3, <1>4, PlainKeeps

\* The call fails: descriptor, event and timer go.
LEMMA FailsKeeps ==
  ASSUME ClientIInv, failed = "none", NEW c \in Cids, slave_cid_ = c, at[c] \in Waits,
         NEW p \in {"loop", "clear"}, OpFails(c, p),
         success_count' \in [Cids -> 0 .. max_req_count_],
         UNCHANGED <<pool_vars, loop_vars, failed, manager_vars>>
  PROVE  ClientIInv'
<1>1. /\ OpEnd(c) /\ interest' = [interest EXCEPT ![c] = "none"]
      /\ fd_' = [fd_ EXCEPT ![c] = FALSE] /\ left' = [left EXCEPT ![c] = 0]
      /\ at' = [at EXCEPT ![c] = p]
  BY DEF OpFails, TcpClear, Goto
<1>2. left' \in [Cids -> 0 .. Pieces] /\ failed' \in Failures
  BY <1>1, ClientAssumption DEF ClientIInv, ClientsTyped
<1>3. "none" \in Interest /\ p \notin Begins
  BY DEF Interest, Begins
<1>4. QED
  BY <1>1, <1>2, <1>3, EndKeeps

\* CoConnect ends: the timer is cancelled unless it has run, and nothing is watched.
LEMMA ConnectEndKeeps ==
  ASSUME ClientIInv, failed = "none", NEW c \in Cids, ConnectEnd(c)
  PROVE  ClientIInv'
<1>1. /\ slave_cid_ = c /\ at[c] = "connecting"
      /\ UNCHANGED <<pool_vars, loop_vars, failed, success_count, manager_vars>>
  BY DEF ConnectEnd, Runs
<1>2. /\ at[c] \in Waits /\ fd_[c] /\ left \in [Cids -> 0 .. Pieces]
      /\ success_count' \in [Cids -> 0 .. max_req_count_]
      /\ failed' \in Failures
  BY <1>1, RunnerOK DEF ClientOK, Waits, ClientsTyped
<1>3. CASE OpFails(c, "loop")
  BY <1>1, <1>2, <1>3, FailsKeeps
<1>4. CASE /\ HasTimer(c) /\ OpEnd(c) /\ TcpClear(c) /\ Goto(c, "send")
           /\ UNCHANGED <<fd_, left>>
  <2>1. /\ interest' = [interest EXCEPT ![c] = "none"] /\ at' = [at EXCEPT ![c] = "send"]
        /\ fd_' = [fd_ EXCEPT ![c] = TRUE] /\ "none" \in Interest
    BY <1>2, <1>4, <1>1, RunnerOK DEF TcpClear, Goto, Interest
  <2>2. QED
    BY <1>1, <1>2, <1>4, <2>1, EndKeeps
<1>5. QED
  BY <1>3, <1>4 DEF ConnectEnd

\* A part has been written or read.
LEMMA PartKeeps ==
  ASSUME ClientIInv, failed = "none", NEW c \in Cids, NEW q \in {"writing", "reading"},
         NEW p \in {"write", "recv", "read"}, p = "read" <=> q = "reading",
         NEW n \in 0 .. Pieces, Part(c, q, p, n),
         success_count' \in [Cids -> 0 .. max_req_count_]
  PROVE  ClientIInv'
<1>1. /\ slave_cid_ = c /\ at[c] = q /\ HasTimer(c) /\ OpEnd(c)
      /\ left' = [left EXCEPT ![c] = n] /\ at' = [at EXCEPT ![c] = p]
      /\ interest' = interest /\ fd_' = fd_
      /\ UNCHANGED <<pool_vars, loop_vars, failed, manager_vars>>
  BY DEF Part, Runs, Goto
<1>2. /\ at[c] \in Waits /\ ClientOK(c) /\ WatchOK(c)
      /\ interest' = [interest EXCEPT ![c] = interest[c]] /\ interest[c] \in Interest
      /\ fd_' = [fd_ EXCEPT ![c] = fd_[c]] /\ failed' \in Failures
  BY <1>1, RunnerOK DEF Waits
<1>3. /\ fd_[c] /\ (p = "read" => interest[c] = "read")
      /\ p \in {"write", "recv"} => interest[c] = "write"
  BY <1>1, <1>2 DEF ClientOK, WatchOK
<1>4. left' \in [Cids -> 0 .. Pieces]
  BY <1>1 DEF ClientIInv, ClientsTyped
<1>5. fd_[c] \in BOOLEAN
  BY <1>1, RunnerOK
<1>6. QED
  BY <1>1, <1>2, <1>3, <1>4, <1>5, EndKeeps

\* A part was written or read: the timer of this call is gone before the next one is started.
LEMMA PartsKeep ==
  ASSUME ClientIInv, failed = "none", NEW c \in Cids, WritePart(c) \/ ReadPart(c)
  PROVE  ClientIInv'
<1>0. left[c] \in 0 .. Pieces /\ success_count \in [Cids -> 0 .. max_req_count_]
  BY DEF ClientIInv, ClientsTyped
<1>1. CASE WritePart(c)
  <2>1. PICK n \in 0 .. left[c] - 1 :
          /\ Part(c, "writing", IF n = 0 THEN "recv" ELSE "write", n)
          /\ UNCHANGED success_count
    BY <1>1 DEF WritePart
  <2>2. n \in 0 .. Pieces
    BY <1>0, ClientAssumption
  <2>3. QED
    BY <1>0, <2>1, <2>2, PartKeeps
<1>2. CASE ReadPart(c)
  <2>1. PICK n \in 1 .. left[c] - 1 :
          Part(c, "reading", "read", n) /\ UNCHANGED success_count
    BY <1>2 DEF ReadPart
  <2>2. n \in 0 .. Pieces
    BY <1>0, ClientAssumption
  <2>3. QED
    BY <1>0, <2>1, <2>2, PartKeeps
<1>3. QED
  BY <1>1, <1>2

\* A failed write or read closes the descriptor, which is not watched any more.
LEMMA FailuresKeep ==
  ASSUME ClientIInv, failed = "none", NEW c \in Cids, WriteFails(c) \/ ReadFails(c)
  PROVE  ClientIInv'
<1>0. success_count \in [Cids -> 0 .. max_req_count_]
  BY DEF ClientIInv, ClientsTyped
<1>1. /\ slave_cid_ = c /\ at[c] \in Waits
      /\ OpFails(c, "loop") \/ OpFails(c, "clear")
      /\ UNCHANGED <<pool_vars, loop_vars, failed, success_count, manager_vars>>
  BY DEF WriteFails, ReadFails, Runs, Waits
<1>2. success_count' \in [Cids -> 0 .. max_req_count_]
  BY <1>0, <1>1
<1>3. QED
  BY <1>1, <1>2, FailsKeeps

\* A read error that is taken for data: the decoding decides how it goes on.
LEMMA ReadErrorKeeps ==
  ASSUME ClientIInv, failed = "none", NEW c \in Cids, ReadError(c)
  PROVE  ClientIInv'
<1>0. success_count' \in [Cids -> 0 .. max_req_count_] /\ 0 \in 0 .. Pieces
  BY ClientAssumption DEF ClientIInv, ClientsTyped, ReadError
<1>1. CASE Part(c, "reading", "read", 0)
  BY <1>0, <1>1, PartKeeps
<1>2. CASE /\ Runs(c, "reading") /\ OpEnd(c) /\ Goto(c, "read") /\ failed' = "decode"
           /\ UNCHANGED <<pool_vars, loop_vars, interest, fd_, left, success_count,
                          manager_vars>>
  <2>1. slave_cid_ = c /\ at[c] = "reading" /\ at[c] \in Waits
    BY <1>2 DEF Runs, Waits
  <2>2. fd_[c] /\ interest[c] = "read" /\ left \in [Cids -> 0 .. Pieces]
    BY <2>1, RunnerOK DEF ClientOK, WatchOK, ClientsTyped
  <2>3. /\ at' = [at EXCEPT ![c] = "read"] /\ interest' = [interest EXCEPT ![c] = "read"]
        /\ fd_' = [fd_ EXCEPT ![c] = TRUE] /\ "read" \in Interest /\ failed' # "none"
        /\ failed' \in Failures /\ left' \in [Cids -> 0 .. Pieces]
    BY <1>2, <2>1, <2>2, RunnerOK DEF Goto, Interest, Failures
  <2>4. QED
    BY <1>0, <1>2, <2>1, <2>3, EndKeeps
<1>3. QED
  BY <1>1, <1>2 DEF ReadError

\* The answer is complete: the connection is used again, or is closed after its last request.
LEMMA ReadAllKeeps ==
  ASSUME ClientIInv, failed = "none", NEW c \in Cids, ReadAll(c)
  PROVE  ClientIInv'
<1>0. /\ slave_cid_ = c /\ at[c] = "reading" /\ at[c] \in Waits /\ HasTimer(c)
      /\ success_count' = [success_count EXCEPT ![c] = (@ % max_req_count_) + 1]
      /\ UNCHANGED <<pool_vars, loop_vars, failed, manager_vars>>
  BY DEF ReadAll, Runs, Waits
<1>1. /\ ClientOK(c) /\ WatchOK(c) /\ ClientsTyped
      /\ success_count[c] \in 0 .. max_req_count_
  BY <1>0, RunnerOK
<1>2. success_count' \in [Cids -> 0 .. max_req_count_]
  <2>1. success_count[c] % max_req_count_ \in 0 .. max_req_count_ - 1
    BY <1>1, ClientAssumption
  <2>2. (success_count[c] % max_req_count_) + 1 \in 0 .. max_req_count_
    BY <2>1, ClientAssumption
  <2>3. QED
    BY <1>0, <1>1, <2>2 DEF ClientsTyped
<1>3. CASE OpFails(c, "clear")
  BY <1>0, <1>2, <1>3, FailsKeeps
<1>4. CASE /\ OpEnd(c) /\ left' = [left EXCEPT ![c] = 0] /\ Goto(c, "clear")
           /\ UNCHANGED <<interest, fd_>>
  <2>1. fd_[c] /\ interest[c] = "read"
    BY <1>0, <1>1 DEF ClientOK, WatchOK
  <2>2. /\ at' = [at EXCEPT ![c] = "clear"] /\ interest' = [interest EXCEPT ![c] = "read"]
        /\ fd_' = [fd_ EXCEPT ![c] = TRUE] /\ "read" \in Interest
        /\ failed' \in Failures /\ left' \in [Cids -> 0 .. Pieces]
    BY <1>0, <1>1, <1>4, <2>1, RunnerOK, ClientAssumption DEF Goto, Interest, ClientsTyped
  <2>3. QED
    BY <1>0, <1>2, <1>4, <2>1, <2>2, EndKeeps
<1>5. QED
  BY <1>3, <1>4 DEF ReadAll

\* TcpEventClear at the end of a connection.
LEMMA ClearEventKeeps ==
  ASSUME ClientIInv, failed = "none", NEW c \in Cids, ClearEvent(c)
  PROVE  ClientIInv'
<1>0. /\ slave_cid_ = c /\ at[c] = "clear" /\ fd_' = fd_
      /\ UNCHANGED <<pool_vars, heap_vars, loop_vars, left, timer_id, is_time_out, success_count,
                     manager_vars>>
  BY DEF ClearEvent, Runs
<1>1. /\ ClientOK(c) /\ WatchOK(c) /\ fd_[c] \in BOOLEAN /\ interest[c] \in Interest
      /\ fd_' = [fd_ EXCEPT ![c] = fd_[c]] /\ failed \in Failures
  BY <1>0, RunnerOK
<1>2. fd_[c] => HasTimer(c)
  BY <1>0, <1>1 DEF ClientOK, NeedsTimer
<1>3. /\ at[c] \notin Waits /\ {"loop", "clear"} \subseteq Points \ Waits
      /\ "loop" \notin Begins /\ "clear" \notin Begins
  BY <1>0 DEF Waits, Points, Begins
<1>4. CASE fd_[c]
  <2>0. interest[c] # "none"
    BY <1>0, <1>1, <1>4 DEF WatchOK
  <2>1. /\ interest' = [interest EXCEPT ![c] = "none"] /\ at' = [at EXCEPT ![c] = "loop"]
        /\ failed' = failed /\ "none" \in Interest
    BY <2>0 DEF ClearEvent, TcpClear, Goto, Interest
  <2>2. QED
    BY <1>0, <1>1, <1>2, <1>3, <2>1, PlainKeeps
<1>5. CASE ~ fd_[c]
  <2>1. interest[c] = "none"
    BY <1>0, <1>1, <1>5 DEF WatchOK
  <2>2. /\ interest' = [interest EXCEPT ![c] = "none"] /\ at' = [at EXCEPT ![c] = "clear"]
        /\ failed' = "clear" /\ "none" \in Interest /\ failed' \in Failures
    BY <1>0, <1>5, <2>1, RunnerOK DEF ClearEvent, Interest, Failures
  <2>3. QED
    BY <1>0, <1>1, <1>2, <1>3, <1>5, <2>2, PlainKeeps
<1>6. QED
  BY <1>4, <1>5

\* Every step of a client.
LEMMA ClientStepKeeps ==
  ASSUME ClientIInv, failed = "none", NEW c \in Cids, ClientStep(c)
  PROVE  ClientIInv'
BY ClientLoopKeeps, ConnectAtOnceKeeps, ConnectBeginKeeps, ConnectEndKeeps, CallsKeep, PartsKeep,
   ReadAllKeeps, FailuresKeep, ReadErrorKeeps, WouldBlockKeeps, ClearEventKeeps, PipeBreaksKeeps
   DEF ClientStep

-----------------------------------------------------------------------------
(* The steps of the master.                                                *)

\* While the master runs the clients are where they were, and it resumes at most one of them.
LEMMA ClientsKept ==
  ASSUME ClientIInv, failed = "none", is_master_,
         UNCHANGED <<at, fd_, interest>>,
         \A d \in Cids : Unused(d) \subseteq Unused(d)',
         \A d \in Cids : LiveOK(d)',
         \A d \in Cids :
           \/ slave_cid_' = d /\ ~ is_stop_'[d]
           \/ slave_cid_' # d /\ state'[d] = state[d] /\ (is_stop_'[d] => is_stop_[d])
  PROVE  ClientInv'
<1>1. ASSUME NEW d \in Cids
      PROVE  ClientOK(d)' /\ WatchOK(d)'
  <2>1. ClientOK(d) /\ WatchOK(d)
    BY DEF ClientIInv, ClientInv
  <2>2. slave_cid_ # d
    BY InvalidIsNoCid DEF is_master_
  <2>3. at[d] \notin Holds
    BY <2>1, <2>2 DEF ClientOK
  <2>4. HasTimer(d) => HasTimer(d)'
    BY DEF HasTimer
  <2>5. NeedsTimer(d)' = NeedsTimer(d)
    BY DEF NeedsTimer
  <2>6. WatchOK(d)'
    BY <2>1 DEF WatchOK
  <2>7. CASE slave_cid_' = d /\ ~ is_stop_'[d]
    BY <2>1, <2>2, <2>3, <2>4, <2>5, <2>6, <2>7 DEF ClientOK
  <2>8. CASE slave_cid_' # d /\ state'[d] = state[d] /\ (is_stop_'[d] => is_stop_[d])
    BY <2>1, <2>2, <2>3, <2>4, <2>5, <2>6, <2>8 DEF ClientOK
  <2>9. QED
    BY <2>7, <2>8
<1>2. QED
  BY <1>1 DEF ClientInv

\* What can still run for the clients is not affected by timers that are cancelled or others'.
LEMMA LiveKept ==
  ASSUME ClientIInv, UNCHANGED <<at, timer_id, is_time_out>>,
         timer_ids_' \ cancel_ids_' \subseteq (timer_ids_ \ cancel_ids_) \cup {RateLimitTimer},
         timer_ids_ \ cancel_ids_ \subseteq
           (timer_ids_' \ cancel_ids_') \cup {InitStartTimer, RateLimitTimer, StopTimer}
  PROVE  \A d \in Cids : LiveOK(d)'
<1>1. ASSUME NEW d \in Cids PROVE LiveOK(d)'
  <2>1. Live(d)' = Live(d)
    BY TimerOwners DEF Live
  <2>2. LiveOK(d)
    BY DEF ClientIInv, ClientInv
  <2>3. QED
    BY <2>1, <2>2 DEF LiveOK
<1>2. QED
  BY <1>1

\* The timers that can be started depend on those known.
LEMMA UnusedKept ==
  ASSUME timer_ids_' \subseteq timer_ids_ \cup {RateLimitTimer}
  PROVE  \A d \in Cids : Unused(d) \subseteq Unused(d)'
<1>1. ASSUME NEW d \in Cids, NEW n \in Unused(d) PROVE n \in Unused(d)'
  <2>1. n \in 1 .. MaxTimers /\ <<d, n>> \notin timer_ids_ /\ <<d, n>> \in ClientTimers(d)
    BY DEF Unused, ClientTimers
  <2>2. <<d, n>> # RateLimitTimer
    BY <2>1, TimerOwners
  <2>3. QED
    BY <2>1, <2>2 DEF Unused
<1>2. QED
  BY <1>1

\* A step that leaves the pool alone keeps it consistent.
LEMMA PoolKept ==
  ASSUME ClientIInv, UNCHANGED pool_vars
  PROVE  PoolOK' /\ UNCHANGED <<state, slave_cid_>>
BY DEF ClientIInv, pool_vars, PoolOK, OneRunner, CountsNotIdle

\* GetLastTimer.
LEMMA LastTimer ==
  ASSUME ClientIInv, NEW dropped, NEW t, GetLastTimer(dropped, t)
  PROVE  /\ is_master_ /\ phase = "next" /\ is_running_
         /\ timers_' \subseteq timers_ /\ timer_ids_' \subseteq timer_ids_
         /\ cancel_ids_' \subseteq cancel_ids_ /\ timers_' \subseteq timer_ids_'
         /\ cancel_ids_' \subseteq timer_ids_' \ {InitStartTimer, RateLimitTimer, StopTimer}
         /\ t # NoTimer => t \in timer_ids_' \ timers_'
         /\ t \in Timers \cup {NoTimer}
         /\ timer_ids_' \ cancel_ids_' = timer_ids_ \ cancel_ids_
         /\ StopTimer \in timer_ids_'
         /\ failed' \in {failed, "empty"} /\ (failed' = "none" => t # NoTimer)
<1>0. HeapInv /\ ClientsTyped
  BY DEF ClientIInv
<1>1. /\ is_master_ /\ phase = "next" /\ is_running_
      /\ dropped \subseteq timers_ \cap cancel_ids_
      /\ t \in IF timers_ = dropped THEN {NoTimer} ELSE timers_ \ cancel_ids_
      /\ timers_' = timers_ \ (dropped \cup {t})
      /\ timer_ids_' = timer_ids_ \ dropped
      /\ cancel_ids_' = cancel_ids_ \ dropped
      /\ failed' = IF t = NoTimer /\ timer_ids_' # {} THEN "empty" ELSE failed
  BY DEF GetLastTimer
<1>2. /\ timers_' \subseteq timers_ /\ timer_ids_' \subseteq timer_ids_
      /\ cancel_ids_' \subseteq cancel_ids_ /\ timers_' \subseteq timer_ids_'
      /\ cancel_ids_' \subseteq timer_ids_' \ {InitStartTimer, RateLimitTimer, StopTimer}
      /\ timer_ids_' \ cancel_ids_' = timer_ids_ \ cancel_ids_
  BY <1>0, <1>1 DEF HeapInv
<1>3. StopTimer \in timer_ids_'
  BY <1>0, <1>1 DEF HeapInv
<1>4. /\ t # NoTimer => t \in timer_ids_' \ timers_'
      /\ t \in Timers \cup {NoTimer}
  BY <1>0, <1>1 DEF HeapInv, ClientsTyped
<1>5. failed' \in {failed, "empty"} /\ (failed' = "none" => t # NoTimer)
  BY <1>1, <1>3
<1>6. QED
  BY <1>1, <1>2, <1>3, <1>4, <1>5

\* A turn of the loop: the event handler is never called for a client that waits for nothing.
LEMMA TurnKeeps ==
  ASSUME ClientIInv, failed = "none", NEW t, Turn(t)
  PROVE  ClientIInv'
<1>0. PoolOK /\ ClientsTyped /\ ClientInv /\ HeapInv /\ StartInv /\ RateInv
  BY DEF ClientIInv
<1>1. PICK dropped : GetLastTimer(dropped, t)
  BY DEF Turn, EpollWait
<1>2. /\ is_master_ /\ phase = "next" /\ is_running_
      /\ timers_' \subseteq timers_ /\ timer_ids_' \subseteq timer_ids_
      /\ cancel_ids_' \subseteq cancel_ids_ /\ timers_' \subseteq timer_ids_'
      /\ cancel_ids_' \subseteq timer_ids_' \ {InitStartTimer, RateLimitTimer, StopTimer}
      /\ t # NoTimer => t \in timer_ids_' \ timers_'
      /\ t \in Timers \cup {NoTimer}
      /\ timer_ids_' \ cancel_ids_' = timer_ids_ \ cancel_ids_
      /\ StopTimer \in timer_ids_'
      /\ failed' \in {failed, "empty"} /\ (failed' = "none" => t # NoTimer)
  BY <1>1, LastTimer
<1>3. /\ timer_data' = t /\ events' \in SUBSET {c \in Cids : interest[c] # "none"}
      /\ phase' = "events" /\ is_running_' = is_running_ /\ interest' = interest
      /\ UNCHANGED <<pool_vars, request_vars, manager_vars>>
  BY DEF Turn, EpollWait
<1>4. /\ UNCHANGED <<at, fd_, left, timer_id, is_time_out, success_count>>
      /\ UNCHANGED <<is_stop_, temp_rate_limit_, clients_run, next_client>>
  BY <1>3 DEF request_vars, manager_vars
<1>5. PoolOK' /\ UNCHANGED <<state, slave_cid_>>
  BY <1>3, PoolKept
<1>6. ClientsTyped'
  BY <1>0, <1>2, <1>3, <1>4 DEF ClientsTyped, Failures
<1>7. HeapInv'
  BY <1>2, <1>3 DEF HeapInv
<1>8. ClientInv'
  <2>1. \A d \in Cids : LiveOK(d)'
    BY <1>2, <1>4, LiveKept
  <2>2. \A d \in Cids : Unused(d) \subseteq Unused(d)'
    BY <1>2, UnusedKept
  <2>3. \A d \in Cids : slave_cid_' # d
    BY <1>2, <1>5, InvalidIsNoCid DEF is_master_
  <2>4. QED
    BY <1>2, <1>3, <1>4, <1>5, <2>1, <2>2, <2>3, ClientsKept
<1>9. EventHasWaiter'
  <2>1. ASSUME NEW c \in events'
        PROVE  state[c] = "kSuspend" /\ fd_[c] /\ at[c] \in Waits
    <3>1. c \in Cids /\ interest[c] # "none"
      BY <1>3
    <3>2. ClientOK(c) /\ WatchOK(c) /\ at[c] \in Points
      BY <1>0, <3>1 DEF ClientInv, ClientsTyped
    <3>3. slave_cid_ # c
      BY <1>2, <3>1, InvalidIsNoCid DEF is_master_
    <3>4. at[c] \in Waits
      BY <3>1, <3>2, <3>3 DEF ClientOK, WatchOK, Points, Holds
    <3>5. QED
      BY <3>2, <3>3, <3>4 DEF ClientOK
  <2>2. QED
    BY <1>3, <1>4, <1>5, <2>1 DEF EventHasWaiter
<1>10. StartInv'
  BY <1>0, <1>2, <1>3, <1>5 DEF StartInv
<1>11. RateInv'
  <2>1. StoppedSince' = StoppedSince
    BY <1>2, <1>3, <1>4 DEF StoppedSince
  <2>2. QED
    BY <1>0, <1>3, <1>4, <2>1 DEF RateInv
<1>12. QED
  BY <1>5, <1>6, <1>7, <1>8, <1>9, <1>10, <1>11 DEF ClientIInv

\* A step of the master that resumes nobody, after which no event is left to be handled.
LEMMA NobodyResumed ==
  ASSUME ClientIInv, failed = "none", is_master_, UNCHANGED pool_vars, UNCHANGED request_vars,
         UNCHANGED <<is_stop_, interest, failed>>,
         events' = {}, phase' \in {"next", "InitStart", "ReStart", "over"},
         timers_' \subseteq Timers, timer_ids_' \subseteq Timers, cancel_ids_' \subseteq Timers,
         timers_' \subseteq timer_ids_',
         cancel_ids_' \subseteq timer_ids_' \ {InitStartTimer, RateLimitTimer, StopTimer},
         timer_data' = NoTimer, is_running_' \in BOOLEAN,
         is_running_' => StopTimer \in timer_ids_',
         timer_ids_' \subseteq timer_ids_ \cup {RateLimitTimer},
         timer_ids_' \ cancel_ids_' \subseteq (timer_ids_ \ cancel_ids_) \cup {RateLimitTimer},
         timer_ids_ \ cancel_ids_ \subseteq
           (timer_ids_' \ cancel_ids_') \cup {InitStartTimer, RateLimitTimer, StopTimer},
         phase' = "InitStart" =>
           InitStartTimer \in timer_ids_ /\ InitStartTimer \notin timer_ids_',
         temp_rate_limit_' \in {temp_rate_limit_, rate_limit_},
         clients_run' \in BOOLEAN, next_client' \in 0 .. coroutine_count_, RateInv'
  PROVE  ClientIInv'
<1>0. PoolOK /\ ClientsTyped /\ StartInv
  BY DEF ClientIInv
<1>1. /\ UNCHANGED <<at, fd_, left, timer_id, is_time_out, success_count>>
      /\ PoolOK' /\ UNCHANGED <<state, slave_cid_>>
  BY PoolKept DEF request_vars
<1>2. ClientsTyped'
  <2>1. temp_rate_limit_' \in Int /\ temp_rate_limit_' <= rate_limit_
    BY <1>0, ClientAssumption DEF ClientsTyped
  <2>2. QED
    BY <1>0, <1>1, <2>1 DEF ClientsTyped
<1>3. HeapInv'
  BY DEF HeapInv
<1>4. ClientInv'
  <2>1. \A d \in Cids : LiveOK(d)'
    BY <1>1, LiveKept
  <2>2. \A d \in Cids : Unused(d) \subseteq Unused(d)'
    BY UnusedKept
  <2>3. \A d \in Cids : slave_cid_' # d
    BY <1>1, InvalidIsNoCid DEF is_master_
  <2>4. QED
    BY <1>1, <2>1, <2>2, <2>3, ClientsKept
<1>5. EventHasWaiter'
  BY DEF EventHasWaiter
<1>6. StartInv'
  <2>1. InitStartTimer \in timer_ids_' => InitStartTimer \in timer_ids_
    BY TimerOwners
  <2>2. QED
    BY <1>0, <1>1, <2>1 DEF StartInv
<1>7. QED
  BY <1>1, <1>2, <1>3, <1>4, <1>5, <1>6 DEF ClientIInv

\* The rate limit, when the master stays the master and no refresh begins or ends.
LEMMA RateKeptByMaster ==
  ASSUME ClientIInv, is_master_, slave_cid_' = slave_cid_, UNCHANGED <<is_stop_,
         temp_rate_limit_>>,
         phase # "ReStart", phase' # "ReStart"
  PROVE  RateInv'
<1>1. StoppedSince' = StoppedSince
  BY DEF StoppedSince
<1>2. QED
  BY <1>1 DEF RateInv, is_master_, ClientIInv

\* epoll_wait fails: the timer that was taken out is lost, and its id stays known.
LEMMA EpollWaitFailsKeeps ==
  ASSUME ClientIInv, failed = "none", NEW t, EpollWaitFails(t),
         UNCHANGED <<pool_vars, request_vars, manager_vars>>
  PROVE  ClientIInv'
<1>0. PoolOK /\ ClientsTyped /\ HeapInv /\ StartInv /\ RateInv
  BY DEF ClientIInv
<1>1. PICK dropped : GetLastTimer(dropped, t)
  BY DEF EpollWaitFails
<1>2. /\ is_master_ /\ phase = "next" /\ is_running_
      /\ timers_' \subseteq timers_ /\ timer_ids_' \subseteq timer_ids_
      /\ cancel_ids_' \subseteq cancel_ids_ /\ timers_' \subseteq timer_ids_'
      /\ cancel_ids_' \subseteq timer_ids_' \ {InitStartTimer, RateLimitTimer, StopTimer}
      /\ timer_ids_' \ cancel_ids_' = timer_ids_ \ cancel_ids_
      /\ StopTimer \in timer_ids_'
      /\ failed' \in {failed, "empty"}
  BY <1>1, LastTimer
<1>3. /\ UNCHANGED <<timer_data, events, is_running_, interest, phase>>
      /\ timer_data = NoTimer /\ events = {}
  BY <1>0, <1>2 DEF EpollWaitFails, HeapInv
<1>4. /\ UNCHANGED <<at, fd_, left, timer_id, is_time_out, success_count>>
      /\ UNCHANGED <<is_stop_, temp_rate_limit_, clients_run, next_client>>
      /\ PoolOK' /\ UNCHANGED <<state, slave_cid_>>
  BY PoolKept DEF request_vars, manager_vars
<1>5. ClientsTyped'
  BY <1>0, <1>2, <1>3, <1>4 DEF ClientsTyped, Failures
<1>6. HeapInv'
  BY <1>2, <1>3 DEF HeapInv
<1>7. ClientInv'
  <2>1. \A d \in Cids : LiveOK(d)'
    BY <1>2, <1>4, LiveKept
  <2>2. \A d \in Cids : Unused(d) \subseteq Unused(d)'
    BY <1>2, UnusedKept
  <2>3. \A d \in Cids : slave_cid_' # d
    BY <1>2, <1>4, InvalidIsNoCid DEF is_master_
  <2>4. QED
    BY <1>2, <1>3, <1>4, <2>1, <2>2, <2>3, ClientsKept
<1>8. EventHasWaiter'
  BY <1>3 DEF EventHasWaiter
<1>9. StartInv'
  BY <1>0, <1>2, <1>3, <1>4 DEF StartInv
<1>10. RateInv'
  BY <1>2, <1>3, <1>4, RateKeptByMaster
<1>11. QED
  BY <1>4, <1>5, <1>6, <1>7, <1>8, <1>9, <1>10 DEF ClientIInv

\* The timer that has been taken out, when it is its turn.
LEMMA TimerAtHand ==
  ASSUME ClientIInv, failed = "none", AtTimer
  PROVE  /\ is_master_ /\ phase = "events" /\ events = {}
         /\ timer_data \in Timers /\ timer_data \in timer_ids_ /\ timer_data \notin timers_
         /\ timers_ \subseteq timer_ids_
         /\ cancel_ids_ \subseteq timer_ids_ \ {InitStartTimer, RateLimitTimer, StopTimer}
         /\ is_running_ => StopTimer \in timer_ids_
         /\ timers_ \subseteq Timers /\ timer_ids_ \subseteq Timers
         /\ cancel_ids_ \subseteq Timers
         /\ is_running_ \in BOOLEAN /\ clients_run \in BOOLEAN
         /\ next_client \in 0 .. coroutine_count_
BY DEF ClientIInv, HeapInv, ClientsTyped, AtTimer

\* The timer at the top is put back when it is not due,
LEMMA TimerNotDueKeeps ==
  ASSUME ClientIInv, failed = "none", TimerNotDue,
         UNCHANGED <<pool_vars, request_vars, manager_vars>>
  PROVE  ClientIInv'
<1>1. /\ AtTimer /\ timers_' = timers_ \cup {timer_data} /\ timer_data' = NoTimer
      /\ phase' = "next"
      /\ UNCHANGED <<timer_ids_, cancel_ids_, events, is_running_, interest, failed>>
      /\ UNCHANGED <<is_stop_, temp_rate_limit_, clients_run, next_client>>
      /\ slave_cid_' = slave_cid_
  BY DEF TimerNotDue, manager_vars, pool_vars
<1>2. RateInv'
  BY <1>1, TimerAtHand, RateKeptByMaster
<1>3. QED
  BY <1>1, <1>2, TimerAtHand, NobodyResumed

\* the loop ends when it is told to,
LEMMA LoopEndsKeeps ==
  ASSUME ClientIInv, failed = "none", LoopEnds, UNCHANGED <<pool_vars, request_vars,
         manager_vars>>
  PROVE  ClientIInv'
<1>0. HeapInv /\ ClientsTyped
  BY DEF ClientIInv
<1>1. /\ is_master_ /\ phase = "next" /\ phase' = "over"
      /\ UNCHANGED <<timers_, timer_ids_, cancel_ids_, timer_data, events, is_running_, interest,
                     failed>>
      /\ UNCHANGED <<is_stop_, temp_rate_limit_, clients_run, next_client>>
      /\ slave_cid_' = slave_cid_
  BY DEF LoopEnds, manager_vars, heap_vars, pool_vars
<1>2. RateInv'
  BY <1>1, RateKeptByMaster
<1>3. QED
  BY <1>0, <1>1, <1>2, NobodyResumed DEF HeapInv, ClientsTyped

\* and a cancelled timer is dropped.
LEMMA TimerCancelledKeeps ==
  ASSUME ClientIInv, failed = "none", TimerCancelled,
         UNCHANGED <<pool_vars, request_vars, manager_vars>>
  PROVE  ClientIInv'
<1>1. /\ AtTimer /\ timer_data \in cancel_ids_ /\ timer_data' = NoTimer /\ phase' = "next"
      /\ timer_ids_' = timer_ids_ \ {timer_data} /\ cancel_ids_' = cancel_ids_ \ {timer_data}
      /\ UNCHANGED <<timers_, events, is_running_, interest, failed>>
      /\ UNCHANGED <<is_stop_, temp_rate_limit_, clients_run, next_client>>
      /\ slave_cid_' = slave_cid_
  BY DEF TimerCancelled, manager_vars, pool_vars
<1>2. RateInv'
  BY <1>1, TimerAtHand, RateKeptByMaster
<1>3. StopTimer # timer_data
  BY <1>1, TimerAtHand
<1>4. QED
  BY <1>1, <1>2, <1>3, TimerAtHand, NobodyResumed

\* A handler that goes through the clients begins.
LEMMA EachClientKeeps ==
  ASSUME ClientIInv, failed = "none",
         NEW t \in {InitStartTimer, RateLimitTimer}, NEW p \in {"InitStart", "ReStart"},
         EachClient(t, p), p = "InitStart" <=> t = InitStartTimer,
         temp_rate_limit_' \in {temp_rate_limit_, rate_limit_}, RateInv'
  PROVE  ClientIInv'
<1>1. /\ AtTimer /\ timer_data = t /\ timer_data' = NoTimer /\ phase' = p /\ next_client' = 0
      /\ timer_ids_' = timer_ids_ \ {t}
      /\ UNCHANGED <<pool_vars, request_vars>>
      /\ UNCHANGED <<timers_, cancel_ids_, events, is_running_, interest, failed>>
      /\ UNCHANGED <<is_stop_, clients_run>>
  BY DEF EachClient, TimerDue
<1>2. StopTimer # t
  BY TimerOwners
<1>3. next_client' \in 0 .. coroutine_count_
  BY <1>1, PoolAssumption
<1>4. QED
  BY <1>1, <1>2, <1>3, TimerAtHand, NobodyResumed

\* The two handlers that go through the clients begin.
LEMMA BeginsKeep ==
  ASSUME ClientIInv, failed = "none", InitStartBegin \/ RateLimitRefresh
  PROVE  ClientIInv'
<1>1. CASE InitStartBegin
  <2>1. /\ EachClient(InitStartTimer, "InitStart") /\ temp_rate_limit_' = temp_rate_limit_
    BY <1>1 DEF InitStartBegin
  <2>2. /\ AtTimer /\ phase' = "InitStart" /\ is_stop_' = is_stop_ /\ slave_cid_' = slave_cid_
    BY <2>1 DEF EachClient, TimerDue, pool_vars
  <2>3. RateInv'
    BY <2>1, <2>2, TimerAtHand, RateKeptByMaster
  <2>4. QED
    BY <2>1, <2>3, EachClientKeeps
<1>2. CASE RateLimitRefresh
  <2>1. EachClient(RateLimitTimer, "ReStart") /\ temp_rate_limit_' = rate_limit_
    BY <1>2 DEF RateLimitRefresh
  <2>2. /\ AtTimer /\ phase' = "ReStart" /\ slave_cid_' = slave_cid_ /\ next_client' = 0
    BY <2>1 DEF EachClient, TimerDue, pool_vars
  <2>3. StoppedSince' = {}
    BY <2>2, PoolAssumption DEF StoppedSince, Cids
  <2>4. Cardinality(StoppedSince') = 0
    BY <2>3, FS_EmptySet
  <2>5. temp_rate_limit_' >= - Cardinality(StoppedSince')
    BY <2>1, <2>4, ClientAssumption
  <2>6. RateInv'
    BY <2>2, <2>3, <2>5, TimerAtHand DEF RateInv, is_master_
  <2>7. InitStartTimer # RateLimitTimer
    BY TimerOwners
  <2>8. QED
    BY <2>1, <2>6, <2>7, EachClientKeeps
<1>3. QED
  BY <1>1, <1>2

\* The handler that ends the run tells the clients and comes back, or stops the loop.
LEMMA StopHandlerKeeps ==
  ASSUME ClientIInv, failed = "none", StopHandler
  PROVE  ClientIInv'
<1>1. /\ AtTimer /\ timer_data = StopTimer /\ timer_data' = NoTimer /\ phase' = "next"
      /\ clients_run' = FALSE
      /\ UNCHANGED <<pool_vars, request_vars>>
      /\ UNCHANGED <<cancel_ids_, events, interest, failed>>
      /\ UNCHANGED <<is_stop_, temp_rate_limit_, next_client>>
      /\ slave_cid_' = slave_cid_
      /\ \/ is_running_' = FALSE /\ timer_ids_' = timer_ids_ \ {StopTimer} /\ timers_' = timers_
         \/ timers_' = timers_ \cup {StopTimer} /\ timer_ids_' = timer_ids_
            /\ is_running_' = is_running_
  BY DEF StopHandler, TimerDue, SetFinish, pool_vars
<1>2. RateInv'
  BY <1>1, TimerAtHand, RateKeptByMaster
<1>3. CASE is_running_' = FALSE /\ timer_ids_' = timer_ids_ \ {StopTimer} /\ timers_' = timers_
  BY <1>1, <1>2, <1>3, TimerAtHand, NobodyResumed
<1>4. CASE /\ timers_' = timers_ \cup {StopTimer} /\ timer_ids_' = timer_ids_
           /\ is_running_' = is_running_
  BY <1>1, <1>2, <1>4, TimerAtHand, NobodyResumed
<1>5. QED
  BY <1>1, <1>3, <1>4

\* A client that is resumed was not running, and the others stay as they are.
LEMMA Resumed ==
  ASSUME ClientIInv, NEW c \in Cids, CoroutineResume(c)
  PROVE  /\ is_master_ /\ PoolOK' /\ slave_cid_' = c /\ c # kInvalidCid
         /\ state[c] \in {"kReady", "kSuspend"}
         /\ \A d \in Cids \ {c} : slave_cid_' # d /\ state'[d] = state[d]
BY InvalidIsNoCid, ResumeKeepsPool DEF ClientIInv, CoroutineResume, Resumable, PoolOK

\* The handler of an event resumes the client that waits for it.
LEMMA EventStepKeeps ==
  ASSUME ClientIInv, failed = "none", NEW c \in Cids, EventStep(c)
  PROVE  ClientIInv'
<1>0. ClientsTyped /\ HeapInv /\ StartInv /\ RateInv /\ EventHasWaiter
  BY DEF ClientIInv
<1>1. /\ phase = "events" /\ c \in events /\ CoroutineResume(c) /\ events' = events \ {c}
      /\ UNCHANGED <<timers_, timer_ids_, cancel_ids_, timer_data, is_running_, phase, interest,
                     failed>>
      /\ UNCHANGED <<at, fd_, left, timer_id, is_time_out, success_count>>
      /\ UNCHANGED <<is_stop_, temp_rate_limit_, clients_run, next_client>>
  BY DEF EventStep, HandleEvent, heap_vars, request_vars, manager_vars
<1>2. /\ is_master_ /\ PoolOK' /\ slave_cid_' = c /\ c # kInvalidCid
      /\ \A d \in Cids \ {c} : slave_cid_' # d /\ state'[d] = state[d]
  BY <1>1, Resumed
<1>3. /\ state[c] = "kSuspend" /\ at[c] \in Waits
  BY <1>0, <1>1 DEF EventHasWaiter
<1>4. ~ is_stop_[c]
  BY <1>3 DEF ClientIInv, ClientInv, ClientOK, Waits
<1>5. ClientsTyped'
  BY <1>0, <1>1 DEF ClientsTyped
<1>6. HeapInv'
  BY <1>0, <1>1 DEF HeapInv
<1>7. ClientInv'
  <2>1. \A d \in Cids : LiveOK(d)'
    BY <1>1, LiveKept
  <2>2. \A d \in Cids : Unused(d) \subseteq Unused(d)'
    BY <1>1, UnusedKept
  <2>3. QED
    BY <1>1, <1>2, <1>4, <2>1, <2>2, ClientsKept
<1>8. EventHasWaiter'
  <2>1. ASSUME NEW d \in events'
        PROVE  state'[d] = "kSuspend" /\ interest[d] # "none" /\ fd_[d] /\ at[d] \in Waits
    <3>1. d \in Cids \ {c} /\ d \in events
      BY <1>0, <1>1 DEF ClientsTyped
    <3>2. QED
      BY <1>0, <1>2, <3>1 DEF EventHasWaiter
  <2>2. QED
    BY <1>1, <2>1 DEF EventHasWaiter
<1>9. StartInv'
  BY <1>0, <1>1, <1>3 DEF StartInv
<1>10. RateInv'
  <2>1. StoppedSince' = StoppedSince
    BY <1>1 DEF StoppedSince
  <2>2. QED
    BY <1>0, <1>1, <2>1 DEF RateInv
<1>11. QED
  BY <1>2, <1>5, <1>6, <1>7, <1>8, <1>9, <1>10 DEF ClientIInv

\* The timer of a client that waits: it is told and resumed.
LEMMA TimeOutKeeps ==
  ASSUME ClientIInv, failed = "none", NEW c \in Cids, TimeOutCallBack(c)
  PROVE  ClientIInv'
<1>0. ClientsTyped /\ HeapInv /\ StartInv /\ RateInv /\ ClientInv
  BY DEF ClientIInv
<1>1. PICK t \in ClientTimers(c) :
        /\ AtTimer /\ timer_data = t /\ t \notin cancel_ids_ /\ timer_data' = NoTimer
        /\ UNCHANGED <<cancel_ids_, events, interest, failed>>
        /\ timer_ids_' = timer_ids_ \ {t}
  BY DEF TimeOutCallBack, TimerDue
<1>2. /\ is_time_out' = [is_time_out EXCEPT ![c] = TRUE] /\ CoroutineResume(c)
      /\ phase' = "next"
      /\ UNCHANGED <<timers_, is_running_, at, fd_, left, timer_id, success_count>>
      /\ UNCHANGED <<is_stop_, temp_rate_limit_, clients_run, next_client>>
  BY DEF TimeOutCallBack, manager_vars
<1>3. /\ phase = "events" /\ events = {} /\ t \in timer_ids_ /\ t \notin timers_
      /\ t \notin {InitStartTimer, RateLimitTimer, StopTimer}
      /\ \A d \in Cids \ {c} : t \notin ClientTimers(d)
  BY <1>1, TimerAtHand, TimerOwners
<1>4. t \in Live(c)
  BY <1>1, <1>3 DEF Live
<1>5. at[c] \in Waits /\ ~ is_time_out[c] /\ Live(c) = {t}
  BY <1>0, <1>4 DEF ClientInv, LiveOK
<1>6. /\ is_master_ /\ PoolOK' /\ slave_cid_' = c /\ c # kInvalidCid
      /\ \A d \in Cids \ {c} : slave_cid_' # d /\ state'[d] = state[d]
  BY <1>2, Resumed
<1>7. ~ is_stop_[c] /\ state[c] = "kSuspend"
  <2>1. ClientOK(c) /\ slave_cid_ # c
    BY <1>0, <1>6 DEF ClientInv, is_master_
  <2>2. QED
    BY <1>5, <2>1 DEF ClientOK, Waits
<1>8. ClientsTyped'
  BY <1>0, <1>1, <1>2 DEF ClientsTyped
<1>9. HeapInv'
  <2>1. timers_' \subseteq timer_ids_'
    BY <1>0, <1>1, <1>2, <1>3 DEF HeapInv
  <2>2. cancel_ids_' \subseteq timer_ids_' \ {InitStartTimer, RateLimitTimer, StopTimer}
    BY <1>0, <1>1 DEF HeapInv
  <2>3. is_running_' => StopTimer \in timer_ids_'
    BY <1>0, <1>1, <1>2, <1>3 DEF HeapInv
  <2>4. QED
    BY <1>1, <1>2, <1>3, <2>1, <2>2, <2>3 DEF HeapInv
<1>10. ClientInv'
  <2>1. ASSUME NEW d \in Cids PROVE LiveOK(d)'
    <3>1. CASE d = c
      <4>1. Live(c)' = {}
        BY <1>1, <1>5 DEF Live
      <4>2. is_time_out'[c]
        BY <1>0, <1>2 DEF ClientsTyped
      <4>3. QED
        BY <3>1, <4>1, <4>2 DEF LiveOK
    <3>2. CASE d # c
      <4>1. Live(d)' = Live(d)
        BY <1>1, <1>3, <3>2 DEF Live
      <4>2. LiveOK(d) /\ is_time_out'[d] = is_time_out[d]
        BY <1>0, <1>2, <3>2 DEF ClientInv, ClientsTyped
      <4>3. QED
        BY <1>2, <4>1, <4>2 DEF LiveOK
    <3>3. QED
      BY <3>1, <3>2
  <2>2. \A d \in Cids : Unused(d) \subseteq Unused(d)'
    BY <1>1, UnusedKept
  <2>3. QED
    BY <1>1, <1>2, <1>6, <1>7, <2>1, <2>2, ClientsKept
<1>11. EventHasWaiter'
  BY <1>1, <1>3 DEF EventHasWaiter
<1>12. StartInv'
  BY <1>0, <1>1, <1>2, <1>7 DEF StartInv
<1>13. RateInv'
  <2>1. StoppedSince' = StoppedSince
    BY <1>2, <1>3 DEF StoppedSince
  <2>2. QED
    BY <1>0, <1>2, <2>1 DEF RateInv
<1>14. QED
  BY <1>6, <1>8, <1>9, <1>10, <1>11, <1>12, <1>13 DEF ClientIInv

\* A step of a handler that goes through the clients.
LEMMA HandlerStepKeeps ==
  ASSUME ClientIInv, failed = "none", NEW c \in Cids, c = next_client, is_master_,
         phase \in {"InitStart", "ReStart"},
         PoolOK', \/ CoroutineResume(c) /\ ~ is_stop_'[c]
                  \/ UNCHANGED pool_vars /\ ~ is_stop_'[c] /\ phase # "InitStart",
         is_stop_' \in [Cids -> BOOLEAN], \A d \in Cids \ {c} : is_stop_'[d] = is_stop_[d],
         CoroutineResume(c) => state[c] = "kReady" \/ phase # "InitStart",
         CoroutineResume(c) => InitStartTimer \notin timer_ids_,
         next_client' = next_client + 1,
         UNCHANGED <<event_vars, request_vars, temp_rate_limit_, clients_run>>
  PROVE  ClientIInv'
<1>0. ClientsTyped /\ HeapInv /\ StartInv /\ RateInv
  BY DEF ClientIInv
<1>1. /\ UNCHANGED <<timers_, timer_ids_, cancel_ids_, timer_data, events, is_running_, phase,
                     interest, failed>>
      /\ UNCHANGED <<at, fd_, left, timer_id, is_time_out, success_count>>
      /\ timer_data = NoTimer /\ events = {}
  BY <1>0 DEF event_vars, heap_vars, loop_vars, request_vars, HeapInv
<1>2. c \in Int /\ 0 <= c /\ c < coroutine_count_ /\ next_client' \in 0 .. coroutine_count_
  BY PoolAssumption DEF Cids
<1>3. ClientsTyped'
  BY <1>0, <1>1, <1>2 DEF ClientsTyped
<1>4. HeapInv'
  BY <1>0, <1>1 DEF HeapInv
<1>5. \A d \in Cids \ {c} : slave_cid_' # d /\ state'[d] = state[d]
  BY Resumed, InvalidIsNoCid DEF pool_vars, is_master_
<1>6. slave_cid_' = c \/ (slave_cid_' # c /\ state'[c] = state[c] /\ slave_cid_' = kInvalidCid)
  BY Resumed, InvalidIsNoCid DEF pool_vars, is_master_
<1>7. ClientInv'
  <2>1. \A d \in Cids : LiveOK(d)'
    BY <1>1, LiveKept
  <2>2. \A d \in Cids : Unused(d) \subseteq Unused(d)'
    BY <1>1, UnusedKept
  <2>3. QED
    BY <1>1, <1>5, <1>6, <2>1, <2>2, ClientsKept
<1>8. EventHasWaiter'
  BY <1>1 DEF EventHasWaiter
<1>9. StartInv'
  <2>1. ASSUME InitStartTimer \in timer_ids_
        PROVE  phase # "InitStart" /\ \A d \in Cids : state'[d] = "kReady"
    <3>1. UNCHANGED pool_vars
      BY <2>1
    <3>2. QED
      BY <1>0, <2>1, <3>1 DEF StartInv, pool_vars
  <2>2. ASSUME phase = "InitStart", NEW d \in Cids, d >= next_client'
        PROVE  state'[d] = "kReady"
    <3>1. d >= next_client /\ d # c
      BY <1>2, <2>2 DEF Cids
    <3>2. QED
      BY <1>0, <1>5, <2>2, <3>1 DEF StartInv
  <2>3. QED
    BY <1>1, <2>1, <2>2 DEF StartInv
<1>10. RateInv'
  <2>1. StoppedSince' = StoppedSince \/ phase = "InitStart"
    <3>1. ASSUME NEW d \in Cids, phase = "ReStart"
          PROVE  d \in StoppedSince' <=> d \in StoppedSince
      <4>1. CASE d = c
        <5>1. ~ is_stop_'[c] /\ ~ c < next_client
          BY <1>2
        <5>2. QED
          BY <1>1, <3>1, <4>1, <5>1 DEF StoppedSince
      <4>2. CASE d # c
        <5>1. d < next_client' <=> d < next_client
          BY <1>2, <4>2 DEF Cids
        <5>2. QED
          BY <1>1, <3>1, <4>2, <5>1 DEF StoppedSince
      <4>3. QED
        BY <4>1, <4>2
    <3>2. QED
      BY <3>1 DEF StoppedSince
  <2>2. CASE phase = "ReStart"
    <3>1. slave_cid_' = c \/ slave_cid_' = kInvalidCid
      BY <1>6
    <3>2. QED
      BY <1>0, <1>1, <1>2, <2>1, <2>2, <3>1 DEF RateInv, is_master_
  <2>3. CASE phase = "InitStart"
    <3>1. CoroutineResume(c) /\ state[c] = "kReady"
      BY <2>3
    <3>2. ~ is_stop_[c]
      BY <3>1 DEF ClientIInv, ClientInv, ClientOK
    <3>3. StoppedSince' = StoppedSince
      BY <1>1, <2>3, <3>2 DEF StoppedSince
    <3>4. QED
      BY <1>0, <1>1, <2>3, <3>3 DEF RateInv
  <2>4. QED
    BY <2>2, <2>3
<1>11. QED
  BY <1>3, <1>4, <1>7, <1>8, <1>9, <1>10 DEF ClientIInv

\* The first handler resumes clients that have not begun.
LEMMA InitStartKeeps ==
  ASSUME ClientIInv, failed = "none", InitStart
  PROVE  ClientIInv'
<1>0. ClientsTyped /\ StartInv
  BY DEF ClientIInv
<1>1. /\ phase = "InitStart" /\ next_client < coroutine_count_ /\ CoroutineResume(next_client)
      /\ next_client' = next_client + 1 /\ is_stop_' = is_stop_
      /\ UNCHANGED <<event_vars, request_vars, temp_rate_limit_, clients_run>>
  BY DEF InitStart
<1>2. next_client \in Cids
  BY <1>0, <1>1, PoolAssumption DEF Cids, ClientsTyped
<1>3. state[next_client] = "kReady" /\ InitStartTimer \notin timer_ids_
  BY <1>0, <1>1, <1>2, PoolAssumption DEF StartInv, Cids
<1>4. ~ is_stop_[next_client]
  BY <1>2, <1>3 DEF ClientIInv, ClientInv, ClientOK
<1>5. PoolOK' /\ is_master_
  BY <1>1, <1>2, Resumed
<1>6. is_stop_' \in [Cids -> BOOLEAN]
  BY <1>0, <1>1 DEF ClientsTyped
<1>7. QED
  BY <1>1, <1>2, <1>3, <1>4, <1>5, <1>6, HandlerStepKeeps

\* The refresh resumes the next client if it is stopped: it has not been resumed by anyone else.
LEMMA ReStartKeeps ==
  ASSUME ClientIInv, failed = "none", ReStart
  PROVE  ClientIInv'
<1>0. ClientsTyped /\ StartInv /\ ClientInv
  BY DEF ClientIInv
<1>1. /\ is_master_ /\ phase = "ReStart" /\ next_client < coroutine_count_
      /\ next_client' = next_client + 1
      /\ UNCHANGED <<event_vars, request_vars, temp_rate_limit_, clients_run>>
  BY DEF ReStart
<1>2. next_client \in Cids
  BY <1>0, <1>1, PoolAssumption DEF Cids, ClientsTyped
<1>3. CASE is_stop_[next_client]
  <2>1. /\ is_stop_' = [is_stop_ EXCEPT ![next_client] = FALSE] /\ CoroutineResume(next_client)
    BY <1>3 DEF ReStart
  <2>2. state[next_client] = "kSuspend"
    BY <1>0, <1>2, <1>3 DEF ClientInv, ClientOK
  <2>3. InitStartTimer \notin timer_ids_
    BY <1>0, <1>2, <2>2 DEF StartInv
  <2>4. /\ is_stop_' \in [Cids -> BOOLEAN] /\ ~ is_stop_'[next_client]
        /\ \A d \in Cids \ {next_client} : is_stop_'[d] = is_stop_[d]
    BY <1>0, <1>2, <2>1 DEF ClientsTyped
  <2>5. PoolOK'
    BY <1>2, <2>1, Resumed
  <2>6. QED
    BY <1>1, <1>2, <2>1, <2>3, <2>4, <2>5, HandlerStepKeeps
<1>4. CASE ~ is_stop_[next_client]
  <2>1. is_stop_' = is_stop_ /\ UNCHANGED pool_vars
    BY <1>4 DEF ReStart
  <2>2. PoolOK' /\ ~ CoroutineResume(next_client)
    BY <1>1, <1>2, <2>1, PoolKept, InvalidIsNoCid DEF CoroutineResume, is_master_, pool_vars
  <2>3. is_stop_' \in [Cids -> BOOLEAN]
    BY <1>0, <2>1 DEF ClientsTyped
  <2>4. QED
    BY <1>1, <1>2, <1>4, <2>1, <2>2, <2>3, HandlerStepKeeps
<1>5. QED
  BY <1>3, <1>4

\* The two handlers come to the end of the clients.
LEMMA EndsKeep ==
  ASSUME ClientIInv, failed = "none", InitStartEnd \/ RateLimitRefreshEnd
  PROVE  ClientIInv'
<1>0. HeapInv /\ ClientsTyped /\ RateInv
  BY DEF ClientIInv
<1>1. /\ is_master_ /\ phase \in {"InitStart", "ReStart"} /\ phase' = "next"
      /\ next_client = coroutine_count_
      /\ UNCHANGED <<pool_vars, request_vars>>
      /\ UNCHANGED <<timer_data, events, is_running_, interest, failed>>
      /\ UNCHANGED <<is_stop_, temp_rate_limit_, clients_run, next_client>>
      /\ cancel_ids_' = cancel_ids_ /\ slave_cid_' = slave_cid_
  BY DEF InitStartEnd, RateLimitRefreshEnd, heap_vars, manager_vars, TimerStart, pool_vars
<1>2. timer_data = NoTimer /\ events = {}
  BY <1>0, <1>1 DEF HeapInv
<1>3. StoppedSince' = StoppedSince
  <2>1. \A d \in Cids : d < next_client
    BY <1>1, PoolAssumption DEF Cids
  <2>2. QED
    BY <1>1, <2>1 DEF StoppedSince
<1>4. RateInv'
  BY <1>0, <1>1, <1>3 DEF RateInv
<1>5. CASE InitStartEnd
  <2>1. timers_' = timers_ /\ timer_ids_' = timer_ids_
    BY <1>5 DEF InitStartEnd, heap_vars
  <2>2. QED
    BY <1>0, <1>1, <1>2, <1>4, <2>1, NobodyResumed DEF HeapInv, ClientsTyped
<1>6. CASE RateLimitRefreshEnd
  <2>1. timers_' = timers_ \cup {RateLimitTimer} /\ timer_ids_' = timer_ids_ \cup {RateLimitTimer}
    BY <1>6 DEF RateLimitRefreshEnd, TimerStart
  <2>2. timers_' \subseteq Timers /\ timer_ids_' \subseteq Timers
    BY <1>0, <2>1, TimerOwners DEF ClientsTyped
  <2>3. QED
    BY <1>0, <1>1, <1>2, <1>4, <2>1, <2>2, NobodyResumed DEF HeapInv, ClientsTyped
<1>7. QED
  BY <1>5, <1>6

-----------------------------------------------------------------------------
(* The theorems.                                                           *)

\* It holds when the program starts,
LEMMA ClientIInvInit ==
  ASSUME ClientInit
  PROVE  ClientIInv
<1>0. /\ timers_ = {InitStartTimer, RateLimitTimer, StopTimer} /\ timer_ids_ = timers_
      /\ cancel_ids_ = {} /\ timer_data = NoTimer /\ events = {} /\ phase = "next"
      /\ slave_cid_ = kInvalidCid /\ state = [c \in Cids |-> "kReady"]
      /\ at = [c \in Cids |-> "loop"] /\ fd_ = [c \in Cids |-> FALSE]
      /\ is_stop_ = [c \in Cids |-> FALSE] /\ interest = [c \in Cids |-> "none"]
      /\ not_idle_count_ = coroutine_count_ /\ temp_rate_limit_ = rate_limit_
  BY DEF ClientInit
<1>1. PoolOK
  <2>1. {c \in Cids : state[c] # "kIdle"} = Cids
    BY <1>0
  <2>2. coroutine_count_ - 1 \in Int /\ 0 \in Int
    BY PoolAssumption
  <2>3. Cardinality(Cids) = coroutine_count_
    BY <2>2, FS_Interval, PoolAssumption DEF Cids
  <2>4. CountsNotIdle
    BY <1>0, <2>1, <2>3 DEF CountsNotIdle
  <2>5. OneRunner
    BY <1>0, InvalidIsNoCid DEF OneRunner
  <2>6. QED
    BY <1>0, <2>4, <2>5, PoolAssumption DEF PoolOK, State
<1>2. ClientsTyped
  BY TimerOwners, ClientAssumption, PoolAssumption
     DEF ClientInit, ClientsTyped, Interest, Points, Waits, Failures
<1>3. ClientInv
  <2>1. ASSUME NEW c \in Cids PROVE ClientOK(c) /\ WatchOK(c) /\ LiveOK(c)
    <3>1. at[c] = "loop" /\ ~ fd_[c] /\ ~ is_stop_[c] /\ interest[c] = "none"
      BY <1>0
    <3>2. Live(c) = {}
      BY <1>0, TimerOwners DEF Live
    <3>3. QED
      BY <3>1, <3>2 DEF ClientOK, WatchOK, LiveOK, NeedsTimer, Holds, Begins, Waits
  <2>2. QED
    BY <2>1 DEF ClientInv
<1>4. EventHasWaiter
  BY <1>0 DEF EventHasWaiter
<1>5. HeapInv
  BY <1>0 DEF HeapInv
<1>6. StartInv
  BY <1>0 DEF StartInv
<1>7. RateInv
  <2>1. StoppedSince = {}
    BY <1>0 DEF StoppedSince
  <2>2. Cardinality(StoppedSince) = 0
    BY <2>1, FS_EmptySet
  <2>3. QED
    BY <1>0, <2>1, <2>2, ClientAssumption DEF RateInv
<1>8. QED
  BY <1>1, <1>2, <1>3, <1>4, <1>5, <1>6, <1>7 DEF ClientIInv

\* every step keeps it,
LEMMA ClientNextKeeps ==
  ASSUME ClientIInv, [ClientNext]_client_vars
  PROVE  ClientIInv'
<1>1. CASE UNCHANGED client_vars
  <2>1. PoolOK'
    BY <1>1, PoolKept DEF client_vars
  <2>2. ClientsTyped'
    BY <1>1
       DEF ClientIInv, client_vars, event_vars, heap_vars, loop_vars, request_vars, manager_vars,
           ClientsTyped
  <2>3. \A c \in Cids : Unused(c)' = Unused(c) /\ Live(c)' = Live(c)
    BY <1>1 DEF client_vars, event_vars, heap_vars, Unused, Live
  <2>4. ClientInv'
    BY <1>1, <2>3
       DEF ClientIInv, ClientInv, ClientOK, WatchOK, LiveOK, NeedsTimer, HasTimer, client_vars,
           pool_vars, event_vars, request_vars, manager_vars
  <2>5. EventHasWaiter' /\ HeapInv' /\ StartInv'
    BY <1>1
       DEF ClientIInv, EventHasWaiter, HeapInv, StartInv, client_vars, pool_vars, event_vars,
           heap_vars, loop_vars, request_vars, manager_vars
  <2>6. StoppedSince' = StoppedSince
    BY <1>1 DEF StoppedSince, client_vars, event_vars, loop_vars, manager_vars
  <2>7. RateInv'
    BY <1>1, <2>6
       DEF ClientIInv, RateInv, is_master_, client_vars, pool_vars, event_vars, loop_vars,
           manager_vars
  <2>8. QED
    BY <2>1, <2>2, <2>4, <2>5, <2>7 DEF ClientIInv
<1>2. CASE ~ Stopped /\ \E c \in Cids : ClientStep(c) \/ EventStep(c)
  BY <1>2, ClientStepKeeps, EventStepKeeps DEF Stopped
<1>3. CASE ~ Stopped /\ \E t \in timers_ \cup {NoTimer} : Turn(t)
  BY <1>3, TurnKeeps DEF Stopped
<1>4. CASE ~ Stopped /\ LoopStep
  BY <1>4, EpollWaitFailsKeeps, TimerNotDueKeeps, LoopEndsKeeps DEF Stopped, LoopStep
<1>5. CASE ~ Stopped /\ Due(timer_data)
  BY <1>5, TimeOutKeeps, BeginsKeep, StopHandlerKeeps, TimerCancelledKeeps DEF Stopped, Due
<1>6. CASE ~ Stopped /\ HandlerStep
  BY <1>6, InitStartKeeps, ReStartKeeps, EndsKeep DEF Stopped, HandlerStep
<1>7. QED
  BY <1>1, <1>2, <1>3, <1>4, <1>5, <1>6 DEF ClientNext

\* and so it holds for ever.
LEMMA ClientInductive == ClientSpec => []ClientIInv
<1>1. ClientInit => ClientIInv
  BY ClientIInvInit
<1>2. ClientIInv /\ [ClientNext]_client_vars => ClientIInv'
  BY ClientNextKeeps
<1>3. QED
  BY <1>1, <1>2, PTL DEF ClientSpec

\* The variables of the event loop and of the clients have their types, the client that has
\* the thread is the one in state kRun and temp_rate_limit_ is never below minus the number of
\* clients: each takes at most one request that is not there.
THEOREM ClientTyped == ClientSpec => []ClientTypeOK
<1>1. ClientIInv => ClientTypeOK
  <2>1. ASSUME ClientIInv PROVE temp_rate_limit_ \in -coroutine_count_ .. rate_limit_
    <3>1. Cardinality(StoppedSince) \in 0 .. coroutine_count_
      BY CidSets DEF StoppedSince
    <3>2. temp_rate_limit_ >= - Cardinality(StoppedSince)
      BY <2>1 DEF ClientIInv, RateInv
    <3>3. temp_rate_limit_ \in Int /\ temp_rate_limit_ <= rate_limit_
      BY <2>1 DEF ClientIInv, ClientsTyped
    <3>4. QED
      BY <3>1, <3>2, <3>3, PoolAssumption, ClientAssumption
  <2>2. QED
    BY <2>1 DEF ClientIInv, ClientsTyped, ClientTypeOK, Failures
<1>2. QED
  BY <1>1, ClientInductive, PTL

\* TimeOutHandler sets is_time_out through a pointer to the stack of a call: a timer that can
\* still run belongs to a call that has not returned, and no call waits without one, for every
\* number of clients, of timers and of parts, and every order of events and timers.
THEOREM TimersOwned == ClientSpec => []TimeOutHasWaiter
<1>1. ClientIInv => TimeOutHasWaiter
  BY DEF ClientIInv, ClientInv, LiveOK, Live, TimeOutHasWaiter
<1>2. QED
  BY <1>1, ClientInductive, PTL

\* EventHandler resumes only clients that wait for an event of this descriptor.
THEOREM EventsAwaited == ClientSpec => []EventHasWaiter
<1>1. ClientIInv => EventHasWaiter
  BY DEF ClientIInv
<1>2. QED
  BY <1>1, ClientInductive, PTL

\* The two failed assertions come about in the known way; and the timer of the rate limit is
\* known but while its handler goes through the clients.
FailureInv ==
  /\ phase # "ReStart" => RateLimitTimer \in timer_ids_
  /\ failed = "clear" => \E c \in Cids : Runs(c, "clear") /\ ~ fd_[c]
  /\ failed = "empty" => {RateLimitTimer, StopTimer} \subseteq Lost

\* A client fails the assertion in ClearEvent only with a closed descriptor, and forgets no timer.
LEMMA ClientStepFails ==
  ASSUME ClientIInv, FailureInv, failed = "none", NEW c \in Cids, ClientStep(c)
  PROVE  FailureInv'
<1>1. ClientsTyped /\ WatchOK(c)
  BY DEF ClientIInv, ClientInv
<1>2. phase' = phase
  BY DEF ClientStep, ClientLoop, ConnectAtOnce, ConnectBegin, ConnectEnd, SendBegin, CoWrite,
         WritePart, WriteFails, PipeBreaks, RecvBegin, CoRead, ReadPart, ReadAll, ReadFails,
         ReadError, WouldBlock, ClearEvent, CallFirst, OpCall, Part, event_vars, loop_vars
<1>3. CASE ClearEvent(c)
  <2>1. timer_ids_' = timer_ids_ /\ slave_cid_' = slave_cid_ /\ fd_' = fd_
    BY <1>3 DEF ClearEvent, heap_vars, pool_vars
  <2>2. CASE failed' = failed
    BY <1>2, <2>1, <2>2 DEF FailureInv
  <2>3. CASE failed' = "clear" /\ interest[c] = "none" /\ at' = at
    <3>1. Runs(c, "clear") /\ ~ fd_[c]
      BY <1>1, <1>3, <2>3 DEF ClearEvent, Runs, WatchOK
    <3>2. (Runs(c, "clear") /\ ~ fd_[c])'
      BY <2>1, <2>3, <3>1 DEF Runs
    <3>3. QED
      BY <1>2, <2>1, <2>3, <3>2 DEF FailureInv
  <2>4. QED
    BY <1>3, <2>2, <2>3 DEF ClearEvent
<1>4. CASE ~ ClearEvent(c)
  <2>1. failed' \in {failed, "decode", "pipe"}
    BY <1>4
       DEF ClientStep, ClientLoop, ConnectAtOnce, ConnectBegin, ConnectEnd, SendBegin, CoWrite,
           WritePart, WriteFails, PipeBreaks, RecvBegin, CoRead, ReadPart, ReadAll, ReadFails,
           ReadError, WouldBlock, CallFirst, OpCall, Part, event_vars
  <2>2. timer_ids_ \subseteq timer_ids_'
    BY <1>4
       DEF ClientStep, ClientLoop, ConnectAtOnce, ConnectBegin, ConnectEnd, SendBegin, CoWrite,
           WritePart, WriteFails, PipeBreaks, RecvBegin, CoRead, ReadPart, ReadAll, ReadFails,
           ReadError, WouldBlock, CallFirst, OpCall, Part, OpFails, OpBegin, OpEnd, TimerStart,
           TimerCancel, event_vars, heap_vars
  <2>3. QED
    BY <1>2, <2>1, <2>2 DEF FailureInv
<1>5. QED
  BY <1>3, <1>4

\* GetLastTimer finds an empty heap only when the two timers that nobody cancels are lost.
LEMMA LastTimerFails ==
  ASSUME ClientIInv, FailureInv, failed = "none", NEW dropped, NEW t, GetLastTimer(dropped, t),
         timer_data' \in {timer_data, t}, t = NoTimer => timer_data' = NoTimer,
         phase' \in {"next", "events"}
  PROVE  FailureInv'
<1>0. HeapInv /\ ClientsTyped
  BY DEF ClientIInv
<1>1. /\ phase = "next" /\ StopTimer \in timer_ids_'
      /\ dropped \subseteq timers_ \cap cancel_ids_
      /\ t \in IF timers_ = dropped THEN {NoTimer} ELSE timers_ \ cancel_ids_
      /\ timers_' = timers_ \ (dropped \cup {t})
      /\ timer_ids_' = timer_ids_ \ dropped
      /\ failed' = IF t = NoTimer /\ timer_ids_' # {} THEN "empty" ELSE failed
  BY LastTimer DEF GetLastTimer
<1>2. RateLimitTimer \in timer_ids_'
  BY <1>0, <1>1 DEF HeapInv, FailureInv
<1>3. ASSUME failed' = "empty" PROVE {RateLimitTimer, StopTimer} \subseteq Lost'
  <2>1. t = NoTimer /\ timer_data' = NoTimer
    BY <1>1, <1>3
  <2>2. timers_' = {}
    BY <1>0, <1>1, <2>1, TimerOwners DEF ClientsTyped
  <2>3. NoTimer \notin {RateLimitTimer, StopTimer}
    BY TimerOwners
  <2>4. QED
    BY <1>1, <1>2, <2>1, <2>2, <2>3 DEF Lost
<1>4. failed' # "clear"
  BY <1>1
<1>5. QED
  BY <1>1, <1>2, <1>3, <1>4 DEF FailureInv

\* The handlers fail no assertion, and only the refresh forgets its timer, until it ends.
LEMMA MasterStepFails ==
  ASSUME ClientIInv, FailureInv, failed = "none",
         \/ \E c \in Cids : EventStep(c)
         \/ \E t \in timers_ \cup {NoTimer} : Turn(t)
         \/ LoopStep \/ Due(timer_data) \/ HandlerStep
  PROVE  FailureInv'
<1>0. HeapInv
  BY DEF ClientIInv
<1> DEFINE Known == phase # "ReStart" => RateLimitTimer \in timer_ids_
<1>1. ASSUME Known', failed' = failed PROVE FailureInv'
  BY <1>1 DEF FailureInv
<1>2. Known
  BY DEF FailureInv
<1>3. ASSUME NEW c \in Cids, EventStep(c) PROVE FailureInv'
  BY <1>1, <1>2, <1>3 DEF EventStep, HandleEvent, heap_vars
<1>4. ASSUME NEW t, Turn(t) PROVE FailureInv'
  <2>1. PICK dropped : GetLastTimer(dropped, t)
    BY <1>4 DEF Turn, EpollWait
  <2>2. timer_data' = t /\ phase' = "events"
    BY <1>4 DEF Turn, EpollWait
  <2>3. QED
    BY <2>1, <2>2, LastTimerFails
<1>5. CASE LoopStep
  <2>1. ASSUME NEW t, EpollWaitFails(t) PROVE FailureInv'
    <3>1. PICK dropped : GetLastTimer(dropped, t)
      BY <2>1 DEF EpollWaitFails
    <3>2. phase = "next"
      BY <3>1 DEF GetLastTimer
    <3>3. timer_data' = NoTimer /\ timer_data = NoTimer /\ phase' = "next"
      BY <1>0, <2>1, <3>2 DEF EpollWaitFails, HeapInv
    <3>4. QED
      BY <3>1, <3>3, LastTimerFails
  <2>2. CASE TimerNotDue
    <3>1. phase = "events" /\ timer_ids_' = timer_ids_ /\ failed' = failed
      BY <2>2 DEF TimerNotDue, AtTimer
    <3>2. QED
      BY <1>1, <1>2, <3>1
  <2>3. CASE LoopEnds
    <3>1. phase = "next" /\ timer_ids_' = timer_ids_ /\ failed' = failed
      BY <2>3 DEF LoopEnds, heap_vars
    <3>2. QED
      BY <1>1, <1>2, <3>1
  <2>4. QED
    BY <1>5, <2>1, <2>2, <2>3 DEF LoopStep
<1>6. CASE Due(timer_data)
  <2>1. RateLimitTimer \in timer_ids_
    BY <1>2, <1>6
       DEF Due, TimeOutCallBack, InitStartBegin, RateLimitRefresh, EachClient, StopHandler,
           TimerCancelled, TimerDue, AtTimer
  <2>2. failed' = failed
    BY <1>6
       DEF Due, TimeOutCallBack, InitStartBegin, RateLimitRefresh, EachClient, StopHandler,
           TimerCancelled, TimerDue
  <2>3. CASE \E c \in Cids : TimeOutCallBack(c)
    <3>1. PICK c \in Cids : \E t \in ClientTimers(c) : timer_ids_' = timer_ids_ \ {t}
      BY <2>3 DEF TimeOutCallBack
    <3>2. \A t \in ClientTimers(c) : t # RateLimitTimer
      BY TimerOwners
    <3>3. QED
      BY <1>1, <2>1, <2>2, <3>1, <3>2
  <2>4. CASE InitStartBegin
    <3>1. timer_ids_' = timer_ids_ \ {InitStartTimer}
      BY <2>4 DEF InitStartBegin, EachClient
    <3>2. QED
      BY <1>1, <2>1, <2>2, <3>1, TimerOwners
  <2>5. CASE RateLimitRefresh
    BY <1>1, <2>2, <2>5 DEF RateLimitRefresh, EachClient
  <2>6. CASE StopHandler
    <3>1. timer_ids_' \in {timer_ids_, timer_ids_ \ {StopTimer}}
      BY <2>6 DEF StopHandler
    <3>2. QED
      BY <1>1, <2>1, <2>2, <3>1, TimerOwners
  <2>7. CASE TimerCancelled
    <3>1. timer_ids_' = timer_ids_ \ {timer_data} /\ timer_data # RateLimitTimer
      BY <1>0, <2>7 DEF TimerCancelled, HeapInv
    <3>2. QED
      BY <1>1, <2>1, <2>2, <3>1
  <2>8. QED
    BY <1>6, <2>3, <2>4, <2>5, <2>6, <2>7 DEF Due
<1>7. CASE HandlerStep
  <2>1. CASE InitStart \/ ReStart
    BY <1>1, <1>2, <2>1 DEF InitStart, ReStart, event_vars, heap_vars, loop_vars
  <2>2. CASE InitStartEnd
    <3>1. phase = "InitStart" /\ timer_ids_' = timer_ids_ /\ failed' = failed
      BY <2>2 DEF InitStartEnd, heap_vars
    <3>2. QED
      BY <1>1, <1>2, <3>1
  <2>3. CASE RateLimitRefreshEnd
    BY <1>1, <2>3 DEF RateLimitRefreshEnd, TimerStart
  <2>4. QED
    BY <1>7, <2>1, <2>2, <2>3 DEF HandlerStep
<1>8. QED
  BY <1>3, <1>4, <1>5, <1>6, <1>7

\* The assertions of the timer and of the epoll calls hold, but for the two exceptions
\* FailuresKnown states: the event of a descriptor that the client has closed, and both timers
\* of the program lost.
THEOREM OnlyKnownFailures == ClientSpec => []FailuresKnown
<1>1. ClientInit => FailureInv
  BY DEF ClientInit, FailureInv
<1>2. ClientIInv /\ FailureInv /\ [ClientNext]_client_vars => FailureInv'
  <2> SUFFICES ASSUME ClientIInv, FailureInv, [ClientNext]_client_vars PROVE FailureInv'
    OBVIOUS
  <2>1. CASE UNCHANGED client_vars
    BY <2>1
       DEF FailureInv, Runs, Lost, client_vars, pool_vars, event_vars, heap_vars, loop_vars,
           request_vars
  <2>2. CASE ~ Stopped /\ \E c \in Cids : ClientStep(c)
    BY <2>2, ClientStepFails DEF Stopped
  <2>3. CASE /\ ~ Stopped
             /\ \/ \E c \in Cids : EventStep(c)
                \/ \E t \in timers_ \cup {NoTimer} : Turn(t)
                \/ LoopStep \/ Due(timer_data) \/ HandlerStep
    BY <2>3, MasterStepFails DEF Stopped
  <2>4. QED
    BY <2>1, <2>2, <2>3 DEF ClientNext
<1>3. ClientIInv /\ FailureInv => FailuresKnown
  <2> SUFFICES ASSUME ClientIInv, FailureInv PROVE FailuresKnown
    OBVIOUS
  <2>1. /\ phase = "events" /\ timer_data # NoTimer => timer_data \in timer_ids_
        /\ cancel_ids_ \subseteq timer_ids_
    BY DEF ClientIInv, HeapInv
  <2>2. ASSUME NEW c \in Cids
        PROVE  CASE at[c] \in {"send", "connect"} -> interest[c] = "none"
                 [] at[c] \in {"connecting", "write", "writing", "recv"} -> interest[c] = "write"
                 [] at[c] \in {"read", "reading"} -> interest[c] = "read"
                 [] at[c] = "clear" -> interest[c] = IF fd_[c] THEN "read" ELSE "none"
                 [] OTHER -> interest[c] = "none"
    <3>1. WatchOK(c) /\ at[c] \in Points
      BY DEF ClientIInv, ClientInv, ClientsTyped
    <3>2. CASE at[c] \in {"send", "connect"}
      BY <3>1, <3>2 DEF WatchOK
    <3>3. CASE at[c] \in {"connecting", "write", "writing", "recv"}
      BY <3>1, <3>3 DEF WatchOK
    <3>4. CASE at[c] \in {"read", "reading"}
      BY <3>1, <3>4 DEF WatchOK
    <3>5. CASE at[c] = "clear"
      BY <3>1, <3>5 DEF WatchOK
    <3>6. CASE at[c] \in {"loop", "done"}
      BY <3>1, <3>6 DEF WatchOK
    <3>7. QED
      BY <3>1, <3>2, <3>3, <3>4, <3>5, <3>6 DEF Points, Waits
  <2>3. /\ failed = "clear" => \E c \in Cids : Runs(c, "clear") /\ ~ fd_[c]
        /\ failed = "empty" => {RateLimitTimer, StopTimer} \subseteq Lost
    BY DEF FailureInv
  <2>4. QED
    BY <2>1, <2>2, <2>3 DEF FailuresKnown
<1>4. QED
  BY <1>1, <1>2, <1>3, ClientInductive, PTL DEF ClientSpec

\* A client the rate limit has stopped is resumed by the next refresh, or there is nothing left
\* to be requested in this second.
THEOREM NobodyLeftStopped == ClientSpec => []StoppedIsSpent
<1>1. ClientIInv => StoppedIsSpent
  <2> SUFFICES ASSUME ClientIInv, NEW c \in Cids, is_stop_[c]
               PROVE  \/ temp_rate_limit_ < 0
                      \/ phase = "ReStart" /\ (next_client <= c \/ ~ is_master_)
    BY DEF StoppedIsSpent
  <2>1. CASE c \in StoppedSince
    BY <2>1 DEF ClientIInv, RateInv
  <2>2. CASE c \notin StoppedSince
    <3>1. phase = "ReStart" /\ ~ (c < next_client)
      BY <2>2 DEF StoppedSince
    <3>2. c \in Int /\ next_client \in Int
      BY PoolAssumption DEF ClientIInv, ClientsTyped, Cids
    <3>3. QED
      BY <3>1, <3>2
  <2>3. QED
    BY <2>1, <2>2
<1>2. QED
  BY <1>1, ClientInductive, PTL
=============================================================================
