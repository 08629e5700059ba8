---------------------- MODULE RWLockAndHandlers_proofs ---------------------
(***************************************************************************)
(* The safety of CoRWLock for every number of slaves and locks and for     *)
(* every number of calls: types, readers or one writer, that no waiter is  *)
(* lost or woken for nothing, and that CoRWLockResume resumes only slaves  *)
(* it may resume.                                                          *)
(*                                                                         *)
(* The second part has the safety of the blocking and the coroutine        *)
(* servers, for every number of connections, whatever is sent on them, for *)
(* every size of the pool and of a send buffer: where a connection is,     *)
(* what its codec takes in, and that the servers implement the echo.       *)
(***************************************************************************)
EXTENDS RWLock, Handlers, Schedule_proofs

-----------------------------------------------------------------------------
(* Types.                                                                  *)

\* No lock is what stands for none.
LEMMA NoLockIsNone == NoLock \notin RWLocks
BY RWLockAssumption DEF NoLock

\* What TypeOK says of the variables that are not the scheduler's.
RWLockTypeOK ==
  /\ lock_state \in [RWLocks -> RWLockState]
  /\ hold_write_cid \in [RWLocks -> Cids \cup {kInvalidCid}]
  /\ hold_read_cid_set \in [RWLocks -> SUBSET Cids]
  /\ suspend_list \in [RWLocks -> Seq(RWLockType \X Cids)]
  /\ locking \in [Cids -> (RWLockType \X RWLocks) \cup {NotLocking}]
  /\ writes \in [Cids -> SUBSET RWLocks]
  /\ reads \in [Cids -> SUBSET RWLocks]
  /\ todo \subseteq RWLocks
  /\ draining \in RWLocks \cup {NoLock}

\* Taking a lock keeps the types.
LEMMA AcquireTyped ==
  ASSUME RWLockTypeOK, NEW k \in RWLocks, slave_cid_ \in Cids, WriteLock(k) \/ ReadLock(k)
  PROVE  /\ lock_state' \in [RWLocks -> RWLockState]
         /\ hold_write_cid' \in [RWLocks -> Cids \cup {kInvalidCid}]
         /\ hold_read_cid_set' \in [RWLocks -> SUBSET Cids]
         /\ writes' \in [Cids -> SUBSET RWLocks]
         /\ reads' \in [Cids -> SUBSET RWLocks]
<1>1. CASE WriteLock(k)
  <2>1. lock_state' \in [RWLocks -> RWLockState]
    BY <1>1 DEF WriteLock, RWLockTypeOK, RWLockState
  <2>2. hold_write_cid' \in [RWLocks -> Cids \cup {kInvalidCid}]
    BY <1>1 DEF WriteLock, RWLockTypeOK
  <2>3. writes' \in [Cids -> SUBSET RWLocks]
    BY <1>1 DEF WriteLock, RWLockTypeOK
  <2>4. QED
    BY <1>1, <2>1, <2>2, <2>3 DEF WriteLock, RWLockTypeOK
<1>2. CASE ReadLock(k)
  <2>1. lock_state' \in [RWLocks -> RWLockState]
    BY <1>2 DEF ReadLock, RWLockTypeOK, RWLockState
  <2>2. hold_read_cid_set' \in [RWLocks -> SUBSET Cids]
    BY <1>2 DEF ReadLock, RWLockTypeOK
  <2>3. reads' \in [Cids -> SUBSET RWLocks]
    BY <1>2 DEF ReadLock, RWLockTypeOK
  <2>4. QED
    BY <1>2, <2>1, <2>2, <2>3 DEF ReadLock, RWLockTypeOK
<1>3. QED
  BY <1>1, <1>2

\* A turn of a lock call keeps the types.
LEMMA LockTurnTyped ==
  ASSUME TypeOK, NEW type \in RWLockType, NEW k \in RWLocks,
         ~ is_master_, LockTurn(type, k), UNCHANGED loop_vars
  PROVE  PoolOK' /\ RWLockTypeOK'
<1>0. slave_cid_ \in Cids /\ PoolOK /\ RWLockTypeOK
  BY DEF TypeOK, ScheduleTypeOK, PoolOK, is_master_, RWLockTypeOK
<1>1. CASE ~ Conflicts(type, k)
  <2>1. PoolOK'
    BY <1>0, <1>1 DEF LockTurn, pool_vars, PoolOK, OneRunner, CountsNotIdle
  <2>2. WriteLock(k) \/ ReadLock(k)
    BY <1>1 DEF LockTurn
  <2>3. locking' \in [Cids -> (RWLockType \X RWLocks) \cup {NotLocking}]
    BY <1>0, <1>1 DEF LockTurn, RWLockTypeOK
  <2>4. suspend_list' = suspend_list
    BY <1>1 DEF LockTurn
  <2>5. QED
    BY <1>0, <2>1, <2>2, <2>3, <2>4, AcquireTyped DEF RWLockTypeOK, loop_vars
<1>2. CASE Conflicts(type, k)
  <2>1. PoolOK'
    BY <1>0, <1>2, YieldKeepsPool DEF LockTurn
  <2>2. Append(suspend_list[k], <<type, slave_cid_>>) \in Seq(RWLockType \X Cids)
    BY <1>0, AppendProperties DEF RWLockTypeOK
  <2>3. suspend_list' \in [RWLocks -> Seq(RWLockType \X Cids)]
    BY <1>0, <1>2, <2>2 DEF LockTurn, Enqueue, RWLockTypeOK
  <2>4. locking' \in [Cids -> (RWLockType \X RWLocks) \cup {NotLocking}]
    <3>1. <<type, k>> \in (RWLockType \X RWLocks) \cup {NotLocking}
      OBVIOUS
    <3>2. locking' = [locking EXCEPT ![slave_cid_] = <<type, k>>]
      BY <1>2 DEF LockTurn
    <3> HIDE DEF NotLocking
    <3>3. QED
      BY <1>0, <3>1, <3>2 DEF RWLockTypeOK
  <2>5. QED
    BY <1>0, <1>2, <2>1, <2>3, <2>4 DEF LockTurn, RWLockTypeOK, loop_vars
<1>3. QED
  BY <1>1, <1>2

\* So does removing the entry of the slave that releases a lock.
LEMMA DequeueTyped ==
  ASSUME RWLockTypeOK, NEW type, NEW k \in RWLocks, Dequeue(type, k)
  PROVE  suspend_list' \in [RWLocks -> Seq(RWLockType \X Cids)]
<1>1. CASE Contains(suspend_list[k], <<type, slave_cid_>>)
  <2>1. PICK i \in DOMAIN suspend_list[k] :
          suspend_list' = [suspend_list EXCEPT ![k] = RemoveAt(@, i)]
    BY <1>1 DEF Dequeue
  <2>2. suspend_list[k] \in Seq(RWLockType \X Cids)
    BY DEF RWLockTypeOK
  <2>3. i \in 1 .. Len(suspend_list[k])
    BY <2>2, LenProperties
  <2>4. RemoveAt(suspend_list[k], i) \in Seq(RWLockType \X Cids)
    BY <2>2, <2>3, RemoveAtProperties
  <2>5. QED
    BY <2>1, <2>4 DEF RWLockTypeOK
<1>2. CASE ~ Contains(suspend_list[k], <<type, slave_cid_>>)
  BY <1>2 DEF Dequeue, RWLockTypeOK
<1>3. QED
  BY <1>1, <1>2

\* A writer or a reader releases a lock.
LEMMA UnLockTyped ==
  ASSUME TypeOK, NEW k \in RWLocks, CoRWLockWrUnLock(k) \/ CoRWLockRdUnLock(k)
  PROVE  ScheduleTypeOK' /\ RWLockTypeOK'
<1>0. slave_cid_ \in Cids /\ ScheduleTypeOK /\ RWLockTypeOK
  BY DEF CoRWLockWrUnLock, CoRWLockRdUnLock, InEntry, is_master_, TypeOK, ScheduleTypeOK,
         PoolOK, RWLockTypeOK
<1>1. ScheduleTypeOK'
  BY <1>0, UnchangedTyped DEF CoRWLockWrUnLock, CoRWLockRdUnLock
<1>2. suspend_list' \in [RWLocks -> Seq(RWLockType \X Cids)]
  BY <1>0, DequeueTyped DEF CoRWLockWrUnLock, CoRWLockRdUnLock
<1>3. lock_state' \in [RWLocks -> RWLockState]
  BY <1>0 DEF CoRWLockWrUnLock, CoRWLockRdUnLock, RWLockTypeOK, RWLockState
<1>4. CASE CoRWLockWrUnLock(k)
  <2>1. hold_write_cid' \in [RWLocks -> Cids \cup {kInvalidCid}]
    BY <1>0, <1>4 DEF CoRWLockWrUnLock, RWLockTypeOK
  <2>2. writes' \in [Cids -> SUBSET RWLocks]
    BY <1>0, <1>4 DEF CoRWLockWrUnLock, RWLockTypeOK
  <2>3. QED
    BY <1>0, <1>1, <1>2, <1>3, <1>4, <2>1, <2>2 DEF CoRWLockWrUnLock, RWLockTypeOK, loop_vars
<1>5. CASE CoRWLockRdUnLock(k)
  <2>1. hold_read_cid_set' \in [RWLocks -> SUBSET Cids]
    BY <1>0, <1>5 DEF CoRWLockRdUnLock, RWLockTypeOK
  <2>2. reads' \in [Cids -> SUBSET RWLocks]
    BY <1>0, <1>5 DEF CoRWLockRdUnLock, RWLockTypeOK
  <2>3. QED
    BY <1>0, <1>1, <1>2, <1>3, <1>5, <2>1, <2>2 DEF CoRWLockRdUnLock, RWLockTypeOK, loop_vars
<1>6. QED
  BY <1>4, <1>5

\* An iteration that takes the waiter at the front from the queue.
LEMMA DrainTyped ==
  ASSUME TypeOK, Drain
  PROVE  ScheduleTypeOK' /\ RWLockTypeOK'
<1>0. ScheduleTypeOK /\ PoolOK /\ RWLockTypeOK /\ draining \in RWLocks
  BY DEF Drain, TypeOK, ScheduleTypeOK, RWLockTypeOK
<1>1. CASE WakesFront(draining)
  <2>1. suspend_list[draining] \in Seq(RWLockType \X Cids) /\ suspend_list[draining] # <<>>
    BY <1>0, <1>1 DEF WakesFront, RWLockTypeOK
  <2>2. /\ Head(suspend_list[draining])[2] \in Cids
        /\ Tail(suspend_list[draining]) \in Seq(RWLockType \X Cids)
    BY <2>1, HeadTailProperties
  <2>3. PoolOK'
    BY <1>0, <1>1, <2>2, ResumeKeepsPool DEF Drain
  <2>4. suspend_list' \in [RWLocks -> Seq(RWLockType \X Cids)]
    BY <1>0, <1>1, <2>2 DEF Drain, RWLockTypeOK
  <2>5. QED
    BY <1>0, <1>1, <2>3, <2>4 DEF Drain, master_vars, client_vars, RWLockTypeOK, ScheduleTypeOK
<1>2. CASE ~ WakesFront(draining)
  <2>1. ScheduleTypeOK'
    BY <1>0, <1>2, UnchangedTyped DEF Drain, schedule_vars
  <2>2. QED
    BY <1>0, <1>2, <2>1 DEF Drain, client_vars, RWLockTypeOK
<1>3. QED
  BY <1>1, <1>2

\* Every step keeps the types.
LEMMA NextTyped ==
  ASSUME TypeOK, [Next]_vars
  PROVE  TypeOK'
<1>0. ScheduleTypeOK /\ PoolOK /\ RWLockTypeOK
  BY DEF TypeOK, ScheduleTypeOK, RWLockTypeOK
<1> SUFFICES ScheduleTypeOK' /\ RWLockTypeOK'
  BY DEF TypeOK, RWLockTypeOK
<1>1. ASSUME NEW k \in RWLocks, NEW type \in RWLockType, LockCall(type, k)
      PROVE  ScheduleTypeOK' /\ RWLockTypeOK'
  <2>1. PoolOK' /\ RWLockTypeOK'
    BY <1>1, LockTurnTyped DEF LockCall, InEntry
  <2>2. calls' \in [Cids -> 0 .. MaxCalls]
    BY <1>0, <1>1, CallTyped DEF LockCall
  <2>3. QED
    BY <1>0, <1>1, <2>1, <2>2 DEF LockCall, master_vars, ScheduleTypeOK
<1>2. ASSUME NEW k \in RWLocks, CoRWLockWrLock(k) \/ CoRWLockRdLock(k)
      PROVE  ScheduleTypeOK' /\ RWLockTypeOK'
  BY <1>1, <1>2 DEF CoRWLockWrLock, CoRWLockRdLock, RWLockType
<1>3. CASE LockAgain
  <2>1. /\ ~ is_master_ /\ slave_cid_ \in Cids
        /\ locking[slave_cid_] \in RWLockType \X RWLocks
    BY <1>0, <1>3 DEF LockAgain, InEntry, is_master_, PoolOK, RWLockTypeOK
  <2>2. PoolOK' /\ RWLockTypeOK'
    BY <1>3, <2>1, LockTurnTyped DEF LockAgain
  <2>3. QED
    BY <1>0, <1>3, <2>2 DEF LockAgain, master_vars, ScheduleTypeOK
<1>4. CASE SlaveStep
  <2>1. ScheduleTypeOK'
    BY <1>0, <1>4, SlaveStepTyped DEF SlaveStep
  <2>2. QED
    BY <1>0, <1>4, <2>1 DEF SlaveStep, rwlock_vars, client_vars, loop_vars, RWLockTypeOK
<1>5. CASE MasterStep
  <2>1. ScheduleTypeOK'
    BY <1>0, <1>5, MasterStepTyped DEF MasterStep
  <2>2. QED
    BY <1>0, <1>5, <2>1 DEF MasterStep, rwlock_vars, client_vars, loop_vars, RWLockTypeOK
<1>6. CASE RunScanStep
  <2>1. ScheduleTypeOK'
    BY <1>0, <1>6, RunScanTyped DEF RunScanStep
  <2>2. QED
    BY <1>0, <1>6, <2>1 DEF RunScanStep, rwlock_vars, client_vars, loop_vars, RWLockTypeOK
<1>7. CASE CoRWLockResumeBegin \/ CoRWLockResumeEnd
  <2>1. ScheduleTypeOK'
    BY <1>0, <1>7, ResumeLoopTyped DEF CoRWLockResumeBegin, CoRWLockResumeEnd
  <2>2. QED
    BY <1>0, <1>7, <2>1
       DEF CoRWLockResumeBegin, CoRWLockResumeEnd, rwlock_vars, client_vars, loop_vars,
           RWLockTypeOK
<1>8. ASSUME NEW k \in RWLocks, Visit(k)
      PROVE  ScheduleTypeOK' /\ RWLockTypeOK'
  <2>1. ScheduleTypeOK'
    BY <1>0, <1>8, UnchangedTyped DEF Visit
  <2>2. QED
    BY <1>0, <1>8, <2>1 DEF Visit, rwlock_vars, client_vars, RWLockTypeOK
<1>9. CASE UNCHANGED vars
  <2>1. ScheduleTypeOK'
    BY <1>0, <1>9, UnchangedTyped DEF vars
  <2>2. QED
    BY <1>0, <1>9, <2>1 DEF vars, rwlock_vars, client_vars, loop_vars, RWLockTypeOK
<1>10. QED
  BY <1>2, <1>3, <1>4, <1>5, <1>6, <1>7, <1>8, <1>9, UnLockTyped, DrainTyped
     DEF Next, Slave, CoRWLockResume

\* The types hold at the start.
LEMMA InitTyped ==
  ASSUME Init
  PROVE  TypeOK
<1>1. ScheduleTypeOK
  BY InitPool DEF Init
<1>2. <<>> \in Seq(RWLockType \X Cids)
  BY EmptySeq
<1>3. QED
  BY <1>1, <1>2 DEF Init, TypeOK, RWLockState

\* Every variable of CoRWLock has its type and the pool is consistent, for every number of
\* slaves, of locks and of calls.
THEOREM Typed == Spec => []TypeOK
BY InitTyped, NextTyped, PTL DEF Spec

-----------------------------------------------------------------------------
(* The inductive invariant.  ReadersOrWriter is not inductive by itself:   *)
(* a slave taken from the queue must find the lock open to it, so nobody   *)
(* may be in the queue who neither waits for the lock nor holds it.        *)

\* Who holds a lock is recorded in it, and its state tells how it is held.
HoldersRecorded ==
  \A k \in RWLocks :
    /\ \A c \in Cids : c \in hold_read_cid_set[k] <=> k \in reads[c]
    /\ \A c \in Cids : c = hold_write_cid[k] <=> k \in writes[c]
    /\ lock_state[k] = "kReadLock" <=> hold_read_cid_set[k] # {}
    /\ lock_state[k] = "kWriteLock" <=> hold_write_cid[k] # kInvalidCid

\* A slave inside a lock call is in the queue with the type it asks for, or has the thread
\* and gets the lock (WaiterQueuedOrServed, on the set of the entries).
WaiterQueued ==
  \A k \in RWLocks, c \in Cids, type \in RWLockType :
    locking[c] = <<type, k>> =>
      <<type, c>> \in ToSet(suspend_list[k]) \/ (slave_cid_ = c /\ ~ Conflicts(type, k))

\* A slave does not wait for a lock it holds.
WaiterHoldsNot ==
  \A c \in Cids : locking[c][2] \notin Holds(c)

\* A slave inside a lock call is suspended, unless it has the thread.
WaiterSuspended ==
  \A c \in Cids : locking[c] # NotLocking /\ slave_cid_ # c => state[c] = "kSuspend"

\* An entry is that of a slave which holds the lock, or waits for it, in the way it says.
EntryOf(e, k) ==
  \/ locking[e[2]] = <<e[1], k>>
  \/ e[1] = "kWrite" /\ k \in writes[e[2]]
  \/ e[1] = "kRead" /\ k \in reads[e[2]]

QueueEntries == \A k \in RWLocks : \A e \in ToSet(suspend_list[k]) : EntryOf(e, k)

QueueUnique == \A k \in RWLocks : IsInjective(suspend_list[k])

IInv ==
  /\ HoldersRecorded
  /\ WaiterQueued
  /\ WaiterHoldsNot
  /\ WaiterSuspended
  /\ QueueEntries
  /\ QueueUnique

\* Contains looks for an entry of the queue, and the entries are pairs.
LEMMA Entries ==
  ASSUME TypeOK, NEW k \in RWLocks
  PROVE  /\ suspend_list[k] \in Seq(RWLockType \X Cids)
         /\ ToSet(suspend_list[k]) \subseteq RWLockType \X Cids
         /\ \A e : Contains(suspend_list[k], e) <=> e \in ToSet(suspend_list[k])
<1>1. suspend_list[k] \in Seq(RWLockType \X Cids)
  BY DEF TypeOK
<1>2. QED
  BY <1>1, ContainsEntry, EntriesTyped

\* While the master or the entry function of a slave runs, every slave inside a lock call
\* is suspended and queued.
LEMMA Quiet ==
  ASSUME TypeOK, IInv, is_master_ \/ InEntry
  PROVE  /\ \A c \in Cids : locking[c] # NotLocking => c # slave_cid_ /\ state[c] = "kSuspend"
         /\ \A k \in RWLocks, c \in Cids, type \in RWLockType :
              locking[c] = <<type, k>> => <<type, c>> \in ToSet(suspend_list[k])
<1>1. \A c \in Cids : locking[c] # NotLocking => c # slave_cid_
  BY InvalidIsNoCid DEF is_master_, InEntry
<1>2. \A type : \A k \in RWLocks : <<type, k>> # NotLocking
  BY NoLockIsNone DEF NotLocking
<1>3. QED
  BY <1>1, <1>2 DEF IInv, WaiterSuspended, WaiterQueued

\* A step that leaves the locks and the calls on them alone and spares the waiters.
LEMMA QuietStep ==
  ASSUME TypeOK, IInv, is_master_ \/ InEntry,
         UNCHANGED <<rwlock_vars, client_vars>>,
         \A c \in Cids : locking[c] # NotLocking /\ slave_cid_' # c => state'[c] = "kSuspend"
  PROVE  IInv'
<1>1. WaiterQueued'
  BY Quiet DEF WaiterQueued, rwlock_vars, client_vars
<1>2. WaiterSuspended'
  BY DEF WaiterSuspended, client_vars
<1>3. HoldersRecorded' /\ WaiterHoldsNot'
  BY DEF IInv, HoldersRecorded, WaiterHoldsNot, Holds, rwlock_vars, client_vars
<1>4. QueueEntries' /\ QueueUnique'
  BY DEF IInv, QueueEntries, EntryOf, QueueUnique, rwlock_vars, client_vars
<1>5. QED
  BY <1>1, <1>2, <1>3, <1>4 DEF IInv

\* Yielding, creating a slave, ending, and what the master does between the iterations.
LEMMA OtherStepKeepsIInv ==
  ASSUME TypeOK, IInv,
         \/ SlaveStep \/ MasterStep \/ RunScanStep
         \/ CoRWLockResumeBegin \/ CoRWLockResumeEnd \/ \E k \in RWLocks : Visit(k)
  PROVE  IInv'
<1>1. /\ is_master_ \/ InEntry
      /\ UNCHANGED <<rwlock_vars, client_vars>>
  BY DEF SlaveStep, MasterStep, RunScanStep, CoRWLockResumeBegin, CoRWLockResumeEnd, Visit,
         Create, RunBegin, EventResume, AtLarge, RunScan, ResumeBegin, ResumeEnd
<1>2. \A c \in Cids : locking[c] # NotLocking => c # slave_cid_ /\ state[c] = "kSuspend"
  BY <1>1, Quiet
<1>3. SUFFICES ASSUME NEW c \in Cids, locking[c] # NotLocking, slave_cid_' # c
               PROVE  state'[c] = "kSuspend"
  BY <1>1, QuietStep
<1>4. QED
  BY <1>2, <1>3, SuspendedStays
     DEF TypeOK, SlaveStep, MasterStep, RunScanStep, CoRWLockResumeBegin, CoRWLockResumeEnd, Visit

\* The running slave takes a lock that is open to it.
LEMMA AcquireKeepsIInv ==
  ASSUME TypeOK, IInv, NEW type \in RWLockType, NEW k \in RWLocks, ~ is_master_,
         ~ Conflicts(type, k), k \notin Holds(slave_cid_),
         locking[slave_cid_] \in {NotLocking, <<type, k>>},
         IF type = "kWrite" THEN WriteLock(k) ELSE ReadLock(k),
         locking' = [locking EXCEPT ![slave_cid_] = NotLocking],
         UNCHANGED <<pool_vars, suspend_list>>
  PROVE  IInv'
<1>0. /\ slave_cid_ \in Cids
      /\ lock_state \in [RWLocks -> RWLockState]
      /\ hold_write_cid \in [RWLocks -> Cids \cup {kInvalidCid}]
      /\ hold_read_cid_set \in [RWLocks -> SUBSET Cids]
      /\ locking \in [Cids -> (RWLockType \X RWLocks) \cup {NotLocking}]
      /\ writes \in [Cids -> SUBSET RWLocks]
      /\ reads \in [Cids -> SUBSET RWLocks]
  BY DEF TypeOK, ScheduleTypeOK, PoolOK, is_master_
<1>1. \A n, t : <<t, n>> = NotLocking => n \notin RWLocks
  BY NoLockIsNone DEF NotLocking
<1>2. HoldersRecorded'
  <2>1. CASE WriteLock(k) /\ type = "kWrite"
    BY <1>0, <2>1, InvalidIsNoCid DEF IInv, HoldersRecorded, WriteLock, Conflicts, RWLockState
  <2>2. CASE ReadLock(k) /\ type = "kRead"
    BY <1>0, <2>2, InvalidIsNoCid DEF IInv, HoldersRecorded, ReadLock, Conflicts, RWLockState
  <2>3. QED
    BY <2>1, <2>2 DEF RWLockType
<1>3. WaiterQueued'
  <2>1. \A c \in Cids \ {slave_cid_}, n \in RWLocks, t \in RWLockType :
          locking[c] = <<t, n>> => <<t, c>> \in ToSet(suspend_list[n])
    BY DEF IInv, WaiterQueued
  <2>2. \A c \in Cids, n \in RWLocks, t \in RWLockType :
          locking'[c] = <<t, n>> => c # slave_cid_ /\ locking[c] = <<t, n>>
    BY <1>0, <1>1
  <2>3. QED
    BY <2>1, <2>2 DEF WaiterQueued
<1>4. WaiterHoldsNot'
  BY <1>0, NoLockIsNone DEF IInv, WaiterHoldsNot, Holds, WriteLock, ReadLock, NotLocking
<1>5. WaiterSuspended'
  BY <1>0 DEF IInv, WaiterSuspended, pool_vars
<1>6. QueueEntries'
  <2>1. SUFFICES ASSUME NEW n \in RWLocks, NEW e \in ToSet(suspend_list[n])
                 PROVE  EntryOf(e, n)'
    BY DEF QueueEntries
  <2>2. EntryOf(e, n) /\ e[1] \in RWLockType /\ e[2] \in Cids
    BY <2>1, Entries DEF IInv, QueueEntries
  <2>3. CASE e[2] # slave_cid_
    BY <1>0, <2>2, <2>3 DEF EntryOf, WriteLock, ReadLock
  <2>4. CASE e[2] = slave_cid_
    <3>1. CASE locking[slave_cid_] = <<e[1], n>>
      <4>1. e[1] = type /\ n = k
        BY <1>1, <2>1, <3>1
      <4>2. QED
        BY <1>0, <2>4, <4>1 DEF EntryOf, WriteLock, ReadLock, RWLockType
    <3>2. CASE locking[slave_cid_] # <<e[1], n>>
      BY <1>0, <2>2, <2>4, <3>2 DEF EntryOf, WriteLock, ReadLock
    <3>3. QED
      BY <3>1, <3>2
  <2>5. QED
    BY <2>3, <2>4
<1>7. QueueUnique'
  BY DEF IInv, QueueUnique
<1>8. QED
  BY <1>2, <1>3, <1>4, <1>5, <1>6, <1>7 DEF IInv

\* The running slave finds the lock closed to it and is suspended in the call.
LEMMA WaitKeepsIInv ==
  ASSUME TypeOK, IInv, NEW type \in RWLockType, NEW k \in RWLocks, ~ is_master_,
         k \notin Holds(slave_cid_),
         locking[slave_cid_] \in {NotLocking, <<type, k>>},
         Enqueue(type, k), CoroutineYield,
         locking' = [locking EXCEPT ![slave_cid_] = <<type, k>>],
         UNCHANGED <<lock_state, hold_write_cid, hold_read_cid_set, writes, reads>>
  PROVE  IInv'
<1> DEFINE e == <<type, slave_cid_>>
<1>0. /\ slave_cid_ \in Cids
      /\ state \in [Cids -> State]
      /\ locking \in [Cids -> (RWLockType \X RWLocks) \cup {NotLocking}]
      /\ suspend_list \in [RWLocks -> Seq(RWLockType \X Cids)]
  BY DEF TypeOK, ScheduleTypeOK, PoolOK, is_master_
<1>1. /\ ToSet(suspend_list'[k]) = ToSet(suspend_list[k]) \cup {e}
      /\ IsInjective(suspend_list'[k])
      /\ \A n \in RWLocks \ {k} : suspend_list'[n] = suspend_list[n]
  <2>1. IsInjective(suspend_list[k])
    BY DEF IInv, QueueUnique
  <2>2. CASE Contains(suspend_list[k], e)
    BY <2>1, <2>2, Entries DEF Enqueue
  <2>3. CASE ~ Contains(suspend_list[k], e)
    <3>1. suspend_list'[k] = Append(suspend_list[k], e)
      BY <1>0, <2>3 DEF Enqueue
    <3>2. \A n \in RWLocks \ {k} : suspend_list'[n] = suspend_list[n]
      BY <1>0, <2>3 DEF Enqueue
    <3>3. suspend_list[k] \in Seq(RWLockType \X Cids) /\ e \notin ToSet(suspend_list[k])
      BY <2>3, Entries
    <3>4. e \in RWLockType \X Cids
      BY <1>0
    <3> HIDE DEF e
    <3>5. QED
      BY <2>1, <3>1, <3>2, <3>3, <3>4, AppendEntries
  <2>4. QED
    BY <2>2, <2>3
<1>2. WaiterQueued'
  <2>1. \A c \in Cids \ {slave_cid_}, n \in RWLocks, t \in RWLockType :
          locking[c] = <<t, n>> => <<t, c>> \in ToSet(suspend_list[n])
    BY DEF IInv, WaiterQueued
  <2>2. SUFFICES ASSUME NEW c \in Cids, NEW n \in RWLocks, NEW t \in RWLockType,
                        locking'[c] = <<t, n>>
                 PROVE  <<t, c>> \in ToSet(suspend_list'[n])
    BY DEF WaiterQueued
  <2>3. CASE c = slave_cid_
    BY <1>0, <1>1, <2>2, <2>3
  <2>4. CASE c # slave_cid_
    BY <1>0, <1>1, <2>1, <2>2, <2>4
  <2>5. QED
    BY <2>3, <2>4
<1>3. WaiterHoldsNot'
  BY <1>0 DEF IInv, WaiterHoldsNot, Holds
<1>4. WaiterSuspended'
  BY <1>0 DEF IInv, WaiterSuspended, CoroutineYield
<1>5. QueueEntries'
  <2>1. SUFFICES ASSUME NEW n \in RWLocks, NEW f \in ToSet(suspend_list'[n])
                 PROVE  EntryOf(f, n)'
    BY DEF QueueEntries
  <2>2. CASE n = k /\ f = e
    BY <1>0, <2>2 DEF EntryOf
  <2>3. CASE ~ (n = k /\ f = e)
    <3>1. f \in ToSet(suspend_list[n])
      BY <1>1, <2>1, <2>3
    <3>2. EntryOf(f, n) /\ f[2] \in Cids
      BY <3>1, Entries DEF IInv, QueueEntries
    <3>3. locking[f[2]] = <<f[1], n>> => locking'[f[2]] = <<f[1], n>>
      BY <1>0, <3>2, NoLockIsNone DEF NotLocking
    <3>4. QED
      BY <3>2, <3>3 DEF EntryOf
  <2>4. QED
    BY <2>2, <2>3
<1>6. QueueUnique'
  BY <1>1 DEF IInv, QueueUnique
<1>7. HoldersRecorded'
  BY DEF IInv, HoldersRecorded
<1>8. QED
  BY <1>2, <1>3, <1>4, <1>5, <1>6, <1>7 DEF IInv

\* A turn of a lock call, the first or a later one.
LEMMA LockTurnKeepsIInv ==
  ASSUME TypeOK, IInv, NEW type \in RWLockType, NEW k \in RWLocks, ~ is_master_,
         k \notin Holds(slave_cid_),
         locking[slave_cid_] \in {NotLocking, <<type, k>>}, LockTurn(type, k)
  PROVE  IInv'
<1>1. CASE Conflicts(type, k)
  BY <1>1, WaitKeepsIInv DEF LockTurn
<1>2. CASE ~ Conflicts(type, k)
  BY <1>2, AcquireKeepsIInv DEF LockTurn
<1>3. QED
  BY <1>1, <1>2

\* Removing an entry takes it out of the queue and leaves the others.
LEMMA DequeueEntries ==
  ASSUME TypeOK, IInv, NEW type \in RWLockType, NEW k \in RWLocks, Dequeue(type, k)
  PROVE  /\ ToSet(suspend_list'[k]) = ToSet(suspend_list[k]) \ {<<type, slave_cid_>>}
         /\ IsInjective(suspend_list'[k])
         /\ \A n \in RWLocks \ {k} : suspend_list'[n] = suspend_list[n]
<1> DEFINE e == <<type, slave_cid_>>
<1>1. /\ suspend_list \in [RWLocks -> Seq(RWLockType \X Cids)]
      /\ suspend_list[k] \in Seq(RWLockType \X Cids)
      /\ IsInjective(suspend_list[k])
  BY DEF TypeOK, IInv, QueueUnique
<1>2. CASE Contains(suspend_list[k], e)
  <2>1. PICK i \in DOMAIN suspend_list[k] :
          /\ suspend_list[k][i] = e
          /\ suspend_list' = [suspend_list EXCEPT ![k] = RemoveAt(@, i)]
    BY <1>2 DEF Dequeue
  <2>2. i \in 1 .. Len(suspend_list[k])
    BY <1>1, LenProperties
  <2>3. /\ suspend_list'[k] = RemoveAt(suspend_list[k], i)
        /\ \A n \in RWLocks \ {k} : suspend_list'[n] = suspend_list[n]
    BY <1>1, <2>1
  <2> HIDE DEF e
  <2>4. /\ ToSet(suspend_list'[k]) = ToSet(suspend_list[k]) \ {e}
        /\ IsInjective(suspend_list'[k])
    BY <1>1, <2>1, <2>2, <2>3, RemoveAtEntries
  <2>5. QED
    BY <2>3, <2>4 DEF e
<1>3. CASE ~ Contains(suspend_list[k], e)
  BY <1>1, <1>3, Entries DEF Dequeue
<1>4. QED
  BY <1>2, <1>3

\* A writer, or a reader, releases the lock and leaves the queue.
LEMMA UnLockKeepsIInv ==
  ASSUME TypeOK, IInv, NEW k \in RWLocks, CoRWLockWrUnLock(k) \/ CoRWLockRdUnLock(k)
  PROVE  IInv'
<1>0. /\ slave_cid_ \in Cids /\ InEntry
      /\ lock_state \in [RWLocks -> RWLockState]
      /\ hold_write_cid \in [RWLocks -> Cids \cup {kInvalidCid}]
      /\ hold_read_cid_set \in [RWLocks -> SUBSET Cids]
      /\ writes \in [Cids -> SUBSET RWLocks]
      /\ reads \in [Cids -> SUBSET RWLocks]
      /\ UNCHANGED <<schedule_vars, locking>>
  BY DEF CoRWLockWrUnLock, CoRWLockRdUnLock, InEntry, TypeOK, ScheduleTypeOK, PoolOK, is_master_
<1>1. PICK type \in RWLockType :
        /\ type = "kWrite" => CoRWLockWrUnLock(k)
        /\ type = "kRead" => CoRWLockRdUnLock(k)
        /\ Dequeue(type, k)
  BY DEF CoRWLockWrUnLock, CoRWLockRdUnLock, RWLockType
<1>2. /\ ToSet(suspend_list'[k]) = ToSet(suspend_list[k]) \ {<<type, slave_cid_>>}
      /\ IsInjective(suspend_list'[k])
      /\ \A n \in RWLocks \ {k} : suspend_list'[n] = suspend_list[n]
  BY <1>1, DequeueEntries
<1>3. /\ type = "kWrite" => k \in writes[slave_cid_] /\ k \notin reads[slave_cid_]
      /\ type = "kRead" => k \in reads[slave_cid_] /\ k \notin writes[slave_cid_]
  BY <1>0, <1>1, InvalidIsNoCid
     DEF CoRWLockWrUnLock, CoRWLockRdUnLock, IInv, HoldersRecorded, RWLockState
<1>4. HoldersRecorded'
  <2>1. CASE type = "kWrite"
    BY <1>0, <1>1, <2>1, InvalidIsNoCid DEF IInv, HoldersRecorded, CoRWLockWrUnLock
  <2>2. CASE type = "kRead"
    <3>1. \A n \in RWLocks \ {k} : lock_state'[n] = lock_state[n]
      BY <1>0, <1>1, <2>2 DEF CoRWLockRdUnLock
    <3>2. /\ lock_state[k] = "kReadLock" /\ hold_write_cid[k] = kInvalidCid
          /\ hold_read_cid_set' = [hold_read_cid_set EXCEPT ![k] = @ \ {slave_cid_}]
          /\ reads' = [reads EXCEPT ![slave_cid_] = @ \ {k}]
          /\ UNCHANGED <<hold_write_cid, writes>>
      BY <1>0, <1>1, <2>2 DEF IInv, HoldersRecorded, CoRWLockRdUnLock
    <3>3. /\ lock_state'[k] = "kReadLock" <=> hold_read_cid_set'[k] # {}
          /\ lock_state'[k] # "kWriteLock"
      BY <1>0, <1>1, <2>2, <3>2 DEF CoRWLockRdUnLock
    <3>4. QED
      BY <1>0, <3>1, <3>2, <3>3 DEF IInv, HoldersRecorded
  <2>3. QED
    BY <2>1, <2>2 DEF RWLockType
<1>5. WaiterQueued'
  <2>1. SUFFICES ASSUME NEW c \in Cids, NEW n \in RWLocks, NEW t \in RWLockType,
                        locking[c] = <<t, n>>
                 PROVE  <<t, c>> \in ToSet(suspend_list'[n])
    BY <1>0 DEF WaiterQueued
  <2>2. <<t, c>> \in ToSet(suspend_list[n]) /\ c # slave_cid_
    BY <1>0, <2>1, Quiet, NoLockIsNone DEF NotLocking
  <2>3. QED
    BY <1>2, <2>2
<1>6. WaiterSuspended' /\ WaiterHoldsNot'
  BY <1>0, <1>1
     DEF IInv, WaiterSuspended, WaiterHoldsNot, Holds, CoRWLockWrUnLock, CoRWLockRdUnLock,
         schedule_vars, pool_vars, RWLockType
<1>7. QueueEntries'
  <2>1. SUFFICES ASSUME NEW n \in RWLocks, NEW e \in ToSet(suspend_list'[n])
                 PROVE  EntryOf(e, n)'
    BY DEF QueueEntries
  <2>2. /\ e \in ToSet(suspend_list[n]) /\ EntryOf(e, n)
        /\ e \in RWLockType \X Cids
        /\ n = k => e # <<type, slave_cid_>>
    BY <1>2, <2>1, Entries DEF IInv, QueueEntries
  <2>3. \A c \in Cids, m \in RWLocks : ~ (c = slave_cid_ /\ m = k) =>
          (m \in writes'[c] <=> m \in writes[c]) /\ (m \in reads'[c] <=> m \in reads[c])
    BY <1>0, <1>1 DEF CoRWLockWrUnLock, CoRWLockRdUnLock, RWLockType
  <2>4. CASE ~ (e[2] = slave_cid_ /\ n = k)
    BY <1>0, <2>2, <2>3, <2>4 DEF EntryOf
  <2>5. CASE e[2] = slave_cid_ /\ n = k
    <3>1. e[1] = type
      BY <1>0, <1>3, <2>2, <2>5, NoLockIsNone DEF EntryOf, InEntry, NotLocking, RWLockType
    <3>2. QED
      BY <2>2, <2>5, <3>1
  <2>6. QED
    BY <2>4, <2>5
<1>8. QueueUnique'
  BY <1>2 DEF IInv, QueueUnique
<1>9. QED
  BY <1>4, <1>5, <1>6, <1>7, <1>8 DEF IInv

\* The waiter that CoRWLockResume takes from the front of a queue finds the lock open to it.
LEMMA DrainKeepsIInv ==
  ASSUME TypeOK, IInv, Drain
  PROVE  IInv'
<1>0. /\ state \in [Cids -> State] /\ is_master_
      /\ draining \in RWLocks
      /\ suspend_list \in [RWLocks -> Seq(RWLockType \X Cids)]
      /\ UNCHANGED <<lock_state, hold_write_cid, hold_read_cid_set, client_vars>>
  BY DEF TypeOK, ScheduleTypeOK, PoolOK, Drain
<1>1. /\ \A c \in Cids : locking[c] # NotLocking => c # slave_cid_ /\ state[c] = "kSuspend"
      /\ \A k \in RWLocks, c \in Cids, type \in RWLockType :
           locking[c] = <<type, k>> => <<type, c>> \in ToSet(suspend_list[k])
  BY <1>0, Quiet
<1>2. CASE WakesFront(draining)
  <2> DEFINE e == Head(suspend_list[draining])
  <2>1. /\ suspend_list[draining] \in Seq(RWLockType \X Cids)
        /\ suspend_list[draining] # <<>>
        /\ IsInjective(suspend_list[draining])
    BY <1>0, <1>2 DEF WakesFront, IInv, QueueUnique
  <2>2. /\ suspend_list'[draining] = Tail(suspend_list[draining])
        /\ \A n \in RWLocks \ {draining} : suspend_list'[n] = suspend_list[n]
        /\ slave_cid_' = e[2] /\ state' = [state EXCEPT ![e[2]] = "kRun"]
    BY <1>0, <1>2 DEF Drain, CoroutineResume
  <2>3. e \in RWLockType \X Cids /\ ~ Conflicts(e[1], draining)
    BY <1>0, <1>2, <2>1, HeadTailProperties DEF WakesFront, Conflicts, RWLockType
  <2>4. /\ ToSet(suspend_list'[draining]) = ToSet(suspend_list[draining]) \ {e}
        /\ IsInjective(suspend_list'[draining])
    BY <2>1, <2>2, TailEntries
  <2> HIDE DEF e
  <2>5. WaiterQueued'
    <3>1. SUFFICES ASSUME NEW c \in Cids, NEW n \in RWLocks, NEW t \in RWLockType,
                          locking[c] = <<t, n>>
                   PROVE  \/ <<t, c>> \in ToSet(suspend_list'[n])
                          \/ slave_cid_' = c /\ ~ Conflicts(t, n)
      BY <1>0 DEF WaiterQueued, Conflicts, client_vars
    <3>2. <<t, c>> \in ToSet(suspend_list[n])
      BY <1>1, <3>1
    <3>3. CASE n = draining /\ <<t, c>> = e
      BY <2>2, <2>3, <3>3
    <3>4. CASE ~ (n = draining /\ <<t, c>> = e)
      BY <2>2, <2>4, <3>2, <3>4
    <3>5. QED
      BY <3>3, <3>4
  <2>6. WaiterSuspended'
    BY <1>0, <1>1, <2>2, <2>3 DEF WaiterSuspended, client_vars
  <2>7. \A n \in RWLocks : ToSet(suspend_list'[n]) \subseteq ToSet(suspend_list[n])
    BY <2>2, <2>4
  <2>8. QueueEntries' /\ QueueUnique'
    BY <1>0, <2>2, <2>4, <2>7 DEF IInv, QueueEntries, EntryOf, QueueUnique, client_vars
  <2>9. HoldersRecorded' /\ WaiterHoldsNot'
    BY <1>0 DEF IInv, HoldersRecorded, WaiterHoldsNot, Holds, client_vars
  <2>10. QED
    BY <2>5, <2>6, <2>8, <2>9 DEF IInv
<1>3. CASE ~ WakesFront(draining)
  BY <1>0, <1>1, <1>3, QuietStep DEF Drain, pool_vars, rwlock_vars
<1>4. QED
  BY <1>2, <1>3

\* The invariant is inductive.
LEMMA NextKeepsIInv ==
  ASSUME TypeOK, IInv, [Next]_vars
  PROVE  IInv'
<1>1. ASSUME NEW k \in RWLocks, CoRWLockWrLock(k) \/ CoRWLockRdLock(k) PROVE IInv'
  <2>1. PICK type \in RWLockType : LockCall(type, k)
    BY <1>1 DEF CoRWLockWrLock, CoRWLockRdLock, RWLockType
  <2>2. slave_cid_ \in Cids /\ k \in Nat /\ ~ is_master_
    BY <2>1, RWLockAssumption
       DEF LockCall, InEntry, is_master_, TypeOK, ScheduleTypeOK, PoolOK
  <2>3. k \notin Holds(slave_cid_)
    BY <2>1, <2>2 DEF LockCall
  <2>4. QED
    BY <2>1, <2>2, <2>3, LockTurnKeepsIInv DEF LockCall, InEntry
<1>2. CASE LockAgain
  <2>1. /\ ~ is_master_ /\ slave_cid_ \in Cids
        /\ locking[slave_cid_] \in RWLockType \X RWLocks
        /\ LockTurn(locking[slave_cid_][1], locking[slave_cid_][2])
        /\ locking[slave_cid_][2] \notin Holds(slave_cid_)
    BY <1>2 DEF LockAgain, InEntry, is_master_, TypeOK, ScheduleTypeOK, PoolOK, IInv, WaiterHoldsNot
  <2>2. PICK type \in RWLockType, k \in RWLocks : locking[slave_cid_] = <<type, k>>
    BY <2>1
  <2>3. QED
    BY <2>1, <2>2, LockTurnKeepsIInv
<1>3. CASE UNCHANGED vars
  BY <1>3
     DEF vars, schedule_vars, pool_vars, rwlock_vars, client_vars, IInv, HoldersRecorded, Holds,
         WaiterQueued, Conflicts, WaiterHoldsNot, WaiterSuspended, QueueEntries, EntryOf,
         QueueUnique
<1>4. QED
  BY <1>1, <1>2, <1>3, UnLockKeepsIInv, DrainKeepsIInv, OtherStepKeepsIInv
     DEF Next, Slave, CoRWLockResume

\* It holds at the start.
LEMMA InitIInv ==
  ASSUME Init
  PROVE  IInv
<1>1. \A k \in RWLocks : suspend_list[k] = <<>>
  BY DEF Init
<1>2. QueueEntries /\ QueueUnique
  BY <1>1 DEF QueueEntries, QueueUnique, ToSet, IsInjective
<1>3. WaiterQueued
  BY NoLockIsNone DEF Init, WaiterQueued, NotLocking
<1>4. HoldersRecorded /\ WaiterHoldsNot /\ WaiterSuspended
  BY InvalidIsNoCid DEF Init, HoldersRecorded, WaiterHoldsNot, Holds, WaiterSuspended
<1>5. QED
  BY <1>2, <1>3, <1>4 DEF IInv

\* So the invariant holds always: the step from one state to the next, made once for all states.
LEMMA AlwaysIInv == Spec => [](TypeOK /\ IInv)
<1>1. Init => TypeOK /\ IInv
  BY InitTyped, InitIInv
<1>2. TypeOK /\ IInv /\ [Next]_vars => TypeOK' /\ IInv'
  BY NextTyped, NextKeepsIInv
<1>3. QED
  BY <1>1, <1>2, PTL DEF Spec

-----------------------------------------------------------------------------
(* The safety properties of CoRWLock.                                      *)

\* A writer is alone with the lock, and the state of the lock tells who holds it and how:
\* every assertion of the lock and unlock functions holds, however the slaves are resumed.
THEOREM Exclusive == Spec => []ReadersOrWriter
<1>1. TypeOK /\ IInv => ReadersOrWriter
  <2>1. SUFFICES ASSUME TypeOK, IInv, NEW k \in RWLocks
                 PROVE  LET writers == {c \in Cids : k \in writes[c]}
                            readers == {c \in Cids : k \in reads[c]}
                        IN  /\ hold_read_cid_set[k] = readers
                            /\ CASE lock_state[k] = "kUnLock" ->
                                      /\ writers = {} /\ readers = {}
                                      /\ hold_write_cid[k] = kInvalidCid
                                 [] lock_state[k] = "kWriteLock" ->
                                      writers = {hold_write_cid[k]} /\ readers = {}
                                 [] lock_state[k] = "kReadLock" ->
                                      /\ writers = {} /\ readers # {}
                                      /\ hold_write_cid[k] = kInvalidCid
    BY DEF ReadersOrWriter
  <2> DEFINE writers == {c \in Cids : k \in writes[c]}
             readers == {c \in Cids : k \in reads[c]}
  <2>2. /\ lock_state[k] \in RWLockState
        /\ hold_write_cid[k] \in Cids \cup {kInvalidCid}
        /\ hold_read_cid_set[k] \subseteq Cids
    BY <2>1 DEF TypeOK
  <2>3. hold_read_cid_set[k] = readers
    BY <2>1, <2>2 DEF IInv, HoldersRecorded
  <2>4. hold_write_cid[k] = kInvalidCid => writers = {}
    BY <2>1, InvalidIsNoCid DEF IInv, HoldersRecorded
  <2>5. hold_write_cid[k] # kInvalidCid => writers = {hold_write_cid[k]}
    BY <2>1, <2>2 DEF IInv, HoldersRecorded
  <2>6. /\ lock_state[k] = "kReadLock" <=> readers # {}
        /\ lock_state[k] = "kWriteLock" <=> hold_write_cid[k] # kInvalidCid
    BY <2>1, <2>3 DEF IInv, HoldersRecorded
  <2> HIDE DEF writers, readers
  <2>7. CASE lock_state[k] = "kUnLock"
    BY <2>3, <2>4, <2>6, <2>7 DEF writers, readers
  <2>8. CASE lock_state[k] = "kWriteLock"
    BY <2>3, <2>5, <2>6, <2>8 DEF writers, readers
  <2>9. CASE lock_state[k] = "kReadLock"
    BY <2>3, <2>4, <2>6, <2>9 DEF writers, readers
  <2>10. QED
    BY <2>2, <2>7, <2>8, <2>9 DEF RWLockState
<1>2. QED
  BY <1>1, AlwaysIInv, PTL

\* No reader and no writer is lost: who is inside a lock call is queued as what it is, or
\* was taken from the queue and finds the lock open to it.
THEOREM NoWaiterLost == Spec => []WaiterQueuedOrServed
<1>1. TypeOK /\ IInv => WaiterQueuedOrServed
  BY Entries DEF IInv, WaiterQueued, WaiterQueuedOrServed
<1>2. QED
  BY <1>1, AlwaysIInv, PTL

\* CoRWLockResume resumes only slaves suspended inside a call on the lock, or that hold it
\* and were resumed past their entry; and a slave is queued once for a lock.
THEOREM Resumables == Spec => []QueueResumable
<1>1. TypeOK /\ IInv => QueueResumable
  <2>1. SUFFICES ASSUME TypeOK, IInv, NEW k \in RWLocks
                 PROVE  /\ \A i \in DOMAIN suspend_list[k] :
                             LET c == suspend_list[k][i][2]
                             IN  \/ k \in Holds(c)
                                 \/ /\ locking[c] = <<suspend_list[k][i][1], k>>
                                    /\ slave_cid_ # c => state[c] = "kSuspend"
                        /\ \A i, j \in DOMAIN suspend_list[k] :
                             suspend_list[k][i][2] = suspend_list[k][j][2] => i = j
    BY DEF QueueResumable
  <2>2. ASSUME NEW i \in DOMAIN suspend_list[k]
        PROVE  /\ suspend_list[k][i] \in RWLockType \X Cids
               /\ EntryOf(suspend_list[k][i], k)
    <3>1. suspend_list[k][i] \in ToSet(suspend_list[k])
      BY DEF ToSet
    <3>2. QED
      BY <2>1, <3>1, Entries DEF IInv, QueueEntries
  <2>3. ASSUME NEW i \in DOMAIN suspend_list[k]
        PROVE  LET c == suspend_list[k][i][2]
               IN  \/ k \in Holds(c)
                   \/ /\ locking[c] = <<suspend_list[k][i][1], k>>
                      /\ slave_cid_ # c => state[c] = "kSuspend"
    BY <2>1, <2>2, NoLockIsNone DEF EntryOf, Holds, IInv, WaiterSuspended, NotLocking
  <2>4. ASSUME NEW i \in DOMAIN suspend_list[k], NEW j \in DOMAIN suspend_list[k],
               suspend_list[k][i][2] = suspend_list[k][j][2]
        PROVE  i = j
    <3> DEFINE e == suspend_list[k][i]
               f == suspend_list[k][j]
    <3>1. e \in RWLockType \X Cids /\ f \in RWLockType \X Cids /\ EntryOf(e, k) /\ EntryOf(f, k)
      BY <2>2
    <3>2. /\ locking[e[2]][2] \notin Holds(e[2])
          /\ ~ (k \in writes[e[2]] /\ k \in reads[e[2]])
      BY <2>1, <3>1, InvalidIsNoCid DEF IInv, WaiterHoldsNot, HoldersRecorded
    <3>3. e[1] = f[1]
      BY <2>4, <3>1, <3>2 DEF EntryOf, Holds
    <3>4. e = f
      BY <2>4, <3>1, <3>3
    <3>5. QED
      BY <2>1, <3>4 DEF IInv, QueueUnique, IsInjective
  <2>5. QED
    BY <2>3, <2>4
<1>2. QED
  BY <1>1, AlwaysIInv, PTL

-----------------------------------------------------------------------------
(* The inductive invariant.  One half is about where a connection is, the  *)
(* other about how far its requests are read and answered.                 *)

\* Where a connection is while its handler runs or waits.
InHandler == {"read", "write"}

\* The types of what tells where a connection is.
PlaceTypeOK ==
  /\ server \in Servers
  /\ at \in [Conns -> {"closed", "backlog", "accepted", "queued", "read", "write"}]
  /\ worker \in [Conns -> {0} \cup Workers]
  /\ armed \in [Conns -> {"none", "read", "once", "write"}]
  /\ backlog \in [Workers -> Seq(Conns)]
  /\ serves \in [Workers -> Conns \cup {None}]
  /\ phase \in [Workers -> {"wait", "events", "resume"}]
  /\ events \in [Workers -> SUBSET (Conns \cup {None})]
  /\ q \in Seq(Conns)
  /\ waiting \in Nat /\ notify_count \in Nat
  /\ Leader \in {0} \cup Workers
  /\ ended \subseteq Workers

\* A connection is in the backlog of its listening socket, once.
BacklogOK ==
  /\ \A l \in Workers : IsInjective(backlog[l])
  /\ \A l \in Workers, c \in Conns :
       c \in ToSet(backlog[l]) <=> at[c] = "backlog" /\ worker[c] = l

\* It is in the queue once.
QueueOK ==
  /\ IsInjective(q)
  /\ \A c \in Conns : c \in ToSet(q) <=> at[c] = "queued"

\* A worker runs the handler of one of its connections, which it has no event of.
ServesOK ==
  \A w \in Workers, c \in Conns :
    /\ serves[w] = c => worker[c] = w /\ at[c] \in InHandler /\ c \notin events[w]
    /\ InWorker /\ at[c] \in InHandler /\ worker[c] = w => serves[w] = c

\* Its events are about connections that it has accepted.
EventsOK ==
  \A w \in Workers :
    /\ \A c \in events[w] \cap Conns : worker[c] = w /\ at[c] \in {"accepted"} \cup InHandler
    /\ server.loop = "accept" => events[w] = {}
    /\ phase[w] = "resume" => events[w] = {}
    /\ server.queue = "none" => phase[w] = "wait"

\* What is watched on a connection is what its handler waits for.
ArmedOK ==
  \A c \in Conns :
    /\ at[c] = "closed" <=> worker[c] = 0
    /\ InCoroutine /\ at[c] \in InHandler => armed[c] = at[c]
    /\ at[c] \notin {"accepted"} \cup InHandler => armed[c] = "none"
    /\ InCoroutine /\ server.queue = "none" /\ at[c] = "accepted" => armed[c] = "read"
    /\ at[c] = "accepted" /\ armed[c] = "none" => c \in events[worker[c]]
    /\ server.queue = "none" => armed[c] # "once"
    /\ at[c] = "accepted" => server.loop = "events"
    /\ at[c] = "queued" => server.queue # "none"

\* The connections of a worker that have a handler.
Served(w) == {c \in Conns : worker[c] = w /\ at[c] \in InHandler}

\* A pool has no more handlers than coroutines, and a consumer that waits has none.
PoolLimit ==
  /\ server.queue = "none" => waiting = 0
  /\ InCoroutine => \A w \in Workers : waiting + Cardinality(Served(w)) <= server.count

\* Where a connection is: all parts.
PlaceInv ==
  /\ PlaceTypeOK
  /\ BacklogOK
  /\ QueueOK
  /\ ServesOK
  /\ EventsOK
  /\ ArmedOK
  /\ PoolLimit

-----------------------------------------------------------------------------
\* The messages of a peer.
PeerMessages(c) ==
  {SubSeq(Requests[c][i], TINY_ECHO_HEAD_LEN + 1, Len(Requests[c][i])) :
     i \in 1 .. Len(Requests[c])}

\* The length of a request with this message.
Size(msg) == TINY_ECHO_HEAD_LEN + Len(msg)

\* After e bytes the peer of c sends a request with this message.
IsRequest(c, e, msg) ==
  /\ e \in Ends[c] /\ e + Size(msg) \in Ends[c]
  /\ SubSeq(Wire[c], e + 1, e + Size(msg)) = EnCode(msg)

\* A codec that has taken in the first n bytes of a request.
CodecAt(msg, n) ==
  [decode_status_ |-> IF n < TINY_ECHO_HEAD_LEN
                        THEN "HEAD"
                        ELSE IF n < Size(msg) THEN "BODY" ELSE "FINISH",
   body_len_ |-> IF n < TINY_ECHO_HEAD_LEN THEN 0 ELSE Len(msg),
   msg_ |-> IF n < Size(msg) THEN <<>> ELSE msg,
   data |-> SubSeq(EnCode(msg), 1, n),
   parse_len_ |-> IF n < TINY_ECHO_HEAD_LEN
                    THEN 0
                    ELSE IF n < Size(msg) THEN TINY_ECHO_HEAD_LEN ELSE Size(msg),
   len_ |-> IF n < TINY_ECHO_HEAD_LEN THEN TINY_ECHO_HEAD_LEN ELSE Size(msg)]

\* The codecs.
CodecType ==
  [decode_status_ : {"HEAD", "BODY", "FINISH"}, body_len_ : Nat, msg_ : Seq(Byte),
   data : Seq(Byte), parse_len_ : Nat, len_ : Nat]

\* The types of what is read and written.
DataTypeOK ==
  /\ codec \in [Conns -> CodecType]
  /\ pkt \in [Conns -> Seq(Byte)] /\ back \in [Conns -> Seq(Byte)]
  /\ open \subseteq Conns
  /\ sent \in [Conns -> Nat] /\ taken \in [Conns -> Nat] /\ got \in [Conns -> Nat]
  /\ \A c \in Conns :
       /\ taken[c] <= sent[c] /\ sent[c] <= Len(Wire[c])
       /\ got[c] <= Len(back[c]) /\ Len(back[c]) - got[c] <= Room

\* Nothing of c is read or written.
Fresh(c) == codec[c] = NewCodec /\ pkt[c] = <<>> /\ taken[c] = 0 /\ back[c] = <<>>

\* All requests that are read are answered; none is begun, or a part of one is read.
ReadOK(c) ==
  /\ pkt[c] = <<>>
  /\ \E e \in Ends[c] :
       /\ c \in open => back[c] = SubSeq(Wire[c], 1, e)
       /\ \/ taken[c] = e /\ codec[c] = NewCodec
          \/ \E msg \in PeerMessages(c) :
               /\ IsRequest(c, e, msg)
               /\ \E n \in 1 .. Size(msg) - 1 : taken[c] = e + n /\ codec[c] = CodecAt(msg, n)

\* What is to be written after j bytes of an answer.
Rest(msg, j) == SubSeq(EnCode(msg), j + 1, Size(msg))

\* The last request that is read is answered, up to j bytes.
WriteOK(c) ==
  \E e \in Ends[c], msg \in PeerMessages(c) :
    /\ IsRequest(c, e, msg)
    /\ taken[c] = e + Size(msg) /\ codec[c] = CodecAt(msg, Size(msg))
    /\ \E j \in 0 .. Size(msg) - 1 :
         /\ pkt[c] = Rest(msg, j)
         /\ c \in open => back[c] = SubSeq(Wire[c], 1, e + j)

\* What is read and written of a connection.
ConnOK(c) ==
  /\ at[c] = "read" => ReadOK(c)
  /\ at[c] = "write" => WriteOK(c)
  /\ at[c] \notin InHandler => Fresh(c)

\* How far the requests are read and answered: all parts.
DataInv ==
  /\ DataTypeOK
  /\ \A c \in Conns : ConnOK(c)

\* The inductive invariant.
ServersIInv == PlaceInv /\ DataInv

-----------------------------------------------------------------------------
(* Parts of sequences.                                                     *)

\* The elements of s from m + 1 to n.
LEMMA Part ==
  ASSUME NEW S, NEW s \in Seq(S), NEW n \in 0 .. Len(s), NEW m \in 0 .. n
  PROVE  /\ SubSeq(s, m + 1, n) \in Seq(S)
         /\ Len(SubSeq(s, m + 1, n)) = n - m
         /\ \A i \in 1 .. n - m : SubSeq(s, m + 1, n)[i] = s[m + i]
<1>1. Len(s) \in Nat
  BY LenProperties
<1>2. \A i \in m + 1 .. n : s[i] \in S
  BY <1>1, ElementOfSeq
<1>3. m + 1 \in Int /\ n \in Int /\ m \in Int
  BY <1>1
<1>4. /\ SubSeq(s, m + 1, n) \in Seq(S)
      /\ Len(SubSeq(s, m + 1, n)) = IF m + 1 <= n THEN n - (m + 1) + 1 ELSE 0
      /\ \A i \in 1 .. n - (m + 1) + 1 : SubSeq(s, m + 1, n)[i] = s[m + 1 + i - 1]
  BY <1>2, <1>3, SubSeqProperties
<1>5. n - (m + 1) + 1 = n - m /\ (m + 1 <= n \/ n - m = 0)
  BY <1>3, <1>1
<1>6. \A i \in 1 .. n - m : m + 1 + i - 1 = m + i
  BY <1>3
<1>7. QED
  BY <1>4, <1>5, <1>6

\* The two parts of a concatenation.
LEMMA PartsOfConcat ==
  ASSUME NEW S, NEW s \in Seq(S), NEW t \in Seq(S)
  PROVE  /\ SubSeq(s \o t, 1, Len(s)) = s
         /\ SubSeq(s \o t, Len(s) + 1, Len(s) + Len(t)) = t
<1>1. Len(s) \in Nat /\ Len(t) \in Nat
  BY LenProperties
<1>2. /\ s \o t \in Seq(S) /\ Len(s \o t) = Len(s) + Len(t)
      /\ \A i \in 1 .. Len(s) + Len(t) :
           (s \o t)[i] = IF i <= Len(s) THEN s[i] ELSE t[i - Len(s)]
  BY ConcatProperties
<1>3. SubSeq(s \o t, 1, Len(s)) = s
  <2>1. Len(s) \in 0 .. Len(s \o t) /\ 0 \in 0 .. Len(s)
    BY <1>1, <1>2
  <2>2. /\ SubSeq(s \o t, 0 + 1, Len(s)) \in Seq(S)
        /\ Len(SubSeq(s \o t, 0 + 1, Len(s))) = Len(s) - 0
        /\ \A i \in 1 .. Len(s) - 0 : SubSeq(s \o t, 0 + 1, Len(s))[i] = (s \o t)[0 + i]
    BY <1>2, <2>1, Part
  <2>3. \A i \in 1 .. Len(s) : SubSeq(s \o t, 1, Len(s))[i] = s[i]
    BY <1>1, <1>2, <2>2
  <2>4. QED
    BY <1>1, <2>2, <2>3, SeqEqual
<1>4. SubSeq(s \o t, Len(s) + 1, Len(s) + Len(t)) = t
  <2>1. Len(s) + Len(t) \in 0 .. Len(s \o t) /\ Len(s) \in 0 .. Len(s) + Len(t)
    BY <1>1, <1>2
  <2> DEFINE u == SubSeq(s \o t, Len(s) + 1, Len(s) + Len(t))
  <2>2. /\ u \in Seq(S)
        /\ Len(u) = (Len(s) + Len(t)) - Len(s)
        /\ \A i \in 1 .. (Len(s) + Len(t)) - Len(s) : u[i] = (s \o t)[Len(s) + i]
    BY <1>2, <2>1, Part
  <2>3. (Len(s) + Len(t)) - Len(s) = Len(t)
    BY <1>1
  <2>4. ASSUME NEW i \in 1 .. Len(t) PROVE u[i] = t[i]
    <3>1. Len(s) + i \in 1 .. Len(s) + Len(t) /\ ~ (Len(s) + i <= Len(s)) /\ (Len(s) + i) - Len(s) = i
      BY <1>1
    <3>2. u[i] = (s \o t)[Len(s) + i]
      BY <2>2, <2>3
    <3>3. QED
      BY <1>2, <3>1, <3>2
  <2> HIDE DEF u
  <2>5. u = t
    BY <2>2, <2>3, <2>4, SeqEqual
  <2>6. QED
    BY <2>5 DEF u
<1>5. QED
  BY <1>3, <1>4

\* A part of a part.
LEMMA PartOfPart ==
  ASSUME NEW S, NEW s \in Seq(S), NEW n \in 0 .. Len(s), NEW m \in 0 .. n,
         NEW b \in 0 .. n - m, NEW a \in 0 .. b
  PROVE  SubSeq(SubSeq(s, m + 1, n), a + 1, b) = SubSeq(s, (m + a) + 1, m + b)
<1> DEFINE t == SubSeq(s, m + 1, n)
           u == SubSeq(t, a + 1, b)
           v == SubSeq(s, (m + a) + 1, m + b)
<1>1. Len(s) \in Nat /\ n \in Nat /\ m \in Nat /\ a \in Nat /\ b \in Nat
  BY LenProperties
<1>2. t \in Seq(S) /\ Len(t) = n - m /\ \A i \in 1 .. n - m : t[i] = s[m + i]
  BY Part
<1> HIDE DEF t
<1>3. b \in 0 .. Len(t)
  BY <1>2
<1>4. u \in Seq(S) /\ Len(u) = b - a /\ \A i \in 1 .. b - a : u[i] = t[a + i]
  BY <1>2, <1>3, Part
<1>5. m + b \in 0 .. Len(s) /\ m + a \in 0 .. m + b /\ (m + b) - (m + a) = b - a
  BY <1>1
<1>6. v \in Seq(S) /\ Len(v) = (m + b) - (m + a)
      /\ \A i \in 1 .. (m + b) - (m + a) : v[i] = s[(m + a) + i]
  BY <1>5, Part
<1>7. ASSUME NEW i \in 1 .. b - a PROVE u[i] = v[i]
  <2>1. a + i \in 1 .. n - m /\ m + (a + i) = (m + a) + i
    BY <1>1
  <2>2. t[a + i] = s[(m + a) + i]
    BY <1>2, <2>1
  <2>3. QED
    BY <1>4, <1>5, <1>6, <2>2
<1> HIDE DEF u, v
<1>8. u = v
  BY <1>4, <1>5, <1>6, <1>7, SeqEqual
<1>9. QED
  BY <1>8 DEF t, u, v

\* Two adjacent parts.
LEMMA AdjacentParts ==
  ASSUME NEW S, NEW s \in Seq(S), NEW n \in 0 .. Len(s), NEW m \in 0 .. n, NEW a \in 0 .. m
  PROVE  SubSeq(s, a + 1, m) \o SubSeq(s, m + 1, n) = SubSeq(s, a + 1, n)
<1>1. Len(s) \in Nat /\ n \in Nat /\ m \in Nat /\ a \in Nat
  BY LenProperties
<1>2. a + 1 \in 1 .. Len(s) + 1 /\ m \in (a + 1) - 1 .. Len(s) /\ n \in m .. Len(s)
  BY <1>1
<1>3. QED
  BY <1>2, ConcatAdjacentSubSeq

-----------------------------------------------------------------------------
(* What the peers send.                                                    *)

\* f[n] is the first n of the sequences seqs one after the other.
Joins(f, seqs) ==
  /\ f[0] = <<>>
  /\ \A n \in 1 .. Len(seqs) : f[n] = f[n - 1] \o seqs[n]

\* There is such a function, although its definition is recursive.
LEMMA JoinExists ==
  ASSUME NEW S, NEW seqs \in Seq(Seq(S))
  PROVE  \E f \in [0 .. Len(seqs) -> Seq(S)] : Joins(f, seqs)
<1> DEFINE Up(n) == \E f \in [0 .. n -> Seq(S)] :
                      f[0] = <<>> /\ \A i \in 1 .. n : f[i] = f[i - 1] \o seqs[i]
           Bad == {n \in 0 .. Len(seqs) : ~ Up(n)}
<1>1. Len(seqs) \in Nat /\ \A i \in 1 .. Len(seqs) : seqs[i] \in Seq(S)
  BY LenProperties, ElementOfSeq
<1>2. Up(0)
  <2> DEFINE z == [i \in 0 .. 0 |-> <<>>]
  <2>1. z \in [0 .. 0 -> Seq(S)]
    BY EmptySeq
  <2>2. z[0] = <<>> /\ 1 .. 0 = {}
    OBVIOUS
  <2> HIDE DEF z
  <2>3. QED
    BY <2>1, <2>2
<1>3. ASSUME NEW n \in 0 .. Len(seqs), Up(n), n < Len(seqs)
      PROVE  Up(n + 1)
  <2>1. PICK f \in [0 .. n -> Seq(S)] : f[0] = <<>> /\ \A i \in 1 .. n : f[i] = f[i - 1] \o seqs[i]
    BY <1>3
  <2> DEFINE g == [i \in 0 .. n + 1 |-> IF i <= n THEN f[i] ELSE f[n] \o seqs[n + 1]]
  <2>2. n + 1 \in 1 .. Len(seqs) /\ n \in 0 .. n /\ n \in Nat
    BY <1>1, <1>3
  <2>3. seqs[n + 1] \in Seq(S) /\ f[n] \in Seq(S)
    BY <1>1, <2>2
  <2>4. f[n] \o seqs[n + 1] \in Seq(S)
    BY <2>3, ConcatProperties
  <2>5. g \in [0 .. n + 1 -> Seq(S)]
    <3>1. \A i \in 0 .. n + 1 : i <= n => i \in 0 .. n
      BY <2>2
    <3>2. QED
      BY <2>4, <3>1
  <2>6. g[0] = <<>>
    BY <2>1, <2>2
  <2>7. ASSUME NEW i \in 1 .. n + 1 PROVE g[i] = g[i - 1] \o seqs[i]
    <3>1. CASE i <= n
      <4>1. i \in 1 .. n /\ i - 1 \in 0 .. n + 1 /\ i - 1 <= n /\ i \in 0 .. n + 1
        BY <2>2, <3>1
      <4>2. QED
        BY <2>1, <3>1, <4>1
    <3>2. CASE ~ (i <= n)
      <4>1. i = n + 1 /\ i - 1 = n /\ n \in 0 .. n + 1 /\ n + 1 \in 0 .. n + 1 /\ ~ (n + 1 <= n)
        BY <2>2, <3>2
      <4>2. QED
        BY <4>1, <2>2
    <3>3. QED
      BY <3>1, <3>2
  <2> HIDE DEF g
  <2>8. QED
    BY <2>5, <2>6, <2>7
<1>4. Bad = {}
  <2>1. SUFFICES ASSUME Bad # {} PROVE FALSE
    OBVIOUS
  <2> HIDE DEF Up
  <2>2. Bad \subseteq Nat
    BY <1>1
  <2>3. PICK n \in Bad : \A m \in Bad : n <= m
    BY <2>1, <2>2, LeastExists
  <2>4. n \in 0 .. Len(seqs) /\ ~ Up(n)
    OBVIOUS
  <2>5. n # 0 /\ n - 1 \in 0 .. Len(seqs) /\ n - 1 < Len(seqs) /\ (n - 1) + 1 = n
    BY <1>1, <1>2, <2>4
  <2>6. ~ (n <= n - 1)
    BY <2>4, <1>1
  <2>7. Up(n - 1)
    BY <2>3, <2>5, <2>6
  <2>8. Up((n - 1) + 1)
    BY <1>3, <2>5, <2>7
  <2>9. QED
    BY <2>4, <2>5, <2>8
<1>5. Up(Len(seqs))
  <2> HIDE DEF Up
  <2>1. Len(seqs) \in 0 .. Len(seqs)
    BY <1>1
  <2>2. QED
    BY <1>4, <2>1
<1>6. QED
  BY <1>5 DEF Joins

\* FlattenSeq of the first n of the sequences.
LEMMA FlattenIsJoin ==
  ASSUME NEW S, NEW seqs \in Seq(Seq(S)), NEW f \in [0 .. Len(seqs) -> Seq(S)], Joins(f, seqs),
         NEW n \in 0 .. Len(seqs)
  PROVE  FlattenSeq(SubSeq(seqs, 1, n)) = f[n]
<1>1. Len(seqs) \in Nat /\ \A i \in 1 .. Len(seqs) : seqs[i] \in Seq(S)
  BY LenProperties, ElementOfSeq
<1>0. /\ n \in Nat /\ \A i \in 1 .. n : i \in 1 .. Len(seqs)
      /\ \A i \in 1 .. Len(seqs) : f[i] = f[i - 1] \o seqs[i]
      /\ f[0] = <<>>
  <2>1. n \in Nat /\ \A i \in 1 .. n : i \in 1 .. Len(seqs)
    BY <1>1
  <2>2. QED
    BY <2>1 DEF Joins
<1> DEFINE s == SubSeq(seqs, 1, n)
<1>2. Len(s) = n /\ \A i \in 1 .. n : s[i] = seqs[i]
  <2>1. /\ Len(s) = IF 1 <= n THEN n - 1 + 1 ELSE 0
        /\ \A i \in 1 .. n - 1 + 1 : s[i] = seqs[1 + i - 1]
    BY <1>1, SubSeqProperties
  <2>2. QED
    BY <2>1
<1>3. CASE n = 0
  <2>1. s = <<>>
    BY <1>3, SubSeqEmpty
  <2>2. QED
    BY <1>2, <1>3, <2>1 DEF FlattenSeq, Joins
<1>4. CASE n # 0
  <2> DEFINE flatten ==
          CHOOSE g : g = [i \in 1 .. Len(s) |-> IF i = 1 THEN s[i] ELSE g[i - 1] \o s[i]]
  <2>1. FlattenSeq(s) = flatten[Len(s)]
    BY <1>2, <1>4 DEF FlattenSeq
  <2>2. \E g : g = [i \in 1 .. Len(s) |-> IF i = 1 THEN s[i] ELSE g[i - 1] \o s[i]]
    <3> DEFINE h == [i \in 1 .. n |-> f[i]]
    <3>1. ASSUME NEW i \in 1 .. n PROVE h[i] = IF i = 1 THEN s[i] ELSE h[i - 1] \o s[i]
      <4>1. f[i] = f[i - 1] \o seqs[i] /\ s[i] = seqs[i] /\ i \in 1 .. Len(seqs)
        BY <1>0, <1>2
      <4>2. CASE i = 1
        <5>1. i - 1 = 0
          BY <4>2
        <5>2. f[1] = <<>> \o seqs[1] /\ 1 \in 1 .. Len(seqs)
          BY <1>0, <4>1, <4>2, <5>1
        <5>3. QED
          BY <1>1, <4>1, <4>2, <5>2, ConcatEmptySeq
      <4>3. CASE i # 1
        <5>1. i - 1 \in 1 .. n
          BY <4>3
        <5>2. QED
          BY <4>1, <4>3, <5>1
      <4>4. QED
        BY <4>2, <4>3
    <3>2. h = [i \in 1 .. Len(s) |-> IF i = 1 THEN s[i] ELSE h[i - 1] \o s[i]]
      BY <1>2, <3>1
    <3>3. QED
      BY <3>2
  <2>3. flatten = [i \in 1 .. Len(s) |-> IF i = 1 THEN s[i] ELSE flatten[i - 1] \o s[i]]
    BY <2>2
  <2> HIDE DEF flatten, s
  <2>4. \A i \in 1 .. n : flatten[i] = IF i = 1 THEN seqs[i] ELSE flatten[i - 1] \o seqs[i]
    BY <1>2, <2>3
  <2>5. n \in 1 .. n
    BY <1>0, <1>4
  <2> DEFINE Bad == {i \in 1 .. n : flatten[i] # f[i]}
  <2>6. Bad = {}
    <3>1. SUFFICES ASSUME Bad # {} PROVE FALSE
      OBVIOUS
    <3>2. Bad \subseteq Nat
      BY <1>0
    <3>3. PICK i \in Bad : \A m \in Bad : i <= m
      BY <3>1, <3>2, LeastExists
    <3>4. i \in 1 .. n /\ flatten[i] # f[i]
      OBVIOUS
    <3>5. f[i] = f[i - 1] \o seqs[i]
      BY <1>0, <3>4
    <3>6. CASE i = 1
      <4>1. i - 1 = 0 /\ seqs[1] \in Seq(S)
        BY <1>0, <1>1, <3>4, <3>6
      <4>2. f[1] = seqs[1]
        BY <1>0, <3>5, <3>6, <4>1, ConcatEmptySeq
      <4>3. QED
        BY <2>4, <3>4, <3>6, <4>2
    <3>7. CASE i # 1
      <4>1. i - 1 \in 1 .. n /\ ~ (i <= i - 1)
        BY <1>0, <3>4, <3>7
      <4>2. flatten[i - 1] = f[i - 1]
        BY <3>3, <4>1
      <4>3. QED
        BY <2>4, <3>4, <3>5, <3>7, <4>2
    <3>8. QED
      BY <3>6, <3>7
  <2>7. QED
    BY <1>2, <2>1, <2>5, <2>6 DEF s
<1>5. QED
  BY <1>3, <1>4

\* f joins sequences over S.
JoinsTyped(f, S, seqs) == Joins(f, seqs) /\ \A i \in 0 .. Len(seqs) : f[i] \in Seq(S)

\* What is joined first comes first.
LEMMA JoinPrefix ==
  ASSUME NEW S, NEW seqs \in Seq(Seq(S)), NEW f, JoinsTyped(f, S, seqs),
         NEW m \in 0 .. Len(seqs), NEW n \in m .. Len(seqs)
  PROVE  \E t \in Seq(S) : f[n] = f[m] \o t
<1> DEFINE Good(i) == \E t \in Seq(S) : f[i] = f[m] \o t
           Bad == {i \in m .. Len(seqs) : ~ Good(i)}
<1>1. /\ Len(seqs) \in Nat /\ m \in Nat /\ m \in m .. Len(seqs)
      /\ \A i \in m .. Len(seqs) : i \in 0 .. Len(seqs)
  BY LenProperties
<1>2. f[m] \in Seq(S)
  BY <1>1 DEF JoinsTyped
<1>3. Good(m)
  BY <1>2, ConcatEmptySeq, EmptySeq
<1>4. ASSUME NEW i \in m .. Len(seqs), i # m, Good(i - 1) PROVE Good(i)
  <2>1. i \in 1 .. Len(seqs)
    BY <1>1, <1>4
  <2>2. f[i] = f[i - 1] \o seqs[i]
    BY <2>1 DEF JoinsTyped, Joins
  <2>3. seqs[i] \in Seq(S)
    BY <2>1, ElementOfSeq
  <2> DEFINE x == f[m]
             y == f[i - 1]
             z == seqs[i]
  <2>4. x \in Seq(S) /\ z \in Seq(S) /\ \E t \in Seq(S) : y = x \o t
    BY <1>2, <1>4, <2>3
  <2>5. f[i] = y \o z
    BY <2>2
  <2> HIDE DEF x, y, z
  <2>6. PICK t \in Seq(S) : y = x \o t
    BY <2>4
  <2>7. (x \o t) \o z = x \o (t \o z)
    BY <2>4, <2>6, ConcatAssociative
  <2>8. t \o z \in Seq(S)
    BY <2>4, <2>6, ConcatProperties
  <2>9. QED
    BY <2>5, <2>6, <2>7, <2>8 DEF x
<1>5. Bad = {}
  <2> HIDE DEF Good
  <2>1. SUFFICES ASSUME Bad # {} PROVE FALSE
    OBVIOUS
  <2>2. Bad \subseteq Nat
    BY <1>1
  <2>3. PICK i \in Bad : \A k \in Bad : i <= k
    BY <2>1, <2>2, LeastExists
  <2>4. i \in m .. Len(seqs) /\ ~ Good(i) /\ i # m
    BY <1>3
  <2>5. i - 1 \in m .. Len(seqs) /\ ~ (i <= i - 1)
    BY <1>1, <2>4
  <2>6. Good(i - 1)
    BY <2>3, <2>5
  <2>7. QED
    BY <1>4, <2>4, <2>6
<1>6. QED
  BY <1>5

-----------------------------------------------------------------------------
\* A head has TINY_ECHO_HEAD_LEN bytes.
LEMMA HeadOfMessage ==
  ASSUME NEW n \in Nat
  PROVE  htonl(n) \in Seq(Byte) /\ Len(htonl(n)) = TINY_ECHO_HEAD_LEN
<1>1. TINY_ECHO_HEAD_LEN \in {1, 2, 3, 4}
  BY CodecAssumption
<1>2. \A j \in 1 .. TINY_ECHO_HEAD_LEN : 256 ^ (TINY_ECHO_HEAD_LEN - j) \in Nat \ {0}
  <2>1. \A j \in 1 .. TINY_ECHO_HEAD_LEN : TINY_ECHO_HEAD_LEN - j \in {0, 1, 2, 3}
    BY <1>1
  <2>2. /\ 256 ^ 0 \in Nat \ {0} /\ 256 ^ 1 \in Nat \ {0}
        /\ 256 ^ 2 \in Nat \ {0} /\ 256 ^ 3 \in Nat \ {0}
    OBVIOUS
  <2>3. \A k \in {0, 1, 2, 3} : 256 ^ k \in Nat \ {0}
    <3>1. SUFFICES ASSUME NEW k \in {0, 1, 2, 3} PROVE 256 ^ k \in Nat \ {0}
      OBVIOUS
    <3>2. k = 0 \/ k = 1 \/ k = 2 \/ k = 3
      OBVIOUS
    <3>3. QED
      BY <2>2, <3>2, Zenon
  <2>4. QED
    BY <2>1, <2>3
<1>3. \A j \in 1 .. TINY_ECHO_HEAD_LEN : (n \div 256 ^ (TINY_ECHO_HEAD_LEN - j)) % 256 \in Byte
  BY <1>2 DEF Byte
<1>4. htonl(n) \in [1 .. TINY_ECHO_HEAD_LEN -> Byte]
  BY <1>3 DEF htonl
<1>5. htonl(n) \in Seq(Byte)
  BY <1>1, <1>4, SeqDef
<1>6. QED
  BY <1>1, <1>4, <1>5, LenProperties

\* So a request is as long as its head and its message.
LEMMA EnCodeLength ==
  ASSUME NEW msg \in Seq(Byte)
  PROVE  EnCode(msg) \in Seq(Byte) /\ Len(EnCode(msg)) = TINY_ECHO_HEAD_LEN + Len(msg)
BY HeadOfMessage, ConcatProperties, LenProperties DEF EnCode
\* The requests of a peer are the encodings of its messages.
LEMMA RequestsOf ==
  ASSUME NEW c \in Conns
  PROVE  /\ Requests[c] \in Seq(Seq(Byte))
         /\ \A i \in 1 .. Len(Requests[c]) : \E msg \in PeerMessages(c) : Requests[c][i] = EnCode(msg)
         /\ PeerMessages(c) \subseteq Seq(Byte)
         /\ \A msg \in PeerMessages(c) : Len(msg) < 256 ^ TINY_ECHO_HEAD_LEN
<1>1. Requests[c] \in Seq(Seq(Byte))
  BY RequestsAssumption
<1> DEFINE Body(i) == SubSeq(Requests[c][i], TINY_ECHO_HEAD_LEN + 1, Len(Requests[c][i]))
<1>2. ASSUME NEW i \in 1 .. Len(Requests[c])
      PROVE  /\ Requests[c][i] = EnCode(Body(i))
             /\ Len(Body(i)) < 256 ^ TINY_ECHO_HEAD_LEN
             /\ Body(i) \in Seq(Byte)
  <2>1. Requests[c][i] = EnCode(Body(i)) /\ Len(Body(i)) < 256 ^ TINY_ECHO_HEAD_LEN
    BY RequestsAssumption
  <2>2. Requests[c][i] \in Seq(Byte) /\ Len(Requests[c][i]) \in Nat
    BY <1>1, ElementOfSeq, LenProperties
  <2>3. TINY_ECHO_HEAD_LEN + 1 \in Nat \ {0}
    BY CodecAssumption
  <2>4. \A j \in TINY_ECHO_HEAD_LEN + 1 .. Len(Requests[c][i]) : Requests[c][i][j] \in Byte
    BY <2>2, <2>3, ElementOfSeq
  <2>5. Body(i) \in Seq(Byte)
    BY <2>2, <2>3, <2>4, SubSeqProperties
  <2>6. QED
    BY <2>1, <2>5
<1>3. PeerMessages(c) = {Body(i) : i \in 1 .. Len(Requests[c])}
  BY DEF PeerMessages
<1> HIDE DEF Body
<1>4. QED
  BY <1>1, <1>2, <1>3

\* What a peer sends is made of its requests, one after the other.
LEMMA WireJoins ==
  ASSUME NEW c \in Conns
  PROVE  \E f \in [0 .. Len(Requests[c]) -> Seq(Byte)] :
           /\ Joins(f, Requests[c])
           /\ Wire[c] = f[Len(Requests[c])]
           /\ Ends[c] = {Len(f[n]) : n \in 0 .. Len(Requests[c])}
<1>1. Requests[c] \in Seq(Seq(Byte)) /\ Len(Requests[c]) \in Nat
  BY RequestsOf, LenProperties
<1>2. PICK f \in [0 .. Len(Requests[c]) -> Seq(Byte)] : Joins(f, Requests[c])
  BY <1>1, JoinExists
<1>3. \A n \in 0 .. Len(Requests[c]) : FlattenSeq(SubSeq(Requests[c], 1, n)) = f[n]
  BY <1>1, <1>2, FlattenIsJoin
<1>4. SubSeq(Requests[c], 1, Len(Requests[c])) = Requests[c]
  BY <1>1, SubSeqFull
<1>5. Wire[c] = f[Len(Requests[c])]
  <2>1. Wire[c] = FlattenSeq(Requests[c])
    BY DEF Wire
  <2>2. Len(Requests[c]) \in 0 .. Len(Requests[c])
    BY <1>1
  <2>3. QED
    BY <1>3, <1>4, <2>1, <2>2
<1>6. Ends[c] = {Len(f[n]) : n \in 0 .. Len(Requests[c])}
  <2>1. Ends[c] = {Len(FlattenSeq(SubSeq(Requests[c], 1, n))) : n \in 0 .. Len(Requests[c])}
    BY DEF Ends
  <2>2. QED
    BY <1>3, <2>1
<1>7. QED
  BY <1>2, <1>5, <1>6

\* Where a request ends and there are more bytes, another request begins.
LEMMA WireSplit ==
  ASSUME NEW c \in Conns
  PROVE  /\ Wire[c] \in Seq(Byte)
         /\ 0 \in Ends[c]
         /\ Ends[c] \subseteq 0 .. Len(Wire[c])
         /\ \A e \in Ends[c] :
              e # Len(Wire[c]) => \E msg \in PeerMessages(c) : IsRequest(c, e, msg)
<1> DEFINE N == Len(Requests[c])
<1>1. /\ Requests[c] \in Seq(Seq(Byte)) /\ N \in Nat
      /\ \A i \in 1 .. N : Requests[c][i] \in Seq(Byte)
  BY RequestsOf, LenProperties, ElementOfSeq
<1>2. PICK f \in [0 .. N -> Seq(Byte)] :
        Joins(f, Requests[c]) /\ Wire[c] = f[N] /\ Ends[c] = {Len(f[n]) : n \in 0 .. N}
  BY WireJoins
<1> HIDE DEF N
<1>3. \A n \in 0 .. N : f[n] \in Seq(Byte) /\ Len(f[n]) \in Nat
  BY <1>2, LenProperties
<1>4. \A n \in 0 .. N : \E t \in Seq(Byte) : Wire[c] = f[n] \o t
  <2>1. \A n \in 0 .. N : N \in n .. N
    BY <1>1
  <2>2. JoinsTyped(f, Byte, Requests[c])
    BY <1>2, <1>3 DEF N, JoinsTyped
  <2>3. \A n \in 0 .. N : \E t \in Seq(Byte) : f[N] = f[n] \o t
    BY <1>1, <2>1, <2>2, JoinPrefix DEF N
  <2>4. QED
    BY <1>2, <2>3
<1>5. \A n \in 0 .. N : Len(f[n]) <= Len(Wire[c]) /\ SubSeq(Wire[c], 1, Len(f[n])) = f[n]
  <2>1. SUFFICES ASSUME NEW n \in 0 .. N
                 PROVE  Len(f[n]) <= Len(Wire[c]) /\ SubSeq(Wire[c], 1, Len(f[n])) = f[n]
    OBVIOUS
  <2>2. PICK t \in Seq(Byte) : Wire[c] = f[n] \o t
    BY <1>4
  <2>3. f[n] \in Seq(Byte) /\ Len(f[n]) \in Nat /\ Len(t) \in Nat
    BY <1>3, <2>2, LenProperties
  <2>4. Len(Wire[c]) = Len(f[n]) + Len(t)
    BY <2>2, <2>3, ConcatProperties
  <2>5. SubSeq(Wire[c], 1, Len(f[n])) = f[n]
    BY <2>2, <2>3, PartsOfConcat
  <2>6. QED
    BY <2>3, <2>4, <2>5
<1>6. Wire[c] \in Seq(Byte) /\ Len(Wire[c]) \in Nat
  BY <1>1, <1>2, LenProperties
<1>7. 0 \in Ends[c]
  <2>1. 0 \in 0 .. N /\ Len(f[0]) = 0
    BY <1>1, <1>2, EmptySeq DEF Joins
  <2>2. QED
    BY <1>2, <2>1
<1>8. Ends[c] \subseteq 0 .. Len(Wire[c])
  BY <1>2, <1>3, <1>5, <1>6
<1>9. ASSUME NEW e \in Ends[c], e # Len(Wire[c])
      PROVE  \E msg \in PeerMessages(c) : IsRequest(c, e, msg)
  <2>1. PICK n \in 0 .. N : e = Len(f[n])
    BY <1>2
  <2>2. n # N /\ n + 1 \in 1 .. N /\ n + 1 \in 0 .. N /\ (n + 1) - 1 = n
    BY <1>1, <1>2, <1>9, <2>1
  <2>3. f[n + 1] = f[n] \o Requests[c][n + 1]
    BY <1>2, <2>2 DEF Joins, N
  <2>4. PICK msg \in PeerMessages(c) : Requests[c][n + 1] = EnCode(msg)
    BY <2>2, RequestsOf DEF N
  <2>5. msg \in Seq(Byte) /\ EnCode(msg) \in Seq(Byte) /\ Len(EnCode(msg)) = Size(msg)
        /\ Size(msg) \in Nat
    BY <2>4, RequestsOf, EnCodeLength, LenProperties DEF Size
  <2>6. Len(f[n + 1]) = e + Size(msg)
    <3>1. \A x, y \in Seq(Byte) : Len(x \o y) = Len(x) + Len(y)
      BY ConcatProperties
    <3>2. f[n] \in Seq(Byte) /\ n \in 0 .. N
      BY <1>3
    <3>3. Len(f[n] \o EnCode(msg)) = Len(f[n]) + Len(EnCode(msg))
      BY <2>5, <3>1, <3>2
    <3>4. QED
      BY <2>1, <2>3, <2>4, <2>5, <3>3
  <2>7. e + Size(msg) \in Ends[c] /\ e + Size(msg) <= Len(Wire[c])
    BY <1>2, <1>5, <2>2, <2>6
  <2>8. SubSeq(Wire[c], 1, e + Size(msg)) = f[n] \o EnCode(msg)
    BY <1>5, <2>2, <2>3, <2>4, <2>6
  <2>9. SubSeq(f[n] \o EnCode(msg), e + 1, e + Size(msg)) = EnCode(msg)
    BY <1>3, <2>1, <2>5, PartsOfConcat
  <2>10. SubSeq(SubSeq(Wire[c], 0 + 1, e + Size(msg)), e + 1, e + Size(msg))
           = SubSeq(Wire[c], (0 + e) + 1, 0 + (e + Size(msg)))
    <3>1. e \in Nat /\ e + Size(msg) \in 0 .. Len(Wire[c]) /\ 0 \in 0 .. e + Size(msg)
          /\ e + Size(msg) \in 0 .. (e + Size(msg)) - 0 /\ e \in 0 .. e + Size(msg)
      BY <1>3, <1>6, <2>1, <2>5, <2>7
    <3>2. QED
      BY <1>6, <3>1, PartOfPart
  <2>11. 0 + 1 = 1 /\ 0 + e = e /\ 0 + (e + Size(msg)) = e + Size(msg)
    BY <1>3, <2>1, <2>5
  <2>12. SubSeq(Wire[c], e + 1, e + Size(msg)) = EnCode(msg)
    BY <2>8, <2>9, <2>10, <2>11
  <2>13. QED
    BY <1>9, <2>4, <2>7, <2>12 DEF IsRequest
<1>10. QED
  BY <1>6, <1>7, <1>8, <1>9

-----------------------------------------------------------------------------
(* The codec.                                                              *)

\* The last of the digits of a number, and the number without it.
LEMMA LastDigit ==
  ASSUME NEW m \in Nat
  PROVE  m \div 256 \in Nat /\ m = 256 * (m \div 256) + (m % 256)
<1>1. m \div 256 \in Nat
  BY SMT
<1>2. m % 256 = m - 256 * (m \div 256)
  BY SMT
<1> DEFINE d == m \div 256
           r == m % 256
<1>3. d \in Nat /\ r = m - 256 * d
  BY <1>1, <1>2
<1> HIDE DEF d, r
<1>4. m = 256 * d + r
  BY <1>3, SMT
<1>5. QED
  BY <1>3, <1>4 DEF d, r

\* The number n without its last k digits has one more digit than without k + 1 of them.
Digit(n, k) ==
  n \div 256 ^ k = 256 * (n \div 256 ^ (k + 1)) + ((n \div 256 ^ k) % 256)

\* So it is for the digits of a head.
LEMMA Digits ==
  ASSUME NEW n \in Nat, NEW k \in 0 .. 3
  PROVE  Digit(n, k)
<1>1. /\ 256 ^ 0 = 1 /\ 256 ^ 1 = 256 /\ 256 ^ 2 = 65536 /\ 256 ^ 3 = 16777216
      /\ 256 ^ 4 = 4294967296
  BY SMT
<1>2. /\ n \div 1 \in Nat /\ n \div 256 \in Nat /\ n \div 65536 \in Nat
      /\ n \div 16777216 \in Nat
  BY SMT
<1>3. /\ (n \div 1) \div 256 = n \div 256 /\ (n \div 256) \div 256 = n \div 65536
      /\ (n \div 65536) \div 256 = n \div 16777216
      /\ (n \div 16777216) \div 256 = n \div 4294967296
  BY SMT
<1>4. 0 + 1 = 1 /\ 1 + 1 = 2 /\ 2 + 1 = 3 /\ 3 + 1 = 4
  BY SMT
<1>5. n \div 256 ^ k \in Nat /\ (n \div 256 ^ k) \div 256 = n \div 256 ^ (k + 1)
  <2>1. CASE k = 0
    BY <1>1, <1>2, <1>3, <1>4, <2>1, SMT
  <2>2. CASE k = 1
    BY <1>1, <1>2, <1>3, <1>4, <2>2, SMT
  <2>3. CASE k = 2
    BY <1>1, <1>2, <1>3, <1>4, <2>3, SMT
  <2>4. CASE k = 3
    BY <1>1, <1>2, <1>3, <1>4, <2>4, SMT
  <2>5. k = 0 \/ k = 1 \/ k = 2 \/ k = 3
    OBVIOUS
  <2>6. QED
    BY <2>1, <2>2, <2>3, <2>4, <2>5
<1> DEFINE m == n \div 256 ^ k
<1>6. m \in Nat /\ m \div 256 = n \div 256 ^ (k + 1)
  BY <1>5
<1> HIDE DEF m
<1>7. m = 256 * (m \div 256) + (m % 256)
  BY <1>6, LastDigit
<1>8. m \in Nat /\ m = 256 * (n \div 256 ^ (k + 1)) + (m % 256)
  BY <1>6, <1>7, Zenon
<1>9. QED
  BY <1>8 DEF m, Digit

\* A number that fits in the head is read as it was written.
LEMMA HeadIsRead ==
  ASSUME NEW n \in Nat, n < 256 ^ TINY_ECHO_HEAD_LEN
  PROVE  ntohl(htonl(n)) = n
<1> DEFINE H == TINY_ECHO_HEAD_LEN
           b == htonl(n)
           value == CHOOSE f : f = [j \in 0 .. Len(b) |->
                                      IF j = 0 THEN 0 ELSE 256 * f[j - 1] + b[j]]
           g == [j \in 0 .. H |-> n \div 256 ^ (H - j)]
<1>1. H \in Nat /\ H \in {1, 2, 3, 4} /\ Len(b) = H
  BY CodecAssumption, HeadOfMessage
<1>2. \A j \in 1 .. H : b[j] = (n \div 256 ^ (H - j)) % 256
  BY DEF htonl
<1>3. ntohl(b) = value[H]
  BY <1>1 DEF ntohl
<1>4. g[0] = 0 /\ g[H] = n
  <2>1. 0 \in 0 .. H /\ H \in 0 .. H /\ H - 0 = H /\ H - H = 0
    BY <1>1
  <2>2. g[0] = n \div 256 ^ H /\ g[H] = n \div 256 ^ 0
    BY <2>1
  <2>3. n \div 256 ^ 0 = n
    <3>1. 256 ^ 0 = 1
      OBVIOUS
    <3>2. n \div 1 = n
      OBVIOUS
    <3>3. QED
      BY <3>1, <3>2, Zenon
  <2>4. n \div 256 ^ H = 0
    <3>1. /\ 256 ^ 1 = 256 /\ 256 ^ 2 = 65536 /\ 256 ^ 3 = 16777216
          /\ 256 ^ 4 = 4294967296
      BY SMT
    <3>2. /\ n < 256 => n \div 256 = 0
          /\ n < 65536 => n \div 65536 = 0
          /\ n < 16777216 => n \div 16777216 = 0
          /\ n < 4294967296 => n \div 4294967296 = 0
      BY SMT
    <3>3. /\ n < 256 ^ 1 => n \div 256 ^ 1 = 0
          /\ n < 256 ^ 2 => n \div 256 ^ 2 = 0
          /\ n < 256 ^ 3 => n \div 256 ^ 3 = 0
          /\ n < 256 ^ 4 => n \div 256 ^ 4 = 0
      BY <3>1, <3>2, SMT
    <3>4. H = 1 \/ H = 2 \/ H = 3 \/ H = 4
      BY <1>1
    <3>5. n < 256 ^ H
      OBVIOUS
    <3> HIDE DEF H
    <3>6. CASE H = 1
      BY <3>3, <3>5, <3>6, SMT
    <3>7. CASE H = 2
      BY <3>3, <3>5, <3>7, SMT
    <3>8. CASE H = 3
      BY <3>3, <3>5, <3>8, SMT
    <3>9. CASE H = 4
      BY <3>3, <3>5, <3>9, SMT
    <3>10. QED
      BY <3>4, <3>6, <3>7, <3>8, <3>9
  <2>5. QED
    BY <2>2, <2>3, <2>4
<1>5. ASSUME NEW j \in 1 .. H PROVE g[j] = 256 * g[j - 1] + b[j]
  <2> DEFINE k == H - j
  <2>1. k \in 0 .. 3 /\ k + 1 = H - (j - 1) /\ j \in 0 .. H /\ j - 1 \in 0 .. H
    BY <1>1
  <2>2. g[j] = n \div 256 ^ k /\ g[j - 1] = n \div 256 ^ (k + 1)
        /\ b[j] = (n \div 256 ^ k) % 256
    BY <1>2, <2>1
  <2> HIDE DEF k, g, b, H
  <2>3. Digit(n, k)
    BY <2>1, Digits
  <2> DEFINE d == n \div 256 ^ k
             u == n \div 256 ^ (k + 1)
  <2>4. d = 256 * u + (d % 256) /\ g[j] = d /\ g[j - 1] = u /\ b[j] = d % 256
    BY <2>2, <2>3, Zenon DEF Digit
  <2> HIDE DEF d, u
  <2>5. QED
    BY <2>4, SMT
<1>6. value = [j \in 0 .. Len(b) |-> IF j = 0 THEN 0 ELSE 256 * value[j - 1] + b[j]]
  <2>1. ASSUME NEW j \in 0 .. H PROVE g[j] = IF j = 0 THEN 0 ELSE 256 * g[j - 1] + b[j]
    <3>1. j = 0 \/ j \in 1 .. H
      BY <1>1
    <3> HIDE DEF g, b, H
    <3>2. QED
      BY <1>4, <1>5, <3>1
  <2>2. g = [j \in 0 .. H |-> g[j]]
    OBVIOUS
  <2>3. g = [j \in 0 .. Len(b) |-> IF j = 0 THEN 0 ELSE 256 * g[j - 1] + b[j]]
    <3> HIDE DEF g, b, H
    <3>1. QED
      BY <1>1, <2>1, <2>2
  <2> HIDE DEF g, b, H
  <2>4. \E f : f = [j \in 0 .. Len(b) |-> IF j = 0 THEN 0 ELSE 256 * f[j - 1] + b[j]]
    BY <2>3
  <2>5. QED
    BY <2>4
<1> HIDE DEF value, g, b, H
<1>7. value[0] = 0 /\ \A j \in 1 .. H : value[j] = 256 * value[j - 1] + b[j]
  <2>1. 0 \in 0 .. H /\ \A j \in 1 .. H : j \in 0 .. H /\ j # 0
    BY <1>1
  <2>2. QED
    BY <1>1, <1>6, <2>1
<1>8. value[0] = g[0]
  BY <1>4, <1>7
<1>9. ASSUME NEW j \in 1 .. H, value[j - 1] = g[j - 1] PROVE value[j] = g[j]
  BY <1>5, <1>7, <1>9, SMT
<1>10. value[1] = g[1]
  <2>1. 1 \in 1 .. H /\ 1 - 1 = 0
    BY <1>1
  <2>2. QED
    BY <1>8, <1>9, <2>1
<1>11. H >= 2 => value[2] = g[2]
  <2>1. H >= 2 => 2 \in 1 .. H /\ 2 - 1 = 1
    BY <1>1
  <2>2. QED
    BY <1>9, <1>10, <2>1
<1>12. H >= 3 => value[3] = g[3]
  <2>1. H >= 3 => H >= 2 /\ 3 \in 1 .. H /\ 3 - 1 = 2
    BY <1>1
  <2>2. QED
    BY <1>9, <1>11, <2>1
<1>13. H >= 4 => value[4] = g[4]
  <2>1. H >= 4 => H >= 3 /\ 4 \in 1 .. H /\ 4 - 1 = 3
    BY <1>1
  <2>2. QED
    BY <1>9, <1>12, <2>1
<1>14. value[H] = g[H]
  BY <1>1, <1>10, <1>11, <1>12, <1>13
<1>15. QED
  BY <1>3, <1>4, <1>14 DEF b

\* The codec of a request of which n bytes are read, by its state.
LEMMA CodecCases ==
  ASSUME NEW msg \in Seq(Byte), NEW n \in 0 .. Size(msg)
  PROVE  /\ n < TINY_ECHO_HEAD_LEN =>
              CodecAt(msg, n) =
                [decode_status_ |-> "HEAD", body_len_ |-> 0, msg_ |-> <<>>,
                 data |-> SubSeq(EnCode(msg), 1, n), parse_len_ |-> 0,
                 len_ |-> TINY_ECHO_HEAD_LEN]
         /\ n >= TINY_ECHO_HEAD_LEN /\ n < Size(msg) =>
              CodecAt(msg, n) =
                [decode_status_ |-> "BODY", body_len_ |-> Len(msg), msg_ |-> <<>>,
                 data |-> SubSeq(EnCode(msg), 1, n), parse_len_ |-> TINY_ECHO_HEAD_LEN,
                 len_ |-> Size(msg)]
         /\ n = Size(msg) =>
              CodecAt(msg, n) =
                [decode_status_ |-> "FINISH", body_len_ |-> Len(msg), msg_ |-> msg,
                 data |-> SubSeq(EnCode(msg), 1, n), parse_len_ |-> Size(msg),
                 len_ |-> Size(msg)]
<1>1. TINY_ECHO_HEAD_LEN \in Nat /\ Len(msg) \in Nat /\ Size(msg) \in Nat
      /\ TINY_ECHO_HEAD_LEN <= Size(msg) /\ n \in Nat
  BY CodecAssumption, LenProperties DEF Size
<1>2. ASSUME n < TINY_ECHO_HEAD_LEN
      PROVE  CodecAt(msg, n) =
                [decode_status_ |-> "HEAD", body_len_ |-> 0, msg_ |-> <<>>,
                 data |-> SubSeq(EnCode(msg), 1, n), parse_len_ |-> 0,
                 len_ |-> TINY_ECHO_HEAD_LEN]
  <2>1. n < Size(msg)
    BY <1>1, <1>2
  <2>2. QED
    BY <1>2, <2>1 DEF CodecAt
<1>3. ASSUME n >= TINY_ECHO_HEAD_LEN, n < Size(msg)
      PROVE  CodecAt(msg, n) =
                [decode_status_ |-> "BODY", body_len_ |-> Len(msg), msg_ |-> <<>>,
                 data |-> SubSeq(EnCode(msg), 1, n), parse_len_ |-> TINY_ECHO_HEAD_LEN,
                 len_ |-> Size(msg)]
  <2>1. ~ (n < TINY_ECHO_HEAD_LEN)
    BY <1>1, <1>3
  <2>2. QED
    BY <1>3, <2>1 DEF CodecAt
<1>4. ASSUME n = Size(msg)
      PROVE  CodecAt(msg, n) =
                [decode_status_ |-> "FINISH", body_len_ |-> Len(msg), msg_ |-> msg,
                 data |-> SubSeq(EnCode(msg), 1, n), parse_len_ |-> Size(msg),
                 len_ |-> Size(msg)]
  <2>1. ~ (n < TINY_ECHO_HEAD_LEN) /\ ~ (n < Size(msg))
    BY <1>1, <1>4
  <2>2. QED
    BY <2>1 DEF CodecAt
<1>5. QED
  BY <1>2, <1>3, <1>4

\* What a codec can read, and whether it has a message, by how much it has read.
LEMMA CodecFacts ==
  ASSUME NEW msg \in Seq(Byte), NEW n \in 0 .. Size(msg)
  PROVE  /\ ~ Spins(CodecAt(msg, n))
         /\ HasMessage(CodecAt(msg, n)) <=> n = Size(msg)
         /\ CanWriteLen(CodecAt(msg, n)) =
              (IF n < TINY_ECHO_HEAD_LEN THEN TINY_ECHO_HEAD_LEN ELSE Size(msg)) - n
         /\ CodecAt(msg, n).msg_ = IF n = Size(msg) THEN msg ELSE <<>>
         /\ CodecAt(msg, n) \in CodecType
<1>1. TINY_ECHO_HEAD_LEN \in Nat /\ Len(msg) \in Nat /\ Size(msg) \in Nat
      /\ TINY_ECHO_HEAD_LEN <= Size(msg) /\ n \in Nat
  BY CodecAssumption, LenProperties DEF Size
<1>2. SubSeq(EnCode(msg), 1, n) \in Seq(Byte) /\ Len(SubSeq(EnCode(msg), 1, n)) = n
  <2>1. EnCode(msg) \in Seq(Byte) /\ Len(EnCode(msg)) = Size(msg)
    BY EnCodeLength DEF Size
  <2>2. n \in 0 .. Len(EnCode(msg)) /\ 0 \in 0 .. n /\ n - 0 = n /\ 0 + 1 = 1
    BY <1>1, <2>1
  <2>3. SubSeq(EnCode(msg), 0 + 1, n) \in Seq(Byte) /\ Len(SubSeq(EnCode(msg), 0 + 1, n)) = n - 0
    BY <2>1, <2>2, Part
  <2>4. QED
    BY <2>2, <2>3
<1> DEFINE d == SubSeq(EnCode(msg), 1, n)
<1>3. d \in Seq(Byte) /\ Len(d) = n
  BY <1>2
<1>4. <<>> \in Seq(Byte)
  BY EmptySeq
<1>5. CASE n < TINY_ECHO_HEAD_LEN
  <2>1. CodecAt(msg, n) =
          [decode_status_ |-> "HEAD", body_len_ |-> 0, msg_ |-> <<>>, data |-> d,
           parse_len_ |-> 0, len_ |-> TINY_ECHO_HEAD_LEN]
    BY <1>5, CodecCases
  <2> HIDE DEF d
  <2>2. n # Size(msg)
    BY <1>1, <1>5
  <2>3. QED
    BY <1>1, <1>3, <1>4, <1>5, <2>1, <2>2 DEF Spins, HasMessage, CanWriteLen, CodecType
<1>6. CASE n >= TINY_ECHO_HEAD_LEN /\ n < Size(msg)
  <2>1. CodecAt(msg, n) =
          [decode_status_ |-> "BODY", body_len_ |-> Len(msg), msg_ |-> <<>>, data |-> d,
           parse_len_ |-> TINY_ECHO_HEAD_LEN, len_ |-> Size(msg)]
    BY <1>6, CodecCases
  <2> HIDE DEF d
  <2>2. n # Size(msg) /\ ~ (n < TINY_ECHO_HEAD_LEN)
    BY <1>1, <1>6
  <2>3. QED
    BY <1>1, <1>3, <1>4, <2>1, <2>2 DEF Spins, HasMessage, CanWriteLen, CodecType
<1>7. CASE n = Size(msg)
  <2>1. CodecAt(msg, n) =
          [decode_status_ |-> "FINISH", body_len_ |-> Len(msg), msg_ |-> msg, data |-> d,
           parse_len_ |-> Size(msg), len_ |-> Size(msg)]
    BY <1>7, CodecCases
  <2> HIDE DEF d
  <2>2. ~ (n < TINY_ECHO_HEAD_LEN) /\ ~ (n - Size(msg) > 0)
    BY <1>1, <1>7
  <2>3. ~ Spins(CodecAt(msg, n))
    BY <1>3, <2>1, <2>2 DEF Spins, NeedParseLen
  <2>4. QED
    BY <1>1, <1>3, <1>7, <2>1, <2>2, <2>3 DEF HasMessage, CanWriteLen, CodecType
<1>8. QED
  BY <1>1, <1>5, <1>6, <1>7

\* The parts of a request: what is read of it in two reads, its head and its body.
LEMMA PartsOfRequest ==
  ASSUME NEW msg \in Seq(Byte), Len(msg) < 256 ^ TINY_ECHO_HEAD_LEN
  PROVE  /\ \A n \in 0 .. Size(msg) : \A i \in 0 .. n :
              SubSeq(EnCode(msg), 1, i) \o SubSeq(EnCode(msg), i + 1, n) = SubSeq(EnCode(msg), 1, n)
         /\ \A n \in 0 .. Size(msg) : \A b \in 0 .. n : \A a \in 0 .. b :
              SubSeq(SubSeq(EnCode(msg), 1, n), a + 1, b) = SubSeq(EnCode(msg), a + 1, b)
         /\ \A n \in 0 .. Size(msg) : \A i \in 0 .. n :
              /\ SubSeq(EnCode(msg), i + 1, n) \in Seq(Byte)
              /\ Len(SubSeq(EnCode(msg), i + 1, n)) = n - i
         /\ ntohl(SubSeq(EnCode(msg), 1, TINY_ECHO_HEAD_LEN)) = Len(msg)
         /\ SubSeq(EnCode(msg), TINY_ECHO_HEAD_LEN + 1, Size(msg)) = msg
<1> DEFINE E == EnCode(msg)
<1>1. E \in Seq(Byte) /\ Len(E) = Size(msg) /\ Len(msg) \in Nat /\ TINY_ECHO_HEAD_LEN \in Nat
      /\ E = htonl(Len(msg)) \o msg /\ Size(msg) = TINY_ECHO_HEAD_LEN + Len(msg)
      /\ Size(msg) \in Nat
  BY EnCodeLength, LenProperties, CodecAssumption DEF Size, EnCode
<1>2. htonl(Len(msg)) \in Seq(Byte) /\ Len(htonl(Len(msg))) = TINY_ECHO_HEAD_LEN
      /\ ntohl(htonl(Len(msg))) = Len(msg)
  BY <1>1, HeadOfMessage, HeadIsRead
<1> HIDE DEF E
<1>3. ASSUME NEW n \in 0 .. Size(msg), NEW i \in 0 .. n
      PROVE  SubSeq(E, 1, i) \o SubSeq(E, i + 1, n) = SubSeq(E, 1, n)
  <2>1. n \in 0 .. Len(E) /\ 0 \in 0 .. i /\ 0 + 1 = 1
    BY <1>1
  <2>2. SubSeq(E, 0 + 1, i) \o SubSeq(E, i + 1, n) = SubSeq(E, 0 + 1, n)
    BY <1>1, <2>1, AdjacentParts
  <2>3. QED
    BY <2>1, <2>2
<1>4. ASSUME NEW n \in 0 .. Size(msg), NEW b \in 0 .. n, NEW a \in 0 .. b
      PROVE  SubSeq(SubSeq(E, 1, n), a + 1, b) = SubSeq(E, a + 1, b)
  <2>1. n \in 0 .. Len(E) /\ 0 \in 0 .. n /\ b \in 0 .. n - 0
        /\ 0 + 1 = 1 /\ 0 + a = a /\ 0 + b = b
    BY <1>1
  <2>2. SubSeq(SubSeq(E, 0 + 1, n), a + 1, b) = SubSeq(E, (0 + a) + 1, 0 + b)
    BY <1>1, <2>1, PartOfPart
  <2>3. QED
    BY <2>1, <2>2
<1>5. ASSUME NEW n \in 0 .. Size(msg), NEW i \in 0 .. n
      PROVE  SubSeq(E, i + 1, n) \in Seq(Byte) /\ Len(SubSeq(E, i + 1, n)) = n - i
  BY <1>1, Part
<1>6. SubSeq(E, 1, TINY_ECHO_HEAD_LEN) = htonl(Len(msg))
  BY <1>1, <1>2, PartsOfConcat
<1>7. SubSeq(E, TINY_ECHO_HEAD_LEN + 1, Size(msg)) = msg
  BY <1>1, <1>2, PartsOfConcat
<1>8. ntohl(SubSeq(E, 1, TINY_ECHO_HEAD_LEN)) = Len(msg)
  BY <1>2, <1>6
<1>9. QED
  BY <1>3, <1>4, <1>5, <1>7, <1>8 DEF E

\* A codec that has read n bytes of a request reads the next ones.
LEMMA DeCodeReads ==
  ASSUME NEW msg \in Seq(Byte), Len(msg) < 256 ^ TINY_ECHO_HEAD_LEN,
         NEW n \in 0 .. Size(msg) - 1, NEW i \in 1 .. CanWriteLen(CodecAt(msg, n))
  PROVE  /\ n + i \in 1 .. Size(msg)
         /\ DeCode(CodecAt(msg, n), SubSeq(EnCode(msg), n + 1, n + i)) = CodecAt(msg, n + i)
<1> DEFINE H == TINY_ECHO_HEAD_LEN
           S == Size(msg)
           L == Len(msg)
           D(j) == SubSeq(EnCode(msg), 1, j)
           b == SubSeq(EnCode(msg), n + 1, n + i)
           k == CodecAt(msg, n)
           read == [k EXCEPT !.data = @ \o b]
<1>1. H \in Nat \ {0} /\ L \in Nat /\ S = H + L /\ n \in Nat /\ n < S /\ n \in 0 .. S
  BY CodecAssumption, LenProperties DEF Size
<1>2. i \in Nat \ {0} /\ i <= (IF n < H THEN H ELSE S) - n
  <2>1. CanWriteLen(k) = (IF n < H THEN H ELSE S) - n
    BY <1>1, CodecFacts
  <2>2. QED
    BY <1>1, <2>1
<1>3. n + i \in 1 .. S /\ n + i \in 0 .. S /\ n \in 0 .. n + i
  BY <1>1, <1>2
<1>4. D(n) \o b = D(n + i) /\ Len(D(n + i)) = n + i
  <2>1. D(n) \o b = D(n + i)
    BY <1>3, PartsOfRequest
  <2>2. 0 \in 0 .. n + i /\ (n + i) - 0 = n + i /\ 0 + 1 = 1
    BY <1>1, <1>2
  <2>3. Len(SubSeq(EnCode(msg), 0 + 1, n + i)) = (n + i) - 0
    BY <1>3, <2>2, PartsOfRequest
  <2>4. QED
    BY <2>1, <2>2, <2>3
<1>5. ntohl(SubSeq(D(n + i), 1, H)) = L \/ n + i < H
  <2>1. SUFFICES ASSUME ~ (n + i < H) PROVE ntohl(SubSeq(D(n + i), 1, H)) = L
    OBVIOUS
  <2>2. H \in 0 .. n + i /\ 0 \in 0 .. H /\ 0 + 1 = 1
    BY <1>1, <1>2, <2>1
  <2>3. SubSeq(D(n + i), 0 + 1, H) = SubSeq(EnCode(msg), 0 + 1, H)
    BY <1>3, <2>2, PartsOfRequest
  <2>4. QED
    BY <2>2, <2>3, PartsOfRequest
<1>6. n + i = S => SubSeq(D(n + i), H + 1, S) = msg
  <2>1. SUFFICES ASSUME n + i = S PROVE SubSeq(D(n + i), H + 1, S) = msg
    OBVIOUS
  <2>2. S \in 0 .. n + i /\ H \in 0 .. S
    BY <1>1, <1>2, <2>1
  <2>3. SubSeq(D(n + i), H + 1, S) = SubSeq(EnCode(msg), H + 1, S)
    BY <1>3, <2>2, PartsOfRequest
  <2>4. QED
    BY <2>3, PartsOfRequest
<1> DEFINE d == D(n + i)
           Head0 == [decode_status_ |-> "HEAD", body_len_ |-> 0, msg_ |-> <<>>,
                     data |-> d, parse_len_ |-> 0, len_ |-> H]
           Body0 == [decode_status_ |-> "BODY", body_len_ |-> L, msg_ |-> <<>>,
                     data |-> d, parse_len_ |-> H, len_ |-> S]
           Finish0 == [decode_status_ |-> "FINISH", body_len_ |-> L, msg_ |-> msg,
                       data |-> d, parse_len_ |-> S, len_ |-> S]
<1>7. /\ n + i < H => CodecAt(msg, n + i) = Head0
      /\ n + i >= H /\ n + i < S => CodecAt(msg, n + i) = Body0
      /\ n + i = S => CodecAt(msg, n + i) = Finish0
  BY <1>3, CodecCases
<1>8. n < H => read = Head0
  <2>1. SUFFICES ASSUME n < H PROVE read = Head0
    OBVIOUS
  <2>2. k = [decode_status_ |-> "HEAD", body_len_ |-> 0, msg_ |-> <<>>,
             data |-> D(n), parse_len_ |-> 0, len_ |-> H]
    BY <1>1, <2>1, CodecCases
  <2> DEFINE x == D(n)
  <2>3. k.data = x /\ x \o b = d
    BY <1>4, <2>2
  <2> HIDE DEF k, b, D, x, d, H, S, L
  <2>4. read = [k EXCEPT !.data = d]
    BY <2>3
  <2> HIDE DEF read
  <2>5. QED
    BY <2>2, <2>4
<1>9. n >= H => read = Body0
  <2>1. SUFFICES ASSUME n >= H PROVE read = Body0
    OBVIOUS
  <2>2. k = [decode_status_ |-> "BODY", body_len_ |-> L, msg_ |-> <<>>,
             data |-> D(n), parse_len_ |-> H, len_ |-> S]
    BY <1>1, <2>1, CodecCases
  <2> DEFINE x == D(n)
  <2>3. k.data = x /\ x \o b = d
    BY <1>4, <2>2
  <2> HIDE DEF k, b, D, x, d, H, S, L
  <2>4. read = [k EXCEPT !.data = d]
    BY <2>3
  <2> HIDE DEF read
  <2>5. QED
    BY <2>2, <2>4
<1> DEFINE head == IF read.decode_status_ = "HEAD" /\ NeedParseLen(read) >= H
                     THEN DecodeHead(read) ELSE read
<1>10. DeCode(k, b) = IF head.decode_status_ = "BODY" /\ NeedParseLen(head) >= head.body_len_
                        THEN DecodeBody(head) ELSE head
  BY DEF DeCode
<1>12. Len(d) = n + i /\ (n + i = S => SubSeq(d, H + 1, S) = msg)
       /\ (n + i < H \/ ntohl(SubSeq(d, 1, H)) = L)
  BY <1>4, <1>5, <1>6
<1> HIDE DEF d, b, k, read, L, S, H
<1>13. n + i < H => head = Head0
  <2>1. SUFFICES ASSUME n + i < H PROVE head = Head0
    OBVIOUS
  <2>2. n < H /\ ~ ((n + i) - 0 >= H)
    BY <1>1, <1>2, <2>1
  <2>3. read = Head0
    BY <1>8, <2>2
  <2>4. NeedParseLen(read) = (n + i) - 0
    BY <1>12, <2>3 DEF NeedParseLen
  <2>5. QED
    BY <2>2, <2>3, <2>4
<1>14. n + i >= H => head = Body0
  <2>1. SUFFICES ASSUME n + i >= H PROVE head = Body0
    OBVIOUS
  <2>2. ~ (n + i < H)
    BY <1>1, <1>2, <2>1
  <2>3. CASE n < H
    <3>1. n + i = H /\ (n + i) - 0 >= H
      BY <1>1, <1>2, <2>1, <2>3
    <3>2. read = Head0
      BY <1>8, <2>3
    <3>3. NeedParseLen(read) = (n + i) - 0
      BY <1>12, <3>2 DEF NeedParseLen
    <3>4. head = DecodeHead(Head0)
      BY <3>1, <3>2, <3>3
    <3>5. Data4Parse(Head0, H) = SubSeq(d, 1, H)
      BY <1>1 DEF Data4Parse
    <3>6. DecodeHead(Head0) = [Head0 EXCEPT !.decode_status_ = "BODY", !.body_len_ = L,
                                 !.parse_len_ = @ + H, !.len_ = IF H + L < @ THEN @ ELSE H + L]
      BY <1>12, <2>2, <3>5 DEF DecodeHead, H
    <3>7. 0 + H = H /\ (IF H + L < H THEN H ELSE H + L) = S
      BY <1>1
    <3>8. QED
      BY <3>4, <3>6, <3>7
  <2>4. CASE ~ (n < H)
    <3>1. read = Body0
      BY <1>1, <1>9, <2>4
    <3>2. QED
      BY <3>1
  <2>5. QED
    BY <2>3, <2>4
<1>15. CASE n + i < H
  <2>1. DeCode(k, b) = Head0
    BY <1>10, <1>13, <1>15
  <2>2. QED
    BY <1>3, <1>7, <1>15, <2>1 DEF k, b, S
<1>16. CASE n + i >= H /\ n + i < S
  <2>1. head = Body0 /\ ~ ((n + i) - H >= L)
    BY <1>1, <1>2, <1>14, <1>16
  <2> HIDE DEF head
  <2>2. NeedParseLen(head) = (n + i) - H /\ head.body_len_ = L
    BY <1>12, <2>1 DEF NeedParseLen
  <2>3. DeCode(k, b) = Body0
    BY <1>10, <2>1, <2>2
  <2>4. QED
    BY <1>3, <1>7, <1>16, <2>3 DEF k, b, S
<1>17. CASE n + i = S
  <2>1. head = Body0 /\ (n + i) - H >= L /\ H + L = S
    BY <1>1, <1>2, <1>14, <1>17
  <2> HIDE DEF head
  <2>2. NeedParseLen(head) = (n + i) - H /\ head.body_len_ = L /\ head.decode_status_ = "BODY"
    BY <1>12, <2>1 DEF NeedParseLen
  <2>3. DeCode(k, b) = DecodeBody(Body0)
    BY <1>10, <2>1, <2>2
  <2>4. Data4Parse(Body0, L) = msg
    BY <1>12, <1>17, <2>1 DEF Data4Parse
  <2>5. DecodeBody(Body0) = Finish0
    <3>1. DecodeBody(Body0) = [Body0 EXCEPT !.decode_status_ = "FINISH", !.msg_ = msg,
                                 !.parse_len_ = @ + L]
      BY <2>4 DEF DecodeBody
    <3>2. QED
      BY <2>1, <3>1
  <2>6. QED
    BY <1>3, <1>7, <1>17, <2>3, <2>5 DEF k, b, S
<1>18. QED
  BY <1>1, <1>3, <1>15, <1>16, <1>17

-----------------------------------------------------------------------------
(* Where connections are.                                                  *)

\* The first entries of a queue, and the others.
LEMMA SplitEntries ==
  ASSUME NEW S, NEW s \in Seq(S), IsInjective(s), NEW n \in 0 .. Len(s)
  PROVE  /\ SubSeq(s, n + 1, Len(s)) \in Seq(S)
         /\ IsInjective(SubSeq(s, n + 1, Len(s)))
         /\ ToSet(SubSeq(s, 1, n)) \subseteq ToSet(s)
         /\ ToSet(SubSeq(s, n + 1, Len(s))) = ToSet(s) \ ToSet(SubSeq(s, 1, n))
<1> DEFINE f == SubSeq(s, 1, n)
           b == SubSeq(s, n + 1, Len(s))
<1>1. Len(s) \in Nat /\ DOMAIN s = 1 .. Len(s)
  BY LenProperties
<1>2. b \in Seq(S) /\ Len(b) = Len(s) - n /\ \A i \in 1 .. Len(s) - n : b[i] = s[n + i]
  <2>1. Len(s) \in 0 .. Len(s) /\ n \in 0 .. Len(s)
    BY <1>1
  <2>2. QED
    BY <2>1, Part
<1>3. f \in Seq(S) /\ Len(f) = n /\ \A i \in 1 .. n : f[i] = s[i]
  <2>1. 0 \in 0 .. n /\ 0 + 1 = 1 /\ n - 0 = n /\ \A i \in 1 .. n : 0 + i = i
    BY <1>1
  <2>2. SubSeq(s, 0 + 1, n) \in Seq(S) /\ Len(SubSeq(s, 0 + 1, n)) = n - 0
        /\ \A i \in 1 .. n - 0 : SubSeq(s, 0 + 1, n)[i] = s[0 + i]
    BY <2>1, Part
  <2>3. QED
    BY <2>1, <2>2
<1>4. DOMAIN b = 1 .. Len(s) - n /\ DOMAIN f = 1 .. n
  BY <1>2, <1>3, LenProperties
<1> HIDE DEF f, b
<1>5. /\ \A i \in DOMAIN b : n + i \in DOMAIN s /\ b[i] = s[n + i]
      /\ \A i \in DOMAIN f : i \in DOMAIN s /\ f[i] = s[i]
      /\ \A j \in DOMAIN s : j \in DOMAIN f \/ (j - n \in DOMAIN b /\ n + (j - n) = j)
      /\ \A i \in DOMAIN f, j \in DOMAIN b : i # n + j
      /\ \A i, j \in DOMAIN b : n + i = n + j => i = j
  BY <1>1, <1>2, <1>3, <1>4
<1>6. IsInjective(b)
  BY <1>5 DEF IsInjective
<1>7. ToSet(f) \subseteq ToSet(s)
  BY <1>5 DEF ToSet
<1>8. ToSet(b) \subseteq ToSet(s) \ ToSet(f)
  <2>1. SUFFICES ASSUME NEW j \in DOMAIN b PROVE b[j] \in ToSet(s) /\ b[j] \notin ToSet(f)
    BY DEF ToSet
  <2>2. b[j] \in ToSet(s)
    BY <1>5 DEF ToSet
  <2>3. ASSUME NEW i \in DOMAIN f PROVE f[i] # b[j]
    BY <1>5 DEF IsInjective
  <2>4. QED
    BY <2>2, <2>3 DEF ToSet
<1>9. ToSet(s) \ ToSet(f) \subseteq ToSet(b)
  <2>1. SUFFICES ASSUME NEW j \in DOMAIN s, s[j] \notin ToSet(f) PROVE s[j] \in ToSet(b)
    BY DEF ToSet
  <2>2. j \notin DOMAIN f
    BY <1>5, <2>1 DEF ToSet
  <2>3. j - n \in DOMAIN b /\ b[j - n] = s[j]
    BY <1>5, <2>2
  <2>4. QED
    BY <2>3 DEF ToSet
<1>10. QED
  BY <1>2, <1>6, <1>7, <1>8, <1>9 DEF f, b

\* The variables that PlaceInv reads.
place_vars == <<server, at, worker, armed, backlog, serves, phase, events, q, waiting, notify_count,
                Leader, ended>>

\* What all servers have in common.
LEMMA ServerFacts ==
  ASSUME server \in Servers
  PROVE  /\ server.workers \in Nat \ {0} /\ server.accepts \in Nat \ {0} /\ server.count \in Nat
         /\ InCoroutine => server.loop = "events" /\ ~ InWorker
         /\ server.handler \in {"worker", "thread", "process", "coroutine"}
         /\ server.handler \in {"thread", "process"} => server.loop = "accept"
         /\ server.queue # "none" => InCoroutine /\ Workers = {1} /\ ~ server.processes
         /\ \A w \in Workers : Listener(w) \in Workers /\ w # 0
<1>1. server.workers \in Nat \ {0}
  BY ServersAssumption
<1>2. server.workers = 1 => Workers = {1}
  BY DEF Workers
<1>3. \A w \in Workers : Listener(w) \in Workers /\ w # 0
  BY <1>1 DEF Workers, Listener
<1>4. QED
  BY <1>1, <1>2, <1>3, ServersAssumption DEF InCoroutine, InWorker

\* Connections are finitely many.
LEMMA ConnSets ==
  ASSUME NEW S \in SUBSET Conns
  PROVE  IsFiniteSet(S) /\ Cardinality(S) \in Nat
BY HandlersAssumption, FS_Subset, FS_CardinalityType

\* One more.
LEMMA OneMore ==
  ASSUME NEW S \in SUBSET Conns, NEW c \in Conns
  PROVE  Cardinality(S \cup {c}) \in Nat /\ Cardinality(S \cup {c}) <= Cardinality(S) + 1
<1>1. IsFiniteSet(S) /\ Cardinality(S) \in Nat
  BY ConnSets
<1>2. Cardinality(S \cup {c}) = IF c \in S THEN Cardinality(S) ELSE Cardinality(S) + 1
  BY <1>1, FS_AddElement
<1>3. QED
  BY <1>1, <1>2

\* Nothing of it changes.
LEMMA PlaceStays ==
  ASSUME PlaceInv, UNCHANGED place_vars
  PROVE  PlaceInv'
<1>1. PlaceTypeOK'
  BY DEF PlaceInv, PlaceTypeOK, place_vars, Workers
<1>2. BacklogOK' /\ QueueOK' /\ ServesOK' /\ EventsOK' /\ ArmedOK'
  BY DEF PlaceInv, BacklogOK, QueueOK, ServesOK, EventsOK, ArmedOK, place_vars, Workers,
         InWorker, InCoroutine
<1>3. PoolLimit'
  BY DEF PlaceInv, PoolLimit, Served, place_vars, Workers, InCoroutine
<1>4. QED
  BY <1>1, <1>2, <1>3 DEF PlaceInv

\* The limit of the pool is kept when no handler starts.
LEMMA LimitStays ==
  ASSUME PlaceInv, UNCHANGED <<server, waiting>>,
         \A c \in Conns : at'[c] \in InHandler => at[c] \in InHandler /\ worker'[c] = worker[c]
  PROVE  PoolLimit'
<1>1. ASSUME NEW w \in Workers, InCoroutine
      PROVE  waiting + Cardinality(Served(w)') <= server.count
  <2>1. Served(w)' \subseteq Served(w) /\ Served(w) \subseteq Conns
    BY DEF Served
  <2>2. /\ Cardinality(Served(w)') <= Cardinality(Served(w))
        /\ Cardinality(Served(w)') \in Nat /\ Cardinality(Served(w)) \in Nat
    BY <2>1, ConnSets, FS_Subset
  <2>3. waiting + Cardinality(Served(w)) <= server.count
    BY <1>1 DEF PlaceInv, PoolLimit
  <2>4. waiting \in Nat /\ server.count \in Nat
    BY ServerFacts DEF PlaceInv, PlaceTypeOK
  <2>5. QED
    BY <2>2, <2>3, <2>4
<1>2. QED
  BY <1>1 DEF PlaceInv, PoolLimit, InCoroutine, Workers

\* A handler reads or writes.
LEMMA TurnKeepsPlace ==
  ASSUME PlaceInv, NEW c \in Conns, at[c] \in InHandler, NEW what \in InHandler,
         at' = [at EXCEPT ![c] = what], ModEvent(c, what),
         UNCHANGED <<server, worker, serves, accept_vars, queue_vars, ended>>
  PROVE  PlaceInv'
<1>1. PlaceTypeOK /\ BacklogOK /\ QueueOK /\ ServesOK /\ EventsOK /\ ArmedOK
  BY DEF PlaceInv
<1>2. at' \in [Conns -> {"closed", "backlog", "accepted", "queued", "read", "write"}]
      /\ armed' \in [Conns -> {"none", "read", "once", "write"}]
  BY <1>1 DEF PlaceTypeOK, ModEvent, InHandler
<1>3. PlaceTypeOK'
  BY <1>1, <1>2 DEF PlaceTypeOK, accept_vars, queue_vars, Workers
<1>4. /\ \A d \in Conns : d # c => at'[d] = at[d] /\ armed'[d] = armed[d]
      /\ at'[c] = what /\ what # "backlog" /\ what # "queued" /\ at[c] # "backlog" /\ at[c] # "queued"
      /\ armed'[c] = IF InCoroutine THEN what ELSE armed[c]
      /\ what # "closed" /\ at[c] # "closed" /\ what # "accepted" /\ at[c] # "accepted"
      /\ what # "once"
  BY <1>1 DEF PlaceTypeOK, ModEvent, InHandler
<1>5. BacklogOK' /\ QueueOK'
  BY <1>1, <1>4 DEF BacklogOK, QueueOK, accept_vars, queue_vars, Workers
<1>6. ServesOK'
  BY <1>1, <1>4 DEF ServesOK, accept_vars, Workers, InWorker
<1>7. EventsOK'
  BY <1>1, <1>4 DEF EventsOK, accept_vars, Workers
<1>8. ArmedOK'
  BY <1>1, <1>4 DEF ArmedOK, accept_vars, InCoroutine
<1>9. PoolLimit'
  BY <1>4, LimitStays DEF queue_vars
<1>10. QED
  BY <1>3, <1>5, <1>6, <1>7, <1>8, <1>9 DEF PlaceInv

\* A coroutine yields.
LEMMA YieldsKeepsPlace ==
  ASSUME PlaceInv, NEW c \in Conns, InCoroutine, serves' = [serves EXCEPT ![worker[c]] = None],
         UNCHANGED <<server, at, worker, armed, accept_vars, queue_vars, ended>>
  PROVE  PlaceInv'
<1>1. PlaceTypeOK /\ BacklogOK /\ QueueOK /\ ServesOK /\ EventsOK /\ ArmedOK /\ None \notin Conns
  BY HandlersAssumption DEF PlaceInv
<1>2. PlaceTypeOK'
  BY <1>1 DEF PlaceTypeOK, accept_vars, queue_vars, Workers
<1>3. BacklogOK' /\ QueueOK' /\ EventsOK' /\ ArmedOK'
  BY <1>1 DEF BacklogOK, QueueOK, EventsOK, ArmedOK, accept_vars, queue_vars, Workers, InCoroutine
<1>4. \A w \in Workers, d \in Conns : serves'[w] = d => serves[w] = d
  BY <1>1 DEF PlaceTypeOK
<1>5. ServesOK'
  BY <1>1, <1>4 DEF ServesOK, accept_vars, Workers, InWorker, InCoroutine
<1>6. PoolLimit'
  BY LimitStays DEF queue_vars
<1>7. QED
  BY <1>2, <1>3, <1>5, <1>6 DEF PlaceInv

\* Connections are closed.
LEMMA CloseKeepsPlace ==
  ASSUME PlaceInv, NEW C \in SUBSET Conns, Close(C), UNCHANGED <<server, phase, queue_vars>>,
         \A c \in C : at[c] # "queued",
         Leader' \in {0} \cup Workers, ended' \subseteq Workers,
         backlog' \in [Workers -> Seq(Conns)], events' \in [Workers -> SUBSET (Conns \cup {None})],
         \A l \in Workers : IsInjective(backlog'[l]) /\ ToSet(backlog'[l]) = ToSet(backlog[l]) \ C,
         \A w \in Workers : events'[w] \subseteq events[w]
                            /\ events'[w] \cap Conns = (events[w] \cap Conns) \ C
  PROVE  PlaceInv'
<1>1. PlaceTypeOK /\ BacklogOK /\ QueueOK /\ ServesOK /\ EventsOK /\ ArmedOK /\ None \notin Conns
  BY HandlersAssumption DEF PlaceInv
<1>2. /\ \A c \in C : at'[c] = "closed" /\ worker'[c] = 0 /\ armed'[c] = "none"
      /\ \A c \in Conns :
           c \notin C => at'[c] = at[c] /\ worker'[c] = worker[c] /\ armed'[c] = armed[c]
      /\ \A w \in Workers : serves'[w] = IF serves[w] \in C THEN None ELSE serves[w]
  BY DEF Close
<1>3. at' \in [Conns -> {"closed", "backlog", "accepted", "queued", "read", "write"}]
      /\ worker' \in [Conns -> {0} \cup Workers]
      /\ armed' \in [Conns -> {"none", "read", "once", "write"}]
      /\ serves' \in [Workers -> Conns \cup {None}]
  BY <1>1 DEF PlaceTypeOK, Close
<1>4. PlaceTypeOK'
  BY <1>1, <1>3 DEF PlaceTypeOK, queue_vars, Workers
<1>5. BacklogOK'
  <2>1. ASSUME NEW l \in Workers, NEW c \in Conns
        PROVE  c \in ToSet(backlog'[l]) <=> at'[c] = "backlog" /\ worker'[c] = l
    BY <1>1, <1>2 DEF BacklogOK
  <2>2. QED
    BY <2>1 DEF BacklogOK, Workers
<1>6. QueueOK'
  BY <1>1, <1>2 DEF QueueOK, queue_vars
<1>7. ServesOK'
  <2>1. ASSUME NEW w \in Workers, NEW c \in Conns
        PROVE  /\ serves'[w] = c => worker'[c] = w /\ at'[c] \in InHandler /\ c \notin events'[w]
               /\ InWorker /\ at'[c] \in InHandler /\ worker'[c] = w => serves'[w] = c
    <3>1. CASE c \in C
      <4>1. serves'[w] # c /\ at'[c] \notin InHandler
        BY <1>1, <1>2, <3>1 DEF InHandler
      <4>2. QED
        BY <4>1
    <3>2. CASE c \notin C
      <4>1. at'[c] = at[c] /\ worker'[c] = worker[c] /\ (serves'[w] = c <=> serves[w] = c)
        BY <1>1, <1>2, <3>2
      <4>2. QED
        BY <1>1, <4>1 DEF ServesOK
    <3>3. QED
      BY <3>1, <3>2
  <2>2. QED
    BY <2>1 DEF ServesOK, Workers, InWorker
<1>8. EventsOK'
  <2>1. ASSUME NEW w \in Workers
        PROVE  /\ \A c \in events'[w] \cap Conns :
                    worker'[c] = w /\ at'[c] \in {"accepted"} \cup InHandler
               /\ server.loop = "accept" => events'[w] = {}
               /\ phase[w] = "resume" => events'[w] = {}
    <3>1. events'[w] \subseteq events[w] /\ events'[w] \cap Conns = (events[w] \cap Conns) \ C
      OBVIOUS
    <3>2. \A c \in events'[w] \cap Conns : worker'[c] = w /\ at'[c] \in {"accepted"} \cup InHandler
      BY <1>1, <1>2, <3>1 DEF EventsOK
    <3>3. /\ server.loop = "accept" => events'[w] = {}
          /\ phase[w] = "resume" => events'[w] = {}
      BY <1>1, <3>1 DEF EventsOK
    <3>4. QED
      BY <3>2, <3>3
  <2>2. QED
    BY <1>1, <2>1 DEF EventsOK, Workers
<1>9. ArmedOK'
  <2>1. SUFFICES ASSUME NEW c \in Conns
                 PROVE  /\ at'[c] = "closed" <=> worker'[c] = 0
                        /\ InCoroutine /\ at'[c] \in InHandler => armed'[c] = at'[c]
                        /\ at'[c] \notin {"accepted"} \cup InHandler => armed'[c] = "none"
                        /\ InCoroutine /\ server.queue = "none" /\ at'[c] = "accepted" =>
                             armed'[c] = "read"
                        /\ at'[c] = "accepted" /\ armed'[c] = "none" => c \in events'[worker'[c]]
                        /\ server.queue = "none" => armed'[c] # "once"
                        /\ at'[c] = "accepted" => server.loop = "events"
                        /\ at'[c] = "queued" => server.queue # "none"
    BY DEF ArmedOK, InCoroutine
  <2>2. CASE c \in C
    BY <1>2, <2>2 DEF InHandler
  <2>3. CASE c \notin C
    <3>1. at'[c] = at[c] /\ worker'[c] = worker[c] /\ armed'[c] = armed[c]
      BY <1>2, <2>3
    <3>2. at[c] = "accepted" /\ armed[c] = "none" => c \in events'[worker[c]]
      <4>1. SUFFICES ASSUME at[c] = "accepted", armed[c] = "none" PROVE c \in events'[worker[c]]
        OBVIOUS
      <4>2. worker[c] \in Workers /\ c \in events[worker[c]]
        BY <1>1, <4>1 DEF ArmedOK, PlaceTypeOK
      <4>3. QED
        BY <2>3, <4>2
    <3>3. QED
      BY <1>1, <3>1, <3>2 DEF ArmedOK
  <2>4. QED
    BY <2>2, <2>3
<1>10. PoolLimit'
  BY <1>2, LimitStays DEF queue_vars, InHandler
<1>11. QED
  BY <1>4, <1>5, <1>6, <1>7, <1>8, <1>9, <1>10 DEF PlaceInv

\* A process that ends closes the connections that it has, and no other.
LEMMA ProcessEndsKeepsPlace ==
  ASSUME PlaceInv, NEW w \in Workers, ProcessEnds(w), UNCHANGED server
  PROVE  PlaceInv'
<1>1. PlaceTypeOK /\ BacklogOK /\ QueueOK /\ ServesOK /\ EventsOK /\ ArmedOK /\ None \notin Conns
  BY HandlersAssumption DEF PlaceInv
<1>2. CASE ~ server.processes
  <2>1. ended' = Workers /\ UNCHANGED <<at, worker, armed, serves, backlog, events, Leader, phase,
                                        queue_vars>>
    BY <1>2 DEF ProcessEnds
  <2>2. PlaceTypeOK'
    BY <1>1, <2>1 DEF PlaceTypeOK, queue_vars, Workers
  <2>3. BacklogOK' /\ QueueOK' /\ EventsOK' /\ ArmedOK' /\ ServesOK'
    BY <1>1, <2>1
       DEF BacklogOK, QueueOK, EventsOK, ArmedOK, ServesOK, queue_vars, Workers, InCoroutine,
                      InWorker
  <2>4. PoolLimit'
    BY <2>1, LimitStays DEF queue_vars
  <2>5. QED
    BY <2>2, <2>3, <2>4 DEF PlaceInv
<1>3. CASE server.processes
  <2> DEFINE C == {c \in Conns : worker[c] = w /\ (at[c] = "backlog" => server.own)}
  <2>1. /\ Close(C) /\ UNCHANGED <<Leader, phase, queue_vars>> /\ ended' = ended \cup {w}
        /\ backlog' = IF server.own THEN [backlog EXCEPT ![w] = <<>>] ELSE backlog
        /\ events' = [events EXCEPT ![w] = {}]
    BY <1>3 DEF ProcessEnds
  <2>2. \A c \in C : at[c] # "queued"
    BY <1>1, <1>3, ServerFacts DEF ArmedOK, PlaceTypeOK
  <2>3. backlog' \in [Workers -> Seq(Conns)] /\ events' \in [Workers -> SUBSET (Conns \cup {None})]
    <3>1. <<>> \in Seq(Conns)
      BY EmptySeq
    <3>2. QED
      BY <1>1, <2>1, <3>1 DEF PlaceTypeOK
  <2>4. ASSUME NEW l \in Workers
        PROVE  IsInjective(backlog'[l]) /\ ToSet(backlog'[l]) = ToSet(backlog[l]) \ C
    <3>1. \A c \in ToSet(backlog[l]) : c \in Conns /\ at[c] = "backlog" /\ worker[c] = l
      <4>1. ToSet(backlog[l]) \subseteq Conns
        BY <1>1, EntriesTyped DEF PlaceTypeOK
      <4>2. QED
        BY <1>1, <4>1 DEF BacklogOK
    <3>2. CASE server.own /\ l = w
      <4>1. backlog'[l] = <<>>
        BY <1>1, <2>1, <3>2 DEF PlaceTypeOK
      <4>2. IsInjective(<<>>) /\ ToSet(<<>>) = {}
        BY DEF IsInjective, ToSet
      <4>3. ToSet(backlog[l]) \subseteq C
        BY <3>1, <3>2
      <4>4. QED
        BY <4>1, <4>2, <4>3
    <3>3. CASE ~ (server.own /\ l = w)
      <4>1. backlog'[l] = backlog[l]
        BY <1>1, <2>1, <3>3 DEF PlaceTypeOK
      <4>2. ToSet(backlog[l]) \cap C = {}
        BY <3>1, <3>3
      <4>3. QED
        BY <1>1, <4>1, <4>2 DEF BacklogOK
    <3>4. QED
      BY <3>2, <3>3
  <2>5. ASSUME NEW v \in Workers
        PROVE  events'[v] \subseteq events[v] /\ events'[v] \cap Conns = (events[v] \cap Conns) \ C
    <3>1. \A c \in events[v] \cap Conns : worker[c] = v /\ at[c] # "backlog"
      BY <1>1 DEF EventsOK, InHandler
    <3>2. events'[v] = IF v = w THEN {} ELSE events[v]
      BY <1>1, <2>1 DEF PlaceTypeOK
    <3>3. QED
      BY <3>1, <3>2
  <2>6. ended' \subseteq Workers /\ Leader' \in {0} \cup Workers
    BY <1>1, <2>1 DEF PlaceTypeOK
  <2>7. C \in SUBSET Conns /\ Close(C)
    BY <2>1
  <2> HIDE DEF C
  <2>8. QED
    BY <2>1, <2>2, <2>3, <2>4, <2>5, <2>6, <2>7, CloseKeepsPlace
<1>4. QED
  BY <1>2, <1>3

\* A connection ends.
LEMMA EndKeepsPlace ==
  ASSUME PlaceInv, NEW c \in Conns, at[c] \in InHandler, \A w \in Workers : c \notin events[w],
         Close({c}), UNCHANGED <<server, accept_vars, queue_vars, ended>>
  PROVE  PlaceInv'
<1>1. PlaceTypeOK /\ BacklogOK
  BY DEF PlaceInv
<1>2. {c} \in SUBSET Conns /\ \A d \in {c} : at[d] # "queued"
  BY DEF InHandler
<1>3. UNCHANGED <<server, phase, queue_vars, backlog, events, Leader, ended>>
  BY DEF accept_vars
<1>4. Leader' \in {0} \cup Workers /\ ended' \subseteq Workers
      /\ backlog' \in [Workers -> Seq(Conns)] /\ events' \in [Workers -> SUBSET (Conns \cup {None})]
  BY <1>1, <1>3 DEF PlaceTypeOK
<1>5. ASSUME NEW l \in Workers
      PROVE  IsInjective(backlog'[l]) /\ ToSet(backlog'[l]) = ToSet(backlog[l]) \ {c}
  <2>1. c \notin ToSet(backlog[l])
    BY <1>1 DEF BacklogOK, InHandler
  <2>2. QED
    BY <1>1, <1>3, <2>1 DEF BacklogOK
<1>6. \A w \in Workers : /\ events'[w] \subseteq events[w]
                         /\ events'[w] \cap Conns = (events[w] \cap Conns) \ {c}
  BY <1>3
<1>7. QED
  BY <1>2, <1>3, <1>4, <1>5, <1>6, CloseKeepsPlace

\* A step of a handler.
LEMMA HandlerKeepsPlace ==
  ASSUME PlaceInv, NEW c \in Conns, HandlerStep(c)
  PROVE  PlaceInv'
<1>1. PlaceTypeOK /\ ServesOK /\ EventsOK /\ ArmedOK /\ UNCHANGED server
  BY DEF PlaceInv, HandlerStep
<1>2. at[c] \in InHandler /\ worker[c] \in Workers
      /\ (server.handler \in {"thread", "process"} \/ serves[worker[c]] = c)
  BY DEF HandlerStep, Runs, Working, InHandler
<1>3. \A w \in Workers : c \notin events[w]
  <2>1. SUFFICES ASSUME NEW w \in Workers, c \in events[w] PROVE FALSE
    OBVIOUS
  <2>2. worker[c] = w /\ server.loop # "accept"
    BY <1>1, <2>1 DEF EventsOK
  <2>3. server.handler \notin {"thread", "process"}
    BY <1>1, <2>2, ServerFacts DEF PlaceTypeOK
  <2>4. QED
    BY <1>1, <1>2, <2>1, <2>2, <2>3 DEF ServesOK
<1>4. CASE Read(c)
  <2>1. PICK k : /\ codec' = [codec EXCEPT ![c] = k]
                 /\ IF HasMessage(k)
                      THEN /\ at' = [at EXCEPT ![c] = "write"]
                           /\ ModEvent(c, "write")
                      ELSE UNCHANGED <<at, armed>>
    BY <1>4 DEF Read
  <2>2. UNCHANGED <<server, worker, serves, accept_vars, queue_vars, ended>>
    BY <1>1, <1>4 DEF Read
  <2>3. CASE HasMessage(k)
    <3>1. "write" \in InHandler
      BY DEF InHandler
    <3>2. QED
      BY <1>2, <2>1, <2>2, <2>3, <3>1, TurnKeepsPlace
  <2>4. CASE ~ HasMessage(k)
    <3>1. UNCHANGED place_vars
      BY <2>1, <2>2, <2>4 DEF place_vars, accept_vars, queue_vars
    <3>2. QED
      BY <3>1, PlaceStays
  <2>5. QED
    BY <2>3, <2>4
<1>5. CASE Write(c)
  <2>1. UNCHANGED <<server, worker, serves, accept_vars, queue_vars, ended>>
    BY <1>1, <1>5 DEF Write
  <2>2. \/ at' = [at EXCEPT ![c] = "read"] /\ ModEvent(c, "read")
        \/ UNCHANGED <<at, armed>>
    BY <1>5 DEF Write
  <2>3. CASE at' = [at EXCEPT ![c] = "read"] /\ ModEvent(c, "read")
    <3>1. "read" \in InHandler
      BY DEF InHandler
    <3>2. QED
      BY <1>2, <2>1, <2>3, <3>1, TurnKeepsPlace
  <2>4. CASE UNCHANGED <<at, armed>>
    <3>1. UNCHANGED place_vars
      BY <2>1, <2>4 DEF place_vars, accept_vars, queue_vars
    <3>2. QED
      BY <3>1, PlaceStays
  <2>5. QED
    BY <2>2, <2>3, <2>4
<1>6. CASE Yields(c)
  BY <1>1, <1>6, YieldsKeepsPlace DEF Yields
<1>7. CASE Fails(c)
  <2>1. \/ Close({c}) /\ UNCHANGED <<accept_vars, queue_vars, ended>>
        \/ ProcessEnds(worker[c])
    BY <1>7 DEF Fails, PipeBreaks
  <2>2. CASE Close({c}) /\ UNCHANGED <<accept_vars, queue_vars, ended>>
    BY <1>1, <1>2, <1>3, <2>2, EndKeepsPlace
  <2>3. CASE ProcessEnds(worker[c])
    BY <1>1, <1>2, <2>3, ProcessEndsKeepsPlace
  <2>4. QED
    BY <2>1, <2>2, <2>3
<1>8. QED
  BY <1>4, <1>5, <1>6, <1>7 DEF HandlerStep

\* A worker takes the first of a backlog.
LEMMA AcceptsOne ==
  ASSUME PlaceInv, NEW w \in Workers, backlog[Listener(w)] # <<>>, Accepts(w, 1)
  PROVE  /\ Accepted(w) \in Conns /\ at[Accepted(w)] = "backlog" /\ Listener(w) \in Workers
         /\ backlog' \in [Workers -> Seq(Conns)]
         /\ \A l \in Workers : /\ IsInjective(backlog'[l])
                               /\ ToSet(backlog'[l]) = ToSet(backlog[l]) \ {Accepted(w)}
<1> DEFINE l == Listener(w)
           s == backlog[l]
<1>1. PlaceTypeOK /\ BacklogOK /\ l \in Workers
  BY ServerFacts DEF PlaceInv, PlaceTypeOK
<1>2. s \in Seq(Conns) /\ s # <<>> /\ IsInjective(s) /\ Accepted(w) = Head(s)
  BY <1>1 DEF PlaceTypeOK, BacklogOK, Accepted
<1>3. SubSeq(s, 1 + 1, Len(s)) = Tail(s)
  <2>1. 1 + 1 = 2
    OBVIOUS
  <2>2. QED
    BY <1>2, <2>1, TailIsSubSeq
<1>4. backlog' = [backlog EXCEPT ![l] = Tail(s)]
  <2>1. backlog' = [backlog EXCEPT ![l] = SubSeq(s, 1 + 1, Len(s))]
    BY DEF Accepts
  <2> HIDE DEF l, s
  <2>2. QED
    BY <1>3, <2>1
<1> HIDE DEF l, s
<1>5. /\ Head(s) \in ToSet(s) /\ ToSet(Tail(s)) = ToSet(s) \ {Head(s)} /\ IsInjective(Tail(s))
      /\ Tail(s) \in Seq(Conns)
  BY <1>2, TailEntries, HeadTailProperties
<1>6. ToSet(s) \subseteq Conns
  BY <1>2, EntriesTyped
<1>7. at[Head(s)] = "backlog" /\ worker[Head(s)] = l /\ Head(s) \in Conns
  BY <1>1, <1>5, <1>6 DEF BacklogOK, s
<1>8. backlog' \in [Workers -> Seq(Conns)]
  BY <1>1, <1>4, <1>5 DEF PlaceTypeOK
<1>9. ASSUME NEW i \in Workers
      PROVE  IsInjective(backlog'[i]) /\ ToSet(backlog'[i]) = ToSet(backlog[i]) \ {Head(s)}
  <2>1. CASE i = l
    <3>1. backlog'[i] = Tail(s) /\ backlog[i] = s
      BY <1>1, <1>4, <2>1 DEF PlaceTypeOK, s
    <3>2. QED
      BY <1>5, <3>1
  <2>2. CASE i # l
    <3>1. backlog'[i] = backlog[i]
      BY <1>1, <1>4, <2>2 DEF PlaceTypeOK
    <3>2. Head(s) \notin ToSet(backlog[i])
      BY <1>1, <1>7, <2>2 DEF BacklogOK
    <3>3. QED
      BY <1>1, <3>1, <3>2 DEF BacklogOK
  <2>3. QED
    BY <2>1, <2>2
<1>10. QED
  BY <1>1, <1>2, <1>7, <1>8, <1>9 DEF l

\* A connection is accepted by the loop that serves it, or has it served by another thread or process.
LEMMA AcceptKeepsPlace ==
  ASSUME PlaceInv, NEW w \in Workers, Accept(w), UNCHANGED server
  PROVE  PlaceInv'
<1> DEFINE c == Accepted(w)
<1>1. PlaceTypeOK /\ BacklogOK /\ QueueOK /\ ServesOK /\ EventsOK /\ ArmedOK /\ None \notin Conns
  BY HandlersAssumption DEF PlaceInv
<1>2. /\ server.loop = "accept" /\ serves[w] = None /\ Leader' = 0
      /\ at' = [at EXCEPT ![c] = "read"] /\ worker' = [worker EXCEPT ![c] = w]
      /\ serves' = IF InWorker THEN [serves EXCEPT ![w] = c] ELSE serves
      /\ UNCHANGED <<armed, phase, events, queue_vars, ended>>
  BY DEF Accept, Serve
<1>3. /\ c \in Conns /\ at[c] = "backlog" /\ backlog' \in [Workers -> Seq(Conns)]
      /\ \A l \in Workers : IsInjective(backlog'[l]) /\ ToSet(backlog'[l]) = ToSet(backlog[l]) \ {c}
  BY AcceptsOne DEF Accept
<1>4. ~ InCoroutine /\ w # 0 /\ server.queue = "none" /\ \A v \in Workers : events[v] = {}
  BY <1>1, <1>2, ServerFacts DEF PlaceTypeOK, EventsOK
<1> HIDE DEF c
<1>5. /\ at'[c] = "read" /\ worker'[c] = w /\ armed' = armed
      /\ \A d \in Conns : d # c => at'[d] = at[d] /\ worker'[d] = worker[d]
      /\ \A v \in Workers : serves'[v] = IF InWorker /\ v = w THEN c ELSE serves[v]
  BY <1>1, <1>2, <1>3 DEF PlaceTypeOK
<1>6. PlaceTypeOK'
  BY <1>1, <1>2, <1>3 DEF PlaceTypeOK, queue_vars, Workers
<1>7. BacklogOK'
  <2>1. ASSUME NEW l \in Workers, NEW d \in Conns
        PROVE  d \in ToSet(backlog'[l]) <=> at'[d] = "backlog" /\ worker'[d] = l
    BY <1>1, <1>3, <1>5 DEF BacklogOK
  <2>2. QED
    BY <1>3, <2>1 DEF BacklogOK, Workers
<1>8. QueueOK'
  BY <1>1, <1>2, <1>3, <1>5 DEF QueueOK, queue_vars
<1>9. ServesOK'
  <2>1. ASSUME NEW v \in Workers, NEW d \in Conns
        PROVE  /\ serves'[v] = d => worker'[d] = v /\ at'[d] \in InHandler
               /\ InWorker /\ at'[d] \in InHandler /\ worker'[d] = v => serves'[v] = d
    <3>1. serves[v] # c
      BY <1>1, <1>3 DEF ServesOK, InHandler
    <3>2. CASE d = c
      BY <1>5, <3>1, <3>2 DEF InHandler
    <3>3. CASE d # c
      <4>1. at'[d] = at[d] /\ worker'[d] = worker[d]
        BY <1>5, <3>3
      <4>2. InWorker /\ at[d] \in InHandler => worker[d] # w
        BY <1>1, <1>2 DEF ServesOK
      <4>3. QED
        BY <1>1, <1>5, <3>3, <4>1, <4>2 DEF ServesOK
    <3>4. QED
      BY <3>2, <3>3
  <2>2. QED
    BY <1>2, <1>4, <2>1 DEF ServesOK, Workers, InWorker
<1>10. EventsOK'
  BY <1>1, <1>2, <1>4 DEF EventsOK, Workers
<1>11. ArmedOK'
  BY <1>1, <1>2, <1>3, <1>4, <1>5 DEF ArmedOK, InCoroutine, InHandler
<1>12. PoolLimit'
  BY <1>2, <1>4 DEF PlaceInv, PoolLimit, queue_vars, InCoroutine
<1>13. QED
  BY <1>6, <1>7, <1>8, <1>9, <1>10, <1>11, <1>12 DEF PlaceInv

\* A connection for which there is no process is closed.
LEMMA ForkFailsKeepsPlace ==
  ASSUME PlaceInv, NEW w \in Workers, ForkFails(w), UNCHANGED server
  PROVE  PlaceInv'
<1> DEFINE c == Accepted(w)
<1>1. PlaceTypeOK /\ EventsOK
  BY DEF PlaceInv
<1>2. Close({c}) /\ UNCHANGED <<Leader, phase, events, queue_vars, ended>>
      /\ server.handler = "process"
  BY DEF ForkFails
<1>3. /\ c \in Conns /\ at[c] = "backlog" /\ backlog' \in [Workers -> Seq(Conns)]
      /\ \A l \in Workers : IsInjective(backlog'[l]) /\ ToSet(backlog'[l]) = ToSet(backlog[l]) \ {c}
  BY AcceptsOne DEF ForkFails
<1> HIDE DEF c
<1>4. \A v \in Workers : events[v] = {}
  BY <1>1, <1>2, ServerFacts DEF PlaceTypeOK, EventsOK
<1>5. {c} \in SUBSET Conns /\ \A d \in {c} : at[d] # "queued"
  BY <1>3
<1>6. /\ Leader' \in {0} \cup Workers /\ ended' \subseteq Workers
      /\ events' \in [Workers -> SUBSET (Conns \cup {None})]
  BY <1>1, <1>2 DEF PlaceTypeOK
<1>7. \A v \in Workers : /\ events'[v] \subseteq events[v]
                         /\ events'[v] \cap Conns = (events[v] \cap Conns) \ {c}
  BY <1>2, <1>4
<1>8. QED
  BY <1>2, <1>3, <1>5, <1>6, <1>7, CloseKeepsPlace

\* The loop waits for events.
LEMMA WaitKeepsPlace ==
  ASSUME PlaceInv, NEW w \in Workers, Wait(w), UNCHANGED server
  PROVE  PlaceInv'
<1>1. PlaceTypeOK /\ BacklogOK /\ QueueOK /\ ServesOK /\ EventsOK /\ ArmedOK /\ None \notin Conns
  BY HandlersAssumption DEF PlaceInv
<1>2. /\ server.loop = "events" /\ phase[w] = "wait" /\ events[w] = {} /\ serves[w] = None
      /\ events' = [events EXCEPT ![w] = Returned(w)]
      /\ phase' = IF server.queue = "none" THEN phase ELSE [phase EXCEPT ![w] = "events"]
      /\ armed' = [c \in Conns |-> IF c \in Ready(w) /\ armed[c] = "once" THEN "none" ELSE armed[c]]
      /\ UNCHANGED <<at, worker, backlog, Leader, serves, queue_vars, ended>>
  BY DEF Wait
<1>3. Returned(w) \subseteq Conns \cup {None} /\ Returned(w) \cap Conns = Ready(w)
  BY <1>1 DEF Returned, Ready
<1>4. \A c \in Ready(w) : c \in Conns /\ worker[c] = w /\ at[c] \in {"accepted"} \cup InHandler
  BY <1>1 DEF Ready, ArmedOK
<1>5. /\ \A v \in Workers : v # w => events'[v] = events[v] /\ phase'[v] = phase[v]
      /\ events'[w] = Returned(w)
      /\ phase'[w] = IF server.queue = "none" THEN "wait" ELSE "events"
  BY <1>1, <1>2 DEF PlaceTypeOK
<1>6. PlaceTypeOK'
  <2>1. events' \in [Workers -> SUBSET (Conns \cup {None})]
    BY <1>1, <1>2, <1>3 DEF PlaceTypeOK
  <2>2. phase' \in [Workers -> {"wait", "events", "resume"}]
    BY <1>1, <1>2 DEF PlaceTypeOK
  <2>3. armed' \in [Conns -> {"none", "read", "once", "write"}]
    BY <1>1, <1>2 DEF PlaceTypeOK
  <2>4. QED
    BY <1>1, <1>2, <2>1, <2>2, <2>3 DEF PlaceTypeOK, queue_vars, Workers
<1>7. BacklogOK' /\ QueueOK'
  BY <1>1, <1>2 DEF BacklogOK, QueueOK, queue_vars, Workers
<1>8. ServesOK'
  <2>1. \A v \in Workers, c \in Conns : serves[v] = c => c \notin events'[v]
    BY <1>1, <1>2, <1>5 DEF ServesOK
  <2>2. QED
    BY <1>1, <1>2, <2>1 DEF ServesOK, Workers, InWorker
<1>9. EventsOK'
  <2>1. ASSUME NEW v \in Workers
        PROVE  /\ \A c \in events'[v] \cap Conns :
                    worker[c] = v /\ at[c] \in {"accepted"} \cup InHandler
               /\ phase'[v] = "resume" => events'[v] = {}
               /\ server.queue = "none" => phase'[v] = "wait"
    BY <1>1, <1>3, <1>4, <1>5 DEF EventsOK
  <2>2. QED
    BY <1>2, <2>1 DEF EventsOK, Workers
<1>10. ArmedOK'
  <2>1. ASSUME NEW c \in Conns
        PROVE  /\ InCoroutine /\ at[c] \in InHandler => armed'[c] = at[c]
               /\ at[c] \notin {"accepted"} \cup InHandler => armed'[c] = "none"
               /\ InCoroutine /\ server.queue = "none" /\ at[c] = "accepted" => armed'[c] = "read"
               /\ at[c] = "accepted" /\ armed'[c] = "none" => c \in events'[worker[c]]
               /\ server.queue = "none" => armed'[c] # "once"
    <3>1. CASE c \in Ready(w) /\ armed[c] = "once"
      <4>1. worker[c] = w /\ c \in events'[w] /\ at[c] \in {"accepted"} \cup InHandler
        BY <1>3, <1>4, <1>5, <3>1
      <4>2. server.queue # "none" /\ (InCoroutine => at[c] \notin InHandler) /\ armed'[c] = "none"
        BY <1>1, <1>2, <3>1 DEF ArmedOK, InHandler
      <4>3. InCoroutine
        BY <1>1, <4>2, ServerFacts DEF PlaceTypeOK
      <4>4. QED
        BY <4>1, <4>2, <4>3 DEF InHandler
    <3>2. CASE ~ (c \in Ready(w) /\ armed[c] = "once")
      <4>1. armed'[c] = armed[c]
        BY <1>2, <3>2
      <4>2. at[c] = "accepted" /\ armed[c] = "none" => c \in events'[worker[c]]
        <5>1. SUFFICES ASSUME at[c] = "accepted", armed[c] = "none" PROVE c \in events'[worker[c]]
          OBVIOUS
        <5>2. c \in events[worker[c]] /\ worker[c] \in Workers
          BY <1>1, <5>1 DEF ArmedOK, PlaceTypeOK
        <5>3. worker[c] # w
          BY <1>2, <5>2
        <5>4. QED
          BY <1>5, <5>2, <5>3
      <4>3. QED
        BY <1>1, <4>1, <4>2 DEF ArmedOK
    <3>3. QED
      BY <3>1, <3>2
  <2>2. QED
    BY <1>1, <1>2, <2>1 DEF ArmedOK, InCoroutine
<1>11. PoolLimit'
  BY <1>2, LimitStays DEF queue_vars
<1>12. QED
  BY <1>6, <1>7, <1>8, <1>9, <1>10, <1>11 DEF PlaceInv

\* LoopAccept accepts all it may at once.
LEMMA AcceptAllKeepsPlace ==
  ASSUME PlaceInv, NEW w \in Workers, AcceptAll(w), UNCHANGED server
  PROVE  PlaceInv'
<1> DEFINE l == Listener(w)
           waits == backlog[l]
           n == IF Len(waits) < server.accepts THEN Len(waits) ELSE server.accepts
           C == ToSet(SubSeq(waits, 1, n))
           watch == IF server.queue = "none" THEN "read" ELSE "once"
<1>1. PlaceTypeOK /\ BacklogOK /\ QueueOK /\ ServesOK /\ EventsOK /\ ArmedOK /\ None \notin Conns
  BY HandlersAssumption DEF PlaceInv
<1>2. /\ None \in events[w] /\ events' = [events EXCEPT ![w] = @ \ {None}]
      /\ backlog' = [backlog EXCEPT ![l] = SubSeq(waits, n + 1, Len(waits))]
      /\ at' = [c \in Conns |-> IF c \in C THEN "accepted" ELSE at[c]]
      /\ worker' = [c \in Conns |-> IF c \in C THEN w ELSE worker[c]]
      /\ armed' = [c \in Conns |-> IF c \in C THEN watch ELSE armed[c]]
      /\ UNCHANGED <<Leader, phase, serves, queue_vars, ended>>
  BY DEF AcceptAll, Accepts
<1>3. l \in Workers /\ waits \in Seq(Conns) /\ IsInjective(waits) /\ w # 0
  BY <1>1, ServerFacts DEF PlaceTypeOK, BacklogOK
<1>4. n \in 0 .. Len(waits)
  <2>1. server.accepts \in Nat /\ Len(waits) \in Nat
    BY <1>1, <1>3, ServerFacts, LenProperties DEF PlaceTypeOK
  <2> HIDE DEF waits
  <2>2. QED
    BY <2>1
<1> HIDE DEF n
<1>5. /\ SubSeq(waits, n + 1, Len(waits)) \in Seq(Conns)
      /\ IsInjective(SubSeq(waits, n + 1, Len(waits)))
      /\ C \subseteq ToSet(waits)
      /\ ToSet(SubSeq(waits, n + 1, Len(waits))) = ToSet(waits) \ C
  BY <1>3, <1>4, SplitEntries
<1>6. ToSet(waits) \subseteq Conns
  BY <1>3, EntriesTyped
<1>7. \A c \in C : c \in Conns /\ at[c] = "backlog" /\ worker[c] = l
  BY <1>1, <1>3, <1>5, <1>6 DEF BacklogOK
<1> HIDE DEF C
<1>8. /\ backlog' \in [Workers -> Seq(Conns)]
      /\ \A i \in Workers : IsInjective(backlog'[i]) /\ ToSet(backlog'[i]) = ToSet(backlog[i]) \ C
  <2>1. backlog' \in [Workers -> Seq(Conns)]
    BY <1>1, <1>2, <1>5 DEF PlaceTypeOK
  <2>2. ASSUME NEW i \in Workers
        PROVE  IsInjective(backlog'[i]) /\ ToSet(backlog'[i]) = ToSet(backlog[i]) \ C
    <3>1. CASE i = l
      <4>1. backlog'[i] = SubSeq(waits, n + 1, Len(waits)) /\ backlog[i] = waits
        BY <1>1, <1>2, <3>1 DEF PlaceTypeOK
      <4> HIDE DEF waits
      <4>2. QED
        BY <1>5, <4>1
    <3>2. CASE i # l
      <4>1. backlog'[i] = backlog[i]
        BY <1>1, <1>2, <3>2 DEF PlaceTypeOK
      <4>2. ToSet(backlog[i]) \cap C = {}
        BY <1>1, <1>7, <3>2 DEF BacklogOK
      <4>3. QED
        BY <1>1, <4>1, <4>2 DEF BacklogOK
    <3>3. QED
      BY <3>1, <3>2
  <2>3. QED
    BY <2>1, <2>2
<1>9. /\ \A c \in C : at'[c] = "accepted" /\ worker'[c] = w /\ armed'[c] = watch
      /\ \A c \in Conns :
           c \notin C => at'[c] = at[c] /\ worker'[c] = worker[c] /\ armed'[c] = armed[c]
      /\ \A v \in Workers : /\ events'[v] \subseteq events[v]
                            /\ events'[v] \cap Conns = events[v] \cap Conns
  BY <1>1, <1>2, <1>7 DEF PlaceTypeOK
<1>10. watch \in {"read", "once"} /\ (server.queue = "none" => watch = "read")
       /\ server.loop = "events"
  <2>1. server \in Servers /\ server.loop # "accept"
    BY <1>1, <1>2 DEF EventsOK, PlaceTypeOK
  <2>2. server.loop = "events"
    BY <2>1, ServersAssumption
  <2>3. QED
    BY <2>2
<1> HIDE DEF watch
<1>11. PlaceTypeOK'
  <2>1. /\ at' \in [Conns -> {"closed", "backlog", "accepted", "queued", "read", "write"}]
        /\ worker' \in [Conns -> {0} \cup Workers]
        /\ armed' \in [Conns -> {"none", "read", "once", "write"}]
        /\ events' \in [Workers -> SUBSET (Conns \cup {None})]
    BY <1>1, <1>2, <1>10 DEF PlaceTypeOK
  <2>2. QED
    BY <1>1, <1>2, <1>8, <2>1 DEF PlaceTypeOK, queue_vars, Workers
<1>12. BacklogOK'
  <2>1. ASSUME NEW i \in Workers, NEW d \in Conns
        PROVE  d \in ToSet(backlog'[i]) <=> at'[d] = "backlog" /\ worker'[d] = i
    BY <1>1, <1>8, <1>9 DEF BacklogOK
  <2>2. QED
    BY <1>8, <2>1 DEF BacklogOK, Workers
<1>13. QueueOK'
  BY <1>1, <1>2, <1>7, <1>9 DEF QueueOK, queue_vars
<1>14. ServesOK'
  <2>1. ASSUME NEW v \in Workers, NEW c \in Conns
        PROVE  /\ serves[v] = c => worker'[c] = v /\ at'[c] \in InHandler /\ c \notin events'[v]
               /\ InWorker /\ at'[c] \in InHandler /\ worker'[c] = v => serves[v] = c
    <3>1. CASE c \in C
      BY <1>1, <1>7, <1>9, <3>1 DEF ServesOK, InHandler
    <3>2. CASE c \notin C
      BY <1>1, <1>9, <3>2 DEF ServesOK
    <3>3. QED
      BY <3>1, <3>2
  <2>2. QED
    BY <1>2, <2>1 DEF ServesOK, Workers, InWorker
<1>15. EventsOK'
  <2>1. ASSUME NEW v \in Workers
        PROVE  /\ \A c \in events'[v] \cap Conns :
                    worker'[c] = v /\ at'[c] \in {"accepted"} \cup InHandler
               /\ phase[v] = "resume" => events'[v] = {}
    <3>1. \A c \in events'[v] \cap Conns : c \notin C
      BY <1>1, <1>7, <1>9 DEF EventsOK, InHandler
    <3>2. QED
      BY <1>1, <1>9, <3>1 DEF EventsOK
  <2>2. QED
    BY <1>1, <1>2, <1>10, <2>1 DEF EventsOK, Workers
<1>16. ArmedOK'
  <2>1. ASSUME NEW c \in Conns
        PROVE  /\ at'[c] = "closed" <=> worker'[c] = 0
               /\ InCoroutine /\ at'[c] \in InHandler => armed'[c] = at'[c]
               /\ at'[c] \notin {"accepted"} \cup InHandler => armed'[c] = "none"
               /\ InCoroutine /\ server.queue = "none" /\ at'[c] = "accepted" => armed'[c] = "read"
               /\ at'[c] = "accepted" /\ armed'[c] = "none" => c \in events'[worker'[c]]
               /\ server.queue = "none" => armed'[c] # "once"
               /\ at'[c] = "queued" => server.queue # "none"
    <3>1. CASE c \in C
      BY <1>3, <1>9, <1>10, <3>1 DEF InHandler
    <3>2. CASE c \notin C
      <4>1. at'[c] = at[c] /\ worker'[c] = worker[c] /\ armed'[c] = armed[c]
        BY <1>9, <3>2
      <4>2. at[c] = "accepted" /\ armed[c] = "none" => c \in events'[worker[c]]
        <5>1. SUFFICES ASSUME at[c] = "accepted", armed[c] = "none" PROVE c \in events'[worker[c]]
          OBVIOUS
        <5>2. c \in events[worker[c]] /\ worker[c] \in Workers
          BY <1>1, <5>1 DEF ArmedOK, PlaceTypeOK
        <5>3. QED
          BY <1>9, <5>2
      <4>3. QED
        BY <1>1, <4>1, <4>2 DEF ArmedOK
    <3>3. QED
      BY <3>1, <3>2
  <2>2. QED
    BY <1>10, <2>1 DEF ArmedOK, InCoroutine
<1>17. PoolLimit'
  <2>1. \A c \in Conns : at'[c] \in InHandler => at[c] \in InHandler /\ worker'[c] = worker[c]
    BY <1>9 DEF InHandler
  <2>2. QED
    BY <1>2, <2>1, LimitStays DEF queue_vars
<1>18. QED
  BY <1>11, <1>12, <1>13, <1>14, <1>15, <1>16, <1>17 DEF PlaceInv

\* The handler of a connection starts.
LEMMA StartKeepsPlace ==
  ASSUME PlaceInv, NEW w \in Workers, NEW c \in Conns, c \in events[w], serves[w] = None,
         Handled(w, c), RunHandler(w, c), Serve(c, w),
         UNCHANGED <<server, armed, backlog, Leader, phase, queue_vars, ended>>,
         \/ InWorker
         \/ /\ InCoroutine /\ server.queue = "none" /\ at[c] = "accepted"
            /\ Cardinality(Served(w)) < server.count
  PROVE  PlaceInv'
<1>1. PlaceTypeOK /\ BacklogOK /\ QueueOK /\ ServesOK /\ EventsOK /\ ArmedOK /\ None \notin Conns
  BY HandlersAssumption DEF PlaceInv
<1>2. /\ worker[c] = w /\ at[c] \in {"accepted"} \cup InHandler
      /\ InWorker => at[c] = "accepted"
  BY <1>1 DEF EventsOK, ServesOK
<1>3. at[c] = "accepted" /\ server.queue = "none" /\ server.loop = "events"
  BY <1>1, <1>2, ServerFacts DEF PlaceTypeOK, ArmedOK
<1>4. /\ \A v \in Workers : events'[v] = IF v = w THEN events[w] \ {c} ELSE events[v]
      /\ \A v \in Workers : serves'[v] = IF v = w THEN c ELSE serves[v]
      /\ at'[c] = "read" /\ worker'[c] = w
      /\ \A d \in Conns : d # c => at'[d] = at[d] /\ worker'[d] = worker[d]
  BY <1>1 DEF PlaceTypeOK, Handled, RunHandler, Serve
<1>5. PlaceTypeOK'
  <2>1. /\ at' \in [Conns -> {"closed", "backlog", "accepted", "queued", "read", "write"}]
        /\ worker' \in [Conns -> {0} \cup Workers]
        /\ serves' \in [Workers -> Conns \cup {None}]
        /\ events' \in [Workers -> SUBSET (Conns \cup {None})]
    BY <1>1 DEF PlaceTypeOK, Handled, RunHandler, Serve
  <2>2. QED
    BY <1>1, <2>1 DEF PlaceTypeOK, queue_vars, Workers
<1>6. BacklogOK' /\ QueueOK'
  BY <1>1, <1>3, <1>4 DEF BacklogOK, QueueOK, queue_vars, Workers
<1>7. ServesOK'
  <2>1. ASSUME NEW v \in Workers, NEW d \in Conns
        PROVE  /\ serves'[v] = d => worker'[d] = v /\ at'[d] \in InHandler /\ d \notin events'[v]
               /\ InWorker /\ at'[d] \in InHandler /\ worker'[d] = v => serves'[v] = d
    <3>1. serves[v] # c
      BY <1>1, <1>3 DEF ServesOK, InHandler
    <3>2. CASE d = c
      BY <1>4, <3>1, <3>2 DEF InHandler
    <3>3. CASE d # c
      <4>1. at'[d] = at[d] /\ worker'[d] = worker[d]
        BY <1>4, <3>3
      <4>2. InWorker /\ at[d] \in InHandler => worker[d] # w
        BY <1>1 DEF ServesOK
      <4>3. QED
        BY <1>1, <1>4, <3>3, <4>1, <4>2 DEF ServesOK
    <3>4. QED
      BY <3>2, <3>3
  <2>2. QED
    BY <2>1 DEF ServesOK, Workers, InWorker
<1>8. EventsOK'
  <2>1. ASSUME NEW v \in Workers
        PROVE  /\ \A d \in events'[v] \cap Conns :
                    worker'[d] = v /\ at'[d] \in {"accepted"} \cup InHandler
               /\ phase[v] = "resume" => events'[v] = {}
    BY <1>1, <1>2, <1>4 DEF EventsOK
  <2>2. QED
    BY <1>1, <1>3, <2>1 DEF EventsOK, Workers
<1>9. ArmedOK'
  <2>1. ASSUME NEW d \in Conns
        PROVE  /\ at'[d] = "closed" <=> worker'[d] = 0
               /\ InCoroutine /\ at'[d] \in InHandler => armed[d] = at'[d]
               /\ at'[d] \notin {"accepted"} \cup InHandler => armed[d] = "none"
               /\ InCoroutine /\ server.queue = "none" /\ at'[d] = "accepted" => armed[d] = "read"
               /\ at'[d] = "accepted" /\ armed[d] = "none" => d \in events'[worker'[d]]
               /\ at'[d] = "queued" => server.queue # "none"
    <3>1. CASE d = c
      BY <1>1, <1>2, <1>3, <1>4, <3>1 DEF ArmedOK, InHandler
    <3>2. CASE d # c
      <4>1. at[d] = "accepted" /\ armed[d] = "none" => d \in events'[worker[d]]
        <5>1. SUFFICES ASSUME at[d] = "accepted", armed[d] = "none" PROVE d \in events'[worker[d]]
          OBVIOUS
        <5>2. d \in events[worker[d]] /\ worker[d] \in Workers
          BY <1>1, <5>1 DEF ArmedOK, PlaceTypeOK
        <5>3. QED
          BY <1>4, <3>2, <5>2
      <4>2. at'[d] = at[d] /\ worker'[d] = worker[d]
        BY <1>4, <3>2
      <4>3. QED
        BY <1>1, <4>1, <4>2 DEF ArmedOK
    <3>3. QED
      BY <3>1, <3>2
  <2>2. QED
    BY <1>1, <1>3, <2>1 DEF ArmedOK, InCoroutine
<1>10. PoolLimit'
  <2>1. waiting' = 0 /\ waiting = 0
    BY <1>3 DEF PlaceInv, PoolLimit, queue_vars
  <2>2. ASSUME InCoroutine, NEW v \in Workers PROVE Cardinality(Served(v)') <= server.count
    <3>1. Served(v) \in SUBSET Conns /\ Cardinality(Served(v)) <= server.count
          /\ server.count \in Nat
      <4>1. waiting + Cardinality(Served(v)) <= server.count
        BY <2>2 DEF PlaceInv, PoolLimit
      <4>2. Served(v) \in SUBSET Conns
        BY DEF Served
      <4>3. Cardinality(Served(v)) \in Nat /\ server.count \in Nat
        BY <1>1, <4>2, ConnSets, ServerFacts DEF PlaceTypeOK
      <4>4. QED
        BY <2>1, <4>1, <4>2, <4>3
    <3>2. CASE v = w
      <4>1. Served(v)' = Served(v) \cup {c}
        BY <1>4, <3>2 DEF Served, InHandler
      <4>2. /\ Cardinality(Served(v) \cup {c}) \in Nat
            /\ Cardinality(Served(v) \cup {c}) <= Cardinality(Served(v)) + 1
        BY <3>1, OneMore
      <4>3. Cardinality(Served(v)) < server.count
        BY <2>2, <3>2, ServerFacts, <1>1 DEF PlaceTypeOK
      <4>4. Cardinality(Served(v)) \in Nat
        BY <3>1, ConnSets
      <4>5. QED
        BY <3>1, <4>1, <4>2, <4>3, <4>4
    <3>3. CASE v # w
      <4>1. Served(v)' = Served(v)
        BY <1>2, <1>4, <3>3 DEF Served
      <4>2. QED
        BY <3>1, <4>1
    <3>4. QED
      BY <3>2, <3>3
  <2>3. ASSUME InCoroutine, NEW v \in Workers
        PROVE  waiting' + Cardinality(Served(v)') <= server.count
    <3>1. Served(v)' \in SUBSET Conns
      BY DEF Served
    <3>2. Cardinality(Served(v)') \in Nat
      BY <3>1, ConnSets
    <3>3. QED
      BY <2>1, <2>2, <2>3, <3>2
  <2>4. QED
    BY <2>1, <2>3 DEF PoolLimit, InCoroutine, Workers
<1>11. QED
  BY <1>5, <1>6, <1>7, <1>8, <1>9, <1>10 DEF PlaceInv

\* The handler of a connection that has one runs on.
LEMMA RunsKeepsPlace ==
  ASSUME PlaceInv, NEW w \in Workers, NEW c \in Conns, worker[c] = w, at[c] \in InHandler, ~ InWorker,
         serves' = [serves EXCEPT ![w] = c],
         events' \in [Workers -> SUBSET (Conns \cup {None})],
         \A v \in Workers : events'[v] = IF v = w THEN events[w] \ {c} ELSE events[v],
         notify_count' \in Nat,
         UNCHANGED <<server, at, worker, armed, backlog, Leader, phase, q, waiting, ended>>
  PROVE  PlaceInv'
<1>1. PlaceTypeOK /\ BacklogOK /\ QueueOK /\ ServesOK /\ EventsOK /\ ArmedOK
  BY DEF PlaceInv
<1>2. PlaceTypeOK'
  <2>1. serves' \in [Workers -> Conns \cup {None}]
    BY <1>1 DEF PlaceTypeOK
  <2>2. QED
    BY <1>1, <2>1 DEF PlaceTypeOK, Workers
<1>3. BacklogOK' /\ QueueOK'
  BY <1>1 DEF BacklogOK, QueueOK, Workers
<1>4. \A v \in Workers : serves'[v] = IF v = w THEN c ELSE serves[v]
  BY <1>1 DEF PlaceTypeOK
<1>5. ServesOK'
  BY <1>1, <1>4 DEF ServesOK, Workers, InWorker
<1>6. EventsOK'
  BY <1>1 DEF EventsOK, Workers
<1>7. ArmedOK'
  <2>1. ASSUME NEW d \in Conns, at[d] = "accepted", armed[d] = "none"
        PROVE  d \in events'[worker[d]]
    <3>1. d \in events[worker[d]] /\ worker[d] \in Workers
      BY <1>1, <2>1 DEF ArmedOK, PlaceTypeOK
    <3>2. d # c
      BY <2>1 DEF InHandler
    <3>3. QED
      BY <3>1, <3>2
  <2>2. QED
    BY <1>1, <2>1 DEF ArmedOK, InCoroutine
<1>8. PoolLimit'
  BY LimitStays
<1>9. QED
  BY <1>2, <1>3, <1>5, <1>6, <1>7, <1>8 DEF PlaceInv

\* The Producer puts a connection into the queue.
LEMMA ProduceKeepsPlace ==
  ASSUME PlaceInv, NEW w \in Workers, NEW c \in events[w] \cap Conns, serves[w] = None,
         Produce(w, c), UNCHANGED server
  PROVE  PlaceInv'
<1>1. PlaceTypeOK /\ BacklogOK /\ QueueOK /\ ServesOK /\ EventsOK /\ ArmedOK
  BY DEF PlaceInv
<1>2. /\ server.queue # "none" /\ at[c] = "accepted"
      /\ events' = [events EXCEPT ![w] = @ \ {c}]
      /\ at' = [at EXCEPT ![c] = "queued"]
      /\ armed' = [armed EXCEPT ![c] = "none"]
      /\ q' = Append(q, c)
      /\ UNCHANGED <<worker, backlog, Leader, phase, serves, waiting, ended>>
  BY DEF Produce, Handled
<1>3. notify_count' \in Nat
  <2>1. notify_count' = notify_count + 1 \/ notify_count' = notify_count
    BY DEF Produce
  <2>2. QED
    BY <1>1, <2>1 DEF PlaceTypeOK
<1>4. /\ at'[c] = "queued" /\ armed'[c] = "none"
      /\ \A d \in Conns : d # c => at'[d] = at[d] /\ armed'[d] = armed[d]
      /\ \A v \in Workers : events'[v] = IF v = w THEN events[w] \ {c} ELSE events[v]
  BY <1>1, <1>2 DEF PlaceTypeOK
<1>5. ToSet(Append(q, c)) = ToSet(q) \cup {c} /\ IsInjective(Append(q, c))
      /\ Append(q, c) \in Seq(Conns)
  <2>1. q \in Seq(Conns) /\ IsInjective(q) /\ c \notin ToSet(q)
    BY <1>1, <1>2 DEF PlaceTypeOK, QueueOK
  <2>2. QED
    BY <2>1, AppendEntries, AppendProperties
<1>6. PlaceTypeOK'
  <2>1. /\ at' \in [Conns -> {"closed", "backlog", "accepted", "queued", "read", "write"}]
        /\ armed' \in [Conns -> {"none", "read", "once", "write"}]
        /\ events' \in [Workers -> SUBSET (Conns \cup {None})]
    BY <1>1, <1>2 DEF PlaceTypeOK
  <2>2. QED
    BY <1>1, <1>2, <1>3, <1>5, <2>1 DEF PlaceTypeOK, Workers
<1>7. BacklogOK'
  BY <1>1, <1>2, <1>4 DEF BacklogOK, Workers
<1>8. QueueOK'
  BY <1>1, <1>2, <1>4, <1>5 DEF QueueOK
<1>9. ServesOK'
  <2>1. ASSUME NEW v \in Workers, NEW d \in Conns
        PROVE  /\ serves[v] = d => worker[d] = v /\ at'[d] \in InHandler /\ d \notin events'[v]
               /\ InWorker /\ at'[d] \in InHandler /\ worker[d] = v => serves[v] = d
    BY <1>1, <1>2, <1>4 DEF ServesOK, InHandler
  <2>2. QED
    BY <1>2, <2>1 DEF ServesOK, Workers, InWorker
<1>10. EventsOK'
  BY <1>1, <1>2, <1>4 DEF EventsOK, Workers
<1>11. ArmedOK'
  <2>1. ASSUME NEW d \in Conns, at'[d] = "accepted", armed'[d] = "none"
        PROVE  d \in events'[worker[d]]
    <3>1. d # c /\ at[d] = "accepted" /\ armed[d] = "none"
      BY <1>4, <2>1
    <3>2. d \in events[worker[d]] /\ worker[d] \in Workers
      BY <1>1, <3>1 DEF ArmedOK, PlaceTypeOK
    <3>3. QED
      BY <1>4, <3>1, <3>2
  <2>2. ASSUME NEW d \in Conns
        PROVE  /\ at'[d] = "closed" <=> worker[d] = 0
               /\ InCoroutine /\ at'[d] \in InHandler => armed'[d] = at'[d]
               /\ at'[d] \notin {"accepted"} \cup InHandler => armed'[d] = "none"
               /\ at'[d] = "accepted" => server.loop = "events"
    BY <1>1, <1>2, <1>4 DEF ArmedOK, InHandler
  <2>3. QED
    BY <1>2, <2>1, <2>2 DEF ArmedOK, InCoroutine
<1>12. PoolLimit'
  <2>1. \A d \in Conns : at'[d] \in InHandler => at[d] \in InHandler /\ worker'[d] = worker[d]
    BY <1>2, <1>4 DEF InHandler
  <2>2. QED
    BY <1>2, <2>1, LimitStays
<1>13. QED
  BY <1>6, <1>7, <1>8, <1>9, <1>10, <1>11, <1>12 DEF PlaceInv

\* The loop goes on after its events, and after it has resumed the consumers.
LEMMA PhaseKeepsPlace ==
  ASSUME PlaceInv, NEW w \in Workers, phase[w] # "wait", events[w] = {}, NEW p \in {"wait", "resume"},
         phase' = [phase EXCEPT ![w] = p],
         UNCHANGED <<server, at, worker, armed, backlog, Leader, events, serves, queue_vars, ended>>
  PROVE  PlaceInv'
<1>1. PlaceTypeOK /\ BacklogOK /\ QueueOK /\ ServesOK /\ EventsOK /\ ArmedOK
  BY DEF PlaceInv
<1>2. server.queue # "none"
  BY <1>1 DEF EventsOK
<1>3. PlaceTypeOK'
  BY <1>1 DEF PlaceTypeOK, queue_vars, Workers
<1>4. BacklogOK' /\ QueueOK' /\ ServesOK' /\ ArmedOK'
  BY <1>1 DEF BacklogOK, QueueOK, ServesOK, ArmedOK, queue_vars, Workers, InCoroutine, InWorker
<1>5. EventsOK'
  BY <1>1, <1>2 DEF EventsOK, PlaceTypeOK, Workers
<1>6. PoolLimit'
  BY LimitStays DEF queue_vars
<1>7. QED
  BY <1>3, <1>4, <1>5, <1>6 DEF PlaceInv

\* A consumer takes the first connection of the queue.
LEMMA ConsumeKeepsPlace ==
  ASSUME PlaceInv, NEW w \in Workers, phase[w] = "resume", serves[w] = None, waiting > 0,
         Consume(w), notify_count' \in Nat, UNCHANGED server
  PROVE  PlaceInv'
<1> DEFINE c == Head(q)
<1>1. PlaceTypeOK /\ BacklogOK /\ QueueOK /\ ServesOK /\ EventsOK /\ ArmedOK /\ None \notin Conns
  BY HandlersAssumption DEF PlaceInv
<1>2. /\ q # <<>> /\ waiting' = waiting - 1 /\ q' = Tail(q)
      /\ serves' = [serves EXCEPT ![w] = c]
      /\ at' = [at EXCEPT ![c] = "read"] /\ worker' = [worker EXCEPT ![c] = w]
      /\ armed' = [armed EXCEPT ![c] = "read"]
      /\ UNCHANGED <<backlog, Leader, phase, events, ended>>
  BY DEF Consume, RunHandler, Serve
<1>3. server.queue # "none" /\ events[w] = {}
  BY <1>1 DEF EventsOK
<1>4. InCoroutine /\ ~ InWorker /\ Workers = {1} /\ w = 1
  BY <1>1, <1>3, ServerFacts DEF PlaceTypeOK
<1>5. c \in ToSet(q) /\ ToSet(Tail(q)) = ToSet(q) \ {c} /\ IsInjective(Tail(q))
      /\ Tail(q) \in Seq(Conns)
  <2>1. q \in Seq(Conns) /\ IsInjective(q)
    BY <1>1 DEF PlaceTypeOK, QueueOK
  <2>2. QED
    BY <1>2, <2>1, TailEntries, HeadTailProperties
<1> HIDE DEF c
<1>6. c \in Conns /\ at[c] = "queued"
  <2>1. ToSet(q) \subseteq Conns
    BY <1>1, EntriesTyped DEF PlaceTypeOK
  <2>2. QED
    BY <1>1, <1>5, <2>1 DEF QueueOK
<1>7. /\ at'[c] = "read" /\ worker'[c] = w /\ armed'[c] = "read" /\ serves'[w] = c
      /\ \A d \in Conns : d # c => at'[d] = at[d] /\ worker'[d] = worker[d] /\ armed'[d] = armed[d]
      /\ \A v \in Workers : v = w
  BY <1>1, <1>2, <1>4, <1>6 DEF PlaceTypeOK
<1>8. PlaceTypeOK'
  <2>1. /\ at' \in [Conns -> {"closed", "backlog", "accepted", "queued", "read", "write"}]
        /\ worker' \in [Conns -> {0} \cup Workers]
        /\ armed' \in [Conns -> {"none", "read", "once", "write"}]
        /\ serves' \in [Workers -> Conns \cup {None}]
    BY <1>1, <1>2, <1>6 DEF PlaceTypeOK
  <2>2. waiting' \in Nat
    BY <1>1, <1>2 DEF PlaceTypeOK
  <2>3. QED
    BY <1>1, <1>2, <1>5, <2>1, <2>2 DEF PlaceTypeOK, Workers
<1>9. BacklogOK'
  BY <1>1, <1>2, <1>6, <1>7 DEF BacklogOK, Workers
<1>10. QueueOK'
  BY <1>1, <1>2, <1>5, <1>7 DEF QueueOK
<1>11. ServesOK'
  BY <1>2, <1>3, <1>4, <1>7 DEF ServesOK, Workers, InWorker, InHandler
<1>12. EventsOK'
  <2>1. \A v \in Workers : events'[v] = {}
    BY <1>2, <1>3, <1>7
  <2>2. QED
    BY <1>1, <1>2, <2>1 DEF EventsOK, Workers
<1>13. ArmedOK'
  <2>1. ASSUME NEW d \in Conns
        PROVE  /\ at'[d] = "closed" <=> worker'[d] = 0
               /\ at'[d] \in InHandler => armed'[d] = at'[d]
               /\ at'[d] \notin {"accepted"} \cup InHandler => armed'[d] = "none"
               /\ at'[d] = "accepted" /\ armed'[d] = "none" => d \in events[worker'[d]]
               /\ at'[d] = "accepted" => server.loop = "events"
    <3>1. CASE d = c
      BY <1>4, <1>7, <3>1 DEF InHandler
    <3>2. CASE d # c
      BY <1>1, <1>4, <1>7, <3>2 DEF ArmedOK
    <3>3. QED
      BY <3>1, <3>2
  <2>2. QED
    BY <1>2, <1>3, <2>1 DEF ArmedOK, InCoroutine
<1>14. PoolLimit'
  <2>1. ASSUME NEW v \in Workers
        PROVE  waiting' + Cardinality(Served(v)') <= server.count
    <3>1. Served(v)' = Served(v) \cup {c}
      BY <1>6, <1>7 DEF Served, InHandler
    <3>2. Served(v) \in SUBSET Conns
      BY DEF Served
    <3>3. /\ Cardinality(Served(v) \cup {c}) \in Nat
          /\ Cardinality(Served(v) \cup {c}) <= Cardinality(Served(v)) + 1
      BY <1>6, <3>2, OneMore
    <3>4. Cardinality(Served(v)) \in Nat
      BY <3>2, ConnSets
    <3>5. waiting + Cardinality(Served(v)) <= server.count
      BY <1>4 DEF PlaceInv, PoolLimit
    <3>6. waiting \in Nat /\ server.count \in Nat
      BY <1>1, ServerFacts DEF PlaceTypeOK
    <3>7. QED
      BY <1>2, <3>1, <3>3, <3>4, <3>5, <3>6
  <2>2. QED
    BY <1>3, <2>1 DEF PoolLimit, InCoroutine, Workers
<1>15. QED
  BY <1>8, <1>9, <1>10, <1>11, <1>12, <1>13, <1>14 DEF PlaceInv

\* A peer connects.
LEMMA ConnectKeepsPlace ==
  ASSUME PlaceInv, NEW c \in Conns, Connect(c)
  PROVE  PlaceInv'
<1>1. PlaceTypeOK /\ BacklogOK /\ QueueOK /\ ServesOK /\ EventsOK /\ ArmedOK
  BY DEF PlaceInv
<1>2. PICK v \in Working : /\ at' = [at EXCEPT ![c] = "backlog"]
                           /\ worker' = [worker EXCEPT ![c] = Listener(v)]
                           /\ backlog' = [backlog EXCEPT ![Listener(v)] = Append(@, c)]
  BY DEF Connect
<1> DEFINE l == Listener(v)
           s == backlog[l]
<1>3. at[c] = "closed" /\ UNCHANGED <<server, armed, Leader, phase, events, serves, queue_vars,
                                      ended>>
  BY DEF Connect
<1>4. l \in Workers /\ l # 0
  <2>1. v \in Workers
    BY DEF Working
  <2>2. Listener(v) \in Workers
    BY <1>1, <2>1, ServerFacts DEF PlaceTypeOK
  <2>3. \A i \in Workers : i # 0
    BY <1>1, ServerFacts DEF PlaceTypeOK
  <2>4. QED
    BY <2>2, <2>3
<1> HIDE DEF l
<1>5. s \in Seq(Conns) /\ IsInjective(s) /\ c \notin ToSet(s)
  BY <1>1, <1>3, <1>4 DEF PlaceTypeOK, BacklogOK
<1>6. backlog' = [backlog EXCEPT ![l] = Append(s, c)]
  BY <1>2 DEF l
<1> HIDE DEF s
<1>7. ToSet(Append(s, c)) = ToSet(s) \cup {c} /\ IsInjective(Append(s, c))
      /\ Append(s, c) \in Seq(Conns)
  BY <1>5, AppendEntries, AppendProperties
<1>8. /\ at'[c] = "backlog" /\ worker'[c] = l
      /\ \A d \in Conns : d # c => at'[d] = at[d] /\ worker'[d] = worker[d]
      /\ \A i \in Workers : i # l => backlog'[i] = backlog[i]
      /\ backlog'[l] = Append(s, c)
  BY <1>1, <1>2, <1>4, <1>6 DEF PlaceTypeOK, l
<1>9. PlaceTypeOK'
  <2>1. /\ at' \in [Conns -> {"closed", "backlog", "accepted", "queued", "read", "write"}]
        /\ worker' \in [Conns -> {0} \cup Workers]
    BY <1>1, <1>2, <1>4 DEF PlaceTypeOK, l
  <2>2. backlog' \in [Workers -> Seq(Conns)]
    BY <1>1, <1>6, <1>7 DEF PlaceTypeOK
  <2>3. QED
    BY <1>1, <1>3, <2>1, <2>2 DEF PlaceTypeOK, queue_vars, Workers
<1>10. BacklogOK'
  <2>1. ASSUME NEW i \in Workers
        PROVE  /\ IsInjective(backlog'[i])
               /\ \A d \in Conns : d \in ToSet(backlog'[i]) <=> at'[d] = "backlog" /\ worker'[d] = i
    <3>1. CASE i = l
      <4>1. IsInjective(backlog'[i]) /\ ToSet(backlog'[i]) = ToSet(backlog[i]) \cup {c}
        BY <1>7, <1>8, <3>1 DEF s
      <4>2. QED
        BY <1>1, <1>8, <3>1, <4>1 DEF BacklogOK
    <3>2. CASE i # l
      <4>1. backlog'[i] = backlog[i]
        BY <1>8, <3>2
      <4>2. QED
        BY <1>1, <1>3, <1>8, <3>2, <4>1 DEF BacklogOK
    <3>3. QED
      BY <3>1, <3>2
  <2>2. QED
    BY <1>3, <2>1 DEF BacklogOK, Workers
<1>11. QueueOK'
  BY <1>1, <1>3, <1>8 DEF QueueOK, queue_vars
<1>12. ServesOK'
  BY <1>1, <1>3, <1>8 DEF ServesOK, Workers, InWorker, InHandler
<1>13. EventsOK'
  BY <1>1, <1>3, <1>8 DEF EventsOK, Workers, InHandler
<1>14. ArmedOK'
  <2>1. ASSUME NEW d \in Conns
        PROVE  /\ at'[d] = "closed" <=> worker'[d] = 0
               /\ InCoroutine /\ at'[d] \in InHandler => armed[d] = at'[d]
               /\ at'[d] \notin {"accepted"} \cup InHandler => armed[d] = "none"
               /\ InCoroutine /\ server.queue = "none" /\ at'[d] = "accepted" => armed[d] = "read"
               /\ at'[d] = "accepted" /\ armed[d] = "none" => d \in events[worker'[d]]
               /\ server.queue = "none" => armed[d] # "once"
               /\ at'[d] = "accepted" => server.loop = "events"
               /\ at'[d] = "queued" => server.queue # "none"
    <3>1. CASE d = c
      <4>1. armed[d] = "none"
        BY <1>1, <1>3, <3>1 DEF ArmedOK, InHandler
      <4>2. QED
        BY <1>4, <1>8, <3>1, <4>1 DEF InHandler
    <3>2. CASE d # c
      BY <1>1, <1>8, <3>2 DEF ArmedOK
    <3>3. QED
      BY <3>1, <3>2
  <2>2. QED
    BY <1>3, <2>1 DEF ArmedOK, InCoroutine
<1>15. PoolLimit'
  <2>1. \A d \in Conns : at'[d] \in InHandler => at[d] \in InHandler /\ worker'[d] = worker[d]
    BY <1>8 DEF InHandler
  <2>2. QED
    BY <1>3, <2>1, LimitStays DEF queue_vars
<1>16. QED
  BY <1>9, <1>10, <1>11, <1>12, <1>13, <1>14, <1>15 DEF PlaceInv

\* A step of a worker.
LEMMA WorkerKeepsPlace ==
  ASSUME PlaceInv, NEW w \in Workers, WorkerStep(w)
  PROVE  PlaceInv'
<1>1. PlaceTypeOK /\ ServesOK /\ EventsOK /\ ArmedOK /\ UNCHANGED server
  BY DEF PlaceInv, WorkerStep
<1>2. CASE BecomeLeader(w)
  <2>1. /\ Leader' \in {0} \cup Workers
        /\ UNCHANGED <<server, at, worker, armed, backlog, phase, events, serves, queue_vars, ended>>
    BY <1>1, <1>2 DEF BecomeLeader
  <2>2. PlaceTypeOK'
    BY <1>1, <2>1 DEF PlaceTypeOK, queue_vars, Workers
  <2>3. BacklogOK' /\ QueueOK' /\ ServesOK' /\ EventsOK' /\ ArmedOK'
    BY <2>1 DEF PlaceInv, BacklogOK, QueueOK, ServesOK, EventsOK, ArmedOK, queue_vars, Workers,
                InWorker, InCoroutine
  <2>4. PoolLimit'
    BY <2>1, LimitStays DEF queue_vars
  <2>5. QED
    BY <2>2, <2>3, <2>4 DEF PlaceInv
<1>3. CASE Accept(w)
  BY <1>1, <1>3, AcceptKeepsPlace
<1>4. CASE ForkFails(w)
  BY <1>1, <1>4, ForkFailsKeepsPlace
<1>5. CASE Wait(w)
  BY <1>1, <1>5, WaitKeepsPlace
<1>6. CASE HandleEvent(w)
  <2>1. CASE AcceptAll(w)
    BY <1>1, <2>1, AcceptAllKeepsPlace
  <2>2. ASSUME NEW c \in events[w] \cap Conns,
               CallHandler(w, c) \/ CreateHandler(w, c) \/ PoolIsFull(w, c) \/ Resume(w, c)
               \/ Produce(w, c)
        PROVE  PlaceInv'
    <3>1. serves[w] = None
      BY <1>6 DEF HandleEvent
    <3>2. CASE CallHandler(w, c)
      BY <1>1, <3>1, <3>2, StartKeepsPlace DEF CallHandler
    <3>3. CASE CreateHandler(w, c)
      <4>1. {d \in Conns : worker[d] = w /\ at[d] \in {"read", "write"}} = Served(w)
        BY DEF Served, InHandler
      <4>2. InCoroutine /\ server.queue = "none" /\ at[c] = "accepted"
            /\ Cardinality(Served(w)) < server.count
        BY <3>3, <4>1 DEF CreateHandler
      <4>3. /\ Handled(w, c) /\ RunHandler(w, c) /\ Serve(c, w)
            /\ UNCHANGED <<server, armed, backlog, Leader, phase, queue_vars, ended>>
        BY <1>1, <3>3 DEF CreateHandler
      <4>4. QED
        BY <3>1, <4>2, <4>3, StartKeepsPlace
    <3>4. CASE PoolIsFull(w, c)
      BY <1>1, <3>4, ProcessEndsKeepsPlace DEF PoolIsFull
    <3>5. CASE Resume(w, c)
      <4>1. /\ at[c] \in InHandler /\ events' = [events EXCEPT ![w] = @ \ {c}]
            /\ serves' = [serves EXCEPT ![w] = c]
            /\ UNCHANGED <<at, worker, armed, backlog, Leader, phase, queue_vars, ended>>
        BY <3>5 DEF Resume, Handled, RunHandler, InHandler
      <4>2. worker[c] = w
        BY <1>1 DEF EventsOK
      <4>3. ~ InWorker
        BY <1>1, <3>1, <4>1, <4>2, HandlersAssumption DEF ServesOK
      <4>4. /\ events' \in [Workers -> SUBSET (Conns \cup {None})]
            /\ \A v \in Workers : events'[v] = IF v = w THEN events[w] \ {c} ELSE events[v]
            /\ notify_count' \in Nat
        BY <1>1, <4>1 DEF PlaceTypeOK, queue_vars
      <4>5. UNCHANGED <<server, at, worker, armed, backlog, Leader, phase, q, waiting, ended>>
        BY <1>1, <4>1 DEF queue_vars
      <4>6. QED
        BY <4>1, <4>2, <4>3, <4>4, <4>5, RunsKeepsPlace
    <3>6. CASE Produce(w, c)
      BY <1>1, <3>1, <3>6, ProduceKeepsPlace
    <3>7. QED
      BY <2>2, <3>2, <3>3, <3>4, <3>5, <3>6
  <2>3. QED
    BY <1>6, <2>1, <2>2 DEF HandleEvent
<1>7. CASE AfterEvents(w)
  <2>1. PICK p \in {"wait", "resume"} : phase' = [phase EXCEPT ![w] = p]
    BY <1>7 DEF AfterEvents
  <2>2. /\ phase[w] # "wait" /\ events[w] = {}
        /\ UNCHANGED <<server, at, worker, armed, backlog, Leader, events, serves, queue_vars, ended>>
    BY <1>1, <1>7 DEF AfterEvents
  <2>3. QED
    BY <2>1, <2>2, PhaseKeepsPlace
<1>8. CASE CoSemaphoreResume(w)
  BY <1>1, <1>8, ConsumeKeepsPlace DEF CoSemaphoreResume, Resumes, PlaceTypeOK
<1>9. CASE CoCondResume(w)
  <2>1. notify_count' \in Nat
    BY <1>1, <1>9 DEF CoCondResume, PlaceTypeOK
  <2>2. QED
    BY <1>1, <1>9, <2>1, ConsumeKeepsPlace DEF CoCondResume, Resumes
<1>10. CASE CoCondResumeNobody(w)
  <2>1. CASE ProcessEnds(w)
    BY <1>1, <2>1, ProcessEndsKeepsPlace
  <2>2. ASSUME NEW c \in Conns, at[c] \in {"read", "write"}, RunHandler(w, c),
               notify_count' = notify_count - 1,
               UNCHANGED <<at, worker, armed, handler_vars, socket_vars, accept_vars, q, waiting,
                           ended>>
        PROVE  PlaceInv'
    <3>1. server.queue # "none" /\ phase[w] = "resume" /\ notify_count > 0
      BY <1>10 DEF CoCondResumeNobody, Resumes
    <3>2. ~ InWorker /\ Workers = {1} /\ events[w] = {}
      BY <1>1, <3>1, ServerFacts DEF PlaceTypeOK, EventsOK
    <3>3. worker[c] # 0
      BY <1>1, <2>2 DEF ArmedOK
    <3>4. worker[c] = w
      BY <1>1, <3>2, <3>3 DEF PlaceTypeOK
    <3>5. /\ events' \in [Workers -> SUBSET (Conns \cup {None})]
          /\ \A v \in Workers : events'[v] = IF v = w THEN events[w] \ {c} ELSE events[v]
      BY <1>1, <2>2, <3>2 DEF PlaceTypeOK, accept_vars
    <3>6. notify_count' \in Nat
      BY <1>1, <2>2, <3>1 DEF PlaceTypeOK
    <3>7. /\ at[c] \in InHandler /\ serves' = [serves EXCEPT ![w] = c]
          /\ UNCHANGED <<server, at, worker, armed, backlog, Leader, phase, q, waiting, ended>>
      BY <1>1, <2>2 DEF accept_vars, RunHandler, InHandler
    <3>8. QED
      BY <3>2, <3>4, <3>5, <3>6, <3>7, RunsKeepsPlace
  <2>3. QED
    BY <1>10, <2>1, <2>2 DEF CoCondResumeNobody
<1>11. CASE TurnEnds(w)
  <2>1. "wait" \in {"wait", "resume"} /\ phase' = [phase EXCEPT ![w] = "wait"]
    BY <1>11 DEF TurnEnds
  <2>2. phase[w] = "resume" /\ UNCHANGED <<server, at, worker, armed, backlog, Leader, events, serves,
                                            queue_vars, ended>>
    BY <1>1, <1>11 DEF TurnEnds, Resumes
  <2>3. events[w] = {}
    BY <1>1, <2>2 DEF EventsOK
  <2>4. QED
    BY <2>1, <2>2, <2>3, PhaseKeepsPlace
<1>12. QED
  BY <1>2, <1>3, <1>4, <1>5, <1>6, <1>7, <1>8, <1>9, <1>10, <1>11 DEF WorkerStep

\* When the server starts there is no connection.
LEMMA InitPlace ==
  ASSUME HandlersInit
  PROVE  PlaceInv
<1>1. server \in Servers /\ None \notin Conns
  BY HandlersAssumption DEF HandlersInit
<1>2. ToSet(<<>>) = {} /\ IsInjective(<<>>) /\ <<>> \in Seq(Conns)
  BY EmptySeq DEF ToSet, IsInjective
<1>3. waiting = (IF server.queue = "none" THEN 0 ELSE server.count) /\ waiting \in Nat
  BY <1>1, ServerFacts DEF HandlersInit
<1>4. PlaceTypeOK
  BY <1>1, <1>2, <1>3 DEF PlaceTypeOK, HandlersInit
<1>5. BacklogOK /\ QueueOK
  BY <1>2 DEF BacklogOK, QueueOK, HandlersInit
<1>6. ServesOK /\ EventsOK
  BY <1>1 DEF ServesOK, EventsOK, HandlersInit, InHandler
<1>7. ArmedOK
  BY DEF ArmedOK, HandlersInit, InHandler
<1>8. PoolLimit
  <2>1. ASSUME NEW w \in Workers PROVE Cardinality(Served(w)) = 0
    <3>1. Served(w) = {}
      BY DEF Served, HandlersInit, InHandler
    <3>2. QED
      BY <3>1, FS_EmptySet
  <2>2. server.count \in Nat /\ (InCoroutine => waiting <= server.count)
    BY <1>1, <1>3, ServerFacts
  <2>3. QED
    BY <1>3, <2>1, <2>2 DEF PoolLimit
<1>9. QED
  BY <1>4, <1>5, <1>6, <1>7, <1>8 DEF PlaceInv

\* Every step keeps it.
LEMMA NextKeepsPlace ==
  ASSUME PlaceInv, [HandlersNext]_server_vars
  PROVE  PlaceInv'
<1>1. ASSUME NEW c \in Conns, PeerStep(c) PROVE PlaceInv'
  <2>1. UNCHANGED place_vars
    BY <1>1 DEF PeerStep, place_vars, accept_vars, queue_vars
  <2>2. QED
    BY <2>1, PlaceStays
<1>2. CASE UNCHANGED server_vars
  <2>1. UNCHANGED place_vars
    BY <1>2 DEF server_vars, place_vars, accept_vars, queue_vars
  <2>2. QED
    BY <2>1, PlaceStays
<1>3. QED
  BY <1>1, <1>2, HandlerKeepsPlace, ConnectKeepsPlace, WorkerKeepsPlace DEF HandlersNext

-----------------------------------------------------------------------------
(* What is read and written.                                               *)

\* The codec of the next request.
LEMMA NewCodecTyped == NewCodec \in CodecType
<1>1. <<>> \in Seq(Byte)
  BY EmptySeq
<1>2. TINY_ECHO_HEAD_LEN \in Nat
  BY CodecAssumption
<1>3. QED
  BY <1>1, <1>2 DEF NewCodec, CodecType

\* A connection whose handler has not begun is ready for its first request.
LEMMA FreshIsRead ==
  ASSUME NEW c \in Conns, Fresh(c)
  PROVE  ReadOK(c)
<1>1. 0 \in Ends[c] /\ SubSeq(Wire[c], 1, 0) = <<>>
  <2>1. Wire[c] \in Seq(Byte) /\ 0 \in Ends[c]
    BY WireSplit
  <2>2. Len(Wire[c]) \in Nat
    BY <2>1, LenProperties
  <2>3. SubSeq(Wire[c], 0 + 1, 0) \in Seq(Byte) /\ Len(SubSeq(Wire[c], 0 + 1, 0)) = 0 - 0
    BY <2>1, <2>2, Part
  <2>4. SubSeq(Wire[c], 1, 0) = <<>>
    BY <2>3, EmptySeq
  <2>5. QED
    BY <2>1, <2>4
<1>2. QED
  BY <1>1 DEF Fresh, ReadOK

\* Nothing is read or written of it, and its handler goes on.
LEMMA ConnStays ==
  ASSUME NEW c \in Conns, ConnOK(c), at'[c] = at[c], codec'[c] = codec[c], pkt'[c] = pkt[c],
         taken'[c] = taken[c], back'[c] = back[c], c \in open' => c \in open
  PROVE  ConnOK(c)'
<1>1. ReadOK(c) => ReadOK(c)'
  BY DEF ReadOK
<1>2. WriteOK(c) => WriteOK(c)'
  BY DEF WriteOK
<1>3. Fresh(c) => Fresh(c)'
  BY DEF Fresh
<1>4. QED
  BY <1>1, <1>2, <1>3 DEF ConnOK

\* Connections move, and handlers start, and nothing is read or written.
LEMMA DataStays ==
  ASSUME DataInv, UNCHANGED <<handler_vars, socket_vars>>,
         \A c \in Conns : \/ at'[c] = at[c]
                          \/ at[c] \notin InHandler /\ at'[c] \notin InHandler
                          \/ at[c] \notin InHandler /\ at'[c] = "read"
  PROVE  DataInv'
<1>1. UNCHANGED <<codec, pkt, open, sent, taken, back, got>>
  BY DEF handler_vars, socket_vars
<1>2. DataTypeOK'
  BY <1>1 DEF DataInv, DataTypeOK
<1>3. ASSUME NEW c \in Conns PROVE ConnOK(c)'
  <2>1. ConnOK(c)
    BY DEF DataInv
  <2>2. CASE at'[c] = at[c]
    BY <1>1, <2>1, <2>2, ConnStays
  <2>3. CASE at[c] \notin InHandler
    <3>1. Fresh(c)
      BY <2>1, <2>3 DEF ConnOK
    <3>2. ReadOK(c)
      BY <3>1, FreshIsRead
    <3>3. Fresh(c)'
      BY <1>1, <3>1 DEF Fresh
    <3>4. ReadOK(c)'
      BY <1>1, <3>2 DEF ReadOK
    <3>5. at'[c] \notin InHandler \/ at'[c] = "read"
      BY <2>2, <2>3
    <3>6. QED
      <4>1. at'[c] # "write"
        BY <3>5 DEF InHandler
      <4>2. QED
        BY <3>3, <3>4, <4>1 DEF ConnOK
  <2>4. QED
    BY <2>2, <2>3
<1>4. QED
  BY <1>2, <1>3 DEF DataInv

\* A peer connects.
LEMMA ConnectKeepsData ==
  ASSUME PlaceInv, DataInv, NEW c \in Conns, Connect(c)
  PROVE  DataInv'
<1>1. /\ at[c] = "closed" /\ at'[c] = "backlog" /\ \A d \in Conns : d # c => at'[d] = at[d]
      /\ open' = open \cup {c} /\ UNCHANGED <<codec, pkt, sent, taken, back, got>>
  BY DEF Connect, handler_vars, PlaceInv, PlaceTypeOK
<1>2. DataTypeOK'
  BY <1>1 DEF DataInv, DataTypeOK
<1>3. ASSUME NEW d \in Conns PROVE ConnOK(d)'
  <2>1. ConnOK(d)
    BY DEF DataInv
  <2>2. CASE d = c
    <3>1. Fresh(c)
      BY <1>1, <2>1, <2>2 DEF ConnOK, InHandler
    <3>2. Fresh(c)'
      BY <1>1, <3>1 DEF Fresh
    <3>3. QED
      BY <1>1, <2>2, <3>2 DEF ConnOK
  <2>3. CASE d # c
    BY <1>1, <2>1, <2>3, ConnStays
  <2>4. QED
    BY <2>2, <2>3
<1>4. QED
  BY <1>2, <1>3 DEF DataInv

\* Connections are closed.
LEMMA CloseKeepsData ==
  ASSUME DataInv, NEW C \in SUBSET Conns, Close(C)
  PROVE  DataInv'
<1>1. <<>> \in Seq(Byte) /\ Len(<<>>) = 0 /\ NewCodec \in CodecType /\ Room \in Nat
  BY EmptySeq, NewCodecTyped, HandlersAssumption
<1>2. /\ \A c \in C : /\ at'[c] = "closed" /\ codec'[c] = NewCodec /\ pkt'[c] = <<>>
                      /\ sent'[c] = 0 /\ taken'[c] = 0 /\ got'[c] = 0 /\ back'[c] = <<>>
      /\ \A c \in Conns : c \notin C =>
           /\ at'[c] = at[c] /\ codec'[c] = codec[c] /\ pkt'[c] = pkt[c]
           /\ sent'[c] = sent[c] /\ taken'[c] = taken[c] /\ got'[c] = got[c] /\ back'[c] = back[c]
      /\ open' = open \ C
  BY DEF Close
<1>3. DataTypeOK'
  <2>1. /\ codec' \in [Conns -> CodecType]
        /\ pkt' \in [Conns -> Seq(Byte)] /\ back' \in [Conns -> Seq(Byte)]
        /\ open' \subseteq Conns
        /\ sent' \in [Conns -> Nat] /\ taken' \in [Conns -> Nat] /\ got' \in [Conns -> Nat]
    BY <1>1 DEF DataInv, DataTypeOK, Close
  <2>2. ASSUME NEW c \in Conns
        PROVE  /\ taken'[c] <= sent'[c] /\ sent'[c] <= Len(Wire[c])
               /\ got'[c] <= Len(back'[c]) /\ Len(back'[c]) - got'[c] <= Room
    <3>1. CASE c \in C
      <4>1. Len(Wire[c]) \in Nat
        BY WireSplit, LenProperties
      <4>2. /\ sent'[c] = 0 /\ taken'[c] = 0 /\ got'[c] = 0 /\ Len(back'[c]) = 0
        BY <1>1, <1>2, <3>1
      <4>3. QED
        BY <1>1, <4>1, <4>2
    <3>2. CASE c \notin C
      BY <1>2, <3>2 DEF DataInv, DataTypeOK
    <3>3. QED
      BY <3>1, <3>2
  <2>3. QED
    BY <2>1, <2>2 DEF DataTypeOK
<1>4. ASSUME NEW c \in Conns PROVE ConnOK(c)'
  <2>1. CASE c \in C
    <3>1. Fresh(c)' /\ at'[c] = "closed"
      BY <1>2, <2>1 DEF Fresh
    <3>2. QED
      BY <3>1 DEF ConnOK
  <2>2. CASE c \notin C
    BY <1>2, <2>2, ConnStays DEF DataInv
  <2>3. QED
    BY <2>1, <2>2
<1>5. QED
  BY <1>3, <1>4 DEF DataInv

\* A process ends.
LEMMA ProcessEndsKeepsData ==
  ASSUME DataInv, NEW w, ProcessEnds(w)
  PROVE  DataInv'
<1>1. CASE server.processes
  <2> DEFINE C == {c \in Conns : worker[c] = w /\ (at[c] = "backlog" => server.own)}
  <2>1. C \in SUBSET Conns /\ Close(C)
    BY <1>1 DEF ProcessEnds
  <2> HIDE DEF C
  <2>2. QED
    BY <2>1, CloseKeepsData
<1>2. CASE ~ server.processes
  BY <1>2, DataStays DEF ProcessEnds
<1>3. QED
  BY <1>1, <1>2

\* The steps of a peer.
LEMMA PeerKeepsData ==
  ASSUME DataInv, NEW c \in Conns, PeerStep(c)
  PROVE  DataInv'
<1>1. UNCHANGED <<at, codec, pkt, taken, back>> /\ open' \subseteq open
  BY DEF PeerStep, PeerSends, PeerReceives, PeerCloses, handler_vars
<1>2. \A d \in Conns : ConnOK(d)'
  BY <1>1, ConnStays DEF DataInv
<1>3. DataTypeOK'
  <2>1. CASE PeerSends(c)
    <3>1. PICK n \in Sendings[c] : sent[c] < n /\ sent' = [sent EXCEPT ![c] = n]
      BY <2>1 DEF PeerSends
    <3>2. n \in 0 .. Len(Wire[c])
      BY <3>1, RequestsAssumption DEF Wire
    <3>3. Len(Wire[c]) \in Nat
      BY WireSplit, LenProperties
    <3>4. sent' \in [Conns -> Nat]
      BY <3>1, <3>2, <3>3 DEF DataInv, DataTypeOK
    <3>5. ASSUME NEW d \in Conns PROVE taken[d] <= sent'[d] /\ sent'[d] <= Len(Wire[d])
      <4>1. /\ sent'[d] = IF d = c THEN n ELSE sent[d]
            /\ sent[d] \in Nat /\ taken[d] \in Nat /\ taken[d] <= sent[d] /\ sent[d] <= Len(Wire[d])
        BY <3>1 DEF DataInv, DataTypeOK
      <4>2. CASE d = c
        <5>1. taken[d] <= sent[d] /\ sent[d] < n /\ n <= Len(Wire[d]) /\ sent'[d] = n
          BY <3>1, <3>2, <4>1, <4>2
        <5>2. n \in Nat
          BY <3>2
        <5>3. QED
          BY <4>1, <5>1, <5>2
      <4>3. CASE d # c
        BY <4>1, <4>3
      <4>4. QED
        BY <4>2, <4>3
    <3>6. UNCHANGED <<open, got>>
      BY <2>1 DEF PeerSends
    <3>7. QED
      BY <1>1, <3>4, <3>5, <3>6 DEF DataInv, DataTypeOK
  <2>2. CASE PeerReceives(c)
    <3>1. got' = [got EXCEPT ![c] = Len(back[c])] /\ UNCHANGED <<open, sent>>
      BY <2>2 DEF PeerReceives
    <3>2. Len(back[c]) \in Nat /\ Room \in Nat
      BY HandlersAssumption, LenProperties DEF DataInv, DataTypeOK
    <3>3. got' \in [Conns -> Nat]
      BY <3>1, <3>2 DEF DataInv, DataTypeOK
    <3>4. ASSUME NEW d \in Conns PROVE got'[d] <= Len(back[d]) /\ Len(back[d]) - got'[d] <= Room
      BY <3>1, <3>2 DEF DataInv, DataTypeOK
    <3>5. QED
      BY <1>1, <3>1, <3>3, <3>4 DEF DataInv, DataTypeOK
  <2>3. CASE PeerCloses(c)
    BY <1>1, <2>3 DEF DataInv, DataTypeOK, PeerCloses
  <2>4. QED
    BY <2>1, <2>2, <2>3 DEF PeerStep
<1>4. QED
  BY <1>2, <1>3 DEF DataInv

\* The numbers of a request that the handler is at.
LEMMA RequestFacts ==
  ASSUME NEW c \in Conns, NEW e \in Ends[c], NEW msg \in PeerMessages(c), IsRequest(c, e, msg)
  PROVE  /\ msg \in Seq(Byte) /\ Len(msg) < 256 ^ TINY_ECHO_HEAD_LEN
         /\ Len(msg) \in Nat /\ TINY_ECHO_HEAD_LEN \in 1 .. 4
         /\ Size(msg) \in Nat /\ Size(msg) = TINY_ECHO_HEAD_LEN + Len(msg)
         /\ e \in Nat /\ Len(Wire[c]) \in Nat /\ e + Size(msg) <= Len(Wire[c])
         /\ \A b \in 0 .. Size(msg) : \A a \in 0 .. b :
              SubSeq(Wire[c], (e + a) + 1, e + b) = SubSeq(EnCode(msg), a + 1, b)
<1>1. msg \in Seq(Byte) /\ Len(msg) < 256 ^ TINY_ECHO_HEAD_LEN
  BY RequestsOf
<1>2. Len(msg) \in Nat /\ TINY_ECHO_HEAD_LEN \in 1 .. 4
  BY <1>1, LenProperties, CodecAssumption
<1>3. Size(msg) \in Nat /\ Size(msg) = TINY_ECHO_HEAD_LEN + Len(msg)
  BY <1>2 DEF Size
<1>4. Wire[c] \in Seq(Byte) /\ Ends[c] \subseteq 0 .. Len(Wire[c])
  BY WireSplit
<1>5. Len(Wire[c]) \in Nat
  BY <1>4, LenProperties
<1>6. e \in 0 .. Len(Wire[c]) /\ e + Size(msg) \in 0 .. Len(Wire[c])
  BY <1>4 DEF IsRequest
<1> DEFINE W == Wire[c]
           S == Size(msg)
           E == EnCode(msg)
<1>7. SubSeq(W, e + 1, e + S) = E
  BY DEF IsRequest
<1>8. W \in Seq(Byte) /\ e + S \in 0 .. Len(W) /\ e \in 0 .. e + S /\ S \in Nat /\ e \in Nat
  BY <1>3, <1>4, <1>5, <1>6
<1> HIDE DEF W, S, E
<1>9. ASSUME NEW b \in 0 .. S, NEW a \in 0 .. b
      PROVE  SubSeq(W, (e + a) + 1, e + b) = SubSeq(E, a + 1, b)
  <2>1. b \in 0 .. (e + S) - e
    BY <1>8
  <2>2. SubSeq(SubSeq(W, e + 1, e + S), a + 1, b) = SubSeq(W, (e + a) + 1, e + b)
    BY <1>8, <2>1, PartOfPart
  <2>3. QED
    BY <1>7, <2>2
<1>10. \A b \in 0 .. Size(msg) : \A a \in 0 .. b :
         SubSeq(Wire[c], (e + a) + 1, e + b) = SubSeq(EnCode(msg), a + 1, b)
  BY <1>9 DEF W, S, E
<1>11. e \in Nat /\ e + Size(msg) <= Len(Wire[c])
  BY <1>5, <1>6
<1>12. QED
  BY <1>1, <1>2, <1>3, <1>5, <1>10, <1>11

\* A handler that reads is in a request, if there is something to read.
LEMMA ReadsRequest ==
  ASSUME NEW c \in Conns, ReadOK(c), taken[c] # Len(Wire[c])
  PROVE  \E e \in Ends[c], msg \in PeerMessages(c) :
           /\ IsRequest(c, e, msg)
           /\ c \in open => back[c] = SubSeq(Wire[c], 1, e)
           /\ \E n \in 0 .. Size(msg) - 1 : taken[c] = e + n /\ codec[c] = CodecAt(msg, n)
<1>1. PICK e \in Ends[c] :
        /\ c \in open => back[c] = SubSeq(Wire[c], 1, e)
        /\ \/ taken[c] = e /\ codec[c] = NewCodec
           \/ \E msg \in PeerMessages(c) :
                /\ IsRequest(c, e, msg)
                /\ \E n \in 1 .. Size(msg) - 1 : taken[c] = e + n /\ codec[c] = CodecAt(msg, n)
  BY DEF ReadOK
<1>2. CASE taken[c] = e /\ codec[c] = NewCodec
  <2>1. PICK msg \in PeerMessages(c) : IsRequest(c, e, msg)
    BY <1>2, WireSplit
  <2>2. /\ msg \in Seq(Byte) /\ e \in Nat /\ Size(msg) \in Nat /\ Size(msg) >= 1
        /\ TINY_ECHO_HEAD_LEN \in 1 .. 4
    BY <2>1, RequestFacts
  <2>3. CodecAt(msg, 0) = NewCodec
    <3>1. 0 \in 0 .. Size(msg) /\ 0 < TINY_ECHO_HEAD_LEN
      BY <2>2
    <3>2. EnCode(msg) \in Seq(Byte) /\ Len(EnCode(msg)) \in Nat
      BY <2>2, EnCodeLength, LenProperties
    <3>3. SubSeq(EnCode(msg), 0 + 1, 0) \in Seq(Byte) /\ Len(SubSeq(EnCode(msg), 0 + 1, 0)) = 0 - 0
      BY <3>2, Part
    <3>4. SubSeq(EnCode(msg), 1, 0) = <<>>
      BY <3>3, EmptySeq
    <3>5. QED
      BY <2>2, <3>1, <3>4, CodecCases DEF NewCodec
  <2>4. 0 \in 0 .. Size(msg) - 1 /\ e + 0 = e
    BY <2>2
  <2>5. QED
    BY <1>1, <1>2, <2>1, <2>3, <2>4
<1>3. ASSUME NEW msg \in PeerMessages(c), IsRequest(c, e, msg), NEW n \in 1 .. Size(msg) - 1,
             taken[c] = e + n, codec[c] = CodecAt(msg, n)
      PROVE  \E m \in 0 .. Size(msg) - 1 : taken[c] = e + m /\ codec[c] = CodecAt(msg, m)
  <2>1. n \in 0 .. Size(msg) - 1
    OBVIOUS
  <2>2. QED
    BY <1>3, <2>1
<1>4. QED
  BY <1>1, <1>2, <1>3

\* What is to be read takes its codec further in the request.
LEMMA ReadResult ==
  ASSUME DataInv, NEW c \in Conns, at[c] = "read", taken[c] < sent[c],
         NEW n, n = Least(CanWriteLen(codec[c]), sent[c] - taken[c])
  PROVE  \E e \in Ends[c], msg \in PeerMessages(c) :
           /\ IsRequest(c, e, msg)
           /\ c \in open => back[c] = SubSeq(Wire[c], 1, e)
           /\ \E m \in 1 .. Size(msg) :
                /\ n \in Nat \ {0} /\ taken[c] + n = e + m /\ taken[c] + n <= sent[c]
                /\ DeCode(codec[c], SubSeq(Wire[c], taken[c] + 1, taken[c] + n)) = CodecAt(msg, m)
<1>1. ReadOK(c) /\ taken[c] \in Nat /\ sent[c] \in Nat /\ sent[c] <= Len(Wire[c])
  BY DEF DataInv, DataTypeOK, ConnOK
<1>2. taken[c] # Len(Wire[c])
  BY <1>1
<1>3. PICK e \in Ends[c], msg \in PeerMessages(c) :
           /\ IsRequest(c, e, msg)
           /\ c \in open => back[c] = SubSeq(Wire[c], 1, e)
           /\ \E i \in 0 .. Size(msg) - 1 : taken[c] = e + i /\ codec[c] = CodecAt(msg, i)
  BY <1>1, <1>2, ReadsRequest
<1>4. PICK i \in 0 .. Size(msg) - 1 : taken[c] = e + i /\ codec[c] = CodecAt(msg, i)
  BY <1>3
<1>5. /\ msg \in Seq(Byte) /\ Len(msg) < 256 ^ TINY_ECHO_HEAD_LEN
      /\ Len(msg) \in Nat /\ TINY_ECHO_HEAD_LEN \in 1 .. 4
      /\ Size(msg) \in Nat /\ Size(msg) = TINY_ECHO_HEAD_LEN + Len(msg)
      /\ e \in Nat
      /\ \A b \in 0 .. Size(msg) : \A a \in 0 .. b :
              SubSeq(Wire[c], (e + a) + 1, e + b) = SubSeq(EnCode(msg), a + 1, b)
  BY <1>3, RequestFacts
<1> DEFINE t == taken[c]
           s == sent[c]
           k == codec[c]
           S == Size(msg)
           room == CanWriteLen(k)
<1>6. k = CodecAt(msg, i) /\ t = e + i /\ i \in 0 .. S - 1 /\ i \in 0 .. S /\ S \in Nat /\ e \in Nat
      /\ t < s /\ s \in Nat
  BY <1>1, <1>4, <1>5
<1>7. room = (IF i < TINY_ECHO_HEAD_LEN THEN TINY_ECHO_HEAD_LEN ELSE S) - i
  <2>1. CanWriteLen(CodecAt(msg, i)) = (IF i < TINY_ECHO_HEAD_LEN THEN TINY_ECHO_HEAD_LEN ELSE S) - i
    BY <1>5, <1>6, CodecFacts
  <2>2. QED
    BY <1>6, <2>1
<1>8. n = IF room < s - t THEN room ELSE s - t
  BY DEF Least
<1> HIDE DEF t, s, k, S, room
<1>9. room \in Nat \ {0} /\ i \in Nat
  <2>1. TINY_ECHO_HEAD_LEN \in 1 .. 4
    BY <1>5
  <2>2. QED
    BY <1>6, <1>7, <2>1
<1>10. n \in 1 .. room /\ t + n <= s /\ n \in Nat \ {0}
  BY <1>6, <1>8, <1>9
<1>11. room = CanWriteLen(CodecAt(msg, i))
  BY <1>6 DEF room
<1>12. /\ i + n \in 1 .. S
       /\ DeCode(CodecAt(msg, i), SubSeq(EnCode(msg), i + 1, i + n)) = CodecAt(msg, i + n)
  <2>1. n \in 1 .. CanWriteLen(CodecAt(msg, i)) /\ i \in 0 .. Size(msg) - 1
    BY <1>6, <1>10, <1>11 DEF S
  <2>2. msg \in Seq(Byte) /\ Len(msg) < 256 ^ TINY_ECHO_HEAD_LEN
    BY <1>5
  <2>3. QED
    BY <2>1, <2>2, DeCodeReads DEF S
<1>13. SubSeq(Wire[c], t + 1, t + n) = SubSeq(EnCode(msg), i + 1, i + n)
  <2>1. i + n \in 0 .. S /\ i \in 0 .. i + n /\ e + (i + n) = t + n /\ t = e + i
    BY <1>6, <1>9, <1>10, <1>12
  <2>2. SubSeq(Wire[c], (e + i) + 1, e + (i + n)) = SubSeq(EnCode(msg), i + 1, i + n)
    BY <1>5, <2>1 DEF S
  <2>3. QED
    BY <2>1, <2>2
<1>14. DeCode(k, SubSeq(Wire[c], t + 1, t + n)) = CodecAt(msg, i + n)
  BY <1>6, <1>12, <1>13
<1>15. t + n = e + (i + n)
  BY <1>6, <1>9, <1>10
<1>16. \E m \in 1 .. S :
         /\ n \in Nat \ {0} /\ t + n = e + m /\ t + n <= s
         /\ DeCode(k, SubSeq(Wire[c], t + 1, t + n)) = CodecAt(msg, m)
  BY <1>10, <1>12, <1>14, <1>15
<1>17. QED
  BY <1>3, <1>16 DEF t, s, k, S

\* A read keeps the requests apart.
LEMMA ReadKeepsData ==
  ASSUME PlaceInv, DataInv, NEW c \in Conns, Read(c)
  PROVE  DataInv'
<1> DEFINE n == Least(CanWriteLen(codec[c]), sent[c] - taken[c])
<1>1. /\ at[c] = "read" /\ taken[c] < sent[c]
      /\ taken' = [taken EXCEPT ![c] = @ + n] /\ UNCHANGED <<open, sent, back, got>>
  BY DEF Read
<1>2. PICK k \in {DeCode(codec[c], SubSeq(Wire[c], taken[c] + 1, taken[c] + n))} :
        /\ codec' = [codec EXCEPT ![c] = k]
        /\ IF HasMessage(k)
             THEN /\ at' = [at EXCEPT ![c] = "write"]
                  /\ pkt' = [pkt EXCEPT ![c] = EnCode(k.msg_)]
             ELSE UNCHANGED <<at, pkt>>
  BY DEF Read
<1> HIDE DEF n
<1>3. PICK e \in Ends[c], msg \in PeerMessages(c) :
           /\ IsRequest(c, e, msg)
           /\ c \in open => back[c] = SubSeq(Wire[c], 1, e)
           /\ \E m \in 1 .. Size(msg) :
                /\ n \in Nat \ {0} /\ taken[c] + n = e + m /\ taken[c] + n <= sent[c]
                /\ DeCode(codec[c], SubSeq(Wire[c], taken[c] + 1, taken[c] + n)) = CodecAt(msg, m)
  BY <1>1, ReadResult DEF n
<1>4. PICK m \in 1 .. Size(msg) :
                /\ n \in Nat \ {0} /\ taken[c] + n = e + m /\ taken[c] + n <= sent[c]
                /\ DeCode(codec[c], SubSeq(Wire[c], taken[c] + 1, taken[c] + n)) = CodecAt(msg, m)
  BY <1>3
<1>5. k = CodecAt(msg, m)
  BY <1>2, <1>4
<1>6. /\ msg \in Seq(Byte) /\ e \in Nat /\ Size(msg) \in Nat /\ TINY_ECHO_HEAD_LEN \in 1 .. 4
      /\ Size(msg) = TINY_ECHO_HEAD_LEN + Len(msg)
      /\ \A b \in 0 .. Size(msg) : \A a \in 0 .. b :
              SubSeq(Wire[c], (e + a) + 1, e + b) = SubSeq(EnCode(msg), a + 1, b)
  BY <1>3, RequestFacts
<1>7. /\ k \in CodecType /\ (HasMessage(k) <=> m = Size(msg))
      /\ k.msg_ = IF m = Size(msg) THEN msg ELSE <<>>
  <2>1. m \in 0 .. Size(msg)
    BY <1>6
  <2>2. QED
    BY <1>5, <1>6, <2>1, CodecFacts DEF CodecType
<1>8. EnCode(msg) \in Seq(Byte) /\ Len(EnCode(msg)) = Size(msg)
  BY <1>6, EnCodeLength
<1>9. at \in [Conns -> {"closed", "backlog", "accepted", "queued", "read", "write"}]
      /\ DataTypeOK /\ ReadOK(c)
  BY <1>1 DEF PlaceInv, PlaceTypeOK, DataInv, ConnOK
<1>10. /\ taken'[c] = e + m /\ codec'[c] = CodecAt(msg, m)
       /\ \A d \in Conns : d # c => taken'[d] = taken[d] /\ codec'[d] = codec[d]
  BY <1>1, <1>2, <1>4, <1>5, <1>9 DEF DataTypeOK
<1>11. IF m = Size(msg) THEN at'[c] = "write" /\ pkt'[c] = EnCode(msg)
                        ELSE at'[c] = "read" /\ pkt'[c] = pkt[c]
  BY <1>1, <1>2, <1>7, <1>9 DEF DataTypeOK
<1>12. \A d \in Conns : d # c => at'[d] = at[d] /\ pkt'[d] = pkt[d]
  BY <1>2, <1>9 DEF DataTypeOK
<1>13. DataTypeOK'
  <2>1. taken' \in [Conns -> Nat]
    BY <1>1, <1>4, <1>9 DEF DataTypeOK
  <2>2. codec' \in [Conns -> CodecType]
    BY <1>2, <1>7, <1>9 DEF DataTypeOK
  <2>3. pkt' \in [Conns -> Seq(Byte)]
    <3>1. HasMessage(k) => k.msg_ = msg
      BY <1>7
    <3>2. pkt' = pkt \/ pkt' = [pkt EXCEPT ![c] = EnCode(msg)]
      BY <1>2, <3>1
    <3>3. QED
      BY <1>8, <1>9, <3>2 DEF DataTypeOK
  <2>4. \A d \in Conns : taken'[d] <= sent[d]
    BY <1>4, <1>9, <1>10 DEF DataTypeOK
  <2>5. QED
    BY <1>1, <1>9, <2>1, <2>2, <2>3, <2>4 DEF DataTypeOK
<1>14. ConnOK(c)'
  <2>1. CASE m = Size(msg)
    <3>1. SubSeq(EnCode(msg), 0 + 1, Size(msg)) = EnCode(msg) /\ 0 \in 0 .. Size(msg) - 1 /\ e + 0 = e
      <4>1. SubSeq(EnCode(msg), 1, Len(EnCode(msg))) = EnCode(msg)
        BY <1>8, SubSeqFull
      <4>2. QED
        BY <1>6, <1>8, <4>1
    <3>2. c \in open' => back'[c] = SubSeq(Wire[c], 1, e + 0)
      BY <1>1, <1>3, <3>1
    <3>3. pkt'[c] = Rest(msg, 0)
      BY <1>11, <2>1, <3>1 DEF Rest
    <3>4. taken'[c] = e + Size(msg) /\ codec'[c] = CodecAt(msg, Size(msg))
      BY <1>10, <2>1
    <3>5. WriteOK(c)'
      BY <1>3, <3>1, <3>2, <3>3, <3>4 DEF WriteOK
    <3>6. QED
      BY <1>11, <2>1, <3>5 DEF ConnOK, InHandler
  <2>2. CASE m # Size(msg)
    <3>1. m \in 1 .. Size(msg) - 1
      BY <1>6, <2>2
    <3>2. pkt'[c] = <<>> /\ at'[c] = "read"
      BY <1>9, <1>11, <2>2 DEF ReadOK
    <3>3. c \in open' => back'[c] = SubSeq(Wire[c], 1, e)
      BY <1>1, <1>3
    <3>4. ReadOK(c)'
      BY <1>3, <1>10, <3>1, <3>2, <3>3 DEF ReadOK
    <3>5. QED
      BY <3>2, <3>4 DEF ConnOK, InHandler
  <2>3. QED
    BY <2>1, <2>2
<1>15. ASSUME NEW d \in Conns, d # c PROVE ConnOK(d)'
  BY <1>1, <1>10, <1>12, <1>15, ConnStays DEF DataInv
<1>16. QED
  BY <1>13, <1>14, <1>15 DEF DataInv

\* What a write adds is the next part of the request, and leaves what comes after it.
LEMMA WriteResult ==
  ASSUME NEW c \in Conns, NEW e \in Ends[c], NEW msg \in PeerMessages(c), IsRequest(c, e, msg),
         NEW j \in 0 .. Size(msg) - 1, NEW n \in 1 .. Size(msg) - j
  PROVE  /\ j + n \in 1 .. Size(msg)
         /\ SubSeq(Rest(msg, j), n + 1, Size(msg) - j) = Rest(msg, j + n)
         /\ Rest(msg, j + n) \in Seq(Byte)
         /\ Rest(msg, j + n) = <<>> <=> j + n = Size(msg)
         /\ SubSeq(Wire[c], 1, e + j) \o SubSeq(Rest(msg, j), 1, n) = SubSeq(Wire[c], 1, e + (j + n))
         /\ Len(SubSeq(Wire[c], 1, e + j)) = e + j
         /\ Len(SubSeq(Wire[c], 1, e + (j + n))) = e + (j + n)
<1> DEFINE S == Size(msg)
           E == EnCode(msg)
           W == Wire[c]
           p == Rest(msg, j)
<1>1. /\ msg \in Seq(Byte) /\ Len(msg) < 256 ^ TINY_ECHO_HEAD_LEN
      /\ S = TINY_ECHO_HEAD_LEN + Len(msg)
      /\ \A b \in 0 .. S : \A a \in 0 .. b : SubSeq(W, (e + a) + 1, e + b) = SubSeq(E, a + 1, b)
  BY RequestFacts
<1>2. S \in Nat /\ e \in Nat /\ Len(W) \in Nat /\ e + S <= Len(W) /\ j \in 0 .. S - 1
  BY RequestFacts
<1>3. W \in Seq(Byte)
  BY WireSplit
<1>4. E \in Seq(Byte) /\ Len(E) = S
  BY <1>1, EnCodeLength
<1>5. p = SubSeq(E, j + 1, S) /\ Rest(msg, j + n) = SubSeq(E, (j + n) + 1, S) /\ n \in 1 .. S - j
  BY DEF Rest
<1> HIDE DEF S, E, W, p
<1>6. p \in Seq(Byte) /\ Len(p) = S - j
  <2>1. S \in 0 .. Len(E) /\ j \in 0 .. S
    BY <1>2, <1>4
  <2>2. SubSeq(E, j + 1, S) \in Seq(Byte) /\ Len(SubSeq(E, j + 1, S)) = S - j
    BY <1>4, <2>1, Part
  <2>3. QED
    BY <1>5, <2>2
<1>7. n \in 1 .. S - j /\ j + n \in 1 .. S /\ j \in Nat /\ n \in Nat
  BY <1>2, <1>5
<1>8. SubSeq(p, n + 1, S - j) = SubSeq(E, (j + n) + 1, S)
  <2>1. /\ S \in 0 .. Len(E) /\ j \in 0 .. S /\ S - j \in 0 .. S - j /\ n \in 0 .. S - j
        /\ j + (S - j) = S
    BY <1>2, <1>4, <1>7
  <2>2. SubSeq(SubSeq(E, j + 1, S), n + 1, S - j) = SubSeq(E, (j + n) + 1, j + (S - j))
    BY <1>4, <2>1, PartOfPart
  <2>3. QED
    BY <1>5, <2>1, <2>2
<1>9. SubSeq(p, n + 1, S - j) \in Seq(Byte) /\ Len(SubSeq(p, n + 1, S - j)) = (S - j) - n
  <2>1. S - j \in 0 .. Len(p) /\ n \in 0 .. S - j
    BY <1>2, <1>6, <1>7
  <2>2. QED
    BY <1>6, <2>1, Part
<1>10. SubSeq(p, n + 1, S - j) = <<>> <=> j + n = S
  <2>1. SubSeq(p, n + 1, S - j) = <<>> <=> Len(SubSeq(p, n + 1, S - j)) = 0
    BY <1>9, EmptySeq
  <2>2. (S - j) - n = 0 <=> j + n = S
    BY <1>2, <1>7
  <2>3. QED
    BY <1>9, <2>1, <2>2
<1>11. SubSeq(p, 1, n) = SubSeq(W, (e + j) + 1, e + (j + n))
  <2>1. /\ S \in 0 .. Len(E) /\ j \in 0 .. S /\ n \in 0 .. S - j /\ 0 \in 0 .. n
        /\ j + 0 = j /\ 0 + 1 = 1
    BY <1>2, <1>4, <1>7
  <2>2. SubSeq(SubSeq(E, j + 1, S), 0 + 1, n) = SubSeq(E, (j + 0) + 1, j + n)
    BY <1>4, <2>1, PartOfPart
  <2>3. SubSeq(p, 1, n) = SubSeq(E, j + 1, j + n)
    BY <1>5, <2>1, <2>2
  <2>4. j + n \in 0 .. S /\ j \in 0 .. j + n
    BY <1>7
  <2>5. QED
    BY <1>1, <2>3, <2>4
<1>12. SubSeq(W, 1, e + j) \o SubSeq(W, (e + j) + 1, e + (j + n)) = SubSeq(W, 1, e + (j + n))
  <2>1. /\ e + (j + n) \in 0 .. Len(W) /\ e + j \in 0 .. e + (j + n) /\ 0 \in 0 .. e + j /\ 0 + 1 = 1
    BY <1>2, <1>7
  <2>2. SubSeq(W, 0 + 1, e + j) \o SubSeq(W, (e + j) + 1, e + (j + n)) = SubSeq(W, 0 + 1, e + (j + n))
    BY <1>3, <2>1, AdjacentParts
  <2>3. QED
    BY <2>1, <2>2
<1>13. Len(SubSeq(W, 1, e + j)) = e + j /\ Len(SubSeq(W, 1, e + (j + n))) = e + (j + n)
  <2>1. /\ e + (j + n) \in 0 .. Len(W) /\ e + j \in 0 .. Len(W) /\ 0 \in 0 .. e + j
        /\ 0 \in 0 .. e + (j + n) /\ 0 + 1 = 1
        /\ (e + j) - 0 = e + j /\ (e + (j + n)) - 0 = e + (j + n)
    BY <1>2, <1>7
  <2>2. Len(SubSeq(W, 0 + 1, e + j)) = (e + j) - 0
    BY <1>3, <2>1, Part
  <2>3. Len(SubSeq(W, 0 + 1, e + (j + n))) = (e + (j + n)) - 0
    BY <1>3, <2>1, Part
  <2>4. QED
    BY <2>1, <2>2, <2>3
<1>14. /\ j + n \in 1 .. S
       /\ SubSeq(p, n + 1, S - j) = Rest(msg, j + n)
       /\ Rest(msg, j + n) \in Seq(Byte)
       /\ Rest(msg, j + n) = <<>> <=> j + n = S
       /\ SubSeq(W, 1, e + j) \o SubSeq(p, 1, n) = SubSeq(W, 1, e + (j + n))
  BY <1>5, <1>7, <1>8, <1>9, <1>10, <1>11, <1>12
<1>15. QED
  BY <1>13, <1>14 DEF S, W, p

\* Its length.
LEMMA RestLength ==
  ASSUME NEW msg \in Seq(Byte), NEW j \in 0 .. Size(msg)
  PROVE  Rest(msg, j) \in Seq(Byte) /\ Len(Rest(msg, j)) = Size(msg) - j
<1>1. Len(msg) \in Nat /\ TINY_ECHO_HEAD_LEN \in 1 .. 4 /\ Size(msg) = TINY_ECHO_HEAD_LEN + Len(msg)
  BY LenProperties, CodecAssumption DEF Size
<1>2. Size(msg) \in Nat
  BY <1>1
<1>3. EnCode(msg) \in Seq(Byte) /\ Len(EnCode(msg)) = Size(msg)
  BY <1>1, EnCodeLength
<1>4. Size(msg) \in 0 .. Len(EnCode(msg))
  BY <1>2, <1>3
<1>5. QED
  BY <1>3, <1>4, Part DEF Rest

\* The last of an answer is written, or lost: the next request is read.
LEMMA AnswerEnds ==
  ASSUME NEW c \in Conns, NEW e \in Ends[c], NEW msg \in PeerMessages(c), IsRequest(c, e, msg),
         taken'[c] = e + Size(msg), codec'[c] = NewCodec, pkt'[c] = <<>>,
         c \in open' => back'[c] = SubSeq(Wire[c], 1, e + Size(msg))
  PROVE  ReadOK(c)'
<1>1. e + Size(msg) \in Ends[c]
  BY DEF IsRequest
<1>2. QED
  BY <1>1 DEF ReadOK

\* A write keeps the answers apart.
LEMMA WriteKeepsData ==
  ASSUME PlaceInv, DataInv, NEW c \in Conns, Write(c)
  PROVE  DataInv'
<1>1. /\ at[c] = "write" /\ UNCHANGED <<open, sent, taken, got>>
      /\ at \in [Conns -> {"closed", "backlog", "accepted", "queued", "read", "write"}]
  BY DEF Write, PlaceInv, PlaceTypeOK
<1>2. DataTypeOK /\ WriteOK(c)
  BY <1>1 DEF DataInv, ConnOK
<1>3. PICK e \in Ends[c], msg \in PeerMessages(c) :
        /\ IsRequest(c, e, msg)
        /\ taken[c] = e + Size(msg) /\ codec[c] = CodecAt(msg, Size(msg))
        /\ \E j \in 0 .. Size(msg) - 1 :
             /\ pkt[c] = Rest(msg, j)
             /\ c \in open => back[c] = SubSeq(Wire[c], 1, e + j)
  BY <1>2 DEF WriteOK
<1>4. PICK j \in 0 .. Size(msg) - 1 :
             /\ pkt[c] = Rest(msg, j)
             /\ c \in open => back[c] = SubSeq(Wire[c], 1, e + j)
  BY <1>3
<1> DEFINE n == Least(CanWrite(c), Len(pkt[c]))
           p == SubSeq(pkt[c], n + 1, Len(pkt[c]))
<1>5. c \in open => /\ n > 0
                    /\ back' = [back EXCEPT ![c] = @ \o SubSeq(pkt[c], 1, n)]
                    /\ pkt' = [pkt EXCEPT ![c] = p]
  BY DEF Write
<1>6. c \notin open => pkt' = [pkt EXCEPT ![c] = <<>>] /\ UNCHANGED back
  BY DEF Write
<1>7. IF pkt'[c] = <<>>
        THEN at' = [at EXCEPT ![c] = "read"] /\ codec' = [codec EXCEPT ![c] = NewCodec]
        ELSE UNCHANGED <<at, codec>>
  BY DEF Write, NextCodec
<1> HIDE DEF p
<1>8. \A d \in Conns : d # c => /\ at'[d] = at[d] /\ codec'[d] = codec[d] /\ pkt'[d] = pkt[d]
                                /\ back'[d] = back[d]
  BY <1>1, <1>2, <1>5, <1>6, <1>7 DEF DataTypeOK
<1>9. codec' \in [Conns -> CodecType]
  BY <1>2, <1>7, NewCodecTyped DEF DataTypeOK
<1>10. ASSUME NEW d \in Conns, d # c PROVE ConnOK(d)'
  BY <1>1, <1>8, <1>10, ConnStays DEF DataInv
<1>11. CASE c \in open
  <2>1. /\ Len(back[c]) \in Nat /\ Len(pkt[c]) \in Nat /\ got[c] \in Nat /\ Room \in Nat
        /\ got[c] <= Len(back[c]) /\ Len(back[c]) - got[c] <= Room
    BY <1>2, LenProperties, HandlersAssumption DEF DataTypeOK
  <2>2. n \in 1 .. Len(pkt[c]) /\ n \in Nat /\ (Len(back[c]) + n) - got[c] <= Room
    <3>1. n = IF CanWrite(c) < Len(pkt[c]) THEN CanWrite(c) ELSE Len(pkt[c])
      BY DEF Least
    <3>2. CanWrite(c) = Room - (Len(back[c]) - got[c]) /\ n > 0
      BY <1>5, <1>11 DEF CanWrite
    <3> DEFINE room == CanWrite(c)
               L == Len(pkt[c])
               B == Len(back[c])
               g == got[c]
    <3>3. /\ n = (IF room < L THEN room ELSE L) /\ room = Room - (B - g) /\ n > 0
          /\ B \in Nat /\ L \in Nat /\ g \in Nat /\ Room \in Nat /\ g <= B
      BY <2>1, <3>1, <3>2
    <3> HIDE DEF n, room, L, B, g
    <3>4. n \in 1 .. L /\ n \in Nat /\ (B + n) - g <= Room
      BY <3>3
    <3>5. QED
      BY <3>4 DEF L, B, g
  <2> HIDE DEF n
  <2>3. /\ Len(pkt[c]) = Size(msg) - j /\ j + n \in 1 .. Size(msg)
        /\ p = Rest(msg, j + n)
        /\ p \in Seq(Byte)
        /\ p = <<>> <=> j + n = Size(msg)
        /\ SubSeq(Wire[c], 1, e + j) \o SubSeq(pkt[c], 1, n) = SubSeq(Wire[c], 1, e + (j + n))
        /\ Len(SubSeq(Wire[c], 1, e + j)) = e + j
        /\ Len(SubSeq(Wire[c], 1, e + (j + n))) = e + (j + n)
    <3>1. IsRequest(c, e, msg) /\ msg \in Seq(Byte) /\ Size(msg) \in Nat /\ j \in 0 .. Size(msg)
      BY <1>3, RequestFacts
    <3>2. pkt[c] = Rest(msg, j) /\ Len(Rest(msg, j)) = Size(msg) - j
      BY <1>4, <3>1, RestLength DEF Rest
    <3>3. n \in 1 .. Size(msg) - j
      BY <2>2, <3>2
    <3>4. /\ j + n \in 1 .. Size(msg)
          /\ SubSeq(Rest(msg, j), n + 1, Size(msg) - j) = Rest(msg, j + n)
          /\ Rest(msg, j + n) \in Seq(Byte)
          /\ Rest(msg, j + n) = <<>> <=> j + n = Size(msg)
          /\ SubSeq(Wire[c], 1, e + j) \o SubSeq(Rest(msg, j), 1, n) = SubSeq(Wire[c], 1, e + (j + n))
          /\ Len(SubSeq(Wire[c], 1, e + j)) = e + j
          /\ Len(SubSeq(Wire[c], 1, e + (j + n))) = e + (j + n)
      BY <3>1, <3>3, WriteResult
    <3>5. p = SubSeq(Rest(msg, j), n + 1, Size(msg) - j)
      BY <3>2 DEF p, n
    <3>6. QED
      BY <3>2, <3>4, <3>5
  <2>4. /\ pkt'[c] = p /\ back'[c] = SubSeq(Wire[c], 1, e + (j + n))
        /\ Len(back'[c]) = Len(back[c]) + n
    <3>1. pkt'[c] = p /\ back'[c] = back[c] \o SubSeq(pkt[c], 1, n)
      BY <1>2, <1>5, <1>11 DEF DataTypeOK
    <3>2. back[c] = SubSeq(Wire[c], 1, e + j)
      BY <1>4, <1>11
    <3>3. e \in Nat /\ j \in Nat
      BY <1>3, RequestFacts
    <3>4. e + (j + n) = (e + j) + n
      BY <2>2, <3>3
    <3>5. QED
      BY <2>3, <3>1, <3>2, <3>4
  <2>5. DataTypeOK'
    <3>1. pkt' \in [Conns -> Seq(Byte)]
      BY <1>2, <1>5, <1>11, <2>3 DEF DataTypeOK
    <3>2. SubSeq(Wire[c], 1, e + (j + n)) \in Seq(Byte)
      <4>1. /\ Wire[c] \in Seq(Byte) /\ Len(Wire[c]) \in Nat /\ e \in Nat /\ Size(msg) \in Nat
            /\ e + Size(msg) <= Len(Wire[c])
        BY <1>3, WireSplit, RequestFacts
      <4>2. e + (j + n) \in 0 .. Len(Wire[c]) /\ 0 \in 0 .. e + (j + n) /\ 0 + 1 = 1
        <5>1. j + n \in 1 .. Size(msg)
          BY <2>3
        <5>2. /\ Len(Wire[c]) \in Nat /\ e \in Nat /\ Size(msg) \in Nat
              /\ e + Size(msg) <= Len(Wire[c])
          BY <4>1
        <5>3. QED
          BY <5>1, <5>2
      <4>3. SubSeq(Wire[c], 0 + 1, e + (j + n)) \in Seq(Byte)
        BY <4>1, <4>2, Part
      <4>4. QED
        BY <4>2, <4>3
    <3>3. back' = [back EXCEPT ![c] = SubSeq(Wire[c], 1, e + (j + n))]
      <4>1. back[c] \o SubSeq(pkt[c], 1, n) = SubSeq(Wire[c], 1, e + (j + n))
        BY <1>4, <1>11, <2>3
      <4>2. QED
        BY <1>5, <1>11, <4>1
    <3>4. back' \in [Conns -> Seq(Byte)]
      BY <1>2, <3>2, <3>3 DEF DataTypeOK
    <3>5. \A d \in Conns : got[d] <= Len(back'[d]) /\ Len(back'[d]) - got[d] <= Room
      <4>1. got[c] <= Len(back'[c]) /\ Len(back'[c]) - got[c] <= Room
        <5>1. Len(back'[c]) = Len(back[c]) + n
          BY <2>4
        <5>2. n \in Nat /\ (Len(back[c]) + n) - got[c] <= Room
          BY <2>2
        <5>3. QED
          BY <2>1, <5>1, <5>2
      <4>2. QED
        BY <1>2, <1>8, <4>1 DEF DataTypeOK
    <3>6. QED
      BY <1>1, <1>2, <1>9, <3>1, <3>4, <3>5 DEF DataTypeOK
  <2>6. ConnOK(c)'
    <3>1. CASE p = <<>>
      <4>1. at'[c] = "read" /\ codec'[c] = NewCodec /\ pkt'[c] = <<>>
        BY <1>1, <1>2, <1>7, <2>4, <3>1 DEF DataTypeOK
      <4>2. taken'[c] = e + Size(msg) /\ back'[c] = SubSeq(Wire[c], 1, e + Size(msg))
        BY <1>1, <1>3, <2>3, <2>4, <3>1
      <4>3. ReadOK(c)'
        BY <1>3, <4>1, <4>2, AnswerEnds
      <4>4. QED
        BY <4>1, <4>3 DEF ConnOK, InHandler
    <3>2. CASE p # <<>>
      <4>1. at'[c] = "write" /\ codec'[c] = codec[c] /\ taken'[c] = taken[c]
        BY <1>1, <1>7, <2>4, <3>2
      <4>2. j + n \in 0 .. Size(msg) - 1
        <5>1. j + n \in 1 .. Size(msg) /\ j + n # Size(msg)
          BY <2>3, <3>2
        <5>2. Size(msg) \in Nat
          BY <1>3, RequestFacts
        <5>3. QED
          BY <5>1, <5>2
      <4>3. WriteOK(c)'
        BY <1>3, <2>3, <2>4, <4>1, <4>2 DEF WriteOK
      <4>4. QED
        BY <4>1, <4>3 DEF ConnOK, InHandler
    <3>3. QED
      BY <3>1, <3>2
  <2>7. QED
    BY <1>10, <2>5, <2>6 DEF DataInv
<1>12. CASE c \notin open
  <2>1. pkt' = [pkt EXCEPT ![c] = <<>>] /\ UNCHANGED back
    BY <1>6, <1>12
  <2>2. pkt'[c] = <<>>
    BY <1>2, <2>1 DEF DataTypeOK
  <2>3. at'[c] = "read" /\ codec'[c] = NewCodec
    BY <1>1, <1>2, <1>7, <2>2 DEF DataTypeOK
  <2>4. DataTypeOK'
    <3>1. <<>> \in Seq(Byte)
      BY EmptySeq
    <3>2. pkt' \in [Conns -> Seq(Byte)]
      BY <1>2, <2>1, <3>1 DEF DataTypeOK
    <3>3. QED
      BY <1>1, <1>2, <1>9, <2>1, <3>2 DEF DataTypeOK
  <2>5. ReadOK(c)'
    BY <1>1, <1>3, <1>12, <2>2, <2>3, AnswerEnds
  <2>6. ConnOK(c)'
    BY <2>3, <2>5 DEF ConnOK, InHandler
  <2>7. QED
    BY <1>10, <2>4, <2>6 DEF DataInv
<1>13. QED
  BY <1>11, <1>12

\* A step of a handler.
LEMMA HandlerKeepsData ==
  ASSUME PlaceInv, DataInv, NEW c \in Conns, HandlerStep(c)
  PROVE  DataInv'
<1>1. CASE Yields(c)
  BY <1>1, DataStays DEF Yields
<1>2. CASE Fails(c)
  <2>1. Close({c}) \/ ProcessEnds(worker[c])
    BY <1>2 DEF Fails, PipeBreaks
  <2>2. {c} \in SUBSET Conns
    OBVIOUS
  <2>3. QED
    BY <2>1, <2>2, CloseKeepsData, ProcessEndsKeepsData
<1>3. QED
  BY <1>1, <1>2, ReadKeepsData, WriteKeepsData DEF HandlerStep

\* A handler starts, or goes on when an event resumes it.
LEMMA ServeKeepsData ==
  ASSUME PlaceInv, DataInv, NEW c \in Conns, NEW w, at[c] \notin InHandler, Serve(c, w)
  PROVE  DataInv'
<1>1. at' = [at EXCEPT ![c] = "read"] /\ UNCHANGED <<handler_vars, socket_vars>>
  BY DEF Serve
<1>2. \A d \in Conns : at'[d] = at[d] \/ (at[d] \notin InHandler /\ at'[d] = "read")
  BY <1>1 DEF PlaceInv, PlaceTypeOK
<1>3. QED
  BY <1>1, <1>2, DataStays

\* A step of a worker.
LEMMA WorkerKeepsData ==
  ASSUME PlaceInv, DataInv, NEW w \in Workers, WorkerStep(w)
  PROVE  DataInv'
<1>1. PlaceTypeOK /\ BacklogOK /\ QueueOK /\ ServesOK /\ EventsOK /\ ArmedOK /\ None \notin Conns
      /\ server \in Servers
  BY HandlersAssumption DEF PlaceInv, PlaceTypeOK
<1>2. CASE BecomeLeader(w)
  BY <1>2, DataStays DEF BecomeLeader
<1>3. CASE Accept(w)
  <2>1. Accepted(w) \in Conns /\ at[Accepted(w)] = "backlog" /\ Serve(Accepted(w), w)
    BY <1>3, AcceptsOne DEF Accept
  <2>2. at[Accepted(w)] \notin InHandler
    BY <2>1 DEF InHandler
  <2>3. QED
    BY <2>1, <2>2, ServeKeepsData
<1>4. CASE ForkFails(w)
  <2>1. Accepted(w) \in Conns /\ Close({Accepted(w)})
    BY <1>4, AcceptsOne DEF ForkFails
  <2>2. {Accepted(w)} \in SUBSET Conns
    BY <2>1
  <2>3. QED
    BY <2>1, <2>2, CloseKeepsData
<1>5. CASE Wait(w)
  BY <1>5, DataStays DEF Wait
<1>6. CASE HandleEvent(w)
  <2>1. CASE AcceptAll(w)
    <3> DEFINE waits == backlog[Listener(w)]
               n == IF Len(waits) < server.accepts THEN Len(waits) ELSE server.accepts
               C == ToSet(SubSeq(waits, 1, n))
    <3>1. at' = [c \in Conns |-> IF c \in C THEN "accepted" ELSE at[c]]
          /\ UNCHANGED <<handler_vars, socket_vars>>
      BY <2>1 DEF AcceptAll
    <3>2. Listener(w) \in Workers
      BY <1>1, ServerFacts
    <3>3. waits \in Seq(Conns) /\ IsInjective(waits)
      BY <1>1, <3>2 DEF PlaceTypeOK, BacklogOK
    <3>4. n \in 0 .. Len(waits)
      <4>1. server.accepts \in Nat /\ Len(waits) \in Nat
        BY <1>1, <3>3, ServerFacts, LenProperties
      <4> HIDE DEF waits
      <4>2. QED
        BY <4>1
    <3> HIDE DEF n
    <3>5. C \subseteq ToSet(waits) /\ ToSet(waits) \subseteq Conns
      BY <3>3, <3>4, SplitEntries, EntriesTyped
    <3>6. \A c \in C : at[c] = "backlog"
      BY <1>1, <3>2, <3>5 DEF BacklogOK
    <3> HIDE DEF C
    <3>7. \A c \in Conns : at'[c] = at[c] \/ (at[c] \notin InHandler /\ at'[c] \notin InHandler)
      BY <3>1, <3>6 DEF InHandler
    <3>8. QED
      BY <3>1, <3>7, DataStays
  <2>2. ASSUME NEW c \in events[w] \cap Conns,
               CallHandler(w, c) \/ CreateHandler(w, c) \/ PoolIsFull(w, c) \/ Resume(w, c)
               \/ Produce(w, c)
        PROVE  DataInv'
    <3>1. CASE CallHandler(w, c)
      <4>1. InWorker /\ serves[w] = None /\ worker[c] = w /\ Serve(c, w)
        BY <1>1, <1>6, <3>1 DEF HandleEvent, CallHandler, EventsOK
      <4>2. at[c] \notin InHandler
        BY <1>1, <4>1 DEF ServesOK
      <4>3. QED
        BY <4>1, <4>2, ServeKeepsData
    <3>2. CASE CreateHandler(w, c)
      <4>1. at[c] \notin InHandler /\ Serve(c, w)
        BY <3>2 DEF CreateHandler, InHandler
      <4>2. QED
        BY <4>1, ServeKeepsData
    <3>3. CASE PoolIsFull(w, c)
      BY <3>3, ProcessEndsKeepsData DEF PoolIsFull
    <3>4. CASE Resume(w, c)
      BY <3>4, DataStays DEF Resume
    <3>5. CASE Produce(w, c)
      <4>1. /\ at[c] = "accepted" /\ at' = [at EXCEPT ![c] = "queued"]
            /\ UNCHANGED <<handler_vars, socket_vars>>
        BY <3>5 DEF Produce
      <4>2. \A d \in Conns : at'[d] = at[d] \/ (at[d] \notin InHandler /\ at'[d] \notin InHandler)
        BY <1>1, <4>1 DEF PlaceTypeOK, InHandler
      <4>3. QED
        BY <4>1, <4>2, DataStays
    <3>6. QED
      BY <2>2, <3>1, <3>2, <3>3, <3>4, <3>5
  <2>3. QED
    BY <1>6, <2>1, <2>2 DEF HandleEvent
<1>7. CASE AfterEvents(w)
  BY <1>7, DataStays DEF AfterEvents
<1>8. CASE Consume(w)
  <2>1. q # <<>> /\ Serve(Head(q), w)
    BY <1>8 DEF Consume
  <2>2. Head(q) \in ToSet(q) /\ ToSet(q) \subseteq Conns
    BY <1>1, <2>1, TailEntries, EntriesTyped DEF PlaceTypeOK, QueueOK
  <2>3. Head(q) \in Conns /\ at[Head(q)] \notin InHandler
    BY <1>1, <2>2 DEF QueueOK, InHandler
  <2>4. QED
    BY <2>1, <2>3, ServeKeepsData
<1>9. CASE CoCondResumeNobody(w)
  <2>1. CASE ProcessEnds(w)
    BY <2>1, ProcessEndsKeepsData
  <2>2. CASE UNCHANGED <<at, handler_vars, socket_vars>>
    BY <2>2, DataStays
  <2>3. QED
    BY <1>9, <2>1, <2>2 DEF CoCondResumeNobody
<1>10. CASE TurnEnds(w)
  BY <1>10, DataStays DEF TurnEnds
<1>11. QED
  BY <1>2, <1>3, <1>4, <1>5, <1>6, <1>7, <1>8, <1>9, <1>10
     DEF WorkerStep, CoSemaphoreResume, CoCondResume

\* When the server starts nothing is read or written.
LEMMA InitData ==
  ASSUME HandlersInit
  PROVE  DataInv
<1>1. <<>> \in Seq(Byte) /\ Len(<<>>) = 0 /\ NewCodec \in CodecType /\ Room \in Nat
  BY EmptySeq, NewCodecTyped, HandlersAssumption
<1>2. /\ at = [c \in Conns |-> "closed"]
      /\ codec = [c \in Conns |-> NewCodec] /\ pkt = [c \in Conns |-> <<>>]
      /\ open = {}
      /\ sent = [c \in Conns |-> 0] /\ taken = sent /\ got = sent
      /\ back = [c \in Conns |-> <<>>]
  BY DEF HandlersInit
<1>3. ASSUME NEW c \in Conns
      PROVE  /\ taken[c] <= sent[c] /\ sent[c] <= Len(Wire[c])
             /\ got[c] <= Len(back[c]) /\ Len(back[c]) - got[c] <= Room
  <2>1. Len(Wire[c]) \in Nat
    BY WireSplit, LenProperties
  <2>2. taken[c] = 0 /\ sent[c] = 0 /\ got[c] = 0 /\ Len(back[c]) = 0
    BY <1>1, <1>2
  <2>3. QED
    BY <1>1, <2>1, <2>2
<1>4. DataTypeOK
  BY <1>1, <1>2, <1>3 DEF DataTypeOK
<1>5. \A c \in Conns : ConnOK(c)
  BY <1>2 DEF ConnOK, Fresh, InHandler
<1>6. QED
  BY <1>4, <1>5 DEF DataInv

\* Every step keeps it.
LEMMA NextKeepsData ==
  ASSUME PlaceInv, DataInv, [HandlersNext]_server_vars
  PROVE  DataInv'
<1>1. CASE UNCHANGED server_vars
  BY <1>1, DataStays DEF server_vars
<1>2. QED
  BY <1>1, HandlerKeepsData, ConnectKeepsData, PeerKeepsData, WorkerKeepsData DEF HandlersNext

-----------------------------------------------------------------------------
(* The theorems.                                                           *)

\* The inductive invariant holds in all states.
THEOREM ServersStayOK == HandlersSpec => []ServersIInv
<1>1. HandlersInit => ServersIInv
  BY InitPlace, InitData DEF ServersIInv
<1>2. ServersIInv /\ [HandlersNext]_server_vars => ServersIInv'
  BY NextKeepsPlace, NextKeepsData DEF ServersIInv
<1>3. QED
  BY <1>1, <1>2, PTL DEF HandlersSpec

\* A connection is in one place.
THEOREM OnePlace == HandlersSpec => []InOnePlace
<1>1. ServersIInv => InOnePlace
  <2>1. SUFFICES ASSUME PlaceInv PROVE InOnePlace
    BY DEF ServersIInv
  <2>2. PlaceTypeOK /\ BacklogOK /\ QueueOK /\ ServesOK /\ EventsOK /\ ArmedOK
    BY <2>1 DEF PlaceInv
  <2>3. ASSUME NEW c \in Conns
        PROVE  /\ (\E l \in Workers : c \in ToSet(backlog[l])) <=> at[c] = "backlog"
               /\ c \in ToSet(q) <=> at[c] = "queued"
               /\ (\E w \in Workers : serves[w] = c) => at[c] \in {"read", "write"}
               /\ InCoroutine /\ at[c] \in {"read", "write"} => armed[c] = at[c]
               /\ armed[c] = "none" /\ at[c] = "accepted" => \E w \in Workers : c \in events[w]
    <3>1. at[c] # "closed" => worker[c] \in Workers
      BY <2>2 DEF PlaceTypeOK, ArmedOK
    <3>2. (\E l \in Workers : c \in ToSet(backlog[l])) <=> at[c] = "backlog"
      BY <2>2, <3>1 DEF BacklogOK
    <3>3. c \in ToSet(q) <=> at[c] = "queued"
      BY <2>2 DEF QueueOK
    <3>4. (\E w \in Workers : serves[w] = c) => at[c] \in {"read", "write"}
      BY <2>2 DEF ServesOK, InHandler
    <3>5. InCoroutine /\ at[c] \in {"read", "write"} => armed[c] = at[c]
      BY <2>2 DEF ArmedOK, InHandler
    <3>6. armed[c] = "none" /\ at[c] = "accepted" => \E w \in Workers : c \in events[w]
      BY <2>2, <3>1 DEF ArmedOK
    <3>7. QED
      BY <3>2, <3>3, <3>4, <3>5, <3>6
  <2>4. QED
    BY <2>3 DEF InOnePlace
<1>2. QED
  BY <1>1, ServersStayOK, PTL

\* A codec takes in one message at the most.
THEOREM OneMessage == HandlersSpec => []OneMessageAtATime
<1>1. ServersIInv => OneMessageAtATime
  <2>1. SUFFICES ASSUME DataInv, NEW c \in Conns
                 PROVE  ~ Spins(codec[c]) /\ (at[c] = "read" => CanWriteLen(codec[c]) > 0)
    BY DEF ServersIInv, OneMessageAtATime
  <2>2. ~ Spins(NewCodec) /\ CanWriteLen(NewCodec) > 0
    <3>1. TINY_ECHO_HEAD_LEN > 0 /\ Len(<<>>) = 0 /\ TINY_ECHO_HEAD_LEN \in Nat
      BY CodecAssumption
    <3>2. QED
      BY <3>1 DEF Spins, CanWriteLen, NewCodec
  <2>3. ASSUME NEW e \in Ends[c], NEW msg \in PeerMessages(c), IsRequest(c, e, msg),
               NEW n \in 0 .. Size(msg), codec[c] = CodecAt(msg, n)
        PROVE  ~ Spins(codec[c]) /\ (n # Size(msg) => CanWriteLen(codec[c]) > 0)
    <3>1. msg \in Seq(Byte) /\ Size(msg) \in Nat /\ TINY_ECHO_HEAD_LEN \in 1 .. 4
      BY <2>3, RequestFacts
    <3>2. /\ ~ Spins(CodecAt(msg, n))
          /\ CanWriteLen(CodecAt(msg, n)) =
               (IF n < TINY_ECHO_HEAD_LEN THEN TINY_ECHO_HEAD_LEN ELSE Size(msg)) - n
      BY <3>1, CodecFacts
    <3>3. QED
      BY <2>3, <3>1, <3>2
  <2>4. CASE at[c] = "read"
    <3>1. PICK e \in Ends[c] :
            \/ codec[c] = NewCodec
            \/ \E msg \in PeerMessages(c) :
                 /\ IsRequest(c, e, msg)
                 /\ \E n \in 1 .. Size(msg) - 1 : codec[c] = CodecAt(msg, n)
      BY <2>1, <2>4 DEF DataInv, ConnOK, ReadOK
    <3>2. ASSUME NEW msg \in PeerMessages(c), IsRequest(c, e, msg),
                 NEW n \in 1 .. Size(msg) - 1, codec[c] = CodecAt(msg, n)
          PROVE  ~ Spins(codec[c]) /\ CanWriteLen(codec[c]) > 0
      <4>1. Size(msg) \in Nat
        BY <3>2, RequestFacts
      <4>2. n \in 0 .. Size(msg) /\ n # Size(msg)
        BY <4>1
      <4>3. QED
        BY <2>3, <3>2, <4>2
    <3>3. QED
      BY <2>2, <3>1, <3>2
  <2>5. CASE at[c] = "write"
    <3>1. PICK e \in Ends[c], msg \in PeerMessages(c) :
            IsRequest(c, e, msg) /\ codec[c] = CodecAt(msg, Size(msg))
      BY <2>1, <2>5 DEF DataInv, ConnOK, WriteOK
    <3>2. Size(msg) \in 0 .. Size(msg)
      BY <3>1, RequestFacts
    <3>3. QED
      BY <2>3, <2>5, <3>1, <3>2
  <2>6. CASE at[c] \notin InHandler
    BY <2>1, <2>2, <2>6 DEF DataInv, ConnOK, Fresh
  <2>7. QED
    BY <2>4, <2>5, <2>6 DEF InHandler
<1>2. QED
  BY <1>1, ServersStayOK, PTL

\* All workers together have no more handlers than coroutines.
LEMMA AllServed ==
  ASSUME PlaceInv, InCoroutine
  PROVE  waiting + Cardinality({c \in Conns : at[c] \in InHandler}) <= server.count * server.workers
<1> DEFINE N == server.workers
           K == server.count
           All(n) == {c \in Conns : at[c] \in InHandler /\ worker[c] \in 1 .. n}
           Bad == {n \in 0 .. N : ~ (Cardinality(All(n)) <= K * n)}
<1>1. PlaceTypeOK /\ ArmedOK /\ server \in Servers
  BY DEF PlaceInv, PlaceTypeOK
<1>2. N \in Nat \ {0} /\ K \in Nat /\ Workers = 1 .. N
  BY <1>1, ServerFacts DEF Workers
<1>3. \A w \in 1 .. N : waiting + Cardinality(Served(w)) <= K
  BY <1>2 DEF PlaceInv, PoolLimit
<1>4. \A n \in Nat : All(n) \in SUBSET Conns /\ IsFiniteSet(All(n)) /\ Cardinality(All(n)) \in Nat
  BY ConnSets
<1>5. \A w \in Nat : IsFiniteSet(Served(w)) /\ Cardinality(Served(w)) \in Nat
  <2>1. \A w \in Nat : Served(w) \in SUBSET Conns
    BY DEF Served
  <2>2. QED
    BY <2>1, ConnSets
<1>6. waiting \in Nat
  BY <1>1 DEF PlaceTypeOK
<1>7. {c \in Conns : at[c] \in InHandler} = All(N)
  <2>1. \A c \in Conns : at[c] \in InHandler => worker[c] \in 1 .. N
    BY <1>1, <1>2 DEF ArmedOK, PlaceTypeOK, InHandler
  <2>2. QED
    BY <2>1
<1>8. All(0) = {}
  OBVIOUS
<1>9. \A n \in 1 .. N : All(n) = All(n - 1) \cup Served(n)
  <2>1. SUFFICES ASSUME NEW n \in 1 .. N PROVE All(n) = All(n - 1) \cup Served(n)
    OBVIOUS
  <2>2. n \in Nat /\ \A i : i \in 1 .. n <=> (i \in 1 .. n - 1 \/ i = n)
    BY <1>2
  <2>3. QED
    BY <2>2 DEF Served
<1> HIDE DEF All, N, K
<1>10. ASSUME NEW n \in 1 .. N, Cardinality(All(n - 1)) <= K * (n - 1), waiting = 0
       PROVE  Cardinality(All(n)) <= K * n
  <2> DEFINE a == Cardinality(All(n - 1))
             b == Cardinality(Served(n))
  <2>1. n - 1 \in Nat /\ n \in Nat
    BY <1>2
  <2>2. /\ IsFiniteSet(All(n - 1)) /\ IsFiniteSet(Served(n)) /\ a \in Nat /\ b \in Nat
    BY <1>4, <1>5, <2>1
  <2>3. Cardinality(All(n)) \in Nat /\ Cardinality(All(n)) <= a + b
    <3> DEFINE S == All(n - 1)
               T == Served(n)
    <3>1. S \cup T \in SUBSET Conns /\ S \cap T \in SUBSET Conns
      BY <1>4, <2>1 DEF Served
    <3>2. All(n) = S \cup T /\ IsFiniteSet(S) /\ IsFiniteSet(T)
      BY <1>9, <2>2
    <3>3. Cardinality(S \cap T) \in Nat /\ Cardinality(S) \in Nat /\ Cardinality(T) \in Nat
      BY <2>2, <3>1, ConnSets
    <3> HIDE DEF S, T
    <3>4. Cardinality(S \cup T) = Cardinality(S) + Cardinality(T) - Cardinality(S \cap T)
      BY <3>2, FS_Union
    <3>5. Cardinality(S \cup T) \in Nat
      BY <3>1, ConnSets
    <3>6. Cardinality(S \cup T) <= Cardinality(S) + Cardinality(T)
      BY <3>3, <3>4
    <3>7. QED
      BY <3>2, <3>5, <3>6 DEF S, T
  <2>4. b <= K
    BY <1>3, <1>10, <2>2
  <2>5. a <= K * (n - 1)
    BY <1>10
  <2> HIDE DEF a, b
  <2>6. K * (n - 1) + K = K * n /\ K * (n - 1) \in Nat
    BY <1>2, <2>1
  <2>7. QED
    BY <1>2, <2>2, <2>3, <2>4, <2>5, <2>6
<1>11. CASE server.queue = "none"
  <2>1. waiting = 0
    BY <1>11 DEF PlaceInv, PoolLimit
  <2>2. Bad = {}
    <3>1. SUFFICES ASSUME Bad # {} PROVE FALSE
      OBVIOUS
    <3>2. Bad \in SUBSET Nat
      BY <1>2
    <3>3. PICK n \in Bad : \A m \in Bad : n <= m
      BY <3>1, <3>2, LeastExists
    <3>4. n # 0
      <4>1. Cardinality(All(0)) = 0 /\ K * 0 = 0
        BY <1>2, <1>8, FS_EmptySet
      <4>2. QED
        BY <3>3, <4>1
    <3>5. n \in 1 .. N /\ n - 1 \in 0 .. N /\ ~ (n <= n - 1)
      BY <1>2, <3>3, <3>4
    <3>6. n - 1 \notin Bad
      BY <3>3, <3>5
    <3>7. QED
      BY <1>10, <2>1, <3>3, <3>5, <3>6
  <2>3. N \in 0 .. N
    BY <1>2
  <2>4. Cardinality(All(N)) <= K * N /\ Cardinality(All(N)) \in Nat
    BY <1>2, <1>4, <2>2, <2>3
  <2>5. waiting + Cardinality(All(N)) = Cardinality(All(N))
    BY <2>1, <2>4
  <2>6. QED
    BY <1>7, <2>4, <2>5 DEF N, K
<1>12. CASE server.queue # "none"
  <2>1. N = 1
    BY <1>1, <1>12, ServersAssumption DEF N
  <2>2. All(1) = Served(1)
    BY <1>7, <2>1 DEF Served, All
  <2>3. waiting + Cardinality(All(N)) <= K /\ K * N = K
    BY <1>2, <1>3, <2>1, <2>2
  <2>4. QED
    BY <1>7, <2>3 DEF N, K
<1>13. QED
  BY <1>11, <1>12

\* The variables have their types, and there are as many coroutines and consumers as the pool has.
THEOREM HandlersTyped == HandlersSpec => []HandlersTypeOK
<1>1. ServersIInv => HandlersTypeOK
  <2>1. SUFFICES ASSUME PlaceInv, DataInv PROVE HandlersTypeOK
    BY DEF ServersIInv
  <2>2. PlaceTypeOK /\ DataTypeOK
    BY <2>1 DEF PlaceInv, DataInv
  <2>3. ASSUME NEW c \in Conns
        PROVE  /\ codec[c].decode_status_ \in {"HEAD", "BODY", "FINISH"}
               /\ codec[c].data \in Seq(Byte) /\ pkt[c] \in Seq(Byte)
               /\ taken[c] <= sent[c] /\ got[c] <= Len(back[c]) /\ CanWrite(c) >= 0
    <3>1. codec[c].decode_status_ \in {"HEAD", "BODY", "FINISH"} /\ codec[c].data \in Seq(Byte)
      BY <2>2 DEF DataTypeOK, CodecType
    <3>2. pkt[c] \in Seq(Byte) /\ taken[c] <= sent[c] /\ got[c] <= Len(back[c])
      BY <2>2 DEF DataTypeOK
    <3>3. /\ Len(back[c]) \in Nat /\ got[c] \in Nat /\ Room \in Nat
          /\ Len(back[c]) - got[c] <= Room
      BY <2>2, LenProperties, HandlersAssumption DEF DataTypeOK
    <3>4. CanWrite(c) >= 0
      BY <3>3 DEF CanWrite
    <3>5. QED
      BY <3>1, <3>2, <3>4
  <2>4. \A w \in Workers : serves[w] \in Conns \cup {None} /\ events[w] \subseteq Conns \cup {None}
    BY <2>2 DEF PlaceTypeOK
  <2>5. waiting + Cardinality({c \in Conns : at[c] \in {"read", "write"}}) <=
          IF InCoroutine THEN server.count * server.workers ELSE Cardinality(Conns)
    <3>1. CASE InCoroutine
      BY <2>1, <3>1, AllServed DEF InHandler
    <3>2. CASE ~ InCoroutine
      <4> DEFINE S == {c \in Conns : at[c] \in {"read", "write"}}
      <4>1. waiting = 0
        BY <2>1, <2>2, <3>2, ServerFacts DEF PlaceInv, PoolLimit, PlaceTypeOK
      <4>2. S \subseteq Conns
        OBVIOUS
      <4> HIDE DEF S
      <4>3. Cardinality(S) <= Cardinality(Conns) /\ Cardinality(S) \in Nat
        BY <4>2, HandlersAssumption, FS_Subset, ConnSets
      <4>4. 0 + Cardinality(S) = Cardinality(S)
        BY <4>3
      <4>5. waiting + Cardinality(S) <= Cardinality(Conns)
        BY <4>1, <4>3, <4>4
      <4>6. QED
        BY <3>2, <4>5 DEF S
    <3>3. QED
      BY <3>1, <3>2
  <2>6. QED
    BY <2>2, <2>3, <2>4, <2>5 DEF HandlersTypeOK, PlaceTypeOK
<1>2. QED
  BY <1>1, ServersStayOK, PTL

-----------------------------------------------------------------------------
(* The server implements the echo.                                         *)

\* The beginning of what a peer sends has its length.
LEMMA PrefixLength ==
  ASSUME NEW c \in Conns, NEW x \in 0 .. Len(Wire[c])
  PROVE  Len(SubSeq(Wire[c], 1, x)) = x
<1>1. Wire[c] \in Seq(Byte) /\ Len(Wire[c]) \in Nat
  BY WireSplit, LenProperties
<1>2. 0 \in 0 .. x /\ 0 + 1 = 1 /\ x - 0 = x
  BY <1>1
<1>3. Len(SubSeq(Wire[c], 0 + 1, x)) = x - 0
  BY <1>1, <1>2, Part
<1>4. QED
  BY <1>2, <1>3

\* After a write the answers that are written are the beginning of the requests that are read.
LEMMA AnswersAreRead ==
  ASSUME DataInv', NEW c \in Conns, c \in open', at'[c] \in InHandler
  PROVE  \E x \in Nat : \E e \in Ends[c] :
           back'[c] = SubSeq(Wire[c], 1, x) /\ x <= e /\ e <= taken'[c]
<1>1. taken'[c] \in Nat
  BY DEF DataInv, DataTypeOK
<1>2. \A e \in Ends[c] : e \in Nat
  BY WireSplit
<1>3. CASE at'[c] = "read"
  <2>1. ReadOK(c)'
    BY <1>3 DEF DataInv, ConnOK
  <2>2. PICK e \in Ends[c] :
          /\ c \in open' => back'[c] = SubSeq(Wire[c], 1, e)
          /\ \/ taken'[c] = e
             \/ \E msg \in PeerMessages(c) : \E n \in 1 .. Size(msg) - 1 : taken'[c] = e + n
    BY <2>1 DEF ReadOK
  <2>3. e <= taken'[c]
    BY <1>1, <1>2, <2>2
  <2>4. e \in Nat /\ e <= e /\ back'[c] = SubSeq(Wire[c], 1, e)
    BY <1>2, <2>2
  <2>5. QED
    BY <2>3, <2>4
<1>4. CASE at'[c] = "write"
  <2>1. WriteOK(c)'
    BY <1>4 DEF DataInv, ConnOK
  <2>2. PICK e \in Ends[c], msg \in PeerMessages(c) :
          /\ IsRequest(c, e, msg) /\ taken'[c] = e + Size(msg)
          /\ \E j \in 0 .. Size(msg) - 1 : c \in open' => back'[c] = SubSeq(Wire[c], 1, e + j)
    BY <2>1 DEF WriteOK
  <2>3. PICK j \in 0 .. Size(msg) - 1 : back'[c] = SubSeq(Wire[c], 1, e + j)
    BY <2>2
  <2>4. e + Size(msg) \in Ends[c]
    BY <2>2 DEF IsRequest
  <2>5. Size(msg) \in Nat
    BY <2>2, RequestFacts
  <2>6. e + j \in Nat /\ e + j <= e + Size(msg) /\ e + Size(msg) <= taken'[c]
    BY <1>1, <1>2, <2>2, <2>3, <2>5
  <2>7. QED
    BY <2>3, <2>4, <2>6
<1>5. QED
  BY <1>3, <1>4 DEF InHandler

\* A write answers.
LEMMA WriteAnswers ==
  ASSUME PlaceInv, DataInv, DataInv', NEW c \in Conns, Write(c)
  PROVE  Echo!Answer(c) \/ UNCHANGED <<sent, back>>
<1>1. UNCHANGED <<open, sent, taken>> /\ at[c] = "write" /\ at'[c] \in InHandler
  BY DEF Write, PlaceInv, PlaceTypeOK, InHandler
<1>2. CASE c \in open
  <2> DEFINE n == Least(CanWrite(c), Len(pkt[c]))
             y == back[c] \o SubSeq(pkt[c], 1, n)
  <2>1. n > 0 /\ back' = [back EXCEPT ![c] = y]
    BY <1>2 DEF Write
  <2>2. /\ back \in [Conns -> Seq(Byte)] /\ pkt[c] \in Seq(Byte)
        /\ Len(back[c]) \in Nat /\ Len(pkt[c]) \in Nat
    BY LenProperties DEF DataInv, DataTypeOK
  <2>3. n \in 1 .. Len(pkt[c])
    <3>1. got[c] \in Nat /\ Room \in Nat
      BY HandlersAssumption DEF DataInv, DataTypeOK
    <3>2. CanWrite(c) \in Int
      BY <2>2, <3>1 DEF CanWrite
    <3> DEFINE room == CanWrite(c)
               L == Len(pkt[c])
    <3>3. n = (IF room < L THEN room ELSE L) /\ n > 0 /\ room \in Int /\ L \in Nat
      BY <2>1, <2>2, <3>2 DEF Least
    <3> HIDE DEF n, room, L
    <3>4. n \in 1 .. L
      BY <3>3
    <3>5. QED
      BY <3>4 DEF L
  <2> HIDE DEF n
  <2>4. SubSeq(pkt[c], 1, n) \in Seq(Byte) /\ Len(SubSeq(pkt[c], 1, n)) = n
    <3>1. n \in 0 .. Len(pkt[c]) /\ 0 \in 0 .. n /\ 0 + 1 = 1 /\ n - 0 = n
      BY <2>2, <2>3
    <3>2. SubSeq(pkt[c], 0 + 1, n) \in Seq(Byte) /\ Len(SubSeq(pkt[c], 0 + 1, n)) = n - 0
      BY <2>2, <3>1, Part
    <3>3. QED
      BY <3>1, <3>2
  <2>5. Len(y) = Len(back[c]) + n
    BY <2>2, <2>4, ConcatProperties
  <2>6. back'[c] = y
    BY <2>1, <2>2
  <2> HIDE DEF y
  <2>7. PICK x \in Nat : \E e \in Ends[c] :
          back'[c] = SubSeq(Wire[c], 1, x) /\ x <= e /\ e <= taken'[c]
    BY <1>1, <1>2, AnswersAreRead
  <2>8. PICK e \in Ends[c] : y = SubSeq(Wire[c], 1, x) /\ x <= e /\ e <= taken[c]
    BY <1>1, <2>6, <2>7
  <2>9. taken[c] \in Nat /\ sent[c] \in Nat /\ taken[c] <= sent[c] /\ sent[c] <= Len(Wire[c])
        /\ Len(Wire[c]) \in Nat /\ e \in Nat
    <3>1. taken[c] \in Nat /\ sent[c] \in Nat /\ taken[c] <= sent[c] /\ sent[c] <= Len(Wire[c])
      BY DEF DataInv, DataTypeOK
    <3>2. Wire[c] \in Seq(Byte) /\ e \in 0 .. Len(Wire[c])
      BY WireSplit
    <3>3. Len(Wire[c]) \in Nat
      BY <3>2, LenProperties
    <3>4. QED
      BY <3>1, <3>2, <3>3
  <2>10. x \in 0 .. Len(Wire[c]) /\ e <= sent[c]
    BY <2>8, <2>9
  <2>11. x = Len(back[c]) + n
    BY <2>5, <2>8, <2>10, PrefixLength
  <2>12. x \in Len(back[c]) + 1 .. sent[c]
    BY <2>2, <2>3, <2>8, <2>9, <2>10, <2>11
  <2>13. back' = [back EXCEPT ![c] = SubSeq(Wire[c], 1, x)]
    BY <2>1, <2>8
  <2>14. QED
    BY <1>1, <2>8, <2>10, <2>12, <2>13 DEF Echo!Answer
<1>3. CASE c \notin open
  BY <1>1, <1>3 DEF Write
<1>4. QED
  BY <1>2, <1>3

\* Connections that are closed end.
LEMMA CloseIsEnd ==
  ASSUME NEW C \in SUBSET Conns, Close(C)
  PROVE  Echo!End
BY DEF Close, Echo!End

\* So they do with their process.
LEMMA ProcessEndsIsEnd ==
  ASSUME NEW w, ProcessEnds(w)
  PROVE  Echo!End \/ UNCHANGED <<sent, back>>
<1>1. CASE server.processes
  <2> DEFINE C == {c \in Conns : worker[c] = w /\ (at[c] = "backlog" => server.own)}
  <2>1. C \in SUBSET Conns /\ Close(C)
    BY <1>1 DEF ProcessEnds
  <2> HIDE DEF C
  <2>2. QED
    BY <2>1, CloseIsEnd
<1>2. CASE ~ server.processes
  BY <1>2 DEF ProcessEnds, socket_vars
<1>3. QED
  BY <1>1, <1>2

\* The steps of a worker do not read or write.
LEMMA WorkerIsSilent ==
  ASSUME PlaceInv, NEW w \in Workers, WorkerStep(w)
  PROVE  Echo!End \/ UNCHANGED <<sent, back>>
<1>1. CASE ForkFails(w)
  <2>1. {Accepted(w)} \in SUBSET Conns /\ Close({Accepted(w)})
    BY <1>1, AcceptsOne DEF ForkFails
  <2>2. QED
    BY <2>1, CloseIsEnd
<1>2. CASE BecomeLeader(w) \/ Accept(w) \/ Wait(w) \/ AfterEvents(w) \/ TurnEnds(w)
  BY <1>2 DEF BecomeLeader, Accept, Wait, AfterEvents, TurnEnds, Serve, socket_vars
<1>3. CASE CoSemaphoreResume(w) \/ CoCondResume(w)
  BY <1>3 DEF CoSemaphoreResume, CoCondResume, Consume, Serve, socket_vars
<1>4. CASE CoCondResumeNobody(w)
  BY <1>4, ProcessEndsIsEnd DEF CoCondResumeNobody, socket_vars
<1>5. CASE HandleEvent(w)
  <2>1. CASE AcceptAll(w)
    BY <2>1 DEF AcceptAll, socket_vars
  <2>2. ASSUME NEW c, PoolIsFull(w, c)
        PROVE  Echo!End \/ UNCHANGED <<sent, back>>
    BY <2>2, ProcessEndsIsEnd DEF PoolIsFull
  <2>3. ASSUME NEW c, CallHandler(w, c) \/ CreateHandler(w, c) \/ Resume(w, c) \/ Produce(w, c)
        PROVE  UNCHANGED <<sent, back>>
    BY <2>3 DEF CallHandler, CreateHandler, Resume, Produce, Serve, socket_vars
  <2>4. QED
    BY <1>5, <2>1, <2>2, <2>3 DEF HandleEvent
<1>6. QED
  BY <1>1, <1>2, <1>3, <1>4, <1>5 DEF WorkerStep

\* A peer asks.
LEMMA PeerAsks ==
  ASSUME DataInv, NEW c \in Conns, PeerStep(c)
  PROVE  Echo!Ask(c) \/ UNCHANGED <<sent, back>>
<1>1. CASE PeerSends(c)
  <2>1. PICK n \in Sendings[c] : sent[c] < n /\ sent' = [sent EXCEPT ![c] = n]
    BY <1>1 DEF PeerSends
  <2>2. n \in 0 .. Len(Wire[c]) /\ Len(Wire[c]) \in Nat
    BY <2>1, RequestsAssumption, WireSplit, LenProperties DEF Wire
  <2>3. n \in sent[c] + 1 .. Len(Wire[c])
    BY <2>1, <2>2 DEF DataInv, DataTypeOK
  <2>4. QED
    BY <1>1, <2>1, <2>3 DEF PeerSends, Echo!Ask
<1>2. CASE PeerReceives(c) \/ PeerCloses(c)
  BY <1>2 DEF PeerReceives, PeerCloses
<1>3. QED
  BY <1>1, <1>2 DEF PeerStep

\* Every step of the server is a step of the echo, or none.
LEMMA NextIsEcho ==
  ASSUME PlaceInv, DataInv, DataInv', [HandlersNext]_server_vars
  PROVE  [Echo!Next]_<<sent, back>>
<1>1. ASSUME NEW c \in Conns, HandlerStep(c)
      PROVE  Echo!End \/ Echo!Answer(c) \/ UNCHANGED <<sent, back>>
  <2>1. CASE Read(c)
    BY <2>1 DEF Read
  <2>2. CASE Write(c)
    BY <2>2, WriteAnswers
  <2>3. CASE Yields(c)
    BY <2>3 DEF Yields, socket_vars
  <2>4. CASE Fails(c)
    <3>1. Close({c}) \/ ProcessEnds(worker[c])
      BY <2>4 DEF Fails, PipeBreaks
    <3>2. {c} \in SUBSET Conns
      OBVIOUS
    <3>3. QED
      BY <3>1, <3>2, CloseIsEnd, ProcessEndsIsEnd
  <2>5. QED
    BY <1>1, <2>1, <2>2, <2>3, <2>4 DEF HandlerStep
<1>2. ASSUME NEW c \in Conns, Connect(c) PROVE UNCHANGED <<sent, back>>
  BY <1>2 DEF Connect
<1>3. CASE UNCHANGED server_vars
  BY <1>3 DEF server_vars, socket_vars
<1>4. QED
  BY <1>1, <1>2, <1>3, PeerAsks, WorkerIsSilent DEF HandlersNext, Echo!Next

\* What the server writes is the echo of whole requests, in their order.
THEOREM ServersEcho == HandlersSpec => IsEcho
<1>1. HandlersInit => Echo!Init
  BY DEF HandlersInit, Echo!Init
<1>2. ServersIInv /\ ServersIInv' /\ [HandlersNext]_server_vars => [Echo!Next]_Echo!vars
  BY NextIsEcho DEF ServersIInv, Echo!vars
<1>3. QED
  BY <1>1, <1>2, ServersStayOK, PTL DEF HandlersSpec, IsEcho, Echo!Spec

=============================================================================
