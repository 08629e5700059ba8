------------------------------- MODULE RWLock -------------------------------
(***************************************************************************)
(* CoRWLock: a lock for many readers or one writer.  All waiters share one *)
(* queue; CoRWLockResume drains it from the front for as long as the lock  *)
(* stays free or read-locked, and does not look at a lock that is held     *)
(* when it comes to it.                                                    *)
(*                                                                         *)
(* The slaves are any program that keeps the contract of the lock: a slave *)
(* takes a lock it does not hold, releases what it holds before it ends,   *)
(* and takes the locks in an order.  The locks live as long as the program.*)
(***************************************************************************)
EXTENDS Schedule, Sequences, SequencesExt

CONSTANT RWLocks   \* the locks, numbered in their locking order

ASSUME RWLockAssumption == RWLocks \subseteq Nat

NoLock == -1
RWLockType == {"kWrite", "kRead"}
RWLockState == {"kUnLock", "kWriteLock", "kReadLock"}

VARIABLES
  lock_state,          \* CoRWLock::lock_state
  hold_write_cid,      \* CoRWLock::hold_write_cid
  hold_read_cid_set,   \* CoRWLock::hold_read_cid_set
  suspend_list,        \* CoRWLock::suspend_list, pairs of a lock type and a slave
  locking,             \* locking[c]: the lock type and lock of the call c is inside
  writes,              \* writes[c]: the locks c has write-locked and not released
  reads,               \* reads[c]: the locks c has read-locked and not released
  todo,                \* the locks the loop of CoRWLockResume has not come to yet
  draining             \* the lock whose queue it drains

rwlock_vars == <<lock_state, hold_write_cid, hold_read_cid_set, suspend_list>>
client_vars == <<locking, writes, reads>>
loop_vars == <<todo, draining>>
vars == <<schedule_vars, rwlock_vars, client_vars, loop_vars>>

NotLocking == <<"kRead", NoLock>>

Init ==
  /\ ScheduleInit
  /\ lock_state = [k \in RWLocks |-> "kUnLock"]
  /\ hold_write_cid = [k \in RWLocks |-> kInvalidCid]
  /\ hold_read_cid_set = [k \in RWLocks |-> {}]
  /\ suspend_list = [k \in RWLocks |-> <<>>]
  /\ locking = [c \in Cids |-> NotLocking]
  /\ writes = [c \in Cids |-> {}]
  /\ reads = [c \in Cids |-> {}]
  /\ todo = {}
  /\ draining = NoLock

Holds(c) == writes[c] \cup reads[c]
InEntry == ~ is_master_ /\ locking[slave_cid_] = NotLocking

-----------------------------------------------------------------------------
(* The calls of the running slave.                                         *)

\* The lock is held in a way that keeps a waiter of this type out.
Conflicts(type, k) ==
  IF type = "kWrite" THEN lock_state[k] # "kUnLock" ELSE lock_state[k] = "kWriteLock"

WriteLock(k) ==
  /\ lock_state' = [lock_state EXCEPT ![k] = "kWriteLock"]
  /\ hold_write_cid' = [hold_write_cid EXCEPT ![k] = slave_cid_]
  /\ writes' = [writes EXCEPT ![slave_cid_] = @ \cup {k}]
  /\ UNCHANGED <<hold_read_cid_set, reads>>

ReadLock(k) ==
  /\ lock_state' = [lock_state EXCEPT ![k] = "kReadLock"]
  /\ hold_read_cid_set' = [hold_read_cid_set EXCEPT ![k] = @ \cup {slave_cid_}]
  /\ reads' = [reads EXCEPT ![slave_cid_] = @ \cup {k}]
  /\ UNCHANGED <<hold_write_cid, writes>>

Enqueue(type, k) ==
  suspend_list' =
    IF Contains(suspend_list[k], <<type, slave_cid_>>)
      THEN suspend_list
      ELSE [suspend_list EXCEPT ![k] = Append(@, <<type, slave_cid_>>)]

\* The entry of the running slave, if it has one, is removed.  An entry is only added
\* when it is not in the queue, so there is no second one for list::remove to find.
Dequeue(type, k) ==
  IF Contains(suspend_list[k], <<type, slave_cid_>>)
    THEN \E i \in DOMAIN suspend_list[k] :
           /\ suspend_list[k][i] = <<type, slave_cid_>>
           /\ suspend_list' = [suspend_list EXCEPT ![k] = RemoveAt(@, i)]
    ELSE UNCHANGED suspend_list

\* One turn of the loop of CoRWLockWrLock and CoRWLockRdLock.
LockTurn(type, k) ==
  \/ /\ ~ Conflicts(type, k)
     /\ IF type = "kWrite" THEN WriteLock(k) ELSE ReadLock(k)
     /\ locking' = [locking EXCEPT ![slave_cid_] = NotLocking]
     /\ UNCHANGED <<pool_vars, suspend_list>>
  \/ /\ Conflicts(type, k)
     /\ Enqueue(type, k)
     /\ locking' = [locking EXCEPT ![slave_cid_] = <<type, k>>]
     /\ CoroutineYield
     /\ UNCHANGED <<lock_state, hold_write_cid, hold_read_cid_set, writes, reads>>

LockCall(type, k) ==
  /\ InEntry /\ Call
  /\ \A j \in Holds(slave_cid_) : j < k
  /\ LockTurn(type, k)
  /\ UNCHANGED <<master_vars, loop_vars>>

CoRWLockWrLock(k) == LockCall("kWrite", k)
CoRWLockRdLock(k) == LockCall("kRead", k)

\* Either call goes on after the CoroutineYield it suspended in.
LockAgain ==
  /\ ~ is_master_ /\ ~ InEntry
  /\ LockTurn(locking[slave_cid_][1], locking[slave_cid_][2])
  /\ UNCHANGED <<calls, master_vars, loop_vars>>

CoRWLockWrUnLock(k) ==
  /\ InEntry
  /\ k \in writes[slave_cid_]
  /\ lock_state' = [lock_state EXCEPT ![k] = "kUnLock"]
  /\ hold_write_cid' = [hold_write_cid EXCEPT ![k] = kInvalidCid]
  /\ Dequeue("kWrite", k)
  /\ writes' = [writes EXCEPT ![slave_cid_] = @ \ {k}]
  /\ UNCHANGED <<schedule_vars, hold_read_cid_set, locking, reads, loop_vars>>

\* Mutant: the first reader to leave frees the lock.
FirstReaderUnlocks(k) ==
  /\ InEntry
  /\ k \in reads[slave_cid_]
  /\ hold_read_cid_set' = [hold_read_cid_set EXCEPT ![k] = @ \ {slave_cid_}]
  /\ Dequeue("kRead", k)
  /\ lock_state' = [lock_state EXCEPT ![k] = "kUnLock"]
  /\ reads' = [reads EXCEPT ![slave_cid_] = @ \ {k}]
  /\ UNCHANGED <<schedule_vars, hold_write_cid, locking, writes, loop_vars>>

\* Mutant: a reader that was resumed past its entry leaves it in the queue.
RdUnLockKeepsEntry(k) ==
  /\ InEntry
  /\ k \in reads[slave_cid_]
  /\ hold_read_cid_set' = [hold_read_cid_set EXCEPT ![k] = @ \ {slave_cid_}]
  /\ lock_state' =
       IF hold_read_cid_set'[k] = {} THEN [lock_state EXCEPT ![k] = "kUnLock"] ELSE lock_state
  /\ reads' = [reads EXCEPT ![slave_cid_] = @ \ {k}]
  /\ UNCHANGED <<schedule_vars, suspend_list, hold_write_cid, locking, writes, loop_vars>>

\* The last reader to leave frees the lock.
CoRWLockRdUnLock(k) ==
  /\ InEntry
  /\ k \in reads[slave_cid_]
  /\ hold_read_cid_set' = [hold_read_cid_set EXCEPT ![k] = @ \ {slave_cid_}]
  /\ Dequeue("kRead", k)
  /\ lock_state' =
       IF hold_read_cid_set'[k] = {} THEN [lock_state EXCEPT ![k] = "kUnLock"] ELSE lock_state
  /\ reads' = [reads EXCEPT ![slave_cid_] = @ \ {k}]
  /\ UNCHANGED <<schedule_vars, hold_write_cid, locking, writes, loop_vars>>

SlaveStep ==
  /\ InEntry
  /\ Yield \/ Spawn \/ (Holds(slave_cid_) = {} /\ Return)
  /\ UNCHANGED <<rwlock_vars, client_vars, loop_vars>>

-----------------------------------------------------------------------------
(* The master.                                                             *)

MasterStep ==
  /\ Create \/ RunBegin \/ \E c \in Cids : EventResume(c)
  /\ UNCHANGED <<rwlock_vars, client_vars, loop_vars>>

RunScanStep == RunScan({}) /\ UNCHANGED <<rwlock_vars, client_vars, loop_vars>>

CoRWLockResumeBegin ==
  /\ ResumeBegin
  /\ todo' = RWLocks
  /\ UNCHANGED <<rwlock_vars, client_vars, draining>>

\* The loop over the locks comes to k and passes over it when it is held.
Visit(k) ==
  /\ resuming /\ is_master_ /\ draining = NoLock
  /\ k \in todo
  /\ todo' = todo \ {k}
  /\ draining' = IF lock_state[k] = "kUnLock" THEN k ELSE NoLock
  /\ UNCHANGED <<schedule_vars, rwlock_vars, client_vars>>

\* Mutant: wakes the waiter at the front of a read-locked lock, reader or writer.
WakesAnyone(k) == suspend_list[k] # <<>> /\ lock_state[k] # "kWriteLock"

\* The loop wakes the waiter at the front: any waiter of a free lock, a reader of a
\* read-locked one.
WakesFront(k) ==
  /\ suspend_list[k] # <<>>
  /\ \/ lock_state[k] = "kUnLock"
     \/ lock_state[k] = "kReadLock" /\ Head(suspend_list[k])[1] = "kRead"

\* One iteration of the inner loop, or its end.
Drain ==
  /\ resuming /\ is_master_ /\ draining # NoLock
  /\ IF WakesFront(draining)
       THEN /\ suspend_list' = [suspend_list EXCEPT ![draining] = Tail(@)]
            /\ CoroutineResume(Head(suspend_list[draining])[2])
            /\ UNCHANGED draining
       ELSE draining' = NoLock /\ UNCHANGED <<suspend_list, pool_vars>>
  /\ UNCHANGED <<calls, master_vars, lock_state, hold_write_cid, hold_read_cid_set>>
  /\ UNCHANGED <<client_vars, todo>>

CoRWLockResumeEnd ==
  /\ todo = {} /\ draining = NoLock
  /\ ResumeEnd
  /\ UNCHANGED <<rwlock_vars, client_vars, loop_vars>>

CoRWLockResume == Drain \/ CoRWLockResumeEnd \/ \E k \in RWLocks : Visit(k)

-----------------------------------------------------------------------------

Slave ==
  \/ \E k \in RWLocks :
       \/ CoRWLockWrLock(k) \/ CoRWLockRdLock(k)
       \/ CoRWLockWrUnLock(k) \/ CoRWLockRdUnLock(k)
  \/ LockAgain
  \/ SlaveStep

Next == Slave \/ MasterStep \/ RunScanStep \/ CoRWLockResumeBegin \/ CoRWLockResume

\* As for the mutex: the process's one thread keeps executing code.
Fairness ==
  /\ WF_vars(Slave)
  /\ WF_vars(RunScanStep)
  /\ WF_vars(running /\ CoRWLockResumeBegin)
  /\ WF_vars(CoRWLockResume)

Spec == Init /\ [][Next]_vars
FairSpec == Spec /\ Fairness

-----------------------------------------------------------------------------
(* Properties.                                                             *)

\* Every variable has its type and the pool is consistent.
TypeOK ==
  /\ ScheduleTypeOK
  /\ lock_state \in [RWLocks -> RWLockState]
  /\ hold_write_cid \in [RWLocks -> Cids \cup {kInvalidCid}]
  /\ hold_read_cid_set \in [RWLocks -> SUBSET Cids]
  /\ suspend_list \in [RWLocks -> Seq(RWLockType \X Cids)]
  /\ locking \in [Cids -> (RWLockType \X RWLocks) \cup {NotLocking}]
  /\ writes \in [Cids -> SUBSET RWLocks]
  /\ reads \in [Cids -> SUBSET RWLocks]
  /\ todo \subseteq RWLocks
  /\ draining \in RWLocks \cup {NoLock}

\* A slave that has write-locked a lock is alone with it, and the state of the lock tells
\* whether it is free, written by that slave or read by exactly those that read-locked it.
\* So every assertion of the lock and unlock functions holds.
ReadersOrWriter ==
  \A k \in RWLocks :
    LET writers == {c \in Cids : k \in writes[c]}
        readers == {c \in Cids : k \in reads[c]}
    IN  /\ hold_read_cid_set[k] = readers
        /\ CASE lock_state[k] = "kUnLock" ->
                  writers = {} /\ readers = {} /\ hold_write_cid[k] = kInvalidCid
             [] lock_state[k] = "kWriteLock" ->
                  writers = {hold_write_cid[k]} /\ readers = {}
             [] lock_state[k] = "kReadLock" ->
                  writers = {} /\ readers # {} /\ hold_write_cid[k] = kInvalidCid

\* A slave inside a lock call is in the queue with the type it asks for, or was just taken
\* from the queue, has the thread and gets the lock: a writer is never woken for nothing
\* and sent to the end of the queue.
WaiterQueuedOrServed ==
  \A k \in RWLocks, c \in Cids, type \in RWLockType :
    locking[c] = <<type, k>> =>
      Contains(suspend_list[k], <<type, c>>) \/ (slave_cid_ = c /\ ~ Conflicts(type, k))

\* Whoever is in the queue of a lock it does not hold is suspended inside a call on it, so
\* CoRWLockResume may resume it; a slave is in the queue once.
QueueResumable ==
  \A k \in RWLocks :
    /\ \A i \in DOMAIN suspend_list[k] :
         LET c == suspend_list[k][i][2]
         IN  \/ k \in Holds(c)
             \/ locking[c] = <<suspend_list[k][i][1], k>> /\ (slave_cid_ # c => state[c] = "kSuspend")
    /\ \A i, j \in DOMAIN suspend_list[k] : suspend_list[k][i][2] = suspend_list[k][j][2] => i = j

\* Run() returns: every reader and every writer gets the lock and finishes, when the slaves
\* make finitely many calls and take the locks in an order.
RunReturns == running ~> ~ running
=============================================================================
