------------------------------- MODULE Mutex -------------------------------
(***************************************************************************)
(* CoMutex: a lock whose holder may yield, and whose waiters are suspended *)
(* slaves.  A waiter goes round the loop of CoMutexLock each time it is    *)
(* resumed, whoever resumed it: the scan of Run() and an event loop resume *)
(* it without looking at the lock, CoMutexResume wakes the first waiter of *)
(* a lock that is free.                                                    *)
(*                                                                         *)
(* The slaves are any program that keeps the contract of a mutex: a lock   *)
(* is not taken twice, only its holder releases it, a slave does not end   *)
(* while it holds one, and blocking calls take the locks in an order.  A   *)
(* mutex is constructed and destroyed when it is not in use and outside    *)
(* the loop of CoMutexResume over all mutexes.                             *)
(***************************************************************************)
EXTENDS Schedule, Sequences, SequencesExt

CONSTANT Mutexes   \* the mutexes, numbered in their locking order

ASSUME MutexAssumption == Mutexes \subseteq Nat

NoMutex == -1

VARIABLES
  mutexs_,            \* the mutexes the schedule knows
  lock,               \* CoMutex::lock
  hold_cid,           \* CoMutex::hold_cid
  suspend_cid_list,   \* CoMutex::suspend_cid_list
  locking,            \* locking[c]: the mutex whose CoMutexLock the slave c is inside
  holds,              \* holds[c]: the mutexes c has locked and not released
  todo                \* the mutexes the loop of CoMutexResume has not visited yet

mutex_vars == <<mutexs_, lock, hold_cid, suspend_cid_list>>
vars == <<schedule_vars, mutex_vars, locking, holds, todo>>

Init ==
  /\ ScheduleInit
  /\ mutexs_ = {}
  /\ lock = [m \in Mutexes |-> FALSE]
  /\ hold_cid = [m \in Mutexes |-> kInvalidCid]
  /\ suspend_cid_list = [m \in Mutexes |-> <<>>]
  /\ locking = [c \in Cids |-> NoMutex]
  /\ holds = [c \in Cids |-> {}]
  /\ todo = {}

Queued(m, c) == c \in ToSet(suspend_cid_list[m])

\* The running slave is in the code of its entry function, not in a wait loop.
InEntry == ~ is_master_ /\ locking[slave_cid_] = NoMutex

-----------------------------------------------------------------------------
(* A mutex is constructed and destroyed, by the master or by a slave.      *)

InUse(m) == \E c \in Cids : locking[c] = m \/ m \in holds[c]

\* CoMutexInit leaves suspend_cid_list as the constructor of the object made it.
CoMutexInit(m) ==
  /\ AtLarge \/ (InEntry /\ ~ resuming)
  /\ m \notin mutexs_
  /\ mutexs_' = mutexs_ \cup {m}
  /\ lock' = [lock EXCEPT ![m] = FALSE]
  /\ hold_cid' = [hold_cid EXCEPT ![m] = kInvalidCid]
  /\ UNCHANGED <<suspend_cid_list, schedule_vars, locking, holds, todo>>

CoMutexClear(m) ==
  /\ AtLarge \/ (InEntry /\ ~ resuming)
  /\ m \in mutexs_ /\ ~ InUse(m)
  /\ mutexs_' = mutexs_ \ {m}
  /\ UNCHANGED <<lock, hold_cid, suspend_cid_list, schedule_vars, locking, holds, todo>>

-----------------------------------------------------------------------------
(* The calls of the running slave.                                         *)

Acquire(m) ==
  /\ lock' = [lock EXCEPT ![m] = TRUE]
  /\ hold_cid' = [hold_cid EXCEPT ![m] = slave_cid_]
  /\ holds' = [holds EXCEPT ![slave_cid_] = @ \cup {m}]
  /\ UNCHANGED <<mutexs_, suspend_cid_list>>

\* Mutant: a waiter is queued only when the queue is empty.
EnqueueFirstOnly(m) ==
  suspend_cid_list' =
    IF suspend_cid_list[m] # <<>>
      THEN suspend_cid_list
      ELSE [suspend_cid_list EXCEPT ![m] = Append(@, slave_cid_)]

\* A waiter is queued unless it is still in the queue from an earlier turn.
Enqueue(m) ==
  suspend_cid_list' =
    IF Queued(m, slave_cid_)
      THEN suspend_cid_list
      ELSE [suspend_cid_list EXCEPT ![m] = Append(@, slave_cid_)]

\* The first entry of the running slave, if it has one, is erased.
Dequeue(m) ==
  IF Queued(m, slave_cid_)
    THEN \E i \in DOMAIN suspend_cid_list[m] :
           /\ suspend_cid_list[m][i] = slave_cid_
           /\ \A j \in 1 .. i - 1 : suspend_cid_list[m][j] # slave_cid_
           /\ suspend_cid_list' = [suspend_cid_list EXCEPT ![m] = RemoveAt(@, i)]
    ELSE UNCHANGED suspend_cid_list

\* One turn of the loop of CoMutexLock.
LockTurn(m) ==
  \/ /\ ~ lock[m]
     /\ Acquire(m)
     /\ locking' = [locking EXCEPT ![slave_cid_] = NoMutex]
     /\ UNCHANGED pool_vars
  \/ /\ lock[m]
     /\ Enqueue(m)
     /\ locking' = [locking EXCEPT ![slave_cid_] = m]
     /\ CoroutineYield
     /\ UNCHANGED <<mutexs_, lock, hold_cid, holds>>

CoMutexLock(m) ==
  /\ InEntry /\ Call
  /\ m \in mutexs_
  /\ \A n \in holds[slave_cid_] : n < m
  /\ LockTurn(m)
  /\ UNCHANGED <<master_vars, todo>>

\* CoMutexLock goes on after the CoroutineYield it suspended in.
CoMutexLockAgain ==
  /\ ~ is_master_ /\ ~ InEntry
  /\ LockTurn(locking[slave_cid_])
  /\ UNCHANGED <<calls, master_vars, todo>>

\* Mutant: does not look whether the lock is free.
TryLockBlindly(m) ==
  /\ InEntry /\ Call
  /\ m \in mutexs_
  /\ Acquire(m)
  /\ UNCHANGED <<pool_vars, master_vars, locking, todo>>

CoMutexTryLock(m) ==
  /\ InEntry /\ Call
  /\ m \in mutexs_
  /\ IF lock[m] THEN UNCHANGED <<mutex_vars, holds>> ELSE Acquire(m)
  /\ UNCHANGED <<pool_vars, master_vars, locking, todo>>

\* Mutant: the slave that releases the lock stays in the queue it was resumed past.
UnLockKeepsEntry(m) ==
  /\ InEntry
  /\ m \in holds[slave_cid_]
  /\ lock' = [lock EXCEPT ![m] = FALSE]
  /\ hold_cid' = [hold_cid EXCEPT ![m] = kInvalidCid]
  /\ holds' = [holds EXCEPT ![slave_cid_] = @ \ {m}]
  /\ UNCHANGED <<schedule_vars, mutexs_, suspend_cid_list, locking, todo>>

\* When the holder was queued and then resumed by something else than CoMutexResume,
\* its entry is still in the queue; it goes now.
CoMutexUnLock(m) ==
  /\ InEntry
  /\ m \in holds[slave_cid_]
  /\ lock' = [lock EXCEPT ![m] = FALSE]
  /\ hold_cid' = [hold_cid EXCEPT ![m] = kInvalidCid]
  /\ Dequeue(m)
  /\ holds' = [holds EXCEPT ![slave_cid_] = @ \ {m}]
  /\ UNCHANGED <<schedule_vars, mutexs_, locking, todo>>

SlaveStep ==
  /\ InEntry
  /\ Yield \/ Spawn \/ (holds[slave_cid_] = {} /\ Return)
  /\ UNCHANGED <<mutex_vars, locking, holds, todo>>

-----------------------------------------------------------------------------
(* The master.                                                             *)

MasterStep ==
  /\ Create \/ RunBegin \/ \E c \in Cids : EventResume(c)
  /\ UNCHANGED <<mutex_vars, locking, holds, todo>>

RunScanStep == RunScan({}) /\ UNCHANGED <<mutex_vars, locking, holds, todo>>

CoMutexResumeBegin ==
  /\ ResumeBegin
  /\ todo' = mutexs_
  /\ UNCHANGED <<mutex_vars, locking, holds>>

\* One iteration of the loop over the mutexes, in any order: the set is unordered.
CoMutexResume(m) ==
  /\ resuming /\ is_master_
  /\ m \in todo
  /\ todo' = todo \ {m}
  /\ IF ~ lock[m] /\ suspend_cid_list[m] # <<>>
       THEN /\ suspend_cid_list' = [suspend_cid_list EXCEPT ![m] = Tail(@)]
            /\ CoroutineResume(Head(suspend_cid_list[m]))
       ELSE UNCHANGED <<suspend_cid_list, pool_vars>>
  /\ UNCHANGED <<mutexs_, lock, hold_cid, calls, master_vars, locking, holds>>

CoMutexResumeEnd ==
  /\ todo = {}
  /\ ResumeEnd
  /\ UNCHANGED <<mutex_vars, locking, holds, todo>>

-----------------------------------------------------------------------------

Slave ==
  \/ \E m \in Mutexes : CoMutexLock(m) \/ CoMutexTryLock(m) \/ CoMutexUnLock(m)
  \/ CoMutexLockAgain
  \/ SlaveStep

Resume == CoMutexResumeEnd \/ \E m \in Mutexes : CoMutexResume(m)

Next ==
  \/ Slave
  \/ MasterStep \/ RunScanStep \/ CoMutexResumeBegin \/ Resume
  \/ \E m \in Mutexes : CoMutexInit(m) \/ CoMutexClear(m)

\* A slave that has the thread uses it, and Run() goes on: both are the process's one
\* thread executing code.  What the slaves or the event loop choose to do is not fair.
Fairness ==
  /\ WF_vars(Slave)
  /\ WF_vars(RunScanStep)
  /\ WF_vars(running /\ CoMutexResumeBegin)
  /\ WF_vars(Resume)

Spec == Init /\ [][Next]_vars
FairSpec == Spec /\ Fairness

-----------------------------------------------------------------------------
(* Properties.                                                             *)

\* Every variable has its type; of the slaves exactly the one that has the thread is in
\* state kRun, and not_idle_count_, the loop condition of Run(), counts the slots in use.
TypeOK ==
  /\ ScheduleTypeOK
  /\ mutexs_ \subseteq Mutexes
  /\ lock \in [Mutexes -> BOOLEAN]
  /\ hold_cid \in [Mutexes -> Cids \cup {kInvalidCid}]
  /\ suspend_cid_list \in [Mutexes -> Seq(Cids)]
  /\ locking \in [Cids -> Mutexes \cup {NoMutex}]
  /\ holds \in [Cids -> SUBSET Mutexes]
  /\ todo \subseteq (IF resuming THEN mutexs_ ELSE {})

\* At most one slave is past CoMutexLock or a successful CoMutexTryLock of a mutex and
\* not past its CoMutexUnLock, however the holder yields and whoever resumes the waiters;
\* the mutex knows which, so the assertions of CoMutexUnLock hold.
MutualExclusion ==
  \A m \in Mutexes, c \in Cids :
    m \in holds[c] <=> lock[m] /\ hold_cid[m] = c

\* No waiter is lost and none loses its place: a slave inside CoMutexLock is in the
\* queue, or it has just been taken from the queue, has the thread, and finds the lock free.
WaiterQueuedOrServed ==
  \A m \in Mutexes, c \in Cids :
    locking[c] = m => Queued(m, c) \/ (slave_cid_ = c /\ ~ lock[m])

\* Whoever CoMutexResume would wake is suspended inside CoMutexLock of that mutex, so the
\* assertion of CoroutineResume holds: no finished slave, no slave that reuses its slot
\* and no slave resumed by the scan of Run() meanwhile is left in the queue of a free
\* lock.  A queue never has a slave twice.
QueueResumable ==
  \A m \in Mutexes :
    /\ \A c \in ToSet(suspend_cid_list[m]) :
         hold_cid[m] = c \/ (locking[c] = m /\ (slave_cid_ # c => state[c] = "kSuspend"))
    /\ IsInjective(suspend_cid_list[m])

\* Run() returns: every slave gets the locks it waits for and finishes, when the slaves
\* make finitely many calls and take the locks in an order.
RunReturns == running ~> ~ running
=============================================================================
