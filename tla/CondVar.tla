------------------------------ MODULE CondVar ------------------------------
(***************************************************************************)
(* CoCond: slaves wait until their predicate holds; a notification changes *)
(* the state of the condition variable only, and CoCondResume, called by   *)
(* the master later, delivers it.  While CoCondResume delivers, the slaves *)
(* it wakes run, and may wait and notify again.                            *)
(*                                                                         *)
(* A predicate is the client's: each time it is evaluated it may come out  *)
(* either way.  So what holds here holds for every program, with           *)
(* predicates that stay true, that another slave makes false again, or     *)
(* that are never made true.  The condition variables live as long as the  *)
(* program.                                                                *)
(***************************************************************************)
EXTENDS Schedule

CONSTANTS
  Conds,       \* the condition variables
  NoCond,      \* none of them
  MaxNotify    \* bound: notifications of one slave that add up undelivered

ASSUME CondAssumption == NoCond \notin Conds
ASSUME NotifyAssumption == MaxNotify \in Nat \ {0}

CondState == {"kNotifyNone", "kNotifyOne", "kNotifyAll"}

VARIABLES
  cond_state,        \* CoCond::state
  notify_count,      \* CoCond::notify_count
  suspend_cid_set,   \* CoCond::suspend_cid_set
  waiting,           \* waiting[c]: the condition variable whose CoCondWait c is inside
  todo,              \* what the loop of CoCondResume has not come to yet
  serving,           \* the condition variable it delivers a notification of
  branch,            \* the branch taken for it: "kNotifyOne" or "kNotifyAll"
  cid_set,           \* the copy of suspend_cid_set the branch kNotifyAll goes through
  crashed,           \* the process has read the first element of an empty set
  owed               \* auxiliary: the slaves NotifyAll was called for outside
                     \* CoCondResume and that have not run since

cond_vars == <<cond_state, notify_count, suspend_cid_set>>
loop_vars == <<todo, serving, branch, cid_set, crashed>>
vars == <<schedule_vars, cond_vars, waiting, loop_vars, owed>>

Init ==
  /\ ScheduleInit
  /\ cond_state = [k \in Conds |-> "kNotifyNone"]
  /\ notify_count = [k \in Conds |-> 0]
  /\ suspend_cid_set = [k \in Conds |-> {}]
  /\ waiting = [c \in Cids |-> NoCond]
  /\ todo = {}
  /\ serving = NoCond
  /\ branch = "kNotifyNone"
  /\ cid_set = {}
  /\ crashed = FALSE
  /\ owed = [k \in Conds |-> {}]

InEntry == ~ is_master_ /\ waiting[slave_cid_] = NoCond

\* The slave c runs: what it was to be told by NotifyAll it can now see.
Paid(c) == owed' = [k \in Conds |-> owed[k] \ {c}]

-----------------------------------------------------------------------------
(* The calls of the running slave.                                         *)

\* Mutant: a slave whose predicate holds stays in the set.
WaitTurnKeepsEntry(k) ==
  \/ /\ waiting' = [waiting EXCEPT ![slave_cid_] = NoCond]
     /\ UNCHANGED <<pool_vars, suspend_cid_set>>
  \/ /\ suspend_cid_set' = [suspend_cid_set EXCEPT ![k] = @ \cup {slave_cid_}]
     /\ waiting' = [waiting EXCEPT ![slave_cid_] = k]
     /\ CoroutineYield

\* One turn of the loop of CoCondWait: the predicate holds, or the slave is suspended.
WaitTurn(k) ==
  \/ /\ suspend_cid_set' = [suspend_cid_set EXCEPT ![k] = @ \ {slave_cid_}]
     /\ waiting' = [waiting EXCEPT ![slave_cid_] = NoCond]
     /\ UNCHANGED pool_vars
  \/ /\ suspend_cid_set' = [suspend_cid_set EXCEPT ![k] = @ \cup {slave_cid_}]
     /\ waiting' = [waiting EXCEPT ![slave_cid_] = k]
     /\ CoroutineYield

CoCondWait(k) ==
  /\ InEntry /\ Call
  /\ WaitTurn(k)
  /\ UNCHANGED <<cond_state, notify_count, master_vars, loop_vars, owed>>

CoCondWaitAgain ==
  /\ ~ is_master_ /\ ~ InEntry
  /\ WaitTurn(waiting[slave_cid_])
  /\ UNCHANGED <<cond_state, notify_count, calls, master_vars, loop_vars, owed>>

\* Mutant: a single notification takes the place of one for all.
NotifyOneReplacesAll(k) ==
  /\ InEntry /\ Call
  /\ notify_count[k] < MaxNotify
  /\ cond_state' = [cond_state EXCEPT ![k] = "kNotifyOne"]
  /\ notify_count' = [notify_count EXCEPT ![k] = IF cond_state[k] = "kNotifyOne" THEN @ + 1 ELSE 1]
  /\ UNCHANGED <<suspend_cid_set, waiting, pool_vars, master_vars, loop_vars, owed>>

\* Notifications that have not been delivered add up; kNotifyAll includes them all.
CoCondNotifyOne(k) ==
  /\ InEntry /\ Call
  /\ notify_count[k] < MaxNotify
  /\ cond_state' = [cond_state EXCEPT ![k] = IF @ = "kNotifyNone" THEN "kNotifyOne" ELSE @]
  /\ notify_count' =
       [notify_count EXCEPT ![k] = CASE cond_state[k] = "kNotifyNone" -> 1
                                     [] cond_state[k] = "kNotifyOne" -> @ + 1
                                     [] cond_state[k] = "kNotifyAll" -> @]
  /\ UNCHANGED <<suspend_cid_set, waiting, pool_vars, master_vars, loop_vars, owed>>

CoCondNotifyAll(k) ==
  /\ InEntry /\ Call
  /\ cond_state' = [cond_state EXCEPT ![k] = "kNotifyAll"]
  /\ notify_count' = [notify_count EXCEPT ![k] = 0]
  /\ owed' = IF resuming THEN owed ELSE [owed EXCEPT ![k] = suspend_cid_set[k]]
  /\ UNCHANGED <<suspend_cid_set, waiting, pool_vars, master_vars, loop_vars>>

SlaveStep ==
  /\ InEntry
  /\ Yield \/ Spawn \/ Return
  /\ UNCHANGED <<cond_vars, waiting, loop_vars, owed>>

-----------------------------------------------------------------------------
(* The master.                                                             *)

MasterStep ==
  /\ \/ (Create \/ RunBegin) /\ UNCHANGED owed
     \/ \E c \in Cids : EventResume(c) /\ Paid(c)
  /\ UNCHANGED <<cond_vars, waiting, loop_vars>>

RunScanStep ==
  /\ RunScan({})
  /\ IF Resumable(scan) THEN Paid(scan) ELSE UNCHANGED owed
  /\ UNCHANGED <<cond_vars, waiting, loop_vars>>

CoCondResumeBegin ==
  /\ ResumeBegin
  /\ todo' = Conds
  /\ UNCHANGED <<cond_vars, waiting, serving, branch, cid_set, crashed, owed>>

\* The loop comes to k.  It is passed over, its notification kept, when nobody waits.
Visit(k) ==
  /\ resuming /\ is_master_ /\ serving = NoCond
  /\ k \in todo
  /\ todo' = todo \ {k}
  /\ IF cond_state[k] = "kNotifyNone" \/ suspend_cid_set[k] = {}
       THEN UNCHANGED <<serving, branch, cid_set, suspend_cid_set>>
       ELSE /\ serving' = k
            /\ branch' = cond_state[k]
            /\ IF cond_state[k] = "kNotifyAll"
                 THEN /\ cid_set' = suspend_cid_set[k]
                      /\ suspend_cid_set' = [suspend_cid_set EXCEPT ![k] = {}]
                 ELSE UNCHANGED <<cid_set, suspend_cid_set>>
  /\ UNCHANGED <<schedule_vars, cond_state, notify_count, waiting, crashed, owed>>

\* One more turn of while (notify_count--): a waiter, any of the unordered set, is taken
\* out and resumed.  The set may be empty by now: then begin() is read all the same.
NotifyOneTurn ==
  /\ resuming /\ is_master_ /\ branch = "kNotifyOne" /\ ~ crashed
  /\ notify_count[serving] # 0
  /\ notify_count' = [notify_count EXCEPT ![serving] = @ - 1]
  /\ \/ /\ suspend_cid_set[serving] = {}
        /\ crashed' = TRUE
        /\ UNCHANGED <<suspend_cid_set, pool_vars, owed>>
     \/ \E c \in suspend_cid_set[serving] :
          /\ suspend_cid_set' = [suspend_cid_set EXCEPT ![serving] = @ \ {c}]
          /\ CoroutineResume(c) /\ Paid(c)
          /\ UNCHANGED crashed
  /\ UNCHANGED <<cond_state, calls, master_vars, waiting, todo, serving, branch, cid_set>>

\* One more turn of the loop through the copy.
NotifyAllTurn ==
  /\ resuming /\ is_master_ /\ branch = "kNotifyAll"
  /\ \E c \in cid_set :
       /\ cid_set' = cid_set \ {c}
       /\ CoroutineResume(c) /\ Paid(c)
  /\ UNCHANGED <<cond_vars, calls, master_vars, waiting, todo, serving, branch, crashed>>

\* The branch ends: the last decrement of notify_count, and the notification is over,
\* whatever the slaves that were woken have made of it meanwhile.
Served ==
  /\ resuming /\ is_master_ /\ serving # NoCond /\ ~ crashed
  /\ \/ /\ branch = "kNotifyOne" /\ notify_count[serving] = 0
        /\ notify_count' = [notify_count EXCEPT ![serving] = @ - 1]
     \/ branch = "kNotifyAll" /\ cid_set = {} /\ UNCHANGED notify_count
  /\ cond_state' = [cond_state EXCEPT ![serving] = "kNotifyNone"]
  /\ serving' = NoCond
  /\ branch' = "kNotifyNone"
  /\ UNCHANGED <<schedule_vars, suspend_cid_set, waiting, todo, cid_set, crashed, owed>>

CoCondResumeEnd ==
  /\ todo = {} /\ serving = NoCond
  /\ ResumeEnd
  /\ UNCHANGED <<cond_vars, waiting, loop_vars, owed>>

CoCondResume ==
  \/ \E k \in Conds : Visit(k)
  \/ NotifyOneTurn \/ NotifyAllTurn \/ Served
  \/ CoCondResumeEnd

-----------------------------------------------------------------------------

Slave ==
  \/ \E k \in Conds : CoCondWait(k) \/ CoCondNotifyOne(k) \/ CoCondNotifyAll(k)
  \/ CoCondWaitAgain
  \/ SlaveStep

Next == Slave \/ MasterStep \/ RunScanStep \/ CoCondResumeBegin \/ CoCondResume

Spec == Init /\ [][Next]_vars

-----------------------------------------------------------------------------
(* Properties.                                                             *)

\* Every variable has its type and the pool is consistent.
TypeOK ==
  /\ ScheduleTypeOK
  /\ cond_state \in [Conds -> CondState]
  /\ notify_count \in [Conds -> -1 .. MaxNotify]
  /\ suspend_cid_set \in [Conds -> SUBSET Cids]
  /\ waiting \in [Cids -> Conds \cup {NoCond}]
  /\ todo \subseteq Conds
  /\ serving \in Conds \cup {NoCond}
  /\ branch \in CondState
  /\ cid_set \subseteq Cids
  /\ crashed \in BOOLEAN
  /\ owed \in [Conds -> SUBSET Cids]

\* Every waiter is known to its condition variable, or is in the copy CoCondResume is
\* going through, and whoever CoCondResume may resume is suspended inside CoCondWait of
\* that condition variable: a notification can reach every waiter, and the assertion of
\* CoroutineResume holds, also for a slave that waits again while the copy is gone
\* through, which is then in one of the two sets only.
WaiterKnown ==
  /\ \A k \in Conds, c \in Cids :
       waiting[c] = k /\ slave_cid_ # c =>
         c \in suspend_cid_set[k] \/ (serving = k /\ c \in cid_set)
  /\ \A k \in Conds : \A c \in suspend_cid_set[k] :
       waiting[c] = k /\ (slave_cid_ # c => state[c] = "kSuspend")
  /\ \A c \in cid_set :
       /\ waiting[c] = serving /\ state[c] = "kSuspend"
       /\ c \notin suspend_cid_set[serving]

\* NotifyAll called outside CoCondResume reaches every slave that waited when it was
\* called: once the notification is over, all of them have run.
NotifyAllReachesAll ==
  \A k \in Conds : cond_state[k] = "kNotifyNone" => owed[k] = {}

\* What conditionvariable.cpp:45 says: without a suspended slave there is nobody to wake,
\* and none is woken.
WakesOnlyWaiters == ~ crashed
=============================================================================
