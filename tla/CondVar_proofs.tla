---------------------------- MODULE CondVar_proofs ----------------------------
(***************************************************************************)
(* The safety of CoCond for every number of slaves and condition           *)
(* variables, of calls and of notifications that add up: types, that every *)
(* waiter can be reached and only waiters are resumed, and that NotifyAll  *)
(* reaches all who waited.                                                 *)
(***************************************************************************)
EXTENDS CondVar, Schedule_proofs

-----------------------------------------------------------------------------
(* The inductive invariant.  The type of notify_count and NotifyAllReaches-*)
(* All need to know what CoCondResume is in the middle of: which           *)
(* notification it delivers, and from which of the two sets.               *)

\* What CoCondResume is doing: it serves a condition variable that has been notified, and
\* only a notification for all is delivered through the copy of the set.
ServingNotified ==
  /\ serving = NoCond <=> branch = "kNotifyNone"
  /\ serving # NoCond => resuming /\ cond_state[serving] # "kNotifyNone"
  /\ cid_set # {} => branch = "kNotifyAll"

\* Until a notification is over, while (notify_count--) has not counted below zero.
CountNotBelowZero ==
  \A k \in Conds : cond_state[k] # "kNotifyNone" => notify_count[k] >= 0

\* Whoever NotifyAll still owes its wake-up has not run, and waits where CoCondResume will
\* come by: in the set, or in the copy when that is being gone through.
OwedWaits ==
  \A k \in Conds :
    /\ owed[k] # {} => cond_state[k] = "kNotifyAll"
    /\ owed[k] \subseteq (IF serving = k THEN cid_set ELSE suspend_cid_set[k])
    /\ slave_cid_ \notin owed[k]

IInv ==
  /\ WaiterKnown
  /\ ServingNotified
  /\ CountNotBelowZero
  /\ OwedWaits

-----------------------------------------------------------------------------
(* Types.                                                                  *)

\* What TypeOK says of the variables that are not the scheduler's.
CondVarTypeOK ==
  /\ cond_state \in [Conds -> CondState]
  /\ notify_count \in [Conds -> -1 .. MaxNotify]
  /\ suspend_cid_set \in [Conds -> SUBSET Cids]
  /\ waiting \in [Cids -> Conds \cup {NoCond}]
  /\ todo \subseteq Conds
  /\ serving \in Conds \cup {NoCond}
  /\ branch \in CondState
  /\ cid_set \subseteq Cids
  /\ crashed \in BOOLEAN
  /\ owed \in [Conds -> SUBSET Cids]

\* What a slave is owed when another one runs.
LEMMA PaidTyped ==
  ASSUME CondVarTypeOK, NEW c, Paid(c)
  PROVE  owed' \in [Conds -> SUBSET Cids]
BY DEF Paid, CondVarTypeOK

\* A turn of CoCondWait keeps the types.
LEMMA WaitTurnTyped ==
  ASSUME TypeOK, NEW k \in Conds, ~ is_master_, WaitTurn(k),
         UNCHANGED <<cond_state, notify_count, loop_vars, owed>>
  PROVE  PoolOK' /\ CondVarTypeOK'
<1>0. slave_cid_ \in Cids /\ PoolOK /\ CondVarTypeOK
  BY DEF TypeOK, ScheduleTypeOK, PoolOK, is_master_, CondVarTypeOK
<1>1. PoolOK'
  <2>1. CASE UNCHANGED pool_vars
    BY <1>0, <2>1 DEF pool_vars, PoolOK, OneRunner, CountsNotIdle
  <2>2. CASE CoroutineYield
    BY <1>0, <2>2, YieldKeepsPool
  <2>3. QED
    BY <2>1, <2>2 DEF WaitTurn
<1>2. suspend_cid_set' \in [Conds -> SUBSET Cids]
  BY <1>0 DEF WaitTurn, CondVarTypeOK
<1>3. waiting' \in [Cids -> Conds \cup {NoCond}]
  BY <1>0 DEF WaitTurn, CondVarTypeOK
<1>4. QED
  BY <1>0, <1>1, <1>2, <1>3 DEF CondVarTypeOK, loop_vars

\* A notification keeps the types.
LEMMA NotifyTyped ==
  ASSUME TypeOK, IInv, NEW k \in Conds, CoCondNotifyOne(k) \/ CoCondNotifyAll(k)
  PROVE  ScheduleTypeOK' /\ CondVarTypeOK'
<1>0. ScheduleTypeOK /\ PoolOK /\ CondVarTypeOK /\ MaxNotify \in Nat \ {0}
  BY NotifyAssumption DEF TypeOK, ScheduleTypeOK, CondVarTypeOK
<1>1. Call /\ UNCHANGED <<pool_vars, master_vars>>
  BY DEF CoCondNotifyOne, CoCondNotifyAll
<1>2. calls' \in [Cids -> 0 .. MaxCalls]
  BY <1>0, <1>1, CallTyped
<1>3. ScheduleTypeOK'
  BY <1>0, <1>1, <1>2
     DEF pool_vars, master_vars, ScheduleTypeOK, PoolOK, OneRunner, CountsNotIdle
<1>4. cond_state' \in [Conds -> CondState]
  BY <1>0 DEF CoCondNotifyOne, CoCondNotifyAll, CondVarTypeOK, CondState
<1>5. CASE CoCondNotifyOne(k)
  <2> DEFINE count == CASE cond_state[k] = "kNotifyNone" -> 1
                        [] cond_state[k] = "kNotifyOne" -> notify_count[k] + 1
                        [] cond_state[k] = "kNotifyAll" -> notify_count[k]
  <2>1. /\ cond_state[k] \in CondState
        /\ notify_count[k] \in -1 .. MaxNotify /\ notify_count[k] < MaxNotify
    BY <1>0, <1>5 DEF CoCondNotifyOne, CondVarTypeOK
  <2>2. count \in -1 .. MaxNotify
    BY <1>0, <2>1 DEF CondState
  <2>3. notify_count' = [notify_count EXCEPT ![k] = count]
    BY <1>5 DEF CoCondNotifyOne
  <2> HIDE DEF count
  <2>4. notify_count' \in [Conds -> -1 .. MaxNotify]
    BY <1>0, <2>2, <2>3 DEF CondVarTypeOK
  <2>5. QED
    BY <1>0, <1>3, <1>4, <1>5, <2>4 DEF CoCondNotifyOne, CondVarTypeOK, loop_vars
<1>6. CASE CoCondNotifyAll(k)
  <2>1. notify_count' \in [Conds -> -1 .. MaxNotify]
    BY <1>0, <1>6 DEF CoCondNotifyAll, CondVarTypeOK
  <2>2. owed' \in [Conds -> SUBSET Cids]
    BY <1>0, <1>6 DEF CoCondNotifyAll, CondVarTypeOK
  <2>3. QED
    BY <1>0, <1>3, <1>4, <1>6, <2>1, <2>2 DEF CoCondNotifyAll, CondVarTypeOK, loop_vars
<1>7. QED
  BY <1>5, <1>6

\* CoCondResume comes to a condition variable.
LEMMA VisitTyped ==
  ASSUME TypeOK, NEW k \in Conds, Visit(k)
  PROVE  ScheduleTypeOK' /\ CondVarTypeOK'
<1>0. ScheduleTypeOK /\ CondVarTypeOK
  BY DEF TypeOK, CondVarTypeOK
<1>1. ScheduleTypeOK'
  BY <1>0, UnchangedTyped DEF Visit
<1>2. suspend_cid_set' \in [Conds -> SUBSET Cids] /\ cid_set' \subseteq Cids
  BY <1>0 DEF Visit, CondVarTypeOK
<1>3. branch' \in CondState /\ serving' \in Conds \cup {NoCond}
  BY <1>0 DEF Visit, CondVarTypeOK
<1>4. QED
  BY <1>0, <1>1, <1>2, <1>3 DEF Visit, CondVarTypeOK

\* It wakes a waiter, of those that are left or of the copy.
LEMMA TurnTyped ==
  ASSUME TypeOK, IInv, NotifyOneTurn \/ NotifyAllTurn
  PROVE  ScheduleTypeOK' /\ CondVarTypeOK'
<1>0. ScheduleTypeOK /\ PoolOK /\ CondVarTypeOK
  BY DEF TypeOK, ScheduleTypeOK, CondVarTypeOK
<1>1. PoolOK'
  <2>1. CASE UNCHANGED pool_vars
    BY <1>0, <2>1 DEF pool_vars, PoolOK, OneRunner, CountsNotIdle
  <2>2. CASE \E c \in Cids : CoroutineResume(c)
    BY <1>0, <2>2, ResumeKeepsPool
  <2>3. serving \in Conds => suspend_cid_set[serving] \subseteq Cids
    BY <1>0 DEF CondVarTypeOK
  <2>4. NotifyOneTurn => serving \in Conds
    BY <1>0 DEF NotifyOneTurn, IInv, ServingNotified, CondVarTypeOK
  <2>5. QED
    BY <1>0, <2>1, <2>2, <2>3, <2>4 DEF NotifyOneTurn, NotifyAllTurn, CondVarTypeOK
<1>2. ScheduleTypeOK'
  BY <1>0, <1>1 DEF NotifyOneTurn, NotifyAllTurn, ScheduleTypeOK, master_vars
<1>3. owed' \in [Conds -> SUBSET Cids]
  BY <1>0, PaidTyped DEF NotifyOneTurn, NotifyAllTurn, CondVarTypeOK
<1>4. CASE NotifyOneTurn
  <2>1. serving \in Conds /\ notify_count[serving] \in -1 .. MaxNotify /\ notify_count[serving] >= 0
    BY <1>0, <1>4 DEF NotifyOneTurn, IInv, ServingNotified, CountNotBelowZero, CondVarTypeOK
  <2>2. notify_count[serving] - 1 \in -1 .. MaxNotify
    BY <1>4, <2>1, NotifyAssumption
  <2>3. notify_count' \in [Conds -> -1 .. MaxNotify]
    BY <1>0, <1>4, <2>1, <2>2 DEF NotifyOneTurn, CondVarTypeOK
  <2>4. suspend_cid_set' \in [Conds -> SUBSET Cids]
    BY <1>0, <1>4, <2>1 DEF NotifyOneTurn, CondVarTypeOK
  <2>5. crashed' \in BOOLEAN
    BY <1>0, <1>4 DEF NotifyOneTurn, CondVarTypeOK
  <2>6. QED
    BY <1>0, <1>2, <1>3, <1>4, <2>3, <2>4, <2>5 DEF NotifyOneTurn, CondVarTypeOK
<1>5. CASE NotifyAllTurn
  BY <1>0, <1>2, <1>3, <1>5 DEF NotifyAllTurn, cond_vars, CondVarTypeOK
<1>6. QED
  BY <1>4, <1>5

\* A notification is over.
LEMMA ServedTyped ==
  ASSUME TypeOK, Served
  PROVE  ScheduleTypeOK' /\ CondVarTypeOK'
<1>0. ScheduleTypeOK /\ CondVarTypeOK /\ serving \in Conds
  BY DEF TypeOK, CondVarTypeOK, Served
<1>1. ScheduleTypeOK'
  BY <1>0, UnchangedTyped DEF Served
<1>2. cond_state' \in [Conds -> CondState] /\ branch' \in CondState
  BY <1>0 DEF Served, CondVarTypeOK, CondState
<1>3. notify_count' \in [Conds -> -1 .. MaxNotify]
  BY <1>0, NotifyAssumption DEF Served, CondVarTypeOK
<1>4. QED
  BY <1>0, <1>1, <1>2, <1>3 DEF Served, CondVarTypeOK

\* Every step keeps the types.
LEMMA NextTyped ==
  ASSUME TypeOK, IInv, [Next]_vars
  PROVE  TypeOK'
<1>0. ScheduleTypeOK /\ PoolOK /\ CondVarTypeOK
  BY DEF TypeOK, ScheduleTypeOK, CondVarTypeOK
<1> SUFFICES ScheduleTypeOK' /\ CondVarTypeOK'
  BY DEF TypeOK, CondVarTypeOK
<1>1. ASSUME NEW k \in Conds, CoCondWait(k)
      PROVE  ScheduleTypeOK' /\ CondVarTypeOK'
  <2>1. PoolOK' /\ CondVarTypeOK'
    BY <1>1, WaitTurnTyped DEF CoCondWait, InEntry
  <2>2. calls' \in [Cids -> 0 .. MaxCalls]
    BY <1>0, <1>1, CallTyped DEF CoCondWait
  <2>3. QED
    BY <1>0, <1>1, <2>1, <2>2 DEF CoCondWait, master_vars, ScheduleTypeOK
<1>2. CASE CoCondWaitAgain
  <2>1. ~ is_master_ /\ slave_cid_ \in Cids /\ waiting[slave_cid_] \in Conds
    BY <1>0, <1>2 DEF CoCondWaitAgain, InEntry, is_master_, PoolOK, CondVarTypeOK
  <2>2. PoolOK' /\ CondVarTypeOK'
    BY <1>2, <2>1, WaitTurnTyped DEF CoCondWaitAgain
  <2>3. QED
    BY <1>0, <1>2, <2>2 DEF CoCondWaitAgain, master_vars, ScheduleTypeOK
<1>3. CASE SlaveStep
  <2>1. ScheduleTypeOK'
    BY <1>0, <1>3, SlaveStepTyped DEF SlaveStep
  <2>2. QED
    BY <1>0, <1>3, <2>1 DEF SlaveStep, cond_vars, loop_vars, CondVarTypeOK
<1>4. CASE MasterStep
  <2>1. ScheduleTypeOK'
    BY <1>0, <1>4, MasterStepTyped DEF MasterStep
  <2>2. owed' \in [Conds -> SUBSET Cids]
    BY <1>0, <1>4, PaidTyped DEF MasterStep, CondVarTypeOK
  <2>3. QED
    BY <1>0, <1>4, <2>1, <2>2 DEF MasterStep, cond_vars, loop_vars, CondVarTypeOK
<1>5. CASE RunScanStep
  <2>1. ScheduleTypeOK'
    BY <1>0, <1>5, RunScanTyped DEF RunScanStep
  <2>2. owed' \in [Conds -> SUBSET Cids]
    BY <1>0, <1>5, PaidTyped DEF RunScanStep, CondVarTypeOK
  <2>3. QED
    BY <1>0, <1>5, <2>1, <2>2 DEF RunScanStep, cond_vars, loop_vars, CondVarTypeOK
<1>6. CASE CoCondResumeBegin \/ CoCondResumeEnd
  <2>1. ScheduleTypeOK'
    BY <1>0, <1>6, ResumeLoopTyped DEF CoCondResumeBegin, CoCondResumeEnd
  <2>2. QED
    BY <1>0, <1>6, <2>1
       DEF CoCondResumeBegin, CoCondResumeEnd, cond_vars, loop_vars, CondVarTypeOK
<1>7. CASE UNCHANGED vars
  <2>1. ScheduleTypeOK'
    BY <1>0, <1>7, UnchangedTyped DEF vars
  <2>2. QED
    BY <1>0, <1>7, <2>1 DEF vars, cond_vars, loop_vars, CondVarTypeOK
<1>8. QED
  BY <1>1, <1>2, <1>3, <1>4, <1>5, <1>6, <1>7, NotifyTyped, VisitTyped, TurnTyped, ServedTyped
     DEF Next, Slave, CoCondResume

\* The types hold at the start.
LEMMA InitTyped ==
  ASSUME Init
  PROVE  TypeOK
<1>1. ScheduleTypeOK
  BY InitPool DEF Init
<1>2. 0 \in -1 .. MaxNotify
  BY NotifyAssumption
<1>3. QED
  BY <1>1, <1>2 DEF Init, TypeOK, CondState

-----------------------------------------------------------------------------
(* Every step keeps the inductive invariant.                               *)

\* Yielding, creating a slave, ending, and what the master does outside the deliveries.
LEMMA OtherStepKeepsIInv ==
  ASSUME TypeOK, IInv,
         SlaveStep \/ MasterStep \/ RunScanStep \/ CoCondResumeBegin \/ CoCondResumeEnd
  PROVE  IInv'
<1>0. /\ UNCHANGED <<cond_vars, waiting, serving, branch, cid_set>>
      /\ is_master_ \/ InEntry
      /\ owed \in [Conds -> SUBSET Cids]
      /\ waiting \in [Cids -> Conds \cup {NoCond}]
      /\ ScheduleTypeOK
  BY DEF SlaveStep, MasterStep, RunScanStep, CoCondResumeBegin, CoCondResumeEnd, loop_vars,
         Create, RunBegin, EventResume, AtLarge, RunScan, ResumeBegin, ResumeEnd, TypeOK
<1>1. \A c \in Cids : waiting[c] # NoCond => c # slave_cid_
  BY <1>0, InvalidIsNoCid DEF is_master_, InEntry
<1>2. ServingNotified'
  BY <1>0
     DEF IInv, ServingNotified, SlaveStep, Yield, Spawn, Return, master_vars, MasterStep, Create,
         RunBegin, EventResume, AtLarge, RunScanStep, RunScan, CoCondResumeBegin, ResumeBegin,
         CoCondResumeEnd, ResumeEnd, cond_vars
<1>3. \/ slave_cid_' \in {slave_cid_, kInvalidCid} /\ UNCHANGED owed
      \/ ~ resuming /\ slave_cid_' \in Cids /\ Paid(slave_cid_')
  <2>1. CASE SlaveStep
    BY <2>1 DEF SlaveStep, Yield, CoroutineYield, Spawn, CoroutineInit, Return, CoroutineRun
  <2>2. CASE MasterStep
    BY <2>2
       DEF MasterStep, Create, CoroutineInit, RunBegin, EventResume, AtLarge, CoroutineResume,
           pool_vars
  <2>3. CASE RunScanStep
    <3>1. scan \in Cids
      BY <1>0, <2>3, PoolAssumption DEF RunScanStep, RunScan, ScheduleTypeOK, Cids
    <3>2. QED
      BY <2>3, <3>1 DEF RunScanStep, RunScan, CoroutineResume, pool_vars
  <2>4. CASE CoCondResumeBegin \/ CoCondResumeEnd
    BY <2>4 DEF CoCondResumeBegin, ResumeBegin, CoCondResumeEnd, ResumeEnd, pool_vars
  <2>5. QED
    BY <2>1, <2>2, <2>3, <2>4
<1>4. OwedWaits'
  <2>1. \A k \in Conds : owed'[k] \subseteq owed[k]
    BY <1>0, <1>3 DEF Paid
  <2>2. \A k \in Conds : slave_cid_' \notin owed'[k]
    BY <1>0, <1>3, InvalidIsNoCid DEF IInv, OwedWaits, Paid
  <2>3. QED
    BY <1>0, <2>1, <2>2 DEF IInv, OwedWaits, cond_vars
<1>5. CountNotBelowZero'
  BY <1>0 DEF IInv, CountNotBelowZero, cond_vars
<1>6. \A c \in Cids : waiting[c] # NoCond /\ state[c] = "kSuspend" /\ slave_cid_' # c =>
        state'[c] = "kSuspend"
  BY <1>0, <1>1, SuspendedStays
     DEF SlaveStep, MasterStep, RunScanStep, CoCondResumeBegin, CoCondResumeEnd
<1>7. WaiterKnown'
  <2>1. \A k \in Conds, c \in Cids :
          waiting[c] = k => c \in suspend_cid_set[k] \/ (serving = k /\ c \in cid_set)
    BY <1>1, CondAssumption DEF IInv, WaiterKnown
  <2>2. \A k \in Conds : \A c \in suspend_cid_set[k] :
          c \in Cids /\ waiting[c] = k /\ (slave_cid_' # c => state'[c] = "kSuspend")
    BY <1>1, <1>6, CondAssumption DEF IInv, WaiterKnown, TypeOK
  <2>3. ASSUME NEW c \in cid_set
        PROVE  /\ waiting[c] = serving /\ state'[c] = "kSuspend"
               /\ c \notin suspend_cid_set[serving]
    <3>1. /\ c \in Cids /\ waiting[c] = serving /\ state[c] = "kSuspend"
          /\ c \notin suspend_cid_set[serving]
          /\ serving # NoCond /\ resuming
      BY <2>3 DEF IInv, WaiterKnown, ServingNotified, TypeOK
    <3>2. slave_cid_' # c
      BY <1>1, <1>3, <3>1, InvalidIsNoCid
    <3>3. QED
      BY <1>6, <3>1, <3>2
  <2>4. QED
    BY <1>0, <2>1, <2>2, <2>3 DEF WaiterKnown, cond_vars
<1>8. QED
  BY <1>2, <1>4, <1>5, <1>7 DEF IInv

\* A turn of CoCondWait: the slave leaves, or it is suspended and known.
LEMMA WaitTurnKeepsIInv ==
  ASSUME TypeOK, IInv, NEW k \in Conds, ~ is_master_, waiting[slave_cid_] \in {NoCond, k},
         WaitTurn(k), UNCHANGED <<cond_state, notify_count, master_vars, loop_vars, owed>>
  PROVE  IInv'
<1>0. /\ slave_cid_ \in Cids /\ state[slave_cid_] = "kRun"
      /\ state \in [Cids -> State]
      /\ suspend_cid_set \in [Conds -> SUBSET Cids]
      /\ waiting \in [Cids -> Conds \cup {NoCond}]
      /\ owed \in [Conds -> SUBSET Cids]
      /\ cid_set \subseteq Cids
      /\ slave_cid_ \notin cid_set
  BY DEF TypeOK, ScheduleTypeOK, PoolOK, OneRunner, is_master_, IInv, WaiterKnown
<1>1. ServingNotified' /\ CountNotBelowZero'
  BY DEF IInv, ServingNotified, CountNotBelowZero, loop_vars, master_vars
<1>2. /\ \A n \in Conds : slave_cid_ \notin owed[n] /\ slave_cid_' \notin owed[n]
      /\ \A n \in Conds : suspend_cid_set[n] \ {slave_cid_} \subseteq suspend_cid_set'[n]
  BY <1>0, InvalidIsNoCid DEF IInv, OwedWaits, WaitTurn, CoroutineYield, pool_vars
<1>3. OwedWaits'
  BY <1>0, <1>2 DEF IInv, OwedWaits, loop_vars
<1>4. \A n \in Conds : slave_cid_ \in suspend_cid_set[n] => n = k
  BY <1>0, CondAssumption DEF IInv, WaiterKnown
<1>5. CASE /\ UNCHANGED pool_vars
           /\ suspend_cid_set' = [suspend_cid_set EXCEPT ![k] = @ \ {slave_cid_}]
           /\ waiting' = [waiting EXCEPT ![slave_cid_] = NoCond]
  <2>1. ASSUME NEW n \in Conds, NEW c \in Cids, waiting'[c] = n, slave_cid_' # c
        PROVE  c \in suspend_cid_set'[n] \/ (serving' = n /\ c \in cid_set')
    BY <1>0, <1>5, <2>1 DEF IInv, WaiterKnown, loop_vars, pool_vars
  <2>2. ASSUME NEW n \in Conds, NEW c \in suspend_cid_set'[n]
        PROVE  waiting'[c] = n /\ (slave_cid_' # c => state'[c] = "kSuspend")
    <3>1. c \in suspend_cid_set[n] /\ c # slave_cid_ /\ c \in Cids
      BY <1>0, <1>4, <1>5, <2>2
    <3>2. QED
      BY <1>0, <1>5, <3>1 DEF IInv, WaiterKnown, pool_vars
  <2>3. ASSUME NEW c \in cid_set'
        PROVE  /\ waiting'[c] = serving' /\ state'[c] = "kSuspend"
               /\ c \notin suspend_cid_set'[serving']
    BY <1>0, <1>5, <2>3 DEF IInv, WaiterKnown, loop_vars, pool_vars
  <2>4. QED
    BY <1>1, <1>3, <2>1, <2>2, <2>3 DEF IInv, WaiterKnown
<1>6. CASE CoroutineYield /\ suspend_cid_set' = [suspend_cid_set EXCEPT ![k] = @ \cup {slave_cid_}]
           /\ waiting' = [waiting EXCEPT ![slave_cid_] = k]
  <2>0. state' = [state EXCEPT ![slave_cid_] = "kSuspend"] /\ slave_cid_' = kInvalidCid
    BY <1>6 DEF CoroutineYield
  <2>1. ASSUME NEW n \in Conds, NEW c \in Cids, waiting'[c] = n
        PROVE  c \in suspend_cid_set'[n] \/ (serving' = n /\ c \in cid_set')
    <3>1. CASE c = slave_cid_
      BY <1>0, <1>6, <2>1, <3>1
    <3>2. CASE c # slave_cid_
      BY <1>0, <1>6, <2>1, <3>2 DEF IInv, WaiterKnown, loop_vars
    <3>3. QED
      BY <3>1, <3>2
  <2>2. ASSUME NEW n \in Conds, NEW c \in suspend_cid_set'[n]
        PROVE  waiting'[c] = n /\ state'[c] = "kSuspend"
    <3>1. CASE c = slave_cid_
      BY <1>0, <1>4, <1>6, <2>0, <2>2, <3>1
    <3>2. CASE c # slave_cid_
      <4>1. c \in suspend_cid_set[n] /\ c \in Cids
        BY <1>0, <1>6, <2>2, <3>2
      <4>2. QED
        BY <1>0, <1>6, <2>0, <3>2, <4>1 DEF IInv, WaiterKnown
    <3>3. QED
      BY <3>1, <3>2
  <2>3. ASSUME NEW c \in cid_set'
        PROVE  /\ waiting'[c] = serving' /\ state'[c] = "kSuspend"
               /\ c \notin suspend_cid_set'[serving']
    BY <1>0, <1>6, <2>0, <2>3 DEF IInv, WaiterKnown, loop_vars
  <2>4. QED
    BY <1>1, <1>3, <2>1, <2>2, <2>3 DEF IInv, WaiterKnown
<1>7. QED
  BY <1>5, <1>6 DEF WaitTurn

\* A notification: it never takes the place of one for all that is not delivered.
LEMMA NotifyKeepsIInv ==
  ASSUME TypeOK, IInv, NEW k \in Conds, CoCondNotifyOne(k) \/ CoCondNotifyAll(k)
  PROVE  IInv'
<1>0. /\ slave_cid_ \in Cids /\ waiting[slave_cid_] = NoCond
      /\ cond_state \in [Conds -> CondState]
      /\ notify_count \in [Conds -> -1 .. MaxNotify]
      /\ owed \in [Conds -> SUBSET Cids]
      /\ UNCHANGED <<suspend_cid_set, waiting, pool_vars, master_vars, loop_vars>>
  BY DEF CoCondNotifyOne, CoCondNotifyAll, InEntry, is_master_, TypeOK, ScheduleTypeOK, PoolOK
<1>1. WaiterKnown'
  BY <1>0 DEF IInv, WaiterKnown, loop_vars, pool_vars
<1>2. \A n \in Conds : cond_state'[n] = "kNotifyNone" => cond_state[n] = "kNotifyNone"
  BY <1>0 DEF CoCondNotifyOne, CoCondNotifyAll
<1>3. ServingNotified'
  BY <1>0, <1>2 DEF IInv, ServingNotified, loop_vars, master_vars, TypeOK
<1>4. CountNotBelowZero'
  <2>1. ASSUME NEW n \in Conds, cond_state'[n] # "kNotifyNone" PROVE notify_count'[n] >= 0
    <3>1. /\ notify_count[n] \in Int /\ cond_state[n] \in CondState
          /\ cond_state[n] # "kNotifyNone" => notify_count[n] >= 0
      BY <1>0 DEF IInv, CountNotBelowZero
    <3>2. CASE n # k
      BY <1>0, <2>1, <3>1, <3>2 DEF CoCondNotifyOne, CoCondNotifyAll
    <3>3. CASE n = k /\ CoCondNotifyOne(k)
      BY <1>0, <2>1, <3>1, <3>3 DEF CoCondNotifyOne, CondState
    <3>4. CASE n = k /\ CoCondNotifyAll(k)
      BY <1>0, <3>4 DEF CoCondNotifyAll
    <3>5. QED
      BY <3>2, <3>3, <3>4
  <2>2. QED
    BY <2>1 DEF CountNotBelowZero
<1>5. OwedWaits'
  <2>1. \A n \in Conds : cond_state[n] = "kNotifyAll" => cond_state'[n] = "kNotifyAll"
    BY <1>0 DEF CoCondNotifyOne, CoCondNotifyAll
  <2>2. CASE UNCHANGED owed
    BY <1>0, <2>1, <2>2 DEF IInv, OwedWaits, loop_vars, pool_vars
  <2>3. CASE CoCondNotifyAll(k) /\ ~ resuming
    <3>1. /\ serving = NoCond /\ serving' = NoCond /\ k # NoCond
          /\ owed' = [owed EXCEPT ![k] = suspend_cid_set[k]]
          /\ cond_state'[k] = "kNotifyAll"
      BY <1>0, <2>3, CondAssumption
         DEF CoCondNotifyAll, IInv, ServingNotified, TypeOK, loop_vars
    <3>2. slave_cid_ \notin suspend_cid_set[k]
      BY <1>0, CondAssumption DEF IInv, WaiterKnown
    <3>3. QED
      BY <1>0, <2>1, <3>1, <3>2, CondAssumption DEF IInv, OwedWaits, pool_vars
  <2>4. QED
    BY <2>2, <2>3 DEF CoCondNotifyOne, CoCondNotifyAll
<1>6. QED
  BY <1>1, <1>3, <1>4, <1>5 DEF IInv

\* CoCondResume comes to a condition variable, and may move its set into the copy.
LEMMA VisitKeepsIInv ==
  ASSUME TypeOK, IInv, NEW k \in Conds, Visit(k)
  PROVE  IInv'
<1>0. /\ serving = NoCond /\ resuming /\ is_master_ /\ k # NoCond
      /\ branch = "kNotifyNone" /\ cid_set = {}
      /\ suspend_cid_set \in [Conds -> SUBSET Cids]
      /\ cond_state \in [Conds -> CondState]
      /\ UNCHANGED <<schedule_vars, cond_state, notify_count, waiting, owed>>
  BY CondAssumption DEF Visit, IInv, ServingNotified, TypeOK
<1>1. CountNotBelowZero'
  BY <1>0 DEF IInv, CountNotBelowZero
<1>2. \A n \in Conds : \A c \in suspend_cid_set[n] :
        c \in Cids /\ waiting[c] = n /\ state[c] = "kSuspend"
  BY <1>0, InvalidIsNoCid DEF IInv, WaiterKnown, is_master_
<1>3. CASE cond_state[k] = "kNotifyNone" \/ suspend_cid_set[k] = {}
  <2>1. UNCHANGED <<serving, branch, cid_set, suspend_cid_set>>
    BY <1>3 DEF Visit
  <2>2. QED
    BY <1>0, <1>1, <2>1
       DEF IInv, WaiterKnown, ServingNotified, OwedWaits, schedule_vars, pool_vars, master_vars
<1>4. CASE cond_state[k] = "kNotifyAll" /\ suspend_cid_set[k] # {}
  <2>1. /\ serving' = k /\ branch' = "kNotifyAll" /\ cid_set' = suspend_cid_set[k]
        /\ suspend_cid_set' = [suspend_cid_set EXCEPT ![k] = {}]
    BY <1>4 DEF Visit
  <2>2. WaiterKnown'
    <3>1. ASSUME NEW n \in Conds, NEW c \in Cids, waiting[c] = n
          PROVE  c \in suspend_cid_set'[n] \/ (serving' = n /\ c \in cid_set')
      BY <1>0, <2>1, <3>1, InvalidIsNoCid DEF IInv, WaiterKnown, is_master_
    <3>2. ASSUME NEW n \in Conds, NEW c \in suspend_cid_set'[n]
          PROVE  waiting[c] = n /\ state[c] = "kSuspend"
      BY <1>0, <1>2, <2>1, <3>2
    <3>3. ASSUME NEW c \in cid_set'
          PROVE  /\ waiting[c] = serving' /\ state[c] = "kSuspend"
                 /\ c \notin suspend_cid_set'[serving']
      BY <1>0, <1>2, <2>1, <3>3
    <3>4. QED
      BY <1>0, <3>1, <3>2, <3>3 DEF WaiterKnown, schedule_vars, pool_vars
  <2>3. ServingNotified'
    BY <1>0, <1>4, <2>1 DEF ServingNotified, schedule_vars, master_vars
  <2>4. OwedWaits'
    BY <1>0, <2>1 DEF IInv, OwedWaits, schedule_vars, pool_vars
  <2>5. QED
    BY <1>1, <2>2, <2>3, <2>4 DEF IInv
<1>5. CASE cond_state[k] = "kNotifyOne" /\ suspend_cid_set[k] # {}
  <2>1. serving' = k /\ branch' = "kNotifyOne" /\ UNCHANGED <<cid_set, suspend_cid_set>>
    BY <1>5 DEF Visit
  <2>2. WaiterKnown'
    BY <1>0, <2>1 DEF IInv, WaiterKnown, schedule_vars, pool_vars
  <2>3. ServingNotified'
    BY <1>0, <1>5, <2>1 DEF ServingNotified, schedule_vars, master_vars
  <2>4. OwedWaits'
    BY <1>0, <1>5, <2>1 DEF IInv, OwedWaits, schedule_vars, pool_vars
  <2>5. QED
    BY <1>1, <2>2, <2>3, <2>4 DEF IInv
<1>6. QED
  BY <1>0, <1>3, <1>4, <1>5 DEF CondState

\* A waiter is taken out of the set and resumed, or the set is empty and nobody is.
LEMMA NotifyOneKeepsIInv ==
  ASSUME TypeOK, IInv, NotifyOneTurn
  PROVE  IInv'
<1>0. /\ serving \in Conds /\ cid_set = {} /\ branch = "kNotifyOne" /\ is_master_
      /\ suspend_cid_set \in [Conds -> SUBSET Cids]
      /\ notify_count \in [Conds -> -1 .. MaxNotify]
      /\ state \in [Cids -> State]
      /\ owed \in [Conds -> SUBSET Cids]
      /\ UNCHANGED <<cond_state, calls, master_vars, waiting, todo, serving, branch, cid_set>>
  BY DEF NotifyOneTurn, IInv, ServingNotified, TypeOK, ScheduleTypeOK, PoolOK
<1>1. CountNotBelowZero'
  <2>1. notify_count[serving] \in Int /\ notify_count[serving] >= 0 /\ notify_count[serving] # 0
    BY <1>0, NotifyAssumption DEF NotifyOneTurn, IInv, CountNotBelowZero, ServingNotified
  <2>2. /\ notify_count'[serving] >= 0
        /\ \A n \in Conds \ {serving} : notify_count'[n] = notify_count[n]
    BY <1>0, <2>1 DEF NotifyOneTurn
  <2>3. QED
    BY <1>0, <2>2 DEF IInv, CountNotBelowZero
<1>2. ServingNotified'
  BY <1>0 DEF IInv, ServingNotified, master_vars
<1>3. CASE UNCHANGED <<suspend_cid_set, pool_vars, owed>>
  BY <1>0, <1>1, <1>2, <1>3 DEF IInv, WaiterKnown, OwedWaits, pool_vars
<1>4. ASSUME NEW c \in suspend_cid_set[serving],
             suspend_cid_set' = [suspend_cid_set EXCEPT ![serving] = @ \ {c}],
             CoroutineResume(c), Paid(c)
      PROVE  IInv'
  <2>1. /\ c \in Cids /\ slave_cid_' = c /\ state' = [state EXCEPT ![c] = "kRun"]
        /\ owed' = [k \in Conds |-> owed[k] \ {c}]
    BY <1>0, <1>4 DEF CoroutineResume, Paid
  <2>2. \A n \in Conds : \A d \in suspend_cid_set[n] :
          d \in Cids /\ waiting[d] = n /\ state[d] = "kSuspend"
    BY <1>0, InvalidIsNoCid DEF IInv, WaiterKnown, is_master_
  <2>3. WaiterKnown'
    <3>1. ASSUME NEW n \in Conds, NEW d \in Cids, waiting[d] = n, d # c
          PROVE  d \in suspend_cid_set'[n]
      BY <1>0, <1>4, <3>1, InvalidIsNoCid DEF IInv, WaiterKnown, is_master_
    <3>2. ASSUME NEW n \in Conds, NEW d \in suspend_cid_set'[n]
          PROVE  waiting[d] = n /\ (d # c => state'[d] = "kSuspend")
      BY <1>0, <1>4, <2>1, <2>2, <3>2
    <3>3. QED
      BY <1>0, <2>1, <3>1, <3>2 DEF WaiterKnown
  <2>4. OwedWaits'
    <3>1. ASSUME NEW n \in Conds
          PROVE  /\ owed'[n] \subseteq owed[n] \ {c}
                 /\ n # serving => suspend_cid_set'[n] = suspend_cid_set[n]
      BY <1>0, <1>4, <2>1
    <3>2. QED
      BY <1>0, <2>1, <3>1 DEF IInv, OwedWaits
  <2>5. QED
    BY <1>1, <1>2, <2>3, <2>4 DEF IInv
<1>5. QED
  BY <1>3, <1>4 DEF NotifyOneTurn

\* A slave of the copy is resumed, once: what it does then concerns the set.
LEMMA NotifyAllKeepsIInv ==
  ASSUME TypeOK, IInv, NotifyAllTurn
  PROVE  IInv'
<1>0. /\ serving \in Conds /\ branch = "kNotifyAll" /\ is_master_
      /\ suspend_cid_set \in [Conds -> SUBSET Cids]
      /\ state \in [Cids -> State]
      /\ cid_set \subseteq Cids
      /\ owed \in [Conds -> SUBSET Cids]
      /\ UNCHANGED <<cond_vars, calls, master_vars, waiting, todo, serving, branch, crashed>>
  BY DEF NotifyAllTurn, IInv, ServingNotified, TypeOK, ScheduleTypeOK, PoolOK
<1>1. PICK c \in cid_set : cid_set' = cid_set \ {c} /\ CoroutineResume(c) /\ Paid(c)
  BY DEF NotifyAllTurn
<1>2. /\ c \in Cids /\ slave_cid_' = c /\ state' = [state EXCEPT ![c] = "kRun"]
      /\ owed' = [k \in Conds |-> owed[k] \ {c}]
  BY <1>0, <1>1 DEF CoroutineResume, Paid
<1>3. CountNotBelowZero' /\ ServingNotified'
  BY <1>0, <1>1 DEF IInv, CountNotBelowZero, ServingNotified, cond_vars, master_vars
<1>4. WaiterKnown'
  <2>1. ASSUME NEW n \in Conds, NEW d \in Cids, waiting[d] = n, d # c
        PROVE  d \in suspend_cid_set[n] \/ (serving = n /\ d \in cid_set')
    BY <1>0, <1>1, <2>1, InvalidIsNoCid DEF IInv, WaiterKnown, is_master_
  <2>2. ASSUME NEW n \in Conds, NEW d \in suspend_cid_set[n]
        PROVE  waiting[d] = n /\ (d # c => state'[d] = "kSuspend")
    BY <1>0, <1>2, <2>2, InvalidIsNoCid DEF IInv, WaiterKnown, is_master_
  <2>3. ASSUME NEW d \in cid_set'
        PROVE  waiting[d] = serving /\ state'[d] = "kSuspend" /\ d \notin suspend_cid_set[serving]
    BY <1>0, <1>1, <1>2, <2>3 DEF IInv, WaiterKnown
  <2>4. QED
    BY <1>0, <1>2, <2>1, <2>2, <2>3 DEF WaiterKnown, cond_vars
<1>5. OwedWaits'
  BY <1>0, <1>1, <1>2 DEF IInv, OwedWaits, cond_vars
<1>6. QED
  BY <1>3, <1>4, <1>5 DEF IInv

\* A notification is over: the copy is used up, so NotifyAll owes nobody any more.
LEMMA ServedKeepsIInv ==
  ASSUME TypeOK, IInv, Served
  PROVE  IInv'
<1>0. /\ serving \in Conds /\ serving # NoCond /\ cid_set = {}
      /\ cond_state' = [cond_state EXCEPT ![serving] = "kNotifyNone"]
      /\ serving' = NoCond /\ branch' = "kNotifyNone"
      /\ cond_state \in [Conds -> CondState]
      /\ notify_count \in [Conds -> -1 .. MaxNotify]
      /\ UNCHANGED <<schedule_vars, suspend_cid_set, waiting, todo, cid_set, owed>>
  BY DEF Served, IInv, ServingNotified, TypeOK
<1>1. WaiterKnown'
  BY <1>0 DEF IInv, WaiterKnown, schedule_vars, pool_vars
<1>2. ServingNotified'
  BY <1>0 DEF ServingNotified
<1>3. CountNotBelowZero'
  BY <1>0 DEF Served, IInv, CountNotBelowZero
<1>4. owed[serving] = {}
  BY <1>0 DEF IInv, OwedWaits
<1>5. OwedWaits'
  BY <1>0, <1>4, CondAssumption DEF IInv, OwedWaits, schedule_vars, pool_vars
<1>6. QED
  BY <1>1, <1>2, <1>3, <1>5 DEF IInv

\* The invariant is inductive.
LEMMA NextKeepsIInv ==
  ASSUME TypeOK, IInv, [Next]_vars
  PROVE  IInv'
<1>1. ASSUME NEW k \in Conds, CoCondWait(k) PROVE IInv'
  BY <1>1, WaitTurnKeepsIInv DEF CoCondWait, InEntry
<1>2. CASE CoCondWaitAgain
  <2>1. ~ is_master_ /\ waiting[slave_cid_] \in Conds
    BY <1>2 DEF CoCondWaitAgain, InEntry, is_master_, TypeOK, ScheduleTypeOK, PoolOK
  <2>2. QED
    BY <1>2, <2>1, WaitTurnKeepsIInv DEF CoCondWaitAgain
<1>3. CASE UNCHANGED vars
  BY <1>3
     DEF vars, schedule_vars, pool_vars, master_vars, cond_vars, loop_vars, IInv, WaiterKnown,
         ServingNotified, CountNotBelowZero, OwedWaits
<1>4. QED
  BY <1>1, <1>2, <1>3, OtherStepKeepsIInv, NotifyKeepsIInv, VisitKeepsIInv, NotifyOneKeepsIInv,
     NotifyAllKeepsIInv, ServedKeepsIInv DEF Next, Slave, CoCondResume

\* It holds at the start.
LEMMA InitIInv ==
  ASSUME Init
  PROVE  IInv
BY CondAssumption DEF Init, IInv, WaiterKnown, ServingNotified, CountNotBelowZero, OwedWaits

\* So types and invariant hold always: the one is needed for the other.
LEMMA AlwaysIInv == Spec => [](TypeOK /\ IInv)
<1>1. Init => TypeOK /\ IInv
  BY InitTyped, InitIInv
<1>2. TypeOK /\ IInv /\ [Next]_vars => TypeOK' /\ IInv'
  BY NextTyped, NextKeepsIInv
<1>3. QED
  BY <1>1, <1>2, PTL DEF Spec

-----------------------------------------------------------------------------
(* The safety properties of CoCond.                                        *)

\* Every variable of CoCond has its type: while (notify_count--) counts from what was
\* notified to -1 and never below, whatever the slaves it wakes notify meanwhile.
THEOREM Typed == Spec => []TypeOK
BY AlwaysIInv, PTL

\* Every waiter can be reached by a notification, and whoever CoCondResume resumes is
\* suspended in CoCondWait, also while the slaves it wakes wait and notify again.
THEOREM WaitersKnown == Spec => []WaiterKnown
BY AlwaysIInv, PTL DEF IInv

\* NotifyAll called outside CoCondResume reaches every slave that waited.
THEOREM AllReached == Spec => []NotifyAllReachesAll
<1>1. TypeOK /\ IInv => NotifyAllReachesAll
  BY DEF IInv, OwedWaits, NotifyAllReachesAll
<1>2. QED
  BY <1>1, AlwaysIInv, PTL
=============================================================================
