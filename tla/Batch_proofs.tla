---------------------------- MODULE Batch_proofs ----------------------------
(***************************************************************************)
(* The safety of batches for every size of the pools, of batches and of    *)
(* programs: types, that slaves and batches agree, that there is a slot    *)
(* for each child BatchAdd accepts, and that a parent goes on once and     *)
(* only when all its children have finished.                               *)
(***************************************************************************)
EXTENDS Batch, Schedule_proofs

-----------------------------------------------------------------------------
(* The inductive invariant.                                                *)

\* Who belongs to which batch.  A parent is no child, and a batch that is free has nobody.
Members ==
  \A b \in Bids :
    IF batch_state[b] = "kIdle"
      THEN /\ parent_cid[b] = kInvalidCid /\ children[b] = {} /\ finished[b] = {}
           /\ \A c \in Cids : relate_bid[c] # b
      ELSE /\ parent_cid[b] \in Cids \ children[b]
           /\ finished[b] \subseteq children[b]
           /\ \A c \in Cids :
                relate_bid[c] = b <=> c = parent_cid[b] \/ c \in children[b] \ finished[b]

\* Slaves of a batch have not ended.
MembersLive == \A c \in Cids : relate_bid[c] # kInvalidBid => state[c] # "kIdle"

\* The counts that the size of the pool is made of.
Bounded ==
  /\ \A b \in Bids : Cardinality(children[b]) <= max_concurrency_in_batch_
  /\ Cardinality(OutsideBatches) <= MaxParents

\* Where a parent is: it runs until BatchRun, is suspended there, or goes on from there.
ParentInRun ==
  \A b \in Bids :
    /\ batch_state[b] = "kReady" => slave_cid_ = parent_cid[b] /\ finished[b] = {}
    /\ batch_state[b] = "kRun" => slave_cid_ = parent_cid[b] \/ state[parent_cid[b]] = "kSuspend"

\* What the master's loops are in the middle of.  No child runs while parents are resumed, so
\* nothing is added to the list that is then emptied.
LoopKnown ==
  /\ loop = "none" <=> ~ resuming
  /\ loop = "none" => todo = <<>>
  /\ loop = "finish" => slave_cid_ \notin Children
  /\ loop = "start" => \A c \in ToSet(todo) : c \in Children /\ Resumable(c)
  /\ IsInjective(todo)

\* The parents whose children have all finished, and those of them still to be resumed.
DoneParents ==
  {parent_cid[b] : b \in {a \in Bids : batch_state[a] = "kRun" /\ children[a] = finished[a]}}
Due == IF loop = "finish" THEN todo ELSE batch_finish_cid_list_

\* ParentWaitsForAll, with the entries distinct where it counts them.
ReportedOnce ==
  /\ ToSet(Due) = DoneParents \ {slave_cid_}
  /\ IsInjective(Due)
  /\ \A b \in Bids :
       batch_state[b] = "kRun" /\ slave_cid_ = parent_cid[b] => children[b] = finished[b]

IInv ==
  /\ Members
  /\ MembersLive
  /\ Bounded
  /\ ParentInRun
  /\ LoopKnown
  /\ ReportedOnce

-----------------------------------------------------------------------------
(* Who is who.                                                             *)

\* What TypeOK says of the variables that are not the scheduler's.
BatchTypeOK ==
  /\ relate_bid \in [Cids -> Bids \cup {kInvalidBid}]
  /\ batch_state \in [Bids -> {"kIdle", "kReady", "kRun"}]
  /\ parent_cid \in [Bids -> Cids \cup {kInvalidCid}]
  /\ children \in [Bids -> SUBSET Cids]
  /\ finished \in [Bids -> SUBSET Cids]
  /\ batch_finish_cid_list_ \in Seq(Cids)
  /\ loop \in {"none", "start", "finish"}
  /\ todo \in Seq(Cids)

\* No batch is what stands for none.
LEMMA InvalidIsNoBid == kInvalidBid \notin Bids
BY BatchAssumption DEF kInvalidBid, Bids

\* The types and what they are read from.
LEMMA Parts ==
  ASSUME TypeOK
  PROVE  /\ ScheduleTypeOK /\ PoolOK /\ BatchTypeOK
         /\ state \in [Cids -> State]
         /\ ~ is_master_ => slave_cid_ \in Cids /\ state[slave_cid_] = "kRun"
BY DEF TypeOK, ScheduleTypeOK, PoolOK, OneRunner, BatchTypeOK, is_master_

\* A parent has a batch of its own.
LEMMA ParentHasBatch ==
  ASSUME TypeOK, Members, NEW c \in Parents
  PROVE  /\ c \in Cids
         /\ relate_bid[c] \in Bids
         /\ parent_cid[relate_bid[c]] = c
         /\ batch_state[relate_bid[c]] # "kIdle"
BY Parts, InvalidIsNoCid DEF Parents, Members, BatchTypeOK

\* The parent of a batch in use is one, and parent of no other batch.
LEMMA BatchHasParent ==
  ASSUME TypeOK, Members, NEW b \in Bids, batch_state[b] # "kIdle"
  PROVE  /\ parent_cid[b] \in Parents
         /\ relate_bid[parent_cid[b]] = b
BY Parts, InvalidIsNoBid DEF Parents, Members, BatchTypeOK

\* A child is one that has not finished, of a batch in use.
LEMMA ChildHasBatch ==
  ASSUME TypeOK, Members, NEW c \in Children
  PROVE  /\ c \in Cids
         /\ relate_bid[c] \in Bids
         /\ batch_state[relate_bid[c]] # "kIdle"
         /\ c \in children[relate_bid[c]] \ finished[relate_bid[c]]
         /\ parent_cid[relate_bid[c]] \in Cids \ {c}
BY Parts, InvalidIsNoBid DEF Children, Parents, Members, BatchTypeOK

\* The batch of the running slave, in BatchAdd and in BatchRun.
LEMMA InBatchIs ==
  ASSUME TypeOK, NEW st, InBatch(st)
  PROVE  /\ slave_cid_ \in Cids /\ ~ is_master_
         /\ relate_bid[slave_cid_] \in Bids
         /\ parent_cid[relate_bid[slave_cid_]] = slave_cid_
         /\ batch_state[relate_bid[slave_cid_]] = st
BY Parts, InvalidIsNoCid DEF InBatch, Parents, BatchTypeOK, is_master_

\* While a child runs its parent is in BatchRun, as IsBatchDone asserts.
LEMMA ParentOfRunningChild ==
  ASSUME TypeOK, IInv, slave_cid_ \in Children
  PROVE  batch_state[relate_bid[slave_cid_]] = "kRun"
BY ChildHasBatch, Parts DEF IInv, ParentInRun, BatchTypeOK

-----------------------------------------------------------------------------
(* Types.                                                                  *)

\* BatchCreate, BatchAdd and the two parts of BatchRun keep the types.
LEMMA ParentStepTyped ==
  ASSUME TypeOK, BatchCreate \/ BatchAdd \/ BatchRun \/ BatchRunAgain
  PROVE  ScheduleTypeOK' /\ BatchTypeOK'
<1>0. ScheduleTypeOK /\ PoolOK /\ BatchTypeOK
  BY Parts
<1>1. CASE BatchCreate
  <2>0. slave_cid_ \in Cids
    BY <1>1, Parts DEF BatchCreate
  <2>1. calls' \in [Cids -> 0 .. MaxCalls]
    BY <1>0, <1>1, CallTyped DEF BatchCreate
  <2>2. PoolOK'
    BY <1>0, <1>1 DEF BatchCreate, pool_vars, PoolOK, OneRunner, CountsNotIdle
  <2>3. ScheduleTypeOK'
    BY <1>0, <1>1, <2>1, <2>2 DEF BatchCreate, ScheduleTypeOK, master_vars
  <2>4. PICK b \in Bids :
          /\ batch_state' = [batch_state EXCEPT ![b] = "kReady"]
          /\ parent_cid' = [parent_cid EXCEPT ![b] = slave_cid_]
          /\ relate_bid' = [relate_bid EXCEPT ![slave_cid_] = b]
    BY <1>1 DEF BatchCreate
  <2>5. /\ batch_state' \in [Bids -> {"kIdle", "kReady", "kRun"}]
        /\ parent_cid' \in [Bids -> Cids \cup {kInvalidCid}]
        /\ relate_bid' \in [Cids -> Bids \cup {kInvalidBid}]
    BY <1>0, <2>0, <2>4 DEF BatchTypeOK
  <2>6. QED
    BY <1>0, <1>1, <2>3, <2>5 DEF BatchCreate, BatchTypeOK, loop_vars
<1>2. CASE BatchAdd
  <2> DEFINE b == relate_bid[slave_cid_]
  <2>0. slave_cid_ \in Cids /\ b \in Bids /\ calls[slave_cid_] \in 0 .. MaxCalls
    BY <1>0, <1>2, InBatchIs DEF BatchAdd, ScheduleTypeOK
  <2>1. PICK c \in Cids :
          /\ LowestIdle(c)
          /\ CoroutineInit(c)
          /\ relate_bid' = [relate_bid EXCEPT ![c] = b]
          /\ children' = [children EXCEPT ![b] = @ \cup {c}]
          /\ finished' = [finished EXCEPT ![b] = @ \ {c}]
          /\ calls' = [calls EXCEPT ![c] = calls[slave_cid_]]
    BY <1>2 DEF BatchAdd
  <2> HIDE DEF b
  <2>2. PoolOK'
    BY <1>0, <2>1, CreateKeepsPool DEF LowestIdle
  <2>3. calls' \in [Cids -> 0 .. MaxCalls]
    BY <1>0, <2>0, <2>1 DEF ScheduleTypeOK
  <2>4. ScheduleTypeOK'
    BY <1>0, <1>2, <2>2, <2>3 DEF BatchAdd, ScheduleTypeOK, master_vars
  <2>5. relate_bid' \in [Cids -> Bids \cup {kInvalidBid}]
    BY <1>0, <2>0, <2>1 DEF BatchTypeOK
  <2>6. children' \in [Bids -> SUBSET Cids] /\ finished' \in [Bids -> SUBSET Cids]
    BY <1>0, <2>0, <2>1 DEF BatchTypeOK
  <2>7. QED
    BY <1>0, <1>2, <2>4, <2>5, <2>6 DEF BatchAdd, BatchTypeOK, loop_vars
<1>3. CASE BatchRun
  <2>0. slave_cid_ \in Cids /\ relate_bid[slave_cid_] \in Bids
    BY <1>3, InBatchIs DEF BatchRun
  <2>1. PoolOK'
    BY <1>0, <1>3, YieldKeepsPool DEF BatchRun
  <2>2. ScheduleTypeOK'
    BY <1>0, <1>3, <2>1 DEF BatchRun, ScheduleTypeOK, master_vars
  <2>3. batch_state' \in [Bids -> {"kIdle", "kReady", "kRun"}]
    BY <1>0, <1>3, <2>0 DEF BatchRun, BatchTypeOK
  <2>4. QED
    BY <1>0, <1>3, <2>2, <2>3 DEF BatchRun, BatchTypeOK, loop_vars
<1>4. CASE BatchRunAgain
  <2>0. slave_cid_ \in Cids /\ relate_bid[slave_cid_] \in Bids
    BY <1>4, InBatchIs DEF BatchRunAgain
  <2>1. ScheduleTypeOK'
    BY <1>0, <1>4, UnchangedTyped DEF BatchRunAgain
  <2>2. /\ batch_state' \in [Bids -> {"kIdle", "kReady", "kRun"}]
        /\ parent_cid' \in [Bids -> Cids \cup {kInvalidCid}]
    BY <1>0, <1>4, <2>0 DEF BatchRunAgain, BatchTypeOK
  <2>3. children' \in [Bids -> SUBSET Cids] /\ finished' \in [Bids -> SUBSET Cids]
    BY <1>0, <1>4, <2>0 DEF BatchRunAgain, BatchTypeOK
  <2>4. relate_bid' \in [Cids -> Bids \cup {kInvalidBid}]
    BY <1>0, <1>4, <2>0 DEF BatchRunAgain, BatchTypeOK
  <2>5. QED
    BY <1>0, <1>4, <2>1, <2>2, <2>3, <2>4 DEF BatchRunAgain, BatchTypeOK, loop_vars
<1>5. QED
  BY <1>1, <1>2, <1>3, <1>4

\* A child finishes, and may put its parent on the list.
LEMMA ReturnOfChildTyped ==
  ASSUME TypeOK, IInv, ReturnOfChild
  PROVE  ScheduleTypeOK' /\ BatchTypeOK'
<1> DEFINE b == relate_bid[slave_cid_]
<1>0. ScheduleTypeOK /\ BatchTypeOK
  BY Parts
<1>1. slave_cid_ \in Cids /\ b \in Bids /\ parent_cid[b] \in Cids
  <2>1. slave_cid_ \in Children /\ Members
    BY DEF ReturnOfChild, IInv
  <2>2. QED
    BY <2>1, ChildHasBatch
<1>2. ScheduleTypeOK'
  BY <1>0, SlaveStepTyped DEF ReturnOfChild
<1>3. /\ finished' = [finished EXCEPT ![b] = @ \cup {slave_cid_}]
      /\ \/ batch_finish_cid_list_' = Append(batch_finish_cid_list_, parent_cid[b])
         \/ UNCHANGED batch_finish_cid_list_
      /\ relate_bid' = [relate_bid EXCEPT ![slave_cid_] = kInvalidBid]
      /\ UNCHANGED <<batch_state, parent_cid, children, loop_vars>>
  BY DEF ReturnOfChild
<1> HIDE DEF b
<1>4. finished' \in [Bids -> SUBSET Cids]
  BY <1>0, <1>1, <1>3 DEF BatchTypeOK
<1>5. batch_finish_cid_list_' \in Seq(Cids)
  <2>1. batch_finish_cid_list_ \in Seq(Cids)
    BY <1>0 DEF BatchTypeOK
  <2>2. Append(batch_finish_cid_list_, parent_cid[b]) \in Seq(Cids)
    BY <1>1, <2>1, AppendProperties
  <2>3. QED
    BY <1>3, <2>1, <2>2
<1>6. relate_bid' \in [Cids -> Bids \cup {kInvalidBid}]
  BY <1>0, <1>1, <1>3 DEF BatchTypeOK
<1>7. QED
  BY <1>0, <1>2, <1>3, <1>4, <1>5, <1>6 DEF BatchTypeOK, loop_vars

\* The loops of the master keep the types.
LEMMA ResumeTyped ==
  ASSUME TypeOK, BatchFinishBegin \/ (\E c \in Cids : BatchStartBegin(c)) \/ BatchResume
  PROVE  ScheduleTypeOK' /\ BatchTypeOK'
<1>0. ScheduleTypeOK /\ PoolOK /\ BatchTypeOK
  BY Parts
<1>1. CASE BatchFinishBegin
  <2>1. ScheduleTypeOK'
    BY <1>0, <1>1, ResumeLoopTyped DEF BatchFinishBegin
  <2>2. QED
    BY <1>0, <1>1, <2>1 DEF BatchFinishBegin, BatchTypeOK, batch_vars
<1>2. ASSUME NEW c \in Cids, BatchStartBegin(c)
      PROVE  ScheduleTypeOK' /\ BatchTypeOK'
  <2>1. ScheduleTypeOK'
    BY <1>0, <1>2
       DEF BatchStartBegin, ScheduleTypeOK, pool_vars, PoolOK, OneRunner, CountsNotIdle
  <2>2. children[relate_bid[c]] \subseteq Cids
    BY <1>0, <1>2 DEF BatchStartBegin, Parents, BatchTypeOK
  <2>3. todo' \in Seq(children[relate_bid[c]])
    BY <1>2, <2>2, CidSets, AnyOrderEntries DEF BatchStartBegin
  <2>4. todo' \in Seq(Cids)
    BY <2>2, <2>3, SeqMonotonic
  <2>5. QED
    BY <1>0, <1>2, <2>1, <2>4 DEF BatchStartBegin, BatchTypeOK, batch_vars
<1>3. CASE BatchResumeNext
  <2>1. Head(todo) \in Cids /\ Tail(todo) \in Seq(Cids)
    BY <1>0, <1>3, HeadTailProperties DEF BatchResumeNext, BatchTypeOK
  <2>2. PoolOK'
    BY <1>0, <1>3, <2>1, ResumeKeepsPool DEF BatchResumeNext
  <2>3. ScheduleTypeOK'
    BY <1>0, <1>3, <2>2 DEF BatchResumeNext, ScheduleTypeOK, master_vars
  <2>4. QED
    BY <1>0, <1>3, <2>1, <2>3 DEF BatchResumeNext, BatchTypeOK, batch_vars
<1>4. CASE BatchResumeEnd
  <2>1. ScheduleTypeOK'
    BY <1>0, <1>4, ResumeLoopTyped DEF BatchResumeEnd
  <2>2. batch_finish_cid_list_' \in Seq(Cids)
    BY <1>0, <1>4, EmptySeq DEF BatchResumeEnd, BatchTypeOK
  <2>3. QED
    BY <1>0, <1>4, <2>1, <2>2 DEF BatchResumeEnd, BatchTypeOK
<1>5. QED
  BY <1>1, <1>2, <1>3, <1>4 DEF BatchResume

\* Every step keeps the types.
LEMMA NextTyped ==
  ASSUME TypeOK, IInv, [Next]_vars
  PROVE  TypeOK'
<1>0. ScheduleTypeOK /\ BatchTypeOK
  BY Parts
<1> SUFFICES ScheduleTypeOK' /\ BatchTypeOK'
  BY DEF TypeOK, BatchTypeOK
<1>1. CASE SlaveStep \/ ReturnOutside \/ MasterStep \/ RunScanStep
  <2>1. ScheduleTypeOK'
    BY <1>0, <1>1, SlaveStepTyped, MasterStepTyped, RunScanTyped
       DEF SlaveStep, ReturnOutside, MasterStep, RunScanStep
  <2>2. QED
    BY <1>0, <1>1, <2>1
       DEF SlaveStep, ReturnOutside, MasterStep, RunScanStep, BatchTypeOK, batch_vars, loop_vars
<1>2. CASE UNCHANGED vars
  <2>1. ScheduleTypeOK'
    BY <1>0, <1>2, UnchangedTyped DEF vars
  <2>2. QED
    BY <1>0, <1>2, <2>1 DEF vars, BatchTypeOK, batch_vars, loop_vars
<1>3. QED
  BY <1>1, <1>2, ParentStepTyped, ReturnOfChildTyped, ResumeTyped DEF Next, Slave

\* The types hold at the start.
LEMMA InitTyped ==
  ASSUME Init
  PROVE  TypeOK
<1>1. ScheduleTypeOK
  BY InitPool DEF Init
<1>2. <<>> \in Seq(Cids)
  BY EmptySeq
<1>3. QED
  BY <1>1, <1>2 DEF Init, TypeOK

-----------------------------------------------------------------------------
(* Numbers of slaves.                                                      *)

\* The pool has the slots of whole batches and their parents.
LEMMA PoolOfParents ==
  /\ MaxParents \in Nat
  /\ coroutine_count_ = MaxParents * (max_concurrency_in_batch_ + 1)
<1> DEFINE n == max_concurrency_in_batch_ + 1
<1>1. n \in Nat \ {0} /\ coroutine_count_ \in Nat /\ coroutine_count_ % n = 0
  BY BatchAssumption, PoolAssumption
<1> HIDE DEF n
<1>2. coroutine_count_ \div n \in Nat /\ coroutine_count_ = (coroutine_count_ \div n) * n
  BY <1>1
<1>3. QED
  BY <1>2 DEF n, MaxParents

\* Fewer slaves, or one more.
LEMMA CountsOfCids ==
  ASSUME NEW S \in SUBSET Cids, NEW T \in SUBSET Cids, NEW e \in Cids
  PROVE  /\ Cardinality(S) \in Nat
         /\ T \subseteq S => Cardinality(T) <= Cardinality(S)
         /\ T \subseteq S \cup {e} => Cardinality(T) <= Cardinality(S) + 1
<1>1. /\ IsFiniteSet(S) /\ Cardinality(S) \in Nat
      /\ IsFiniteSet(T) /\ Cardinality(T) \in Nat
      /\ IsFiniteSet(S \cup {e}) /\ Cardinality(S \cup {e}) \in Nat
  <2>1. S \cup {e} \in SUBSET Cids
    OBVIOUS
  <2>2. QED
    BY <2>1, CidSets, FS_CardinalityType
<1>2. Cardinality(S \cup {e}) <= Cardinality(S) + 1
  BY <1>1, FS_AddElement
<1>3. T \subseteq S => Cardinality(T) <= Cardinality(S)
  BY <1>1, FS_Subset
<1>4. T \subseteq S \cup {e} => Cardinality(T) <= Cardinality(S \cup {e})
  BY <1>1, FS_Subset
<1>5. QED
  BY <1>1, <1>2, <1>3, <1>4

-----------------------------------------------------------------------------
(* Steps of slaves that are no parents and of the master, outside its loops*)
(* over parents and children.                                              *)

OtherStep == SlaveStep \/ ReturnOutside \/ MasterStep \/ RunScanStep

\* Nobody's place in a batch changes, and no parent had the thread or gets it.
LEMMA OtherStepLeaves ==
  ASSUME TypeOK, TypeOK', OtherStep
  PROVE  /\ UNCHANGED <<relate_bid, batch_state, parent_cid, children, finished>>
         /\ UNCHANGED <<batch_finish_cid_list_, loop, todo>>
         /\ Parents' = Parents /\ Children' = Children
         /\ DoneParents' = DoneParents /\ Due' = Due
         /\ slave_cid_ \notin Parents /\ slave_cid_' \notin Parents
<1>1. UNCHANGED <<batch_vars, loop_vars>>
  BY DEF OtherStep, SlaveStep, ReturnOutside, MasterStep, RunScanStep
<1>2. /\ UNCHANGED <<relate_bid, batch_state, parent_cid, children, finished>>
      /\ UNCHANGED <<batch_finish_cid_list_, loop, todo>>
  BY <1>1 DEF batch_vars, loop_vars
<1>3. Parents' = Parents
  BY <1>2 DEF Parents
<1>4. Children' = Children /\ DoneParents' = DoneParents /\ Due' = Due
  BY <1>2, <1>3 DEF Children, DoneParents, Due
<1>5. kInvalidCid \notin Parents
  BY InvalidIsNoCid DEF Parents
<1>6. CASE SlaveStep
  BY <1>2, <1>3, <1>4, <1>5, <1>6 DEF SlaveStep, Yield, CoroutineYield, Spawn, CoroutineInit
<1>7. CASE ReturnOutside
  BY <1>2, <1>3, <1>4, <1>5, <1>7 DEF ReturnOutside, Return, CoroutineRun, Parents
<1>8. CASE MasterStep
  BY <1>2, <1>3, <1>4, <1>5, <1>8
     DEF MasterStep, Create, RunBegin, EventResume, AtLarge, is_master_, CoroutineResume,
         CoroutineInit, pool_vars
<1>9. CASE RunScanStep
  BY <1>2, <1>3, <1>4, <1>5, <1>9
     DEF RunScanStep, RunScan, is_master_, CoroutineResume, pool_vars
<1>10. QED
  BY <1>6, <1>7, <1>8, <1>9 DEF OtherStep

\* No loop of the master starts or ends, and in the middle of one only a slave steps.
LEMMA OtherStepInLoop ==
  ASSUME OtherStep
  PROVE  /\ UNCHANGED resuming
         /\ resuming => ~ is_master_ /\ slave_cid_' \in {slave_cid_, kInvalidCid}
<1>1. CASE SlaveStep
  BY <1>1 DEF SlaveStep, Yield, Call, CoroutineYield, Spawn, CoroutineInit, master_vars
<1>2. CASE ReturnOutside
  BY <1>2 DEF ReturnOutside, Return, CoroutineRun, master_vars
<1>3. CASE MasterStep
  BY <1>3 DEF MasterStep, Create, RunBegin, EventResume, AtLarge, master_vars
<1>4. CASE RunScanStep
  BY <1>4 DEF RunScanStep, RunScan
<1>5. QED
  BY <1>1, <1>2, <1>3, <1>4 DEF OtherStep

\* A slave that is in use and has not the thread before or after stays as it is.
LEMMA OtherStepStays ==
  ASSUME TypeOK, OtherStep, NEW c \in Cids,
         c # slave_cid_, state[c] # "kIdle", slave_cid_' # c
  PROVE  state'[c] = state[c]
<1>1. ScheduleTypeOK
  BY Parts
<1>2. \/ Yield \/ Spawn \/ Return
      \/ Create \/ RunBegin \/ (\E d \in Cids : EventResume(d))
      \/ RunScan(Parents)
  BY DEF OtherStep, SlaveStep, ReturnOutside, MasterStep, RunScanStep
<1>3. QED
  BY <1>1, <1>2, StateStays

\* A slave in a batch does not end in such a step.
LEMMA OtherStepKeepsLive ==
  ASSUME TypeOK, TypeOK', MembersLive, OtherStep
  PROVE  MembersLive'
<1> SUFFICES ASSUME NEW c \in Cids, relate_bid'[c] # kInvalidBid
             PROVE  state'[c] # "kIdle"
  BY DEF MembersLive
<1>1. relate_bid[c] # kInvalidBid /\ state[c] # "kIdle"
  BY OtherStepLeaves DEF MembersLive
<1>2. state'[c] = "kRun" <=> slave_cid_' = c
  BY DEF TypeOK, ScheduleTypeOK, PoolOK, OneRunner
<1>3. CASE c = slave_cid_ /\ slave_cid_' # c
  <2>1. Yield
    BY <1>1, <1>3, InvalidIsNoCid
       DEF OtherStep, SlaveStep, ReturnOutside, MasterStep, RunScanStep, Spawn, CoroutineInit,
           Create, RunBegin, EventResume, AtLarge, RunScan, is_master_
  <2>2. state'[c] = "kSuspend"
    BY <1>3, <2>1, Parts DEF Yield, CoroutineYield
  <2>3. QED
    BY <2>2
<1>4. QED
  BY <1>1, <1>2, <1>3, OtherStepStays

\* A slave is only created when there is room for one outside batches.
LEMMA OtherStepKeepsBounds ==
  ASSUME TypeOK, TypeOK', Bounded, OtherStep
  PROVE  Bounded'
<1>0. UNCHANGED children /\ Children' = Children
  BY OtherStepLeaves
<1>1. OutsideBatches \in SUBSET Cids /\ OutsideBatches' \in SUBSET Cids
  BY DEF OutsideBatches
<1>2. \/ Cardinality(OutsideBatches) < MaxParents /\ \E c \in Cids : CoroutineInit(c)
      \/ \A c \in Cids : state'[c] # "kIdle" => state[c] # "kIdle"
  <2>1. CASE SlaveStep
    BY <2>1, Parts DEF SlaveStep, Yield, CoroutineYield, Spawn
  <2>2. CASE ReturnOutside
    BY <2>2, Parts DEF ReturnOutside, Return, CoroutineRun
  <2>3. CASE MasterStep
    BY <2>3, Parts
       DEF MasterStep, Create, RunBegin, EventResume, CoroutineResume, Resumable, pool_vars
  <2>4. CASE RunScanStep
    BY <2>4, Parts DEF RunScanStep, RunScan, CoroutineResume, Resumable, pool_vars
  <2>5. QED
    BY <2>1, <2>2, <2>3, <2>4 DEF OtherStep
<1>3. CASE Cardinality(OutsideBatches) < MaxParents /\ \E c \in Cids : CoroutineInit(c)
  <2>1. PICK c \in Cids : CoroutineInit(c)
    BY <1>3
  <2>2. OutsideBatches' \subseteq OutsideBatches \cup {c}
    BY <1>0, <2>1, Parts DEF OutsideBatches, CoroutineInit
  <2>3. Cardinality(OutsideBatches') <= Cardinality(OutsideBatches) + 1
    BY <1>1, <2>2, CountsOfCids
  <2>4. Cardinality(OutsideBatches) \in Nat /\ Cardinality(OutsideBatches') \in Nat
    BY <1>1, CountsOfCids
  <2>5. QED
    BY <1>0, <1>3, <2>3, <2>4, PoolOfParents DEF Bounded
<1>4. CASE \A c \in Cids : state'[c] # "kIdle" => state[c] # "kIdle"
  <2>1. OutsideBatches' \subseteq OutsideBatches
    BY <1>0, <1>4 DEF OutsideBatches
  <2>2. \A c \in Cids : Cardinality(OutsideBatches') <= Cardinality(OutsideBatches)
    BY <1>1, <2>1, CountsOfCids
  <2>3. 0 \in Cids
    BY PoolAssumption DEF Cids
  <2>4. Cardinality(OutsideBatches) \in Nat /\ Cardinality(OutsideBatches') \in Nat
    BY <1>1, <2>3, CountsOfCids
  <2>5. QED
    BY <1>0, <2>2, <2>3, <2>4, PoolOfParents DEF Bounded
<1>5. QED
  BY <1>2, <1>3, <1>4

\* No step of theirs disturbs the invariant.
LEMMA OtherStepKeepsIInv ==
  ASSUME TypeOK, TypeOK', IInv, OtherStep
  PROVE  IInv'
<1>0. /\ UNCHANGED <<relate_bid, batch_state, parent_cid, children, finished>>
      /\ UNCHANGED <<batch_finish_cid_list_, loop, todo>>
      /\ Parents' = Parents /\ Children' = Children
      /\ DoneParents' = DoneParents /\ Due' = Due
      /\ slave_cid_ \notin Parents /\ slave_cid_' \notin Parents
  BY OtherStepLeaves
<1>1. Members'
  BY <1>0 DEF IInv, Members
<1>2. MembersLive' /\ Bounded'
  BY OtherStepKeepsLive, OtherStepKeepsBounds DEF IInv
<1>3. \A b \in Bids : batch_state[b] # "kIdle" => parent_cid[b] \in Parents
  <2>1. Members
    BY DEF IInv
  <2>2. QED
    BY <2>1, BatchHasParent
<1>4. ParentInRun'
  <2> SUFFICES ASSUME NEW b \in Bids, batch_state[b] # "kIdle"
               PROVE  /\ batch_state[b] # "kReady"
                      /\ batch_state[b] = "kRun" => state'[parent_cid[b]] = "kSuspend"
    BY <1>0 DEF ParentInRun
  <2>1. parent_cid[b] \in Parents /\ parent_cid[b] \in Cids
    BY <1>3 DEF Parents
  <2>2. parent_cid[b] # slave_cid_ /\ parent_cid[b] # slave_cid_'
    BY <1>0, <2>1
  <2>3. batch_state[b] # "kReady"
    BY <2>2 DEF IInv, ParentInRun
  <2>4. ASSUME batch_state[b] = "kRun"
        PROVE  state'[parent_cid[b]] = "kSuspend"
    <3>1. state[parent_cid[b]] = "kSuspend"
      BY <2>2, <2>4 DEF IInv, ParentInRun
    <3>2. QED
      BY <2>1, <2>2, <3>1, OtherStepStays
  <2>5. QED
    BY <2>3, <2>4
<1>5. LoopKnown'
  <2>1. /\ UNCHANGED resuming
        /\ resuming => ~ is_master_ /\ slave_cid_' \in {slave_cid_, kInvalidCid}
    BY OtherStepInLoop
  <2>2. (loop = "none" <=> ~ resuming)' /\ (loop = "none" => todo = <<>>)' /\ IsInjective(todo)'
    BY <1>0, <2>1 DEF IInv, LoopKnown
  <2>3. (loop = "finish" => slave_cid_ \notin Children)'
    BY <1>0, <2>1, InvalidIsNoCid DEF IInv, LoopKnown, Children
  <2>4. ASSUME loop = "start", NEW c \in ToSet(todo)
        PROVE  c \in Children /\ Resumable(c)'
    <3>1. c \in Children /\ Resumable(c) /\ c \in Cids
      BY <2>4 DEF IInv, LoopKnown, Children
    <3>2. resuming
      BY <2>4 DEF IInv, LoopKnown
    <3>3. c # slave_cid_ /\ state[c] # "kIdle" /\ slave_cid_' # c
      BY <2>1, <3>1, <3>2, Parts, InvalidIsNoCid DEF Resumable
    <3>4. state'[c] = state[c]
      BY <3>1, <3>3, OtherStepStays
    <3>5. QED
      BY <3>1, <3>4 DEF Resumable
  <2>5. (loop = "start" => \A c \in ToSet(todo) : c \in Children /\ Resumable(c))'
    BY <1>0, <2>4
  <2>6. QED
    BY <2>2, <2>3, <2>5 DEF LoopKnown
<1>6. ReportedOnce'
  <2>1. DoneParents \subseteq Parents
    BY <1>3 DEF DoneParents
  <2>2. (ToSet(Due) = DoneParents \ {slave_cid_})' /\ IsInjective(Due)'
    BY <1>0, <2>1 DEF IInv, ReportedOnce
  <2>3. \A b \in Bids : batch_state[b] = "kRun" => slave_cid_' # parent_cid[b]
    BY <1>0, <1>3
  <2>4. QED
    BY <1>0, <2>2, <2>3 DEF ReportedOnce
<1>7. QED
  BY <1>1, <1>2, <1>4, <1>5, <1>6 DEF IInv

-----------------------------------------------------------------------------
(* The calls of a parent.                                                  *)

\* Each batch in use has a parent of its own, which no other batch has.
LEMMA ParentsApart ==
  ASSUME TypeOK, Members
  PROVE  \A a \in Bids : batch_state[a] # "kIdle" =>
           /\ parent_cid[a] \in Parents /\ parent_cid[a] \in Cids
           /\ relate_bid[parent_cid[a]] = a
BY BatchHasParent DEF Parents

\* The running slave becomes a parent.
LEMMA CreateKeepsIInv ==
  ASSUME TypeOK, TypeOK', IInv, BatchCreate
  PROVE  IInv'
<1>0. /\ BatchTypeOK /\ Members
      /\ slave_cid_ \in Cids /\ state[slave_cid_] = "kRun"
      /\ relate_bid[slave_cid_] = kInvalidBid
      /\ UNCHANGED <<state, slave_cid_, resuming, children, finished, batch_finish_cid_list_>>
      /\ UNCHANGED <<loop, todo>>
  BY Parts DEF IInv, BatchCreate, pool_vars, master_vars, loop_vars
<1>1. PICK b \in Bids :
        /\ batch_state[b] = "kIdle"
        /\ batch_state' = [batch_state EXCEPT ![b] = "kReady"]
        /\ parent_cid' = [parent_cid EXCEPT ![b] = slave_cid_]
        /\ relate_bid' = [relate_bid EXCEPT ![slave_cid_] = b]
  BY DEF BatchCreate, LowestIdleBatch, IdleBatches
<1>2. /\ \A a \in Bids \ {b} : batch_state'[a] = batch_state[a] /\ parent_cid'[a] = parent_cid[a]
      /\ \A c \in Cids \ {slave_cid_} : relate_bid'[c] = relate_bid[c]
      /\ batch_state'[b] = "kReady" /\ parent_cid'[b] = slave_cid_ /\ relate_bid'[slave_cid_] = b
  BY <1>0, <1>1 DEF BatchTypeOK
<1>3. /\ children[b] = {} /\ finished[b] = {} /\ \A c \in Cids : relate_bid[c] # b
  BY <1>0, <1>1 DEF Members
<1>4. Members'
  BY <1>0, <1>2, <1>3, InvalidIsNoBid DEF Members
<1>5. MembersLive'
  BY <1>0, <1>2 DEF IInv, MembersLive
<1>6. Parents' = Parents \cup {slave_cid_} /\ Children' = Children
  BY <1>0, <1>2, <1>3, InvalidIsNoBid DEF Parents, Children, BatchTypeOK
<1>7. Bounded'
  <2>1. OutsideBatches' = OutsideBatches
    BY <1>0, <1>6 DEF OutsideBatches
  <2>2. QED
    BY <1>0, <2>1 DEF IInv, Bounded, MaxParents
<1>8. ParentInRun'
  BY <1>0, <1>2, <1>3 DEF IInv, ParentInRun
<1>9. LoopKnown'
  BY <1>0, <1>6 DEF IInv, LoopKnown, Resumable
<1>10. ReportedOnce'
  <2>1. DoneParents' = DoneParents /\ Due' = Due
    BY <1>0, <1>1, <1>2 DEF DoneParents, Due
  <2>2. QED
    BY <1>0, <1>2, <2>1 DEF IInv, ReportedOnce
<1>11. QED
  BY <1>4, <1>5, <1>7, <1>8, <1>9, <1>10 DEF IInv

\* A child is added.
LEMMA AddKeepsIInv ==
  ASSUME TypeOK, TypeOK', IInv, BatchAdd
  PROVE  IInv'
<1> DEFINE b == relate_bid[slave_cid_]
<1>0. /\ BatchTypeOK /\ Members /\ state \in [Cids -> State]
      /\ slave_cid_ \in Cids /\ state[slave_cid_] = "kRun" /\ slave_cid_ \in Parents
      /\ b \in Bids /\ batch_state[b] = "kReady" /\ parent_cid[b] = slave_cid_
      /\ ~ Full(b)
  BY Parts, InBatchIs DEF IInv, BatchAdd, InBatch
<1>1. /\ UNCHANGED <<slave_cid_, resuming, batch_state, parent_cid, batch_finish_cid_list_>>
      /\ UNCHANGED <<loop, todo>>
  BY DEF BatchAdd, CoroutineInit, master_vars, loop_vars
<1>2. PICK c \in Cids :
        /\ state[c] = "kIdle"
        /\ state' = [state EXCEPT ![c] = "kReady"]
        /\ relate_bid' = [relate_bid EXCEPT ![c] = b]
        /\ children' = [children EXCEPT ![b] = @ \cup {c}]
        /\ finished' = [finished EXCEPT ![b] = @ \ {c}]
  BY DEF BatchAdd, LowestIdle, Idle, CoroutineInit
<1>3. c # slave_cid_ /\ relate_bid[c] = kInvalidBid
  BY <1>0, <1>2 DEF IInv, MembersLive
<1>4. finished[b] = {} /\ c \notin children[b]
  BY <1>0, <1>3, InvalidIsNoBid DEF IInv, ParentInRun, Members
<1> HIDE DEF b
<1>5. /\ \A a \in Bids \ {b} : children'[a] = children[a] /\ finished'[a] = finished[a]
      /\ children'[b] = children[b] \cup {c} /\ finished'[b] = {}
      /\ \A d \in Cids \ {c} : relate_bid'[d] = relate_bid[d] /\ state'[d] = state[d]
      /\ relate_bid'[c] = b /\ state'[c] = "kReady"
  BY <1>0, <1>2, <1>4 DEF BatchTypeOK
<1>6. Members'
  BY <1>0, <1>1, <1>3, <1>4, <1>5, InvalidIsNoBid DEF Members
<1>7. MembersLive'
  BY <1>5 DEF IInv, MembersLive
<1>8. Parents' = Parents /\ Children' = Children \cup {c}
  BY <1>0, <1>1, <1>3, <1>5, InvalidIsNoBid DEF Parents, Children
<1>9. Bounded'
  <2>1. OutsideBatches' = OutsideBatches
    BY <1>2, <1>5, <1>8 DEF OutsideBatches
  <2>2. Cardinality(children'[b]) <= max_concurrency_in_batch_
    <3>1. IsFiniteSet(children[b]) /\ Cardinality(children[b]) \in Nat
      BY <1>0, CidSets, FS_CardinalityType DEF BatchTypeOK
    <3>2. Cardinality(children'[b]) = Cardinality(children[b]) + 1
      <4>1. children'[b] = children[b] \cup {c} /\ c \notin children[b]
        BY <1>4, <1>5
      <4>2. QED
        BY <3>1, <4>1, FS_AddElement
    <3>3. QED
      BY <1>0, <3>1, <3>2, BatchAssumption DEF Full
  <2>3. QED
    BY <1>5, <2>1, <2>2 DEF IInv, Bounded, MaxParents
<1>10. ParentInRun'
  BY <1>0, <1>1, <1>2, <1>5 DEF IInv, ParentInRun, Members
<1>11. LoopKnown'
  <2>1. slave_cid_ \notin Children'
    BY <1>0, <1>3, <1>8 DEF Children
  <2>2. \A d \in Cids : Resumable(d) => Resumable(d)'
    BY <1>5 DEF Resumable
  <2>3. Children \subseteq Cids
    BY DEF Children
  <2>4. QED
    BY <1>1, <1>8, <2>1, <2>2, <2>3 DEF IInv, LoopKnown
<1>12. ReportedOnce'
  <2>1. DoneParents' = DoneParents /\ Due' = Due
    BY <1>0, <1>1, <1>5 DEF DoneParents, Due
  <2>2. QED
    BY <1>0, <1>1, <1>5, <2>1 DEF IInv, ReportedOnce
<1>13. QED
  BY <1>6, <1>7, <1>9, <1>10, <1>11, <1>12 DEF IInv

\* The parent waits.
LEMMA RunKeepsIInv ==
  ASSUME TypeOK, TypeOK', IInv, BatchRun
  PROVE  IInv'
<1> DEFINE b == relate_bid[slave_cid_]
<1>0. /\ BatchTypeOK /\ Members /\ state \in [Cids -> State]
      /\ slave_cid_ \in Cids /\ state[slave_cid_] = "kRun" /\ slave_cid_ \in Parents
      /\ b \in Bids /\ batch_state[b] = "kReady" /\ parent_cid[b] = slave_cid_
      /\ children[b] # {}
  BY Parts, InBatchIs DEF IInv, BatchRun, InBatch
<1>1. /\ UNCHANGED <<resuming, relate_bid, parent_cid, children, finished>>
      /\ UNCHANGED <<batch_finish_cid_list_, loop, todo>>
  BY DEF BatchRun, master_vars, loop_vars
<1>2. finished[b] = {}
  BY <1>0 DEF IInv, ParentInRun
<1>3. /\ batch_state' = [batch_state EXCEPT ![b] = "kRun"]
      /\ state' = [state EXCEPT ![slave_cid_] = "kSuspend"]
      /\ slave_cid_' = kInvalidCid
  BY DEF BatchRun, CoroutineYield
<1>4. \A a \in Bids : batch_state[a] # "kIdle" /\ parent_cid[a] = slave_cid_ => a = b
  BY <1>0, ParentsApart
<1> HIDE DEF b
<1>5. /\ \A a \in Bids \ {b} : batch_state'[a] = batch_state[a]
      /\ batch_state'[b] = "kRun"
      /\ \A d \in Cids \ {slave_cid_} : state'[d] = state[d]
      /\ state'[slave_cid_] = "kSuspend"
  BY <1>0, <1>3 DEF BatchTypeOK
<1>6. Members'
  BY <1>0, <1>1, <1>5 DEF Members
<1>7. MembersLive'
  BY <1>1, <1>5 DEF IInv, MembersLive
<1>8. Parents' = Parents /\ Children' = Children
  BY <1>1 DEF Parents, Children
<1>9. Bounded'
  <2>1. OutsideBatches' = OutsideBatches
    BY <1>0, <1>5, <1>8 DEF OutsideBatches
  <2>2. QED
    BY <1>1, <2>1 DEF IInv, Bounded, MaxParents
<1>10. ParentInRun'
  BY <1>0, <1>1, <1>4, <1>5 DEF IInv, ParentInRun, Members
<1>11. LoopKnown'
  <2>1. slave_cid_' \notin Children'
    BY <1>3, InvalidIsNoCid DEF Children
  <2>2. \A d \in Cids : Resumable(d) => Resumable(d)'
    BY <1>5 DEF Resumable
  <2>3. Children \subseteq Cids
    BY DEF Children
  <2>4. QED
    BY <1>1, <1>8, <2>1, <2>2, <2>3 DEF IInv, LoopKnown
<1>12. ReportedOnce'
  <2>1. DoneParents' = DoneParents /\ Due' = Due
    BY <1>0, <1>1, <1>2, <1>5 DEF DoneParents, Due
  <2>2. slave_cid_ \notin DoneParents /\ slave_cid_' \notin DoneParents
    <3>1. DoneParents \subseteq Cids
      BY <1>0, ParentsApart DEF DoneParents
    <3>2. QED
      BY <1>0, <1>3, <1>4, <3>1, InvalidIsNoCid DEF DoneParents
  <2>3. \A a \in Bids : parent_cid'[a] = slave_cid_' => batch_state'[a] # "kRun"
    BY <1>0, <1>1, <1>3, <1>5, ParentsApart, InvalidIsNoCid
  <2>4. QED
    BY <1>1, <2>1, <2>2, <2>3 DEF IInv, ReportedOnce
<1>13. QED
  BY <1>6, <1>7, <1>9, <1>10, <1>11, <1>12 DEF IInv

\* The parent goes on and gives the batch back, in which nobody is left.
LEMMA RunAgainKeepsIInv ==
  ASSUME TypeOK, TypeOK', IInv, BatchRunAgain
  PROVE  IInv'
<1> DEFINE b == relate_bid[slave_cid_]
<1>0. /\ BatchTypeOK /\ Members /\ state \in [Cids -> State]
      /\ slave_cid_ \in Cids /\ state[slave_cid_] = "kRun" /\ slave_cid_ \in Parents
      /\ b \in Bids /\ batch_state[b] = "kRun" /\ parent_cid[b] = slave_cid_
  BY Parts, InBatchIs DEF IInv, BatchRunAgain, InBatch
<1>1. UNCHANGED <<state, slave_cid_, resuming, batch_finish_cid_list_, loop, todo>>
  BY DEF BatchRunAgain, schedule_vars, pool_vars, master_vars, loop_vars
<1>2. children[b] = finished[b]
  BY <1>0 DEF IInv, ReportedOnce
<1>3. /\ batch_state' = [batch_state EXCEPT ![b] = "kIdle"]
      /\ parent_cid' = [parent_cid EXCEPT ![b] = kInvalidCid]
      /\ children' = [children EXCEPT ![b] = {}]
      /\ finished' = [finished EXCEPT ![b] = {}]
      /\ relate_bid' = [relate_bid EXCEPT ![slave_cid_] = kInvalidBid]
  BY DEF BatchRunAgain
<1>4. \A a \in Bids : batch_state[a] # "kIdle" /\ parent_cid[a] = slave_cid_ => a = b
  BY <1>0, ParentsApart
<1>5. \A c \in Cids : relate_bid[c] = b <=> c = slave_cid_
  BY <1>0, <1>2 DEF Members
<1> HIDE DEF b
<1>6. /\ \A a \in Bids \ {b} :
           /\ batch_state'[a] = batch_state[a] /\ parent_cid'[a] = parent_cid[a]
           /\ children'[a] = children[a] /\ finished'[a] = finished[a]
      /\ batch_state'[b] = "kIdle" /\ parent_cid'[b] = kInvalidCid
      /\ children'[b] = {} /\ finished'[b] = {}
      /\ \A d \in Cids \ {slave_cid_} : relate_bid'[d] = relate_bid[d]
      /\ relate_bid'[slave_cid_] = kInvalidBid
  BY <1>0, <1>3 DEF BatchTypeOK
<1>7. Members'
  BY <1>0, <1>5, <1>6, InvalidIsNoBid DEF Members
<1>8. MembersLive'
  BY <1>1, <1>6 DEF IInv, MembersLive
<1>9. Parents' = Parents \ {slave_cid_} /\ Children' = Children
  <2>1. \A c \in Cids \ {slave_cid_} : c \in Parents' <=> c \in Parents
    BY <1>0, <1>5, <1>6 DEF Parents, BatchTypeOK
  <2>2. slave_cid_ \notin Parents' /\ slave_cid_ \notin Children'
    BY <1>6 DEF Parents, Children
  <2>3. Parents \subseteq Cids /\ Parents' \subseteq Cids
    BY DEF Parents
  <2>4. \A c \in Cids \ {slave_cid_} : c \in Children' <=> c \in Children
    BY <1>6, <2>1 DEF Children
  <2>5. Children \subseteq Cids \ {slave_cid_} /\ Children' \subseteq Cids
    BY <1>0 DEF Children
  <2>6. QED
    BY <2>1, <2>2, <2>3, <2>4, <2>5
<1>10. Bounded'
  <2>1. OutsideBatches' = OutsideBatches
    BY <1>1, <1>9 DEF OutsideBatches
  <2>2. Cardinality(children'[b]) <= max_concurrency_in_batch_
    BY <1>6, FS_EmptySet, BatchAssumption
  <2>3. QED
    BY <1>6, <2>1, <2>2 DEF IInv, Bounded, MaxParents
<1>11. ParentInRun'
  BY <1>1, <1>6 DEF IInv, ParentInRun
<1>12. LoopKnown'
  BY <1>1, <1>9 DEF IInv, LoopKnown, Resumable
<1>13. ReportedOnce'
  <2>1. Due' = Due
    BY <1>1 DEF Due
  <2>2. DoneParents' = DoneParents \ {slave_cid_}
    BY <1>0, <1>2, <1>4, <1>6 DEF DoneParents
  <2>3. QED
    BY <1>1, <1>6, <2>1, <2>2 DEF IInv, ReportedOnce
<1>14. QED
  BY <1>7, <1>8, <1>10, <1>11, <1>12, <1>13 DEF IInv

-----------------------------------------------------------------------------
(* A child finishes.                                                       *)

\* The batch loses a member, and the last one puts the parent on the list, on which it is not.
LEMMA ReturnOfChildKeepsIInv ==
  ASSUME TypeOK, TypeOK', IInv, ReturnOfChild
  PROVE  IInv'
<1> DEFINE b == relate_bid[slave_cid_]
           p == parent_cid[b]
<1>0. /\ BatchTypeOK /\ Members /\ state \in [Cids -> State]
      /\ slave_cid_ \in Children /\ slave_cid_ \in Cids /\ state[slave_cid_] = "kRun"
  BY Parts DEF IInv, ReturnOfChild
<1>1. /\ b \in Bids /\ batch_state[b] = "kRun" /\ p \in Cids \ {slave_cid_}
      /\ slave_cid_ \in children[b] \ finished[b]
  BY <1>0, ChildHasBatch, ParentOfRunningChild
<1>2. /\ finished' = [finished EXCEPT ![b] = @ \cup {slave_cid_}]
      /\ batch_finish_cid_list_' =
           IF IsBatchDone(children[b], finished'[b])
             THEN Append(batch_finish_cid_list_, p)
             ELSE batch_finish_cid_list_
      /\ relate_bid' = [relate_bid EXCEPT ![slave_cid_] = kInvalidBid]
      /\ state' = [state EXCEPT ![slave_cid_] = "kIdle"]
      /\ slave_cid_' = kInvalidCid
      /\ UNCHANGED <<resuming, batch_state, parent_cid, children, loop, todo>>
  BY DEF ReturnOfChild, Return, CoroutineRun, master_vars, loop_vars
<1>3. \A a \in Bids : batch_state[a] # "kIdle" =>
        parent_cid[a] \in Cids /\ parent_cid[a] # slave_cid_ /\ (parent_cid[a] = p => a = b)
  BY <1>0, <1>1, ParentsApart DEF Children
<1> HIDE DEF b, p
<1>4. /\ \A a \in Bids \ {b} : finished'[a] = finished[a]
      /\ finished'[b] = finished[b] \cup {slave_cid_}
      /\ \A d \in Cids \ {slave_cid_} : relate_bid'[d] = relate_bid[d] /\ state'[d] = state[d]
      /\ relate_bid'[slave_cid_] = kInvalidBid
  BY <1>0, <1>1, <1>2 DEF BatchTypeOK
<1>5. relate_bid[slave_cid_] = b /\ parent_cid[b] = p
  BY DEF b, p
<1>6. Members'
  BY <1>0, <1>1, <1>2, <1>3, <1>4, <1>5, InvalidIsNoBid DEF Members
<1>7. MembersLive'
  BY <1>4 DEF IInv, MembersLive
<1>8. Parents' = Parents /\ Children' = Children \ {slave_cid_}
  <2>1. \A c \in Cids \ {slave_cid_} : c \in Parents' <=> c \in Parents
    BY <1>2, <1>4 DEF Parents
  <2>2. slave_cid_ \notin Parents' /\ slave_cid_ \notin Parents /\ slave_cid_ \notin Children'
    BY <1>0, <1>4 DEF Parents, Children
  <2>3. \A c \in Cids \ {slave_cid_} : c \in Children' <=> c \in Children
    BY <1>4, <2>1 DEF Children
  <2>4. QED
    BY <2>1, <2>2, <2>3 DEF Parents, Children
<1>9. Bounded'
  <2>1. OutsideBatches' \subseteq OutsideBatches
    BY <1>0, <1>2, <1>4, <1>8 DEF OutsideBatches
  <2>2. OutsideBatches \in SUBSET Cids /\ OutsideBatches' \in SUBSET Cids
    BY DEF OutsideBatches
  <2>3. /\ Cardinality(OutsideBatches') <= Cardinality(OutsideBatches)
        /\ Cardinality(OutsideBatches) \in Nat /\ Cardinality(OutsideBatches') \in Nat
    BY <1>0, <2>1, <2>2, CountsOfCids
  <2>4. QED
    BY <1>2, <2>3, PoolOfParents DEF IInv, Bounded
<1>10. ParentInRun'
  BY <1>0, <1>1, <1>2, <1>3, <1>4 DEF IInv, ParentInRun
<1>11. LoopKnown'
  <2>1. slave_cid_' \notin Children'
    BY <1>2, InvalidIsNoCid DEF Children
  <2>2. \A d \in Children : Resumable(d) => d \in Children' /\ Resumable(d)'
    BY <1>0, <1>4, <1>8 DEF Resumable, Children
  <2>3. QED
    BY <1>2, <2>1, <2>2 DEF IInv, LoopKnown
<1>12. ReportedOnce'
  <2>1. loop # "finish" /\ loop' # "finish"
    BY <1>0, <1>2 DEF IInv, LoopKnown
  <2>2. slave_cid_ \notin DoneParents /\ slave_cid_' \notin DoneParents' /\ p \notin DoneParents
    BY <1>1, <1>2, <1>3, InvalidIsNoCid DEF DoneParents
  <2>3. /\ batch_finish_cid_list_ \in Seq(Cids) /\ IsInjective(batch_finish_cid_list_)
        /\ ToSet(batch_finish_cid_list_) = DoneParents
    BY <1>0, <2>1, <2>2 DEF IInv, ReportedOnce, Due, BatchTypeOK
  <2>4. DoneParents' = IF children[b] = finished'[b] THEN DoneParents \cup {p} ELSE DoneParents
    <3>1. \A a \in Bids \ {b} : children'[a] = finished'[a] <=> children[a] = finished[a]
      BY <1>2, <1>4
    <3>2. children[b] # finished[b]
      BY <1>1
    <3> DEFINE done == {a \in Bids : batch_state[a] = "kRun" /\ children[a] = finished[a]}
    <3>3. DoneParents = {parent_cid[a] : a \in done} /\ DoneParents' = {parent_cid[a] : a \in done'}
      BY <1>2 DEF DoneParents
    <3>4. done' = IF children[b] = finished'[b] THEN done \cup {b} ELSE done
      BY <1>1, <1>2, <3>1, <3>2
    <3> HIDE DEF done
    <3>5. QED
      BY <1>5, <3>3, <3>4
  <2>5. /\ ToSet(batch_finish_cid_list_') = DoneParents'
        /\ IsInjective(batch_finish_cid_list_')
    <3>1. CASE children[b] = finished'[b]
      <4>1. batch_finish_cid_list_' = Append(batch_finish_cid_list_, p) /\ p \in Cids
        BY <1>1, <1>2, <3>1 DEF IsBatchDone
      <4>2. p \notin ToSet(batch_finish_cid_list_)
        BY <2>2, <2>3
      <4>3. QED
        BY <2>3, <2>4, <3>1, <4>1, <4>2, AppendEntries
    <3>2. CASE children[b] # finished'[b]
      BY <1>2, <2>3, <2>4, <3>2 DEF IsBatchDone
    <3>3. QED
      BY <3>1, <3>2
  <2>6. \A a \in Bids : batch_state'[a] = "kRun" => slave_cid_' # parent_cid'[a]
    BY <1>2, <1>3, InvalidIsNoCid
  <2>7. QED
    BY <2>1, <2>2, <2>5, <2>6 DEF ReportedOnce, Due
<1>13. QED
  BY <1>6, <1>7, <1>9, <1>10, <1>11, <1>12 DEF IInv

-----------------------------------------------------------------------------
(* The loops of the master over parents and over children.                 *)

\* What the beginnings and the end of a loop leave as it is.
LEMMA LoopStepLeaves ==
  ASSUME IInv, UNCHANGED pool_vars,
         UNCHANGED <<relate_bid, batch_state, parent_cid, children, finished>>
  PROVE  /\ Members' /\ MembersLive' /\ Bounded' /\ ParentInRun'
         /\ Parents' = Parents /\ Children' = Children /\ DoneParents' = DoneParents
<1>1. UNCHANGED <<state, slave_cid_>>
  BY DEF pool_vars
<1>2. Parents' = Parents /\ DoneParents' = DoneParents
  BY DEF Parents, DoneParents
<1>3. Children' = Children
  BY <1>2 DEF Children
<1>4. OutsideBatches' = OutsideBatches
  BY <1>1, <1>3 DEF OutsideBatches
<1>5. Members' /\ MembersLive' /\ ParentInRun'
  BY <1>1 DEF IInv, Members, MembersLive, ParentInRun
<1>6. Bounded'
  BY <1>4 DEF IInv, Bounded, MaxParents
<1>7. QED
  BY <1>2, <1>3, <1>5, <1>6

\* CoroutineResume4BatchFinish takes over the list, and no child runs until it returns.
LEMMA FinishBeginKeepsIInv ==
  ASSUME TypeOK, TypeOK', IInv, BatchFinishBegin
  PROVE  IInv'
<1>1. /\ UNCHANGED pool_vars /\ slave_cid_ = kInvalidCid /\ slave_cid_' = kInvalidCid
      /\ UNCHANGED <<relate_bid, batch_state, parent_cid, children, finished>>
      /\ UNCHANGED batch_finish_cid_list_
      /\ ~ resuming /\ resuming' = TRUE /\ loop' = "finish" /\ todo' = batch_finish_cid_list_
  BY DEF BatchFinishBegin, ResumeBegin, is_master_, pool_vars, batch_vars
<1>2. loop = "none"
  BY <1>1 DEF IInv, LoopKnown
<1>3. Due' = Due /\ todo' = Due
  BY <1>1, <1>2 DEF Due
<1>4. /\ Members' /\ MembersLive' /\ Bounded' /\ ParentInRun'
      /\ Parents' = Parents /\ Children' = Children /\ DoneParents' = DoneParents
  BY <1>1, LoopStepLeaves
<1>5. LoopKnown'
  BY <1>1, <1>3, InvalidIsNoCid DEF IInv, LoopKnown, ReportedOnce, Children
<1>6. ReportedOnce'
  BY <1>1, <1>3, <1>4 DEF IInv, ReportedOnce
<1>7. QED
  BY <1>4, <1>5, <1>6 DEF IInv

\* The children of a batch in which none has finished are all resumable.
LEMMA StartBeginKeepsIInv ==
  ASSUME TypeOK, TypeOK', IInv, NEW p \in Cids, BatchStartBegin(p)
  PROVE  IInv'
<1> DEFINE b == relate_bid[p]
<1>0. /\ BatchTypeOK /\ Members /\ state \in [Cids -> State]
      /\ \A c \in Cids : state[c] = "kRun" <=> slave_cid_ = c
  BY Parts DEF IInv, PoolOK, OneRunner
<1>1. /\ UNCHANGED pool_vars /\ slave_cid_ = kInvalidCid /\ slave_cid_' = kInvalidCid
      /\ UNCHANGED <<relate_bid, batch_state, parent_cid, children, finished>>
      /\ UNCHANGED batch_finish_cid_list_
      /\ p \in Parents /\ finished[b] = {}
      /\ ~ resuming /\ resuming' = TRUE /\ loop' = "start" /\ todo' \in SetToSeqs(children[b])
  BY DEF BatchStartBegin, AtLarge, is_master_, pool_vars, batch_vars
<1>2. loop = "none"
  BY <1>1 DEF IInv, LoopKnown
<1>3. Due' = Due
  BY <1>1, <1>2 DEF Due
<1>4. /\ Members' /\ MembersLive' /\ Bounded' /\ ParentInRun'
      /\ Parents' = Parents /\ Children' = Children /\ DoneParents' = DoneParents
  BY <1>1, LoopStepLeaves
<1>5. b \in Bids /\ batch_state[b] # "kIdle" /\ parent_cid[b] = p
  BY <1>0, <1>1, ParentHasBatch
<1> HIDE DEF b
<1>6. children[b] \in SUBSET Cids
  BY <1>0, <1>5 DEF BatchTypeOK
<1>7. \A c \in children[b] : c \in Children /\ Resumable(c)
  <2>1. \A c \in children[b] : c \in Cids /\ relate_bid[c] = b /\ c # p
    BY <1>0, <1>1, <1>5, <1>6 DEF Members
  <2>2. \A c \in children[b] : state[c] \in State /\ state[c] # "kIdle" /\ state[c] # "kRun"
    BY <1>0, <1>1, <1>5, <2>1, InvalidIsNoBid, InvalidIsNoCid DEF IInv, MembersLive
  <2>3. QED
    BY <1>5, <2>1, <2>2, InvalidIsNoBid DEF Children, Parents, Resumable, State
<1>8. IsInjective(todo') /\ ToSet(todo') \subseteq children[b]
  <2>1. IsFiniteSet(children[b])
    BY <1>6, CidSets
  <2>2. QED
    BY <1>1, <2>1, AnyOrderEntries
<1>9. LoopKnown'
  <2>1. \A c \in ToSet(todo') : c \in Children' /\ Resumable(c)'
    BY <1>1, <1>4, <1>7, <1>8 DEF Resumable, pool_vars
  <2>2. QED
    BY <1>1, <1>8, <2>1 DEF LoopKnown
<1>10. ReportedOnce'
  BY <1>1, <1>3, <1>4 DEF IInv, ReportedOnce
<1>11. QED
  BY <1>4, <1>9, <1>10 DEF IInv

\* The loop resumes a parent whose children have all finished, or a child.
LEMMA ResumeNextKeepsIInv ==
  ASSUME TypeOK, TypeOK', IInv, BatchResumeNext
  PROVE  IInv'
<1> DEFINE h == Head(todo)
<1>0. /\ BatchTypeOK /\ Members /\ state \in [Cids -> State]
      /\ todo \in Seq(Cids) /\ IsInjective(todo)
  BY Parts DEF IInv, BatchTypeOK, LoopKnown
<1>1. /\ todo # <<>> /\ todo' = Tail(todo) /\ slave_cid_ = kInvalidCid /\ slave_cid_' = h
      /\ Resumable(h) /\ state' = [state EXCEPT ![h] = "kRun"]
      /\ UNCHANGED <<relate_bid, batch_state, parent_cid, children, finished>>
      /\ UNCHANGED <<batch_finish_cid_list_, resuming, loop>>
  BY DEF BatchResumeNext, CoroutineResume, is_master_, master_vars, batch_vars
<1>2. h \in Cids /\ h \in ToSet(todo) /\ ToSet(todo') = ToSet(todo) \ {h} /\ IsInjective(todo')
  BY <1>0, <1>1, TailEntries, HeadTailProperties
<1> HIDE DEF h
<1>3. Parents' = Parents /\ DoneParents' = DoneParents
  BY <1>1 DEF Parents, DoneParents
<1>4. Children' = Children
  BY <1>1, <1>3 DEF Children
<1>5. \A d \in Cids \ {h} : state'[d] = state[d]
  BY <1>0, <1>1
<1>6. state'[h] = "kRun" /\ state[h] # "kIdle"
  BY <1>0, <1>1, <1>2 DEF Resumable
<1>7. Members'
  BY <1>0, <1>1 DEF Members
<1>8. MembersLive'
  BY <1>1, <1>5, <1>6 DEF IInv, MembersLive
<1>9. Bounded'
  <2>1. OutsideBatches' = OutsideBatches
    BY <1>4, <1>5, <1>6 DEF OutsideBatches
  <2>2. QED
    BY <1>1, <2>1 DEF IInv, Bounded, MaxParents
<1>10. \A a \in Bids : batch_state[a] # "kIdle" =>
         /\ parent_cid[a] \in Parents /\ parent_cid[a] \in Cids
         /\ relate_bid[parent_cid[a]] = a
         /\ parent_cid[a] # slave_cid_
  BY <1>0, <1>1, ParentsApart, InvalidIsNoCid
<1>11. ParentInRun'
  BY <1>1, <1>5, <1>10 DEF IInv, ParentInRun
<1>12. loop = "start" \/ loop = "finish"
  BY <1>0, <1>1 DEF BatchTypeOK, IInv, LoopKnown
<1>13. DoneParents \subseteq Parents /\ slave_cid_ \notin DoneParents
  BY <1>10 DEF DoneParents
<1>14. CASE loop = "start"
  <2>1. h \in Children /\ \A c \in ToSet(todo) : c \in Children /\ Resumable(c)
    BY <1>2, <1>14 DEF IInv, LoopKnown
  <2>2. h \notin Parents
    BY <2>1 DEF Children
  <2>3. LoopKnown'
    <3>1. \A c \in ToSet(todo') : c \in Children' /\ Resumable(c)'
      BY <1>2, <1>4, <1>5, <2>1 DEF Resumable, Children
    <3>2. QED
      BY <1>1, <1>2, <1>14, <3>1 DEF IInv, LoopKnown
  <2>4. ReportedOnce'
    <3>1. Due' = Due
      BY <1>1, <1>14 DEF Due
    <3>2. (ToSet(Due) = DoneParents \ {slave_cid_})' /\ IsInjective(Due)'
      BY <1>1, <1>3, <1>13, <2>2, <3>1 DEF IInv, ReportedOnce
    <3>3. \A a \in Bids : batch_state'[a] = "kRun" => slave_cid_' # parent_cid'[a]
      BY <1>1, <1>10, <2>2
    <3>4. QED
      BY <3>2, <3>3 DEF ReportedOnce
  <2>5. QED
    BY <1>7, <1>8, <1>9, <1>11, <2>3, <2>4 DEF IInv
<1>15. CASE loop = "finish"
  <2>1. ToSet(todo) = DoneParents /\ h \in DoneParents /\ h \in Parents
    BY <1>2, <1>13, <1>15 DEF IInv, ReportedOnce, Due
  <2>2. LoopKnown'
    BY <1>1, <1>2, <1>4, <1>15, <2>1 DEF IInv, LoopKnown, Children
  <2>3. ReportedOnce'
    <3>1. (ToSet(Due) = DoneParents \ {slave_cid_})' /\ IsInjective(Due)'
      BY <1>1, <1>2, <1>3, <1>15, <2>1 DEF Due
    <3>2. \A a \in Bids : batch_state[a] = "kRun" /\ h = parent_cid[a] => children[a] = finished[a]
      BY <1>10, <2>1 DEF DoneParents
    <3>3. QED
      BY <1>1, <3>1, <3>2 DEF ReportedOnce
  <2>4. QED
    BY <1>7, <1>8, <1>9, <1>11, <2>2, <2>3 DEF IInv
<1>16. QED
  BY <1>12, <1>14, <1>15

\* The list is emptied only when nobody on it is left to resume.
LEMMA ResumeEndKeepsIInv ==
  ASSUME TypeOK, TypeOK', IInv, BatchResumeEnd
  PROVE  IInv'
<1>1. /\ UNCHANGED pool_vars /\ UNCHANGED slave_cid_
      /\ UNCHANGED <<relate_bid, batch_state, parent_cid, children, finished>>
      /\ batch_finish_cid_list_' = IF loop = "finish" THEN <<>> ELSE batch_finish_cid_list_
      /\ todo = <<>> /\ todo' = <<>> /\ resuming' = FALSE /\ loop' = "none"
  BY DEF BatchResumeEnd, ResumeEnd, pool_vars
<1>2. Due' = Due
  BY <1>1 DEF Due
<1>3. /\ Members' /\ MembersLive' /\ Bounded' /\ ParentInRun'
      /\ Parents' = Parents /\ Children' = Children /\ DoneParents' = DoneParents
  BY <1>1, LoopStepLeaves
<1>4. LoopKnown'
  BY <1>1 DEF IInv, LoopKnown
<1>5. ReportedOnce'
  BY <1>1, <1>2, <1>3 DEF IInv, ReportedOnce
<1>6. QED
  BY <1>3, <1>4, <1>5 DEF IInv

-----------------------------------------------------------------------------
(* The invariant holds in every reachable state.                           *)

\* At the start there is no batch and no slave.
LEMMA InitIInv ==
  ASSUME Init
  PROVE  IInv
<1>1. /\ state = [c \in Cids |-> "kIdle"] /\ slave_cid_ = kInvalidCid /\ resuming = FALSE
      /\ relate_bid = [c \in Cids |-> kInvalidBid] /\ batch_state = [b \in Bids |-> "kIdle"]
      /\ parent_cid = [b \in Bids |-> kInvalidCid]
      /\ children = [b \in Bids |-> {}] /\ finished = [b \in Bids |-> {}]
      /\ batch_finish_cid_list_ = <<>> /\ loop = "none" /\ todo = <<>>
  BY DEF Init, ScheduleInit
<1>2. ToSet(<<>>) = {} /\ IsInjective(<<>>)
  BY DEF ToSet, IsInjective
<1>3. Members /\ MembersLive /\ ParentInRun /\ LoopKnown
  BY <1>1, <1>2, InvalidIsNoBid DEF Members, MembersLive, ParentInRun, LoopKnown
<1>4. Bounded
  <2>1. OutsideBatches = {}
    BY <1>1 DEF OutsideBatches
  <2>2. QED
    BY <1>1, <2>1, FS_EmptySet, BatchAssumption, PoolOfParents DEF Bounded
<1>5. ReportedOnce
  <2>1. DoneParents = {}
    BY <1>1 DEF DoneParents
  <2>2. QED
    BY <1>1, <1>2, <2>1 DEF ReportedOnce, Due
<1>6. QED
  BY <1>3, <1>4, <1>5 DEF IInv

\* Every step keeps it.
LEMMA NextKeepsIInv ==
  ASSUME TypeOK, TypeOK', IInv, [Next]_vars
  PROVE  IInv'
<1>1. CASE BatchCreate
  BY <1>1, CreateKeepsIInv
<1>2. CASE BatchAdd
  BY <1>2, AddKeepsIInv
<1>3. CASE BatchRun
  BY <1>3, RunKeepsIInv
<1>4. CASE BatchRunAgain
  BY <1>4, RunAgainKeepsIInv
<1>5. CASE SlaveStep \/ ReturnOutside \/ MasterStep \/ RunScanStep
  BY <1>5, OtherStepKeepsIInv DEF OtherStep
<1>6. CASE ReturnOfChild
  BY <1>6, ReturnOfChildKeepsIInv
<1>7. CASE BatchFinishBegin
  BY <1>7, FinishBeginKeepsIInv
<1>8. CASE \E c \in Cids : BatchStartBegin(c)
  BY <1>8, StartBeginKeepsIInv
<1>9. CASE BatchResumeNext
  BY <1>9, ResumeNextKeepsIInv
<1>10. CASE BatchResumeEnd
  BY <1>10, ResumeEndKeepsIInv
<1>11. CASE UNCHANGED vars
  <2>1. /\ UNCHANGED pool_vars
        /\ UNCHANGED <<relate_bid, batch_state, parent_cid, children, finished>>
        /\ UNCHANGED <<batch_finish_cid_list_, resuming, loop, todo>>
    BY <1>11 DEF vars, schedule_vars, master_vars, batch_vars, loop_vars
  <2>2. /\ Members' /\ MembersLive' /\ Bounded' /\ ParentInRun'
        /\ Parents' = Parents /\ Children' = Children /\ DoneParents' = DoneParents
    BY <2>1, LoopStepLeaves
  <2>3. LoopKnown' /\ ReportedOnce'
    BY <2>1, <2>2 DEF IInv, LoopKnown, ReportedOnce, Due, Resumable, pool_vars
  <2>4. QED
    BY <2>2, <2>3 DEF IInv
<1>12. QED
  BY <1>1, <1>2, <1>3, <1>4, <1>5, <1>6, <1>7, <1>8, <1>9, <1>10, <1>11
     DEF Next, Slave, BatchResume

\* The types and the invariant.
LEMMA AlwaysIInv == Spec => [](TypeOK /\ IInv)
<1>1. Init => TypeOK /\ IInv
  BY InitTyped, InitIInv
<1>2. TypeOK /\ IInv /\ [Next]_vars => TypeOK' /\ IInv'
  BY NextTyped, NextKeepsIInv
<1>3. QED
  BY <1>1, <1>2, PTL DEF Spec

-----------------------------------------------------------------------------
(* The slots suffice.                                                      *)

\* The elements of a set of at most m can be numbered from 1 to m.
LEMMA Numbering ==
  ASSUME NEW S, IsFiniteSet(S), NEW m \in Nat, Cardinality(S) <= m
  PROVE  Injection(S, 1 .. m) # {}
<1> DEFINE k == Cardinality(S)
<1>1. k \in Nat
  BY FS_CardinalityType
<1>2. IsFiniteSet(1 .. k) /\ Cardinality(1 .. k) = k
  BY <1>1, FS_Interval
<1>3. PICK g \in Bijection(S, 1 .. k) : TRUE
  BY <1>2, FS_SameCardinalityBij DEF ExistsBijection
<1>4. 1 .. k \subseteq 1 .. m
  BY <1>1
<1>5. g \in Injection(S, 1 .. m)
  BY <1>3, <1>4 DEF Bijection, Injection, IsInjective
<1>6. QED
  BY <1>5

\* Every slave in use is outside batches or one of the numbered children of a parent, which
\* is outside.  With all slots in use all these places are taken: each batch is full.
LEMMA RoomForChildren ==
  ASSUME TypeOK, IInv, InBatch("kReady"), Idle = {}
  PROVE  Full(relate_bid[slave_cid_])
<1> DEFINE m == max_concurrency_in_batch_
           number(a) == CHOOSE g \in Injection(children[a], 1 .. m) : TRUE
           places == OutsideBatches \X (0 .. m)
           own == relate_bid[slave_cid_]
           place == [c \in Cids |-> IF c \in Children
                       THEN <<parent_cid[relate_bid[c]], number(relate_bid[c])[c]>>
                       ELSE <<c, 0>>]
<1>0. /\ BatchTypeOK /\ Members /\ state \in [Cids -> State] /\ m \in Nat \ {0}
      /\ own \in Bids /\ slave_cid_ \in Cids /\ slave_cid_ \in Parents
      /\ parent_cid[own] = slave_cid_
  BY Parts, InBatchIs, BatchAssumption DEF IInv, InBatch
<1>1. \A a \in Bids : number(a) \in Injection(children[a], 1 .. m)
  <2> SUFFICES ASSUME NEW a \in Bids
               PROVE  Injection(children[a], 1 .. m) # {}
    OBVIOUS
  <2>1. IsFiniteSet(children[a])
    BY <1>0, CidSets DEF BatchTypeOK
  <2>2. Cardinality(children[a]) <= m
    BY DEF IInv, Bounded
  <2>3. QED
    BY <1>0, <2>1, <2>2, Numbering
<1>2. \A a \in Bids : \A c \in children[a] :
        number(a)[c] \in 1 .. m /\ \A d \in children[a] : number(a)[c] = number(a)[d] => c = d
  <2> SUFFICES ASSUME NEW a \in Bids, NEW c \in children[a]
               PROVE  /\ number(a)[c] \in 1 .. m
                      /\ \A d \in children[a] : number(a)[c] = number(a)[d] => c = d
    OBVIOUS
  <2> DEFINE g == number(a)
  <2>1. g \in Injection(children[a], 1 .. m)
    BY <1>1
  <2> HIDE DEF g
  <2>2. /\ g[c] \in 1 .. m
        /\ \A d \in children[a] : g[c] = g[d] => c = d
    BY <2>1 DEF Injection, IsInjective
  <2>3. QED
    BY <2>2 DEF g
<1> HIDE DEF number
<1>3. \A c \in Children :
        /\ relate_bid[c] \in Bids /\ c \in children[relate_bid[c]]
        /\ parent_cid[relate_bid[c]] \in OutsideBatches
        /\ relate_bid[parent_cid[relate_bid[c]]] = relate_bid[c]
  <2> SUFFICES ASSUME NEW c \in Children
               PROVE  /\ relate_bid[c] \in Bids /\ c \in children[relate_bid[c]]
                      /\ parent_cid[relate_bid[c]] \in OutsideBatches
                      /\ relate_bid[parent_cid[relate_bid[c]]] = relate_bid[c]
    OBVIOUS
  <2>1. relate_bid[c] \in Bids /\ batch_state[relate_bid[c]] # "kIdle"
        /\ c \in children[relate_bid[c]]
    BY <1>0, ChildHasBatch
  <2>2. /\ parent_cid[relate_bid[c]] \in Parents
        /\ relate_bid[parent_cid[relate_bid[c]]] = relate_bid[c]
    BY <1>0, <2>1, ParentsApart
  <2>3. Parents \subseteq OutsideBatches
    BY DEF IInv, MembersLive, Parents, Children, OutsideBatches
  <2>4. QED
    BY <2>1, <2>2, <2>3
<1>4. \A c \in Cids \ Children : c \in OutsideBatches
  BY DEF OutsideBatches, Idle
<1>5. place \in [Cids -> places]
  <2>1. 0 \in 0 .. m /\ 1 .. m \subseteq 0 .. m
    BY <1>0
  <2>2. QED
    BY <1>2, <1>3, <1>4, <2>1
<1>6. \A c, d \in Cids : place[c] = place[d] => c = d
  <2> SUFFICES ASSUME NEW c \in Cids, NEW d \in Cids, place[c] = place[d]
               PROVE  c = d
    OBVIOUS
  <2>1. c \in Children <=> d \in Children
    BY <1>2, <1>3
  <2>2. CASE c \notin Children
    BY <2>1, <2>2
  <2>3. CASE c \in Children
    <3>1. parent_cid[relate_bid[c]] = parent_cid[relate_bid[d]]
          /\ number(relate_bid[c])[c] = number(relate_bid[d])[d]
      BY <2>1, <2>3
    <3>2. relate_bid[c] = relate_bid[d]
      BY <1>3, <2>1, <2>3, <3>1
    <3>3. QED
      BY <1>2, <1>3, <2>1, <2>3, <3>1, <3>2
  <2>4. QED
    BY <2>2, <2>3
<1>7. place \in Injection(Cids, places)
  BY <1>5, <1>6 DEF Injection, IsInjective
<1>8. /\ IsFiniteSet(OutsideBatches) /\ Cardinality(OutsideBatches) \in Nat
      /\ IsFiniteSet(Cids) /\ Cardinality(Cids) = coroutine_count_
  <2>1. OutsideBatches \in SUBSET Cids
    BY DEF OutsideBatches
  <2>2. coroutine_count_ - 1 \in Int /\ 0 \in Int
    BY PoolAssumption
  <2>3. IsFiniteSet(Cids) /\ Cardinality(Cids) = coroutine_count_
    BY <2>2, FS_Interval, PoolAssumption DEF Cids
  <2>4. QED
    BY <2>1, <2>3, CidSets, FS_CardinalityType
<1>9. IsFiniteSet(0 .. m) /\ Cardinality(0 .. m) = m + 1
      /\ IsFiniteSet(1 .. m) /\ Cardinality(1 .. m) = m
  BY <1>0, FS_Interval
<1>10. IsFiniteSet(places) /\ Cardinality(places) = Cardinality(OutsideBatches) * (m + 1)
  BY <1>8, <1>9, FS_Product
<1> HIDE DEF place
<1>11. Cardinality(places) = Cardinality(Cids)
  <2>1. Cardinality(Cids) <= Cardinality(places)
    BY <1>7, <1>10, FS_Injection
  <2>2. Cardinality(OutsideBatches) <= MaxParents
    BY DEF IInv, Bounded
  <2>3. Cardinality(OutsideBatches) * (m + 1) <= MaxParents * (m + 1)
    BY <1>0, <1>8, <2>2, PoolOfParents
  <2>4. Cardinality(Cids) = MaxParents * (m + 1)
    BY <1>8, PoolOfParents
  <2>5. QED
    BY <1>0, <1>8, <1>10, <2>1, <2>3, <2>4, PoolOfParents
<1>12. place \in Surjection(Cids, places)
  BY <1>7, <1>10, <1>11, FS_Injection
<1> USE DEF place
<1>13. \A k \in 1 .. m : \E c \in children[own] : number(own)[c] = k
  <2> SUFFICES ASSUME NEW k \in 1 .. m
               PROVE  \E c \in children[own] : number(own)[c] = k
    OBVIOUS
  <2>1. slave_cid_ \in OutsideBatches /\ k \in 0 .. m /\ k # 0
    BY <1>0, <1>4 DEF Children
  <2>2. <<slave_cid_, k>> \in places
    BY <2>1
  <2>3. PICK c \in Cids : place[c] = <<slave_cid_, k>>
    BY <1>12, <2>2 DEF Surjection
  <2>4. /\ c \in Children /\ parent_cid[relate_bid[c]] = slave_cid_
        /\ number(relate_bid[c])[c] = k
    BY <2>1, <2>3
  <2>5. relate_bid[c] = own
    BY <1>3, <2>4
  <2>6. QED
    BY <1>3, <2>4, <2>5
<1>14. number(own) \in Surjection(children[own], 1 .. m)
  BY <1>0, <1>1, <1>13 DEF Injection, Surjection
<1>15. Cardinality(children[own]) = m
  BY <1>0, <1>1, <1>9, <1>14, FS_Injection
<1>16. QED
  BY <1>0, <1>15 DEF Full

-----------------------------------------------------------------------------
(* The safety properties of batches.                                       *)

\* Every variable of batches has its type and the pool is consistent.
THEOREM Typed == Spec => []TypeOK
BY AlwaysIInv, PTL

\* The slaves and the batches agree on who belongs to which batch, and there is a free slot
\* for each child BatchAdd accepts, however large the pool, the batches and their number.
THEOREM Consistent == Spec => []BatchesConsistent
<1>1. TypeOK /\ IInv => BatchesConsistent
  <2> SUFFICES ASSUME TypeOK, IInv
               PROVE  BatchesConsistent
    OBVIOUS
  <2>1. ASSUME NEW b \in Bids, batch_state[b] = "kIdle"
        PROVE  parent_cid[b] = kInvalidCid /\ \A c \in Cids : relate_bid[c] # b
    BY <2>1 DEF IInv, Members
  <2>2. ASSUME NEW b \in Bids, batch_state[b] # "kIdle"
        PROVE  /\ finished[b] \subseteq children[b]
               /\ Cardinality(children[b]) <= max_concurrency_in_batch_
               /\ {c \in Cids : relate_bid[c] = b}
                    = {parent_cid[b]} \cup (children[b] \ finished[b])
               /\ \A c \in Cids : relate_bid[c] = b => state[c] # "kIdle"
    <3>1. /\ finished[b] \subseteq children[b] /\ parent_cid[b] \in Cids
          /\ \A c \in Cids :
               relate_bid[c] = b <=> c = parent_cid[b] \/ c \in children[b] \ finished[b]
      BY <2>2 DEF IInv, Members
    <3>2. children[b] \subseteq Cids
      BY Parts DEF BatchTypeOK
    <3>3. {c \in Cids : relate_bid[c] = b} = {parent_cid[b]} \cup (children[b] \ finished[b])
      BY <3>1, <3>2
    <3>4. \A c \in Cids : relate_bid[c] = b => state[c] # "kIdle"
      BY InvalidIsNoBid DEF IInv, MembersLive
    <3>5. QED
      BY <3>1, <3>3, <3>4 DEF IInv, Bounded
  <2>3. InBatch("kReady") => Full(relate_bid[slave_cid_]) \/ Idle # {}
    BY RoomForChildren
  <2>4. QED
    BY <2>1, <2>2, <2>3 DEF BatchesConsistent
<1>2. QED
  BY <1>1, AlwaysIInv, PTL

\* A parent goes on after BatchRun only when all its children have finished, and the
\* completion of a batch is neither lost nor reported twice.
THEOREM ParentWaits == Spec => []ParentWaitsForAll
<1>1. TypeOK /\ IInv => ParentWaitsForAll
  <2> SUFFICES ASSUME TypeOK, IInv
               PROVE  ParentWaitsForAll
    OBVIOUS
  <2>1. Due \in Seq(Cids)
    BY Parts DEF Due, BatchTypeOK
  <2>2. Len(Due) = Cardinality(ToSet(Due))
    BY <2>1, InjectiveLength DEF IInv, ReportedOnce
  <2>3. QED
    BY <2>2 DEF IInv, ReportedOnce, ParentWaitsForAll, Due, DoneParents
<1>2. QED
  BY <1>1, AlwaysIInv, PTL

=============================================================================
