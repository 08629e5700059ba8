------------------------------- MODULE Batch -------------------------------
(***************************************************************************)
(* Batches: a slave, the parent, creates a batch, adds children to it,     *)
(* which are slaves of their own, and suspends in BatchRun until all of    *)
(* them have finished.  The last child to finish puts the parent on a list *)
(* for CoroutineResume4BatchFinish.  Run() scans the children and leaves   *)
(* the parents out; an event loop calls CoroutineResume4BatchStart.        *)
(*                                                                         *)
(* The pool is made for a number of slaves that may be parents and their   *)
(* children.  A parent is a slave outside any batch, adds at least one     *)
(* child, and does not yield between BatchCreate and BatchRun; the program *)
(* has no more slaves outside batches than the pool is made for.           *)
(***************************************************************************)
EXTENDS Schedule, Sequences, SequencesExt

CONSTANTS
  max_concurrency_in_batch_,   \* children of a batch at most
  kMaxBatchSize                \* size of the pool of batches

ASSUME BatchAssumption ==
  /\ max_concurrency_in_batch_ \in Nat \ {0}
  /\ kMaxBatchSize \in Nat \ {0}
  /\ coroutine_count_ % (max_concurrency_in_batch_ + 1) = 0

\* The argument coroutine_count of the constructor, which multiplies it.
MaxParents == coroutine_count_ \div (max_concurrency_in_batch_ + 1)

kInvalidBid == -1
Bids == 0 .. kMaxBatchSize - 1

VARIABLES
  relate_bid,              \* Coroutine::relate_bid
  batch_state,             \* Batch::state
  parent_cid,              \* Batch::parent_cid
  children,                \* the keys of Batch::child_cid_2_finish
  finished,                \* those of them that are mapped to true
  batch_finish_cid_list_,  \* parents whose children have all finished
  loop,                    \* the Resume function the master is in, "none", "start" or "finish"
  todo                     \* whom its loop has yet to resume

batch_vars == <<relate_bid, batch_state, parent_cid, children, finished, batch_finish_cid_list_>>
loop_vars == <<loop, todo>>
vars == <<schedule_vars, batch_vars, loop_vars>>

Init ==
  /\ ScheduleInit
  /\ relate_bid = [c \in Cids |-> kInvalidBid]
  /\ batch_state = [b \in Bids |-> "kIdle"]
  /\ parent_cid = [b \in Bids |-> kInvalidCid]
  /\ children = [b \in Bids |-> {}]
  /\ finished = [b \in Bids |-> {}]
  /\ batch_finish_cid_list_ = <<>>
  /\ loop = "none"
  /\ todo = <<>>

Parents == {c \in Cids : relate_bid[c] # kInvalidBid /\ parent_cid[relate_bid[c]] = c}
Children == {c \in Cids : relate_bid[c] # kInvalidBid} \ Parents
OutsideBatches == {c \in Cids : state[c] # "kIdle"} \ Children

-----------------------------------------------------------------------------
(* The calls of the running slave.                                         *)

IdleBatches == {b \in Bids : batch_state[b] = "kIdle"}
LowestIdleBatch(b) == b \in IdleBatches /\ \A a \in IdleBatches : b <= a

BatchCreate ==
  /\ ~ is_master_ /\ Call
  /\ relate_bid[slave_cid_] = kInvalidBid
  /\ \E b \in Bids :
       /\ LowestIdleBatch(b)
       /\ batch_state' = [batch_state EXCEPT ![b] = "kReady"]
       /\ parent_cid' = [parent_cid EXCEPT ![b] = slave_cid_]
       /\ relate_bid' = [relate_bid EXCEPT ![slave_cid_] = b]
  /\ UNCHANGED <<pool_vars, master_vars, children, finished, batch_finish_cid_list_, loop_vars>>

\* The batch the running slave is about to add children to, or back from running.
InBatch(st) ==
  /\ slave_cid_ \in Parents
  /\ batch_state[relate_bid[slave_cid_]] = st

Full(b) == Cardinality(children[b]) >= max_concurrency_in_batch_

\* With a full batch BatchAdd returns false and changes nothing.
BatchAdd ==
  /\ InBatch("kReady")
  /\ LET b == relate_bid[slave_cid_] IN
       /\ ~ Full(b)
       /\ \E c \in Cids :
            /\ LowestIdle(c)
            /\ CoroutineInit(c)
            /\ relate_bid' = [relate_bid EXCEPT ![c] = b]
            /\ children' = [children EXCEPT ![b] = @ \cup {c}]
            /\ finished' = [finished EXCEPT ![b] = @ \ {c}]
            /\ calls' = [calls EXCEPT ![c] = calls[slave_cid_]]
  /\ UNCHANGED <<master_vars, batch_state, parent_cid, batch_finish_cid_list_, loop_vars>>

BatchRun ==
  /\ InBatch("kReady")
  /\ children[relate_bid[slave_cid_]] # {}
  /\ batch_state' = [batch_state EXCEPT ![relate_bid[slave_cid_]] = "kRun"]
  /\ CoroutineYield
  /\ UNCHANGED <<calls, master_vars, relate_bid, parent_cid, children, finished>>
  /\ UNCHANGED <<batch_finish_cid_list_, loop_vars>>

\* BatchRun goes on when the parent has been resumed: the batch is over and free.
BatchRunAgain ==
  /\ InBatch("kRun")
  /\ LET b == relate_bid[slave_cid_] IN
       /\ batch_state' = [batch_state EXCEPT ![b] = "kIdle"]
       /\ parent_cid' = [parent_cid EXCEPT ![b] = kInvalidCid]
       /\ children' = [children EXCEPT ![b] = {}]
       /\ finished' = [finished EXCEPT ![b] = {}]
       /\ relate_bid' = [relate_bid EXCEPT ![slave_cid_] = kInvalidBid]
  /\ UNCHANGED <<schedule_vars, batch_finish_cid_list_, loop_vars>>

SlaveStep ==
  /\ slave_cid_ \notin Parents
  /\ Yield \/ (Cardinality(OutsideBatches) < MaxParents /\ Spawn)
  /\ UNCHANGED <<batch_vars, loop_vars>>

ReturnOutside ==
  /\ ~ is_master_ /\ relate_bid[slave_cid_] = kInvalidBid
  /\ Return
  /\ UNCHANGED <<batch_vars, loop_vars>>

\* Mutant: asks whether any child has finished.
IsBatchDoneAny(kids, done) == done # {}

IsBatchDone(kids, done) == kids = done

\* Mutant: tests whether the batch is done before it marks the child.
ReturnOfChildMarksLate ==
  /\ ~ is_master_ /\ slave_cid_ \in Children
  /\ LET b == relate_bid[slave_cid_] IN
       /\ finished' = [finished EXCEPT ![b] = @ \cup {slave_cid_}]
       /\ batch_finish_cid_list_' =
            IF IsBatchDone(children[b], finished[b])
              THEN Append(batch_finish_cid_list_, parent_cid[b])
              ELSE batch_finish_cid_list_
  /\ relate_bid' = [relate_bid EXCEPT ![slave_cid_] = kInvalidBid]
  /\ Return
  /\ UNCHANGED <<batch_state, parent_cid, children, loop_vars>>

\* Mutant: the slot of a child still belongs to the batch when the child has finished.
ReturnOfChildKeepsBid ==
  /\ ~ is_master_ /\ slave_cid_ \in Children
  /\ LET b == relate_bid[slave_cid_] IN
       /\ finished' = [finished EXCEPT ![b] = @ \cup {slave_cid_}]
       /\ batch_finish_cid_list_' =
            IF IsBatchDone(children[b], finished'[b])
              THEN Append(batch_finish_cid_list_, parent_cid[b])
              ELSE batch_finish_cid_list_
  /\ Return
  /\ UNCHANGED <<relate_bid, batch_state, parent_cid, children, loop_vars>>

\* A child finishes: the part of CoroutineRun that is about batches.  IsBatchDone asserts
\* that the parent is in BatchRun.
ReturnOfChild ==
  /\ ~ is_master_ /\ slave_cid_ \in Children
  /\ LET b == relate_bid[slave_cid_] IN
       /\ finished' = [finished EXCEPT ![b] = @ \cup {slave_cid_}]
       /\ batch_finish_cid_list_' =
            IF IsBatchDone(children[b], finished'[b])
              THEN Append(batch_finish_cid_list_, parent_cid[b])
              ELSE batch_finish_cid_list_
  /\ relate_bid' = [relate_bid EXCEPT ![slave_cid_] = kInvalidBid]
  /\ Return
  /\ UNCHANGED <<batch_state, parent_cid, children, loop_vars>>

Slave ==
  \/ BatchCreate \/ BatchAdd \/ BatchRun \/ BatchRunAgain
  \/ SlaveStep \/ ReturnOutside \/ ReturnOfChild

-----------------------------------------------------------------------------
(* The master.  An event loop resumes no parent of a batch: CoroutineResume*)
(* asserts that the parent is on the list.                                 *)

MasterStep ==
  /\ \/ Cardinality(OutsideBatches) < MaxParents /\ Create
     \/ RunBegin
     \/ \E c \in Cids \ Parents : EventResume(c)
  /\ UNCHANGED <<batch_vars, loop_vars>>

RunScanStep == RunScan(Parents) /\ UNCHANGED <<batch_vars, loop_vars>>

\* CoroutineResume4BatchFinish resumes the parents on the list and then empties it.
BatchFinishBegin ==
  /\ ResumeBegin
  /\ loop' = "finish"
  /\ todo' = batch_finish_cid_list_
  /\ UNCHANGED batch_vars

\* CoroutineResume4BatchStart, which an event loop calls for a parent that has just
\* suspended in BatchRun, resumes the children in the order of the map, which is any.
BatchStartBegin(c) ==
  /\ AtLarge
  /\ c \in Parents
  /\ finished[relate_bid[c]] = {}
  /\ resuming' = TRUE
  /\ loop' = "start"
  /\ todo' \in SetToSeqs(children[relate_bid[c]])
  /\ UNCHANGED <<pool_vars, calls, running, scan, batch_vars>>

BatchResumeNext ==
  /\ resuming /\ is_master_
  /\ todo # <<>>
  /\ todo' = Tail(todo)
  /\ CoroutineResume(Head(todo))
  /\ UNCHANGED <<calls, master_vars, batch_vars, loop>>

BatchResumeEnd ==
  /\ todo = <<>>
  /\ ResumeEnd
  /\ loop' = "none"
  /\ batch_finish_cid_list_' = IF loop = "finish" THEN <<>> ELSE batch_finish_cid_list_
  /\ UNCHANGED <<relate_bid, batch_state, parent_cid, children, finished, todo>>

BatchResume == BatchResumeNext \/ BatchResumeEnd

-----------------------------------------------------------------------------

Next ==
  \/ Slave
  \/ MasterStep \/ RunScanStep
  \/ BatchFinishBegin \/ (\E c \in Cids : BatchStartBegin(c)) \/ BatchResume

\* The process's one thread keeps executing code.
Fairness ==
  /\ WF_vars(Slave)
  /\ WF_vars(RunScanStep)
  /\ WF_vars(running /\ BatchFinishBegin)
  /\ WF_vars(BatchResume)

Spec == Init /\ [][Next]_vars
FairSpec == Spec /\ Fairness

-----------------------------------------------------------------------------
(* Properties.                                                             *)

\* Every variable has its type and the pool is consistent.
TypeOK ==
  /\ ScheduleTypeOK
  /\ relate_bid \in [Cids -> Bids \cup {kInvalidBid}]
  /\ batch_state \in [Bids -> {"kIdle", "kReady", "kRun"}]
  /\ parent_cid \in [Bids -> Cids \cup {kInvalidCid}]
  /\ children \in [Bids -> SUBSET Cids]
  /\ finished \in [Bids -> SUBSET Cids]
  /\ batch_finish_cid_list_ \in Seq(Cids)
  /\ loop \in {"none", "start", "finish"}
  /\ todo \in Seq(Cids)

\* The slaves and the batches agree on who belongs to which batch: the parent and the
\* children that have not finished, and no slave that has reused the slot of one that has.
\* So there is a free slot for each child BatchAdd accepts, as it asserts, with no more
\* slaves outside batches than the pool is made for.
BatchesConsistent ==
  /\ \A b \in Bids :
       IF batch_state[b] = "kIdle"
         THEN parent_cid[b] = kInvalidCid /\ \A c \in Cids : relate_bid[c] # b
         ELSE /\ finished[b] \subseteq children[b]
              /\ Cardinality(children[b]) <= max_concurrency_in_batch_
              /\ {c \in Cids : relate_bid[c] = b} = {parent_cid[b]} \cup (children[b] \ finished[b])
              /\ \A c \in Cids : relate_bid[c] = b => state[c] # "kIdle"
  /\ InBatch("kReady") => Full(relate_bid[slave_cid_]) \/ Idle # {}

\* A parent runs on after BatchRun only when all its children have finished, and the
\* completion of a batch is neither lost nor reported twice: the parents that are
\* suspended in BatchRun with all children finished are once on the list, and nobody else
\* whom CoroutineResume4BatchFinish has yet to resume.
ParentWaitsForAll ==
  LET due == IF loop = "finish" THEN todo ELSE batch_finish_cid_list_
      done == {parent_cid[b] : b \in {a \in Bids : batch_state[a] = "kRun" /\ children[a] = finished[a]}}
  IN  /\ ToSet(due) = done \ {slave_cid_}
      /\ Len(due) = Cardinality(ToSet(due))
      /\ \A b \in Bids : batch_state[b] = "kRun" /\ slave_cid_ = parent_cid[b]
           => children[b] = finished[b]

\* Run() returns: every batch ends and its parent goes on.
RunReturns == running ~> ~ running
=============================================================================
