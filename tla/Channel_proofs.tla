---------------------------- MODULE Channel_proofs ----------------------------
(***************************************************************************)
(* The safety of Channel and of the semaphores it is made of, for every    *)
(* size of the channel and every number of slaves, messages and calls:     *)
(* types, that the semaphores account for the room, that CoSemaphoreResume *)
(* resumes only waiters, and that the channel implements a bounded queue.  *)
(***************************************************************************)
EXTENDS Channel, Schedule_proofs

-----------------------------------------------------------------------------
(* The inductive invariant.  RoomAccounted is inductive together with the  *)
(* types; the types need to know that a waiting sender has its message.    *)

\* A slave that waits for room has the message it goes on with.
SenderHasData == \A c \in Cids : waiting[c] = "idle" => data[c] \in Messages

\* The set of a semaphore has the slaves inside its CoSemaphoreWait and no others, and
\* whoever CoSemaphoreResume may resume is suspended there, also when the slaves it has
\* resumed meanwhile have waited and posted: the assertion of CoroutineResume holds.
WaitersKnown ==
  /\ \A s \in Semaphores, c \in Cids : c \in suspend_cid_set[s] <=> waiting[c] = s
  /\ \A c \in Cids : waiting[c] # NoSemaphore /\ slave_cid_ # c => state[c] = "kSuspend"
  /\ \A c \in cid_set : waiting[c] = serving /\ state[c] = "kSuspend"
  /\ serving # NoSemaphore => resuming
  /\ cid_set # {} => serving # NoSemaphore

IInv ==
  /\ RoomAccounted
  /\ SenderHasData
  /\ WaitersKnown

-----------------------------------------------------------------------------
(* Types.                                                                  *)

\* What TypeOK says of the variables that are not the scheduler's.
ChannelTypeOK ==
  /\ SemaphoreTypeOK
  /\ buffer \in Seq(Messages)
  /\ waiting \in [Cids -> Semaphores \cup {NoSemaphore}]
  /\ data \in [Cids -> Messages \cup {NoMessage}]

\* The two semaphores of a channel.
LEMMA TwoSemaphores ==
  /\ "idle" \in Semaphores /\ "fill" \in Semaphores
  /\ NoSemaphore \notin Semaphores
  /\ buffer_size \in Nat
BY BufferAssumption, SemaphoreAssumption

\* The types and what they are read from.
LEMMA Parts ==
  ASSUME TypeOK
  PROVE  /\ ScheduleTypeOK /\ PoolOK /\ ChannelTypeOK /\ SemaphoreTypeOK
         /\ ~ is_master_ => slave_cid_ \in Cids /\ state[slave_cid_] = "kRun"
BY DEF TypeOK, ScheduleTypeOK, PoolOK, OneRunner, ChannelTypeOK, is_master_

\* A wait that passes, and the post to the other semaphore, move one place of the room.
LEMMA ValueMoves ==
  ASSUME TypeOK, NEW s \in Semaphores, NEW t \in Semaphores, s # t, WaitPasses(s),
         value' = Posted(t, Taken(s))
  PROVE  /\ value' \in [Semaphores -> Nat]
         /\ value'[s] = value[s] - 1
         /\ value'[t] = value[t] + 1
         /\ value[s] > 0
<1>1. value \in [Semaphores -> Nat] /\ value[s] > 0
  BY DEF TypeOK, SemaphoreTypeOK, WaitPasses
<1>2. /\ value'[s] = value[s] - 1
      /\ value'[t] = value[t] + 1
      /\ \A u \in Semaphores : u # s /\ u # t => value'[u] = value[u]
      /\ value' \in [Semaphores -> Int]
  BY <1>1 DEF Posted, Taken
<1>3. \A u \in Semaphores : value'[u] \in Nat
  BY <1>1, <1>2
<1>4. QED
  BY <1>1, <1>2, <1>3

\* The waiters of a semaphore after a turn of CoSemaphoreWait.
LEMMA WaitersTyped ==
  ASSUME TypeOK, ~ is_master_, NEW s \in Semaphores, WaitPasses(s) \/ WaitSuspends(s)
  PROVE  suspend_cid_set' \in [Semaphores -> SUBSET Cids]
<1>1. slave_cid_ \in Cids /\ suspend_cid_set \in [Semaphores -> SUBSET Cids]
  BY Parts DEF SemaphoreTypeOK
<1>2. QED
  BY <1>1 DEF WaitPasses, WaitSuspends

\* A sender passes, or is suspended with its message.
LEMMA SendTurnTyped ==
  ASSUME TypeOK, NEW d \in Messages, ~ is_master_, SendTurn(d), UNCHANGED loop_vars
  PROVE  PoolOK' /\ ChannelTypeOK'
<1>0. slave_cid_ \in Cids /\ PoolOK /\ ChannelTypeOK /\ SemaphoreTypeOK
  BY Parts
<1>1. CASE WaitPasses("idle") /\ value' = Posted("fill", Taken("idle"))
           /\ buffer' = Append(buffer, d) /\ data' = [data EXCEPT ![slave_cid_] = NoMessage]
           /\ StopWaiting
  <2>1. value' \in [Semaphores -> Nat]
    BY <1>1, TwoSemaphores, ValueMoves
  <2>2. suspend_cid_set' \in [Semaphores -> SUBSET Cids]
    BY <1>1, TwoSemaphores, WaitersTyped
  <2>3. buffer' \in Seq(Messages)
    BY <1>0, <1>1, AppendProperties DEF ChannelTypeOK
  <2>4. /\ waiting' \in [Cids -> Semaphores \cup {NoSemaphore}]
        /\ data' \in [Cids -> Messages \cup {NoMessage}]
    BY <1>0, <1>1 DEF ChannelTypeOK, StopWaiting
  <2>5. PoolOK'
    BY <1>0, <1>1 DEF StopWaiting, pool_vars, PoolOK, OneRunner, CountsNotIdle
  <2>6. QED
    BY <1>0, <2>1, <2>2, <2>3, <2>4, <2>5 DEF ChannelTypeOK, SemaphoreTypeOK, loop_vars
<1>2. CASE WaitSuspends("idle") /\ data' = [data EXCEPT ![slave_cid_] = d]
           /\ KeepWaiting("idle")
  <2>1. suspend_cid_set' \in [Semaphores -> SUBSET Cids]
    BY <1>2, TwoSemaphores, WaitersTyped
  <2>2. /\ waiting' \in [Cids -> Semaphores \cup {NoSemaphore}]
        /\ data' \in [Cids -> Messages \cup {NoMessage}]
    BY <1>0, <1>2, TwoSemaphores DEF ChannelTypeOK, KeepWaiting
  <2>3. PoolOK'
    BY <1>0, <1>2, YieldKeepsPool DEF WaitSuspends
  <2>4. QED
    BY <1>0, <1>2, <2>1, <2>2, <2>3
       DEF WaitSuspends, KeepWaiting, ChannelTypeOK, SemaphoreTypeOK, loop_vars
<1>3. QED
  BY <1>1, <1>2 DEF SendTurn

\* A receiver passes, or is suspended.
LEMMA ReceiveTurnTyped ==
  ASSUME TypeOK, RoomAccounted, ~ is_master_, ReceiveTurn, UNCHANGED <<loop_vars, data>>
  PROVE  PoolOK' /\ ChannelTypeOK'
<1>0. slave_cid_ \in Cids /\ PoolOK /\ ChannelTypeOK /\ SemaphoreTypeOK
  BY Parts
<1>1. CASE WaitPasses("fill") /\ value' = Posted("idle", Taken("fill"))
           /\ buffer' = Tail(buffer) /\ StopWaiting
  <2>1. value' \in [Semaphores -> Nat] /\ value["fill"] > 0
    BY <1>1, TwoSemaphores, ValueMoves
  <2>2. suspend_cid_set' \in [Semaphores -> SUBSET Cids]
    BY <1>1, TwoSemaphores, WaitersTyped
  <2>3. buffer # <<>>
    BY <2>1 DEF RoomAccounted
  <2>4. buffer' \in Seq(Messages)
    BY <1>0, <1>1, <2>3, HeadTailProperties DEF ChannelTypeOK
  <2>5. waiting' \in [Cids -> Semaphores \cup {NoSemaphore}]
    BY <1>0, <1>1 DEF ChannelTypeOK, StopWaiting
  <2>6. PoolOK'
    BY <1>0, <1>1 DEF StopWaiting, pool_vars, PoolOK, OneRunner, CountsNotIdle
  <2>7. QED
    BY <1>0, <2>1, <2>2, <2>4, <2>5, <2>6 DEF ChannelTypeOK, SemaphoreTypeOK, loop_vars
<1>2. CASE WaitSuspends("fill") /\ KeepWaiting("fill")
  <2>1. suspend_cid_set' \in [Semaphores -> SUBSET Cids]
    BY <1>2, TwoSemaphores, WaitersTyped
  <2>2. waiting' \in [Cids -> Semaphores \cup {NoSemaphore}]
    BY <1>0, <1>2, TwoSemaphores DEF ChannelTypeOK, KeepWaiting
  <2>3. PoolOK'
    BY <1>0, <1>2, YieldKeepsPool DEF WaitSuspends
  <2>4. QED
    BY <1>0, <1>2, <2>1, <2>2, <2>3
       DEF WaitSuspends, KeepWaiting, ChannelTypeOK, SemaphoreTypeOK, loop_vars
<1>3. QED
  BY <1>1, <1>2 DEF ReceiveTurn

\* CoSemaphoreResume keeps the types.
LEMMA ResumeTyped ==
  ASSUME TypeOK, ResumeCall \/ ResumeStep
  PROVE  ScheduleTypeOK' /\ ChannelTypeOK'
<1>0. ScheduleTypeOK /\ PoolOK /\ ChannelTypeOK /\ SemaphoreTypeOK
  BY Parts
<1>1. CASE ResumeCall \/ (CoSemaphoreResumeEnd /\ UNCHANGED client_vars)
  <2>1. ScheduleTypeOK'
    BY <1>0, <1>1, ResumeLoopTyped DEF ResumeCall, CoSemaphoreResumeBegin, CoSemaphoreResumeEnd
  <2>2. QED
    BY <1>0, <1>1, <2>1
       DEF ResumeCall, CoSemaphoreResumeBegin, CoSemaphoreResumeEnd, ChannelTypeOK,
           SemaphoreTypeOK, semaphore_vars, loop_vars, client_vars
<1>2. CASE ((\E s \in Semaphores : Visit(s)) \/ Served) /\ UNCHANGED client_vars
  <2>1. ScheduleTypeOK'
    BY <1>0, <1>2, UnchangedTyped DEF Visit, Served
  <2>2. QED
    BY <1>0, <1>2, <2>1
       DEF Visit, Served, ChannelTypeOK, SemaphoreTypeOK, semaphore_vars, client_vars
<1>3. CASE ResumeWaiter /\ UNCHANGED client_vars
  <2>1. PoolOK'
    BY <1>0, <1>3, ResumeKeepsPool DEF ResumeWaiter, SemaphoreTypeOK
  <2>2. ScheduleTypeOK'
    BY <1>0, <1>3, <2>1 DEF ResumeWaiter, ScheduleTypeOK, master_vars
  <2>3. QED
    BY <1>0, <1>3, <2>2
       DEF ResumeWaiter, ChannelTypeOK, SemaphoreTypeOK, semaphore_vars, client_vars
<1>4. QED
  BY <1>1, <1>2, <1>3 DEF ResumeStep, CoSemaphoreResume

\* Every step keeps the types.
LEMMA NextTyped ==
  ASSUME TypeOK, IInv, [Next]_vars
  PROVE  TypeOK'
<1>0. ScheduleTypeOK /\ PoolOK /\ ChannelTypeOK /\ RoomAccounted
  BY Parts DEF IInv
<1> SUFFICES ScheduleTypeOK' /\ ChannelTypeOK'
  BY DEF TypeOK, ChannelTypeOK
<1>1. ASSUME NEW d \in Messages, Send(d)
      PROVE  ScheduleTypeOK' /\ ChannelTypeOK'
  <2>1. PoolOK' /\ ChannelTypeOK'
    BY <1>1, SendTurnTyped DEF Send, InEntry
  <2>2. calls' \in [Cids -> 0 .. MaxCalls]
    BY <1>0, <1>1, CallTyped DEF Send
  <2>3. QED
    BY <1>0, <1>1, <2>1, <2>2 DEF Send, master_vars, ScheduleTypeOK
<1>2. CASE Receive
  <2>1. PoolOK' /\ ChannelTypeOK'
    BY <1>0, <1>2, ReceiveTurnTyped DEF Receive, InEntry
  <2>2. calls' \in [Cids -> 0 .. MaxCalls]
    BY <1>0, <1>2, CallTyped DEF Receive
  <2>3. QED
    BY <1>0, <1>2, <2>1, <2>2 DEF Receive, master_vars, ScheduleTypeOK
<1>3. CASE WaitAgain
  <2>1. slave_cid_ \in Cids /\ ~ is_master_
    BY <1>3, Parts DEF WaitAgain
  <2>2. CASE waiting[slave_cid_] = "idle" /\ SendTurn(data[slave_cid_])
    <3>1. data[slave_cid_] \in Messages
      BY <2>1, <2>2 DEF IInv, SenderHasData
    <3>2. QED
      BY <1>0, <1>3, <2>1, <2>2, <3>1, SendTurnTyped DEF WaitAgain, master_vars, ScheduleTypeOK
  <2>3. CASE ReceiveTurn /\ UNCHANGED data
    BY <1>0, <1>3, <2>1, <2>3, ReceiveTurnTyped DEF WaitAgain, master_vars, ScheduleTypeOK
  <2>4. QED
    BY <1>3, <2>2, <2>3 DEF WaitAgain
<1>4. CASE SlaveStep \/ MasterStep \/ RunScanStep
  <2>1. ScheduleTypeOK'
    BY <1>0, <1>4, SlaveStepTyped, MasterStepTyped, RunScanTyped
       DEF SlaveStep, MasterStep, RunScanStep
  <2>2. QED
    BY <1>0, <1>4, <2>1
       DEF SlaveStep, MasterStep, RunScanStep, ChannelTypeOK, SemaphoreTypeOK, semaphore_vars,
           loop_vars, client_vars
<1>5. CASE UNCHANGED vars
  <2>1. ScheduleTypeOK'
    BY <1>0, <1>5, UnchangedTyped DEF vars
  <2>2. QED
    BY <1>0, <1>5, <2>1 DEF vars, ChannelTypeOK, SemaphoreTypeOK, semaphore_vars, loop_vars
<1>6. QED
  BY <1>1, <1>2, <1>3, <1>4, <1>5, ResumeTyped DEF Next, Slave

\* The types hold at the start.
LEMMA InitTyped ==
  ASSUME Init
  PROVE  TypeOK
<1>1. ScheduleTypeOK
  BY InitPool DEF Init
<1>2. SemaphoreTypeOK
  BY SemaphoreAssumption DEF Init, SemaphoreInit, SemaphoreTypeOK
<1>3. buffer \in Seq(Messages)
  BY EmptySeq DEF Init
<1>4. QED
  BY <1>1, <1>2, <1>3 DEF Init, TypeOK

-----------------------------------------------------------------------------
(* Every step keeps the inductive invariant.                               *)

\* The two semaphores of a channel are all there are, and are two.
LEMMA SplitRoom ==
  ASSUME TypeOK, IInv
  PROVE  /\ value["idle"] \in Nat /\ value["fill"] \in Nat
         /\ value["fill"] = Len(buffer)
         /\ value["idle"] + value["fill"] = buffer_size
         /\ buffer \in Seq(Messages) /\ Len(buffer) \in Nat
BY TwoSemaphores, LenProperties DEF TypeOK, SemaphoreTypeOK, IInv, RoomAccounted

\* A turn of CoSemaphoreWait that passes: the slave leaves the set.
LEMMA PassKeepsWaiters ==
  ASSUME TypeOK, IInv, ~ is_master_, NEW s \in Semaphores,
         waiting[slave_cid_] \in {NoSemaphore, s}, WaitPasses(s), StopWaiting,
         UNCHANGED <<loop_vars, master_vars>>
  PROVE  WaitersKnown'
<1>0. /\ slave_cid_ \in Cids /\ state[slave_cid_] = "kRun"
      /\ suspend_cid_set \in [Semaphores -> SUBSET Cids]
      /\ waiting \in [Cids -> Semaphores \cup {NoSemaphore}]
      /\ cid_set \subseteq Cids
      /\ WaitersKnown
  BY Parts DEF TypeOK, SemaphoreTypeOK, IInv
<1>1. /\ waiting' = [waiting EXCEPT ![slave_cid_] = NoSemaphore]
      /\ suspend_cid_set' = [suspend_cid_set EXCEPT ![s] = @ \ {slave_cid_}]
      /\ UNCHANGED <<pool_vars, loop_vars, master_vars>>
  BY DEF StopWaiting, WaitPasses
<1>2. ASSUME NEW t \in Semaphores, NEW c \in Cids
      PROVE  c \in suspend_cid_set'[t] <=> waiting'[c] = t
  <2>1. t # NoSemaphore
    BY TwoSemaphores
  <2>2. CASE c = slave_cid_
    BY <1>0, <1>1, <2>1, <2>2 DEF WaitersKnown
  <2>3. CASE c # slave_cid_
    BY <1>0, <1>1, <2>3 DEF WaitersKnown
  <2>4. QED
    BY <2>2, <2>3
<1>3. QED
  BY <1>0, <1>1, <1>2 DEF WaitersKnown, pool_vars, loop_vars, master_vars

\* One that does not: the slave is in the set, and suspended.
LEMMA SuspendKeepsWaiters ==
  ASSUME TypeOK, IInv, ~ is_master_, NEW s \in Semaphores,
         waiting[slave_cid_] \in {NoSemaphore, s}, WaitSuspends(s), KeepWaiting(s),
         UNCHANGED <<loop_vars, master_vars>>
  PROVE  WaitersKnown'
<1>0. /\ slave_cid_ \in Cids /\ state[slave_cid_] = "kRun" /\ state \in [Cids -> State]
      /\ suspend_cid_set \in [Semaphores -> SUBSET Cids]
      /\ waiting \in [Cids -> Semaphores \cup {NoSemaphore}]
      /\ cid_set \subseteq Cids
      /\ WaitersKnown
  BY Parts DEF TypeOK, SemaphoreTypeOK, IInv, PoolOK
<1>1. /\ waiting' = [waiting EXCEPT ![slave_cid_] = s]
      /\ suspend_cid_set' = [suspend_cid_set EXCEPT ![s] = @ \cup {slave_cid_}]
      /\ state' = [state EXCEPT ![slave_cid_] = "kSuspend"]
      /\ UNCHANGED <<loop_vars, master_vars>>
  BY DEF KeepWaiting, WaitSuspends, CoroutineYield
<1>2. ASSUME NEW t \in Semaphores, NEW c \in Cids
      PROVE  c \in suspend_cid_set'[t] <=> waiting'[c] = t
  <2>1. t # NoSemaphore
    BY TwoSemaphores
  <2>2. CASE c = slave_cid_
    BY <1>0, <1>1, <2>1, <2>2 DEF WaitersKnown
  <2>3. CASE c # slave_cid_
    BY <1>0, <1>1, <2>3 DEF WaitersKnown
  <2>4. QED
    BY <2>2, <2>3
<1>3. \A c \in Cids : waiting'[c] # NoSemaphore => state'[c] = "kSuspend"
  BY <1>0, <1>1 DEF WaitersKnown
<1>4. \A c \in cid_set : waiting'[c] = serving /\ state'[c] = "kSuspend"
  BY <1>0, <1>1 DEF WaitersKnown
<1>5. QED
  BY <1>0, <1>1, <1>2, <1>3, <1>4 DEF WaitersKnown, loop_vars, master_vars

\* A sender passes, with one place less and one message more, or is suspended.
LEMMA SendTurnKeepsIInv ==
  ASSUME TypeOK, IInv, NEW d \in Messages, ~ is_master_,
         waiting[slave_cid_] \in {NoSemaphore, "idle"}, SendTurn(d),
         UNCHANGED <<loop_vars, master_vars>>
  PROVE  IInv'
<1>0. /\ slave_cid_ \in Cids
      /\ waiting \in [Cids -> Semaphores \cup {NoSemaphore}]
      /\ data \in [Cids -> Messages \cup {NoMessage}]
      /\ SenderHasData
  BY Parts DEF ChannelTypeOK, IInv
<1>1. CASE WaitPasses("idle") /\ value' = Posted("fill", Taken("idle"))
           /\ buffer' = Append(buffer, d) /\ data' = [data EXCEPT ![slave_cid_] = NoMessage]
           /\ StopWaiting
  <2>1. value'["idle"] = value["idle"] - 1 /\ value'["fill"] = value["fill"] + 1
    BY <1>1, TwoSemaphores, ValueMoves
  <2>2. Len(buffer') = Len(buffer) + 1
    BY <1>1, SplitRoom, AppendProperties
  <2>3. /\ value'["fill"] = Len(buffer')
        /\ value'["idle"] + value'["fill"] = buffer_size
    BY <2>1, <2>2, SplitRoom
  <2>4. SenderHasData'
    BY <1>0, <1>1, TwoSemaphores DEF SenderHasData, StopWaiting
  <2>5. WaitersKnown'
    BY <1>1, TwoSemaphores, PassKeepsWaiters
  <2>6. QED
    BY <2>3, <2>4, <2>5 DEF IInv, RoomAccounted
<1>2. CASE WaitSuspends("idle") /\ data' = [data EXCEPT ![slave_cid_] = d]
           /\ KeepWaiting("idle")
  <2>1. RoomAccounted'
    BY <1>2 DEF IInv, RoomAccounted, WaitSuspends, KeepWaiting
  <2>2. SenderHasData'
    BY <1>0, <1>2 DEF SenderHasData, KeepWaiting
  <2>3. WaitersKnown'
    BY <1>2, TwoSemaphores, SuspendKeepsWaiters
  <2>4. QED
    BY <2>1, <2>2, <2>3 DEF IInv
<1>3. QED
  BY <1>1, <1>2 DEF SendTurn

\* A receiver passes, with one message less and one place more, or is suspended.
LEMMA ReceiveTurnKeepsIInv ==
  ASSUME TypeOK, IInv, ~ is_master_,
         waiting[slave_cid_] \in {NoSemaphore, "fill"}, ReceiveTurn,
         UNCHANGED <<loop_vars, master_vars, data>>
  PROVE  IInv'
<1>0. /\ slave_cid_ \in Cids
      /\ waiting \in [Cids -> Semaphores \cup {NoSemaphore}]
      /\ SenderHasData
  BY Parts DEF ChannelTypeOK, IInv
<1>1. CASE WaitPasses("fill") /\ value' = Posted("idle", Taken("fill"))
           /\ buffer' = Tail(buffer) /\ StopWaiting
  <2>1. /\ value'["fill"] = value["fill"] - 1 /\ value'["idle"] = value["idle"] + 1
        /\ value["fill"] > 0
    BY <1>1, TwoSemaphores, ValueMoves
  <2>2. Len(buffer') = Len(buffer) - 1
    BY <1>1, <2>1, SplitRoom, HeadTailProperties
  <2>3. /\ value'["fill"] = Len(buffer')
        /\ value'["idle"] + value'["fill"] = buffer_size
    BY <2>1, <2>2, SplitRoom
  <2>4. SenderHasData'
    BY <1>0, <1>1, TwoSemaphores DEF SenderHasData, StopWaiting
  <2>5. WaitersKnown'
    BY <1>1, TwoSemaphores, PassKeepsWaiters
  <2>6. QED
    BY <2>3, <2>4, <2>5 DEF IInv, RoomAccounted
<1>2. CASE WaitSuspends("fill") /\ KeepWaiting("fill")
  <2>1. RoomAccounted'
    BY <1>2 DEF IInv, RoomAccounted, WaitSuspends, KeepWaiting
  <2>2. SenderHasData'
    BY <1>0, <1>2 DEF SenderHasData, KeepWaiting
  <2>3. WaitersKnown'
    BY <1>2, TwoSemaphores, SuspendKeepsWaiters
  <2>4. QED
    BY <2>1, <2>2, <2>3 DEF IInv
<1>3. QED
  BY <1>1, <1>2 DEF ReceiveTurn

\* Yielding, creating a slave, ending, and what the master does outside the deliveries.
LEMMA OtherStepKeepsIInv ==
  ASSUME TypeOK, IInv,
         SlaveStep \/ MasterStep \/ RunScanStep \/ ResumeCall
           \/ (CoSemaphoreResumeEnd /\ UNCHANGED client_vars)
  PROVE  IInv'
<1>0. /\ UNCHANGED <<semaphore_vars, client_vars, serving, cid_set>>
      /\ is_master_ \/ InEntry
      /\ ScheduleTypeOK /\ WaitersKnown
      /\ serving # NoSemaphore => resuming
      /\ cid_set \subseteq Cids
  BY DEF WaitersKnown, SlaveStep, MasterStep, RunScanStep, ResumeCall, CoSemaphoreResumeBegin,
         CoSemaphoreResumeEnd, loop_vars, Create, RunBegin, EventResume, AtLarge, RunScan,
         TypeOK, SemaphoreTypeOK, ResumeBegin, ResumeEnd, IInv
<1>1. RoomAccounted' /\ SenderHasData'
  BY <1>0 DEF IInv, RoomAccounted, SenderHasData, semaphore_vars, client_vars
<1>2. \A c \in Cids : waiting[c] # NoSemaphore => c # slave_cid_
  BY <1>0, InvalidIsNoCid DEF is_master_, InEntry
<1>3. \A c \in Cids : waiting[c] # NoSemaphore /\ slave_cid_' # c => state'[c] = "kSuspend"
  BY <1>0, <1>2, SuspendedStays
     DEF WaitersKnown, SlaveStep, MasterStep, RunScanStep, ResumeCall, CoSemaphoreResumeBegin,
         CoSemaphoreResumeEnd
<1>4. serving # NoSemaphore => resuming' /\ slave_cid_' \in {slave_cid_, kInvalidCid}
  <2>1. CASE SlaveStep
    <3>1. UNCHANGED resuming
      BY <2>1 DEF SlaveStep, Yield, Spawn, Return, master_vars
    <3>2. slave_cid_' \in {slave_cid_, kInvalidCid}
      BY <2>1
         DEF SlaveStep, Yield, CoroutineYield, Spawn, CoroutineInit, Return, CoroutineRun
    <3>3. QED
      BY <1>0, <3>1, <3>2
  <2>2. CASE MasterStep \/ RunScanStep \/ ResumeCall
    BY <1>0, <2>2
       DEF MasterStep, Create, RunBegin, EventResume, AtLarge, RunScanStep,
           RunScan, ResumeCall, CoSemaphoreResumeBegin, ResumeBegin
  <2>3. CASE CoSemaphoreResumeEnd
    BY <2>3 DEF CoSemaphoreResumeEnd
  <2>4. QED
    BY <2>1, <2>2, <2>3
<1>5. \A c \in cid_set : waiting[c] = serving /\ state'[c] = "kSuspend"
  BY <1>0, <1>2, <1>3, <1>4, InvalidIsNoCid DEF WaitersKnown
<1>6. WaitersKnown'
  BY <1>0, <1>3, <1>4, <1>5 DEF WaitersKnown, semaphore_vars, client_vars
<1>7. QED
  BY <1>1, <1>6 DEF IInv

\* CoSemaphoreResume comes to a semaphore, and copies its set.
LEMMA VisitKeepsIInv ==
  ASSUME TypeOK, IInv, NEW s \in Semaphores, Visit(s), UNCHANGED client_vars
  PROVE  IInv'
<1>0. /\ serving = NoSemaphore /\ cid_set = {} /\ resuming /\ is_master_
      /\ suspend_cid_set \in [Semaphores -> SUBSET Cids]
      /\ UNCHANGED <<schedule_vars, semaphore_vars, client_vars>>
  BY DEF Visit, IInv, WaitersKnown, TypeOK, SemaphoreTypeOK
<1>1. RoomAccounted' /\ SenderHasData'
  BY <1>0 DEF IInv, RoomAccounted, SenderHasData, semaphore_vars, client_vars
<1>2. \A c \in suspend_cid_set[s] : c \in Cids /\ waiting[c] = s /\ state[c] = "kSuspend"
  BY <1>0, TwoSemaphores, InvalidIsNoCid DEF IInv, WaitersKnown, is_master_
<1>3. WaitersKnown'
  BY <1>0, <1>2, TwoSemaphores
     DEF IInv, WaitersKnown, Visit, schedule_vars, pool_vars, master_vars, semaphore_vars,
         client_vars
<1>4. QED
  BY <1>1, <1>3 DEF IInv

\* A waiter of the copy is resumed; it stays in the set until its wait is over.
LEMMA ResumeWaiterKeepsIInv ==
  ASSUME TypeOK, IInv, ResumeWaiter, UNCHANGED client_vars
  PROVE  IInv'
<1>0. /\ state \in [Cids -> State] /\ cid_set \subseteq Cids /\ is_master_
      /\ WaitersKnown
      /\ UNCHANGED <<master_vars, semaphore_vars, serving, client_vars>>
  BY DEF ResumeWaiter, IInv, TypeOK, ScheduleTypeOK, PoolOK, SemaphoreTypeOK
<1>1. PICK c \in cid_set : cid_set' = cid_set \ {c} /\ CoroutineResume(c)
  BY DEF ResumeWaiter
<1>2. slave_cid_' = c /\ state' = [state EXCEPT ![c] = "kRun"]
  BY <1>1 DEF CoroutineResume
<1>3. RoomAccounted' /\ SenderHasData'
  BY <1>0 DEF IInv, RoomAccounted, SenderHasData, semaphore_vars, client_vars
<1>4. \A d \in Cids : waiting[d] # NoSemaphore /\ d # c => state'[d] = "kSuspend"
  BY <1>0, <1>2, InvalidIsNoCid DEF WaitersKnown, is_master_
<1>5. \A d \in cid_set' : waiting[d] = serving /\ state'[d] = "kSuspend"
  BY <1>0, <1>1, <1>2 DEF WaitersKnown
<1>6. WaitersKnown'
  BY <1>0, <1>1, <1>2, <1>4, <1>5 DEF WaitersKnown, master_vars, semaphore_vars, client_vars
<1>7. QED
  BY <1>3, <1>6 DEF IInv

\* It is done with a semaphore.
LEMMA ServedKeepsIInv ==
  ASSUME TypeOK, IInv, Served, UNCHANGED client_vars
  PROVE  IInv'
BY DEF Served, IInv, RoomAccounted, SenderHasData, WaitersKnown, schedule_vars, pool_vars,
       master_vars, semaphore_vars, client_vars

\* The invariant is inductive.
LEMMA NextKeepsIInv ==
  ASSUME TypeOK, IInv, [Next]_vars
  PROVE  IInv'
<1>1. ASSUME NEW d \in Messages, Send(d) PROVE IInv'
  BY <1>1, SendTurnKeepsIInv DEF Send, InEntry
<1>2. CASE Receive
  BY <1>2, ReceiveTurnKeepsIInv DEF Receive, InEntry
<1>3. CASE WaitAgain
  <2>1. ~ is_master_ /\ slave_cid_ \in Cids /\ UNCHANGED <<loop_vars, master_vars>>
    BY <1>3, Parts DEF WaitAgain
  <2>2. CASE waiting[slave_cid_] = "idle" /\ SendTurn(data[slave_cid_])
    <3>1. data[slave_cid_] \in Messages
      BY <2>1, <2>2 DEF IInv, SenderHasData
    <3>2. QED
      BY <2>1, <2>2, <3>1, SendTurnKeepsIInv
  <2>3. CASE waiting[slave_cid_] = "fill" /\ ReceiveTurn /\ UNCHANGED data
    BY <2>1, <2>3, ReceiveTurnKeepsIInv
  <2>4. QED
    BY <1>3, <2>2, <2>3 DEF WaitAgain
<1>4. CASE UNCHANGED vars
  BY <1>4
     DEF vars, schedule_vars, pool_vars, master_vars, semaphore_vars, loop_vars, IInv,
         RoomAccounted, SenderHasData, WaitersKnown
<1>5. QED
  BY <1>1, <1>2, <1>3, <1>4, OtherStepKeepsIInv, VisitKeepsIInv, ResumeWaiterKeepsIInv,
     ServedKeepsIInv DEF Next, Slave, ResumeStep, CoSemaphoreResume

\* It holds at the start: the room is all idle.
LEMMA InitIInv ==
  ASSUME Init
  PROVE  IInv
<1>1. value["fill"] = 0 /\ value["idle"] = buffer_size /\ Len(buffer) = 0
  BY BufferAssumption, EmptySeq DEF Init, SemaphoreInit
<1>2. RoomAccounted
  BY <1>1, TwoSemaphores DEF RoomAccounted
<1>3. SenderHasData /\ WaitersKnown
  BY TwoSemaphores DEF Init, SemaphoreInit, SenderHasData, WaitersKnown
<1>4. QED
  BY <1>2, <1>3 DEF IInv

\* So types and invariant hold always: the one is needed for the other.
LEMMA AlwaysIInv == Spec => [](TypeOK /\ IInv)
<1>1. Init => TypeOK /\ IInv
  BY InitTyped, InitIInv
<1>2. TypeOK /\ IInv /\ [Next]_vars => TypeOK' /\ IInv'
  BY NextTyped, NextKeepsIInv
<1>3. QED
  BY <1>1, <1>2, PTL DEF Spec

-----------------------------------------------------------------------------
(* The safety properties of a channel, and the queue it implements.        *)

\* Every variable of the semaphores and of the channel has its type: no value is ever
\* negative, and no message is received from an empty buffer.
THEOREM Typed == Spec => []TypeOK
BY AlwaysIInv, PTL

\* The two semaphores split the room of the channel between them at every step.
THEOREM RoomKept == Spec => []RoomAccounted
BY AlwaysIInv, PTL DEF IInv

\* CoSemaphoreResume resumes only slaves that are suspended in CoSemaphoreWait, and each
\* slave that is inside CoSemaphoreWait is in the set of its semaphore.
THEOREM ResumesOnlyWaiters == Spec => []WaitersKnown
BY AlwaysIInv, PTL DEF IInv

\* A turn of a sender that passes puts its message where there is room.
LEMMA SendPuts ==
  ASSUME TypeOK, IInv, NEW d \in Messages, SendTurn(d)
  PROVE  [Queue!Put \/ Queue!Take]_buffer
<1>1. CASE WaitPasses("idle") /\ buffer' = Append(buffer, d)
  <2>1. Len(buffer) < buffer_size
    BY <1>1, SplitRoom DEF WaitPasses
  <2>2. QED
    BY <1>1, <2>1 DEF Queue!Put
<1>2. CASE UNCHANGED buffer
  BY <1>2
<1>3. QED
  BY <1>1, <1>2 DEF SendTurn, KeepWaiting

\* One of a receiver that passes takes a message that is there.
LEMMA ReceiveTakes ==
  ASSUME TypeOK, IInv, ReceiveTurn
  PROVE  [Queue!Put \/ Queue!Take]_buffer
<1>1. CASE WaitPasses("fill") /\ buffer' = Tail(buffer)
  <2>1. buffer # <<>>
    BY <1>1, SplitRoom DEF WaitPasses
  <2>2. QED
    BY <1>1, <2>1 DEF Queue!Take
<1>2. CASE UNCHANGED buffer
  BY <1>2
<1>3. QED
  BY <1>1, <1>2 DEF ReceiveTurn, KeepWaiting

\* A channel is a queue of at most buffer_size messages, for every number of senders and
\* receivers and however Run(), an event or CoSemaphoreResume resumes them.
THEOREM ImplementsQueue == Spec => IsQueue
<1>1. Init => Queue!Init
  BY DEF Init, Queue!Init
<1>2. TypeOK /\ IInv /\ [Next]_vars => [Queue!Put \/ Queue!Take]_buffer
  <2> SUFFICES ASSUME TypeOK, IInv, [Next]_vars
               PROVE  [Queue!Put \/ Queue!Take]_buffer
    OBVIOUS
  <2>1. ASSUME NEW d \in Messages, Send(d) PROVE [Queue!Put \/ Queue!Take]_buffer
    BY <2>1, SendPuts DEF Send
  <2>2. CASE Receive
    BY <2>2, ReceiveTakes DEF Receive
  <2>3. CASE WaitAgain
    <3>1. waiting[slave_cid_] = "idle" => data[slave_cid_] \in Messages
      BY <2>3, Parts DEF WaitAgain, IInv, SenderHasData
    <3>2. QED
      BY <2>3, <3>1, SendPuts, ReceiveTakes DEF WaitAgain
  <2>4. CASE UNCHANGED buffer
    BY <2>4
  <2>5. CASE SlaveStep \/ MasterStep \/ RunScanStep \/ ResumeCall \/ ResumeStep
    BY <2>4, <2>5
       DEF SlaveStep, MasterStep, RunScanStep, ResumeCall, ResumeStep, client_vars
  <2>6. QED
    BY <2>1, <2>2, <2>3, <2>4, <2>5 DEF Next, Slave, vars
<1>3. QED
  BY <1>1, <1>2, AlwaysIInv, PTL DEF Spec, IsQueue, Queue!Spec
=============================================================================
