---------------------------- MODULE Flight_proofs ----------------------------
(***************************************************************************)
(* The safety of CoCallOnce and CoSingleFlight for every number of slaves, *)
(* of objects and of calls: types, that a call has one caller, and that    *)
(* whoever waits for a call waits for one that is made or over.            *)
(***************************************************************************)
EXTENDS Flight, Schedule_proofs

-----------------------------------------------------------------------------
(* The inductive invariant.                                                *)

\* A call that is being made has a caller, one that is not has none, and no call has two:
\* OneCaller said without counting.
CallerUnique ==
  \A o \in Objects :
    /\ call_state[o] = "kInCall" <=> \E c \in Cids : o \in calling[c]
    /\ \A c, d \in Cids : o \in calling[c] /\ o \in calling[d] => c = d

\* While the waiters of a call are resumed it stays over, whatever they call meanwhile, and
\* whoever is left in the copy waits for it and has not run.
CopyWaits ==
  /\ serving # NoObject => resuming /\ call_state[serving] = "kFinish"
  /\ cid_set # {} => serving # NoObject
  /\ \A c \in cid_set : waiting[c] = serving /\ c # slave_cid_

IInv ==
  /\ CallerUnique
  /\ WaiterHasCall
  /\ CopyWaits

-----------------------------------------------------------------------------
(* Types.                                                                  *)

\* What TypeOK says of the variables that are not the scheduler's.
FlightTypeOK ==
  /\ call_state \in [Objects -> CallState]
  /\ suspend_cid_set \in [Objects -> SUBSET Cids]
  /\ single_flights_ \subseteq SingleFlights
  /\ waiting \in [Cids -> Objects \cup {NoObject}]
  /\ calling \in [Cids -> SUBSET Objects]
  /\ todo \subseteq Objects
  /\ serving \in Objects \cup {NoObject}
  /\ cid_set \subseteq Cids

\* No object is what stands for none.
LEMMA NoObjectIsNone == NoObject \notin Objects
BY ObjectAssumption DEF NoObject

\* The types and what they are read from.
LEMMA Parts ==
  ASSUME TypeOK
  PROVE  /\ ScheduleTypeOK /\ PoolOK /\ FlightTypeOK
         /\ state \in [Cids -> State]
         /\ ~ is_master_ => slave_cid_ \in Cids /\ state[slave_cid_] = "kRun"
BY DEF TypeOK, ScheduleTypeOK, PoolOK, OneRunner, FlightTypeOK, is_master_

\* A slave that is in a wait loop waits for an object.
LEMMA WaitsFor ==
  ASSUME TypeOK, ~ is_master_, ~ InEntry
  PROVE  slave_cid_ \in Cids /\ waiting[slave_cid_] \in Objects
BY Parts DEF InEntry, FlightTypeOK

\* A turn of a wait loop keeps the types.
LEMMA WaitTurnTyped ==
  ASSUME TypeOK, NEW o \in Objects, ~ is_master_, WaitTurn(o)
  PROVE  /\ PoolOK'
         /\ suspend_cid_set' \in [Objects -> SUBSET Cids]
         /\ waiting' \in [Cids -> Objects \cup {NoObject}]
<1>0. slave_cid_ \in Cids /\ PoolOK /\ FlightTypeOK
  BY Parts
<1>1. PoolOK'
  <2>1. CASE UNCHANGED pool_vars
    BY <1>0, <2>1 DEF pool_vars, PoolOK, OneRunner, CountsNotIdle
  <2>2. CASE CoroutineYield
    BY <1>0, <2>2, YieldKeepsPool
  <2>3. QED
    BY <2>1, <2>2 DEF WaitTurn
<1>2. suspend_cid_set' \in [Objects -> SUBSET Cids]
  BY <1>0 DEF WaitTurn, FlightTypeOK
<1>3. waiting' \in [Cids -> Objects \cup {NoObject}]
  BY <1>0 DEF WaitTurn, FlightTypeOK
<1>4. QED
  BY <1>1, <1>2, <1>3

\* So does Do, up to the function or the wait.
LEMMA DoTurnTyped ==
  ASSUME TypeOK, NEW o \in Objects, ~ is_master_, DoTurn(o)
  PROVE  /\ PoolOK'
         /\ suspend_cid_set' \in [Objects -> SUBSET Cids]
         /\ waiting' \in [Cids -> Objects \cup {NoObject}]
         /\ call_state' \in [Objects -> CallState]
         /\ calling' \in [Cids -> SUBSET Objects]
<1>0. slave_cid_ \in Cids /\ PoolOK /\ FlightTypeOK
  BY Parts
<1>1. CASE Enter(o)
  <2>1. PoolOK'
    BY <1>0, <1>1 DEF Enter, pool_vars, PoolOK, OneRunner, CountsNotIdle
  <2>2. call_state' \in [Objects -> CallState]
    BY <1>0, <1>1 DEF Enter, FlightTypeOK, CallState
  <2>3. calling' \in [Cids -> SUBSET Objects]
    BY <1>0, <1>1 DEF Enter, FlightTypeOK
  <2>4. QED
    BY <1>0, <1>1, <2>1, <2>2, <2>3 DEF Enter, FlightTypeOK
<1>2. CASE WaitTurn(o) /\ UNCHANGED <<call_state, calling>>
  BY <1>0, <1>2, WaitTurnTyped DEF FlightTypeOK
<1>3. QED
  BY <1>1, <1>2 DEF DoTurn

\* A slave asks for a call.
LEMMA DoTyped ==
  ASSUME TypeOK, NEW o \in Objects,
         CoCallOnceDo(o) \/ (o \in SingleFlights /\ CoSingleFlightDo(o))
  PROVE  ScheduleTypeOK' /\ FlightTypeOK'
<1>0. ScheduleTypeOK /\ FlightTypeOK
  BY Parts
<1>1. ~ is_master_ /\ Call /\ DoTurn(o) /\ UNCHANGED <<master_vars, serving, cid_set>>
  BY DEF CoCallOnceDo, CoSingleFlightDo, Asks, InEntry, loop_vars
<1>2. /\ PoolOK'
      /\ suspend_cid_set' \in [Objects -> SUBSET Cids]
      /\ waiting' \in [Cids -> Objects \cup {NoObject}]
      /\ call_state' \in [Objects -> CallState]
      /\ calling' \in [Cids -> SUBSET Objects]
  BY <1>1, DoTurnTyped
<1>3. calls' \in [Cids -> 0 .. MaxCalls]
  BY <1>0, <1>1, CallTyped
<1>4. ScheduleTypeOK'
  BY <1>0, <1>1, <1>2, <1>3 DEF ScheduleTypeOK, master_vars
<1>5. single_flights_' \subseteq SingleFlights
  BY <1>0 DEF CoCallOnceDo, CoSingleFlightDo, FlightTypeOK
<1>6. todo' \subseteq Objects
  BY <1>0, <1>5 DEF CoCallOnceDo, CoSingleFlightDo, FlightTypeOK, loop_vars, Objects
<1>7. QED
  BY <1>0, <1>1, <1>2, <1>4, <1>5, <1>6 DEF FlightTypeOK

\* The function of a call returns.
LEMMA LeaveTyped ==
  ASSUME TypeOK, NEW o \in Objects, Leave(o)
  PROVE  ScheduleTypeOK' /\ FlightTypeOK'
<1>0. ScheduleTypeOK /\ FlightTypeOK /\ slave_cid_ \in Cids
  BY Parts DEF Leave, InEntry
<1>1. ScheduleTypeOK'
  BY <1>0, UnchangedTyped DEF Leave
<1>2. call_state' \in [Objects -> CallState]
  BY <1>0 DEF Leave, FlightTypeOK, CallState
<1>3. calling' \in [Cids -> SUBSET Objects]
  BY <1>0 DEF Leave, FlightTypeOK
<1>4. QED
  BY <1>0, <1>1, <1>2, <1>3 DEF Leave, FlightTypeOK, loop_vars

\* The Resume functions keep the types.
LEMMA ResumeTyped ==
  ASSUME TypeOK, CoResumeBegin \/ CoResume
  PROVE  ScheduleTypeOK' /\ FlightTypeOK'
<1>0. ScheduleTypeOK /\ PoolOK /\ FlightTypeOK
  BY Parts
<1>1. CASE CoResumeBegin \/ CoResumeEnd
  <2>1. ScheduleTypeOK'
    BY <1>0, <1>1, ResumeLoopTyped DEF CoResumeBegin, CoResumeEnd
  <2>2. todo' \subseteq Objects
    BY <1>0, <1>1 DEF CoResumeBegin, CoResumeEnd, FlightTypeOK, loop_vars, Objects
  <2>3. QED
    BY <1>0, <1>1, <2>1, <2>2
       DEF CoResumeBegin, CoResumeEnd, FlightTypeOK, object_vars, client_vars, loop_vars
<1>2. ASSUME NEW o \in Objects, Visit(o)
      PROVE  ScheduleTypeOK' /\ FlightTypeOK'
  <2>1. ScheduleTypeOK'
    BY <1>0, <1>2, UnchangedTyped DEF Visit
  <2>2. call_state' \in [Objects -> CallState]
    BY <1>0, <1>2 DEF Visit, FlightTypeOK, CallState
  <2>3. serving' \in Objects \cup {NoObject} /\ cid_set' \subseteq Cids
    BY <1>0, <1>2 DEF Visit, FlightTypeOK
  <2>4. QED
    BY <1>0, <1>2, <2>1, <2>2, <2>3 DEF Visit, FlightTypeOK, client_vars
<1>3. CASE ResumeWaiter
  <2>1. PoolOK'
    BY <1>0, <1>3, ResumeKeepsPool DEF ResumeWaiter, FlightTypeOK
  <2>2. ScheduleTypeOK'
    BY <1>0, <1>3, <2>1 DEF ResumeWaiter, ScheduleTypeOK, master_vars
  <2>3. QED
    BY <1>0, <1>3, <2>2 DEF ResumeWaiter, FlightTypeOK, object_vars, client_vars
<1>4. CASE Served
  <2>1. ScheduleTypeOK'
    BY <1>0, <1>4, UnchangedTyped DEF Served
  <2>2. call_state' \in [Objects -> CallState]
    BY <1>0, <1>4 DEF Served, FlightTypeOK, CallState
  <2>3. QED
    BY <1>0, <1>4, <2>1, <2>2 DEF Served, FlightTypeOK, client_vars
<1>5. QED
  BY <1>1, <1>2, <1>3, <1>4 DEF CoResume

\* Every step keeps the types.
LEMMA NextTyped ==
  ASSUME TypeOK, [Next]_vars
  PROVE  TypeOK'
<1>0. ScheduleTypeOK /\ PoolOK /\ FlightTypeOK
  BY Parts
<1> SUFFICES ScheduleTypeOK' /\ FlightTypeOK'
  BY DEF TypeOK, FlightTypeOK
<1>1. CASE \/ \E o \in CallOnces : CoCallOnceDo(o)
           \/ \E o \in SingleFlights : CoSingleFlightDo(o)
  BY <1>1, DoTyped DEF Objects
<1>2. CASE WaitAgain
  <2>1. /\ PoolOK'
        /\ suspend_cid_set' \in [Objects -> SUBSET Cids]
        /\ waiting' \in [Cids -> Objects \cup {NoObject}]
    BY <1>2, WaitsFor, WaitTurnTyped DEF WaitAgain
  <2>2. QED
    BY <1>0, <1>2, <2>1 DEF WaitAgain, master_vars, loop_vars, ScheduleTypeOK, FlightTypeOK
<1>3. CASE SlaveStep \/ MasterStep \/ RunScanStep
  <2>1. ScheduleTypeOK'
    BY <1>0, <1>3, SlaveStepTyped, MasterStepTyped, RunScanTyped
       DEF SlaveStep, MasterStep, RunScanStep
  <2>2. QED
    BY <1>0, <1>3, <2>1
       DEF SlaveStep, MasterStep, RunScanStep, FlightTypeOK, object_vars, client_vars, loop_vars
<1>4. CASE UNCHANGED vars
  <2>1. ScheduleTypeOK'
    BY <1>0, <1>4, UnchangedTyped DEF vars
  <2>2. QED
    BY <1>0, <1>4, <2>1 DEF vars, FlightTypeOK, object_vars, client_vars, loop_vars
<1>5. QED
  BY <1>1, <1>2, <1>3, <1>4, LeaveTyped, ResumeTyped DEF Next, Slave

\* The types hold at the start.
LEMMA InitTyped ==
  ASSUME Init
  PROVE  TypeOK
BY InitPool DEF Init, TypeOK, CallState

-----------------------------------------------------------------------------
(* Every step keeps the inductive invariant.                               *)

\* Steps that touch neither the calls nor who waits: yielding, creating a slave, ending, and
\* what the master does outside the deliveries.
LEMMA OtherStepKeepsIInv ==
  ASSUME TypeOK, IInv,
         SlaveStep \/ MasterStep \/ RunScanStep \/ CoResumeBegin \/ CoResumeEnd
  PROVE  IInv'
<1>0. /\ UNCHANGED <<object_vars, client_vars, serving, cid_set>>
      /\ is_master_ \/ InEntry
      /\ ScheduleTypeOK /\ FlightTypeOK
      /\ serving # NoObject => resuming
  BY Parts
     DEF SlaveStep, MasterStep, RunScanStep, CoResumeBegin, CoResumeEnd, loop_vars, Create,
         RunBegin, EventResume, AtLarge, RunScan, ResumeBegin, ResumeEnd, IInv, CopyWaits
<1>1. CallerUnique'
  BY <1>0 DEF IInv, CallerUnique, object_vars, client_vars
<1>2. \A c \in Cids : waiting[c] # NoObject => c # slave_cid_
  BY <1>0, InvalidIsNoCid DEF is_master_, InEntry
<1>3. \A o \in Objects, c \in Cids :
        waiting[c] = o /\ slave_cid_' # c => state'[c] = "kSuspend"
  BY <1>0, <1>2, NoObjectIsNone, SuspendedStays
     DEF IInv, WaiterHasCall, SlaveStep, MasterStep, RunScanStep, CoResumeBegin, CoResumeEnd
<1>4. serving # NoObject => resuming' /\ slave_cid_' \in {slave_cid_, kInvalidCid}
  <2>1. CASE SlaveStep
    <3>1. UNCHANGED resuming
      BY <2>1 DEF SlaveStep, Yield, Spawn, Return, master_vars
    <3>2. slave_cid_' \in {slave_cid_, kInvalidCid}
      BY <2>1
         DEF SlaveStep, Yield, CoroutineYield, Spawn, CoroutineInit, Return, CoroutineRun
    <3>3. QED
      BY <1>0, <3>1, <3>2
  <2>2. CASE MasterStep \/ RunScanStep \/ CoResumeBegin
    BY <1>0, <2>2
       DEF MasterStep, Create, RunBegin, EventResume, AtLarge, RunScanStep, RunScan,
           CoResumeBegin, ResumeBegin
  <2>3. CASE CoResumeEnd
    BY <2>3 DEF CoResumeEnd
  <2>4. QED
    BY <2>1, <2>2, <2>3
<1>5. serving # NoObject => suspend_cid_set[serving] \subseteq cid_set \cup {slave_cid_'}
  <2>1. serving # NoObject =>
          serving \in Objects /\ suspend_cid_set[serving] \subseteq cid_set \cup {slave_cid_}
    BY <1>0 DEF IInv, WaiterHasCall, FlightTypeOK
  <2>2. serving # NoObject =>
          \A c \in suspend_cid_set[serving] : c \in Cids /\ waiting[c] = serving
    BY <1>0, <2>1 DEF IInv, WaiterHasCall, FlightTypeOK
  <2>3. QED
    BY <1>2, <2>1, <2>2
<1>6. WaiterHasCall'
  BY <1>0, <1>3, <1>5 DEF IInv, WaiterHasCall, object_vars, client_vars
<1>7. CopyWaits'
  BY <1>0, <1>2, <1>4, InvalidIsNoCid
     DEF IInv, CopyWaits, FlightTypeOK, object_vars, client_vars
<1>8. QED
  BY <1>1, <1>6, <1>7 DEF IInv

\* The first one to ask enters the function: nobody else is in it.
LEMMA EnterKeepsIInv ==
  ASSUME TypeOK, IInv, NEW o \in Objects, ~ is_master_, Enter(o),
         UNCHANGED <<master_vars, serving, cid_set>>
  PROVE  IInv'
<1>0. slave_cid_ \in Cids /\ FlightTypeOK /\ CallerUnique /\ WaiterHasCall /\ CopyWaits
  BY Parts DEF IInv
<1>1. /\ call_state[o] = "kInit"
      /\ call_state' = [call_state EXCEPT ![o] = "kInCall"]
      /\ calling' = [calling EXCEPT ![slave_cid_] = @ \cup {o}]
      /\ UNCHANGED <<state, slave_cid_, suspend_cid_set, waiting>>
  BY DEF Enter, pool_vars
<1>2. ASSUME NEW p \in Objects, NEW c \in Cids
      PROVE  p \in calling'[c] <=> p \in calling[c] \/ (p = o /\ c = slave_cid_)
  BY <1>0, <1>1 DEF FlightTypeOK
<1>3. \A c \in Cids : o \notin calling[c]
  BY <1>0, <1>1 DEF CallerUnique
<1>4. CallerUnique'
  BY <1>0, <1>1, <1>2, <1>3 DEF CallerUnique, FlightTypeOK
<1>5. \A p \in Objects : call_state'[p] = "kInit" => call_state[p] = "kInit"
  BY <1>0, <1>1 DEF FlightTypeOK
<1>6. WaiterHasCall'
  BY <1>0, <1>1, <1>5 DEF WaiterHasCall, FlightTypeOK
<1>7. CopyWaits'
  BY <1>0, <1>1 DEF CopyWaits, FlightTypeOK, master_vars
<1>8. QED
  BY <1>4, <1>6, <1>7 DEF IInv

\* A turn of a wait loop: the slave leaves when the call is over, or is suspended.
LEMMA WaitTurnKeepsIInv ==
  ASSUME TypeOK, IInv, NEW o \in Objects, ~ is_master_, waiting[slave_cid_] \in {NoObject, o},
         call_state[o] # "kInit", WaitTurn(o),
         UNCHANGED <<call_state, calling, master_vars, serving, cid_set>>
  PROVE  IInv'
<1>0. /\ slave_cid_ \in Cids /\ state \in [Cids -> State]
      /\ FlightTypeOK /\ CallerUnique /\ WaiterHasCall /\ CopyWaits
      /\ o # NoObject
  BY Parts, NoObjectIsNone DEF IInv
<1>1. CallerUnique'
  BY <1>0 DEF CallerUnique
<1>2. CASE /\ suspend_cid_set' = [suspend_cid_set EXCEPT ![o] = @ \ {slave_cid_}]
           /\ waiting' = [waiting EXCEPT ![slave_cid_] = NoObject]
           /\ UNCHANGED pool_vars
  <2>1. ASSUME NEW p \in Objects, NEW c \in Cids
        PROVE  waiting'[c] = p <=> c \in suspend_cid_set'[p]
    <3>1. CASE c = slave_cid_
      BY <1>0, <1>2, <3>1, NoObjectIsNone DEF WaiterHasCall, FlightTypeOK
    <3>2. CASE c # slave_cid_
      BY <1>0, <1>2, <3>2 DEF WaiterHasCall, FlightTypeOK
    <3>3. QED
      BY <3>1, <3>2
  <2>2. \A p \in Objects : suspend_cid_set'[p] \subseteq suspend_cid_set[p]
    BY <1>0, <1>2 DEF FlightTypeOK
  <2>3. \A c \in Cids : waiting'[c] # NoObject => waiting'[c] = waiting[c]
    BY <1>0, <1>2 DEF FlightTypeOK
  <2>4. serving' # NoObject => suspend_cid_set'[serving'] \subseteq cid_set' \cup {slave_cid_'}
    BY <1>0, <1>2, <2>2 DEF WaiterHasCall, FlightTypeOK, pool_vars
  <2>5. WaiterHasCall'
    <3>1. \A c \in Cids : waiting'[c] # NoObject => call_state'[waiting'[c]] # "kInit"
      BY <1>0, <2>3 DEF WaiterHasCall
    <3>2. \A p \in Objects, c \in Cids :
            waiting'[c] = p /\ slave_cid_' # c => state'[c] = "kSuspend"
      BY <1>0, <1>2, <2>3, NoObjectIsNone DEF WaiterHasCall, pool_vars
    <3>3. QED
      BY <2>1, <2>4, <3>1, <3>2 DEF WaiterHasCall
  <2>6. CopyWaits'
    BY <1>0, <1>2 DEF CopyWaits, FlightTypeOK, master_vars, pool_vars
  <2>7. QED
    BY <1>1, <2>5, <2>6 DEF IInv
<1>3. CASE /\ call_state[o] # "kFinish"
           /\ suspend_cid_set' = [suspend_cid_set EXCEPT ![o] = @ \cup {slave_cid_}]
           /\ waiting' = [waiting EXCEPT ![slave_cid_] = o]
           /\ CoroutineYield
  <2>0. state' = [state EXCEPT ![slave_cid_] = "kSuspend"] /\ slave_cid_' = kInvalidCid
    BY <1>3 DEF CoroutineYield
  <2>1. ASSUME NEW p \in Objects, NEW c \in Cids
        PROVE  waiting'[c] = p <=> c \in suspend_cid_set'[p]
    <3>1. CASE c = slave_cid_
      BY <1>0, <1>3, <3>1, NoObjectIsNone DEF WaiterHasCall, FlightTypeOK
    <3>2. CASE c # slave_cid_
      BY <1>0, <1>3, <3>2 DEF WaiterHasCall, FlightTypeOK
    <3>3. QED
      BY <3>1, <3>2
  <2>2. \A c \in Cids : waiting'[c] # NoObject => call_state'[waiting'[c]] # "kInit"
    BY <1>0, <1>3 DEF WaiterHasCall, FlightTypeOK
  <2>3. \A p \in Objects, c \in Cids :
          waiting'[c] = p /\ slave_cid_' # c => state'[c] = "kSuspend"
    BY <1>0, <1>3, <2>0 DEF WaiterHasCall, FlightTypeOK
  <2>4. serving # NoObject => suspend_cid_set'[serving] \subseteq cid_set
    <3>1. serving # NoObject => serving # o /\ serving \in Objects
      BY <1>0, <1>3 DEF CopyWaits, FlightTypeOK
    <3>2. serving # NoObject =>
            /\ suspend_cid_set'[serving] = suspend_cid_set[serving]
            /\ suspend_cid_set[serving] \subseteq cid_set \cup {slave_cid_}
      BY <1>0, <1>3, <3>1 DEF WaiterHasCall, FlightTypeOK
    <3>3. serving # NoObject => slave_cid_ \notin suspend_cid_set[serving]
      BY <1>0, <3>1 DEF WaiterHasCall
    <3>4. QED
      BY <3>2, <3>3
  <2>5. WaiterHasCall'
    BY <2>1, <2>2, <2>3, <2>4 DEF WaiterHasCall
  <2>6. CopyWaits'
    BY <1>0, <1>3, <2>0, InvalidIsNoCid DEF CopyWaits, FlightTypeOK, master_vars
  <2>7. QED
    BY <1>1, <2>5, <2>6 DEF IInv
<1>4. QED
  BY <1>2, <1>3 DEF WaitTurn

\* The one caller of a call leaves it, and nobody is in it any more.
LEMMA LeaveKeepsIInv ==
  ASSUME TypeOK, IInv, NEW o \in Objects, Leave(o)
  PROVE  IInv'
<1>0. slave_cid_ \in Cids /\ FlightTypeOK /\ CallerUnique /\ WaiterHasCall /\ CopyWaits
  BY Parts DEF Leave, InEntry, IInv
<1>1. /\ o \in calling[slave_cid_]
      /\ call_state' = [call_state EXCEPT ![o] = "kFinish"]
      /\ calling' = [calling EXCEPT ![slave_cid_] = @ \ {o}]
      /\ UNCHANGED <<schedule_vars, suspend_cid_set, waiting, serving, cid_set>>
  BY DEF Leave, loop_vars
<1>2. ASSUME NEW p \in Objects, NEW c \in Cids
      PROVE  p \in calling'[c] <=> p \in calling[c] /\ p # o
  <2>1. o \in calling[c] => c = slave_cid_
    BY <1>0, <1>1 DEF CallerUnique
  <2>2. QED
    BY <1>0, <1>1, <2>1 DEF FlightTypeOK
<1>3. CallerUnique'
  BY <1>0, <1>1, <1>2 DEF CallerUnique, FlightTypeOK
<1>4. \A p \in Objects :
        /\ call_state'[p] = "kInit" => call_state[p] = "kInit"
        /\ call_state[p] = "kFinish" => call_state'[p] = "kFinish"
  BY <1>0, <1>1 DEF FlightTypeOK
<1>5. WaiterHasCall'
  BY <1>0, <1>1, <1>4 DEF WaiterHasCall, FlightTypeOK, schedule_vars, pool_vars
<1>6. CopyWaits'
  BY <1>0, <1>1, <1>4 DEF CopyWaits, FlightTypeOK, schedule_vars, pool_vars, master_vars
<1>7. QED
  BY <1>3, <1>5, <1>6 DEF IInv

\* A single flight that nobody waits for is made ready; of another call the waiters are
\* copied.
LEMMA VisitKeepsIInv ==
  ASSUME TypeOK, IInv, NEW o \in Objects, Visit(o)
  PROVE  IInv'
<1>0. /\ FlightTypeOK /\ CallerUnique /\ WaiterHasCall /\ CopyWaits
      /\ serving = NoObject /\ cid_set = {} /\ resuming /\ slave_cid_ = kInvalidCid
      /\ o # NoObject
      /\ UNCHANGED <<schedule_vars, suspend_cid_set, client_vars>>
  BY Parts, NoObjectIsNone DEF IInv, Visit, CopyWaits, is_master_
<1>1. \A c \in suspend_cid_set[o] : c \in Cids /\ waiting[c] = o /\ c # slave_cid_
  BY <1>0, InvalidIsNoCid DEF WaiterHasCall, FlightTypeOK
<1>2. CASE call_state[o] = "kFinish" /\ suspend_cid_set[o] # {}
  <2>1. serving' = o /\ cid_set' = suspend_cid_set[o] /\ UNCHANGED call_state
    BY <1>2 DEF Visit
  <2>2. CallerUnique'
    BY <1>0, <2>1 DEF CallerUnique, client_vars
  <2>3. WaiterHasCall'
    BY <1>0, <2>1 DEF WaiterHasCall, client_vars, schedule_vars, pool_vars
  <2>4. CopyWaits'
    BY <1>0, <1>1, <1>2, <2>1 DEF CopyWaits, client_vars, schedule_vars, pool_vars, master_vars
  <2>5. QED
    BY <2>2, <2>3, <2>4 DEF IInv
<1>3. CASE call_state[o] = "kFinish" /\ suspend_cid_set[o] = {} /\ o \in SingleFlights
  <2>1. call_state' = [call_state EXCEPT ![o] = "kInit"] /\ UNCHANGED <<serving, cid_set>>
    BY <1>3 DEF Visit
  <2>2. CallerUnique'
    BY <1>0, <1>3, <2>1 DEF CallerUnique, FlightTypeOK, client_vars
  <2>3. \A c \in Cids : waiting[c] # o
    BY <1>0, <1>3 DEF WaiterHasCall
  <2>4. \A c \in Cids : waiting[c] # NoObject => call_state'[waiting[c]] # "kInit"
    BY <1>0, <2>1, <2>3 DEF WaiterHasCall, FlightTypeOK
  <2>5. WaiterHasCall'
    BY <1>0, <2>1, <2>4 DEF WaiterHasCall, client_vars, schedule_vars, pool_vars
  <2>6. CopyWaits'
    BY <1>0, <2>1 DEF CopyWaits
  <2>7. QED
    BY <2>2, <2>5, <2>6 DEF IInv
<1>4. CASE UNCHANGED <<call_state, serving, cid_set>>
  BY <1>0, <1>4
     DEF IInv, CallerUnique, WaiterHasCall, CopyWaits, client_vars, schedule_vars, pool_vars,
         master_vars
<1>5. QED
  BY <1>2, <1>3, <1>4 DEF Visit

\* A waiter of the copy is resumed; it takes itself out of the set when it goes on.
LEMMA ResumeWaiterKeepsIInv ==
  ASSUME TypeOK, IInv, ResumeWaiter
  PROVE  IInv'
<1>0. /\ state \in [Cids -> State] /\ FlightTypeOK /\ slave_cid_ = kInvalidCid
      /\ CallerUnique /\ WaiterHasCall /\ CopyWaits
      /\ UNCHANGED <<master_vars, object_vars, client_vars, serving>>
  BY Parts DEF ResumeWaiter, IInv, is_master_
<1>1. PICK c \in cid_set : cid_set' = cid_set \ {c} /\ CoroutineResume(c)
  BY DEF ResumeWaiter
<1>2. c \in Cids /\ slave_cid_' = c /\ state' = [state EXCEPT ![c] = "kRun"]
  BY <1>0, <1>1 DEF CoroutineResume, FlightTypeOK
<1>3. CallerUnique'
  BY <1>0 DEF CallerUnique, object_vars, client_vars
<1>4. \A o \in Objects, d \in Cids : waiting[d] = o /\ d # c => state'[d] = "kSuspend"
  BY <1>0, <1>2, InvalidIsNoCid DEF WaiterHasCall
<1>5. serving # NoObject => suspend_cid_set[serving] \subseteq cid_set' \cup {c}
  BY <1>0, <1>1, InvalidIsNoCid DEF WaiterHasCall, FlightTypeOK
<1>6. WaiterHasCall'
  BY <1>0, <1>2, <1>4, <1>5 DEF WaiterHasCall, object_vars, client_vars
<1>7. CopyWaits'
  BY <1>0, <1>1, <1>2 DEF CopyWaits, object_vars, client_vars, master_vars
<1>8. QED
  BY <1>3, <1>6, <1>7 DEF IInv

\* The copy is used up, so nobody waits any more when a single flight is made ready.
LEMMA ServedKeepsIInv ==
  ASSUME TypeOK, IInv, Served
  PROVE  IInv'
<1>0. /\ FlightTypeOK /\ CallerUnique /\ WaiterHasCall /\ CopyWaits
      /\ serving \in Objects /\ serving # NoObject /\ serving' = NoObject /\ cid_set = {}
      /\ slave_cid_ = kInvalidCid
      /\ UNCHANGED <<schedule_vars, suspend_cid_set, client_vars, cid_set>>
  BY Parts DEF Served, IInv, is_master_, FlightTypeOK
<1>1. call_state' = [call_state EXCEPT ![serving] = "kInit"] \/ UNCHANGED call_state
  BY DEF Served
<1>2. call_state[serving] = "kFinish"
  BY <1>0 DEF CopyWaits
<1>3. CallerUnique'
  BY <1>0, <1>1, <1>2 DEF CallerUnique, FlightTypeOK, client_vars
<1>4. suspend_cid_set[serving] = {}
  BY <1>0, InvalidIsNoCid DEF WaiterHasCall, FlightTypeOK
<1>5. \A c \in Cids : waiting[c] # serving
  BY <1>0, <1>4 DEF WaiterHasCall
<1>6. \A c \in Cids : waiting[c] # NoObject => call_state'[waiting[c]] # "kInit"
  BY <1>0, <1>1, <1>5 DEF WaiterHasCall, FlightTypeOK
<1>7. WaiterHasCall'
  BY <1>0, <1>6 DEF WaiterHasCall, client_vars, schedule_vars, pool_vars
<1>8. CopyWaits'
  BY <1>0 DEF CopyWaits
<1>9. QED
  BY <1>3, <1>7, <1>8 DEF IInv

\* The invariant is inductive.
LEMMA NextKeepsIInv ==
  ASSUME TypeOK, IInv, [Next]_vars
  PROVE  IInv'
<1>1. ASSUME NEW o \in Objects, CoCallOnceDo(o) \/ CoSingleFlightDo(o)
      PROVE  IInv'
  <2>1. /\ ~ is_master_ /\ waiting[slave_cid_] = NoObject /\ DoTurn(o)
        /\ UNCHANGED <<master_vars, serving, cid_set>>
    BY <1>1 DEF CoCallOnceDo, CoSingleFlightDo, Asks, InEntry, loop_vars
  <2>2. QED
    BY <2>1, EnterKeepsIInv, WaitTurnKeepsIInv DEF DoTurn
<1>2. CASE WaitAgain
  <2>1. /\ ~ is_master_ /\ slave_cid_ \in Cids /\ waiting[slave_cid_] \in Objects
        /\ WaitTurn(waiting[slave_cid_])
        /\ UNCHANGED <<call_state, calling, master_vars, serving, cid_set>>
    BY <1>2, WaitsFor DEF WaitAgain, loop_vars
  <2>2. call_state[waiting[slave_cid_]] # "kInit"
    BY <2>1, NoObjectIsNone DEF IInv, WaiterHasCall
  <2>3. QED
    BY <2>1, <2>2, WaitTurnKeepsIInv
<1>3. CASE UNCHANGED vars
  BY <1>3
     DEF vars, schedule_vars, pool_vars, master_vars, object_vars, client_vars, loop_vars, IInv,
         CallerUnique, WaiterHasCall, CopyWaits
<1>4. QED
  BY <1>1, <1>2, <1>3, OtherStepKeepsIInv, LeaveKeepsIInv, VisitKeepsIInv,
     ResumeWaiterKeepsIInv, ServedKeepsIInv DEF Next, Slave, CoResume, Objects

\* It holds at the start.
LEMMA InitIInv ==
  ASSUME Init
  PROVE  IInv
BY NoObjectIsNone DEF Init, IInv, CallerUnique, WaiterHasCall, CopyWaits

\* So types and invariant hold always: the one is needed for the other.
LEMMA AlwaysIInv == Spec => [](TypeOK /\ IInv)
<1>1. Init => TypeOK /\ IInv
  BY InitTyped, InitIInv
<1>2. TypeOK /\ IInv /\ [Next]_vars => TypeOK' /\ IInv'
  BY NextTyped, NextKeepsIInv
<1>3. QED
  BY <1>1, <1>2, PTL DEF Spec

-----------------------------------------------------------------------------
(* The safety properties of the two.                                       *)

\* Every variable of CoCallOnce and CoSingleFlight has its type.
THEOREM Typed == Spec => []TypeOK
BY AlwaysIInv, PTL

\* While a call is being made exactly one slave makes it, otherwise none, however many ask
\* for it and however often the caller yields in between.
THEOREM CalledByOne == Spec => []OneCaller
<1>1. CallerUnique => OneCaller
  <2> SUFFICES ASSUME CallerUnique, NEW o \in Objects
               PROVE  Cardinality({c \in Cids : o \in calling[c]})
                        = (IF call_state[o] = "kInCall" THEN 1 ELSE 0)
    BY DEF OneCaller
  <2>1. CASE call_state[o] = "kInCall"
    <3>1. PICK c \in Cids : o \in calling[c]
      BY <2>1 DEF CallerUnique
    <3>2. {d \in Cids : o \in calling[d]} = {c}
      BY <3>1 DEF CallerUnique
    <3>3. QED
      BY <2>1, <3>2, FS_Singleton
  <2>2. CASE call_state[o] # "kInCall"
    <3>1. {d \in Cids : o \in calling[d]} = {}
      BY <2>2 DEF CallerUnique
    <3>2. QED
      BY <2>2, <3>1, FS_EmptySet
  <2>3. QED
    BY <2>1, <2>2
<1>2. QED
  BY <1>1, AlwaysIInv, PTL DEF IInv

\* A slave waits only for a call that is being made or is over, it is in the set of its
\* object and suspended, and when the copy is used up nobody is left there: the assertion
\* of CoSingleFlightResume holds.
THEOREM NobodyWaitsForNothing == Spec => []WaiterHasCall
BY AlwaysIInv, PTL DEF IInv

\* Whoever is left in the copy of the set still waits there when its turn comes, so the
\* Resume functions resume no slave that runs or that waits for something else.
THEOREM ResumesOnlyWaiters == Spec => []CopyWaits
BY AlwaysIInv, PTL DEF IInv
=============================================================================
