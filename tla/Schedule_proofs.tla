--------------------------- MODULE Schedule_proofs ---------------------------
(***************************************************************************)
(* What the operations of the scheduler preserve, for a pool of any size:  *)
(* the slave that has the thread is the one in state kRun, and             *)
(* not_idle_count_ counts the slots in use.  The proofs about a module     *)
(* that extends Schedule cite these lemmas, one for each operation.        *)
(***************************************************************************)
EXTENDS Schedule, SequencesExt, FiniteSetTheorems, SequenceTheorems, TLAPS

\* A set of numbers that is not empty has a least member.
LEMMA LeastExists ==
  ASSUME NEW S \in SUBSET Nat, S # {}
  PROVE  \E n \in S : \A m \in S : n <= m
<1>1. PICK b \in S : TRUE
  OBVIOUS
<1> DEFINE T == {1 .. n : n \in {m \in S : m <= b}}
<1>2. T \subseteq FiniteSubsetsOf(1 .. b) /\ T # {}
  <2>1. ASSUME NEW n \in S, n <= b
        PROVE  1 .. n \in SUBSET (1 .. b)
    BY <2>1
  <2>2. IsFiniteSet(1 .. b)
    BY FS_Interval
  <2>3. \A n \in S : n <= b => IsFiniteSet(1 .. n)
    BY FS_Interval
  <2>4. T # {}
    OBVIOUS
  <2>5. QED
    BY <2>1, <2>3, <2>4 DEF FiniteSubsetsOf
<1>3. PICK t \in T : \A u \in T : ~ <<u, t>> \in StrictSubsetOrdering(1 .. b)
  <2>1. IsWellFoundedOn(StrictSubsetOrdering(1 .. b), FiniteSubsetsOf(1 .. b))
    BY FS_StrictSubsetOrderingWellFounded
  <2>2. QED
    BY <1>2, <2>1, WFMin
<1>4. PICK n \in S : n <= b /\ t = 1 .. n
  OBVIOUS
<1>5. ASSUME NEW m \in S PROVE n <= m
  <2>1. CASE m > b
    BY <1>4, <2>1
  <2>2. CASE m <= b /\ m < n
    <3>1. 1 .. m \in T
      BY <2>2
    <3>2. 1 .. m \in SUBSET (1 .. b) /\ 1 .. n \in SUBSET (1 .. b)
      BY <1>4, <2>2
    <3>3. 1 .. m \subseteq 1 .. n /\ n \in 1 .. n /\ n \notin 1 .. m
      BY <2>2
    <3>4. <<1 .. m, t>> \in StrictSubsetOrdering(1 .. b)
      BY <1>4, <3>2, <3>3 DEF StrictSubsetOrdering
    <3>5. QED
      BY <1>3, <3>1, <3>4
  <2>3. QED
    BY <2>1, <2>2, <1>4
<1>6. QED
  BY <1>5

\* The slots in use.
InUseSlots == {c \in Cids : state[c] # "kIdle"}

\* A set of slaves is finite and no larger than the pool.
LEMMA CidSets ==
  ASSUME NEW S \in SUBSET Cids
  PROVE  IsFiniteSet(S) /\ Cardinality(S) \in 0 .. coroutine_count_
<1>1. coroutine_count_ - 1 \in Int /\ 0 \in Int
  BY PoolAssumption
<1>2. IsFiniteSet(Cids) /\ Cardinality(Cids) = coroutine_count_
  BY <1>1, FS_Interval, PoolAssumption DEF Cids
<1>3. IsFiniteSet(S) /\ Cardinality(S) <= Cardinality(Cids)
  BY <1>2, FS_Subset
<1>4. Cardinality(S) \in Nat
  BY <1>3, FS_CardinalityType
<1>5. QED
  BY <1>2, <1>3, <1>4, PoolAssumption

\* kInvalidCid is no slave.
LEMMA InvalidIsNoCid == kInvalidCid \notin Cids
BY PoolAssumption DEF kInvalidCid, Cids

\* The pool is consistent when the process starts.
LEMMA InitPool ==
  ASSUME ScheduleInit
  PROVE  ScheduleTypeOK
<1>1. {c \in Cids : state[c] # "kIdle"} = {}
  BY DEF ScheduleInit
<1>2. CountsNotIdle
  BY <1>1, FS_EmptySet DEF CountsNotIdle, ScheduleInit
<1>3. OneRunner
  BY InvalidIsNoCid DEF OneRunner, ScheduleInit
<1>4. PoolOK
  BY <1>2, <1>3, PoolAssumption DEF ScheduleInit, PoolOK, State
<1>5. calls \in [Cids -> 0 .. MaxCalls]
  BY CallsAssumption DEF ScheduleInit
<1>6. running \in BOOLEAN /\ resuming \in BOOLEAN
  BY DEF ScheduleInit
<1>7. scan \in 0 .. coroutine_count_
  BY PoolAssumption DEF ScheduleInit
<1>8. QED
  BY <1>4, <1>5, <1>6, <1>7 DEF ScheduleTypeOK

\* Handing the thread to a slave keeps the pool consistent.
LEMMA ResumeKeepsPool ==
  ASSUME PoolOK, NEW c \in Cids, CoroutineResume(c)
  PROVE  PoolOK'
<1>1. InUseSlots' = InUseSlots
  BY DEF InUseSlots, CoroutineResume, Resumable, PoolOK
<1>2. CountsNotIdle'
  BY <1>1 DEF InUseSlots, CountsNotIdle, CoroutineResume, PoolOK
<1>3. OneRunner'
  BY InvalidIsNoCid DEF OneRunner, CoroutineResume, PoolOK, is_master_
<1>4. QED
  BY <1>2, <1>3 DEF CoroutineResume, PoolOK, State

\* A slave that yields leaves the pool consistent.
LEMMA YieldKeepsPool ==
  ASSUME PoolOK, CoroutineYield
  PROVE  PoolOK'
<1>1. slave_cid_ \in Cids /\ state[slave_cid_] = "kRun"
  BY DEF CoroutineYield, is_master_, PoolOK, OneRunner
<1>2. InUseSlots' = InUseSlots
  BY <1>1 DEF InUseSlots, CoroutineYield, PoolOK
<1>3. CountsNotIdle'
  BY <1>2 DEF InUseSlots, CountsNotIdle, CoroutineYield, PoolOK
<1>4. OneRunner'
  BY <1>1, InvalidIsNoCid DEF OneRunner, CoroutineYield, PoolOK
<1>5. QED
  BY <1>3, <1>4 DEF CoroutineYield, PoolOK, State

\* So does one that ends: its slot is not counted any more.
LEMMA EndKeepsPool ==
  ASSUME PoolOK, CoroutineRun
  PROVE  PoolOK'
<1>1. slave_cid_ \in Cids /\ state[slave_cid_] = "kRun"
  BY DEF CoroutineRun, is_master_, PoolOK, OneRunner
<1>2. InUseSlots' = InUseSlots \ {slave_cid_} /\ slave_cid_ \in InUseSlots
  BY <1>1 DEF InUseSlots, CoroutineRun, PoolOK
<1>3. IsFiniteSet(InUseSlots) /\ Cardinality(InUseSlots) \in Nat
  BY CidSets DEF InUseSlots
<1>4. Cardinality(InUseSlots') = Cardinality(InUseSlots) - 1
  BY <1>2, <1>3, FS_RemoveElement
<1>5. CountsNotIdle'
  BY <1>4 DEF InUseSlots, CountsNotIdle, CoroutineRun, PoolOK
<1>6. OneRunner'
  BY <1>1, InvalidIsNoCid DEF OneRunner, CoroutineRun, PoolOK
<1>7. Cardinality(InUseSlots') \in 0 .. coroutine_count_
  BY CidSets DEF InUseSlots
<1>8. not_idle_count_' \in 0 .. coroutine_count_
  BY <1>5, <1>7 DEF CountsNotIdle, InUseSlots
<1>9. QED
  BY <1>5, <1>6, <1>8 DEF CoroutineRun, PoolOK, State

\* Creating a slave in an idle slot keeps the pool consistent and counts it.
LEMMA CreateKeepsPool ==
  ASSUME PoolOK, NEW c \in Idle, CoroutineInit(c)
  PROVE  PoolOK'
<1>1. c \in Cids /\ state[c] = "kIdle" /\ slave_cid_ # c
  BY DEF Idle, PoolOK, OneRunner
<1>2. InUseSlots' = InUseSlots \cup {c} /\ c \notin InUseSlots
  BY <1>1 DEF InUseSlots, CoroutineInit, PoolOK
<1>3. IsFiniteSet(InUseSlots) /\ Cardinality(InUseSlots) \in Nat
  BY CidSets DEF InUseSlots
<1>4. Cardinality(InUseSlots') = Cardinality(InUseSlots) + 1
  BY <1>2, <1>3, FS_AddElement
<1>5. CountsNotIdle'
  BY <1>4 DEF InUseSlots, CountsNotIdle, CoroutineInit, PoolOK
<1>6. OneRunner'
  BY <1>1 DEF OneRunner, CoroutineInit, PoolOK
<1>7. Cardinality(InUseSlots') \in 0 .. coroutine_count_
  BY CidSets DEF InUseSlots
<1>8. not_idle_count_' \in 0 .. coroutine_count_
  BY <1>5, <1>7 DEF CountsNotIdle, InUseSlots
<1>9. QED
  BY <1>5, <1>6, <1>8 DEF CoroutineInit, PoolOK, State

-----------------------------------------------------------------------------
(* The same for the actions of Schedule, which also change what the entry  *)
(* functions may still call and where the master is.                       *)

\* A call is one of those the entry function may still make.
LEMMA CallTyped ==
  ASSUME ScheduleTypeOK, Call
  PROVE  calls' \in [Cids -> 0 .. MaxCalls]
<1>1. slave_cid_ \in Cids
  BY DEF Call, is_master_, ScheduleTypeOK, PoolOK
<1>2. calls[slave_cid_] - 1 \in 0 .. MaxCalls
  BY <1>1, CallsAssumption DEF Call, ScheduleTypeOK
<1>3. QED
  BY <1>1, <1>2 DEF Call, ScheduleTypeOK

\* A slave yields, creates another one or ends.
LEMMA SlaveStepTyped ==
  ASSUME ScheduleTypeOK, Yield \/ Spawn \/ Return
  PROVE  ScheduleTypeOK'
<1>0. PoolOK /\ slave_cid_ \in Cids
  BY DEF Yield, Spawn, Return, CoroutineYield, CoroutineRun, is_master_, ScheduleTypeOK, PoolOK
<1>1. CASE Yield
  <2>1. PoolOK'
    BY <1>0, <1>1, YieldKeepsPool DEF Yield
  <2>2. calls' \in [Cids -> 0 .. MaxCalls]
    BY <1>1, CallTyped DEF Yield
  <2>3. QED
    BY <1>1, <2>1, <2>2 DEF Yield, ScheduleTypeOK, master_vars
<1>2. CASE Spawn
  <2>1. PICK c \in Idle :
          /\ CoroutineInit(c)
          /\ calls' = [calls EXCEPT ![slave_cid_] = @ - 1, ![c] = calls[slave_cid_] - 1]
    BY <1>2 DEF Spawn, LowestIdle
  <2>2. PoolOK'
    BY <1>0, <2>1, CreateKeepsPool
  <2>3. calls[slave_cid_] - 1 \in 0 .. MaxCalls
    BY <1>0, <1>2, CallsAssumption DEF Spawn, ScheduleTypeOK
  <2>4. calls' \in [Cids -> 0 .. MaxCalls]
    BY <1>0, <2>1, <2>3 DEF ScheduleTypeOK, Idle
  <2>5. QED
    BY <1>2, <2>2, <2>4 DEF Spawn, ScheduleTypeOK, master_vars
<1>3. CASE Return
  <2>1. PoolOK'
    BY <1>0, <1>3, EndKeepsPool DEF Return
  <2>2. 0 \in 0 .. MaxCalls
    BY CallsAssumption
  <2>3. calls' \in [Cids -> 0 .. MaxCalls]
    BY <1>0, <1>3, <2>2 DEF Return, ScheduleTypeOK
  <2>4. QED
    BY <1>3, <2>1, <2>3 DEF Return, ScheduleTypeOK, master_vars
<1>4. QED
  BY <1>1, <1>2, <1>3

\* The master creates a slave, enters Run() or resumes the slave of an event.
LEMMA MasterStepTyped ==
  ASSUME ScheduleTypeOK, Create \/ RunBegin \/ \E c \in Cids : EventResume(c)
  PROVE  ScheduleTypeOK'
<1>0. PoolOK
  BY DEF ScheduleTypeOK
<1>1. CASE Create
  <2>1. PICK c \in Idle : CoroutineInit(c) /\ calls' = [calls EXCEPT ![c] = MaxCalls]
    BY <1>1 DEF Create, LowestIdle
  <2>2. PoolOK'
    BY <1>0, <2>1, CreateKeepsPool
  <2>3. MaxCalls \in 0 .. MaxCalls
    BY CallsAssumption
  <2>4. calls' \in [Cids -> 0 .. MaxCalls]
    BY <2>1, <2>3 DEF ScheduleTypeOK, Idle
  <2>5. QED
    BY <1>1, <2>2, <2>4 DEF Create, ScheduleTypeOK, master_vars
<1>2. CASE RunBegin
  <2>1. 0 \in 0 .. coroutine_count_
    BY PoolAssumption
  <2>2. PoolOK'
    BY <1>0, <1>2 DEF RunBegin, PoolOK, pool_vars, OneRunner, CountsNotIdle
  <2>3. QED
    BY <1>2, <2>1, <2>2 DEF RunBegin, ScheduleTypeOK
<1>3. CASE \E c \in Cids : EventResume(c)
  <2>1. PoolOK'
    BY <1>0, <1>3, ResumeKeepsPool DEF EventResume
  <2>2. QED
    BY <1>3, <2>1 DEF EventResume, ScheduleTypeOK, master_vars
<1>4. QED
  BY <1>1, <1>2, <1>3

\* An iteration of the for loop of Run().
LEMMA RunScanTyped ==
  ASSUME ScheduleTypeOK, NEW Skipped, RunScan(Skipped)
  PROVE  ScheduleTypeOK'
<1>1. scan \in Cids /\ scan' \in 0 .. coroutine_count_
  BY PoolAssumption DEF RunScan, ScheduleTypeOK, Cids
<1>2. PoolOK'
  <2>1. CASE CoroutineResume(scan)
    BY <1>1, <2>1, ResumeKeepsPool DEF ScheduleTypeOK
  <2>2. CASE UNCHANGED pool_vars
    BY <2>2 DEF ScheduleTypeOK, PoolOK, pool_vars, OneRunner, CountsNotIdle
  <2>3. QED
    BY <2>1, <2>2 DEF RunScan
<1>3. QED
  BY <1>1, <1>2 DEF RunScan, ScheduleTypeOK

\* A Co*Resume function is called, and returns.
LEMMA ResumeLoopTyped ==
  ASSUME ScheduleTypeOK, ResumeBegin \/ ResumeEnd
  PROVE  ScheduleTypeOK'
<1>1. PoolOK'
  BY DEF ResumeBegin, ResumeEnd, ScheduleTypeOK, PoolOK, pool_vars, OneRunner, CountsNotIdle
<1>2. 0 \in 0 .. coroutine_count_
  BY PoolAssumption
<1>3. CASE ResumeBegin
  BY <1>1, <1>3 DEF ResumeBegin, ScheduleTypeOK
<1>4. CASE ResumeEnd
  BY <1>1, <1>2, <1>4 DEF ResumeEnd, ScheduleTypeOK
<1>5. QED
  BY <1>3, <1>4

\* A step that changes nothing of the scheduler.
LEMMA UnchangedTyped ==
  ASSUME ScheduleTypeOK, UNCHANGED schedule_vars
  PROVE  ScheduleTypeOK'
BY DEF schedule_vars, pool_vars, master_vars, ScheduleTypeOK, PoolOK, OneRunner, CountsNotIdle

\* None of these steps changes the state of a slave in use that neither had the thread nor
\* gets it.
LEMMA StateStays ==
  ASSUME ScheduleTypeOK, NEW Skipped, NEW c \in Cids,
         c # slave_cid_, state[c] # "kIdle", slave_cid_' # c,
         \/ Yield \/ Spawn \/ Return
         \/ Create \/ RunBegin \/ (\E d \in Cids : EventResume(d))
         \/ RunScan(Skipped) \/ ResumeBegin \/ ResumeEnd
         \/ UNCHANGED schedule_vars
  PROVE  state'[c] = state[c]
<1>1. c \notin Idle /\ state \in [Cids -> State]
  BY DEF Idle, ScheduleTypeOK, PoolOK
<1>2. CASE Yield \/ Return
  BY <1>1, <1>2 DEF Yield, CoroutineYield, Return, CoroutineRun
<1>3. CASE Spawn \/ Create
  BY <1>1, <1>3 DEF Spawn, Create, LowestIdle, CoroutineInit
<1>4. CASE RunScan(Skipped) \/ \E d \in Cids : EventResume(d)
  BY <1>1, <1>4 DEF RunScan, EventResume, CoroutineResume, pool_vars
<1>5. CASE RunBegin \/ ResumeBegin \/ ResumeEnd \/ UNCHANGED schedule_vars
  BY <1>1, <1>5 DEF RunBegin, ResumeBegin, ResumeEnd, schedule_vars, pool_vars
<1>6. QED
  BY <1>2, <1>3, <1>4, <1>5

\* So a suspended slave that is not resumed stays suspended.
LEMMA SuspendedStays ==
  ASSUME ScheduleTypeOK, NEW Skipped, NEW c \in Cids,
         c # slave_cid_, state[c] = "kSuspend", slave_cid_' # c,
         \/ Yield \/ Spawn \/ Return
         \/ Create \/ RunBegin \/ (\E d \in Cids : EventResume(d))
         \/ RunScan(Skipped) \/ ResumeBegin \/ ResumeEnd
         \/ UNCHANGED schedule_vars
  PROVE  state'[c] = "kSuspend"
BY StateStays

-----------------------------------------------------------------------------
(* The queues of waiters: what adding and removing an entry does to the    *)
(* entries and to their being distinct.                                    *)

\* An entry is in a queue when it is one of its entries.
LEMMA ContainsEntry ==
  ASSUME NEW S, NEW s \in Seq(S), NEW e
  PROVE  Contains(s, e) <=> e \in ToSet(s)
<1>1. DOMAIN s = 1 .. Len(s)
  BY LenProperties
<1>2. QED
  BY <1>1 DEF Contains, ToSet

\* The entries of a queue have the type of the queue.
LEMMA EntriesTyped ==
  ASSUME NEW S, NEW s \in Seq(S)
  PROVE  ToSet(s) \subseteq S
<1>1. \A i \in DOMAIN s : s[i] \in S
  BY ElementOfSeq, LenProperties
<1>2. QED
  BY <1>1 DEF ToSet

\* Erasing an element moves those behind it forward and leaves the others.
LEMMA RemoveAtProperties ==
  ASSUME NEW S, NEW s \in Seq(S), NEW i \in 1 .. Len(s)
  PROVE  /\ RemoveAt(s, i) \in Seq(S)
         /\ Len(RemoveAt(s, i)) = Len(s) - 1
         /\ \A j \in 1 .. Len(s) - 1 :
              RemoveAt(s, i)[j] = IF j < i THEN s[j] ELSE s[j + 1]
<1> DEFINE front == SubSeq(s, 1, i - 1)
           back  == SubSeq(s, i + 1, Len(s))
<1>0. Len(s) \in Nat /\ i \in Nat
  BY LenProperties
<1>1. /\ front \in Seq(S)
      /\ Len(front) = i - 1
      /\ \A j \in 1 .. i - 1 : front[j] = s[j]
  <2>1. /\ 1 \in 1 .. Len(s) + 1
        /\ i - 1 \in 1 - 1 .. Len(s)
    BY <1>0
  <2>2. QED
    BY <1>0, <2>1, SubSeqProperties
<1>2. /\ back \in Seq(S)
      /\ Len(back) = Len(s) - i
      /\ \A j \in 1 .. Len(s) - i : back[j] = s[i + j]
  <2>1. /\ i + 1 \in 1 .. Len(s) + 1
        /\ Len(s) \in i + 1 - 1 .. Len(s)
    BY <1>0
  <2>2. QED
    BY <1>0, <2>1, SubSeqProperties
<1>3. /\ front \o back \in Seq(S)
      /\ Len(front \o back) = Len(front) + Len(back)
      /\ \A j \in 1 .. Len(front) + Len(back) :
           (front \o back)[j] = IF j <= Len(front) THEN front[j] ELSE back[j - Len(front)]
  BY <1>1, <1>2, ConcatProperties
<1>4. RemoveAt(s, i) = front \o back
  BY DEF RemoveAt
<1> HIDE DEF front, back
<1>5. \A j \in 1 .. Len(s) - 1 :
        (front \o back)[j] = IF j < i THEN s[j] ELSE s[j + 1]
  <2> TAKE j \in 1 .. Len(s) - 1
  <2>1. CASE j < i
    BY <1>0, <1>1, <1>2, <1>3, <2>1
  <2>2. CASE ~ (j < i)
    <3> DEFINE k == j - (i - 1)
    <3>1. k \in 1 .. Len(s) - i /\ i + k = j + 1
      BY <1>0, <2>2
    <3>2. back[k] = s[j + 1]
      BY <1>2, <3>1
    <3>3. (front \o back)[j] = back[k]
      BY <1>0, <1>1, <1>2, <1>3, <2>2
    <3>4. QED
      BY <2>2, <3>2, <3>3
  <2>3. QED
    BY <2>1, <2>2
<1>6. Len(front \o back) = Len(s) - 1
  BY <1>0, <1>1, <1>2, <1>3
<1>7. QED
  BY <1>3, <1>4, <1>5, <1>6

\* Erasing an entry takes it out of a queue of distinct entries.
LEMMA RemoveAtEntries ==
  ASSUME NEW S, NEW s \in Seq(S), NEW i \in 1 .. Len(s), IsInjective(s)
  PROVE  /\ ToSet(RemoveAt(s, i)) = ToSet(s) \ {s[i]}
         /\ IsInjective(RemoveAt(s, i))
<1> DEFINE r == RemoveAt(s, i)
           from(j) == IF j < i THEN j ELSE j + 1
<1>1. Len(s) \in Nat /\ DOMAIN s = 1 .. Len(s) /\ i \in Nat
  BY LenProperties
<1>2. r \in Seq(S) /\ Len(r) = Len(s) - 1 /\ \A j \in 1 .. Len(s) - 1 : r[j] = s[from(j)]
  BY RemoveAtProperties
<1>3. DOMAIN r = 1 .. Len(s) - 1
  BY <1>2, LenProperties
<1> HIDE DEF r
<1>4. \A j \in DOMAIN r : from(j) \in DOMAIN s /\ from(j) # i
  BY <1>1, <1>3
<1>5. \A k \in DOMAIN s : k # i => \E j \in DOMAIN r : from(j) = k
  <2>1. SUFFICES ASSUME NEW k \in DOMAIN s, k # i
                 PROVE  \E j \in DOMAIN r : from(j) = k
    OBVIOUS
  <2>2. CASE k < i
    BY <1>1, <1>3, <2>1, <2>2
  <2>3. CASE k > i
    <3>1. k - 1 \in DOMAIN r /\ from(k - 1) = k
      BY <1>1, <1>3, <2>1, <2>3
    <3>2. QED
      BY <3>1
  <2>4. QED
    BY <1>1, <2>1, <2>2, <2>3
<1>6. \A j, k \in DOMAIN r : from(j) = from(k) => j = k
  BY <1>1, <1>3
<1> HIDE DEF from
<1>7. ToSet(r) = ToSet(s) \ {s[i]}
  <2>1. ASSUME NEW e \in ToSet(r) PROVE e \in ToSet(s) \ {s[i]}
    <3>1. PICK j \in DOMAIN r : e = r[j]
      BY DEF ToSet
    <3>2. e = s[from(j)] /\ from(j) \in DOMAIN s /\ from(j) # i /\ i \in DOMAIN s
      BY <1>1, <1>2, <1>3, <1>4, <3>1
    <3>3. QED
      BY <3>2 DEF ToSet, IsInjective
  <2>2. ASSUME NEW e \in ToSet(s) \ {s[i]} PROVE e \in ToSet(r)
    <3>1. PICK k \in DOMAIN s : e = s[k] /\ k # i
      BY <2>2 DEF ToSet
    <3>2. PICK j \in DOMAIN r : from(j) = k
      BY <1>5, <3>1
    <3>3. e = r[j]
      BY <1>2, <1>3, <3>1, <3>2
    <3>4. QED
      BY <3>3 DEF ToSet
  <2>3. QED
    BY <2>1, <2>2
<1>8. IsInjective(r)
  BY <1>2, <1>3, <1>4, <1>6 DEF IsInjective
<1>9. QED
  BY <1>7, <1>8 DEF r

\* The entry at the front is the one that Tail takes out.
LEMMA TailEntries ==
  ASSUME NEW S, NEW s \in Seq(S), s # <<>>, IsInjective(s)
  PROVE  /\ Head(s) \in ToSet(s)
         /\ ToSet(Tail(s)) = ToSet(s) \ {Head(s)}
         /\ IsInjective(Tail(s))
<1>1. Len(s) \in Nat \ {0} /\ DOMAIN s = 1 .. Len(s) /\ Head(s) = s[1]
  BY LenProperties, EmptySeq
<1>2. /\ Tail(s) \in Seq(S)
      /\ Len(Tail(s)) = Len(s) - 1
      /\ \A j \in 1 .. Len(s) - 1 : Tail(s)[j] = s[j + 1]
  BY HeadTailProperties
<1>3. DOMAIN Tail(s) = 1 .. Len(s) - 1
  BY <1>2, LenProperties
<1>4. \A j \in DOMAIN Tail(s) : j + 1 \in DOMAIN s /\ j + 1 # 1
  BY <1>1, <1>3
<1>5. \A k \in DOMAIN s : k # 1 => k - 1 \in DOMAIN Tail(s) /\ Tail(s)[k - 1] = s[k]
  BY <1>1, <1>2, <1>3
<1>6. Head(s) \in ToSet(s)
  BY <1>1 DEF ToSet
<1>7. ToSet(Tail(s)) = ToSet(s) \ {Head(s)}
  <2>1. ASSUME NEW e \in ToSet(Tail(s)) PROVE e \in ToSet(s) \ {Head(s)}
    <3>1. PICK j \in DOMAIN Tail(s) : e = Tail(s)[j]
      BY DEF ToSet
    <3>2. e = s[j + 1] /\ j + 1 \in DOMAIN s /\ j + 1 # 1 /\ 1 \in DOMAIN s
      BY <1>1, <1>2, <1>3, <1>4, <3>1
    <3>3. QED
      BY <1>1, <3>2 DEF ToSet, IsInjective
  <2>2. ASSUME NEW e \in ToSet(s) \ {Head(s)} PROVE e \in ToSet(Tail(s))
    <3>1. PICK k \in DOMAIN s : e = s[k] /\ k # 1
      BY <1>1, <2>2 DEF ToSet
    <3>2. k - 1 \in DOMAIN Tail(s) /\ e = Tail(s)[k - 1]
      BY <1>5, <3>1
    <3>3. QED
      BY <3>2 DEF ToSet
  <2>3. QED
    BY <2>1, <2>2
<1>8. IsInjective(Tail(s))
  <2>1. SUFFICES ASSUME NEW j \in DOMAIN Tail(s), NEW k \in DOMAIN Tail(s),
                        Tail(s)[j] = Tail(s)[k]
                 PROVE  j = k
    BY DEF IsInjective
  <2>2. s[j + 1] = s[k + 1] /\ j + 1 \in DOMAIN s /\ k + 1 \in DOMAIN s
    BY <1>2, <1>3, <1>4, <2>1
  <2>3. j + 1 = k + 1
    BY <2>2 DEF IsInjective
  <2>4. QED
    BY <1>1, <1>3, <2>3
<1>9. QED
  BY <1>6, <1>7, <1>8

\* Appending adds the entry, and keeps the entries distinct when it is a new one.
LEMMA AppendEntries ==
  ASSUME NEW S, NEW s \in Seq(S), NEW e \in S, IsInjective(s), e \notin ToSet(s)
  PROVE  /\ ToSet(Append(s, e)) = ToSet(s) \cup {e}
         /\ IsInjective(Append(s, e))
<1> DEFINE r == Append(s, e)
<1>1. Len(s) \in Nat /\ DOMAIN s = 1 .. Len(s)
  BY LenProperties
<1>2. /\ r \in Seq(S)
      /\ Len(r) = Len(s) + 1
      /\ \A j \in 1 .. Len(s) : r[j] = s[j]
      /\ r[Len(s) + 1] = e
  BY AppendProperties
<1>3. DOMAIN r = 1 .. Len(s) + 1
  BY <1>2, LenProperties
<1> HIDE DEF r
<1>4. DOMAIN r = DOMAIN s \cup {Len(s) + 1} /\ Len(s) + 1 \notin DOMAIN s
  BY <1>1, <1>3
<1>5. ToSet(r) = ToSet(s) \cup {e}
  BY <1>1, <1>2, <1>4 DEF ToSet
<1>6. IsInjective(r)
  BY <1>1, <1>2, <1>4 DEF IsInjective, ToSet
<1>7. QED
  BY <1>5, <1>6 DEF r

\* As many entries as places, when no entry is in two of them.
LEMMA InjectiveLength ==
  ASSUME NEW S, NEW s \in Seq(S), IsInjective(s)
  PROVE  Len(s) = Cardinality(ToSet(s))
<1>1. Len(s) \in Nat /\ DOMAIN s = 1 .. Len(s) /\ s \in [1 .. Len(s) -> S]
  BY LenProperties
<1>2. s \in Bijection(1 .. Len(s), ToSet(s))
  BY <1>1 DEF Bijection, Injection, Surjection, ToSet
<1>3. IsFiniteSet(1 .. Len(s)) /\ Cardinality(1 .. Len(s)) = Len(s)
  BY <1>1, FS_Interval
<1>4. QED
  BY <1>2, <1>3, FS_Bijection DEF ExistsBijection

\* A set in any order is a queue of distinct entries of it.
LEMMA AnyOrderEntries ==
  ASSUME NEW S, IsFiniteSet(S), NEW s \in SetToSeqs(S)
  PROVE  s \in Seq(S) /\ IsInjective(s) /\ ToSet(s) \subseteq S
<1>1. Cardinality(S) \in Nat
  BY FS_CardinalityType
<1>2. s \in [1 .. Cardinality(S) -> S] /\ IsInjective(s)
  BY DEF SetToSeqs, IsInjective
<1>3. s \in Seq(S)
  BY <1>1, <1>2, SeqDef
<1>4. QED
  BY <1>2, <1>3, EntriesTyped

=============================================================================
