-------------------------------- MODULE Pool --------------------------------
(***************************************************************************)
(* The coroutine pool of Coroutine/: coroutines ("slaves") that share one  *)
(* thread with the main coroutine ("master").  The master hands the thread *)
(* to a slave by CoroutineResume, and gets it back when the slave yields   *)
(* or its entry function returns.                                          *)
(***************************************************************************)
EXTENDS Integers, FiniteSets

CONSTANT coroutine_count_   \* size of the pool

ASSUME PoolAssumption == coroutine_count_ \in Nat \ {0}

kInvalidCid == -1
Cids == 0 .. coroutine_count_ - 1
State == {"kIdle", "kReady", "kRun", "kSuspend"}

VARIABLES
  state,             \* state[c]: Coroutine::state of the coroutine c
  slave_cid_,        \* the slave that has the thread, kInvalidCid if the master has
  not_idle_count_    \* slaves created and not finished

pool_vars == <<state, slave_cid_, not_idle_count_>>

\* is_master_ and slave_cid_ are assigned together everywhere, so one tells the other.
is_master_ == slave_cid_ = kInvalidCid

Resumable(c) == state[c] \in {"kReady", "kSuspend"}
Idle == {c \in Cids : state[c] = "kIdle"}
LowestIdle(c) == c \in Idle /\ \A d \in Idle : c <= d

-----------------------------------------------------------------------------
(* What hands the thread over.                                             *)

\* The master gives the thread to c.  The code asserts that c is Resumable.
CoroutineResume(c) ==
  /\ is_master_
  /\ Resumable(c)
  /\ state' = [state EXCEPT ![c] = "kRun"]
  /\ slave_cid_' = c
  /\ UNCHANGED not_idle_count_

\* The running slave gives the thread back, to go on from here when resumed.
CoroutineYield ==
  /\ ~ is_master_
  /\ state' = [state EXCEPT ![slave_cid_] = "kSuspend"]
  /\ slave_cid_' = kInvalidCid
  /\ UNCHANGED not_idle_count_

\* Mutant: a slave that has finished still counts.
CoroutineRunCounted ==
  /\ ~ is_master_
  /\ state' = [state EXCEPT ![slave_cid_] = "kIdle"]
  /\ slave_cid_' = kInvalidCid
  /\ UNCHANGED not_idle_count_

\* The entry function of the running slave has returned: its slot is free again.
CoroutineRun ==
  /\ ~ is_master_
  /\ state' = [state EXCEPT ![slave_cid_] = "kIdle"]
  /\ slave_cid_' = kInvalidCid
  /\ not_idle_count_' = not_idle_count_ - 1

\* Mutant: a slave that is created is not counted.
CoroutineInitUncounted(c) ==
  /\ state' = [state EXCEPT ![c] = "kReady"]
  /\ UNCHANGED <<slave_cid_, not_idle_count_>>

CoroutineInit(c) ==
  /\ state' = [state EXCEPT ![c] = "kReady"]
  /\ not_idle_count_' = not_idle_count_ + 1
  /\ UNCHANGED slave_cid_

-----------------------------------------------------------------------------
(* Invariants that every program on the pool keeps.                        *)

\* The slave that has the thread is the one slave in state kRun.
OneRunner == \A c \in Cids : state[c] = "kRun" <=> slave_cid_ = c

\* not_idle_count_ counts the slots in use, so Run() returns exactly when all are idle.
CountsNotIdle == not_idle_count_ = Cardinality({c \in Cids : state[c] # "kIdle"})

PoolOK ==
  /\ state \in [Cids -> State]
  /\ slave_cid_ \in Cids \cup {kInvalidCid}
  /\ not_idle_count_ \in 0 .. coroutine_count_
  /\ OneRunner
  /\ CountsNotIdle
=============================================================================
