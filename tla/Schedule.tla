------------------------------ MODULE Schedule ------------------------------
(***************************************************************************)
(* Programs on the coroutine pool.  Two kinds drive it: one calls Run(),   *)
(* which scans the pool until it is idle; the other is an event loop that  *)
(* resumes a slave when its event arrives.                                 *)
(*                                                                         *)
(* This module has the operations every other part of the library is built *)
(* from.  It has no next-state relation of its own: the module of a        *)
(* synchronization primitive extends it, adds what its slaves call and its *)
(* Co*Resume function, and conjoins these actions with UNCHANGED of its    *)
(* own variables.                                                          *)
(***************************************************************************)
EXTENDS Pool

CONSTANT MaxCalls   \* bound: library calls one entry function makes

ASSUME CallsAssumption == MaxCalls \in Nat

VARIABLES
  calls,             \* calls[c]: library calls the entry function of c may still make
  running,           \* the master is inside Run()
  scan,              \* the index i of the for loop of Run()
  resuming           \* the master is inside a Co*Resume function

master_vars == <<running, scan, resuming>>
schedule_vars == <<pool_vars, calls, master_vars>>

ScheduleInit ==
  /\ state = [c \in Cids |-> "kIdle"]
  /\ slave_cid_ = kInvalidCid
  /\ not_idle_count_ = 0
  /\ calls = [c \in Cids |-> 0]
  /\ running = FALSE
  /\ scan = 0
  /\ resuming = FALSE

-----------------------------------------------------------------------------
(* What a slave does by itself.  CoroutineCreate takes the first idle slot;*)
(* with none it returns kInvalidCid and changes nothing.                   *)

\* The entry function of the running slave makes one more of its calls.
Call ==
  /\ ~ is_master_
  /\ calls[slave_cid_] > 0
  /\ calls' = [calls EXCEPT ![slave_cid_] = @ - 1]

Yield == Call /\ CoroutineYield /\ UNCHANGED master_vars

\* A slave creates another one, which makes no more calls than its creator has left,
\* so that a program of finitely many calls is finite however it creates slaves.
Spawn ==
  /\ ~ is_master_
  /\ calls[slave_cid_] > 0
  /\ \E c \in Cids :
       /\ LowestIdle(c)
       /\ CoroutineInit(c)
       /\ calls' = [calls EXCEPT ![slave_cid_] = @ - 1, ![c] = calls[slave_cid_] - 1]
  /\ UNCHANGED master_vars

Return ==
  /\ CoroutineRun
  /\ calls' = [calls EXCEPT ![slave_cid_] = 0]
  /\ UNCHANGED master_vars

-----------------------------------------------------------------------------
(* What the master does outside the library, or in an event loop.          *)

AtLarge == is_master_ /\ ~ running /\ ~ resuming

Create ==
  /\ AtLarge
  /\ \E c \in Cids :
       /\ LowestIdle(c)
       /\ CoroutineInit(c)
       /\ calls' = [calls EXCEPT ![c] = MaxCalls]
  /\ UNCHANGED master_vars

\* An event loop resumes a slave whose event arrived.
EventResume(c) ==
  /\ AtLarge
  /\ CoroutineResume(c)
  /\ UNCHANGED <<calls, master_vars>>

-----------------------------------------------------------------------------
(* Run(): while some slave is not idle, resume each resumable slave in the *)
(* order of the pool, then call the Co*Resume functions.  Those of the     *)
(* primitives the program does not use do nothing.                         *)

RunBegin ==
  /\ AtLarge
  /\ not_idle_count_ > 0
  /\ running' = TRUE
  /\ scan' = 0
  /\ UNCHANGED <<pool_vars, calls, resuming>>

\* One iteration of the for loop.  The slaves in Skipped are the parents of a batch.
RunScan(Skipped) ==
  /\ is_master_ /\ running /\ ~ resuming
  /\ scan < coroutine_count_
  /\ scan' = scan + 1
  /\ IF Resumable(scan) /\ scan \notin Skipped
       THEN CoroutineResume(scan)
       ELSE UNCHANGED pool_vars
  /\ UNCHANGED <<running, resuming, calls>>

\* The master calls a Co*Resume function, in its phase of Run() or from an event loop.
ResumeBegin ==
  /\ is_master_ /\ ~ resuming
  /\ running => scan = coroutine_count_
  /\ resuming' = TRUE
  /\ UNCHANGED <<pool_vars, calls, running, scan>>

\* Mutant: the loop index of Run() keeps its value.
ResumeEndKeepsScan ==
  /\ is_master_ /\ resuming
  /\ resuming' = FALSE
  /\ running' = (running /\ not_idle_count_ > 0)
  /\ UNCHANGED <<pool_vars, calls, scan>>

\* It returns, to the test of the while loop of Run() or to the event loop.
ResumeEnd ==
  /\ is_master_ /\ resuming
  /\ resuming' = FALSE
  /\ running' = (running /\ not_idle_count_ > 0)
  /\ scan' = 0
  /\ UNCHANGED <<pool_vars, calls>>

-----------------------------------------------------------------------------
(* Invariants that every program of the library keeps.                     *)

ScheduleTypeOK ==
  /\ PoolOK
  /\ calls \in [Cids -> 0 .. MaxCalls]
  /\ running \in BOOLEAN
  /\ scan \in 0 .. coroutine_count_
  /\ resuming \in BOOLEAN
=============================================================================
