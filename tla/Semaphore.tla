----------------------------- MODULE Semaphore -----------------------------
(***************************************************************************)
(* CoSemaphore: a counter that a slave waits for to be positive.  Posting  *)
(* wakes nobody: CoSemaphoreResume, called by the master later, resumes    *)
(* the waiters of a positive semaphore for as long as it stays positive.   *)
(*                                                                         *)
(* The module of a program that waits on semaphores extends this one and   *)
(* says what its slaves do when a wait is over.                            *)
(***************************************************************************)
EXTENDS Schedule

CONSTANTS
  Semaphores,      \* the semaphores, which live as long as the program
  NoSemaphore,     \* none of them
  InitialValue     \* InitialValue[s]: the value given to CoSemaphoreInit

ASSUME SemaphoreAssumption ==
  NoSemaphore \notin Semaphores /\ InitialValue \in [Semaphores -> Nat]

VARIABLES
  value,             \* CoSemaphore::value
  suspend_cid_set,   \* CoSemaphore::suspend_cid_set
  todo,              \* what the loop of CoSemaphoreResume has not come to yet
  serving,           \* the semaphore whose waiters it resumes
  cid_set            \* those of the copy of suspend_cid_set not resumed yet

semaphore_vars == <<value, suspend_cid_set>>
loop_vars == <<todo, serving, cid_set>>

SemaphoreInit ==
  /\ value = InitialValue
  /\ suspend_cid_set = [s \in Semaphores |-> {}]
  /\ todo = {}
  /\ serving = NoSemaphore
  /\ cid_set = {}

-----------------------------------------------------------------------------
(* CoSemaphoreWait and CoSemaphorePost, as functions of the semaphores: a  *)
(* slave calls them in the course of larger steps.                         *)

\* The loop of CoSemaphoreWait ends for the running slave.
WaitPasses(s) ==
  /\ value[s] > 0
  /\ suspend_cid_set' = [suspend_cid_set EXCEPT ![s] = @ \ {slave_cid_}]

\* The running slave is suspended in that loop.
WaitSuspends(s) ==
  /\ value[s] = 0
  /\ suspend_cid_set' = [suspend_cid_set EXCEPT ![s] = @ \cup {slave_cid_}]
  /\ CoroutineYield
  /\ UNCHANGED value

\* The values after a passed wait on s and a post to t.
Taken(s) == [value EXCEPT ![s] = @ - 1]
Posted(t, v) == [v EXCEPT ![t] = @ + 1]

-----------------------------------------------------------------------------
(* CoSemaphoreResume.                                                      *)

CoSemaphoreResumeBegin ==
  /\ ResumeBegin
  /\ todo' = Semaphores
  /\ UNCHANGED <<semaphore_vars, serving, cid_set>>

\* Mutant: passes over the semaphores that are positive.
VisitReversed(s) ==
  /\ resuming /\ is_master_ /\ serving = NoSemaphore
  /\ s \in todo
  /\ todo' = todo \ {s}
  /\ IF value[s] > 0
       THEN UNCHANGED <<serving, cid_set>>
       ELSE serving' = s /\ cid_set' = suspend_cid_set[s]
  /\ UNCHANGED <<schedule_vars, semaphore_vars>>

\* The loop comes to s.
Visit(s) ==
  /\ resuming /\ is_master_ /\ serving = NoSemaphore
  /\ s \in todo
  /\ todo' = todo \ {s}
  /\ IF value[s] = 0
       THEN UNCHANGED <<serving, cid_set>>
       ELSE serving' = s /\ cid_set' = suspend_cid_set[s]
  /\ UNCHANGED <<schedule_vars, semaphore_vars>>

\* The next waiter of the copy is resumed; it takes itself out of suspend_cid_set when its
\* wait is over.
ResumeWaiter ==
  /\ resuming /\ is_master_ /\ serving # NoSemaphore
  /\ \E c \in cid_set :
       /\ value[serving] > 0
       /\ cid_set' = cid_set \ {c}
       /\ CoroutineResume(c)
  /\ UNCHANGED <<calls, master_vars, semaphore_vars, todo, serving>>

\* The copy has been gone through, or the value has been used up.
Served ==
  /\ resuming /\ is_master_ /\ serving # NoSemaphore
  /\ cid_set = {} \/ value[serving] = 0
  /\ serving' = NoSemaphore
  /\ cid_set' = {}
  /\ UNCHANGED <<schedule_vars, semaphore_vars, todo>>

CoSemaphoreResumeEnd ==
  /\ todo = {} /\ serving = NoSemaphore
  /\ ResumeEnd
  /\ UNCHANGED <<semaphore_vars, loop_vars>>

CoSemaphoreResume ==
  \/ \E s \in Semaphores : Visit(s)
  \/ ResumeWaiter \/ Served \/ CoSemaphoreResumeEnd

-----------------------------------------------------------------------------

SemaphoreTypeOK ==
  /\ value \in [Semaphores -> Nat]
  /\ suspend_cid_set \in [Semaphores -> SUBSET Cids]
  /\ todo \subseteq Semaphores
  /\ serving \in Semaphores \cup {NoSemaphore}
  /\ cid_set \subseteq Cids
=============================================================================
