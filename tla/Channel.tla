------------------------------ MODULE Channel ------------------------------
(***************************************************************************)
(* Channel: a buffer between slaves, guarded by two semaphores: idle, the  *)
(* room that is left, and fill, the messages that are in it.  Whoever adds *)
(* or takes a message posts to the other semaphore.                        *)
(***************************************************************************)
EXTENDS Semaphore, Sequences

CONSTANTS
  Messages,      \* what is sent
  NoMessage,     \* none of them
  buffer_size    \* the room of the channel

ASSUME BufferAssumption ==
  /\ buffer_size \in Nat
  /\ NoMessage \notin Messages
  /\ Semaphores = {"idle", "fill"}
  /\ InitialValue["idle"] = buffer_size
  /\ InitialValue["fill"] = 0

VARIABLES
  buffer,    \* CoChannel::buffer
  waiting,   \* waiting[c]: the semaphore whose CoSemaphoreWait c is inside
  data       \* data[c]: the message c waits to send

vars == <<schedule_vars, semaphore_vars, loop_vars, buffer, waiting, data>>
client_vars == <<buffer, waiting, data>>

Init ==
  /\ ScheduleInit
  /\ SemaphoreInit
  /\ buffer = <<>>
  /\ waiting = [c \in Cids |-> NoSemaphore]
  /\ data = [c \in Cids |-> NoMessage]

InEntry == ~ is_master_ /\ waiting[slave_cid_] = NoSemaphore

-----------------------------------------------------------------------------
(* The calls of the running slave.  From the end of its wait to the end of *)
(* the call a slave does not yield, so that is one step.                   *)

StopWaiting == waiting' = [waiting EXCEPT ![slave_cid_] = NoSemaphore] /\ UNCHANGED pool_vars
KeepWaiting(s) == waiting' = [waiting EXCEPT ![slave_cid_] = s] /\ UNCHANGED buffer

\* Mutant: Receive does not post the room it made.
ReceivePostsNothing ==
  \/ /\ WaitPasses("fill")
     /\ value' = Taken("fill")
     /\ buffer' = Tail(buffer)
     /\ StopWaiting
  \/ WaitSuspends("fill") /\ KeepWaiting("fill")

\* Mutant: Send does not wait for room.
SendUnbounded(d) ==
  /\ value' = Posted("fill", value)
  /\ UNCHANGED suspend_cid_set
  /\ buffer' = Append(buffer, d)
  /\ data' = [data EXCEPT ![slave_cid_] = NoMessage]
  /\ StopWaiting

SendTurn(d) ==
  \/ /\ WaitPasses("idle")
     /\ value' = Posted("fill", Taken("idle"))
     /\ buffer' = Append(buffer, d)
     /\ data' = [data EXCEPT ![slave_cid_] = NoMessage]
     /\ StopWaiting
  \/ /\ WaitSuspends("idle")
     /\ data' = [data EXCEPT ![slave_cid_] = d]
     /\ KeepWaiting("idle")

ReceiveTurn ==
  \/ /\ WaitPasses("fill")
     /\ value' = Posted("idle", Taken("fill"))
     /\ buffer' = Tail(buffer)
     /\ StopWaiting
  \/ WaitSuspends("fill") /\ KeepWaiting("fill")

Send(d) ==
  /\ InEntry /\ Call
  /\ SendTurn(d)
  /\ UNCHANGED <<master_vars, loop_vars>>

Receive ==
  /\ InEntry /\ Call
  /\ ReceiveTurn
  /\ UNCHANGED <<master_vars, loop_vars, data>>

\* The call the slave was suspended in goes on.
WaitAgain ==
  /\ ~ is_master_
  /\ \/ waiting[slave_cid_] = "idle" /\ SendTurn(data[slave_cid_])
     \/ waiting[slave_cid_] = "fill" /\ ReceiveTurn /\ UNCHANGED data
  /\ UNCHANGED <<calls, master_vars, loop_vars>>

SlaveStep ==
  /\ InEntry
  /\ Yield \/ Spawn \/ Return
  /\ UNCHANGED <<semaphore_vars, loop_vars, client_vars>>

Slave ==
  \/ \E d \in Messages : Send(d)
  \/ Receive
  \/ WaitAgain
  \/ SlaveStep

-----------------------------------------------------------------------------

MasterStep ==
  /\ Create \/ RunBegin \/ \E c \in Cids : EventResume(c)
  /\ UNCHANGED <<semaphore_vars, loop_vars, client_vars>>

RunScanStep == RunScan({}) /\ UNCHANGED <<semaphore_vars, loop_vars, client_vars>>

ResumeCall == CoSemaphoreResumeBegin /\ UNCHANGED client_vars
ResumeStep == CoSemaphoreResume /\ UNCHANGED client_vars

Next == Slave \/ MasterStep \/ RunScanStep \/ ResumeCall \/ ResumeStep

\* The process's one thread keeps executing code, and an event loop calls
\* CoSemaphoreResume after every batch of events.
Fairness ==
  /\ WF_vars(Slave)
  /\ WF_vars(RunScanStep)
  /\ WF_vars(ResumeStep)
  /\ SF_vars(ResumeCall)

Spec == Init /\ [][Next]_vars
FairSpec == Spec /\ Fairness

-----------------------------------------------------------------------------
(* Properties.                                                             *)

\* Every variable has its type and the pool is consistent.
TypeOK ==
  /\ ScheduleTypeOK
  /\ SemaphoreTypeOK
  /\ buffer \in Seq(Messages)
  /\ waiting \in [Cids -> Semaphores \cup {NoSemaphore}]
  /\ data \in [Cids -> Messages \cup {NoMessage}]

\* The two semaphores of the channel split its room between them at every step: no room
\* and no message is lost or counted twice when a sender and a receiver are suspended,
\* resumed by the scan, by an event or by CoSemaphoreResume.
RoomAccounted ==
  /\ value["fill"] = Len(buffer)
  /\ value["idle"] + value["fill"] = buffer_size

\* A channel is a queue of at most buffer_size messages.
Queue == INSTANCE BoundedQueue WITH queue <- buffer, Capacity <- buffer_size
IsQueue == Queue!Spec

\* Nobody is left suspended at a semaphore that stays positive.
PositiveIsTaken ==
  \A s \in Semaphores :
    (value[s] > 0 /\ suspend_cid_set[s] # {}) ~> (value[s] = 0 \/ suspend_cid_set[s] = {})
=============================================================================
