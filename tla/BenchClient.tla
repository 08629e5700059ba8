----------------------------- MODULE BenchClient -----------------------------
(***************************************************************************)
(* A thread of BenchMark2: an event loop, and a coroutine for each client. *)
(* A client connects, sends a message and receives its echo, over and over *)
(* again; connecting, writing and reading each start a timer and suspend   *)
(* the client until the event arrives or the timer is due.  A timer of the *)
(* program renews the number of requests the clients may make per second   *)
(* and resumes the clients that were stopped by it; another one ends the   *)
(* run: it tells the clients to finish, and comes back until they have.    *)
(*                                                                         *)
(* The coroutine c is the client c: they are created in this order in a    *)
(* pool of their number.  The peer and the network answer in any way, but  *)
(* an answer that is complete is the echo.  A system call that is          *)
(* interrupted is made again at once and not modelled.                     *)
(***************************************************************************)
EXTENDS EventLoop

CONSTANTS
  rate_limit_,     \* requests per second, of all clients
  max_req_count_,  \* requests on one connection
  Pieces,          \* bound: parts in which a message is written and read
  MaxTimers        \* bound: timers of one client that are in use or not yet dropped

ASSUME ClientAssumption ==
  /\ rate_limit_ \in Nat
  /\ {max_req_count_, Pieces, MaxTimers} \subseteq Nat \ {0}

InitStartTimer == <<-2, 1>>
RateLimitTimer == <<-3, 1>>
StopTimer == <<-4, 1>>
ClientTimers(c) == {<<c, n>> : n \in 1 .. MaxTimers}
Timers == {InitStartTimer, RateLimitTimer, StopTimer} \cup UNION {ClientTimers(c) : c \in Cids}

Waits == {"connecting", "writing", "reading"}
Points == Waits \cup {"loop", "connect", "send", "write", "recv", "read", "clear", "done"}

VARIABLES
  at,               \* at[c]: where the client is in Client::Run and what it calls
  fd_,              \* fd_[c]: it has a descriptor (otherwise -1)
  left,             \* left[c]: parts of the message still to be written or read
  timer_id,         \* timer_id[c]: the timer of the call it is in, or NoTimer
  is_time_out,      \* is_time_out[c]: that timer's handler has run
  is_stop_,         \* Client::is_stop_
  success_count,    \* success_count[c]: modulo max_req_count_, which stands for 0 but at the start
  temp_rate_limit_, \* requests that may still be made in this second
  clients_run,      \* Client::is_running_, the same for all clients
  next_client       \* the index of the loop over the clients in a handler

request_vars == <<at, fd_, left, timer_id, is_time_out, success_count>>
manager_vars == <<is_stop_, temp_rate_limit_, clients_run, next_client>>
client_vars == <<pool_vars, event_vars, request_vars, manager_vars>>

ClientInit ==
  /\ state = [c \in Cids |-> "kReady"]
  /\ slave_cid_ = kInvalidCid
  /\ not_idle_count_ = coroutine_count_
  /\ timers_ = {InitStartTimer, RateLimitTimer, StopTimer}
  /\ timer_ids_ = timers_
  /\ cancel_ids_ = {}
  /\ timer_data = NoTimer
  /\ interest = [c \in Cids |-> "none"]
  /\ events = {}
  /\ is_running_ = TRUE
  /\ phase = "next"
  /\ failed = "none"
  /\ at = [c \in Cids |-> "loop"]
  /\ fd_ = [c \in Cids |-> FALSE]
  /\ left = [c \in Cids |-> 0]
  /\ timer_id = [c \in Cids |-> NoTimer]
  /\ is_time_out = [c \in Cids |-> FALSE]
  /\ is_stop_ = [c \in Cids |-> FALSE]
  /\ success_count = [c \in Cids |-> 0]
  /\ temp_rate_limit_ = rate_limit_
  /\ clients_run = TRUE
  /\ next_client = 0

-----------------------------------------------------------------------------
(* The coroutine of a client.                                              *)

\* The client c has the thread and is at p.
Runs(c, p) == slave_cid_ = c /\ at[c] = p

Goto(c, p) == at' = [at EXCEPT ![c] = p]

\* A timer that is not in use; the bound lets a client finish a
\* call only when there is one for the call after it.
Unused(c) == {n \in 1 .. MaxTimers : <<c, n>> \notin timer_ids_}
HasTimer(c) == Unused(c) # {}
NextTimer(c) == <<c, CHOOSE n \in Unused(c) : \A m \in Unused(c) : n <= m>>

\* CoConnect, CoRead and CoWrite begin: they start a timer.
OpBegin(c) ==
  /\ TimerStart(NextTimer(c))
  /\ timer_id' = [timer_id EXCEPT ![c] = NextTimer(c)]
  /\ is_time_out' = [is_time_out EXCEPT ![c] = FALSE]

\* Mutant: the timer of a call that returns is left to run.
OpEndKeepsTimer(c) ==
  /\ UNCHANGED heap_vars
  /\ timer_id' = [timer_id EXCEPT ![c] = NoTimer]
  /\ is_time_out' = [is_time_out EXCEPT ![c] = FALSE]

\* They return, and the Defer cancels the timer unless it has run.
OpEnd(c) ==
  /\ IF is_time_out[c] THEN UNCHANGED heap_vars ELSE TimerCancel(timer_id[c])
  /\ timer_id' = [timer_id EXCEPT ![c] = NoTimer]
  /\ is_time_out' = [is_time_out EXCEPT ![c] = FALSE]

\* The call fails, the connection is closed.
OpFails(c, p) ==
  /\ OpEnd(c)
  /\ TcpClear(c)
  /\ fd_' = [fd_ EXCEPT ![c] = FALSE]
  /\ left' = [left EXCEPT ![c] = 0]
  /\ Goto(c, p)

\* The test of the loop, and the rate limit.
ClientLoop(c) ==
  /\ Runs(c, "loop")
  /\ IF ~ clients_run
       THEN /\ CoroutineRun
            /\ Goto(c, "done")
            /\ UNCHANGED <<temp_rate_limit_, is_stop_>>
       ELSE /\ temp_rate_limit_' = temp_rate_limit_ - 1
            /\ IF temp_rate_limit_ <= 0
                 THEN /\ is_stop_' = [is_stop_ EXCEPT ![c] = TRUE]
                      /\ CoroutineYield
                      /\ UNCHANGED at
                 ELSE /\ Goto(c, IF fd_[c] THEN "send" ELSE "connect")
                      /\ UNCHANGED <<is_stop_, pool_vars>>
  /\ UNCHANGED <<event_vars, fd_, left, timer_id, is_time_out, success_count, clients_run,
                 next_client>>

\* connect succeeds or fails at once.
ConnectAtOnce(c) ==
  /\ Runs(c, "connect")
  /\ \/ HasTimer(c) /\ Goto(c, "send") /\ fd_' = [fd_ EXCEPT ![c] = TRUE]
     \/ Goto(c, "loop") /\ UNCHANGED fd_
  /\ UNCHANGED <<pool_vars, event_vars, left, timer_id, is_time_out, success_count,
                 manager_vars>>

\* connect is in progress.
ConnectBegin(c) ==
  /\ Runs(c, "connect")
  /\ HasTimer(c)
  /\ OpBegin(c)
  /\ TcpStart(c, "write")
  /\ fd_' = [fd_ EXCEPT ![c] = TRUE]
  /\ Goto(c, "connecting")
  /\ CoroutineYield
  /\ UNCHANGED <<loop_vars, failed, left, success_count, manager_vars>>

ConnectEnd(c) ==
  /\ Runs(c, "connecting")
  /\ \/ /\ ~ is_time_out[c] /\ HasTimer(c)
        /\ OpEnd(c)
        /\ TcpClear(c)
        /\ Goto(c, "send")
        /\ UNCHANGED <<fd_, left>>
     \/ OpFails(c, "loop")
  /\ UNCHANGED <<pool_vars, loop_vars, failed, success_count, manager_vars>>

\* CoWrite and CoRead are called, once for each part of the message, and the first time
\* after the descriptor is watched for that.
OpCall(c, next) ==
  /\ OpBegin(c)
  /\ Goto(c, next)
  /\ UNCHANGED <<pool_vars, loop_vars, failed, fd_, success_count, manager_vars>>

CallFirst(c, next, what) ==
  /\ OpCall(c, next)
  /\ TcpStart(c, what)
  /\ left' = [left EXCEPT ![c] = Pieces]

SendBegin(c) == Runs(c, "send") /\ CallFirst(c, "writing", "write")
RecvBegin(c) == Runs(c, "recv") /\ CallFirst(c, "reading", "read")
CoWrite(c) == Runs(c, "write") /\ OpCall(c, "writing") /\ UNCHANGED <<interest, left>>
CoRead(c) == Runs(c, "read") /\ OpCall(c, "reading") /\ UNCHANGED <<interest, left>>

\* write or read would block.
WouldBlock(c) ==
  /\ Runs(c, "writing") \/ Runs(c, "reading")
  /\ ~ is_time_out[c]
  /\ CoroutineYield
  /\ UNCHANGED <<event_vars, request_vars, manager_vars>>

\* A part of the message has been written or read.
Part(c, p, next, n) ==
  /\ Runs(c, p)
  /\ ~ is_time_out[c] /\ HasTimer(c)
  /\ OpEnd(c)
  /\ left' = [left EXCEPT ![c] = n]
  /\ Goto(c, next)
  /\ UNCHANGED <<pool_vars, loop_vars, interest, failed, fd_, manager_vars>>

WritePart(c) ==
  \E n \in 0 .. left[c] - 1 :
    Part(c, "writing", IF n = 0 THEN "recv" ELSE "write", n) /\ UNCHANGED success_count

ReadPart(c) ==
  \E n \in 1 .. left[c] - 1 : Part(c, "reading", "read", n) /\ UNCHANGED success_count

\* The peer has reset the connection: a write raises SIGPIPE, which the program does not
\* handle, and the process ends.
PipeBreaks(c) ==
  /\ Runs(c, "writing")
  /\ ~ is_time_out[c]
  /\ failed' = "pipe"
  /\ UNCHANGED <<pool_vars, heap_vars, loop_vars, interest, request_vars, manager_vars>>

\* A write fails in another way or is too late.
WriteFails(c) ==
  /\ Runs(c, "writing")
  /\ OpFails(c, "loop")
  /\ UNCHANGED <<pool_vars, loop_vars, failed, success_count, manager_vars>>

\* The peer has closed the connection, or the answer is too late.
ReadFails(c) ==
  /\ Runs(c, "reading")
  /\ OpFails(c, "clear")
  /\ UNCHANGED <<pool_vars, loop_vars, failed, success_count, manager_vars>>

\* A read that fails otherwise is decoded as if -1 bytes had come: depending on what is
\* in the buffer DeCode does not come back, or returns without a message.  The system
\* reports an error once, and then the end of the stream.
ReadError(c) ==
  /\ left[c] > 0
  /\ \/ Part(c, "reading", "read", 0) /\ UNCHANGED success_count
     \/ /\ Runs(c, "reading") /\ ~ is_time_out[c]
        /\ OpEnd(c)
        /\ Goto(c, "read")
        /\ failed' = "decode"
        /\ UNCHANGED <<pool_vars, loop_vars, interest, fd_, left, success_count,
                       manager_vars>>

\* The echo is complete.  After max_req_count_ of them the connection is closed.
ReadAll(c) ==
  /\ Runs(c, "reading")
  /\ left[c] > 0
  /\ ~ is_time_out[c] /\ HasTimer(c)
  /\ success_count' = [success_count EXCEPT ![c] = (@ % max_req_count_) + 1]
  /\ IF success_count'[c] = max_req_count_
       THEN OpFails(c, "clear")
       ELSE /\ OpEnd(c)
            /\ left' = [left EXCEPT ![c] = 0]
            /\ Goto(c, "clear")
            /\ UNCHANGED <<interest, fd_>>
  /\ UNCHANGED <<pool_vars, loop_vars, failed, manager_vars>>

\* The descriptor is removed from epoll.  Epoll refuses what it does not watch, and -1: an
\* assertion stops the process.
ClearEvent(c) ==
  /\ Runs(c, "clear")
  /\ IF interest[c] # "none"
       THEN TcpClear(c) /\ Goto(c, "loop") /\ UNCHANGED failed
       ELSE failed' = "clear" /\ UNCHANGED <<interest, at>>
  /\ UNCHANGED <<pool_vars, heap_vars, loop_vars, fd_, left, timer_id, is_time_out,
                 success_count, manager_vars>>

-----------------------------------------------------------------------------
(* The handlers of the timers.  A handler that goes through the clients    *)
(* resumes them one by one.                                                *)

\* The handler of a call of c: it resumes c, which sees is_time_out.
TimeOutCallBack(c) ==
  /\ \E t \in ClientTimers(c) : TimerDue(t) /\ timer_ids_' = timer_ids_ \ {t}
  /\ is_time_out' = [is_time_out EXCEPT ![c] = TRUE]
  /\ CoroutineResume(c)
  /\ phase' = "next"
  /\ UNCHANGED <<timers_, is_running_, at, fd_, left, timer_id, success_count, manager_vars>>

\* A handler begins to go through the clients.
EachClient(t, p) ==
  /\ TimerDue(t)
  /\ timer_ids_' = timer_ids_ \ {t}
  /\ phase' = p
  /\ next_client' = 0
  /\ UNCHANGED <<pool_vars, timers_, is_running_, request_vars, is_stop_, clients_run>>

InitStartBegin == EachClient(InitStartTimer, "InitStart") /\ UNCHANGED temp_rate_limit_

RateLimitRefresh ==
  EachClient(RateLimitTimer, "ReStart") /\ temp_rate_limit_' = rate_limit_

InitStart ==
  /\ phase = "InitStart"
  /\ next_client < coroutine_count_
  /\ CoroutineResume(next_client)
  /\ next_client' = next_client + 1
  /\ UNCHANGED <<event_vars, request_vars, is_stop_, temp_rate_limit_, clients_run>>

InitStartEnd ==
  /\ is_master_ /\ phase = "InitStart"
  /\ next_client = coroutine_count_
  /\ phase' = "next"
  /\ UNCHANGED <<pool_vars, heap_vars, timer_data, events, is_running_, interest, failed,
                 request_vars, manager_vars>>

\* Mutant: the first client is never started again.
ReStartSkipsFirst ==
  /\ is_master_ /\ phase = "ReStart"
  /\ next_client < coroutine_count_
  /\ IF is_stop_[next_client] /\ next_client > 0
       THEN /\ is_stop_' = [is_stop_ EXCEPT ![next_client] = FALSE]
            /\ CoroutineResume(next_client)
       ELSE UNCHANGED <<is_stop_, pool_vars>>
  /\ next_client' = next_client + 1
  /\ UNCHANGED <<event_vars, request_vars, temp_rate_limit_, clients_run>>

ReStart ==
  /\ is_master_ /\ phase = "ReStart"
  /\ next_client < coroutine_count_
  /\ IF is_stop_[next_client]
       THEN /\ is_stop_' = [is_stop_ EXCEPT ![next_client] = FALSE]
            /\ CoroutineResume(next_client)
       ELSE UNCHANGED <<is_stop_, pool_vars>>
  /\ next_client' = next_client + 1
  /\ UNCHANGED <<event_vars, request_vars, temp_rate_limit_, clients_run>>

\* The handler starts its timer again.
RateLimitRefreshEnd ==
  /\ is_master_ /\ phase = "ReStart"
  /\ next_client = coroutine_count_
  /\ TimerStart(RateLimitTimer)
  /\ phase' = "next"
  /\ UNCHANGED <<pool_vars, timer_data, events, is_running_, interest, failed, request_vars,
                 manager_vars>>

\* Mutant: the handler comes only once.
StopHandlerOnce ==
  /\ TimerDue(StopTimer)
  /\ timer_ids_' = timer_ids_ \ {StopTimer}
  /\ IF not_idle_count_ <= 0 THEN SetFinish ELSE UNCHANGED is_running_
  /\ clients_run' = FALSE
  /\ phase' = "next"
  /\ UNCHANGED <<pool_vars, timers_, request_vars, is_stop_, temp_rate_limit_, next_client>>

\* The clients are told to finish; the loop ends when they have, or else the timer is
\* started again.
StopHandler ==
  /\ TimerDue(StopTimer)
  /\ IF not_idle_count_ <= 0
       THEN SetFinish /\ timer_ids_' = timer_ids_ \ {StopTimer} /\ UNCHANGED timers_
       ELSE timers_' = timers_ \cup {StopTimer} /\ UNCHANGED <<timer_ids_, is_running_>>
  /\ clients_run' = FALSE
  /\ phase' = "next"
  /\ UNCHANGED <<pool_vars, request_vars, is_stop_, temp_rate_limit_, next_client>>

-----------------------------------------------------------------------------
ClientStep(c) ==
  \/ ClientLoop(c) \/ ConnectAtOnce(c) \/ ConnectBegin(c) \/ ConnectEnd(c)
  \/ SendBegin(c) \/ CoWrite(c) \/ WritePart(c) \/ WriteFails(c) \/ PipeBreaks(c)
  \/ RecvBegin(c) \/ CoRead(c) \/ ReadPart(c) \/ ReadAll(c) \/ ReadFails(c) \/ ReadError(c)
  \/ WouldBlock(c) \/ ClearEvent(c)

\* The loop takes out the timer t, or none, and waits.
Turn(t) == EpollWait(t) /\ UNCHANGED <<pool_vars, request_vars, manager_vars>>

LoopStep ==
  /\ \/ \E t \in timers_ \cup {NoTimer} : EpollWaitFails(t)
     \/ TimerNotDue \/ LoopEnds
  /\ UNCHANGED <<pool_vars, request_vars, manager_vars>>

EventStep(c) == HandleEvent(c) /\ UNCHANGED <<request_vars, manager_vars>>

\* The timer t, which the loop has taken out, is due.
Due(t) ==
  /\ timer_data = t
  /\ \/ \E c \in Cids : TimeOutCallBack(c)
     \/ InitStartBegin \/ RateLimitRefresh \/ StopHandler
     \/ TimerCancelled /\ UNCHANGED <<pool_vars, request_vars, manager_vars>>

HandlerStep == InitStart \/ InitStartEnd \/ ReStart \/ RateLimitRefreshEnd

\* The process has ended, or an assertion or a signal has stopped it, or DeCode never returns.
Stopped == phase = "over" \/ failed # "none"

ClientNext ==
  \/ /\ ~ Stopped
     /\ \/ \E c \in Cids : ClientStep(c) \/ EventStep(c)
        \/ \E t \in timers_ \cup {NoTimer} : Turn(t)
        \/ LoopStep \/ Due(timer_data) \/ HandlerStep
  \/ Stopped /\ UNCHANGED client_vars

ClientSpec == ClientInit /\ [][ClientNext]_client_vars

\* The thread goes on.  A deadline does not change and time passes: a timer comes to the
\* front of the heap, and is due then or when it has come there again.
FairClientSpec ==
  /\ ClientSpec
  /\ WF_client_vars(ClientNext)
  /\ \A t \in Timers : SF_client_vars(~ Stopped /\ Turn(t)) /\ SF_client_vars(~ Stopped /\ Due(t))

-----------------------------------------------------------------------------
\* The variables have their types, and the pool is consistent.
ClientTypeOK ==
  /\ PoolOK
  /\ timers_ \subseteq Timers
  /\ timer_ids_ \subseteq Timers
  /\ cancel_ids_ \subseteq Timers
  /\ timer_data \in Timers \cup {NoTimer}
  /\ interest \in [Cids -> Interest]
  /\ events \subseteq Cids
  /\ is_running_ \in BOOLEAN
  /\ phase \in {"next", "events", "InitStart", "ReStart", "over"}
  /\ failed \in {"none", "empty", "clear", "decode", "pipe"}
  /\ at \in [Cids -> Points]
  /\ fd_ \in [Cids -> BOOLEAN]
  /\ left \in [Cids -> 0 .. Pieces]
  /\ timer_id \in [Cids -> Timers \cup {NoTimer}]
  /\ is_time_out \in [Cids -> BOOLEAN]
  /\ is_stop_ \in [Cids -> BOOLEAN]
  /\ success_count \in [Cids -> 0 .. max_req_count_]
  /\ temp_rate_limit_ \in -coroutine_count_ .. rate_limit_
  /\ clients_run \in BOOLEAN
  /\ next_client \in 0 .. coroutine_count_

\* A timer that can still run for a client is the one of the call the client is in, and
\* such a call has its timer until it has run: a handler never sets is_time_out of a call
\* that is over (the flag is on the stack of the call), and no call waits without a timer.
TimeOutHasWaiter ==
  \A c \in Cids :
    ClientTimers(c) \cap (timer_ids_ \ cancel_ids_)
      = IF at[c] \in Waits /\ ~ is_time_out[c] THEN {timer_id[c]} ELSE {}

\* An event that epoll has returned belongs to a slave that is suspended and still has the
\* descriptor and the Event object, although other handlers have run since.
EventHasWaiter ==
  \A c \in events :
    state[c] = "kSuspend" /\ interest[c] # "none" /\ fd_[c] /\ at[c] \in Waits

\* The assertions hold: a timer that is run or cancelled is known, nothing is watched when
\* a descriptor is added to epoll, and what is watched when its events are modified or
\* cleared is what the step before has asked for.  They have two exceptions, which come
\* about in no other way than the one stated.  A client that has closed its connection
\* before it clears the event clears -1 (client.hpp:66); and GetLastTimer finds ids with an
\* empty heap when failures of epoll_wait have lost the timers of both the rate limit and
\* the stop (eventloopcore.cpp:27).
FailuresKnown ==
  /\ phase = "events" /\ timer_data # NoTimer => timer_data \in timer_ids_
  /\ cancel_ids_ \subseteq timer_ids_
  /\ \A c \in Cids :
       CASE at[c] \in {"send", "connect"} -> interest[c] = "none"
         [] at[c] \in {"connecting", "write", "writing", "recv"} -> interest[c] = "write"
         [] at[c] \in {"read", "reading"} -> interest[c] = "read"
         [] at[c] = "clear" -> interest[c] = IF fd_[c] THEN "read" ELSE "none"
         [] OTHER -> interest[c] = "none"
  /\ failed = "clear" => \E c \in Cids : Runs(c, "clear") /\ ~ fd_[c]
  /\ failed = "empty" => {RateLimitTimer, StopTimer} \subseteq Lost

\* A client that the rate limit has stopped is not left stopped when there are requests
\* to be made: it stays so only until the next refresh has gone through the clients.
StoppedIsSpent ==
  \A c \in Cids :
    is_stop_[c] =>
      \/ temp_rate_limit_ < 0
      \/ phase = "ReStart" /\ (next_client <= c \/ ~ is_master_)

\* When the run time is over the clients finish one after the other and the loop ends,
\* unless the process has stopped before or a failure of epoll_wait has lost a timer.
RunEnds == ~ clients_run ~> (Stopped \/ Lost # {})

-----------------------------------------------------------------------------
\* "达到单次连接最大请求数" (client.hpp:170): a client that has made all requests of a
\* connection closes it and goes on.  The code passes the closed descriptor, -1 by then,
\* to TcpEventClear.
GoesOnAfterClose ==
  \A c \in Cids : Runs(c, "clear") /\ success_count[c] = max_req_count_ => failed = "none"
=============================================================================
