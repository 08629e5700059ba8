------------------------------ MODULE HalfSync ------------------------------
(***************************************************************************)
(* The servers made of the loops of Reactor, and what two of them have     *)
(* besides: the half-sync/half-async servers EpollReactorThreadPoolHSHA1   *)
(* and HSHA2.  Their io threads read requests and put a connection whose   *)
(* request is complete in a queue that all threads share.  A worker takes  *)
(* it out, encodes the answer, and writes it itself (direct) or asks the   *)
(* connection's io thread to.  HSHA1 has a queue with a condition          *)
(* variable, HSHA2 a bounded buffer of two semaphores.                     *)
(*                                                                         *)
(* A connection is passed on by its address, and one-shot events are what  *)
(* keeps it to one thread at a time.                                       *)
(***************************************************************************)
EXTENDS Reactor

CONSTANTS
  Workers,            \* the worker threads
  queue_buffer_size   \* places in the queue of HSHA2

ASSUME HalfSyncAssumption == queue_buffer_size \in Nat \ {0} /\ IsFiniteSet(Workers)

VARIABLES
  worker_at,  \* worker_at[w]: where the worker is
  conn,       \* conn[w]: the connection it has taken out of the queue
  Queue,
  Idle, Fill  \* the semaphores of HSHA2

worker_vars == <<worker_at, conn>>
queue_vars == <<Queue, Idle, Fill>>
option_vars == <<server, option>>
vars == <<option_vars, conn_vars, io_vars, main_vars, ended, worker_vars, queue_vars>>

Init ==
  /\ ConnInit
  /\ ReactorInit
  /\ worker_at = [w \in Workers |-> "get"]
  /\ conn = [w \in Workers |-> None]
  /\ Queue = <<>>
  /\ Idle = queue_buffer_size /\ Fill = 0

-----------------------------------------------------------------------------
(* The io thread.                                                          *)

\* Mutant: no place is taken.
WaitIdleFree(i) ==
  /\ IoRuns(i, "wait Idle")
  /\ Idle > 0
  /\ IoGoto(i, "push")
  /\ UNCHANGED <<io_conn, events, queue_vars>>

\* pushToQueue.  HSHA2 waits for a place first.
WaitIdle(i) ==
  /\ IoRuns(i, "wait Idle")
  /\ Idle > 0
  /\ Idle' = Idle - 1
  /\ IoGoto(i, "push")
  /\ UNCHANGED <<io_conn, events, Queue, Fill>>

Push(i, c) ==
  /\ IoRuns(i, "push")
  /\ Queue' = Append(Queue, c)
  /\ IoLeaves(i, "notify")
  /\ UNCHANGED <<events, Idle, Fill>>

\* Mutant: HSHA1 notifies nobody.
NotifyNobody(i) ==
  /\ IoRuns(i, "notify")
  /\ IoGoto(i, "next")
  /\ Fill' = IF server = "HSHA2" THEN Fill + 1 ELSE Fill
  /\ UNCHANGED <<worker_at, io_conn, events, conn, Queue, Idle>>

\* Then HSHA1 wakes one worker that waits, if there is one, and HSHA2 posts Fill.
Notify(i) ==
  LET waiting == {w \in Workers : worker_at[w] = "waiting"}
  IN /\ IoRuns(i, "notify")
     /\ IoGoto(i, "next")
     /\ \/ server = "HSHA1" /\ waiting = {} /\ UNCHANGED <<worker_at, Fill>>
        \/ /\ server = "HSHA1"
           /\ \E w \in waiting : worker_at' = [worker_at EXCEPT ![w] = "get"]
           /\ UNCHANGED Fill
        \/ server = "HSHA2" /\ Fill' = Fill + 1 /\ UNCHANGED worker_at
     /\ UNCHANGED <<io_conn, events, conn, Queue, Idle>>

-----------------------------------------------------------------------------
(* The worker.                                                             *)

WorkerGoto(w, p) == worker_at' = [worker_at EXCEPT ![w] = p]
WorkerRuns(w, p) == worker_at[w] = p

WorkerLeaves(w) == WorkerGoto(w, "get") /\ conn' = [conn EXCEPT ![w] = None]

Pop(w) ==
  /\ Queue # <<>>
  /\ conn' = [conn EXCEPT ![w] = Head(Queue)]
  /\ Queue' = Tail(Queue)

\* With a connection, the worker encodes the answer, and writes it or not.
EnCode(w, c) ==
  /\ use_len_' = [use_len_ EXCEPT ![c] = Pieces]
  /\ WorkerGoto(w, IF is_direct THEN "write" ELSE "mod")

\* getQueueData of HSHA1, with the queue locked.
GetQueueData(w) ==
  /\ server = "HSHA1" /\ WorkerRuns(w, "get")
  /\ \/ Pop(w) /\ EnCode(w, Head(Queue))
     \/ Queue = <<>> /\ WorkerGoto(w, "waiting") /\ UNCHANGED <<use_len_, conn, Queue>>
  /\ UNCHANGED <<Idle, Fill>>

\* A wait for a condition may return without a notification.
WakesUp ==
  /\ \E w \in Workers : WorkerRuns(w, "waiting") /\ WorkerGoto(w, "get")
  /\ UNCHANGED <<conn, queue_vars>>

\* getQueueData of HSHA2: it waits for Fill, takes the connection, posts Idle.
WaitFill(w) ==
  /\ server = "HSHA2" /\ WorkerRuns(w, "get")
  /\ Fill > 0
  /\ Fill' = Fill - 1
  /\ WorkerGoto(w, "pop")
  /\ UNCHANGED <<use_len_, conn, Queue, Idle>>

PopFilled(w) ==
  /\ WorkerRuns(w, "pop")
  /\ Pop(w)
  /\ WorkerGoto(w, "post Idle")
  /\ UNCHANGED <<use_len_, Idle, Fill>>

PostIdle(w) ==
  /\ WorkerRuns(w, "post Idle")
  /\ Idle' = Idle + 1
  /\ EnCode(w, conn[w])
  /\ UNCHANGED <<conn, Queue, Fill>>

\* The io thread is to write the answer.
WorkerAsks(w, c) ==
  /\ WorkerRuns(w, "mod")
  /\ ModToWriteEvent(c)
  /\ WorkerLeaves(w)
  /\ UNCHANGED <<home, codec_vars, peer_vars>>

\* The worker tries again and again as long as it would block.
WorkerWrite(w, c) ==
  /\ WorkerRuns(w, "write")
  /\ \/ WriteSome(c) /\ UNCHANGED <<event_vars, worker_vars>>
     \/ Answer(c) /\ WorkerLeaves(w)
     \/ WriteFails(c) /\ Release({c}) /\ WorkerLeaves(w)

-----------------------------------------------------------------------------
\* What the loop i does next, other than to accept a connection.
IoStep(i) ==
  /\ \/ LoopStep(i) /\ UNCHANGED <<worker_vars, queue_vars>>
     \/ /\ WaitIdle(i) \/ Push(i, io_conn[i])
        /\ UNCHANGED <<conn_vars, main_vars, ended, worker_vars>>
     \/ Notify(i) /\ UNCHANGED <<conn_vars, main_vars, ended>>
  /\ UNCHANGED option_vars

AcceptStep(i, c) ==
  Accept(i, c) /\ UNCHANGED <<option_vars, io_vars, main_vars, ended, worker_vars, queue_vars>>

MainReactorStep(m, c) ==
  MainStep(m, c) /\ UNCHANGED <<option_vars, worker_vars, queue_vars>>

WorkerStep(w) ==
  /\ \/ /\ GetQueueData(w) \/ WaitFill(w) \/ PopFilled(w) \/ PostIdle(w)
        /\ UNCHANGED <<event_vars, decoded, send_len_, peer_vars>>
     \/ \E c \in {conn[w]} \cap Conns :
          /\ WorkerAsks(w, c) \/ WorkerWrite(w, c)
          /\ UNCHANGED queue_vars
  /\ UNCHANGED <<option_vars, io_vars, main_vars, ended>>

server_vars ==
  <<option_vars, home, armed, codec_vars, io_vars, main_vars, ended, worker_vars, queue_vars>>

PeerStep(c) ==
  /\ PeerSends(c) \/ PeerReceives(c) \/ PeerCloses(c)
  /\ UNCHANGED server_vars

\* A thread writes again to a connection that the peer has closed or reset.
PipeBreaks(t, c) ==
  /\ \/ t \in Ios \ ended /\ IoRuns(t, "write") /\ io_conn[t] = c
     \/ t \in Workers /\ ended = {} /\ WorkerRuns(t, "write") /\ conn[t] = c
  /\ send_len_[c] > 0 /\ WriteFails(c)
  /\ Ends(t)
  /\ UNCHANGED <<option_vars, index, worker_vars, queue_vars>>

Next ==
  \/ \E i \in Ios \ ended :
       \/ IoStep(i)
       \/ \E c \in Conns : AcceptStep(i, c)
  \/ \E m \in Mains \ ended, c \in Conns :
       \/ MainReactorStep(m, c)
       \/ MainAcceptStep(m, c) /\ UNCHANGED <<option_vars, worker_vars, queue_vars>>
  \/ \E w \in Workers : ended = {} /\ IsHSHA /\ WorkerStep(w)
  \/ ended = {} /\ WakesUp /\ UNCHANGED <<option_vars, conn_vars, io_vars, main_vars, ended>>
  \/ \E c \in Conns : ended # Threads /\ PeerStep(c)
  \/ \E t \in Ios \cup Workers, c \in Conns : PipeBreaks(t, c)
  \/ ended = Threads /\ UNCHANGED vars

Spec == Init /\ [][Next]_vars

PeerMustGoOn(c) ==
  ~ Blocks /\ asked[c] \in 1 .. Pieces - 1 /\ (PeerSends(c) \/ PeerCloses(c))

PeerGoesOn(c) ==
  /\ PeerReceives(c) \/ PeerMustGoOn(c)
  /\ UNCHANGED server_vars

\* Threads go on.  Peers read what they are sent.  A thread that waits for a place in the
\* queue gets one in the end.  Of a server with blocking sockets, which serves nobody else
\* meanwhile, a peer that has begun a request completes it or closes.
FairSpec ==
  /\ Spec
  /\ \A i \in Ios : SF_vars(i \notin ended /\ IoStep(i))
  /\ \A m \in Mains, c \in Conns : WF_vars(m \notin ended /\ MainReactorStep(m, c))
  /\ \A w \in Workers : WF_vars(ended = {} /\ IsHSHA /\ WorkerStep(w))
  /\ \A c \in Conns : WF_vars(ended # Threads /\ PeerGoesOn(c))

-----------------------------------------------------------------------------
\* The variables have their types.  A worker that has passed Fill finds a connection in
\* the queue, and no more than queue_buffer_size of them are there.
TypeOK ==
  /\ ReactorTypeOK
  /\ worker_at \in [Workers -> {"get", "waiting", "pop", "post Idle", "mod", "write"}]
  /\ conn \in [Workers -> Conns \cup {None}]
  /\ Queue \in Seq(Conns)
  /\ Idle \in 0 .. queue_buffer_size
  /\ Fill \in 0 .. queue_buffer_size
  /\ server = "HSHA2" =>
       /\ Len(Queue) + Idle <= queue_buffer_size
       /\ Fill + Cardinality({w \in Workers : WorkerRuns(w, "pop")}) <= Len(Queue)

\* How often the connection c is kept outside what waits for events.
Held(c) ==
  Cardinality({e \in Ios \X {"read", "write"} : <<c, e[2]>> \in events[e[1]]})
    + Cardinality({i \in Ios : io_conn[i] = c})
    + Cardinality({n \in 1 .. Len(Queue) : Queue[n] = c})
    + Cardinality({w \in Workers : conn[w] = c})
    + Cardinality({p \in Mains \X Ios : \E n \in DOMAIN passing[p] : passing[p][n] = c})

\* Whether a thread other than its io thread has c, or is about to have it.
HandedOver(c) ==
  \/ \E n \in 1 .. Len(Queue) : Queue[n] = c
  \/ \E w \in Workers : conn[w] = c
  \/ \E p \in Mains \X Ios : \E n \in DOMAIN passing[p] : passing[p][n] = c

\* A connection is in one place: it is used by no two threads, used by nobody when it is
\* deleted, and forgotten by nobody, for when no thread has it its events are watched.  While
\* it is in the queue, with a worker or on the way to another process, they are not.  Nothing
\* is left to a process that has ended.
SoleOwner ==
  \A c \in Conns :
    /\ home[c] = None => Held(c) = 0
    /\ home[c] # None => Held(c) = 1 \/ (Held(c) = 0 /\ armed[c] # "none")
    /\ HandedOver(c) => armed[c] = "none"
    /\ ~ OneProcess => home[c] \notin ended

\* A request that is complete is answered, unless its connection or the process that serves
\* it ends first, in spite of what the other peers do, of a full queue and of busy workers.
Answers(c) ==
  peer[c] = "open" /\ asked[c] = Pieces ~>
    peer[c] = "closed" \/ asked[c] = 0 \/ (OneProcess /\ ended = Threads)
=============================================================================
