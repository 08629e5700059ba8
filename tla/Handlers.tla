------------------------------ MODULE Handlers ------------------------------
(***************************************************************************)
(* The servers in which one function serves a connection from its first    *)
(* request to its end: on blocking sockets (handlerClient with RecvMsg and *)
(* SendMsg) one connection at a time or on threads or processes of their   *)
(* own, or as a coroutine that yields when a socket is not ready.          *)
(*                                                                         *)
(* A server is described by a record of what its main is made of.  A       *)
(* worker is a thread or process with the loop of main or handler.         *)
(***************************************************************************)
EXTENDS Codec, SequencesExt, FiniteSets

CONSTANTS
  Conns,     \* bound: the connections that can be open at a time
  Requests,  \* bound: Requests[c], the messages that the peer of c sends, as they are on the wire
  Sendings,  \* bound: Sendings[c], the numbers of bytes at which that peer may pause
  Room,      \* bound: bytes that fit in a socket's send buffer
  None,      \* no connection; among events, the listening socket
  Servers    \* bound: the servers below, with these sizes of the pool of coroutines or consumers

ASSUME HandlersAssumption ==
  /\ None \notin Conns /\ IsFiniteSet(Conns)
  /\ Room \in Nat \ {0}
  /\ DOMAIN Requests = Conns /\ DOMAIN Sendings = Conns

\* The length of a message fits in its head, and a peer sends nothing but its requests.
ASSUME RequestsAssumption ==
  \A c \in Conns :
    /\ Requests[c] \in Seq(Seq(Byte))
    /\ \A i \in 1 .. Len(Requests[c]) :
         \E msg \in {SubSeq(Requests[c][i], TINY_ECHO_HEAD_LEN + 1, Len(Requests[c][i]))} :
           Requests[c][i] = EnCode(msg) /\ Len(msg) < 256 ^ TINY_ECHO_HEAD_LEN
    /\ Sendings[c] \subseteq 0 .. Len(FlattenSeq(Requests[c]))

\* What the peers send, and after how many bytes their requests end.
Wire == [c \in Conns |-> FlattenSeq(Requests[c])]
Ends ==
  [c \in Conns |-> {Len(FlattenSeq(SubSeq(Requests[c], 1, n))) : n \in 0 .. Len(Requests[c])}]

-----------------------------------------------------------------------------
(* The servers.                                                            *)

\* workers; whether each has a listening socket of its own (SO_REUSEPORT), is a process, and
\* waits to be the leader; its loop; the most connections it accepts at once; what runs the
\* handler; through what connections go to the consumers.
SingleProcess ==
  [workers |-> 1, own |-> FALSE, processes |-> FALSE, leader |-> FALSE, loop |-> "accept",
   accepts |-> 1, handler |-> "worker", queue |-> "none", count |-> 0]
MultiThread == [SingleProcess EXCEPT !.handler = "thread"]
MultiProcess == [SingleProcess EXCEPT !.handler = "process"]
ThreadPool == [SingleProcess EXCEPT !.workers = 2, !.own = TRUE]
LeaderAndFollower == [SingleProcess EXCEPT !.workers = 2, !.leader = TRUE]
ProcessPool1 == [SingleProcess EXCEPT !.workers = 2, !.processes = TRUE]
ProcessPool2 == [ProcessPool1 EXCEPT !.own = TRUE]
Epoll == [SingleProcess EXCEPT !.loop = "events"]
Select == [Epoll EXCEPT !.accepts = 1024]
Poll == Select
Coroutine(n) == [Epoll EXCEPT !.accepts = 2048, !.handler = "coroutine", !.count = n]
ProcessPoolCoroutine(n) == [Coroutine(n) EXCEPT !.workers = 2, !.own = TRUE, !.processes = TRUE]
CoroutineHSHA1(n) == [Coroutine(n) EXCEPT !.queue = "channel"]
CoroutineHSHA2(n) == [Coroutine(n) EXCEPT !.queue = "cond"]

\* What all of them have in common, whatever the numbers of workers and coroutines.
ASSUME ServersAssumption ==
  \A s \in Servers :
    /\ s.workers \in Nat \ {0} /\ s.accepts \in Nat \ {0} /\ s.count \in Nat
    /\ s.loop \in {"accept", "events"}
    /\ s.handler \in {"worker", "thread", "process", "coroutine"}
    /\ s.handler = "coroutine" => s.loop = "events"
    /\ s.handler \in {"thread", "process"} => s.loop = "accept"
    /\ s.queue # "none" => s.handler = "coroutine" /\ s.workers = 1 /\ ~ s.processes

VARIABLES
  server,
  at,            \* at[c]: how far the connection is
  worker,        \* worker[c]: the worker, or the listening socket, that it is with
  armed,         \* armed[c]: what is watched on it
  codec, pkt,    \* of its handler: the codec, the bytes of the answer that are to be written
  open,          \* the connections that the peer has not closed
  sent, taken,   \* bytes that the peer has sent, that are read
  back, got,     \* the bytes written, how many of them the peer has
  backlog,       \* backlog[l]: connections of the listening socket l to be accepted
  Leader,        \* the worker that holds Mutex, 0 for none
  serves,        \* serves[w]: the connection whose handler the worker runs
  phase,         \* phase[w]: where the loop of the worker is
  events,        \* events[w]: what it has from epoll_wait and not handled
  q,             \* connections that wait for a consumer
  waiting,       \* consumers that wait for a connection
  notify_count,  \* notifications for the consumers
  ended          \* the workers that SIGPIPE, an assertion or an invalid read has ended

socket_vars == <<open, sent, taken, back, got>>
handler_vars == <<codec, pkt>>
accept_vars == <<backlog, Leader, phase, events>>
queue_vars == <<q, waiting, notify_count>>
server_vars == <<server, at, worker, armed, handler_vars, socket_vars, accept_vars, serves,
                 queue_vars, ended>>

Workers == 1 .. server.workers
Working == Workers \ ended
Listener(w) == IF server.own THEN w ELSE 1

InCoroutine == server.handler = "coroutine"
InWorker == server.handler = "worker"

HandlersInit ==
  /\ server \in Servers
  /\ at = [c \in Conns |-> "closed"]
  /\ worker = [c \in Conns |-> 0]
  /\ armed = [c \in Conns |-> "none"]
  /\ codec = [c \in Conns |-> NewCodec] /\ pkt = [c \in Conns |-> <<>>]
  /\ open = {}
  /\ sent = [c \in Conns |-> 0] /\ taken = sent /\ got = sent
  /\ back = [c \in Conns |-> <<>>]
  /\ backlog = [w \in Workers |-> <<>>]
  /\ Leader = 0
  /\ serves = [w \in Workers |-> None]
  /\ phase = [w \in Workers |-> "wait"]
  /\ events = [w \in Workers |-> {}]
  /\ q = <<>>
  /\ waiting = IF server.queue = "none" THEN 0 ELSE server.count
  /\ notify_count = 0
  /\ ended = {}

-----------------------------------------------------------------------------
\* The connections C are closed.
Close(C) ==
  LET Cleared(f, v) == [c \in Conns |-> IF c \in C THEN v ELSE f[c]]
  IN /\ at' = Cleared(at, "closed") /\ worker' = Cleared(worker, 0)
     /\ armed' = Cleared(armed, "none")
     /\ codec' = Cleared(codec, NewCodec) /\ pkt' = Cleared(pkt, <<>>)
     /\ open' = open \ C
     /\ sent' = Cleared(sent, 0) /\ taken' = Cleared(taken, 0) /\ got' = Cleared(got, 0)
     /\ back' = Cleared(back, <<>>)
     /\ serves' = [w \in Workers |-> IF serves[w] \in C THEN None ELSE serves[w]]

\* The process of w ends; the system closes its descriptors.
ProcessEnds(w) ==
  /\ UNCHANGED <<Leader, phase, queue_vars>>
  /\ IF server.processes
       THEN /\ ended' = ended \cup {w}
            /\ Close({c \in Conns : worker[c] = w /\ (at[c] = "backlog" => server.own)})
            /\ backlog' = IF server.own THEN [backlog EXCEPT ![w] = <<>>] ELSE backlog
            /\ events' = [events EXCEPT ![w] = {}]
       ELSE /\ ended' = Workers
            /\ UNCHANGED <<at, worker, armed, handler_vars, socket_vars, serves, backlog, events>>

\* SIGPIPE in a process that serves one connection ends this process only.
PipeBreaks(c) ==
  IF server.handler = "process"
    THEN Close({c}) /\ UNCHANGED <<accept_vars, queue_vars, ended>>
    ELSE ProcessEnds(worker[c])

-----------------------------------------------------------------------------
(* The handler of a connection.                                            *)

Runs(c) ==
  /\ at[c] \in {"read", "write"}
  /\ worker[c] \in Working
  /\ server.handler \in {"thread", "process"} \/ serves[worker[c]] = c

\* Mutant: the codec of the last message is used again.
NextCodecKept(k) == [NewCodec EXCEPT !.len_ = k.len_]

\* Each message has a codec of its own.
NextCodec(k) == NewCodec

Serve(c, w) ==
  /\ at' = [at EXCEPT ![c] = "read"]
  /\ worker' = [worker EXCEPT ![c] = w]
  /\ UNCHANGED <<handler_vars, socket_vars>>

\* Mutant: the events stay as they were first asked for.
ModEventKept(c, what) == UNCHANGED armed

\* ModToWriteEvent, ModToReadEvent: what a coroutine is to be resumed for.
ModEvent(c, what) == armed' = IF InCoroutine THEN [armed EXCEPT ![c] = what] ELSE armed

Least(m, n) == IF m < n THEN m ELSE n

\* One read, of what is there and has room, and DeCode; with the whole message, the answer is
\* encoded.
Read(c) ==
  LET n == Least(CanWriteLen(codec[c]), sent[c] - taken[c])
  IN /\ at[c] = "read" /\ taken[c] < sent[c] /\ ~ Spins(codec[c])
     /\ taken' = [taken EXCEPT ![c] = @ + n]
     /\ UNCHANGED <<worker, open, sent, back, got, serves, accept_vars, queue_vars, ended>>
     /\ \E k \in {DeCode(codec[c], SubSeq(Wire[c], taken[c] + 1, taken[c] + n))} :
          /\ codec' = [codec EXCEPT ![c] = k]
          /\ IF HasMessage(k)
               THEN /\ at' = [at EXCEPT ![c] = "write"]
                    /\ pkt' = [pkt EXCEPT ![c] = EnCode(k.msg_)]
                    /\ ModEvent(c, "write")
               ELSE UNCHANGED <<at, pkt, armed>>

CanWrite(c) == Room - (Len(back[c]) - got[c])

\* One write, of what there is room for; it is lost when the peer has closed the connection.
\* After the last of the answer the next request is read.
Write(c) ==
  /\ at[c] = "write"
  /\ IF c \in open
       THEN LET n == Least(CanWrite(c), Len(pkt[c]))
            IN /\ n > 0
               /\ back' = [back EXCEPT ![c] = @ \o SubSeq(pkt[c], 1, n)]
               /\ pkt' = [pkt EXCEPT ![c] = SubSeq(@, n + 1, Len(@))]
       ELSE pkt' = [pkt EXCEPT ![c] = <<>>] /\ UNCHANGED back
  /\ IF pkt'[c] = <<>>
       THEN /\ at' = [at EXCEPT ![c] = "read"]
            /\ codec' = [codec EXCEPT ![c] = NextCodec(@)]
            /\ ModEvent(c, "read")
       ELSE UNCHANGED <<at, codec, armed>>
  /\ UNCHANGED <<worker, open, sent, taken, got, serves, accept_vars, queue_vars, ended>>

\* EAGAIN: a coroutine yields to the loop.
Yields(c) ==
  /\ InCoroutine /\ c \in open
  /\ \/ at[c] = "read" /\ taken[c] = sent[c] /\ ~ Spins(codec[c])
     \/ at[c] = "write" /\ CanWrite(c) = 0
  /\ serves' = [serves EXCEPT ![worker[c]] = None]
  /\ UNCHANGED <<at, worker, armed, handler_vars, socket_vars, accept_vars, queue_vars, ended>>

\* The end of what the peer has sent, or an error; the handler returns.
Fails(c) ==
  /\ c \notin open /\ ~ Spins(codec[c])
  /\ \/ Close({c}) /\ UNCHANGED <<accept_vars, queue_vars, ended>>
     \/ at[c] = "write" /\ back[c] # <<>> /\ PipeBreaks(c)

HandlerStep(c) ==
  /\ Runs(c)
  /\ Read(c) \/ Write(c) \/ Yields(c) \/ Fails(c)
  /\ UNCHANGED server

-----------------------------------------------------------------------------
(* The loop that accepts.                                                  *)

Accepted(w) == Head(backlog[Listener(w)])
Accepts(w, n) ==
  LET l == Listener(w)
  IN backlog' = [backlog EXCEPT ![l] = SubSeq(@, n + 1, Len(@))]

BecomeLeader(w) ==
  /\ server.leader /\ serves[w] = None
  /\ Leader = 0
  /\ Leader' = w
  /\ UNCHANGED <<at, worker, armed, handler_vars, socket_vars, backlog, phase, events, serves,
                 queue_vars, ended>>

\* The connection is served by this worker, before the next one, or by a new thread or process.
Accept(w) ==
  /\ server.loop = "accept" /\ serves[w] = None
  /\ server.leader => Leader = w
  /\ backlog[Listener(w)] # <<>>
  /\ Accepts(w, 1)
  /\ Leader' = 0
  /\ Serve(Accepted(w), w)
  /\ serves' = IF InWorker THEN [serves EXCEPT ![w] = Accepted(w)] ELSE serves
  /\ UNCHANGED <<armed, phase, events, queue_vars, ended>>

ForkFails(w) ==
  /\ server.handler = "process"
  /\ backlog[Listener(w)] # <<>>
  /\ Accepts(w, 1)
  /\ Close({Accepted(w)})
  /\ UNCHANGED <<Leader, phase, events, queue_vars, ended>>

-----------------------------------------------------------------------------
(* The loop that waits for events.                                         *)

Ready(w) ==
  {c \in Conns :
     /\ worker[c] = w
     /\ \/ armed[c] \in {"read", "once"} /\ (taken[c] < sent[c] \/ c \notin open)
        \/ armed[c] = "write" /\ (CanWrite(c) > 0 \/ c \notin open)}
Returned(w) == Ready(w) \cup IF backlog[Listener(w)] # <<>> THEN {None} ELSE {}

Wait(w) ==
  /\ server.loop = "events" /\ phase[w] = "wait" /\ events[w] = {} /\ serves[w] = None
  /\ Returned(w) # {}
  /\ events' = [events EXCEPT ![w] = Returned(w)]
  /\ phase' = IF server.queue = "none" THEN phase ELSE [phase EXCEPT ![w] = "events"]
  /\ armed' = [c \in Conns |-> IF c \in Ready(w) /\ armed[c] = "once" THEN "none" ELSE armed[c]]
  /\ UNCHANGED <<at, worker, handler_vars, socket_vars, backlog, Leader, serves, queue_vars,
                 ended>>

\* LoopAccept.
AcceptAll(w) ==
  LET waits == backlog[Listener(w)]
      n == IF Len(waits) < server.accepts THEN Len(waits) ELSE server.accepts
      C == ToSet(SubSeq(waits, 1, n))
      watch == IF server.queue = "none" THEN "read" ELSE "once"
  IN /\ None \in events[w]
     /\ events' = [events EXCEPT ![w] = @ \ {None}]
     /\ Accepts(w, n)
     /\ at' = [c \in Conns |-> IF c \in C THEN "accepted" ELSE at[c]]
     /\ worker' = [c \in Conns |-> IF c \in C THEN w ELSE worker[c]]
     /\ armed' = [c \in Conns |-> IF c \in C THEN watch ELSE armed[c]]
     /\ UNCHANGED <<handler_vars, socket_vars, Leader, phase, serves, queue_vars, ended>>

Handled(w, c) == c \in Conns /\ events' = [events EXCEPT ![w] = @ \ {c}]
RunHandler(w, c) == serves' = [serves EXCEPT ![w] = c]

\* The handler on a blocking socket, which runs until the connection ends.
CallHandler(w, c) ==
  /\ InWorker /\ Handled(w, c)
  /\ RunHandler(w, c)
  /\ Serve(c, w)
  /\ UNCHANGED <<armed, backlog, Leader, phase, queue_vars, ended>>

\* Mutant: the pool has no limit.
CreateHandlerUnlimited(w, c) ==
  /\ InCoroutine /\ server.queue = "none" /\ at[c] = "accepted" /\ Handled(w, c)
  /\ RunHandler(w, c)
  /\ Serve(c, w)
  /\ UNCHANGED <<armed, backlog, Leader, phase, queue_vars, ended>>

\* The first event of a connection: its handler is a new coroutine.  When the pool is full,
\* CoroutineResume does not accept the id.
CreateHandler(w, c) ==
  /\ InCoroutine /\ server.queue = "none" /\ at[c] = "accepted" /\ Handled(w, c)
  /\ Cardinality({d \in Conns : worker[d] = w /\ at[d] \in {"read", "write"}}) < server.count
  /\ RunHandler(w, c)
  /\ Serve(c, w)
  /\ UNCHANGED <<armed, backlog, Leader, phase, queue_vars, ended>>

PoolIsFull(w, c) ==
  /\ InCoroutine /\ server.queue = "none" /\ at[c] = "accepted"
  /\ Cardinality({d \in Conns : worker[d] = w /\ at[d] \in {"read", "write"}}) = server.count
  /\ ProcessEnds(w)

\* The next events of a connection.
Resume(w, c) ==
  /\ at[c] \in {"read", "write"} /\ Handled(w, c)
  /\ RunHandler(w, c)
  /\ UNCHANGED <<at, worker, armed, handler_vars, socket_vars, backlog, Leader, phase, queue_vars,
                 ended>>

\* The Producer: the connection is watched no more and waits for a consumer.  There is room in
\* the channel.
Produce(w, c) ==
  /\ server.queue # "none" /\ at[c] = "accepted" /\ Handled(w, c)
  /\ at' = [at EXCEPT ![c] = "queued"]
  /\ armed' = [armed EXCEPT ![c] = "none"]
  /\ q' = Append(q, c)
  /\ notify_count' = IF server.queue = "cond" THEN notify_count + 1 ELSE notify_count
  /\ UNCHANGED <<worker, handler_vars, socket_vars, backlog, Leader, phase, serves, waiting,
                 ended>>

HandleEvent(w) ==
  /\ serves[w] = None
  /\ \/ AcceptAll(w)
     \/ \E c \in events[w] \cap Conns :
          \/ CallHandler(w, c) \/ CreateHandler(w, c) \/ PoolIsFull(w, c) \/ Resume(w, c)
          \/ Produce(w, c)

\* Mutant: the consumers are not resumed.
AfterEventsWaits(w) ==
  /\ phase[w] = "events" /\ events[w] = {} /\ serves[w] = None
  /\ phase' = [phase EXCEPT ![w] = "wait"]
  /\ UNCHANGED <<at, worker, armed, handler_vars, socket_vars, backlog, Leader, events, serves,
                 queue_vars, ended>>

\* After the events CoSemaphoreResume or CoCondResume is called.  The latter does nothing, and
\* keeps the notifications, when no consumer waits.
AfterEvents(w) ==
  /\ phase[w] = "events" /\ events[w] = {} /\ serves[w] = None
  /\ phase' = [phase EXCEPT ![w] =
       IF server.queue = "cond" /\ waiting = 0 THEN "wait" ELSE "resume"]
  /\ UNCHANGED <<at, worker, armed, handler_vars, socket_vars, backlog, Leader, events, serves,
                 queue_vars, ended>>

\* A consumer takes a connection, and serves this one only.
Consume(w) ==
  /\ q # <<>>
  /\ waiting' = waiting - 1
  /\ q' = Tail(q)
  /\ RunHandler(w, Head(q))
  /\ Serve(Head(q), w)
  /\ armed' = [armed EXCEPT ![Head(q)] = "read"]
  /\ UNCHANGED <<backlog, Leader, phase, events, ended>>

Resumes(w) == phase[w] = "resume" /\ serves[w] = None

CoSemaphoreResume(w) ==
  /\ server.queue = "channel" /\ Resumes(w) /\ waiting > 0
  /\ Consume(w)
  /\ UNCHANGED notify_count

CoCondResume(w) ==
  /\ server.queue = "cond" /\ Resumes(w) /\ notify_count > 0 /\ waiting > 0
  /\ notify_count' = notify_count - 1
  /\ Consume(w)

\* More notifications than consumers: the first of an empty set is read.  What is read is
\* taken for the id of a coroutine, which may be that of a handler that waits for an event.
CoCondResumeNobody(w) ==
  /\ server.queue = "cond" /\ Resumes(w) /\ notify_count > 0 /\ waiting = 0
  /\ \/ ProcessEnds(w)
     \/ /\ \E c \in Conns : at[c] \in {"read", "write"} /\ RunHandler(w, c)
        /\ notify_count' = notify_count - 1
        /\ UNCHANGED <<at, worker, armed, handler_vars, socket_vars, accept_vars, q, waiting,
                       ended>>

TurnEnds(w) ==
  /\ Resumes(w)
  /\ IF server.queue = "cond" THEN notify_count = 0 ELSE q = <<>> \/ waiting = 0
  /\ phase' = [phase EXCEPT ![w] = "wait"]
  /\ UNCHANGED <<at, worker, armed, handler_vars, socket_vars, backlog, Leader, events, serves,
                 queue_vars, ended>>

WorkerStep(w) ==
  /\ w \in Working
  /\ \/ BecomeLeader(w) \/ Accept(w) \/ ForkFails(w)
     \/ Wait(w) \/ HandleEvent(w) \/ AfterEvents(w)
     \/ CoSemaphoreResume(w) \/ CoCondResume(w) \/ CoCondResumeNobody(w) \/ TurnEnds(w)
  /\ UNCHANGED server

-----------------------------------------------------------------------------
(* The peers.                                                              *)

Connect(c) ==
  /\ at[c] = "closed"
  /\ \E w \in Working :
       /\ at' = [at EXCEPT ![c] = "backlog"]
       /\ worker' = [worker EXCEPT ![c] = Listener(w)]
       /\ backlog' = [backlog EXCEPT ![Listener(w)] = Append(@, c)]
  /\ open' = open \cup {c}
  /\ UNCHANGED <<server, armed, handler_vars, sent, taken, back, got, Leader, phase, events,
                 serves, queue_vars, ended>>

PeerSends(c) ==
  /\ \E n \in Sendings[c] :
       /\ sent[c] < n /\ \A m \in Sendings[c] : m <= sent[c] \/ n <= m
       /\ sent' = [sent EXCEPT ![c] = n]
  /\ UNCHANGED <<open, taken, back, got>>

PeerReceives(c) ==
  /\ got[c] < Len(back[c])
  /\ got' = [got EXCEPT ![c] = Len(back[c])]
  /\ UNCHANGED <<open, sent, taken, back>>

PeerCloses(c) ==
  /\ open' = open \ {c}
  /\ UNCHANGED <<sent, taken, back, got>>

PeerStep(c) ==
  /\ c \in open /\ Working # {}
  /\ PeerSends(c) \/ PeerReceives(c) \/ PeerCloses(c)
  /\ UNCHANGED <<server, at, worker, armed, handler_vars, accept_vars, serves, queue_vars, ended>>

\* Nobody serves, or all connections there can be wait for consumers that are not there.
Stops == Working = {} \/ (waiting = 0 /\ \A c \in Conns : at[c] = "queued")

HandlersNext ==
  \/ \E c \in Conns : HandlerStep(c) \/ Connect(c) \/ PeerStep(c)
  \/ \E w \in Workers : WorkerStep(w)
  \/ Stops /\ UNCHANGED server_vars

HandlersSpec == HandlersInit /\ [][HandlersNext]_server_vars

\* Workers and handlers go on, and peers read what they are sent.  Where a worker serves one
\* connection until it ends, peers go on to send their requests, and close in the end.
FairHandlersSpec ==
  /\ HandlersSpec
  /\ \A w \in 1 .. 2 : WF_server_vars(w \in Workers /\ WorkerStep(w))
  /\ \A c \in Conns :
       /\ WF_server_vars(HandlerStep(c))
       /\ WF_server_vars((InWorker \/ PeerReceives(c)) /\ PeerStep(c))

-----------------------------------------------------------------------------
\* The variables have their types.  There are as many coroutines and consumers as the pool has.
HandlersTypeOK ==
  /\ server \in Servers
  /\ at \in [Conns -> {"closed", "backlog", "accepted", "queued", "read", "write"}]
  /\ worker \in [Conns -> {0} \cup Workers]
  /\ armed \in [Conns -> {"none", "read", "once", "write"}]
  /\ \A c \in Conns :
       /\ codec[c].decode_status_ \in {"HEAD", "BODY", "FINISH"}
       /\ codec[c].data \in Seq(Byte) /\ pkt[c] \in Seq(Byte)
       /\ taken[c] <= sent[c] /\ got[c] <= Len(back[c]) /\ CanWrite(c) >= 0
  /\ \A w \in Workers : serves[w] \in Conns \cup {None} /\ events[w] \subseteq Conns \cup {None}
  /\ waiting + Cardinality({c \in Conns : at[c] \in {"read", "write"}}) <=
       IF InCoroutine THEN server.count * server.workers ELSE Cardinality(Conns)
  /\ waiting \in Nat /\ notify_count \in Nat
  /\ Leader \in {0} \cup Workers
  /\ ended \subseteq Workers

\* What the server writes is the echo of whole requests, in their order.
Echo == INSTANCE Echo
IsEcho == Echo!Spec

\* A codec takes in one message at the most, and has room for what it is to read: a read of no
\* bytes would be taken for the end of the connection.
OneMessageAtATime ==
  \A c \in Conns :
    /\ ~ Spins(codec[c])
    /\ at[c] = "read" => CanWriteLen(codec[c]) > 0

\* A connection is in one place: in a backlog, in the queue, with a handler that runs, or
\* watched for what its handler waits for.
InOnePlace ==
  \A c \in Conns :
    LET in_backlog == \E l \in Workers : c \in ToSet(backlog[l])
        in_queue == c \in ToSet(q)
        runs == \E w \in Workers : serves[w] = c
    IN /\ in_backlog <=> at[c] = "backlog"
       /\ in_queue <=> at[c] = "queued"
       /\ runs => at[c] \in {"read", "write"}
       /\ InCoroutine /\ at[c] \in {"read", "write"} => armed[c] = at[c]
       /\ armed[c] = "none" /\ at[c] = "accepted" => \E w \in Workers : c \in events[w]

\* Again and again all complete requests are answered, unless the connection or the server ends,
\* or the connection is in the queue when all consumers have had their connection.
Answered ==
  \A c \in Conns :
    []<>(\/ c \notin open
         \/ \A e \in Ends[c] : e <= sent[c] => e <= got[c]
         \/ Working = {}
         \/ waiting = 0 /\ at[c] = "queued")
=============================================================================
