------------------------------- MODULE Reactor -------------------------------
(***************************************************************************)
(* The loops of the servers that wait for events: the loop of the plain    *)
(* reactors (Reactor: EpollReactorSingleProcess with its options, and the  *)
(* same loop on each thread of EpollReactorThreadPool; ET: edge-triggered; *)
(* Select: select and poll on blocking sockets), the io threads of the     *)
(* half-sync/half-async servers (HSHA1, HSHA2), and main and sub reactors  *)
(* on threads or on processes (ThreadsMS, ProcessesMS).                    *)
(*                                                                         *)
(* A main reactor accepts and passes a connection on, at once or with its  *)
(* first event (mainread), to the sub reactors in turn: a thread puts it   *)
(* in the epoll of the other, a process sends the descriptor through a     *)
(* unix socket.  In every server each loop has an epoll of its own.        *)
(*                                                                         *)
(* A step of the model is the code from one access to what threads and the *)
(* peer share to the next: a system call and what follows it.              *)
(***************************************************************************)
EXTENDS Conn

CONSTANTS
  io_count,  \* the loops that serve connections
  Mains      \* the main reactors

ASSUME ReactorAssumption == io_count \in Nat \ {0}

Ios == 0 .. io_count - 1
Threads == Ios \cup Mains

ASSUME ThreadAssumption == Ios \cap Mains = {} /\ None \notin Threads

VARIABLES
  option,   \* the options of the command line
  io_at,    \* io_at[i]: where the loop is
  io_conn,  \* io_conn[i]: the connection it handles
  events,   \* events[i]: what it has from epoll_wait and not handled
  index,    \* index[m]: the sub reactor that got the last connection of m
  passing,  \* passing[<<m, i>>]: descriptors in the unix socket from m to i
  ended     \* the threads and processes that SIGPIPE or an invalid read has ended

io_vars == <<io_at, io_conn, events>>
main_vars == <<index, passing>>

IsHSHA == server \in {"HSHA1", "HSHA2"}
IsMS == server \in {"ThreadsMS", "ProcessesMS"}
OneProcess == server # "ProcessesMS"

Options(s) ==
  CASE s = "Reactor" -> SUBSET {"multiio", "writefirst"}
    [] s \in {"ThreadsMS", "ProcessesMS"} -> {{"multiio"}, {"multiio", "mainread"}}
    [] s \in {"HSHA1", "HSHA2"} -> {{"multiio"}, {"multiio", "direct"}}
    [] OTHER -> {{"multiio"}}

is_multi_io == "multiio" \in option
is_write_first == "writefirst" \in option
is_main_read == "mainread" \in option
is_direct == "direct" \in option

ReactorInit ==
  /\ server \in {"Reactor", "ET", "Select", "ThreadsMS", "ProcessesMS", "HSHA1", "HSHA2"}
  /\ option \in Options(server)
  /\ io_at = [i \in Ios |-> "next"]
  /\ io_conn = [i \in Ios |-> None]
  /\ events = [i \in Ios |-> {}]
  /\ index = [m \in Mains |-> 0]
  /\ passing = [p \in Mains \X Ios |-> <<>>]
  /\ ended = {}

-----------------------------------------------------------------------------
\* The process of t ends; the system closes its descriptors.
Ends(t) ==
  IF OneProcess
    THEN ended' = Threads /\ UNCHANGED <<conn_vars, io_vars, passing>>
    ELSE /\ ended' = ended \cup {t}
         /\ Release({c \in Conns : home[c] = t})
         /\ io_at' = [i \in Ios |-> IF i = t THEN "next" ELSE io_at[i]]
         /\ io_conn' = [i \in Ios |-> IF i = t THEN None ELSE io_conn[i]]
         /\ events' = [i \in Ios |-> IF i = t THEN {} ELSE events[i]]
         /\ passing' = [p \in Mains \X Ios |-> IF p[2] = t THEN <<>> ELSE passing[p]]

IoGoto(i, p) == io_at' = [io_at EXCEPT ![i] = p]
IoRuns(i, p) == io_at[i] = p

\* It is done with its connection.
IoLeaves(i, p) == IoGoto(i, p) /\ io_conn' = [io_conn EXCEPT ![i] = None]

\* The end of a main reactor's process is an event too.
UnixReady(i) == {m \in Mains : passing[<<m, i>>] # <<>> \/ (~ OneProcess /\ m \in ended)}

Returned(i) ==
  ReadReady(i) \X {"read"} \cup WriteReady(i) \X {"write"} \cup UnixReady(i) \X {"unix"}

\* Mutant: a connection is watched without EPOLLONESHOT.
EpollWaitManyShot(i) ==
  /\ IoRuns(i, "next") /\ events[i] = {}
  /\ Returned(i) # {}
  /\ events' = [events EXCEPT ![i] = Returned(i)]
  /\ edge' = edge \ (ReadReady(i) \cup WriteReady(i))
  /\ UNCHANGED armed

\* epoll_wait returns what is ready on its descriptors.  An event that is watched with
\* EPOLLONESHOT is disarmed.
EpollWait(i) ==
  /\ IoRuns(i, "next") /\ events[i] = {}
  /\ Returned(i) # {}
  /\ events' = [events EXCEPT ![i] = Returned(i)]
  /\ edge' = edge \ (ReadReady(i) \cup WriteReady(i))
  /\ armed' = [c \in Conns |-> IF IsHSHA /\ c \in ReadReady(i) THEN "none" ELSE armed[c]]

\* The event of the listening socket, which may be anywhere among the others: a peer has
\* connected.
Connects(c) ==
  /\ home[c] = None
  /\ peer' = [peer EXCEPT ![c] = "open"]
  /\ UNCHANGED <<codec_vars, asked, inbox, outbox, got>>

Accept(i, c) ==
  /\ ~ IsMS /\ IoRuns(i, "next")
  /\ Connects(c)
  /\ AddReadEvent(i, c)

\* It starts with the next of the events.
Handle(i) ==
  /\ IoRuns(i, "next")
  /\ \E e \in events[i] :
       /\ e[2] # "unix"
       /\ events' = [events EXCEPT ![i] = @ \ {e}]
       /\ io_conn' = [io_conn EXCEPT ![i] = e[1]]
       /\ IoGoto(i, e[2])

\* A sub reactor takes one descriptor out of a unix socket.  RecvFd does not tell the end of
\* the socket from a descriptor, and reads what is not there.
RecvFd(i, m) ==
  /\ IoRuns(i, "next") /\ <<m, "unix">> \in events[i]
  /\ IF passing[<<m, i>>] = <<>>
       THEN Ends(i)
       ELSE /\ AddReadEvent(i, Head(passing[<<m, i>>]))
            /\ passing' = [passing EXCEPT ![<<m, i>>] = Tail(@)]
            /\ events' = [events EXCEPT ![i] = @ \ {<<m, "unix">>}]
            /\ UNCHANGED <<io_at, io_conn, codec_vars, peer_vars, ended>>

\* What becomes of a request that is complete: a half-sync/half-async server pushes the
\* connection, the others encode the answer, and write it at once or when there is room.
OneMessage(i, c) ==
  CASE server = "HSHA1" -> IoGoto(i, "push") /\ UNCHANGED <<io_conn, armed, edge, use_len_>>
    [] server = "HSHA2" -> IoGoto(i, "wait Idle") /\ UNCHANGED <<io_conn, armed, edge, use_len_>>
    [] OTHER ->
         /\ use_len_' = [use_len_ EXCEPT ![c] = Pieces]
         /\ IF is_write_first
              THEN IoGoto(i, "write") /\ UNCHANGED <<io_conn, armed, edge>>
              ELSE ModToWriteEvent(c) /\ IoLeaves(i, "next")

\* Conn::Read goes on until the request is complete, or nothing is left to read, or it fails.
\* Without multiio it reads once.
ReadPart(i, c) ==
  /\ IoRuns(i, "read")
  /\ ReadSome(c)
  /\ IF decoded'[c] = Pieces
       THEN OneMessage(i, c)
       ELSE /\ IF is_multi_io THEN UNCHANGED <<io_at, io_conn>> ELSE IoLeaves(i, "next")
            /\ UNCHANGED <<armed, edge, use_len_>>
  /\ UNCHANGED <<home, events>>

\* A one-shot event has to be asked for again.
ReadPauses(i, c) ==
  /\ IoRuns(i, "read")
  /\ ReadBlocks(c)
  /\ IF IsHSHA THEN ModToReadEvent(c) ELSE UNCHANGED <<armed, edge>>
  /\ IoLeaves(i, "next")
  /\ UNCHANGED <<home, codec_vars, peer_vars, events>>

ReadFails(i, c) ==
  /\ IoRuns(i, "read")
  /\ peer[c] = "closed"
  /\ Release({c})
  /\ IoLeaves(i, "next")
  /\ UNCHANGED events

\* The answer is not written as a whole: the rest is written when there is room.
Unfinished(i, c) ==
  /\ IF armed[c] = "write" THEN UNCHANGED <<armed, edge>> ELSE ModToWriteEvent(c)
  /\ IoLeaves(i, "next")

IoWrite(i, c) ==
  /\ IoRuns(i, "write")
  /\ \/ /\ WriteSome(c)
        /\ IF is_multi_io \/ send_len_'[c] = use_len_[c]
             THEN UNCHANGED <<armed, edge, io_at, io_conn>>
             ELSE Unfinished(i, c)
        /\ UNCHANGED home
     \/ Answer(c) /\ IoLeaves(i, "next")
     \/ ~ FinishWrite(c) /\ WriteBlocks(c) /\ Unfinished(i, c)
        /\ UNCHANGED <<home, codec_vars, peer_vars>>
     \/ WriteFails(c) /\ Release({c}) /\ IoLeaves(i, "next")
  /\ UNCHANGED events

\* The steps of a loop with connections and unix sockets.
LoopStep(i) ==
  \/ /\ EpollWait(i)
     /\ UNCHANGED <<home, codec_vars, peer_vars, io_at, io_conn, main_vars, ended>>
  \/ Handle(i) /\ UNCHANGED <<conn_vars, main_vars, ended>>
  \/ \E c \in {io_conn[i]} \cap Conns :
       /\ ReadPart(i, c) \/ ReadPauses(i, c) \/ ReadFails(i, c) \/ IoWrite(i, c)
       /\ UNCHANGED <<main_vars, ended>>
  \/ (\E m \in Mains : RecvFd(i, m)) /\ UNCHANGED index

-----------------------------------------------------------------------------
(* Main reactors.                                                          *)

NextSub(m) == (index[m] + 1) % io_count

\* In another process the descriptor is first sent and later added to its epoll.
AddToSubReactor(m, c) ==
  LET i == NextSub(m)
  IN /\ index' = [index EXCEPT ![m] = i]
     /\ IF OneProcess
          THEN AddReadEvent(i, c) /\ UNCHANGED passing
          ELSE /\ home' = [home EXCEPT ![c] = i]
               /\ armed' = [armed EXCEPT ![c] = "none"]
               /\ passing' = [passing EXCEPT ![<<m, i>>] = Append(@, c)]
               /\ UNCHANGED edge
     /\ UNCHANGED ended

\* SendFd to a process that has ended is answered with SIGPIPE.
SendFdBreaks(m) == Ends(m) /\ UNCHANGED index

MainAccept(m, c) ==
  /\ IsMS
  /\ home[c] = None
  /\ IF is_main_read
       THEN Connects(c) /\ AddReadEvent(m, c) /\ UNCHANGED <<main_vars, ended>>
       ELSE Connects(c) /\ NextSub(m) \notin ended /\ AddToSubReactor(m, c)

\* The first event of a connection: it leaves the epoll of the main reactor, ClearEvent
\* without a close, and is passed on.
MainMove(m, c) ==
  /\ c \in ReadReady(m)
  /\ NextSub(m) \notin ended
  /\ AddToSubReactor(m, c)
  /\ UNCHANGED <<codec_vars, peer_vars>>

MainStep(m, c) ==
  /\ is_main_read
  /\ \/ MainMove(m, c) /\ UNCHANGED io_vars
     \/ c \in ReadReady(m) /\ NextSub(m) \in ended /\ SendFdBreaks(m)

MainAcceptStep(m, c) ==
  \/ MainAccept(m, c) /\ UNCHANGED io_vars
  \/ /\ IsMS /\ ~ is_main_read
     /\ home[c] = None
     /\ NextSub(m) \in ended
     /\ SendFdBreaks(m)

ReactorTypeOK ==
  /\ ConnTypeOK
  /\ option \in Options(server)
  /\ home \in [Conns -> Threads \cup {None}]
  /\ io_at \in [Ios -> {"next", "read", "write", "wait Idle", "push", "notify"}]
  /\ io_conn \in [Ios -> Conns \cup {None}]
  /\ events \in [Ios -> SUBSET (Conns \X {"read", "write"} \cup Mains \X {"unix"})]
  /\ index \in [Mains -> Ios]
  /\ passing \in [Mains \X Ios -> Seq(Conns)]
  /\ ended \subseteq Threads
=============================================================================
