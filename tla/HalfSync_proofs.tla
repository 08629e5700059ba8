--------------------------- MODULE HalfSync_proofs ---------------------------
(***************************************************************************)
(* The servers that wait for events hand their connections around by       *)
(* address, and each has at any time one owner; what it reads it echoes    *)
(* once; and two semaphores keep the queue of HSHA2.  All for every number *)
(* of loops, main reactors, workers and connections, for every size of the *)
(* queue, of messages and of send buffers, with all the servers' options.  *)
(***************************************************************************)
EXTENDS HalfSync, FiniteSetTheorems, SequenceTheorems, TLAPS

-----------------------------------------------------------------------------
(* The inductive invariant of ownership: who has a connection and which of *)
(* its events are watched, whatever the parts of its messages.             *)

\* The types of what tells who has a connection.  Only a plain reactor may read just once.
ControlTypeOK ==
  /\ is_multi_io \/ ~ IsHSHA
  /\ home \in [Conns -> Threads \cup {None}]
  /\ armed \in [Conns -> {"none", "read", "write"}]
  /\ io_at \in [Ios -> {"next", "read", "write", "wait Idle", "push", "notify"}]
  /\ io_conn \in [Ios -> Conns \cup {None}]
  /\ events \in [Ios -> SUBSET (Conns \X {"read", "write"} \cup Mains \X {"unix"})]
  /\ index \in [Mains -> Ios]
  /\ passing \in [Mains \X Ios -> Seq(Conns)]
  /\ ended \subseteq Threads
  /\ worker_at \in [Workers -> {"get", "waiting", "pop", "post Idle", "mod", "write"}]
  /\ conn \in [Workers -> Conns \cup {None}]
  /\ Queue \in Seq(Conns)

\* Where a connection is when a loop has it, and when it is about to be read there.
Pending(c, i) == <<c, "read">> \in events[i] \/ <<c, "write">> \in events[i]
InLoop(c, i) == io_conn[i] = c \/ Pending(c, i)
Reading(c, i) == (io_conn[i] = c /\ io_at[i] # "write") \/ <<c, "read">> \in events[i]

\* A loop has a connection while it handles one.  It has none twice.
LoopOnce ==
  \A i \in Ios :
    /\ io_conn[i] = None <=> io_at[i] \in {"next", "notify"}
    /\ io_at[i] \in {"wait Idle", "push"} => IsHSHA
    /\ \A c \in Conns :
         /\ io_conn[i] = c => ~ Pending(c, i)
         /\ ~ (<<c, "read">> \in events[i] /\ <<c, "write">> \in events[i])

\* A connection is in the queue once, or one worker has it.
QueueOnce ==
  /\ \A m, n \in 1 .. Len(Queue) : Queue[m] = Queue[n] => m = n
  /\ \A n \in 1 .. Len(Queue), w \in Workers : Queue[n] # conn[w]
  /\ \A v, w \in Workers : conn[v] = conn[w] /\ conn[v] # None => v = w
  /\ \A w \in Workers : conn[w] = None <=> worker_at[w] \in {"get", "waiting", "pop"}
  /\ ~ IsHSHA => Len(Queue) = 0 /\ \A w \in Workers : conn[w] = None

\* It is on the way to another process once, which waits for its events when it has arrived.
PassingOnce ==
  /\ \A p \in Mains \X Ios : \A n \in 1 .. Len(passing[p]) : home[passing[p][n]] = p[2]
  /\ \A p, q \in Mains \X Ios : \A m \in 1 .. Len(passing[p]), n \in 1 .. Len(passing[q]) :
       passing[p][m] = passing[q][n] => p = q /\ m = n
  /\ OneProcess => \A p \in Mains \X Ios : Len(passing[p]) = 0

\* A loop handles its own connections, and those nobody else has.  The half-sync/half-async
\* servers disarm the event of one that is to be read, the others never do.
LoopOwns(c) ==
  \A i \in Ios :
    /\ InLoop(c, i) => home[c] = i /\ ~ HandedOver(c)
    /\ Reading(c, i) => (armed[c] = "none" <=> IsHSHA)

\* The events of a connection that has been handed over are not watched.  Nobody forgets it:
\* it is watched, or handed over, or in a loop.  A process that has ended has none.
Placed(c) ==
  /\ LoopOwns(c)
  /\ HandedOver(c) => armed[c] = "none" /\ home[c] # None
  /\ home[c] # None => armed[c] # "none" \/ HandedOver(c) \/ \E i \in Ios : InLoop(c, i)
  /\ ~ OneProcess => home[c] \notin ended

IInv ==
  /\ ControlTypeOK
  /\ LoopOnce
  /\ QueueOnce
  /\ PassingOnce
  /\ \A c \in Conns : Placed(c)

-----------------------------------------------------------------------------
(* Sequences without their first element.                                  *)

\* What Tail takes out of a sequence is its first element.
LEMMA TailRest ==
  ASSUME NEW S, NEW s \in Seq(S), s # <<>>
  PROVE  /\ Head(s) = s[1] /\ Head(s) \in S /\ 1 \in 1 .. Len(s)
         /\ Tail(s) \in Seq(S) /\ Len(Tail(s)) \in Nat
         /\ \A n \in 1 .. Len(Tail(s)) : n + 1 \in 1 .. Len(s) /\ Tail(s)[n] = s[n + 1]
         /\ \A d : (\E n \in 1 .. Len(s) : s[n] = d)
                     <=> Head(s) = d \/ \E n \in 1 .. Len(Tail(s)) : Tail(s)[n] = d
<1> DEFINE t == Tail(s)
<1>1. /\ Head(s) \in S /\ t \in Seq(S) /\ Len(t) = Len(s) - 1
      /\ \A n \in 1 .. Len(t) : t[n] = s[n + 1]
  BY HeadTailProperties
<1>2. Len(s) \in Nat /\ Len(s) # 0 /\ Len(t) \in Nat
  <2>1. Len(s) \in Nat /\ Len(s) # 0
    BY EmptySeq, LenProperties
  <2>2. QED
    BY <2>1, <1>1, LenProperties
<1>3. Head(s) = s[1]
  OBVIOUS
<1> HIDE DEF t
<1>4. 1 \in 1 .. Len(s) /\ \A n \in 1 .. Len(t) : n + 1 \in 1 .. Len(s)
  BY <1>1, <1>2
<1>5. ASSUME NEW d, NEW n \in 1 .. Len(s), s[n] = d, s[1] # d
      PROVE  \E k \in 1 .. Len(t) : t[k] = d
  <2>1. n # 1
    BY <1>5
  <2>2. n - 1 \in 1 .. Len(t) /\ (n - 1) + 1 = n
    BY <1>1, <1>2, <2>1
  <2>3. t[n - 1] = d
    BY <1>1, <1>5, <2>2
  <2>4. QED
    BY <2>2, <2>3
<1>6. ASSUME NEW d, NEW n \in 1 .. Len(t), t[n] = d
      PROVE  \E k \in 1 .. Len(s) : s[k] = d
  <2>1. n + 1 \in 1 .. Len(s) /\ s[n + 1] = d
    BY <1>1, <1>4, <1>6
  <2>2. QED
    BY <2>1
<1>7. \A d : (\E n \in 1 .. Len(s) : s[n] = d)
               <=> s[1] = d \/ \E n \in 1 .. Len(t) : t[n] = d
  BY <1>4, <1>5, <1>6
<1>8. QED
  BY <1>1, <1>2, <1>3, <1>4, <1>7 DEF t

\* If the elements of a sequence differ, so do those that are left, from each other and
\* from the first.
LEMMA TailOnce ==
  ASSUME NEW S, NEW s \in Seq(S), s # <<>>,
         \A m, n \in 1 .. Len(s) : s[m] = s[n] => m = n
  PROVE  /\ \A m, n \in 1 .. Len(Tail(s)) : Tail(s)[m] = Tail(s)[n] => m = n
         /\ \A n \in 1 .. Len(Tail(s)) : Tail(s)[n] # Head(s)
<1> DEFINE t == Tail(s)
<1>1. /\ Head(s) = s[1] /\ 1 \in 1 .. Len(s) /\ Len(t) \in Nat
      /\ \A n \in 1 .. Len(t) : n + 1 \in 1 .. Len(s) /\ t[n] = s[n + 1]
  BY TailRest
<1> HIDE DEF t
<1>2. ASSUME NEW m \in 1 .. Len(t), NEW n \in 1 .. Len(t), t[m] = t[n]
      PROVE  m = n
  <2>1. m + 1 = n + 1
    BY <1>1, <1>2
  <2>2. m \in Int /\ n \in Int
    BY <1>1
  <2>3. QED
    BY <2>1, <2>2
<1>3. ASSUME NEW n \in 1 .. Len(t) PROVE t[n] # s[1]
  <2>1. n + 1 # 1
    BY <1>1
  <2>2. QED
    BY <1>1, <2>1
<1>4. QED
  BY <1>1, <1>2, <1>3 DEF t

-----------------------------------------------------------------------------
(* Who has a connection.                                                   *)

\* No thread and no connection is what stands for none, and no loop is a main reactor.
LEMMA NoneIsNone ==
  /\ None \notin Conns /\ None \notin Threads /\ None \notin Ios
  /\ \A m \in Mains : m \in Threads /\ m \notin Ios
  /\ \A i \in Ios : i \in Threads
BY NoneAssumption, ThreadAssumption DEF Threads

\* A connection is on its way to a process at some place of a unix socket.
LEMMA PassedAt ==
  ASSUME ControlTypeOK
  PROVE  \A p \in Mains \X Ios : /\ passing[p] \in Seq(Conns)
                                 /\ DOMAIN passing[p] = 1 .. Len(passing[p])
BY LenProperties DEF ControlTypeOK

\* What is in the queue is a connection.
LEMMA QueuedAt ==
  ASSUME ControlTypeOK
  PROVE  /\ Queue \in Seq(Conns) /\ Len(Queue) \in Nat
         /\ \A n \in 1 .. Len(Queue) : Queue[n] \in Conns
<1>1. Queue \in Seq(Conns)
  BY DEF ControlTypeOK
<1>2. QED
  BY <1>1

\* A connection nobody waits for is in no loop and is not handed over.
LEMMA ClosedIsFree ==
  ASSUME IInv, NEW c \in Conns, home[c] = None
  PROVE  ~ HandedOver(c) /\ \A i \in Ios : ~ InLoop(c, i)
BY NoneIsNone DEF IInv, Placed, LoopOwns

\* One that a main reactor waits for is neither.
LEMMA MainsIsFree ==
  ASSUME IInv, NEW c \in Conns, NEW m \in Mains, c \in ReadReady(m)
  PROVE  ~ HandedOver(c) /\ \A i \in Ios : ~ InLoop(c, i)
BY NoneIsNone DEF IInv, Placed, LoopOwns, ReadReady

\* The queue and the workers are of the half-sync/half-async servers, the passing of
\* descriptors of the one server that is several processes.
LEMMA HandedOverWhere ==
  ASSUME IInv, NEW c \in Conns
  PROVE  /\ ~ OneProcess => (HandedOver(c) <=> \E p \in Mains \X Ios :
                               \E n \in 1 .. Len(passing[p]) : passing[p][n] = c)
         /\ OneProcess => (HandedOver(c) <=> \/ \E n \in 1 .. Len(Queue) : Queue[n] = c
                                             \/ \E w \in Workers : conn[w] = c)
<1>1. ~ OneProcess => Len(Queue) = 0 /\ \A w \in Workers : conn[w] = None
  BY DEF IInv, QueueOnce, OneProcess, IsHSHA
<1>2. OneProcess => \A p \in Mains \X Ios : Len(passing[p]) = 0
  BY DEF IInv, PassingOnce
<1>3. \A p \in Mains \X Ios : DOMAIN passing[p] = 1 .. Len(passing[p])
  BY PassedAt DEF IInv
<1>4. QED
  BY <1>1, <1>2, <1>3, NoneIsNone DEF HandedOver

-----------------------------------------------------------------------------
(* What a step leaves alone keeps its part of the invariant.               *)

LEMMA LoopsStay ==
  ASSUME LoopOnce, UNCHANGED <<server, io_at, io_conn, events>>
  PROVE  LoopOnce'
BY DEF LoopOnce, Pending, IsHSHA

LEMMA QueueStays ==
  ASSUME QueueOnce, UNCHANGED <<server, Queue, conn>>,
         \A w \in Workers :
           worker_at[w] \in {"get", "waiting", "pop"}
             <=> worker_at'[w] \in {"get", "waiting", "pop"}
  PROVE  QueueOnce'
BY DEF QueueOnce, IsHSHA

LEMMA PassingStays ==
  ASSUME PassingOnce, ControlTypeOK, UNCHANGED <<server, passing>>,
         \A c \in Conns : home'[c] # home[c] => ~ HandedOver(c)
  PROVE  PassingOnce'
<1>1. \A p \in Mains \X Ios : \A n \in 1 .. Len(passing[p]) : home'[passing[p][n]] = p[2]
  <2> SUFFICES ASSUME NEW p \in Mains \X Ios, NEW n \in 1 .. Len(passing[p])
               PROVE  home'[passing[p][n]] = p[2]
    OBVIOUS
  <2>1. passing[p][n] \in Conns /\ n \in DOMAIN passing[p]
    BY PassedAt
  <2>2. HandedOver(passing[p][n])
    BY <2>1 DEF HandedOver
  <2>3. QED
    BY <2>1, <2>2 DEF PassingOnce
<1>2. QED
  BY <1>1 DEF PassingOnce, OneProcess

\* Connections that a step does not touch stay where they are.
LEMMA PlacedStays ==
  ASSUME NEW c \in Conns, Placed(c), UNCHANGED <<server, ended>>,
         home'[c] = home[c], armed'[c] = armed[c],
         HandedOver(c)' <=> HandedOver(c),
         \A i \in Ios : InLoop(c, i)' <=> InLoop(c, i),
         \A i \in Ios : Reading(c, i)' => Reading(c, i)
  PROVE  Placed(c)'
<1>1. LoopOwns(c)'
  BY DEF Placed, LoopOwns, IsHSHA
<1>2. QED
  BY <1>1 DEF Placed, OneProcess

-----------------------------------------------------------------------------
(* Steps that change who has a connection in the same way have a lemma in  *)
(* common, which says what they change.                                    *)

\* A thread goes on with the connection it has, if it has one.
LEMMA GoesOn ==
  ASSUME IInv,
         UNCHANGED <<server, option, home, armed, io_conn, events, index, passing, ended>>,
         UNCHANGED <<conn, Queue>>,
         io_at' \in [Ios -> {"next", "read", "write", "wait Idle", "push", "notify"}],
         \A i \in Ios :
           \/ io_at'[i] = io_at[i]
           \/ io_at[i] = "notify" /\ io_at'[i] = "next"
           \/ io_at[i] = "wait Idle" /\ io_at'[i] = "push"
           \/ io_at[i] = "read" /\ io_at'[i] = "write"
           \/ io_at[i] = "read" /\ io_at'[i] \in {"push", "wait Idle"} /\ IsHSHA,
         worker_at' \in [Workers -> {"get", "waiting", "pop", "post Idle", "mod", "write"}],
         \A w \in Workers :
           worker_at[w] \in {"get", "waiting", "pop"}
             <=> worker_at'[w] \in {"get", "waiting", "pop"}
  PROVE  IInv'
<1>1. ControlTypeOK'
  BY DEF IInv, ControlTypeOK, IsHSHA, is_multi_io
<1>2. LoopOnce'
  <2> SUFFICES ASSUME NEW i \in Ios
               PROVE  /\ io_conn[i] = None <=> io_at'[i] \in {"next", "notify"}
                      /\ io_at'[i] \in {"wait Idle", "push"} => IsHSHA
    BY DEF IInv, LoopOnce, Pending, IsHSHA
  <2>1. /\ io_conn[i] = None <=> io_at[i] \in {"next", "notify"}
        /\ io_at[i] \in {"wait Idle", "push"} => IsHSHA
    BY DEF IInv, LoopOnce
  <2>2. QED
    BY <2>1
<1>3. QueueOnce' /\ PassingOnce'
  BY QueueStays, PassingStays DEF IInv
<1>4. ASSUME NEW c \in Conns PROVE Placed(c)'
  <2>1. HandedOver(c)' <=> HandedOver(c)
    BY DEF HandedOver
  <2>2. \A i \in Ios : (InLoop(c, i)' <=> InLoop(c, i)) /\ (Reading(c, i)' => Reading(c, i))
    BY NoneIsNone DEF InLoop, Reading, Pending, IInv, LoopOnce
  <2>3. QED
    BY <2>1, <2>2, PlacedStays DEF IInv
<1>5. QED
  BY <1>1, <1>2, <1>3, <1>4 DEF IInv

\* A loop that is done with its connection has no longer got it, and nothing else changes in
\* the loops.
LEMMA LoopLeaves ==
  ASSUME IInv, NEW i \in Ios, NEW c \in Conns, io_conn[i] = c,
         NEW p \in {"next", "notify"}, IoLeaves(i, p),
         UNCHANGED <<server, events>>
  PROVE  /\ LoopOnce'
         /\ io_at' \in [Ios -> {"next", "read", "write", "wait Idle", "push", "notify"}]
         /\ io_conn' \in [Ios -> Conns \cup {None}]
         /\ home[c] = i /\ ~ HandedOver(c)
         /\ \A j \in Ios : ~ InLoop(c, j)' /\ ~ Reading(c, j)'
         /\ \A d \in Conns \ {c}, j \in Ios :
              (InLoop(d, j)' <=> InLoop(d, j)) /\ (Reading(d, j)' => Reading(d, j))
<1>1. LoopOnce'
  <2> SUFFICES ASSUME NEW j \in Ios
               PROVE  /\ io_conn'[j] = None <=> io_at'[j] \in {"next", "notify"}
                      /\ io_at'[j] \in {"wait Idle", "push"} => IsHSHA
                      /\ \A d \in Conns :
                           /\ io_conn'[j] = d => ~ Pending(d, j)
                           /\ ~ (<<d, "read">> \in events[j] /\ <<d, "write">> \in events[j])
    BY DEF LoopOnce, Pending, IsHSHA
  <2>1. CASE j = i
    BY <2>1, NoneIsNone DEF IInv, LoopOnce, ControlTypeOK, IoLeaves, IoGoto
  <2>2. CASE j # i
    BY <2>2 DEF IInv, LoopOnce, ControlTypeOK, IoLeaves, IoGoto
  <2>3. QED
    BY <2>1, <2>2
<1>2. /\ io_at' \in [Ios -> {"next", "read", "write", "wait Idle", "push", "notify"}]
      /\ io_conn' \in [Ios -> Conns \cup {None}]
  BY DEF IInv, ControlTypeOK, IoLeaves, IoGoto
<1>3. home[c] = i /\ ~ HandedOver(c) /\ \A j \in Ios : InLoop(c, j) => j = i
  BY DEF IInv, Placed, LoopOwns, InLoop
<1>4. \A j \in Ios : ~ InLoop(c, j)'
  BY <1>3, NoneIsNone DEF InLoop, Pending, IInv, LoopOnce, ControlTypeOK, IoLeaves, IoGoto
<1>5. \A j \in Ios : ~ Reading(c, j)'
  BY <1>4 DEF Reading, InLoop, Pending
<1>6. ASSUME NEW d \in Conns \ {c}, NEW j \in Ios
      PROVE  (InLoop(d, j)' <=> InLoop(d, j)) /\ (Reading(d, j)' => Reading(d, j))
  BY NoneIsNone DEF InLoop, Reading, Pending, IInv, ControlTypeOK, IoLeaves, IoGoto
<1>7. QED
  BY <1>1, <1>2, <1>3, <1>4, <1>5, <1>6

\* A loop leaves its connection to epoll.
LEMMA LeavesWatched ==
  ASSUME IInv, NEW i \in Ios, NEW c \in Conns, io_conn[i] = c,
         armed' \in [Conns -> {"none", "read", "write"}],
         armed'[c] # "none", \A d \in Conns \ {c} : armed'[d] = armed[d],
         IoLeaves(i, "next"),
         UNCHANGED <<server, option, home, events, index, passing, ended, worker_at, conn, Queue>>
  PROVE  IInv'
<1>1. /\ LoopOnce' /\ home[c] = i /\ ~ HandedOver(c)
      /\ \A j \in Ios : ~ InLoop(c, j)' /\ ~ Reading(c, j)'
      /\ \A d \in Conns \ {c}, j \in Ios :
           (InLoop(d, j)' <=> InLoop(d, j)) /\ (Reading(d, j)' => Reading(d, j))
  BY LoopLeaves
<1>2. ControlTypeOK'
  BY LoopLeaves DEF IInv, ControlTypeOK, IsHSHA, is_multi_io
<1>3. QueueOnce' /\ PassingOnce'
  BY QueueStays, PassingStays DEF IInv
<1>4. ASSUME NEW d \in Conns PROVE HandedOver(d)' <=> HandedOver(d)
  BY DEF HandedOver
<1>5. ASSUME NEW d \in Conns, d # c PROVE Placed(d)'
  BY <1>1, <1>4, <1>5, PlacedStays DEF IInv
<1>6. Placed(c)'
  BY <1>1, <1>4 DEF IInv, Placed, LoopOwns, OneProcess
<1>7. QED
  BY <1>1, <1>2, <1>3, <1>5, <1>6 DEF IInv

\* A loop closes and deletes its connection.
LEMMA LeavesReleased ==
  ASSUME IInv, NEW i \in Ios, NEW c \in Conns, io_conn[i] = c,
         Release({c}), IoLeaves(i, "next"),
         UNCHANGED <<server, option, events, index, passing, ended, worker_at, conn, Queue>>
  PROVE  IInv'
<1> DEFINE Closed == /\ home' = [d \in Conns |-> IF d = c THEN None ELSE home[d]]
                     /\ armed' = [d \in Conns |-> IF d = c THEN "none" ELSE armed[d]]
<1>0. Closed
  BY DEF Release
<1> HIDE DEF Closed
<1>1. /\ LoopOnce' /\ home[c] = i /\ ~ HandedOver(c)
      /\ \A j \in Ios : ~ InLoop(c, j)' /\ ~ Reading(c, j)'
      /\ \A d \in Conns \ {c}, j \in Ios :
           (InLoop(d, j)' <=> InLoop(d, j)) /\ (Reading(d, j)' => Reading(d, j))
  BY LoopLeaves
<1>2. ControlTypeOK'
  BY <1>0, LoopLeaves DEF Closed, IInv, ControlTypeOK, IsHSHA, is_multi_io
<1>3. QueueOnce' /\ PassingOnce'
  <2>1. \A d \in Conns : home'[d] # home[d] => ~ HandedOver(d)
    BY <1>0, <1>1 DEF Closed
  <2>2. QED
    BY <2>1, QueueStays, PassingStays DEF IInv
<1>4. ASSUME NEW d \in Conns PROVE HandedOver(d)' <=> HandedOver(d)
  BY DEF HandedOver
<1>5. ASSUME NEW d \in Conns, d # c PROVE Placed(d)'
  <2>1. home'[d] = home[d] /\ armed'[d] = armed[d]
    BY <1>0, <1>5 DEF Closed
  <2>2. QED
    BY <1>1, <1>4, <1>5, <2>1, PlacedStays DEF IInv
<1>6. Placed(c)'
  <2>1. home'[c] = None /\ None \notin ended
    BY <1>0, NoneIsNone DEF Closed, IInv, ControlTypeOK
  <2>2. QED
    BY <1>1, <1>4, <2>1 DEF Placed, LoopOwns, OneProcess
<1>7. QED
  BY <1>1, <1>2, <1>3, <1>5, <1>6 DEF IInv

\* A worker that is done with its connection has no longer got it, and nobody else has it.
LEMMA WorkerGives ==
  ASSUME IInv, NEW w \in Workers, NEW c \in Conns, conn[w] = c,
         WorkerLeaves(w), UNCHANGED <<server, Queue, passing>>
  PROVE  /\ QueueOnce'
         /\ worker_at' \in [Workers -> {"get", "waiting", "pop", "post Idle", "mod", "write"}]
         /\ conn' \in [Workers -> Conns \cup {None}]
         /\ OneProcess /\ HandedOver(c) /\ ~ HandedOver(c)'
         /\ \A j \in Ios : ~ InLoop(c, j)
         /\ \A d \in Conns \ {c} : HandedOver(d)' <=> HandedOver(d)
<1>1. /\ worker_at' \in [Workers -> {"get", "waiting", "pop", "post Idle", "mod", "write"}]
      /\ conn' \in [Workers -> Conns \cup {None}]
  BY DEF IInv, ControlTypeOK, WorkerLeaves, WorkerGoto
<1>2. /\ worker_at'[w] = "get" /\ conn'[w] = None
      /\ \A v \in Workers \ {w} : worker_at'[v] = worker_at[v] /\ conn'[v] = conn[v]
  BY DEF IInv, ControlTypeOK, WorkerLeaves, WorkerGoto
<1>3. QueueOnce'
  <2>1. \A n \in 1 .. Len(Queue), v \in Workers : Queue[n] # conn'[v]
    <3>1. \A n \in 1 .. Len(Queue) : Queue[n] # None
      BY NoneIsNone, QueuedAt DEF IInv
    <3>2. QED
      BY <1>2, <3>1 DEF IInv, QueueOnce
  <2>2. \A u, v \in Workers : conn'[u] = conn'[v] /\ conn'[u] # None => u = v
    BY <1>2 DEF IInv, QueueOnce
  <2>3. \A v \in Workers : conn'[v] = None <=> worker_at'[v] \in {"get", "waiting", "pop"}
    BY <1>2 DEF IInv, QueueOnce
  <2>4. ~ IsHSHA => Len(Queue) = 0 /\ \A v \in Workers : conn'[v] = None
    BY <1>2 DEF IInv, QueueOnce
  <2>5. \A m, n \in 1 .. Len(Queue) : Queue[m] = Queue[n] => m = n
    BY DEF IInv, QueueOnce
  <2>6. QED
    BY <2>1, <2>2, <2>3, <2>4, <2>5 DEF QueueOnce, IsHSHA
<1>4. HandedOver(c) /\ OneProcess
  BY NoneIsNone DEF HandedOver, IInv, QueueOnce, OneProcess, IsHSHA
<1>5. \A j \in Ios : ~ InLoop(c, j)
  BY <1>4 DEF IInv, Placed, LoopOwns
<1>6. ~ HandedOver(c)'
  <2>1. \A n \in 1 .. Len(Queue) : Queue[n] # c
    BY DEF IInv, QueueOnce
  <2>2. \A v \in Workers : conn'[v] # c
    BY <1>2, NoneIsNone DEF IInv, QueueOnce
  <2>3. \A p \in Mains \X Ios : DOMAIN passing[p] = {}
    <3>1. \A p \in Mains \X Ios : Len(passing[p]) = 0
      BY <1>4 DEF IInv, PassingOnce
    <3>2. QED
      BY <3>1, PassedAt DEF IInv
  <2>4. QED
    BY <2>1, <2>2, <2>3 DEF HandedOver
<1>7. ASSUME NEW d \in Conns \ {c} PROVE HandedOver(d)' <=> HandedOver(d)
  BY <1>2, NoneIsNone DEF HandedOver
<1>8. QED
  BY <1>1, <1>3, <1>4, <1>5, <1>6, <1>7

\* A worker leaves its connection to epoll.
LEMMA WorkerLeavesWatched ==
  ASSUME IInv, NEW w \in Workers, NEW c \in Conns, conn[w] = c,
         armed' \in [Conns -> {"none", "read", "write"}],
         armed'[c] # "none", \A d \in Conns \ {c} : armed'[d] = armed[d],
         WorkerLeaves(w),
         UNCHANGED <<server, option, home, io_at, io_conn, events, index, passing, ended, Queue>>
  PROVE  IInv'
<1>1. /\ QueueOnce' /\ ~ HandedOver(c)'
      /\ \A j \in Ios : ~ InLoop(c, j)
      /\ \A d \in Conns \ {c} : HandedOver(d)' <=> HandedOver(d)
  BY WorkerGives
<1>2. ControlTypeOK'
  BY WorkerGives DEF IInv, ControlTypeOK, IsHSHA, is_multi_io
<1>3. LoopOnce' /\ PassingOnce'
  BY LoopsStay, PassingStays DEF IInv
<1>4. ASSUME NEW d \in Conns, NEW j \in Ios
      PROVE  (InLoop(d, j)' <=> InLoop(d, j)) /\ (Reading(d, j)' <=> Reading(d, j))
  BY DEF InLoop, Reading, Pending
<1>5. ASSUME NEW d \in Conns, d # c PROVE Placed(d)'
  BY <1>1, <1>4, <1>5, PlacedStays DEF IInv
<1>6. Placed(c)'
  <2>1. \A j \in Ios : ~ InLoop(c, j)' /\ ~ Reading(c, j)'
    BY <1>1, <1>4 DEF InLoop, Reading, Pending
  <2>2. QED
    BY <1>1, <2>1 DEF IInv, Placed, LoopOwns, OneProcess
<1>7. QED
  BY <1>1, <1>2, <1>3, <1>5, <1>6 DEF IInv

\* A worker closes and deletes its connection.
LEMMA WorkerLeavesReleased ==
  ASSUME IInv, NEW w \in Workers, NEW c \in Conns, conn[w] = c,
         Release({c}), WorkerLeaves(w),
         UNCHANGED <<server, option, io_at, io_conn, events, index, passing, ended, Queue>>
  PROVE  IInv'
<1> DEFINE Closed == /\ home' = [d \in Conns |-> IF d = c THEN None ELSE home[d]]
                     /\ armed' = [d \in Conns |-> IF d = c THEN "none" ELSE armed[d]]
<1>0. Closed
  BY DEF Release
<1> HIDE DEF Closed
<1>1. /\ QueueOnce' /\ OneProcess /\ ~ HandedOver(c)'
      /\ \A j \in Ios : ~ InLoop(c, j)
      /\ \A d \in Conns \ {c} : HandedOver(d)' <=> HandedOver(d)
  BY WorkerGives
<1>2. ControlTypeOK'
  BY <1>0, WorkerGives DEF Closed, IInv, ControlTypeOK, IsHSHA, is_multi_io
<1>3. LoopOnce'
  BY LoopsStay DEF IInv
<1>4. PassingOnce'
  <2>1. \A p \in Mains \X Ios : Len(passing[p]) = 0
    BY <1>1 DEF IInv, PassingOnce
  <2>2. QED
    BY <2>1 DEF PassingOnce
<1>5. ASSUME NEW d \in Conns, NEW j \in Ios
      PROVE  (InLoop(d, j)' <=> InLoop(d, j)) /\ (Reading(d, j)' <=> Reading(d, j))
  BY DEF InLoop, Reading, Pending
<1>6. ASSUME NEW d \in Conns, d # c PROVE Placed(d)'
  <2>1. home'[d] = home[d] /\ armed'[d] = armed[d]
    BY <1>0, <1>6 DEF Closed
  <2>2. QED
    BY <1>1, <1>5, <1>6, <2>1, PlacedStays DEF IInv
<1>7. Placed(c)'
  <2>1. \A j \in Ios : ~ InLoop(c, j)' /\ ~ Reading(c, j)'
    BY <1>1, <1>5 DEF InLoop, Reading, Pending
  <2>2. home'[c] = None /\ OneProcess'
    BY <1>0, <1>1 DEF Closed, OneProcess
  <2>3. QED
    BY <1>1, <2>1, <2>2 DEF Placed, LoopOwns
<1>8. QED
  BY <1>1, <1>2, <1>3, <1>4, <1>6, <1>7 DEF IInv

\* epoll_wait gives a loop connections that nobody has, for their events are watched.
LEMMA Returns ==
  ASSUME IInv, NEW i \in Ios, EpollWait(i),
         UNCHANGED <<server, option, home, io_at, io_conn, index, passing, ended, worker_at, conn,
                     Queue>>
  PROVE  IInv'
<1>1. /\ io_conn[i] = None /\ io_at[i] = "next"
      /\ events' = [events EXCEPT ![i] = Returned(i)]
      /\ armed' = [c \in Conns |-> IF IsHSHA /\ c \in ReadReady(i) THEN "none" ELSE armed[c]]
  BY DEF IInv, LoopOnce, EpollWait, IoRuns
<1>2. /\ Returned(i) \subseteq Conns \X {"read", "write"} \cup Mains \X {"unix"}
      /\ \A c \in Conns : <<c, "read">> \in Returned(i) <=> c \in ReadReady(i)
      /\ \A c \in Conns : <<c, "write">> \in Returned(i) <=> c \in WriteReady(i)
  BY DEF Returned, ReadReady, WriteReady, UnixReady
<1>3. \A c \in Conns : /\ c \in ReadReady(i) => home[c] = i /\ armed[c] = "read"
                       /\ c \in WriteReady(i) => home[c] = i /\ armed[c] = "write"
  BY DEF ReadReady, WriteReady
<1>4. ControlTypeOK'
  <2>1. events' \in [Ios -> SUBSET (Conns \X {"read", "write"} \cup Mains \X {"unix"})]
    BY <1>1, <1>2 DEF IInv, ControlTypeOK
  <2>2. armed' \in [Conns -> {"none", "read", "write"}]
    BY <1>1 DEF IInv, ControlTypeOK
  <2>3. QED
    BY <2>1, <2>2 DEF IInv, ControlTypeOK, IsHSHA, is_multi_io
<1>5. /\ events'[i] = Returned(i)
      /\ \A j \in Ios \ {i} : events'[j] = events[j]
  BY <1>1 DEF IInv, ControlTypeOK
<1>6. \A c \in Conns : /\ <<c, "read">> \in events'[i] <=> c \in ReadReady(i)
                       /\ <<c, "write">> \in events'[i] <=> c \in WriteReady(i)
  BY <1>2, <1>5
<1>7. LoopOnce'
  <2> SUFFICES ASSUME NEW j \in Ios
               PROVE  /\ io_conn[j] = None <=> io_at[j] \in {"next", "notify"}
                      /\ io_at[j] \in {"wait Idle", "push"} => IsHSHA
                      /\ \A c \in Conns :
                           /\ io_conn[j] = c => ~ Pending(c, j)'
                           /\ ~ (<<c, "read">> \in events'[j] /\ <<c, "write">> \in events'[j])
    BY DEF LoopOnce, Pending, IsHSHA
  <2>1. CASE j = i
    <3>1. \A c \in Conns : ~ (c \in ReadReady(i) /\ c \in WriteReady(i))
      BY <1>3
    <3>2. QED
      BY <1>1, <1>6, <2>1, <3>1, NoneIsNone DEF IInv, LoopOnce
  <2>2. CASE j # i
    BY <1>5, <2>2 DEF IInv, LoopOnce, Pending
  <2>3. QED
    BY <2>1, <2>2
<1>8. QueueOnce' /\ PassingOnce'
  BY QueueStays, PassingStays DEF IInv
<1>9. ASSUME NEW c \in Conns PROVE HandedOver(c)' <=> HandedOver(c)
  BY DEF HandedOver
<1>10. ASSUME NEW c \in Conns PROVE Placed(c)'
  <2>1. \A j \in Ios \ {i} : (InLoop(c, j)' <=> InLoop(c, j)) /\ (Reading(c, j)' <=> Reading(c, j))
    BY <1>5 DEF InLoop, Reading, Pending
  <2>2. /\ InLoop(c, i)' <=> c \in ReadReady(i) \/ c \in WriteReady(i)
        /\ Reading(c, i)' <=> c \in ReadReady(i)
    BY <1>1, <1>6, NoneIsNone DEF InLoop, Reading, Pending
  <2>3. armed'[c] = IF IsHSHA /\ c \in ReadReady(i) THEN "none" ELSE armed[c]
    BY <1>1
  <2>4. CASE c \in ReadReady(i) \/ c \in WriteReady(i)
    <3>1. home[c] = i /\ armed[c] # "none" /\ ~ HandedOver(c)
      BY <1>3, <2>4 DEF IInv, Placed
    <3>2. \A j \in Ios \ {i} : ~ InLoop(c, j)
      BY <3>1 DEF IInv, Placed, LoopOwns
    <3>3. \A j \in Ios \ {i} : ~ Reading(c, j)
      BY <3>2 DEF InLoop, Reading, Pending
    <3>4. LoopOwns(c)'
      <4>1. \A j \in Ios : /\ InLoop(c, j)' => home[c] = i /\ j = i
                           /\ Reading(c, j)' => c \in ReadReady(i)
        BY <2>1, <2>2, <3>1, <3>2, <3>3
      <4>2. c \in ReadReady(i) => (armed'[c] = "none" <=> IsHSHA)
        BY <2>3, <3>1
      <4>3. QED
        BY <1>9, <3>1, <4>1, <4>2 DEF LoopOwns, IsHSHA
    <3>5. InLoop(c, i)'
      BY <2>2, <2>4
    <3>6. QED
      BY <1>9, <3>1, <3>4, <3>5 DEF IInv, Placed, OneProcess
  <2>5. CASE ~ (c \in ReadReady(i) \/ c \in WriteReady(i))
    <3>1. armed'[c] = armed[c] /\ ~ InLoop(c, i)' /\ ~ Reading(c, i)'
      BY <2>2, <2>3, <2>5
    <3>2. LoopOwns(c)'
      <4> SUFFICES ASSUME NEW j \in Ios
                   PROVE  /\ InLoop(c, j)' => home[c] = j /\ ~ HandedOver(c)
                          /\ Reading(c, j)' => (armed[c] = "none" <=> IsHSHA)
        BY <1>9, <3>1 DEF LoopOwns, IsHSHA
      <4>1. QED
        BY <2>1, <3>1 DEF IInv, Placed, LoopOwns
    <3>3. home[c] # None => armed[c] # "none" \/ HandedOver(c) \/ \E j \in Ios : InLoop(c, j)'
      <4> SUFFICES ASSUME home[c] # None, armed[c] = "none", ~ HandedOver(c)
                   PROVE  \E j \in Ios : InLoop(c, j)'
        OBVIOUS
      <4>1. PICK j \in Ios : InLoop(c, j)
        BY DEF IInv, Placed
      <4>2. ~ InLoop(c, i)
        BY <1>1, NoneIsNone DEF InLoop, Pending, EpollWait
      <4>3. QED
        BY <2>1, <4>1, <4>2
    <3>4. QED
      BY <1>9, <3>1, <3>2, <3>3 DEF IInv, Placed, OneProcess
  <2>6. QED
    BY <2>4, <2>5
<1>11. QED
  BY <1>4, <1>7, <1>8, <1>10 DEF IInv

\* A loop begins with one of the connections that epoll_wait gave it.
LEMMA Begins ==
  ASSUME IInv, NEW i \in Ios, Handle(i),
         UNCHANGED <<server, option, home, armed, index, passing, ended, worker_at, conn, Queue>>
  PROVE  IInv'
<1>1. io_at[i] = "next" /\ io_conn[i] = None
  BY DEF IInv, LoopOnce, Handle, IoRuns
<1>2. PICK e \in events[i] :
        /\ e[2] # "unix"
        /\ events' = [events EXCEPT ![i] = @ \ {e}]
        /\ io_conn' = [io_conn EXCEPT ![i] = e[1]]
        /\ io_at' = [io_at EXCEPT ![i] = e[2]]
  BY DEF Handle, IoGoto
<1>3. PICK b \in Conns, what \in {"read", "write"} : e = <<b, what>>
  <2>1. e \in Conns \X {"read", "write"} \/ e \in Mains \X {"unix"}
    BY DEF IInv, ControlTypeOK
  <2>2. e \notin Mains \X {"unix"}
    BY <1>2
  <2>3. QED
    BY <2>1, <2>2
<1>4. /\ events'[i] = events[i] \ {<<b, what>>} /\ io_conn'[i] = b /\ io_at'[i] = what
      /\ \A j \in Ios \ {i} : /\ events'[j] = events[j] /\ io_conn'[j] = io_conn[j]
                              /\ io_at'[j] = io_at[j]
  BY <1>2, <1>3 DEF IInv, ControlTypeOK
<1>5. ControlTypeOK'
  <2>1. events' \in [Ios -> SUBSET (Conns \X {"read", "write"} \cup Mains \X {"unix"})]
    BY <1>2 DEF IInv, ControlTypeOK
  <2>2. io_conn' \in [Ios -> Conns \cup {None}]
    BY <1>2, <1>3 DEF IInv, ControlTypeOK
  <2>3. io_at' \in [Ios -> {"next", "read", "write", "wait Idle", "push", "notify"}]
    BY <1>2, <1>3 DEF IInv, ControlTypeOK
  <2>4. QED
    BY <2>1, <2>2, <2>3 DEF IInv, ControlTypeOK, IsHSHA, is_multi_io
<1>6. \A c \in Conns : ~ (<<c, "read">> \in events[i] /\ <<c, "write">> \in events[i])
  BY DEF IInv, LoopOnce
<1>7. <<b, what>> \in events[i]
  BY <1>2, <1>3
<1>8. LoopOnce'
  <2> SUFFICES ASSUME NEW j \in Ios
               PROVE  /\ io_conn'[j] = None <=> io_at'[j] \in {"next", "notify"}
                      /\ io_at'[j] \in {"wait Idle", "push"} => IsHSHA
                      /\ \A c \in Conns :
                           /\ io_conn'[j] = c => ~ Pending(c, j)'
                           /\ ~ (<<c, "read">> \in events'[j] /\ <<c, "write">> \in events'[j])
    BY DEF LoopOnce, Pending, IsHSHA
  <2>1. CASE j = i
    <3>1. ~ Pending(b, i)'
      BY <1>4, <1>6, <1>7 DEF Pending
    <3>2. QED
      BY <1>4, <1>6, <2>1, <3>1, NoneIsNone
  <2>2. CASE j # i
    BY <1>4, <2>2 DEF IInv, LoopOnce, Pending
  <2>3. QED
    BY <2>1, <2>2
<1>9. QueueOnce' /\ PassingOnce'
  BY QueueStays, PassingStays DEF IInv
<1>10. ASSUME NEW c \in Conns PROVE Placed(c)'
  <2>1. HandedOver(c)' <=> HandedOver(c)
    BY DEF HandedOver
  <2>2. \A j \in Ios \ {i} : (InLoop(c, j)' <=> InLoop(c, j)) /\ (Reading(c, j)' <=> Reading(c, j))
    BY <1>4 DEF InLoop, Reading, Pending
  <2>3. (InLoop(c, i)' <=> InLoop(c, i)) /\ (Reading(c, i)' => Reading(c, i))
    <3>1. CASE c = b
      BY <1>4, <1>6, <1>7, <3>1 DEF InLoop, Reading, Pending
    <3>2. CASE c # b
      BY <1>1, <1>4, <3>2, NoneIsNone DEF InLoop, Reading, Pending
    <3>3. QED
      BY <3>1, <3>2
  <2>4. QED
    BY <2>1, <2>2, <2>3, PlacedStays DEF IInv
<1>11. QED
  BY <1>5, <1>8, <1>9, <1>10 DEF IInv

\* A loop puts its connection in the queue.
LEMMA Pushes ==
  ASSUME IInv, NEW i \in Ios, NEW c \in Conns, io_conn[i] = c, Push(i, c),
         UNCHANGED <<server, option, home, armed, index, passing, ended, worker_at, conn>>
  PROVE  IInv'
<1>1. IoLeaves(i, "notify") /\ events' = events /\ Queue' = Append(Queue, c)
  BY DEF Push
<1>2. /\ LoopOnce' /\ home[c] = i /\ ~ HandedOver(c)
      /\ \A j \in Ios : ~ InLoop(c, j)' /\ ~ Reading(c, j)'
      /\ \A d \in Conns \ {c}, j \in Ios :
           (InLoop(d, j)' <=> InLoop(d, j)) /\ (Reading(d, j)' => Reading(d, j))
      /\ io_at' \in [Ios -> {"next", "read", "write", "wait Idle", "push", "notify"}]
      /\ io_conn' \in [Ios -> Conns \cup {None}]
  BY <1>1, LoopLeaves
<1>3. Queue \in Seq(Conns)
  BY DEF IInv, ControlTypeOK
<1>4. /\ Queue' \in Seq(Conns) /\ Len(Queue') = Len(Queue) + 1 /\ Len(Queue) \in Nat
      /\ Queue'[Len(Queue) + 1] = c
      /\ \A n \in 1 .. Len(Queue) : Queue'[n] = Queue[n]
  BY <1>1, <1>3, AppendProperties, LenProperties
<1>5. ControlTypeOK'
  BY <1>1, <1>2, <1>4 DEF IInv, ControlTypeOK, IsHSHA, is_multi_io
<1>6. IsHSHA /\ armed[c] = "none" /\ home[c] # None
  <2>1. IsHSHA /\ Reading(c, i)
    BY DEF Push, IoRuns, IInv, LoopOnce, Reading
  <2>2. QED
    BY <1>2, <2>1, NoneIsNone DEF IInv, Placed, LoopOwns
<1>7. (\A n \in 1 .. Len(Queue) : Queue[n] # c) /\ (\A w \in Workers : conn[w] # c)
  BY <1>2 DEF HandedOver
<1>8. QueueOnce'
  <2>1. \A m, n \in 1 .. Len(Queue') : Queue'[m] = Queue'[n] => m = n
    BY <1>4, <1>7 DEF IInv, QueueOnce
  <2>2. \A n \in 1 .. Len(Queue'), w \in Workers : Queue'[n] # conn[w]
    BY <1>4, <1>7 DEF IInv, QueueOnce
  <2>3. QED
    BY <1>6, <2>1, <2>2 DEF IInv, QueueOnce, IsHSHA
<1>9. PassingOnce'
  BY PassingStays DEF IInv
<1>10. \A d \in Conns : HandedOver(d)' <=> HandedOver(d) \/ d = c
  <2>1. \A d \in Conns : (\E n \in 1 .. Len(Queue') : Queue'[n] = d) <=>
                           (\E n \in 1 .. Len(Queue) : Queue[n] = d) \/ d = c
    BY <1>4
  <2>2. QED
    BY <2>1 DEF HandedOver
<1>11. ASSUME NEW d \in Conns, d # c PROVE Placed(d)'
  BY <1>2, <1>10, <1>11, PlacedStays DEF IInv
<1>12. Placed(c)'
  BY <1>2, <1>6, <1>10 DEF IInv, Placed, LoopOwns, OneProcess
<1>13. QED
  BY <1>5, <1>2, <1>8, <1>9, <1>11, <1>12 DEF IInv

\* A worker takes the first connection out of the queue.
LEMMA Takes ==
  ASSUME IInv, IsHSHA, NEW w \in Workers, worker_at[w] \in {"get", "pop"}, Pop(w),
         NEW p \in {"post Idle", "write", "mod"}, WorkerGoto(w, p),
         UNCHANGED <<server, option, home, armed, io_at, io_conn, events, index, passing, ended>>
  PROVE  IInv'
<1>1. Queue \in Seq(Conns) /\ Queue # <<>>
  BY DEF IInv, ControlTypeOK, Pop
<1> DEFINE rest == Tail(Queue)
<1>2. /\ Head(Queue) = Queue[1] /\ Head(Queue) \in Conns /\ 1 \in 1 .. Len(Queue)
      /\ rest \in Seq(Conns)
      /\ \A n \in 1 .. Len(rest) : n + 1 \in 1 .. Len(Queue) /\ rest[n] = Queue[n + 1]
      /\ \A d : (\E n \in 1 .. Len(Queue) : Queue[n] = d)
                  <=> Head(Queue) = d \/ \E n \in 1 .. Len(rest) : rest[n] = d
  BY <1>1, TailRest
<1>3. /\ \A m, n \in 1 .. Len(rest) : rest[m] = rest[n] => m = n
      /\ \A n \in 1 .. Len(rest) : rest[n] # Head(Queue)
  <2>1. \A m, n \in 1 .. Len(Queue) : Queue[m] = Queue[n] => m = n
    BY DEF IInv, QueueOnce
  <2>2. QED
    BY <1>1, <2>1, TailOnce
<1>4. Queue' = rest
  BY DEF Pop
<1> HIDE DEF rest
<1>5. PICK c \in Conns : c = Head(Queue)
  BY <1>2
<1>6. /\ c = Queue[1] /\ 1 \in 1 .. Len(Queue)
      /\ Queue' \in Seq(Conns)
      /\ \A n \in 1 .. Len(Queue') : n + 1 \in 1 .. Len(Queue) /\ Queue'[n] = Queue[n + 1]
      /\ \A d \in Conns : (\E n \in 1 .. Len(Queue) : Queue[n] = d)
                            <=> c = d \/ \E n \in 1 .. Len(Queue') : Queue'[n] = d
  BY <1>2, <1>4, <1>5
<1>7. /\ \A m, n \in 1 .. Len(Queue') : Queue'[m] = Queue'[n] => m = n
      /\ \A n \in 1 .. Len(Queue') : Queue'[n] # c
  BY <1>3, <1>4, <1>5
<1>8. conn' = [conn EXCEPT ![w] = c]
  BY <1>5 DEF Pop
<1>9. /\ conn[w] = None /\ conn'[w] = c /\ worker_at'[w] = p
      /\ \A v \in Workers \ {w} : conn'[v] = conn[v] /\ worker_at'[v] = worker_at[v]
      /\ conn' \in [Workers -> Conns \cup {None}]
      /\ worker_at' \in [Workers -> {"get", "waiting", "pop", "post Idle", "mod", "write"}]
  BY <1>6, <1>8, SMTT(20), ZenonT(30) DEF IInv, ControlTypeOK, QueueOnce, WorkerGoto
<1>10. ControlTypeOK'
  BY <1>6, <1>9 DEF IInv, ControlTypeOK, IsHSHA, is_multi_io
<1>11. \A v \in Workers : conn[v] # c
  BY <1>6 DEF IInv, QueueOnce
<1>12. QueueOnce'
  <2>1. ASSUME NEW n \in 1 .. Len(Queue'), NEW v \in Workers PROVE Queue'[n] # conn'[v]
    <3>1. \A k \in 1 .. Len(Queue) : Queue[k] # conn[v]
      BY DEF IInv, QueueOnce
    <3>2. n + 1 \in 1 .. Len(Queue) /\ Queue'[n] = Queue[n + 1]
      BY <1>6
    <3>3. Queue'[n] # conn[v]
      BY <3>1, <3>2
    <3>4. Queue'[n] # c
      BY <1>7
    <3>5. QED
      BY <1>9, <3>3, <3>4
  <2>2. ASSUME NEW u \in Workers, NEW v \in Workers, conn'[u] = conn'[v], conn'[u] # None
        PROVE  u = v
    <3>1. conn[u] = conn[v] /\ conn[u] # None => u = v
      BY DEF IInv, QueueOnce
    <3>2. QED
      BY <1>9, <1>11, <2>2, <3>1
  <2>3. ASSUME NEW v \in Workers
        PROVE  conn'[v] = None <=> worker_at'[v] \in {"get", "waiting", "pop"}
    <3>1. conn[v] = None <=> worker_at[v] \in {"get", "waiting", "pop"}
      BY DEF IInv, QueueOnce
    <3>2. QED
      BY <1>9, <3>1, NoneIsNone
  <2>4. QED
    BY <1>7, <2>1, <2>2, <2>3 DEF QueueOnce, IsHSHA
<1>13. LoopOnce' /\ PassingOnce'
  BY LoopsStay, PassingStays DEF IInv
<1>14. ASSUME NEW d \in Conns PROVE HandedOver(d)' <=> HandedOver(d)
  <2>1. (\E v \in Workers : conn'[v] = d) <=> c = d \/ \E v \in Workers : conn[v] = d
    BY <1>9, NoneIsNone
  <2>2. QED
    BY <1>6, <2>1 DEF HandedOver
<1>15. ASSUME NEW d \in Conns PROVE Placed(d)'
  <2>1. \A j \in Ios : (InLoop(d, j)' <=> InLoop(d, j)) /\ (Reading(d, j)' <=> Reading(d, j))
    BY DEF InLoop, Reading, Pending
  <2>2. QED
    BY <1>14, <2>1, PlacedStays DEF IInv
<1>16. QED
  BY <1>10, <1>12, <1>13, <1>15 DEF IInv

\* A loop, or a main reactor, begins to wait for the events of a connection nobody has.
LEMMA Adds ==
  ASSUME IInv, NEW t \in Threads, NEW c \in Conns,
         ~ HandedOver(c), \A j \in Ios : ~ InLoop(c, j), OneProcess \/ t \notin ended,
         AddReadEvent(t, c), index' \in [Mains -> Ios],
         UNCHANGED <<server, option, io_at, io_conn, events, passing, ended>>,
         UNCHANGED <<worker_at, conn, Queue>>
  PROVE  IInv'
<1> DEFINE Added == /\ home' = [home EXCEPT ![c] = t]
                    /\ armed' = [armed EXCEPT ![c] = "read"]
<1>0. Added
  BY DEF AddReadEvent, Watch
<1> HIDE DEF Added
<1>1. ControlTypeOK'
  BY <1>0 DEF Added, IInv, ControlTypeOK, IsHSHA, is_multi_io
<1>2. \A d \in Conns \ {c} : home'[d] = home[d] /\ armed'[d] = armed[d]
  BY <1>0 DEF Added, IInv, ControlTypeOK
<1>3. LoopOnce' /\ QueueOnce' /\ PassingOnce'
  BY <1>2, LoopsStay, QueueStays, PassingStays DEF IInv
<1>4. ASSUME NEW d \in Conns
      PROVE  /\ HandedOver(d)' <=> HandedOver(d)
             /\ \A j \in Ios : InLoop(d, j)' <=> InLoop(d, j)
             /\ \A j \in Ios : Reading(d, j)' <=> Reading(d, j)
  BY DEF HandedOver, InLoop, Reading, Pending
<1>5. ASSUME NEW d \in Conns, d # c PROVE Placed(d)'
  BY <1>2, <1>4, <1>5, PlacedStays DEF IInv
<1>6. Placed(c)'
  <2>1. \A j \in Ios : ~ Reading(c, j)
    BY DEF InLoop, Reading, Pending
  <2>2. home'[c] = t /\ armed'[c] = "read"
    BY <1>0 DEF Added, IInv, ControlTypeOK
  <2>3. QED
    BY <1>4, <2>1, <2>2 DEF Placed, LoopOwns, OneProcess
<1>7. QED
  BY <1>1, <1>3, <1>5, <1>6 DEF IInv

\* Where several processes hand a connection over, it is in a unix socket.
Passed(c) == \E p \in Mains \X Ios : \E n \in 1 .. Len(passing[p]) : passing[p][n] = c

LEMMA HandedOverPassed ==
  ASSUME IInv, ~ OneProcess, UNCHANGED <<server, Queue, conn>>,
         passing' \in [Mains \X Ios -> Seq(Conns)]
  PROVE  \A c \in Conns : (HandedOver(c) <=> Passed(c)) /\ (HandedOver(c)' <=> Passed(c)')
<1>1. Len(Queue) = 0 /\ \A w \in Workers : conn[w] = None
  BY DEF IInv, QueueOnce, OneProcess, IsHSHA
<1>2. \A p \in Mains \X Ios : DOMAIN passing[p] = 1 .. Len(passing[p])
  BY PassedAt DEF IInv
<1>3. \A p \in Mains \X Ios : DOMAIN passing'[p] = 1 .. Len(passing'[p])
  BY LenProperties
<1>4. ASSUME NEW c \in Conns PROVE HandedOver(c) <=> Passed(c)
  BY <1>1, <1>2, NoneIsNone DEF HandedOver, Passed
<1>5. ASSUME NEW c \in Conns PROVE HandedOver(c)' <=> Passed(c)'
  BY <1>1, <1>3, NoneIsNone DEF HandedOver, Passed
<1>6. QED
  BY <1>4, <1>5

\* A sub reactor gets a connection from a main reactor.
LEMMA Receives ==
  ASSUME IInv, NEW i \in Ios, NEW m \in Mains, passing[<<m, i>>] # <<>>,
         AddReadEvent(i, Head(passing[<<m, i>>])),
         passing' = [passing EXCEPT ![<<m, i>>] = Tail(@)],
         events' = [events EXCEPT ![i] = @ \ {<<m, "unix">>}],
         UNCHANGED <<server, option, io_at, io_conn, index, ended, worker_at, conn, Queue>>
  PROVE  IInv'
<1> DEFINE s == passing[<<m, i>>]
           rest == Tail(s)
<1>1. s \in Seq(Conns) /\ s # <<>> /\ <<m, i>> \in Mains \X Ios
  BY DEF IInv, ControlTypeOK
<1>2. /\ Head(s) = s[1] /\ Head(s) \in Conns /\ 1 \in 1 .. Len(s)
      /\ rest \in Seq(Conns)
      /\ \A n \in 1 .. Len(rest) : n + 1 \in 1 .. Len(s) /\ rest[n] = s[n + 1]
      /\ \A d : (\E n \in 1 .. Len(s) : s[n] = d)
                  <=> Head(s) = d \/ \E n \in 1 .. Len(rest) : rest[n] = d
  BY <1>1, TailRest, SMTT(20), ZenonT(30)
<1>3. /\ \A k, n \in 1 .. Len(rest) : rest[k] = rest[n] => k = n
      /\ \A n \in 1 .. Len(rest) : rest[n] # Head(s)
  <2>1. \A k, n \in 1 .. Len(s) : s[k] = s[n] => k = n
    BY <1>1 DEF IInv, PassingOnce
  <2>2. QED
    BY <1>1, <2>1, TailOnce
<1>4. PICK c \in Conns : c = Head(s)
  BY <1>2
<1>5. /\ passing'[<<m, i>>] = rest /\ passing' \in [Mains \X Ios -> Seq(Conns)]
      /\ \A p \in Mains \X Ios : p # <<m, i>> => passing'[p] = passing[p]
  BY <1>1, <1>2 DEF IInv, ControlTypeOK
<1> HIDE DEF rest
<1>6. /\ s[1] = c /\ 1 \in 1 .. Len(s)
      /\ \A n \in 1 .. Len(rest) : n + 1 \in 1 .. Len(s) /\ rest[n] = s[n + 1] /\ rest[n] # c
      /\ \A d \in Conns : (\E n \in 1 .. Len(s) : s[n] = d)
                            <=> c = d \/ \E n \in 1 .. Len(rest) : rest[n] = d
  BY <1>2, <1>3, <1>4
<1>7. /\ home[c] = i
      /\ \A q \in Mains \X Ios : \A n \in 1 .. Len(passing[q]) : passing[q][n] = c => q = <<m, i>>
  BY <1>1, <1>6 DEF IInv, PassingOnce
<1>8. home' = home /\ armed' = [armed EXCEPT ![c] = "read"]
  BY <1>4, <1>7 DEF AddReadEvent, Watch, IInv, ControlTypeOK
<1>9. ~ OneProcess
  <2>1. Len(s) # 0
    BY <1>6
  <2>2. QED
    BY <1>1, <2>1 DEF IInv, PassingOnce
<1>10. events' \in [Ios -> SUBSET (Conns \X {"read", "write"} \cup Mains \X {"unix"})]
       /\ \A j \in Ios, d \in Conns, what \in {"read", "write"} :
            <<d, what>> \in events'[j] <=> <<d, what>> \in events[j]
  BY DEF IInv, ControlTypeOK
<1>11. ControlTypeOK'
  BY <1>5, <1>8, <1>10 DEF IInv, ControlTypeOK, IsHSHA, is_multi_io
<1>12. LoopOnce' /\ \A d \in Conns, j \in Ios : /\ InLoop(d, j)' <=> InLoop(d, j)
                                                /\ Reading(d, j)' <=> Reading(d, j)
  BY <1>10 DEF IInv, LoopOnce, InLoop, Reading, Pending, IsHSHA
<1>13. QueueOnce'
  BY QueueStays DEF IInv
<1>14. PassingOnce'
  <2>1. ASSUME NEW p \in Mains \X Ios, NEW n \in 1 .. Len(passing'[p])
        PROVE  home[passing'[p][n]] = p[2]
    <3>1. CASE p = <<m, i>>
      <4>1. n + 1 \in 1 .. Len(s) /\ passing'[p][n] = s[n + 1]
        BY <1>5, <1>6, <2>1, <3>1
      <4>2. QED
        BY <1>1, <3>1, <4>1 DEF IInv, PassingOnce
    <3>2. CASE p # <<m, i>>
      BY <1>5, <2>1, <3>2 DEF IInv, PassingOnce
    <3>3. QED
      BY <3>1, <3>2
  <2>2. ASSUME NEW p \in Mains \X Ios, NEW q \in Mains \X Ios,
               NEW k \in 1 .. Len(passing'[p]), NEW n \in 1 .. Len(passing'[q]),
               passing'[p][k] = passing'[q][n]
        PROVE  p = q /\ k = n
    <3>1. home[passing'[p][k]] = p[2] /\ home[passing'[q][n]] = q[2]
      BY <2>1
    <3>2. CASE p = <<m, i>> /\ q = <<m, i>>
      BY <1>3, <1>5, <2>2, <3>2, SMTT(20), ZenonT(30)
    <3>3. CASE p = <<m, i>> /\ q # <<m, i>>
      <4>1. k + 1 \in 1 .. Len(s) /\ passing'[p][k] = s[k + 1] /\ passing'[q] = passing[q]
        BY <1>5, <1>6, <2>2, <3>3
      <4>2. QED
        BY <1>1, <2>2, <3>3, <4>1 DEF IInv, PassingOnce
    <3>4. CASE p # <<m, i>> /\ q = <<m, i>>
      <4>1. n + 1 \in 1 .. Len(s) /\ passing'[q][n] = s[n + 1] /\ passing'[p] = passing[p]
        BY <1>5, <1>6, <2>2, <3>4
      <4>2. QED
        BY <1>1, <2>2, <3>4, <4>1 DEF IInv, PassingOnce
    <3>5. CASE p # <<m, i>> /\ q # <<m, i>>
      BY <1>5, <2>2, <3>5 DEF IInv, PassingOnce
    <3>6. QED
      BY <3>2, <3>3, <3>4, <3>5
  <2>3. QED
    BY <1>8, <1>9, <2>1, <2>2 DEF PassingOnce, OneProcess
<1>15. ASSUME NEW d \in Conns
       PROVE  HandedOver(d)' <=> HandedOver(d) /\ d # c
  <2>1. Passed(d)' <=> Passed(d) /\ d # c
    <3>1. CASE d = c
      <4>1. ASSUME NEW q \in Mains \X Ios, NEW n \in 1 .. Len(passing'[q]), passing'[q][n] = c
            PROVE  FALSE
        <5>1. CASE q = <<m, i>>
          BY <1>5, <1>6, <4>1, <5>1
        <5>2. CASE q # <<m, i>>
          <6>1. passing'[q] = passing[q]
            BY <1>5, <5>2
          <6>2. QED
            BY <1>7, <4>1, <5>2, <6>1
        <5>3. QED
          BY <5>1, <5>2
      <4>2. QED
        BY <3>1, <4>1 DEF Passed
    <3>2. CASE d # c
      <4>1. ASSUME NEW q \in Mains \X Ios
            PROVE  (\E n \in 1 .. Len(passing'[q]) : passing'[q][n] = d)
                     <=> \E n \in 1 .. Len(passing[q]) : passing[q][n] = d
        <5>1. CASE q = <<m, i>>
          <6>1. (\E n \in 1 .. Len(s) : s[n] = d) <=> \E n \in 1 .. Len(rest) : rest[n] = d
            BY <1>6, <3>2
          <6>2. passing'[q] = rest /\ passing[q] = s
            BY <1>5, <5>1
          <6> HIDE DEF s
          <6>3. QED
            BY <6>1, <6>2
        <5>2. CASE q # <<m, i>>
          BY <1>5, <5>2
        <5>3. QED
          BY <5>1, <5>2
      <4>2. QED
        BY <3>2, <4>1 DEF Passed
    <3>3. QED
      BY <3>1, <3>2
  <2>2. QED
    BY <1>5, <1>9, <2>1, HandedOverPassed
<1>16. ASSUME NEW d \in Conns PROVE Placed(d)'
  <2>1. CASE d = c
    <3>1. HandedOver(c)
      BY <1>1, <1>5, <1>6, <1>9, HandedOverPassed DEF Passed
    <3>2. \A j \in Ios : ~ InLoop(c, j)' /\ ~ Reading(c, j)'
      <4>1. \A j \in Ios : ~ InLoop(c, j)
        BY <3>1 DEF IInv, Placed, LoopOwns
      <4>2. \A j \in Ios : ~ Reading(c, j)
        BY <4>1 DEF InLoop, Reading, Pending
      <4>3. QED
        BY <1>12, <4>1, <4>2
    <3>3. ~ HandedOver(c)' /\ armed'[c] = "read"
      BY <1>8, <1>15 DEF IInv, ControlTypeOK
    <3>4. QED
      BY <1>8, <2>1, <3>2, <3>3 DEF IInv, Placed, LoopOwns, OneProcess
  <2>2. CASE d # c
    <3>1. home'[d] = home[d] /\ armed'[d] = armed[d]
      BY <1>8, <2>2 DEF IInv, ControlTypeOK
    <3>2. QED
      BY <1>12, <1>15, <2>2, <3>1, PlacedStays DEF IInv
  <2>3. QED
    BY <2>1, <2>2
<1>17. QED
  BY <1>11, <1>12, <1>13, <1>14, <1>16 DEF IInv

\* A main reactor sends a connection that nobody has to a sub reactor in another process.
LEMMA Passes ==
  ASSUME IInv, ~ OneProcess, NEW i \in Ios, NEW m \in Mains, NEW c \in Conns,
         ~ HandedOver(c), \A j \in Ios : ~ InLoop(c, j), i \notin ended,
         home' = [home EXCEPT ![c] = i],
         armed' = [armed EXCEPT ![c] = "none"],
         passing' = [passing EXCEPT ![<<m, i>>] = Append(@, c)],
         index' \in [Mains -> Ios],
         UNCHANGED <<server, option, io_at, io_conn, events, ended, worker_at, conn, Queue>>
  PROVE  IInv'
<1> DEFINE s == passing[<<m, i>>]
           longer == Append(s, c)
<1>1. s \in Seq(Conns) /\ <<m, i>> \in Mains \X Ios /\ Len(s) \in Nat
  BY LenProperties DEF IInv, ControlTypeOK
<1>2. /\ longer \in Seq(Conns) /\ Len(longer) = Len(s) + 1 /\ longer[Len(s) + 1] = c
      /\ \A n \in 1 .. Len(s) : longer[n] = s[n]
  BY <1>1, AppendProperties
<1>3. /\ passing'[<<m, i>>] = longer /\ passing' \in [Mains \X Ios -> Seq(Conns)]
      /\ \A p \in Mains \X Ios : p # <<m, i>> => passing'[p] = passing[p]
  BY <1>1, <1>2 DEF IInv, ControlTypeOK
<1> HIDE DEF longer
<1>4. ASSUME NEW n \in 1 .. Len(longer)
      PROVE  (n \in 1 .. Len(s) /\ longer[n] = s[n]) \/ (n = Len(s) + 1 /\ longer[n] = c)
  <2> HIDE DEF s
  <2>1. n \in Int /\ 1 <= n /\ n <= Len(s) + 1
    BY <1>1, <1>2
  <2>2. CASE n = Len(s) + 1
    BY <1>2, <2>2
  <2>3. CASE n # Len(s) + 1
    <3>1. n \in 1 .. Len(s)
      BY <1>1, <2>1, <2>3
    <3>2. QED
      BY <1>2, <3>1
  <2>4. QED
    BY <2>2, <2>3
<1>5. /\ home'[c] = i /\ armed'[c] = "none"
      /\ \A d \in Conns \ {c} : home'[d] = home[d] /\ armed'[d] = armed[d]
  BY DEF IInv, ControlTypeOK
<1>6. ControlTypeOK'
  <2>1. home' \in [Conns -> Threads \cup {None}] /\ armed' \in [Conns -> {"none", "read", "write"}]
    BY NoneIsNone DEF IInv, ControlTypeOK
  <2>2. QED
    BY <1>3, <2>1 DEF IInv, ControlTypeOK, IsHSHA, is_multi_io
<1>7. LoopOnce' /\ QueueOnce'
  BY LoopsStay, QueueStays DEF IInv
<1>8. \A p \in Mains \X Ios : \A n \in 1 .. Len(passing[p]) : passing[p][n] # c
  <2>1. ~ Passed(c)
    BY <1>3, HandedOverPassed
  <2>2. QED
    BY <2>1 DEF Passed
<1>9. PassingOnce'
  <2>1. ASSUME NEW p \in Mains \X Ios, NEW n \in 1 .. Len(passing[p])
        PROVE  passing[p][n] \in Conns \ {c} /\ home[passing[p][n]] = p[2]
    <3>1. passing[p][n] \in Conns
      BY PassedAt, LenProperties DEF IInv
    <3>2. QED
      BY <1>8, <3>1 DEF IInv, PassingOnce
  <2>2. ASSUME NEW p \in Mains \X Ios, NEW n \in 1 .. Len(passing'[p])
        PROVE  \/ n \in 1 .. Len(passing[p]) /\ passing'[p][n] = passing[p][n]
               \/ p = <<m, i>> /\ n = Len(s) + 1 /\ passing'[p][n] = c
    <3>1. CASE p = <<m, i>>
      BY <1>3, <1>4, <2>2, <3>1
    <3>2. CASE p # <<m, i>>
      <4>1. passing'[p] = passing[p]
        BY <1>3, <3>2
      <4>2. QED
        BY <2>2, <4>1
    <3>3. QED
      BY <3>1, <3>2
  <2>3. ASSUME NEW p \in Mains \X Ios, NEW n \in 1 .. Len(passing'[p])
        PROVE  home'[passing'[p][n]] = p[2]
    <3>1. CASE n \in 1 .. Len(passing[p]) /\ passing'[p][n] = passing[p][n]
      BY <1>5, <2>1, <3>1
    <3>2. CASE p = <<m, i>> /\ n = Len(s) + 1 /\ passing'[p][n] = c
      BY <1>5, <3>2
    <3>3. QED
      BY <2>2, <3>1, <3>2
  <2>4. ASSUME NEW p \in Mains \X Ios, NEW q \in Mains \X Ios,
               NEW k \in 1 .. Len(passing'[p]), NEW n \in 1 .. Len(passing'[q]),
               passing'[p][k] = passing'[q][n]
        PROVE  p = q /\ k = n
    <3>1. /\ \/ k \in 1 .. Len(passing[p]) /\ passing'[p][k] = passing[p][k]
             \/ p = <<m, i>> /\ k = Len(s) + 1 /\ passing'[p][k] = c
          /\ \/ n \in 1 .. Len(passing[q]) /\ passing'[q][n] = passing[q][n]
             \/ q = <<m, i>> /\ n = Len(s) + 1 /\ passing'[q][n] = c
      BY <2>2
    <3>2. CASE k \in 1 .. Len(passing[p]) /\ passing'[p][k] = passing[p][k]
      <4>1. n \in 1 .. Len(passing[q]) /\ passing'[q][n] = passing[q][n]
        BY <1>8, <2>4, <3>1, <3>2
      <4>2. QED
        BY <2>4, <3>2, <4>1 DEF IInv, PassingOnce
    <3>3. CASE p = <<m, i>> /\ k = Len(s) + 1 /\ passing'[p][k] = c
      BY <1>8, <2>4, <3>1, <3>3
    <3>4. QED
      BY <3>1, <3>2, <3>3
  <2>5. QED
    BY <2>3, <2>4 DEF PassingOnce, OneProcess
<1>10. ASSUME NEW d \in Conns
       PROVE  HandedOver(d)' <=> HandedOver(d) \/ d = c
  <2>1. Passed(d)' <=> Passed(d) \/ d = c
    <3>1. ASSUME NEW q \in Mains \X Ios, q # <<m, i>>
          PROVE  passing'[q] = passing[q]
      BY <1>3, <3>1
    <3>2. (\E n \in 1 .. Len(longer) : longer[n] = d) <=> d = c \/ \E n \in 1 .. Len(s) : s[n] = d
      <4>1. Len(s) + 1 \in 1 .. Len(longer) /\ \A n \in 1 .. Len(s) : n \in 1 .. Len(longer)
        BY <1>1, <1>2
      <4>2. QED
        BY <1>2, <1>4, <4>1
    <3>3. \A q \in Mains \X Ios :
            (\E n \in 1 .. Len(passing'[q]) : passing'[q][n] = d)
              <=> (d = c /\ q = <<m, i>>) \/ \E n \in 1 .. Len(passing[q]) : passing[q][n] = d
      <4> SUFFICES ASSUME NEW q \in Mains \X Ios
                   PROVE  (\E n \in 1 .. Len(passing'[q]) : passing'[q][n] = d)
                            <=> \/ d = c /\ q = <<m, i>>
                                \/ \E n \in 1 .. Len(passing[q]) : passing[q][n] = d
        OBVIOUS
      <4>1. CASE q = <<m, i>>
        <5>1. passing'[q] = longer /\ passing[q] = s
          BY <1>3, <4>1
        <5> HIDE DEF s
        <5>2. QED
          BY <3>2, <4>1, <5>1
      <4>2. CASE q # <<m, i>>
        BY <3>1, <4>2
      <4>3. QED
        BY <4>1, <4>2
    <3>4. QED
      BY <1>1, <3>3 DEF Passed
  <2>2. QED
    BY <1>3, <2>1, HandedOverPassed
<1>11. ASSUME NEW d \in Conns, NEW j \in Ios
       PROVE  (InLoop(d, j)' <=> InLoop(d, j)) /\ (Reading(d, j)' <=> Reading(d, j))
  BY DEF InLoop, Reading, Pending
<1>12. ASSUME NEW d \in Conns, d # c PROVE Placed(d)'
  BY <1>5, <1>10, <1>11, <1>12, PlacedStays DEF IInv
<1>13. Placed(c)'
  <2>1. \A j \in Ios : ~ InLoop(c, j)' /\ ~ Reading(c, j)'
    <3>1. \A j \in Ios : ~ Reading(c, j)
      BY DEF InLoop, Reading, Pending
    <3>2. QED
      BY <1>11, <3>1
  <2>2. QED
    BY <1>5, <1>10, <2>1, NoneIsNone DEF Placed, LoopOwns, OneProcess
<1>14. QED
  BY <1>6, <1>7, <1>9, <1>12, <1>13 DEF IInv

\* A process ends with everything it has.
LEMMA ProcessEnds ==
  ASSUME IInv, NEW t, OneProcess \/ t \in Threads, Ends(t),
         UNCHANGED <<server, option, index, worker_at, conn, Queue>>
  PROVE  IInv'
<1>1. CASE OneProcess
  <2>1. ended' = Threads /\ UNCHANGED <<home, armed, io_at, io_conn, events, passing>>
    BY <1>1 DEF Ends, conn_vars, event_vars, io_vars
  <2>2. ControlTypeOK'
    BY <2>1 DEF IInv, ControlTypeOK, IsHSHA, is_multi_io
  <2>3. LoopOnce' /\ QueueOnce' /\ PassingOnce'
    BY <2>1, LoopsStay, QueueStays, PassingStays DEF IInv
  <2>4. ASSUME NEW d \in Conns PROVE Placed(d)'
    <3>1. /\ HandedOver(d)' <=> HandedOver(d)
          /\ \A j \in Ios : (InLoop(d, j)' <=> InLoop(d, j)) /\ (Reading(d, j)' <=> Reading(d, j))
      BY <2>1 DEF HandedOver, InLoop, Reading, Pending
    <3>2. OneProcess'
      BY <1>1 DEF OneProcess
    <3>3. QED
      BY <2>1, <3>1, <3>2 DEF IInv, Placed, LoopOwns, IsHSHA
  <2>5. QED
    BY <2>2, <2>3, <2>4 DEF IInv
<1>2. CASE ~ OneProcess
  <2>1. /\ ended' = ended \cup {t} /\ t \in Threads
        /\ home' = [c \in Conns |-> IF home[c] = t THEN None ELSE home[c]]
        /\ armed' = [c \in Conns |-> IF home[c] = t THEN "none" ELSE armed[c]]
        /\ io_at' = [i \in Ios |-> IF i = t THEN "next" ELSE io_at[i]]
        /\ io_conn' = [i \in Ios |-> IF i = t THEN None ELSE io_conn[i]]
        /\ events' = [i \in Ios |-> IF i = t THEN {} ELSE events[i]]
        /\ passing' = [p \in Mains \X Ios |-> IF p[2] = t THEN <<>> ELSE passing[p]]
    BY <1>2 DEF Ends, Release
  <2>2. ControlTypeOK'
    <3>1. passing' \in [Mains \X Ios -> Seq(Conns)]
      <4>1. \A p \in Mains \X Ios : passing[p] \in Seq(Conns) /\ <<>> \in Seq(Conns)
        BY EmptySeq, PassedAt DEF IInv
      <4>2. \A p \in Mains \X Ios : (IF p[2] = t THEN <<>> ELSE passing[p]) \in Seq(Conns)
        BY <4>1
      <4>3. QED
        BY <2>1, <4>2
    <3>2. /\ home' \in [Conns -> Threads \cup {None}]
          /\ armed' \in [Conns -> {"none", "read", "write"}]
          /\ ended' \subseteq Threads
      BY <2>1 DEF IInv, ControlTypeOK
    <3>3. /\ io_at' \in [Ios -> {"next", "read", "write", "wait Idle", "push", "notify"}]
          /\ io_conn' \in [Ios -> Conns \cup {None}]
          /\ events' \in [Ios -> SUBSET (Conns \X {"read", "write"} \cup Mains \X {"unix"})]
      BY <2>1 DEF IInv, ControlTypeOK
    <3>4. QED
      BY <3>1, <3>2, <3>3 DEF IInv, ControlTypeOK, IsHSHA, is_multi_io
  <2>3. LoopOnce'
    <3> SUFFICES ASSUME NEW j \in Ios
                 PROVE  /\ io_conn'[j] = None <=> io_at'[j] \in {"next", "notify"}
                        /\ io_at'[j] \in {"wait Idle", "push"} => IsHSHA
                        /\ \A d \in Conns :
                             /\ io_conn'[j] = d => ~ Pending(d, j)'
                             /\ ~ (<<d, "read">> \in events'[j] /\ <<d, "write">> \in events'[j])
      BY DEF LoopOnce, Pending, IsHSHA
    <3>1. CASE j = t
      BY <2>1, <3>1, NoneIsNone
    <3>2. CASE j # t
      BY <2>1, <3>2 DEF IInv, LoopOnce, Pending
    <3>3. QED
      BY <3>1, <3>2
  <2>4. QueueOnce'
    BY QueueStays DEF IInv
  <2>5. ASSUME NEW p \in Mains \X Ios, NEW n \in 1 .. Len(passing'[p])
        PROVE  p[2] # t /\ passing'[p] = passing[p]
    BY <2>1, <2>5
  <2>6. ASSUME NEW p \in Mains \X Ios, NEW n \in 1 .. Len(passing[p])
        PROVE  passing[p][n] \in Conns /\ home[passing[p][n]] = p[2]
    <3>1. passing[p][n] \in Conns
      BY PassedAt, LenProperties DEF IInv
    <3>2. QED
      BY <3>1 DEF IInv, PassingOnce
  <2>7. PassingOnce'
    <3>1. ASSUME NEW p \in Mains \X Ios, NEW n \in 1 .. Len(passing'[p])
          PROVE  home'[passing'[p][n]] = p[2]
      <4>1. p[2] # t /\ passing'[p] = passing[p]
        BY <2>5
      <4>2. passing[p][n] \in Conns /\ home[passing[p][n]] = p[2]
        BY <2>6, <4>1
      <4>3. QED
        BY <2>1, <4>1, <4>2
    <3>2. ASSUME NEW p \in Mains \X Ios, NEW q \in Mains \X Ios,
                 NEW k \in 1 .. Len(passing'[p]), NEW n \in 1 .. Len(passing'[q]),
                 passing'[p][k] = passing'[q][n]
          PROVE  p = q /\ k = n
      <4>1. passing'[p] = passing[p] /\ passing'[q] = passing[q]
        BY <2>5
      <4>2. QED
        BY <3>2, <4>1 DEF IInv, PassingOnce
    <3>3. QED
      BY <1>2, <3>1, <3>2 DEF PassingOnce, OneProcess
  <2>8. ASSUME NEW d \in Conns
        PROVE  HandedOver(d)' <=> HandedOver(d) /\ home[d] # t
    <3>1. Passed(d)' <=> Passed(d) /\ home[d] # t
      <4>1. ASSUME NEW q \in Mains \X Ios, NEW n \in 1 .. Len(passing'[q]), passing'[q][n] = d
            PROVE  Passed(d) /\ home[d] # t
        <5>1. q[2] # t /\ passing'[q] = passing[q]
          BY <2>5
        <5>2. QED
          BY <2>6, <4>1, <5>1 DEF Passed
      <4>2. ASSUME NEW q \in Mains \X Ios, NEW n \in 1 .. Len(passing[q]), passing[q][n] = d,
                   home[d] # t
            PROVE  Passed(d)'
        <5>1. passing'[q] = passing[q]
          BY <2>1, <2>6, <4>2
        <5>2. QED
          BY <4>2, <5>1 DEF Passed
      <4>3. QED
        BY <4>1, <4>2 DEF Passed
    <3>2. passing' \in [Mains \X Ios -> Seq(Conns)]
      BY <2>2 DEF ControlTypeOK
    <3>3. QED
      BY <1>2, <3>1, <3>2, HandedOverPassed
  <2>9. ASSUME NEW d \in Conns, NEW j \in Ios
        PROVE  /\ InLoop(d, j)' <=> InLoop(d, j) /\ j # t
               /\ Reading(d, j)' <=> Reading(d, j) /\ j # t
    <3>1. CASE j = t
      BY <2>1, <3>1, NoneIsNone DEF InLoop, Reading, Pending
    <3>2. CASE j # t
      BY <2>1, <3>2 DEF InLoop, Reading, Pending
    <3>3. QED
      BY <3>1, <3>2
  <2>10. ASSUME NEW d \in Conns PROVE Placed(d)'
    <3>1. CASE home[d] = t
      <4>1. \A j \in Ios : InLoop(d, j) => j = t
        BY <3>1 DEF IInv, Placed, LoopOwns
      <4>2. \A j \in Ios : Reading(d, j) => InLoop(d, j)
        BY DEF InLoop, Reading, Pending
      <4>3. \A j \in Ios : ~ InLoop(d, j)' /\ ~ Reading(d, j)'
        BY <2>9, <4>1, <4>2
      <4>4. home'[d] = None /\ None \notin ended'
        BY <2>1, <3>1, NoneIsNone DEF IInv, ControlTypeOK
      <4>5. QED
        BY <2>8, <3>1, <4>3, <4>4 DEF Placed, LoopOwns
    <3>2. CASE home[d] # t
      <4>1. home'[d] = home[d] /\ armed'[d] = armed[d]
        BY <2>1, <3>2
      <4>2. HandedOver(d)' <=> HandedOver(d)
        BY <2>8, <3>2
      <4>3. \A j \in Ios : InLoop(d, j)' <=> InLoop(d, j)
        BY <2>9, <3>2 DEF IInv, Placed, LoopOwns
      <4>4. \A j \in Ios : Reading(d, j)' => Reading(d, j)
        BY <2>9
      <4>5. LoopOwns(d)'
        BY <4>1, <4>2, <4>3, <4>4 DEF IInv, Placed, LoopOwns, IsHSHA
      <4>6. home[d] \notin ended'
        BY <1>2, <2>1, <3>2 DEF IInv, Placed
      <4>7. QED
        BY <4>1, <4>2, <4>3, <4>5, <4>6 DEF IInv, Placed
    <3>3. QED
      BY <3>1, <3>2
  <2>11. QED
    BY <2>2, <2>3, <2>4, <2>7, <2>10 DEF IInv
<1>3. QED
  BY <1>1, <1>2

-----------------------------------------------------------------------------
(* Every step keeps the invariant.                                         *)

\* What the parts of a message, the peers and the semaphores are is not in the invariant.
LEMMA Rests ==
  ASSUME IInv,
         UNCHANGED <<server, option, home, armed, io_at, io_conn, events, index, passing, ended,
                     worker_at, conn, Queue>>
  PROVE  IInv'
<1>1. /\ io_at' \in [Ios -> {"next", "read", "write", "wait Idle", "push", "notify"}]
      /\ worker_at' \in [Workers -> {"get", "waiting", "pop", "post Idle", "mod", "write"}]
  BY DEF IInv, ControlTypeOK
<1>2. QED
  BY <1>1, GoesOn

\* The loop i goes to p with the connection it has.
LEMMA LoopGoesOn ==
  ASSUME IInv, NEW i \in Ios, NEW p, IoGoto(i, p),
         \/ io_at[i] = "notify" /\ p = "next"
         \/ io_at[i] = "wait Idle" /\ p = "push"
         \/ io_at[i] = "read" /\ p = "write"
         \/ io_at[i] = "read" /\ p \in {"push", "wait Idle"} /\ IsHSHA,
         UNCHANGED <<server, option, home, armed, io_conn, events, index, passing, ended>>,
         UNCHANGED <<worker_at, conn, Queue>>
  PROVE  IInv'
<1>1. /\ io_at' \in [Ios -> {"next", "read", "write", "wait Idle", "push", "notify"}]
      /\ io_at'[i] = p /\ \A j \in Ios \ {i} : io_at'[j] = io_at[j]
  BY DEF IInv, ControlTypeOK, IoGoto
<1>2. worker_at' \in [Workers -> {"get", "waiting", "pop", "post Idle", "mod", "write"}]
  BY DEF IInv, ControlTypeOK
<1>3. QED
  BY <1>1, <1>2, GoesOn

\* The worker w goes to p, and has a connection if it had one before.
LEMMA WorkerGoesOn ==
  ASSUME IInv, NEW w \in Workers, NEW p, WorkerGoto(w, p),
         \/ {worker_at[w], p} \subseteq {"get", "waiting", "pop"}
         \/ {worker_at[w], p} \subseteq {"post Idle", "mod", "write"},
         UNCHANGED <<server, option, home, armed, io_at, io_conn, events, index, passing, ended>>,
         UNCHANGED <<conn, Queue>>
  PROVE  IInv'
<1>1. /\ worker_at' \in [Workers -> {"get", "waiting", "pop", "post Idle", "mod", "write"}]
      /\ worker_at'[w] = p /\ \A v \in Workers \ {w} : worker_at'[v] = worker_at[v]
  BY DEF IInv, ControlTypeOK, WorkerGoto
<1>2. io_at' \in [Ios -> {"next", "read", "write", "wait Idle", "push", "notify"}]
  BY DEF IInv, ControlTypeOK
<1>3. QED
  BY <1>1, <1>2, GoesOn

\* The steps of Conn::Read in a loop.
LEMMA Reads ==
  ASSUME IInv, NEW i \in Ios, NEW c \in Conns, io_conn[i] = c,
         ReadPart(i, c) \/ ReadPauses(i, c) \/ ReadFails(i, c),
         UNCHANGED <<server, option, index, passing, ended, worker_at, conn, Queue>>
  PROVE  IInv'
<1>1. io_at[i] = "read" /\ events' = events
  BY DEF ReadPart, ReadPauses, ReadFails, IoRuns
<1>2. armed[c] = "none" <=> IsHSHA
  BY <1>1 DEF IInv, Placed, LoopOwns, Reading
<1>3. armed \in [Conns -> {"none", "read", "write"}]
  BY DEF IInv, ControlTypeOK
<1>4. ASSUME ReadPart(i, c), decoded'[c] = Pieces PROVE IInv'
  <2>1. OneMessage(i, c) /\ home' = home
    BY <1>4 DEF ReadPart
  <2>2. CASE IsHSHA
    <3>1. PICK p \in {"push", "wait Idle"} : IoGoto(i, p) /\ UNCHANGED <<io_conn, armed>>
      BY <2>1, <2>2 DEF OneMessage, IsHSHA
    <3>2. QED
      BY <1>1, <2>1, <2>2, <3>1, LoopGoesOn
  <2>3. CASE ~ IsHSHA /\ is_write_first
    <3>1. IoGoto(i, "write") /\ UNCHANGED <<io_conn, armed>>
      BY <2>1, <2>3 DEF OneMessage, IsHSHA
    <3>2. QED
      BY <1>1, <2>1, <3>1, LoopGoesOn
  <2>4. CASE ~ IsHSHA /\ ~ is_write_first
    <3>1. ModToWriteEvent(c) /\ IoLeaves(i, "next")
      BY <2>1, <2>4 DEF OneMessage, IsHSHA
    <3>2. /\ armed' \in [Conns -> {"none", "read", "write"}] /\ armed'[c] # "none"
          /\ \A d \in Conns \ {c} : armed'[d] = armed[d]
      BY <1>3, <3>1 DEF ModToWriteEvent, Watch
    <3>3. QED
      BY <1>1, <2>1, <3>1, <3>2, LeavesWatched
  <2>5. QED
    BY <2>2, <2>3, <2>4
<1>5. ASSUME ReadPart(i, c), decoded'[c] # Pieces PROVE IInv'
  <2>1. UNCHANGED <<home, armed>>
    BY <1>5 DEF ReadPart
  <2>2. CASE is_multi_io
    <3>1. UNCHANGED <<io_at, io_conn>>
      BY <1>5, <2>2 DEF ReadPart
    <3>2. QED
      BY <1>1, <2>1, <3>1, Rests
  <2>3. CASE ~ is_multi_io
    <3>1. IoLeaves(i, "next")
      BY <1>5, <2>3 DEF ReadPart
    <3>2. armed[c] # "none"
      BY <1>2, <2>3 DEF IInv, ControlTypeOK
    <3>3. QED
      BY <1>1, <1>3, <2>1, <3>1, <3>2, LeavesWatched
  <2>4. QED
    BY <2>2, <2>3
<1>6. ASSUME ReadPauses(i, c) PROVE IInv'
  <2>1. IoLeaves(i, "next") /\ home' = home
    BY <1>6 DEF ReadPauses
  <2>2. /\ armed' \in [Conns -> {"none", "read", "write"}] /\ armed'[c] # "none"
        /\ \A d \in Conns \ {c} : armed'[d] = armed[d]
    BY <1>2, <1>3, <1>6 DEF ReadPauses, ModToReadEvent, Watch
  <2>3. QED
    BY <1>1, <2>1, <2>2, LeavesWatched
<1>7. ASSUME ReadFails(i, c) PROVE IInv'
  BY <1>1, <1>7, LeavesReleased DEF ReadFails
<1>8. QED
  BY <1>4, <1>5, <1>6, <1>7

\* The steps of Conn::Write in a loop.
LEMMA Writes ==
  ASSUME IInv, NEW i \in Ios, NEW c \in Conns, io_conn[i] = c, IoWrite(i, c),
         UNCHANGED <<server, option, index, passing, ended, worker_at, conn, Queue>>
  PROVE  IInv'
<1>1. armed \in [Conns -> {"none", "read", "write"}]
  BY DEF IInv, ControlTypeOK
<1>2. events' = events
  BY DEF IoWrite
<1>3. ASSUME Unfinished(i, c), home' = home PROVE IInv'
  <2>1. /\ armed' \in [Conns -> {"none", "read", "write"}] /\ armed'[c] # "none"
        /\ \A d \in Conns \ {c} : armed'[d] = armed[d]
    BY <1>1, <1>3 DEF Unfinished, ModToWriteEvent, Watch
  <2>2. QED
    BY <1>2, <1>3, <2>1, LeavesWatched DEF Unfinished
<1>4. ASSUME UNCHANGED <<home, armed, io_at, io_conn>> PROVE IInv'
  BY <1>2, <1>4, Rests
<1>5. ASSUME Answer(c), IoLeaves(i, "next") PROVE IInv'
  <2>1. /\ armed' \in [Conns -> {"none", "read", "write"}] /\ armed'[c] # "none"
        /\ \A d \in Conns \ {c} : armed'[d] = armed[d]
        /\ home' = home
    BY <1>1, <1>5 DEF Answer, ModToReadEvent, Watch
  <2>2. QED
    BY <1>2, <1>5, <2>1, LeavesWatched
<1>6. ASSUME Release({c}), IoLeaves(i, "next") PROVE IInv'
  BY <1>2, <1>6, LeavesReleased
<1>7. QED
  BY <1>3, <1>4, <1>5, <1>6 DEF IoWrite

\* The steps of a loop.
LEMMA Loops ==
  ASSUME IInv, NEW i \in Ios, i \notin ended, LoopStep(i),
         UNCHANGED <<server, option, worker_at, conn, Queue>>
  PROVE  IInv'
<1>1. ASSUME EpollWait(i), UNCHANGED <<home, io_at, io_conn, main_vars, ended>> PROVE IInv'
  BY <1>1, Returns DEF main_vars
<1>2. ASSUME Handle(i), UNCHANGED <<conn_vars, main_vars, ended>> PROVE IInv'
  BY <1>2, Begins DEF main_vars, conn_vars, event_vars
<1>3. ASSUME NEW c \in Conns, io_conn[i] = c, UNCHANGED <<main_vars, ended>>,
             ReadPart(i, c) \/ ReadPauses(i, c) \/ ReadFails(i, c) \/ IoWrite(i, c)
      PROVE  IInv'
  BY <1>3, Reads, Writes DEF main_vars
<1>4. ASSUME NEW m \in Mains, RecvFd(i, m), UNCHANGED index PROVE IInv'
  <2>1. CASE passing[<<m, i>>] = <<>>
    BY <1>4, <2>1, NoneIsNone, ProcessEnds DEF RecvFd
  <2>2. CASE passing[<<m, i>>] # <<>>
    BY <1>4, <2>2, Receives DEF RecvFd
  <2>3. QED
    BY <2>1, <2>2
<1>5. QED
  BY <1>1, <1>2, <1>3, <1>4 DEF LoopStep

\* The steps of an io thread with the queue.
LEMMA IoSteps ==
  ASSUME IInv, NEW i \in Ios, i \notin ended, IoStep(i)
  PROVE  IInv'
<1>1. UNCHANGED <<server, option>>
  BY DEF IoStep, option_vars
<1>2. ASSUME LoopStep(i), UNCHANGED <<worker_vars, queue_vars>> PROVE IInv'
  BY <1>1, <1>2, Loops DEF worker_vars, queue_vars
<1>3. ASSUME WaitIdle(i), UNCHANGED <<conn_vars, main_vars, ended, worker_vars>> PROVE IInv'
  <2>1. /\ UNCHANGED <<home, armed, io_conn, events, index, passing, ended>>
        /\ UNCHANGED <<worker_at, conn, Queue>>
    BY <1>3 DEF WaitIdle, conn_vars, event_vars, main_vars, worker_vars, queue_vars
  <2>2. io_at[i] = "wait Idle" /\ IoGoto(i, "push")
    BY <1>3 DEF WaitIdle, IoRuns
  <2>3. QED
    BY <1>1, <2>1, <2>2, LoopGoesOn
<1>4. ASSUME Push(i, io_conn[i]), UNCHANGED <<conn_vars, main_vars, ended, worker_vars>> PROVE IInv'
  <2>1. PICK c \in Conns : io_conn[i] = c
    BY <1>4 DEF Push, IoRuns, IInv, ControlTypeOK, LoopOnce
  <2>2. Push(i, c)
    BY <1>4, <2>1 DEF Push
  <2>3. UNCHANGED <<home, armed, index, passing, ended, worker_at, conn>>
    BY <1>4 DEF conn_vars, event_vars, main_vars, worker_vars
  <2>4. QED
    BY <1>1, <2>1, <2>2, <2>3, Pushes
<1>5. ASSUME Notify(i), UNCHANGED <<conn_vars, main_vars, ended>> PROVE IInv'
  <2>1. UNCHANGED <<home, armed, io_conn, events, index, passing, ended, conn, Queue>>
    BY <1>5 DEF Notify, conn_vars, event_vars, main_vars
  <2>2. io_at[i] = "notify" /\ IoGoto(i, "next")
    BY <1>5 DEF Notify, IoRuns
  <2>3. /\ io_at' \in [Ios -> {"next", "read", "write", "wait Idle", "push", "notify"}]
        /\ io_at'[i] = "next" /\ \A j \in Ios \ {i} : io_at'[j] = io_at[j]
    BY <2>2 DEF IInv, ControlTypeOK, IoGoto
  <2>4. \/ worker_at' = worker_at
        \/ \E w \in Workers :
             worker_at[w] = "waiting" /\ worker_at' = [worker_at EXCEPT ![w] = "get"]
    BY <1>5 DEF Notify
  <2>5. /\ worker_at' \in [Workers -> {"get", "waiting", "pop", "post Idle", "mod", "write"}]
        /\ \A w \in Workers :
             worker_at[w] \in {"get", "waiting", "pop"}
               <=> worker_at'[w] \in {"get", "waiting", "pop"}
    BY <2>4 DEF IInv, ControlTypeOK
  <2>6. QED
    BY <1>1, <2>1, <2>2, <2>3, <2>5, GoesOn
<1>6. QED
  BY <1>2, <1>3, <1>4, <1>5 DEF IoStep

\* The sub reactor whose turn it is.
LEMMA NextSubIsIo ==
  ASSUME IInv, NEW m \in Mains
  PROVE  NextSub(m) \in Ios /\ [index EXCEPT ![m] = NextSub(m)] \in [Mains -> Ios]
<1>1. index \in [Mains -> 0 .. io_count - 1] /\ io_count \in Nat \ {0}
  BY ReactorAssumption DEF IInv, ControlTypeOK, Ios
<1>2. (index[m] + 1) % io_count \in 0 .. io_count - 1
  BY <1>1
<1>3. QED
  BY <1>1, <1>2 DEF NextSub, Ios

\* A connection is added, or sent, to a sub reactor.
LEMMA GoesToSub ==
  ASSUME IInv, NEW m \in Mains, NEW c \in Conns,
         ~ HandedOver(c), \A j \in Ios : ~ InLoop(c, j), NextSub(m) \notin ended,
         AddToSubReactor(m, c),
         UNCHANGED <<server, option, io_at, io_conn, events, worker_at, conn, Queue>>
  PROVE  IInv'
<1>1. PICK i \in Ios : i = NextSub(m)
  BY NextSubIsIo
<1>2. index' \in [Mains -> Ios] /\ ended' = ended
  BY NextSubIsIo DEF AddToSubReactor
<1>3. CASE OneProcess
  <2>1. AddReadEvent(i, c) /\ passing' = passing
    BY <1>1, <1>3 DEF AddToSubReactor
  <2>2. QED
    BY <1>1, <1>2, <2>1, NoneIsNone, Adds
<1>4. CASE ~ OneProcess
  <2>1. /\ home' = [home EXCEPT ![c] = i]
        /\ armed' = [armed EXCEPT ![c] = "none"]
        /\ passing' = [passing EXCEPT ![<<m, i>>] = Append(@, c)]
    BY <1>1, <1>4 DEF AddToSubReactor
  <2>2. QED
    BY <1>1, <1>2, <1>4, <2>1, Passes
<1>5. QED
  BY <1>3, <1>4

\* The steps of a main reactor.
LEMMA MainSteps ==
  ASSUME IInv, NEW m \in Mains, m \notin ended, NEW c \in Conns,
         MainStep(m, c) \/ MainAcceptStep(m, c),
         UNCHANGED <<option_vars, worker_vars, queue_vars>>
  PROVE  IInv'
<1>1. UNCHANGED <<server, option, worker_at, conn, Queue>>
  BY DEF option_vars, worker_vars, queue_vars
<1>2. ASSUME MainMove(m, c), UNCHANGED io_vars PROVE IInv'
  <2>1. ~ HandedOver(c) /\ \A j \in Ios : ~ InLoop(c, j)
    BY <1>2, MainsIsFree DEF MainMove
  <2>2. QED
    BY <1>1, <1>2, <2>1, GoesToSub DEF MainMove, io_vars
<1>3. ASSUME SendFdBreaks(m) PROVE IInv'
  BY <1>1, <1>3, NoneIsNone, ProcessEnds DEF SendFdBreaks
<1>4. ASSUME MainAccept(m, c), UNCHANGED io_vars PROVE IInv'
  <2>1. ~ HandedOver(c) /\ \A j \in Ios : ~ InLoop(c, j)
    BY <1>4, ClosedIsFree DEF MainAccept
  <2>2. CASE is_main_read
    <3>1. AddReadEvent(m, c) /\ UNCHANGED <<io_at, io_conn, events, index, passing, ended>>
      BY <1>4, <2>2 DEF MainAccept, main_vars, io_vars
    <3>2. index' \in [Mains -> Ios]
      BY <3>1 DEF IInv, ControlTypeOK
    <3>3. QED
      BY <1>1, <2>1, <3>1, <3>2, NoneIsNone, Adds
  <2>3. CASE ~ is_main_read
    BY <1>1, <1>4, <2>1, <2>3, GoesToSub DEF MainAccept, io_vars
  <2>4. QED
    BY <2>2, <2>3
<1>5. QED
  BY <1>2, <1>3, <1>4 DEF MainStep, MainAcceptStep

\* The steps of a worker.
LEMMA WorkerSteps ==
  ASSUME IInv, IsHSHA, NEW w \in Workers, WorkerStep(w)
  PROVE  IInv'
<1>1. UNCHANGED <<server, option, io_at, io_conn, events, index, passing, ended>>
  BY DEF WorkerStep, option_vars, io_vars, main_vars
<1>2. ASSUME GetQueueData(w) \/ WaitFill(w) \/ PopFilled(w) \/ PostIdle(w), UNCHANGED event_vars
      PROVE  IInv'
  <2>1. home' = home /\ armed' = armed
    BY <1>2 DEF event_vars
  <2>2. ASSUME Pop(w), worker_at[w] = "get", EnCode(w, Head(Queue)) PROVE IInv'
    <3>1. PICK p \in {"write", "mod"} : WorkerGoto(w, p)
      BY <2>2 DEF EnCode
    <3>2. QED
      BY <1>1, <2>1, <2>2, <3>1, Takes
  <2>3. ASSUME GetQueueData(w) PROVE IInv'
    <3>1. ASSUME WorkerGoto(w, "waiting"), UNCHANGED <<conn, Queue>> PROVE IInv'
      BY <1>1, <2>1, <2>3, <3>1, WorkerGoesOn DEF GetQueueData, WorkerRuns
    <3>2. QED
      BY <2>2, <2>3, <3>1 DEF GetQueueData, WorkerRuns
  <2>4. ASSUME WaitFill(w) PROVE IInv'
    BY <1>1, <2>1, <2>4, WorkerGoesOn DEF WaitFill, WorkerRuns
  <2>5. ASSUME PopFilled(w) PROVE IInv'
    BY <1>1, <2>1, <2>5, Takes DEF PopFilled, WorkerRuns
  <2>6. ASSUME PostIdle(w) PROVE IInv'
    <3>1. PICK p \in {"write", "mod"} : WorkerGoto(w, p)
      BY <2>6 DEF PostIdle, EnCode
    <3>2. worker_at[w] = "post Idle" /\ UNCHANGED <<conn, Queue>>
      BY <2>6 DEF PostIdle, WorkerRuns
    <3>3. QED
      BY <1>1, <2>1, <3>1, <3>2, WorkerGoesOn
  <2>7. QED
    BY <1>2, <2>3, <2>4, <2>5, <2>6
<1>3. ASSUME NEW c \in Conns, conn[w] = c, WorkerAsks(w, c) \/ WorkerWrite(w, c),
             UNCHANGED queue_vars
      PROVE  IInv'
  <2>1. Queue' = Queue /\ armed \in [Conns -> {"none", "read", "write"}]
    BY <1>3 DEF queue_vars, IInv, ControlTypeOK
  <2>2. ASSUME NEW what \in {"read", "write"}, Watch(c, what), home' = home, WorkerLeaves(w)
        PROVE  IInv'
    <3>1. /\ armed' \in [Conns -> {"none", "read", "write"}] /\ armed'[c] # "none"
          /\ \A d \in Conns \ {c} : armed'[d] = armed[d]
      BY <2>1, <2>2 DEF Watch
    <3>2. QED
      BY <1>1, <1>3, <2>1, <2>2, <3>1, WorkerLeavesWatched
  <2>3. ASSUME WorkerAsks(w, c) PROVE IInv'
    BY <2>2, <2>3 DEF WorkerAsks, ModToWriteEvent
  <2>4. ASSUME WorkerWrite(w, c) PROVE IInv'
    <3>1. ASSUME UNCHANGED <<event_vars, worker_vars>> PROVE IInv'
      BY <1>1, <2>1, <3>1, Rests DEF event_vars, worker_vars
    <3>2. ASSUME Answer(c), WorkerLeaves(w) PROVE IInv'
      BY <2>2, <3>2 DEF Answer, ModToReadEvent
    <3>3. ASSUME Release({c}), WorkerLeaves(w) PROVE IInv'
      BY <1>1, <1>3, <2>1, <3>3, WorkerLeavesReleased
    <3>4. QED
      BY <2>4, <3>1, <3>2, <3>3 DEF WorkerWrite
  <2>5. QED
    BY <1>3, <2>3, <2>4
<1>4. QED
  BY <1>2, <1>3 DEF WorkerStep

\* The connections are closed, the queue is empty, and everybody is at the beginning.
LEMMA Initially ==
  ASSUME Init
  PROVE  IInv
<1>1. /\ home = [c \in Conns |-> None] /\ armed = [c \in Conns |-> "none"]
      /\ io_at = [i \in Ios |-> "next"] /\ io_conn = [i \in Ios |-> None]
      /\ events = [i \in Ios |-> {}] /\ index = [m \in Mains |-> 0]
      /\ passing = [p \in Mains \X Ios |-> <<>>] /\ ended = {}
      /\ worker_at = [w \in Workers |-> "get"] /\ conn = [w \in Workers |-> None]
      /\ Queue = <<>> /\ option \in Options(server)
  BY DEF Init, ConnInit, ReactorInit
<1>2. Len(Queue) = 0 /\ \A p \in Mains \X Ios : Len(passing[p]) = 0
  BY <1>1
<1>3. ControlTypeOK
  <2>1. is_multi_io \/ ~ IsHSHA
    BY <1>1 DEF Options, is_multi_io, IsHSHA
  <2>2. 0 \in Ios
    BY ReactorAssumption DEF Ios
  <2>3. passing \in [Mains \X Ios -> Seq(Conns)] /\ Queue \in Seq(Conns)
    BY <1>1, EmptySeq
  <2>4. QED
    BY <1>1, <2>1, <2>2, <2>3 DEF ControlTypeOK
<1>4. LoopOnce
  BY <1>1 DEF LoopOnce, Pending
<1>5. QueueOnce
  BY <1>1, <1>2 DEF QueueOnce
<1>6. PassingOnce
  BY <1>2 DEF PassingOnce
<1>7. ASSUME NEW c \in Conns PROVE Placed(c)
  <2>1. ~ HandedOver(c)
    BY <1>1, NoneIsNone DEF HandedOver
  <2>2. \A i \in Ios : ~ InLoop(c, i) /\ ~ Reading(c, i)
    BY <1>1, NoneIsNone DEF InLoop, Reading, Pending
  <2>3. QED
    BY <1>1, <2>1, <2>2 DEF Placed, LoopOwns
<1>8. QED
  BY <1>3, <1>4, <1>5, <1>6, <1>7 DEF IInv

LEMMA Steps ==
  ASSUME IInv, [Next]_vars
  PROVE  IInv'
<1>1. ASSUME NEW i \in Ios, i \notin ended, IoStep(i) PROVE IInv'
  BY <1>1, IoSteps
<1>2. ASSUME NEW i \in Ios, i \notin ended, NEW c \in Conns, AcceptStep(i, c) PROVE IInv'
  <2>1. /\ AddReadEvent(i, c) /\ home[c] = None
        /\ UNCHANGED <<server, option, io_at, io_conn, events, index, passing, ended>>
        /\ UNCHANGED <<worker_at, conn, Queue>>
    BY <1>2 DEF AcceptStep, Accept, Connects, option_vars, io_vars, main_vars, worker_vars,
                queue_vars
  <2>2. index' \in [Mains -> Ios] /\ i \in Threads
    BY <2>1, NoneIsNone DEF IInv, ControlTypeOK
  <2>3. ~ HandedOver(c) /\ \A j \in Ios : ~ InLoop(c, j)
    BY <2>1, ClosedIsFree
  <2>4. QED
    BY <1>2, <2>1, <2>2, <2>3, Adds
<1>3. ASSUME NEW m \in Mains, m \notin ended, NEW c \in Conns,
             \/ MainReactorStep(m, c)
             \/ MainAcceptStep(m, c) /\ UNCHANGED <<option_vars, worker_vars, queue_vars>>
      PROVE  IInv'
  BY <1>3, MainSteps DEF MainReactorStep
<1>4. ASSUME NEW w \in Workers, IsHSHA, WorkerStep(w) PROVE IInv'
  BY <1>4, WorkerSteps
<1>5. ASSUME WakesUp, UNCHANGED <<option_vars, conn_vars, io_vars, main_vars, ended>> PROVE IInv'
  <2>1. PICK w \in Workers : worker_at[w] = "waiting" /\ WorkerGoto(w, "get")
    BY <1>5 DEF WakesUp, WorkerRuns
  <2>2. /\ UNCHANGED <<server, option, home, armed, io_at, io_conn, events, index, passing, ended>>
        /\ UNCHANGED <<conn, Queue>>
    BY <1>5 DEF WakesUp, option_vars, conn_vars, event_vars, io_vars, main_vars, queue_vars
  <2>3. QED
    BY <2>1, <2>2, WorkerGoesOn
<1>6. ASSUME NEW c \in Conns, PeerStep(c) PROVE IInv'
  BY <1>6, Rests DEF PeerStep, server_vars, option_vars, io_vars, main_vars, worker_vars,
                     queue_vars
<1>7. ASSUME NEW t \in Ios \cup Workers, NEW c \in Conns, PipeBreaks(t, c) PROVE IInv'
  <2>1. OneProcess \/ t \in Threads
    <3>1. CASE t \in Ios
      BY <3>1, NoneIsNone
    <3>2. CASE t \in Workers /\ conn[t] = c
      BY <3>2, NoneIsNone DEF IInv, QueueOnce, OneProcess, IsHSHA
    <3>3. QED
      BY <1>7, <3>1, <3>2 DEF PipeBreaks
  <2>2. Ends(t) /\ UNCHANGED <<server, option, index, worker_at, conn, Queue>>
    BY <1>7 DEF PipeBreaks, option_vars, worker_vars, queue_vars
  <2>3. QED
    BY <2>1, <2>2, ProcessEnds
<1>8. ASSUME UNCHANGED vars PROVE IInv'
  BY <1>8, Rests DEF vars, option_vars, conn_vars, event_vars, io_vars, main_vars, worker_vars,
                     queue_vars
<1>9. QED
  BY <1>1, <1>2, <1>3, <1>4, <1>5, <1>6, <1>7, <1>8 DEF Next

LEMMA AlwaysIInv == Spec => []IInv
<1>1. Init => IInv
  BY Initially
<1>2. IInv /\ [Next]_vars => IInv'
  BY Steps
<1>3. QED
  BY <1>1, <1>2, PTL DEF Spec

-----------------------------------------------------------------------------
(* One owner: of the places where a connection may be, at most one has it, *)
(* and has it once.                                                        *)

LEMMA AtMostOne ==
  ASSUME NEW S, \A x, y \in S : x = y
  PROVE  \/ S = {} /\ Cardinality(S) = 0
         \/ S # {} /\ Cardinality(S) = 1
<1>1. CASE S = {}
  BY <1>1, FS_EmptySet
<1>2. CASE S # {}
  <2>1. PICK x \in S : TRUE
    BY <1>2
  <2>2. S = {x}
    BY <2>1
  <2>3. QED
    BY <1>2, <2>2, FS_Singleton
<1>3. QED
  BY <1>1, <1>2

LEMMA HeldOnce ==
  ASSUME IInv, NEW c \in Conns
  PROVE  \/ Held(c) = 0 /\ ~ HandedOver(c) /\ \A i \in Ios : ~ InLoop(c, i)
         \/ Held(c) = 1 /\ (HandedOver(c) \/ \E i \in Ios : InLoop(c, i))
<1> DEFINE E == {e \in Ios \X {"read", "write"} : <<c, e[2]>> \in events[e[1]]}
           L == {i \in Ios : io_conn[i] = c}
           Q == {n \in 1 .. Len(Queue) : Queue[n] = c}
           W == {w \in Workers : conn[w] = c}
           P == {p \in Mains \X Ios : \E n \in DOMAIN passing[p] : passing[p][n] = c}
<1>1. Placed(c) /\ LoopOwns(c)
  BY DEF IInv, Placed
<1>2. Held(c) = Cardinality(E) + Cardinality(L) + Cardinality(Q) + Cardinality(W) + Cardinality(P)
  BY DEF Held
<1>3. \A i, j \in Ios : InLoop(c, i) /\ InLoop(c, j) => i = j
  BY <1>1 DEF LoopOwns
<1>4. \A e \in E : e[1] \in Ios /\ Pending(c, e[1]) /\ InLoop(c, e[1])
  BY DEF InLoop, Pending
<1>5. \A x, y \in E : x = y
  <2> SUFFICES ASSUME NEW x \in E, NEW y \in E PROVE x = y
    OBVIOUS
  <2>1. PICK i \in Ios, j \in Ios, a \in {"read", "write"}, b \in {"read", "write"} :
          x = <<i, a>> /\ y = <<j, b>>
    OBVIOUS
  <2>2. i = j
    BY <1>3, <1>4, <2>1
  <2>3. <<c, a>> \in events[i] /\ <<c, b>> \in events[i]
    BY <2>1, <2>2
  <2>4. a = b
    BY <2>3 DEF IInv, LoopOnce
  <2>5. QED
    BY <2>1, <2>2, <2>4
<1>6. \A x, y \in L : x = y
  BY <1>3 DEF InLoop
<1>7. \A x, y \in Q : x = y
  BY DEF IInv, QueueOnce
<1>8. \A x, y \in W : x = y
  BY NoneIsNone DEF IInv, QueueOnce
<1>9. \A x, y \in P : x = y
  <2> SUFFICES ASSUME NEW x \in P, NEW y \in P PROVE x = y
    OBVIOUS
  <2>1. PICK m \in DOMAIN passing[x] : passing[x][m] = c
    OBVIOUS
  <2>2. PICK n \in DOMAIN passing[y] : passing[y][n] = c
    OBVIOUS
  <2>3. m \in 1 .. Len(passing[x]) /\ n \in 1 .. Len(passing[y])
    BY PassedAt DEF IInv
  <2>4. QED
    BY <2>1, <2>2, <2>3 DEF IInv, PassingOnce
<1>10. E # {} => L = {}
  <2> SUFFICES ASSUME NEW e \in E, NEW i \in L PROVE FALSE
    OBVIOUS
  <2>1. e[1] = i
    BY <1>3, <1>4 DEF InLoop
  <2>2. QED
    BY <1>4, <2>1 DEF IInv, LoopOnce
<1>11. (\E i \in Ios : InLoop(c, i)) <=> E # {} \/ L # {}
  <2>1. ASSUME NEW i \in Ios, Pending(c, i) PROVE E # {}
    <3>1. <<i, "read">> \in E \/ <<i, "write">> \in E
      BY <2>1 DEF Pending
    <3>2. QED
      BY <3>1
  <2>2. QED
    BY <1>4, <2>1 DEF InLoop
<1>12. HandedOver(c) <=> Q # {} \/ W # {} \/ P # {}
  BY DEF HandedOver
<1>13. (\E i \in Ios : InLoop(c, i)) => ~ HandedOver(c)
  BY <1>1 DEF LoopOwns
<1>14. Q # {} => W = {}
  BY DEF IInv, QueueOnce
<1>15. Q # {} \/ W # {} => P = {}
  <2>1. IsHSHA \/ (Q = {} /\ W = {})
    <3>1. ~ IsHSHA => Len(Queue) = 0 /\ \A w \in Workers : conn[w] = None
      BY DEF IInv, QueueOnce
    <3>2. QED
      BY <3>1, NoneIsNone
  <2>2. OneProcess => P = {}
    <3>1. OneProcess => \A p \in Mains \X Ios : Len(passing[p]) = 0
      BY DEF IInv, PassingOnce
    <3>2. \A p \in Mains \X Ios : DOMAIN passing[p] = 1 .. Len(passing[p])
      BY PassedAt DEF IInv
    <3>3. QED
      BY <3>1, <3>2
  <2>3. QED
    BY <2>1, <2>2 DEF IsHSHA, OneProcess
<1> HIDE DEF E, L, Q, W, P
<1>16. /\ (E = {} /\ Cardinality(E) = 0) \/ (E # {} /\ Cardinality(E) = 1)
       /\ (L = {} /\ Cardinality(L) = 0) \/ (L # {} /\ Cardinality(L) = 1)
       /\ (Q = {} /\ Cardinality(Q) = 0) \/ (Q # {} /\ Cardinality(Q) = 1)
       /\ (W = {} /\ Cardinality(W) = 0) \/ (W # {} /\ Cardinality(W) = 1)
       /\ (P = {} /\ Cardinality(P) = 0) \/ (P # {} /\ Cardinality(P) = 1)
  BY <1>5, <1>6, <1>7, <1>8, <1>9, AtMostOne
<1>17. CASE E = {} /\ L = {} /\ Q = {} /\ W = {} /\ P = {}
  BY <1>2, <1>11, <1>12, <1>16, <1>17
<1>18. CASE E # {} \/ L # {}
  <2>1. Q = {} /\ W = {} /\ P = {}
    BY <1>11, <1>12, <1>13, <1>18
  <2>2. QED
    BY <1>2, <1>10, <1>11, <1>16, <1>18, <2>1
<1>19. CASE Q # {} \/ W # {} \/ P # {}
  <2>1. E = {} /\ L = {}
    BY <1>11, <1>12, <1>13, <1>19
  <2>2. QED
    BY <1>2, <1>12, <1>14, <1>15, <1>16, <1>19, <2>1
<1>20. QED
  BY <1>17, <1>18, <1>19

-----------------------------------------------------------------------------
(* The theorems.                                                           *)

\* A connection is in one place, of all that its address is passed through: the events of an
\* epoll_wait, a loop, the queue, a worker, a unix socket.  It is closed when nobody has it,
\* its events are watched unless somebody has it, and not while it is handed over.  No
\* process that has ended is left with one.
THEOREM Owned == Spec => []SoleOwner
<1>1. IInv => SoleOwner
  <2> SUFFICES ASSUME IInv, NEW c \in Conns
               PROVE  /\ home[c] = None => Held(c) = 0
                      /\ home[c] # None => Held(c) = 1 \/ (Held(c) = 0 /\ armed[c] # "none")
                      /\ HandedOver(c) => armed[c] = "none"
                      /\ ~ OneProcess => home[c] \notin ended
    BY DEF SoleOwner
  <2>1. Placed(c)
    BY DEF IInv
  <2>2. home[c] = None => Held(c) = 0
    BY ClosedIsFree, HeldOnce
  <2>3. home[c] # None => Held(c) = 1 \/ (Held(c) = 0 /\ armed[c] # "none")
    BY <2>1, HeldOnce DEF Placed
  <2>4. QED
    BY <2>1, <2>2, <2>3 DEF Placed
<1>2. QED
  BY <1>1, AlwaysIInv, PTL

\* A connection is handled by no two loops and no two workers, and by no loop while a worker
\* has it: what they do with its Conn, which no lock guards, is never at the same time.
THEOREM HandledByOne ==
  Spec => [](\A c \in Conns :
               /\ \A i, j \in Ios : io_conn[i] = c /\ io_conn[j] = c => i = j
               /\ \A v, w \in Workers : conn[v] = c /\ conn[w] = c => v = w
               /\ \A i \in Ios, w \in Workers : ~ (io_conn[i] = c /\ conn[w] = c))
<1>1. IInv => \A c \in Conns :
                /\ \A i, j \in Ios : io_conn[i] = c /\ io_conn[j] = c => i = j
                /\ \A v, w \in Workers : conn[v] = c /\ conn[w] = c => v = w
                /\ \A i \in Ios, w \in Workers : ~ (io_conn[i] = c /\ conn[w] = c)
  <2> SUFFICES ASSUME IInv, NEW c \in Conns
               PROVE  /\ \A i, j \in Ios : io_conn[i] = c /\ io_conn[j] = c => i = j
                      /\ \A v, w \in Workers : conn[v] = c /\ conn[w] = c => v = w
                      /\ \A i \in Ios, w \in Workers : ~ (io_conn[i] = c /\ conn[w] = c)
    OBVIOUS
  <2>1. LoopOwns(c)
    BY DEF IInv, Placed
  <2>2. \A v, w \in Workers : conn[v] = c /\ conn[w] = c => v = w
    BY NoneIsNone DEF IInv, QueueOnce
  <2>3. QED
    BY <2>1, <2>2 DEF LoopOwns, InLoop, HandedOver
<1>2. QED
  BY <1>1, AlwaysIInv, PTL

-----------------------------------------------------------------------------
(* The parts of a message: the inductive invariant.  It says where in its  *)
(* round from request to answer a connection is, by what its peer and its  *)
(* sockets have, and what of it whoever has the connection relies on.      *)

DataTypeOK ==
  /\ edge \subseteq Conns
  /\ decoded \in [Conns -> 0 .. Pieces]
  /\ use_len_ \in [Conns -> {0, Pieces}]
  /\ send_len_ \in [Conns -> 0 .. Pieces]
  /\ peer \in [Conns -> {"open", "closed"}]
  /\ asked \in [Conns -> 0 .. Pieces]
  /\ inbox \in [Conns -> 0 .. Pieces]
  /\ outbox \in [Conns -> 0 .. Room]
  /\ got \in [Conns -> 0 .. Pieces - 1]

\* A request is on its way; its answer is written; the peer has had all of the answer and may
\* ask again before the server knows it is done; the server is done and the peer is not.
Echoed(c) ==
  \/ /\ use_len_[c] = 0 /\ got[c] + outbox[c] = 0
     /\ asked[c] = inbox[c] + decoded[c]
  \/ /\ use_len_[c] = Pieces /\ asked[c] = Pieces /\ inbox[c] = 0
     /\ got[c] + outbox[c] = send_len_[c]
  \/ /\ use_len_[c] = Pieces /\ send_len_[c] = Pieces
     /\ got[c] + outbox[c] = 0 /\ asked[c] = inbox[c]
  \/ /\ use_len_[c] = 0 /\ decoded[c] = 0 /\ asked[c] = Pieces /\ inbox[c] = 0
     /\ got[c] + outbox[c] = Pieces

Data(c) ==
  /\ home[c] = None =>
       /\ peer[c] = "closed"
       /\ decoded[c] = 0 /\ use_len_[c] = 0
       /\ asked[c] = 0 /\ inbox[c] = 0 /\ outbox[c] = 0 /\ got[c] = 0
  /\ use_len_[c] = 0 => send_len_[c] = 0
  /\ use_len_[c] # 0 => decoded[c] = Pieces
  /\ peer[c] = "open" => Echoed(c)

AtWrite(c, i) == io_conn[i] = c /\ io_at[i] = "write"
Writing(c, i) == AtWrite(c, i) \/ <<c, "write">> \in events[i]
AtPush(c, i) == io_conn[i] = c /\ io_at[i] \in {"wait Idle", "push"}
Queued(c) == \E n \in 1 .. Len(Queue) : Queue[n] = c

\* Who writes has an answer, and who reads has none yet, unless it is about to write it at
\* once.  What is handed over to a worker is a whole request.
Located(c) ==
  /\ \A i \in Ios : /\ Writing(c, i) => use_len_[c] # 0
                    /\ Reading(c, i) => use_len_[c] = 0
                    /\ AtPush(c, i) => decoded[c] = Pieces
  /\ Queued(c) => use_len_[c] = 0 /\ decoded[c] = Pieces
  /\ \A w \in Workers :
       conn[w] = c => decoded[c] = Pieces /\ (use_len_[c] = 0 <=> worker_at[w] = "post Idle")
  /\ Passed(c) => use_len_[c] = 0
  /\ armed[c] = "write" => use_len_[c] # 0
  /\ armed[c] = "read" => use_len_[c] = 0 \/ \E i \in Ios : AtWrite(c, i)

DataInv ==
  /\ DataTypeOK
  /\ \A c \in Conns : Data(c)

DInv == DataInv /\ \A c \in Conns : Located(c)

-----------------------------------------------------------------------------
(* What happens to the parts of a message.                                 *)

LEMMA PiecesAreNat == Pieces \in Nat /\ Room \in Nat /\ Pieces # 0 /\ Room # 0
BY ConnAssumption

LEMMA DataOther ==
  ASSUME NEW d \in Conns, Data(d), home'[d] = None => home[d] = None,
         decoded'[d] = decoded[d], use_len_'[d] = use_len_[d], send_len_'[d] = send_len_[d],
         peer'[d] = peer[d], asked'[d] = asked[d], inbox'[d] = inbox[d],
         outbox'[d] = outbox[d], got'[d] = got[d]
  PROVE  Data(d)'
BY DEF Data, Echoed

LEMMA DataStays ==
  ASSUME DataInv, edge' \subseteq Conns, UNCHANGED <<codec_vars, peer_vars>>,
         \A d \in Conns : home'[d] = None => home[d] = None
  PROVE  DataInv'
<1>1. DataTypeOK'
  BY DEF DataInv, DataTypeOK, codec_vars, peer_vars
<1>2. \A d \in Conns : Data(d)'
  BY DataOther DEF DataInv, codec_vars, peer_vars
<1>3. QED
  BY <1>1, <1>2 DEF DataInv

\* Reading, and beginning the answer when the request is complete.
LEMMA DataReads ==
  ASSUME DataInv, NEW c \in Conns, ReadSome(c), use_len_[c] = 0, home[c] # None,
         home' = home, edge' \subseteq Conns,
         \/ use_len_' = use_len_
         \/ decoded'[c] = Pieces /\ use_len_' = [use_len_ EXCEPT ![c] = Pieces]
  PROVE  DataInv'
<1>0. PICK n \in 1 .. inbox[c] :
        /\ decoded[c] + n <= Pieces
        /\ decoded' = [decoded EXCEPT ![c] = @ + n]
        /\ inbox' = [inbox EXCEPT ![c] = @ - n]
  BY DEF ReadSome
<1>1. UNCHANGED <<send_len_, peer, asked, outbox, got>>
  BY DEF ReadSome
<1>2. /\ decoded[c] \in 0 .. Pieces /\ inbox[c] \in 0 .. Pieces /\ got[c] \in 0 .. Pieces - 1
      /\ outbox[c] \in 0 .. Room /\ asked[c] \in 0 .. Pieces
  BY DEF DataInv, DataTypeOK
<1>3. /\ decoded'[c] = decoded[c] + n /\ inbox'[c] = inbox[c] - n
      /\ use_len_'[c] = 0 \/ (use_len_'[c] = Pieces /\ decoded'[c] = Pieces)
      /\ \A d \in Conns \ {c} :
           decoded'[d] = decoded[d] /\ inbox'[d] = inbox[d] /\ use_len_'[d] = use_len_[d]
  BY <1>0 DEF DataInv, DataTypeOK
<1>4. DataTypeOK'
  <2>1. decoded[c] + n \in 0 .. Pieces /\ inbox[c] - n \in 0 .. Pieces
    BY <1>0, <1>2, PiecesAreNat
  <2>2. QED
    BY <1>0, <1>1, <2>1 DEF DataInv, DataTypeOK
<1>5. Data(c)'
  <2>1. Data(c) /\ send_len_[c] = 0
    BY DEF DataInv, Data
  <2>2. peer[c] = "open" => asked[c] = inbox[c] + decoded[c] /\ got[c] + outbox[c] = 0
    BY <1>0, <1>2, <2>1, PiecesAreNat DEF Data, Echoed
  <2>3. peer[c] = "open" => Echoed(c)'
    BY <1>0, <1>1, <1>2, <1>3, <2>1, <2>2, PiecesAreNat DEF Echoed
  <2>4. QED
    BY <1>1, <1>3, <2>1, <2>3, PiecesAreNat DEF Data
<1>6. \A d \in Conns \ {c} : Data(d)'
  BY <1>1, <1>3, DataOther DEF DataInv
<1>7. QED
  BY <1>4, <1>5, <1>6 DEF DataInv

\* The answer of a request that is complete.
LEMMA DataEnCodes ==
  ASSUME DataInv, NEW c \in Conns, decoded[c] = Pieces, use_len_[c] = 0, home[c] # None,
         use_len_' = [use_len_ EXCEPT ![c] = Pieces],
         UNCHANGED <<event_vars, decoded, send_len_, peer_vars>>
  PROVE  DataInv'
<1>1. UNCHANGED <<home, edge, peer, asked, inbox, outbox, got>>
  BY DEF event_vars, peer_vars
<1>2. /\ inbox[c] \in 0 .. Pieces /\ got[c] \in 0 .. Pieces - 1
      /\ outbox[c] \in 0 .. Room /\ asked[c] \in 0 .. Pieces
  BY DEF DataInv, DataTypeOK
<1>3. use_len_'[c] = Pieces /\ \A d \in Conns \ {c} : use_len_'[d] = use_len_[d]
  BY DEF DataInv, DataTypeOK
<1>4. DataTypeOK'
  BY <1>1 DEF DataInv, DataTypeOK
<1>5. Data(c)'
  <2>1. Data(c)
    BY DEF DataInv
  <2>2. peer[c] = "open" => Echoed(c)'
    BY <1>1, <1>2, <1>3, <2>1, PiecesAreNat DEF Data, Echoed
  <2>3. QED
    BY <1>1, <1>3, <2>1, <2>2, PiecesAreNat DEF Data
<1>6. \A d \in Conns \ {c} : Data(d)'
  BY <1>1, <1>3, DataOther DEF DataInv
<1>7. QED
  BY <1>4, <1>5, <1>6 DEF DataInv

\* Writing a part of the answer.
LEMMA DataWrites ==
  ASSUME DataInv, NEW c \in Conns, WriteSome(c), home' = home, edge' \subseteq Conns
  PROVE  DataInv'
<1>0. PICK n \in 1 .. use_len_[c] - send_len_[c] :
        /\ send_len_' = [send_len_ EXCEPT ![c] = @ + n]
        /\ \/ peer[c] = "open" /\ outbox[c] + n <= Room /\ outbox' = [outbox EXCEPT ![c] = @ + n]
           \/ peer[c] = "closed" /\ UNCHANGED outbox
  BY DEF WriteSome
<1>1. UNCHANGED <<decoded, use_len_, peer, asked, inbox, got>>
  BY DEF WriteSome
<1>2. /\ use_len_[c] \in {0, Pieces} /\ send_len_[c] \in 0 .. Pieces
      /\ inbox[c] \in 0 .. Pieces /\ got[c] \in 0 .. Pieces - 1
      /\ outbox[c] \in 0 .. Room /\ asked[c] \in 0 .. Pieces
  BY DEF DataInv, DataTypeOK
<1>3. /\ use_len_[c] = Pieces /\ send_len_[c] + n \in 0 .. Pieces /\ send_len_[c] # Pieces
      /\ n \in Nat
  BY <1>0, <1>2, PiecesAreNat
<1>4. /\ send_len_'[c] = send_len_[c] + n
      /\ peer[c] = "open" => outbox'[c] = outbox[c] + n
      /\ \A d \in Conns \ {c} : send_len_'[d] = send_len_[d] /\ outbox'[d] = outbox[d]
  BY <1>0 DEF DataInv, DataTypeOK
<1>5. DataTypeOK'
  <2>1. outbox' \in [Conns -> 0 .. Room]
    <3>1. CASE peer[c] = "open" /\ outbox[c] + n <= Room /\ outbox' = [outbox EXCEPT ![c] = @ + n]
      <4>1. outbox[c] + n \in 0 .. Room
        BY <1>2, <1>3, <3>1, PiecesAreNat
      <4>2. QED
        BY <3>1, <4>1 DEF DataInv, DataTypeOK
    <3>2. QED
      BY <1>0, <3>1 DEF DataInv, DataTypeOK
  <2>2. send_len_' \in [Conns -> 0 .. Pieces]
    BY <1>0, <1>3 DEF DataInv, DataTypeOK
  <2>3. QED
    BY <1>1, <2>1, <2>2 DEF DataInv, DataTypeOK
<1>6. Data(c)'
  <2>1. Data(c) /\ home[c] # None
    BY <1>3, PiecesAreNat DEF DataInv, Data
  <2>2. peer[c] = "open" => Echoed(c)'
    BY <1>1, <1>2, <1>3, <1>4, <2>1, PiecesAreNat DEF Data, Echoed
  <2>3. QED
    BY <1>1, <1>3, <2>1, <2>2, PiecesAreNat DEF Data
<1>7. \A d \in Conns \ {c} : Data(d)'
  BY <1>1, <1>4, DataOther DEF DataInv
<1>8. QED
  BY <1>5, <1>6, <1>7 DEF DataInv

\* The answer is written as a whole, and the codec is cleared.
LEMMA DataAnswers ==
  ASSUME DataInv, NEW c \in Conns, FinishWrite(c), use_len_[c] # 0, Reset({c}),
         edge' \subseteq Conns, UNCHANGED <<home, peer_vars>>
  PROVE  DataInv'
<1>1. UNCHANGED <<peer, asked, inbox, outbox, got>>
  BY DEF peer_vars
<1>2. /\ use_len_[c] = Pieces /\ send_len_[c] = Pieces
      /\ inbox[c] \in 0 .. Pieces /\ got[c] \in 0 .. Pieces - 1
      /\ outbox[c] \in 0 .. Room /\ asked[c] \in 0 .. Pieces
  BY DEF DataInv, DataTypeOK, FinishWrite
<1>3. /\ decoded' = [d \in Conns |-> IF d \in {c} THEN 0 ELSE decoded[d]]
      /\ use_len_' = [d \in Conns |-> IF d \in {c} THEN 0 ELSE use_len_[d]]
      /\ send_len_' = [d \in Conns |-> IF d \in {c} THEN 0 ELSE send_len_[d]]
  BY DEF Reset
<1>4. decoded'[c] = 0 /\ use_len_'[c] = 0 /\ send_len_'[c] = 0
  BY <1>3
<1>5. DataTypeOK'
  BY <1>1, <1>3, PiecesAreNat DEF DataInv, DataTypeOK
<1>6. Data(c)'
  <2>1. Data(c) /\ home[c] # None
    BY <1>2, PiecesAreNat DEF DataInv, Data
  <2>2. peer[c] = "open" => Echoed(c)'
    BY <1>1, <1>2, <1>4, <2>1, PiecesAreNat DEF Data, Echoed
  <2>3. QED
    BY <1>1, <1>4, <2>1, <2>2 DEF Data
<1>7. \A d \in Conns \ {c} : Data(d)'
  BY <1>1, <1>3, DataOther DEF DataInv
<1>8. QED
  BY <1>5, <1>6, <1>7 DEF DataInv

\* Connections are closed.
LEMMA DataReleased ==
  ASSUME DataInv, NEW C \in SUBSET Conns, Release(C)
  PROVE  DataInv'
<1>1. /\ home' = [c \in Conns |-> IF c \in C THEN None ELSE home[c]]
      /\ edge' = edge \ C
      /\ decoded' = [c \in Conns |-> IF c \in C THEN 0 ELSE decoded[c]]
      /\ use_len_' = [c \in Conns |-> IF c \in C THEN 0 ELSE use_len_[c]]
      /\ send_len_' = [c \in Conns |-> IF c \in C THEN 0 ELSE send_len_[c]]
      /\ peer' = [c \in Conns |-> IF c \in C THEN "closed" ELSE peer[c]]
      /\ asked' = [c \in Conns |-> IF c \in C THEN 0 ELSE asked[c]]
      /\ inbox' = [c \in Conns |-> IF c \in C THEN 0 ELSE inbox[c]]
      /\ outbox' = [c \in Conns |-> IF c \in C THEN 0 ELSE outbox[c]]
      /\ got' = [c \in Conns |-> IF c \in C THEN 0 ELSE got[c]]
  BY DEF Release, Reset
<1>2. DataTypeOK'
  BY <1>1, PiecesAreNat DEF DataInv, DataTypeOK
<1>3. \A c \in C : Data(c)'
  BY <1>1 DEF Data
<1>4. \A d \in Conns \ C : Data(d)'
  BY <1>1, DataOther DEF DataInv
<1>5. QED
  BY <1>2, <1>3, <1>4 DEF DataInv

\* A peer connects.
LEMMA DataConnects ==
  ASSUME DataInv, NEW c \in Conns, Connects(c), home'[c] # None, edge' \subseteq Conns,
         \A d \in Conns \ {c} : home'[d] = home[d]
  PROVE  DataInv'
<1>1. /\ home[c] = None /\ peer' = [peer EXCEPT ![c] = "open"]
      /\ UNCHANGED <<decoded, use_len_, send_len_, asked, inbox, outbox, got>>
  BY DEF Connects, codec_vars
<1>2. DataTypeOK'
  BY <1>1 DEF DataInv, DataTypeOK
<1>3. Data(c)'
  <2>1. Data(c)
    BY DEF DataInv
  <2>2. QED
    BY <1>1, <2>1 DEF Data, Echoed
<1>4. \A d \in Conns \ {c} : Data(d)'
  BY <1>1, DataOther DEF DataInv, DataTypeOK
<1>5. QED
  BY <1>2, <1>3, <1>4 DEF DataInv

\* The count of what the peer has got begins again with each answer.
LEMMA CountsRound ==
  ASSUME NEW g \in 0 .. Pieces - 1
  PROVE  (g + 1) % Pieces = IF g + 1 = Pieces THEN 0 ELSE g + 1
BY PiecesAreNat

\* What the peers do.
LEMMA DataPeers ==
  ASSUME DataInv, NEW c \in Conns, PeerSends(c) \/ PeerReceives(c) \/ PeerCloses(c),
         UNCHANGED <<home, codec_vars>>
  PROVE  DataInv'
<1>1. UNCHANGED <<home, decoded, use_len_, send_len_>>
  BY DEF codec_vars
<1>2. /\ inbox[c] \in 0 .. Pieces /\ got[c] \in 0 .. Pieces - 1
      /\ outbox[c] \in 0 .. Room /\ asked[c] \in 0 .. Pieces
      /\ decoded[c] \in 0 .. Pieces /\ send_len_[c] \in 0 .. Pieces
      /\ use_len_[c] \in {0, Pieces} /\ Data(c)
  BY DEF DataInv, DataTypeOK
<1>3. peer[c] = "open" /\ home[c] # None
  BY <1>2 DEF Data, PeerSends, PeerReceives, PeerCloses
<1>4. Echoed(c)
  BY <1>2, <1>3 DEF Data
<1>5. edge' \subseteq Conns
  BY DEF DataInv, DataTypeOK, PeerSends, PeerReceives, PeerCloses, Due
<1>6. ASSUME PeerSends(c) PROVE DataInv'
  <2>1. /\ asked' = [asked EXCEPT ![c] = asked[c] + 1]
        /\ inbox' = [inbox EXCEPT ![c] = inbox[c] + 1]
        /\ asked[c] < Pieces
        /\ UNCHANGED <<peer, outbox, got>>
    BY <1>6 DEF PeerSends
  <2>2. /\ asked'[c] = asked[c] + 1 /\ inbox'[c] = inbox[c] + 1
        /\ \A d \in Conns \ {c} : asked'[d] = asked[d] /\ inbox'[d] = inbox[d]
    BY <2>1 DEF DataInv, DataTypeOK
  <2>3. inbox[c] <= asked[c]
    BY <1>2, <1>4, <2>1, PiecesAreNat DEF Echoed
  <2>4. DataTypeOK'
    <3>1. asked[c] + 1 \in 0 .. Pieces /\ inbox[c] + 1 \in 0 .. Pieces
      BY <1>2, <2>1, <2>3, PiecesAreNat
    <3>2. QED
      BY <1>1, <1>5, <2>1, <3>1 DEF DataInv, DataTypeOK
  <2>5. Echoed(c)'
    BY <1>1, <1>2, <1>4, <2>1, <2>2, PiecesAreNat DEF Echoed
  <2>6. Data(c)'
    BY <1>1, <1>2, <1>3, <2>1, <2>5 DEF Data
  <2>7. \A d \in Conns \ {c} : Data(d)'
    BY <1>1, <2>1, <2>2, DataOther DEF DataInv
  <2>8. QED
    BY <2>4, <2>6, <2>7 DEF DataInv
<1>7. ASSUME PeerReceives(c) PROVE DataInv'
  <2>1. /\ outbox' = [outbox EXCEPT ![c] = outbox[c] - 1]
        /\ got' = [got EXCEPT ![c] = (got[c] + 1) % Pieces]
        /\ asked' = IF got'[c] = 0 THEN [asked EXCEPT ![c] = 0] ELSE asked
        /\ outbox[c] > 0
        /\ UNCHANGED <<peer, inbox>>
    BY <1>7 DEF PeerReceives
  <2>2. /\ outbox'[c] = outbox[c] - 1
        /\ got'[c] = IF got[c] + 1 = Pieces THEN 0 ELSE got[c] + 1
        /\ asked'[c] = IF got[c] + 1 = Pieces THEN 0 ELSE asked[c]
    <3>1. /\ outbox'[c] = outbox[c] - 1 /\ got'[c] = (got[c] + 1) % Pieces
          /\ asked'[c] = IF got'[c] = 0 THEN 0 ELSE asked[c]
      BY <2>1 DEF DataInv, DataTypeOK
    <3>2. (got[c] + 1) % Pieces = IF got[c] + 1 = Pieces THEN 0 ELSE got[c] + 1
      BY <1>2, CountsRound
    <3>3. QED
      BY <1>2, <3>1, <3>2, PiecesAreNat
  <2>3. \A d \in Conns \ {c} : outbox'[d] = outbox[d] /\ got'[d] = got[d] /\ asked'[d] = asked[d]
    BY <2>1 DEF DataInv, DataTypeOK
  <2>4. DataTypeOK'
    <3>1. outbox[c] - 1 \in 0 .. Room /\ got'[c] \in 0 .. Pieces - 1
      BY <1>2, <2>1, <2>2, PiecesAreNat
    <3>2. outbox' \in [Conns -> 0 .. Room] /\ got' \in [Conns -> 0 .. Pieces - 1]
      BY <2>1, <2>2, <3>1 DEF DataInv, DataTypeOK
    <3>3. asked' \in [Conns -> 0 .. Pieces]
      BY <2>1, PiecesAreNat DEF DataInv, DataTypeOK
    <3>4. QED
      BY <1>1, <1>5, <2>1, <3>2, <3>3 DEF DataInv, DataTypeOK
  <2>5. Echoed(c)'
    BY <1>1, <1>2, <1>4, <2>1, <2>2, PiecesAreNat DEF Echoed
  <2>6. Data(c)'
    BY <1>1, <1>2, <1>3, <2>1, <2>5 DEF Data
  <2>7. \A d \in Conns \ {c} : Data(d)'
    BY <1>1, <2>1, <2>3, DataOther DEF DataInv
  <2>8. QED
    BY <2>4, <2>6, <2>7 DEF DataInv
<1>8. ASSUME PeerCloses(c) PROVE DataInv'
  <2>1. /\ peer' = [peer EXCEPT ![c] = "closed"] /\ asked' = [asked EXCEPT ![c] = 0]
        /\ outbox' = [outbox EXCEPT ![c] = 0] /\ got' = [got EXCEPT ![c] = 0]
        /\ inbox' = inbox
    BY <1>8 DEF PeerCloses
  <2>2. DataTypeOK'
    BY <1>1, <1>5, <2>1, PiecesAreNat DEF DataInv, DataTypeOK
  <2>3. peer'[c] = "closed"
    BY <2>1 DEF DataInv, DataTypeOK
  <2>4. Data(c)'
    BY <1>1, <1>2, <1>3, <2>3 DEF Data
  <2>5. \A d \in Conns \ {c} : Data(d)'
    BY <1>1, <2>1, DataOther DEF DataInv, DataTypeOK
  <2>6. QED
    BY <2>2, <2>4, <2>5 DEF DataInv
<1>9. QED
  BY <1>6, <1>7, <1>8

-----------------------------------------------------------------------------
(* Who has a connection, and what it relies on.                            *)

\* The loops, or the queue with the workers and the unix sockets, have no more of d after a
\* step than before it.
LoopKeeps(d) ==
  \A i \in Ios :
    /\ AtWrite(d, i) => AtWrite(d, i)'
    /\ Writing(d, i)' => Writing(d, i)
    /\ Reading(d, i)' => Reading(d, i)
    /\ AtPush(d, i)' => AtPush(d, i)

HandKeeps(d) ==
  /\ Queued(d)' => Queued(d)
  /\ Passed(d)' => Passed(d)
  /\ \A w \in Workers : conn'[w] = d => conn[w] = d /\ worker_at'[w] = worker_at[w]

LEMMA LocatedStays ==
  ASSUME NEW d \in Conns, Located(d), LoopKeeps(d), HandKeeps(d),
         armed'[d] = armed[d], use_len_'[d] = use_len_[d], decoded'[d] = decoded[d]
  PROVE  Located(d)'
<1>1. \A i \in Ios : /\ Writing(d, i)' => use_len_'[d] # 0
                     /\ Reading(d, i)' => use_len_'[d] = 0
                     /\ AtPush(d, i)' => decoded'[d] = Pieces
  BY DEF Located, LoopKeeps
<1>2. (\E i \in Ios : AtWrite(d, i)) => \E i \in Ios : AtWrite(d, i)'
  BY DEF LoopKeeps
<1>3. /\ Queued(d)' => use_len_'[d] = 0 /\ decoded'[d] = Pieces
      /\ Passed(d)' => use_len_'[d] = 0
      /\ \A w \in Workers :
           conn'[w] = d => decoded'[d] = Pieces /\ (use_len_'[d] = 0 <=> worker_at'[w] = "post Idle")
  BY DEF Located, HandKeeps
<1>4. QED
  BY <1>1, <1>2, <1>3 DEF Located

LEMMA LoopsKeep ==
  ASSUME UNCHANGED <<io_at, io_conn, events>>
  PROVE  \A d \in Conns : LoopKeeps(d)
BY DEF LoopKeeps, AtWrite, Writing, Reading, AtPush

LEMMA HandsKeep ==
  ASSUME UNCHANGED <<Queue, passing, worker_at, conn>>
  PROVE  \A d \in Conns : HandKeeps(d)
BY DEF HandKeeps, Queued, Passed

\* A loop keeps the connections that it does not handle.
LEMMA LoopKeepsOthers ==
  ASSUME NEW i \in Ios, NEW c \in Conns, io_conn[i] \in {c, None}, io_conn'[i] \in {c, None},
         \A j \in Ios \ {i} : io_at'[j] = io_at[j] /\ io_conn'[j] = io_conn[j],
         events' = events
  PROVE  \A d \in Conns : d # c => LoopKeeps(d)
<1> SUFFICES ASSUME NEW d \in Conns, d # c, NEW j \in Ios
             PROVE  /\ AtWrite(d, j) => AtWrite(d, j)'
                    /\ Writing(d, j)' => Writing(d, j)
                    /\ Reading(d, j)' => Reading(d, j)
                    /\ AtPush(d, j)' => AtPush(d, j)
  BY DEF LoopKeeps
<1>1. CASE j = i
  <2>1. io_conn[j] # d /\ io_conn'[j] # d
    BY <1>1, NoneIsNone
  <2>2. QED
    BY <2>1 DEF AtWrite, Writing, Reading, AtPush
<1>2. CASE j # i
  BY <1>2 DEF AtWrite, Writing, Reading, AtPush
<1>3. QED
  BY <1>1, <1>2

\* The loop i does something with its connection c.
LEMMA LoopLocates ==
  ASSUME IInv, \A d \in Conns : Located(d),
         NEW i \in Ios, NEW c \in Conns, io_conn[i] = c, io_conn'[i] \in {c, None},
         \A j \in Ios \ {i} : io_at'[j] = io_at[j] /\ io_conn'[j] = io_conn[j],
         UNCHANGED <<events, Queue, passing, worker_at, conn>>,
         \A d \in Conns \ {c} :
           armed'[d] = armed[d] /\ use_len_'[d] = use_len_[d] /\ decoded'[d] = decoded[d],
         io_conn'[i] = c => /\ use_len_'[c] = 0 <=> io_at'[i] # "write"
                            /\ io_at'[i] \in {"wait Idle", "push"} => decoded'[c] = Pieces,
         armed'[c] = "write" => use_len_'[c] # 0,
         armed'[c] = "read" => use_len_'[c] = 0 \/ (io_conn'[i] = c /\ io_at'[i] = "write")
  PROVE  \A d \in Conns : Located(d)'
<1>1. ASSUME NEW d \in Conns, d # c PROVE Located(d)'
  <2>1. LoopKeeps(d)
    <3>1. io_conn[i] \in {c, None} /\ io_conn'[i] \in {c, None} /\ events' = events
      OBVIOUS
    <3>2. QED
      BY <1>1, <3>1, LoopKeepsOthers
  <2>2. HandKeeps(d)
    BY HandsKeep
  <2>3. QED
    BY <1>1, <2>1, <2>2, LocatedStays
<1>2. ~ Pending(c, i) /\ ~ HandedOver(c) /\ \A j \in Ios \ {i} : ~ InLoop(c, j)
  <2>1. ~ Pending(c, i)
    BY DEF IInv, LoopOnce
  <2>2. LoopOwns(c) /\ InLoop(c, i)
    BY DEF IInv, Placed, InLoop
  <2>3. home[c] = i /\ ~ HandedOver(c) /\ \A j \in Ios : InLoop(c, j) => home[c] = j
    BY <2>2 DEF LoopOwns
  <2>4. QED
    BY <2>1, <2>3
<1>3. \A j \in Ios \ {i} : ~ Writing(c, j)' /\ ~ Reading(c, j)' /\ ~ AtPush(c, j)'
  BY <1>2 DEF InLoop, Pending, AtWrite, Writing, Reading, AtPush
<1>4. /\ Writing(c, i)' => use_len_'[c] # 0
      /\ Reading(c, i)' => use_len_'[c] = 0
      /\ AtPush(c, i)' => decoded'[c] = Pieces
  <2>1. <<c, "read">> \notin events'[i] /\ <<c, "write">> \notin events'[i]
    BY <1>2 DEF Pending
  <2>2. QED
    BY <2>1, NoneIsNone DEF AtWrite, Writing, Reading, AtPush
<1>5. ~ Queued(c)' /\ ~ Passed(c)' /\ \A w \in Workers : conn'[w] # c
  <2>1. \A p \in Mains \X Ios : DOMAIN passing[p] = 1 .. Len(passing[p])
    BY PassedAt DEF IInv
  <2>2. QED
    BY <1>2, <2>1, SMTT(20), ZenonT(30) DEF HandedOver, Queued, Passed
<1>6. armed'[c] = "read" => use_len_'[c] = 0 \/ \E j \in Ios : AtWrite(c, j)'
  BY DEF AtWrite
<1>7. Located(c)'
  BY <1>3, <1>4, <1>5, <1>6 DEF Located
<1>8. QED
  BY <1>1, <1>7

\* Threads pass nothing through sockets.
LEMMA NonePassed ==
  ASSUME IInv, OneProcess, NEW c \in Conns
  PROVE  ~ Passed(c)
<1>1. ASSUME NEW p \in Mains \X Ios, NEW n \in 1 .. Len(passing[p]) PROVE FALSE
  <2>1. Len(passing[p]) = 0
    BY DEF IInv, PassingOnce
  <2>2. QED
    BY <2>1
<1>2. QED
  BY <1>1 DEF Passed

\* The worker w does something with its connection c.
LEMMA WorkerLocates ==
  ASSUME IInv, \A d \in Conns : Located(d),
         NEW w \in Workers, NEW c \in Conns, conn[w] = c, conn'[w] \in {c, None},
         \A v \in Workers \ {w} : worker_at'[v] = worker_at[v] /\ conn'[v] = conn[v],
         UNCHANGED <<io_at, io_conn, events, Queue, passing>>,
         \A d \in Conns \ {c} :
           armed'[d] = armed[d] /\ use_len_'[d] = use_len_[d] /\ decoded'[d] = decoded[d],
         conn'[w] = c => decoded'[c] = Pieces /\ (use_len_'[c] = 0 <=> worker_at'[w] = "post Idle"),
         armed'[c] = "write" => use_len_'[c] # 0,
         armed'[c] = "read" => use_len_'[c] = 0
  PROVE  \A d \in Conns : Located(d)'
<1>1. ASSUME NEW d \in Conns, d # c PROVE Located(d)'
  <2>1. ASSUME NEW v \in Workers, conn'[v] = d
        PROVE  conn[v] = d /\ worker_at'[v] = worker_at[v]
    BY <1>1, <2>1, NoneIsNone
  <2>2. HandKeeps(d)
    BY <2>1 DEF HandKeeps, Queued, Passed
  <2>3. LoopKeeps(d)
    BY LoopsKeep
  <2>4. QED
    BY <1>1, <2>2, <2>3, LocatedStays
<1>2. HandedOver(c) /\ \A j \in Ios : ~ InLoop(c, j)
  BY DEF HandedOver, IInv, Placed, LoopOwns
<1>3. \A j \in Ios : ~ Writing(c, j)' /\ ~ Reading(c, j)' /\ ~ AtPush(c, j)'
  <2>1. \A j \in Ios :
          io_conn'[j] # c /\ <<c, "read">> \notin events'[j] /\ <<c, "write">> \notin events'[j]
    BY <1>2 DEF InLoop, Pending
  <2>2. QED
    BY <2>1 DEF AtWrite, Writing, Reading, AtPush
<1>4. ~ Queued(c)' /\ \A v \in Workers \ {w} : conn'[v] # c
  <2>1. \A n \in 1 .. Len(Queue) : Queue[n] # conn[w]
    BY DEF IInv, QueueOnce
  <2>2. \A v \in Workers : conn[v] = conn[w] /\ conn[v] # None => v = w
    BY DEF IInv, QueueOnce
  <2>3. ~ Queued(c)'
    BY <2>1 DEF Queued
  <2>4. \A v \in Workers \ {w} : conn[v] # c
    BY <2>2, NoneIsNone, SMTT(20), ZenonT(30)
  <2>5. QED
    BY <2>3, <2>4
<1>5. ~ Passed(c)'
  <2>1. OneProcess
    BY NoneIsNone DEF IInv, QueueOnce, OneProcess, IsHSHA
  <2>2. ~ Passed(c)
    BY <2>1, NonePassed
  <2>3. QED
    BY <2>2 DEF Passed
<1>6. \A v \in Workers :
        conn'[v] = c => decoded'[c] = Pieces /\ (use_len_'[c] = 0 <=> worker_at'[v] = "post Idle")
  BY <1>4
<1>7. Located(c)'
  BY <1>3, <1>4, <1>5, <1>6 DEF Located
<1>8. QED
  BY <1>1, <1>7

\* A connection without an answer waits for a request, or is on its way to where it will.
LEMMA WaitingLocates ==
  ASSUME \A d \in Conns : Located(d), NEW c \in Conns,
         \A j \in Ios : ~ InLoop(c, j)', ~ Queued(c)', \A w \in Workers : conn'[w] # c,
         use_len_'[c] = 0, armed'[c] # "write",
         \A d \in Conns \ {c} :
           /\ armed'[d] = armed[d] /\ use_len_'[d] = use_len_[d] /\ decoded'[d] = decoded[d]
           /\ LoopKeeps(d) /\ HandKeeps(d)
  PROVE  \A d \in Conns : Located(d)'
<1>1. ASSUME NEW d \in Conns, d # c PROVE Located(d)'
  BY <1>1, LocatedStays
<1>2. \A j \in Ios : ~ Writing(c, j)' /\ ~ Reading(c, j)' /\ ~ AtPush(c, j)'
  BY DEF InLoop, Pending, AtWrite, Writing, Reading, AtPush
<1>3. Located(c)'
  BY <1>2 DEF Located
<1>4. QED
  BY <1>1, <1>3

-----------------------------------------------------------------------------
(* The steps.                                                              *)

LEMMA EdgeWatched ==
  ASSUME DataInv, NEW c \in Conns, NEW what, Watch(c, what)
  PROVE  edge' \subseteq Conns
BY DEF DataInv, DataTypeOK, Watch, Due

\* How a connection is watched has no bearing on the others.
LEMMA WatchesOne ==
  ASSUME IInv, NEW c \in Conns, NEW what, Watch(c, what)
  PROVE  armed'[c] = what /\ \A d \in Conns \ {c} : armed'[d] = armed[d]
BY DEF IInv, ControlTypeOK, Watch

LEMMA LeavesOne ==
  ASSUME IInv, NEW i \in Ios, NEW p, IoLeaves(i, p)
  PROVE  /\ io_at'[i] = p /\ io_conn'[i] = None
         /\ \A j \in Ios \ {i} : io_at'[j] = io_at[j] /\ io_conn'[j] = io_conn[j]
BY DEF IInv, ControlTypeOK, IoLeaves, IoGoto

LEMMA GoesOne ==
  ASSUME IInv, NEW i \in Ios, NEW p, IoGoto(i, p)
  PROVE  io_at'[i] = p /\ \A j \in Ios \ {i} : io_at'[j] = io_at[j]
BY DEF IInv, ControlTypeOK, IoGoto

\* The loop that reads a connection has no answer for it, and the one that writes has.
LEMMA LoopHas ==
  ASSUME IInv, DInv, NEW i \in Ios, NEW c \in Conns, io_conn[i] = c
  PROVE  /\ home[c] # None
         /\ io_at[i] = "write" => use_len_[c] = Pieces
         /\ io_at[i] # "write" => use_len_[c] = 0
         /\ armed[c] = "read" => use_len_[c] = 0 \/ io_at[i] = "write"
<1>1. home[c] = i /\ \A j \in Ios : io_conn[j] = c => j = i
  BY DEF IInv, Placed, LoopOwns, InLoop
<1>2. Located(c) /\ use_len_[c] \in {0, Pieces}
  BY DEF DInv, DataInv, DataTypeOK
<1>3. (io_at[i] = "write" => Writing(c, i)) /\ (io_at[i] # "write" => Reading(c, i))
  BY DEF Writing, AtWrite, Reading
<1>4. QED
  BY <1>1, <1>2, <1>3, NoneIsNone DEF Located, AtWrite

LEMMA DataOfReads ==
  ASSUME IInv, DInv, NEW i \in Ios, NEW c \in Conns, io_conn[i] = c,
         ReadPart(i, c) \/ ReadPauses(i, c) \/ ReadFails(i, c),
         UNCHANGED <<server, option, passing, worker_at, conn, Queue>>
  PROVE  DInv'
<1>1. /\ io_at[i] = "read" /\ events' = events
      /\ home[c] # None /\ use_len_[c] = 0
      /\ DataInv /\ \A d \in Conns : Located(d)
      /\ edge \subseteq Conns /\ Located(c)
  BY LoopHas DEF ReadPart, ReadPauses, ReadFails, IoRuns, DInv, DataInv, DataTypeOK
<1>2. ASSUME ReadPart(i, c), decoded'[c] = Pieces PROVE DInv'
  <2>1. OneMessage(i, c) /\ ReadSome(c) /\ home' = home
    BY <1>2 DEF ReadPart
  <2>2. \A d \in Conns \ {c} : decoded'[d] = decoded[d]
    BY <1>1, <2>1 DEF ReadSome, DataInv, DataTypeOK
  <2>3. CASE IsHSHA
    <3>1. PICK p \in {"push", "wait Idle"} :
            IoGoto(i, p) /\ UNCHANGED <<io_conn, armed, edge, use_len_>>
      BY <2>1, <2>3 DEF OneMessage, IsHSHA
    <3>2. DataInv'
      BY <1>1, <2>1, <3>1, DataReads
    <3>3. io_at'[i] = p /\ \A j \in Ios \ {i} : io_at'[j] = io_at[j]
      BY <3>1, GoesOne
    <3>4. armed[c] # "write"
      BY <1>1 DEF Located
    <3>5. \A d \in Conns : Located(d)'
      BY <1>1, <1>2, <2>2, <3>1, <3>3, <3>4, LoopLocates
    <3>6. QED
      BY <3>2, <3>5 DEF DInv
  <2>4. CASE ~ IsHSHA
    <3>1. use_len_' = [use_len_ EXCEPT ![c] = Pieces]
      BY <2>1, <2>4 DEF OneMessage, IsHSHA
    <3>2. use_len_'[c] # 0 /\ \A d \in Conns \ {c} : use_len_'[d] = use_len_[d]
      BY <1>1, <3>1, PiecesAreNat DEF DataInv, DataTypeOK
    <3>3. CASE is_write_first
      <4>1. IoGoto(i, "write") /\ UNCHANGED <<io_conn, armed, edge>>
        BY <2>1, <2>4, <3>3 DEF OneMessage, IsHSHA
      <4>2. DataInv'
        BY <1>1, <1>2, <2>1, <3>1, <4>1, DataReads
      <4>3. io_at'[i] = "write" /\ \A j \in Ios \ {i} : io_at'[j] = io_at[j]
        BY <4>1, GoesOne
      <4>4. io_conn'[i] = c /\ \A j \in Ios : io_conn'[j] = io_conn[j]
        BY <4>1
      <4>5. \A d \in Conns : Located(d)'
        BY <1>1, <2>2, <3>2, <4>1, <4>3, <4>4, SMTT(20), ZenonT(30), LoopLocates
      <4>6. QED
        BY <4>2, <4>5 DEF DInv
    <3>4. CASE ~ is_write_first
      <4>1. Watch(c, "write") /\ IoLeaves(i, "next")
        BY <2>1, <2>4, <3>4 DEF OneMessage, IsHSHA, ModToWriteEvent
      <4>2. DataInv'
        BY <1>1, <1>2, <2>1, <3>1, <4>1, EdgeWatched, DataReads
      <4>3. armed'[c] = "write" /\ \A d \in Conns \ {c} : armed'[d] = armed[d]
        BY <4>1, WatchesOne
      <4>4. /\ io_conn'[i] = None
            /\ \A j \in Ios \ {i} : io_at'[j] = io_at[j] /\ io_conn'[j] = io_conn[j]
        BY <4>1, LeavesOne
      <4>5. \A d \in Conns : Located(d)'
        <5>1. \A d \in Conns \ {c} :
                armed'[d] = armed[d] /\ use_len_'[d] = use_len_[d] /\ decoded'[d] = decoded[d]
          BY <2>2, <3>2, <4>3
        <5>2. io_conn'[i] \in {c, None} /\ io_conn'[i] # c
          BY <4>4, NoneIsNone
        <5>3. QED
          BY <1>1, <3>2, <4>3, <4>4, <5>1, <5>2, LoopLocates
      <4>6. QED
        BY <4>2, <4>5 DEF DInv
    <3>5. QED
      BY <3>3, <3>4
  <2>5. QED
    BY <2>3, <2>4
<1>3. ASSUME ReadPart(i, c), decoded'[c] # Pieces PROVE DInv'
  <2>1. ReadSome(c) /\ UNCHANGED <<home, armed, edge, use_len_>>
    BY <1>3 DEF ReadPart
  <2>2. \A d \in Conns \ {c} : decoded'[d] = decoded[d]
    BY <1>1, <2>1 DEF ReadSome, DataInv, DataTypeOK
  <2>3. DataInv'
    BY <1>1, <2>1, DataReads
  <2>4. /\ io_conn'[i] \in {c, None} /\ io_at'[i] \in {"read", "next"}
        /\ \A j \in Ios \ {i} : io_at'[j] = io_at[j] /\ io_conn'[j] = io_conn[j]
    BY <1>1, <1>3, LeavesOne DEF ReadPart
  <2>5. armed[c] # "write"
    BY <1>1 DEF Located
  <2>6. \A d \in Conns : Located(d)'
    BY <1>1, <2>1, <2>2, <2>4, <2>5, LoopLocates
  <2>7. QED
    BY <2>3, <2>6 DEF DInv
<1>4. ASSUME ReadPauses(i, c) PROVE DInv'
  <2>1. /\ IoLeaves(i, "next") /\ UNCHANGED <<home, codec_vars, peer_vars>>
        /\ Watch(c, "read") \/ UNCHANGED <<armed, edge>>
    BY <1>4 DEF ReadPauses, ModToReadEvent
  <2>2. DataInv'
    BY <1>1, <2>1, EdgeWatched, DataStays
  <2>3. armed'[c] # "write" /\ \A d \in Conns \ {c} : armed'[d] = armed[d]
    BY <1>1, <2>1, WatchesOne DEF Located
  <2>4. UNCHANGED <<decoded, use_len_>>
    BY <2>1 DEF codec_vars
  <2>5. /\ io_conn'[i] = None
        /\ \A j \in Ios \ {i} : io_at'[j] = io_at[j] /\ io_conn'[j] = io_conn[j]
    BY <2>1, LeavesOne
  <2>6. \A d \in Conns : Located(d)'
    BY <1>1, <2>3, <2>4, <2>5, NoneIsNone, SMTT(20), ZenonT(30), LoopLocates
  <2>7. QED
    BY <2>2, <2>6 DEF DInv
<1>5. ASSUME ReadFails(i, c) PROVE DInv'
  <2>1. Release({c}) /\ IoLeaves(i, "next")
    BY <1>5 DEF ReadFails
  <2>2. DataInv'
    BY <1>1, <2>1, DataReleased
  <2>3. /\ armed'[c] = "none"
        /\ \A d \in Conns \ {c} :
             armed'[d] = armed[d] /\ use_len_'[d] = use_len_[d] /\ decoded'[d] = decoded[d]
    BY <2>1 DEF Release, Reset
  <2>4. /\ io_conn'[i] = None
        /\ \A j \in Ios \ {i} : io_at'[j] = io_at[j] /\ io_conn'[j] = io_conn[j]
    BY <2>1, LeavesOne
  <2>5. \A d \in Conns : Located(d)'
    BY <1>1, <2>3, <2>4, NoneIsNone, LoopLocates
  <2>6. QED
    BY <2>2, <2>5 DEF DInv
<1>6. QED
  BY <1>2, <1>3, <1>4, <1>5

LEMMA DataOfWrites ==
  ASSUME IInv, DInv, NEW i \in Ios, NEW c \in Conns, io_conn[i] = c, IoWrite(i, c),
         UNCHANGED <<server, option, passing, worker_at, conn, Queue>>
  PROVE  DInv'
<1>1. /\ io_at[i] = "write" /\ events' = events
      /\ home[c] # None /\ use_len_[c] = Pieces /\ use_len_[c] # 0
      /\ DataInv /\ \A d \in Conns : Located(d)
      /\ edge \subseteq Conns /\ Located(c)
  BY LoopHas, PiecesAreNat DEF IoWrite, IoRuns, DInv, DataInv, DataTypeOK
<1>2. ASSUME Unfinished(i, c), UNCHANGED <<home, decoded, use_len_>>
      PROVE  edge' \subseteq Conns /\ \A d \in Conns : Located(d)'
  <2>1. Watch(c, "write") \/ (armed[c] = "write" /\ UNCHANGED <<armed, edge>>)
    BY <1>2 DEF Unfinished, ModToWriteEvent
  <2>2. armed'[c] = "write" /\ \A d \in Conns \ {c} : armed'[d] = armed[d]
    BY <2>1, WatchesOne
  <2>3. /\ io_conn'[i] = None
        /\ \A j \in Ios \ {i} : io_at'[j] = io_at[j] /\ io_conn'[j] = io_conn[j]
    BY <1>2, LeavesOne DEF Unfinished
  <2>4. \A d \in Conns : Located(d)'
    BY <1>1, <1>2, <2>2, <2>3, NoneIsNone, LoopLocates
  <2>5. QED
    BY <1>1, <2>1, <2>4, EdgeWatched
<1>3. ASSUME WriteSome(c), home' = home,
             Unfinished(i, c) \/ UNCHANGED <<armed, edge, io_at, io_conn>>
      PROVE  DInv'
  <2>1. UNCHANGED <<decoded, use_len_>>
    BY <1>3 DEF WriteSome
  <2>2. edge' \subseteq Conns /\ \A d \in Conns : Located(d)'
    <3>1. CASE UNCHANGED <<armed, edge, io_at, io_conn>>
      <4>1. \A d \in Conns : LoopKeeps(d) /\ HandKeeps(d)
        BY <1>1, <3>1, LoopsKeep, HandsKeep
      <4>2. QED
        BY <1>1, <2>1, <3>1, <4>1, LocatedStays
    <3>2. QED
      BY <1>2, <1>3, <2>1, <3>1
  <2>3. DataInv'
    BY <1>1, <1>3, <2>2, DataWrites
  <2>4. QED
    BY <2>2, <2>3 DEF DInv
<1>4. ASSUME Answer(c), IoLeaves(i, "next") PROVE DInv'
  <2>1. FinishWrite(c) /\ Reset({c}) /\ Watch(c, "read") /\ UNCHANGED <<home, peer_vars>>
    BY <1>4 DEF Answer, ModToReadEvent
  <2>2. DataInv'
    BY <1>1, <2>1, EdgeWatched, DataAnswers
  <2>3. armed'[c] = "read" /\ \A d \in Conns \ {c} : armed'[d] = armed[d]
    BY <2>1, WatchesOne
  <2>4. /\ use_len_'[c] = 0
        /\ \A d \in Conns \ {c} : use_len_'[d] = use_len_[d] /\ decoded'[d] = decoded[d]
    BY <2>1 DEF Reset
  <2>5. /\ io_conn'[i] = None
        /\ \A j \in Ios \ {i} : io_at'[j] = io_at[j] /\ io_conn'[j] = io_conn[j]
    BY <1>4, LeavesOne
  <2>6. \A d \in Conns : Located(d)'
    BY <1>1, <2>3, <2>4, <2>5, NoneIsNone, SMTT(20), ZenonT(30), LoopLocates
  <2>7. QED
    BY <2>2, <2>6 DEF DInv
<1>5. ASSUME Unfinished(i, c), UNCHANGED <<home, codec_vars, peer_vars>> PROVE DInv'
  <2>1. UNCHANGED <<decoded, use_len_>>
    BY <1>5 DEF codec_vars
  <2>2. edge' \subseteq Conns /\ \A d \in Conns : Located(d)'
    BY <1>2, <1>5, <2>1
  <2>3. DataInv'
    BY <1>1, <1>5, <2>2, DataStays
  <2>4. QED
    BY <2>2, <2>3 DEF DInv
<1>6. ASSUME Release({c}), IoLeaves(i, "next") PROVE DInv'
  <2>1. DataInv'
    BY <1>1, <1>6, DataReleased
  <2>2. /\ armed'[c] = "none"
        /\ \A d \in Conns \ {c} :
             armed'[d] = armed[d] /\ use_len_'[d] = use_len_[d] /\ decoded'[d] = decoded[d]
    BY <1>6 DEF Release, Reset
  <2>3. /\ io_conn'[i] = None
        /\ \A j \in Ios \ {i} : io_at'[j] = io_at[j] /\ io_conn'[j] = io_conn[j]
    BY <1>6, LeavesOne
  <2>4. \A d \in Conns : Located(d)'
    BY <1>1, <2>2, <2>3, NoneIsNone, LoopLocates
  <2>5. QED
    BY <2>1, <2>4 DEF DInv
<1>7. QED
  BY <1>3, <1>4, <1>5, <1>6 DEF IoWrite

\* epoll_wait returns what may be read or written, and that is what connections are watched
\* for in these phases.
LEMMA DataOfReturns ==
  ASSUME IInv, DInv, NEW i \in Ios, EpollWait(i),
         UNCHANGED <<server, home, codec_vars, peer_vars, io_at, io_conn, passing, worker_at, conn,
                     Queue>>
  PROVE  DInv'
<1>1. /\ io_conn[i] = None /\ io_at[i] = "next" /\ events[i] = {}
      /\ events' = [events EXCEPT ![i] = Returned(i)]
      /\ edge' \subseteq edge
      /\ armed' = [c \in Conns |-> IF IsHSHA /\ c \in ReadReady(i) THEN "none" ELSE armed[c]]
  BY DEF IInv, LoopOnce, EpollWait, IoRuns
<1>2. DataInv'
  <2>1. edge' \subseteq Conns
    BY <1>1 DEF DInv, DataInv, DataTypeOK
  <2>2. QED
    BY <2>1, DataStays DEF DInv
<1>3. ASSUME NEW c \in Conns PROVE Located(c)'
  <2>1. /\ <<c, "read">> \in Returned(i) => home[c] = i /\ armed[c] = "read"
        /\ <<c, "write">> \in Returned(i) => armed[c] = "write"
    BY DEF Returned, ReadReady, WriteReady, UnixReady
  <2>2. Located(c) /\ Placed(c) /\ UNCHANGED <<use_len_, decoded>>
    BY DEF DInv, IInv, codec_vars
  <2>3. /\ events'[i] = Returned(i)
        /\ \A j \in Ios \ {i} : events'[j] = events[j]
    BY <1>1 DEF IInv, ControlTypeOK
  <2>4. <<c, "read">> \in Returned(i) => use_len_[c] = 0
    <3>1. ASSUME NEW j \in Ios, AtWrite(c, j), home[c] = i PROVE FALSE
      BY <1>1, <2>2, <3>1, NoneIsNone DEF Placed, LoopOwns, InLoop, AtWrite
    <3>2. QED
      BY <2>1, <2>2, <3>1 DEF Located
  <2>5. <<c, "write">> \in Returned(i) => use_len_[c] # 0
    BY <2>1, <2>2 DEF Located
  <2>6. ASSUME NEW j \in Ios
        PROVE  /\ Writing(c, j)' => use_len_[c] # 0
               /\ Reading(c, j)' => use_len_[c] = 0
               /\ AtPush(c, j)' => decoded[c] = Pieces
    <3>1. CASE j = i
      BY <1>1, <2>2, <2>3, <2>4, <2>5, <3>1, NoneIsNone DEF Writing, Reading, AtPush, AtWrite, Located
    <3>2. CASE j # i
      BY <2>2, <2>3, <3>2 DEF Writing, Reading, AtPush, AtWrite, Located
    <3>3. QED
      BY <3>1, <3>2
  <2>7. armed'[c] \in {"none", armed[c]}
    BY <1>1
  <2>8. (\E j \in Ios : AtWrite(c, j)) <=> \E j \in Ios : AtWrite(c, j)'
    BY DEF AtWrite
  <2>9. /\ Queued(c)' <=> Queued(c)
        /\ Passed(c)' <=> Passed(c)
    BY DEF Queued, Passed
  <2>10. QED
    BY <2>2, <2>6, <2>7, <2>8, <2>9 DEF Located
<1>4. QED
  BY <1>2, <1>3 DEF DInv

\* A loop begins with an event.
LEMMA DataOfBegins ==
  ASSUME IInv, DInv, NEW i \in Ios, Handle(i),
         UNCHANGED <<server, conn_vars, passing, worker_at, conn, Queue>>
  PROVE  DInv'
<1>1. io_at[i] = "next" /\ io_conn[i] = None
  BY DEF IInv, LoopOnce, Handle, IoRuns
<1>2. PICK e \in events[i] :
        /\ e[2] # "unix"
        /\ events' = [events EXCEPT ![i] = @ \ {e}]
        /\ io_conn' = [io_conn EXCEPT ![i] = e[1]]
        /\ io_at' = [io_at EXCEPT ![i] = e[2]]
  BY DEF Handle, IoGoto
<1>3. PICK b \in Conns, what \in {"read", "write"} : e = <<b, what>>
  <2>1. e \in Conns \X {"read", "write"} \/ e \in Mains \X {"unix"}
    BY DEF IInv, ControlTypeOK
  <2>2. e \notin Mains \X {"unix"}
    BY <1>2
  <2>3. QED
    BY <2>1, <2>2
<1>4. /\ events'[i] = events[i] \ {<<b, what>>} /\ io_conn'[i] = b /\ io_at'[i] = what
      /\ <<b, what>> \in events[i]
      /\ \A j \in Ios \ {i} : /\ events'[j] = events[j] /\ io_conn'[j] = io_conn[j]
                              /\ io_at'[j] = io_at[j]
  BY <1>2, <1>3 DEF IInv, ControlTypeOK
<1>5. UNCHANGED <<home, armed, edge, use_len_, decoded, codec_vars, peer_vars>>
  BY DEF conn_vars, event_vars, codec_vars
<1>6. DataInv'
  <2>1. edge' \subseteq Conns
    BY <1>5 DEF DInv, DataInv, DataTypeOK
  <2>2. QED
    BY <1>5, <2>1, DataStays DEF DInv
<1>7. ASSUME NEW c \in Conns PROVE Located(c)'
  <2>1. LoopKeeps(c)
    <3> SUFFICES ASSUME NEW j \in Ios
                 PROVE  /\ AtWrite(c, j) => AtWrite(c, j)'
                        /\ Writing(c, j)' => Writing(c, j)
                        /\ Reading(c, j)' => Reading(c, j)
                        /\ AtPush(c, j)' => AtPush(c, j)
      BY DEF LoopKeeps
    <3>1. CASE j # i
      BY <1>4, <3>1 DEF AtWrite, Writing, Reading, AtPush
    <3>2. CASE j = i
      BY <1>1, <1>4, <3>2, NoneIsNone DEF AtWrite, Writing, Reading, AtPush
    <3>3. QED
      BY <3>1, <3>2
  <2>2. HandKeeps(c)
    BY HandsKeep
  <2>3. QED
    BY <1>5, <2>1, <2>2, LocatedStays DEF DInv
<1>8. QED
  BY <1>6, <1>7 DEF DInv

\* A sub reactor begins to wait for the events of a connection it was sent.
LEMMA DataOfReceives ==
  ASSUME IInv, DInv, NEW i \in Ios, NEW m \in Mains, passing[<<m, i>>] # <<>>,
         AddReadEvent(i, Head(passing[<<m, i>>])),
         passing' = [passing EXCEPT ![<<m, i>>] = Tail(@)],
         events' = [events EXCEPT ![i] = @ \ {<<m, "unix">>}],
         UNCHANGED <<server, io_at, io_conn, codec_vars, peer_vars, worker_at, conn, Queue>>
  PROVE  DInv'
<1> DEFINE s == passing[<<m, i>>]
           rest == Tail(s)
<1>1. s \in Seq(Conns) /\ s # <<>> /\ <<m, i>> \in Mains \X Ios
  BY DEF IInv, ControlTypeOK
<1>2. /\ Head(s) = s[1] /\ Head(s) \in Conns /\ 1 \in 1 .. Len(s)
      /\ rest \in Seq(Conns)
      /\ \A n \in 1 .. Len(rest) : n + 1 \in 1 .. Len(s) /\ rest[n] = s[n + 1]
  BY <1>1, TailRest
<1>3. PICK c \in Conns : c = Head(s)
  BY <1>2
<1>4. /\ passing'[<<m, i>>] = rest
      /\ \A p \in Mains \X Ios : p # <<m, i>> => passing'[p] = passing[p]
  BY <1>1, <1>2 DEF IInv, ControlTypeOK
<1> HIDE DEF rest
<1>5. \A d \in Conns : Passed(d)' => Passed(d)
  <2> SUFFICES ASSUME NEW d \in Conns,
                      NEW p \in Mains \X Ios, NEW n \in 1 .. Len(passing'[p]), passing'[p][n] = d
               PROVE  Passed(d)
    BY DEF Passed
  <2>1. CASE p = <<m, i>>
    <3>1. n + 1 \in 1 .. Len(s) /\ s[n + 1] = d
      BY <1>2, <1>4, <2>1
    <3>2. QED
      BY <1>1, <3>1 DEF Passed
  <2>2. CASE p # <<m, i>>
    BY <1>4, <2>2 DEF Passed
  <2>3. QED
    BY <2>1, <2>2
<1>6. Passed(c)
  BY <1>1, <1>2, <1>3 DEF Passed
<1>7. ~ OneProcess
  <2>1. Len(s) # 0
    BY <1>2
  <2>2. QED
    BY <1>1, <2>1 DEF IInv, PassingOnce
<1>8. Len(Queue) = 0 /\ \A w \in Workers : conn[w] = None
  BY <1>7 DEF IInv, QueueOnce, OneProcess, IsHSHA
<1>9. HandedOver(c) /\ \A j \in Ios : ~ InLoop(c, j)
  <2>1. HandedOver(c)
    BY <1>6, <1>7, HandedOverWhere DEF Passed
  <2>2. QED
    BY <2>1 DEF IInv, Placed, LoopOwns
<1>10. Watch(c, "read") /\ home' = [home EXCEPT ![c] = i] /\ UNCHANGED <<use_len_, decoded>>
  BY <1>3 DEF AddReadEvent, codec_vars
<1>11. DataInv'
  <2>1. \A d \in Conns : home'[d] = None => home[d] = None
    BY <1>10, NoneIsNone DEF IInv, ControlTypeOK
  <2>2. QED
    BY <1>10, <2>1, EdgeWatched, DataStays DEF DInv
<1>12. \A j \in Ios, d \in Conns, what \in {"read", "write"} :
         <<d, what>> \in events'[j] <=> <<d, what>> \in events[j]
  BY DEF IInv, ControlTypeOK
<1>13. \A d \in Conns : LoopKeeps(d)
  BY <1>12 DEF LoopKeeps, AtWrite, Writing, Reading, AtPush
<1>14. \A d \in Conns : HandKeeps(d)
  BY <1>5 DEF HandKeeps, Queued
<1>15. armed'[c] = "read" /\ \A d \in Conns \ {c} : armed'[d] = armed[d]
  BY <1>10, WatchesOne
<1>16. use_len_[c] = 0
  BY <1>6 DEF DInv, Located
<1>17. \A j \in Ios : ~ InLoop(c, j)'
  BY <1>9, <1>12 DEF InLoop, Pending
<1>18. ~ Queued(c)' /\ \A w \in Workers : conn'[w] # c
  <2>1. ~ Queued(c)
    BY <1>8 DEF Queued
  <2>2. QED
    BY <1>8, <2>1, NoneIsNone DEF Queued
<1>19. \A d \in Conns : Located(d)'
  BY <1>10, <1>13, <1>14, <1>15, <1>16, <1>17, <1>18, WaitingLocates DEF DInv
<1>20. QED
  BY <1>11, <1>19 DEF DInv

\* A process ends, and its connections with it.
LEMMA DataOfEnds ==
  ASSUME IInv, DInv, NEW t, Ends(t), UNCHANGED <<server, worker_at, conn, Queue>>
  PROVE  DInv'
<1>1. CASE OneProcess
  <2>1. UNCHANGED <<conn_vars, io_at, io_conn, events, passing>>
    BY <1>1 DEF Ends, io_vars
  <2>2. UNCHANGED <<home, armed, edge, use_len_, decoded, codec_vars, peer_vars>>
    BY <2>1 DEF conn_vars, event_vars, codec_vars
  <2>3. DataInv'
    BY <2>2, DataStays DEF DInv, DataInv, DataTypeOK
  <2>4. \A d \in Conns : LoopKeeps(d) /\ HandKeeps(d)
    BY <2>1, LoopsKeep, HandsKeep
  <2>5. \A d \in Conns : Located(d)'
    BY <2>2, <2>4, LocatedStays DEF DInv
  <2>6. QED
    BY <2>3, <2>5 DEF DInv
<1>2. CASE ~ OneProcess
  <2> DEFINE C == {c \in Conns : home[c] = t}
  <2>1. /\ Release(C)
        /\ io_at' = [i \in Ios |-> IF i = t THEN "next" ELSE io_at[i]]
        /\ io_conn' = [i \in Ios |-> IF i = t THEN None ELSE io_conn[i]]
        /\ events' = [i \in Ios |-> IF i = t THEN {} ELSE events[i]]
        /\ passing' = [p \in Mains \X Ios |-> IF p[2] = t THEN <<>> ELSE passing[p]]
    BY <1>2 DEF Ends
  <2>2. DataInv'
    BY <2>1, DataReleased DEF DInv
  <2>3. \A c \in Conns :
          /\ c \in C => armed'[c] = "none" /\ use_len_'[c] = 0 /\ decoded'[c] = 0
          /\ c \notin C =>
               armed'[c] = armed[c] /\ use_len_'[c] = use_len_[c] /\ decoded'[c] = decoded[c]
    BY <2>1 DEF Release, Reset
  <2>4. Len(Queue) = 0 /\ \A w \in Workers : conn[w] = None
    BY <1>2 DEF IInv, QueueOnce, OneProcess, IsHSHA
  <2>5. ASSUME NEW c \in Conns PROVE ~ Queued(c)' /\ \A w \in Workers : conn'[w] # c
    <3>1. ~ Queued(c)
      BY <2>4 DEF Queued
    <3>2. QED
      BY <2>4, <3>1, NoneIsNone DEF Queued
  <2>6. ASSUME NEW c \in Conns, home[c] = t PROVE Located(c)'
    <3>1. \A j \in Ios : InLoop(c, j) => j = t
      BY <2>6 DEF IInv, Placed, LoopOwns
    <3>2. ASSUME NEW j \in Ios
          PROVE  ~ Writing(c, j)' /\ ~ Reading(c, j)' /\ ~ AtPush(c, j)'
      <4>1. io_conn'[j] # c /\ <<c, "read">> \notin events'[j] /\ <<c, "write">> \notin events'[j]
        BY <2>1, <3>1, NoneIsNone DEF InLoop, Pending
      <4>2. QED
        BY <4>1 DEF Writing, Reading, AtPush, AtWrite
    <3>3. QED
      BY <2>3, <2>5, <2>6, <3>2 DEF Located
  <2>7. ASSUME NEW c \in Conns, home[c] # t PROVE Located(c)'
    <3>1. \A j \in Ios : InLoop(c, j) => j # t
      BY <2>7 DEF IInv, Placed, LoopOwns
    <3>2. LoopKeeps(c)
      <4> SUFFICES ASSUME NEW j \in Ios
                   PROVE  /\ AtWrite(c, j) => AtWrite(c, j)'
                          /\ Writing(c, j)' => Writing(c, j)
                          /\ Reading(c, j)' => Reading(c, j)
                          /\ AtPush(c, j)' => AtPush(c, j)
        BY DEF LoopKeeps
      <4>1. CASE j = t
        <5>1. /\ io_conn'[j] # c /\ io_conn[j] # c
              /\ <<c, "read">> \notin events'[j] /\ <<c, "write">> \notin events'[j]
          BY <2>1, <3>1, <4>1, NoneIsNone DEF InLoop
        <5>2. QED
          BY <5>1 DEF Writing, Reading, AtPush, AtWrite
      <4>2. CASE j # t
        <5>1. io_at'[j] = io_at[j] /\ io_conn'[j] = io_conn[j] /\ events'[j] = events[j]
          BY <2>1, <4>2
        <5>2. QED
          BY <5>1 DEF Writing, Reading, AtPush, AtWrite
      <4>3. QED
        BY <4>1, <4>2
    <3>3. HandKeeps(c)
      <4>1. \A p \in Mains \X Ios :
              passing'[p] = passing[p] \/ (passing'[p] = <<>> /\ Len(passing'[p]) = 0)
        BY <2>1
      <4>2. Passed(c)' => Passed(c)
        BY <4>1 DEF Passed
      <4>3. QED
        BY <2>5, <4>2 DEF HandKeeps
    <3>4. QED
      BY <2>3, <2>7, <3>2, <3>3, LocatedStays DEF DInv
  <2>8. QED
    BY <2>2, <2>6, <2>7 DEF DInv
<1>3. QED
  BY <1>1, <1>2

\* The steps of a loop.
LEMMA DataOfLoops ==
  ASSUME IInv, DInv, NEW i \in Ios, LoopStep(i), UNCHANGED <<server, option, worker_at, conn, Queue>>
  PROVE  DInv'
<1>1. ASSUME EpollWait(i),
             UNCHANGED <<home, codec_vars, peer_vars, io_at, io_conn, main_vars, ended>>
      PROVE  DInv'
  BY <1>1, DataOfReturns DEF main_vars
<1>2. ASSUME Handle(i), UNCHANGED <<conn_vars, main_vars, ended>> PROVE DInv'
  BY <1>2, DataOfBegins DEF main_vars
<1>3. ASSUME NEW c \in Conns, io_conn[i] = c, UNCHANGED <<main_vars, ended>>,
             ReadPart(i, c) \/ ReadPauses(i, c) \/ ReadFails(i, c) \/ IoWrite(i, c)
      PROVE  DInv'
  BY <1>3, DataOfReads, DataOfWrites DEF main_vars
<1>4. ASSUME NEW m \in Mains, RecvFd(i, m) PROVE DInv'
  <2>1. CASE passing[<<m, i>>] = <<>>
    BY <1>4, <2>1, DataOfEnds DEF RecvFd
  <2>2. CASE passing[<<m, i>>] # <<>>
    BY <1>4, <2>2, DataOfReceives DEF RecvFd
  <2>3. QED
    BY <2>1, <2>2
<1>5. QED
  BY <1>1, <1>2, <1>3, <1>4 DEF LoopStep

\* A loop puts its connection in the queue, with the whole request.
LEMMA DataOfPushes ==
  ASSUME IInv, DInv, NEW i \in Ios, NEW c \in Conns, io_conn[i] = c, Push(i, c),
         UNCHANGED <<server, conn_vars, passing, worker_at, conn>>
  PROVE  DInv'
<1>1. IoLeaves(i, "notify") /\ events' = events /\ Queue' = Append(Queue, c) /\ io_at[i] = "push"
  BY DEF Push, IoRuns
<1>2. UNCHANGED <<home, armed, edge, use_len_, decoded, codec_vars, peer_vars>>
  BY DEF conn_vars, event_vars, codec_vars
<1>3. DataInv'
  BY <1>2, DataStays DEF DInv, DataInv, DataTypeOK
<1>4. /\ io_conn'[i] = None
      /\ \A j \in Ios \ {i} : io_at'[j] = io_at[j] /\ io_conn'[j] = io_conn[j]
  BY <1>1, LeavesOne
<1>5. Queue \in Seq(Conns)
  BY DEF IInv, ControlTypeOK
<1>6. /\ Len(Queue') = Len(Queue) + 1 /\ Len(Queue) \in Nat
      /\ Queue'[Len(Queue) + 1] = c
      /\ \A n \in 1 .. Len(Queue) : Queue'[n] = Queue[n]
  BY <1>1, <1>5, AppendProperties, LenProperties
<1>7. \A d \in Conns : Queued(d)' => Queued(d) \/ d = c
  BY <1>6 DEF Queued
<1>8. ASSUME NEW d \in Conns, d # c PROVE Located(d)'
  <2>1. LoopKeeps(d)
    BY <1>1, <1>4, <1>8, LoopKeepsOthers
  <2>2. HandKeeps(d)
    BY <1>7, <1>8 DEF HandKeeps, Passed
  <2>3. QED
    BY <1>2, <2>1, <2>2, LocatedStays DEF DInv
<1>9. Located(c)'
  <2>1. /\ LoopOwns(c) /\ InLoop(c, i) /\ ~ Pending(c, i) /\ Located(c)
        /\ AtPush(c, i) /\ Reading(c, i)
    BY <1>1 DEF IInv, DInv, Placed, InLoop, LoopOnce, AtPush, Reading
  <2>2. decoded[c] = Pieces /\ use_len_[c] = 0
    BY <2>1 DEF Located
  <2>3. ~ HandedOver(c) /\ \A j \in Ios \ {i} : ~ InLoop(c, j)
    BY <2>1 DEF LoopOwns
  <2>4. ASSUME NEW j \in Ios PROVE ~ Writing(c, j)' /\ ~ Reading(c, j)' /\ ~ AtPush(c, j)'
    <3>1. io_conn'[j] # c /\ ~ Pending(c, j)
      BY <1>4, <2>1, <2>3, NoneIsNone DEF InLoop
    <3>2. QED
      BY <1>1, <3>1 DEF Pending, Writing, Reading, AtPush, AtWrite
  <2>5. \A w \in Workers : conn'[w] # c
    BY <2>3 DEF HandedOver
  <2>6. armed'[c] # "write"
    BY <1>2, <2>1, <2>2 DEF Located
  <2>7. QED
    BY <1>2, <2>2, <2>4, <2>5, <2>6 DEF Located
<1>10. QED
  BY <1>3, <1>8, <1>9 DEF DInv

\* The steps of a loop with the queue.
LEMMA DataOfIos ==
  ASSUME IInv, DInv, NEW i \in Ios, IoStep(i)
  PROVE  DInv'
<1>1. UNCHANGED <<server, option>>
  BY DEF IoStep, option_vars
<1>2. ASSUME LoopStep(i), UNCHANGED <<worker_vars, queue_vars>> PROVE DInv'
  BY <1>1, <1>2, DataOfLoops DEF worker_vars, queue_vars
<1>3. ASSUME WaitIdle(i), UNCHANGED <<conn_vars, main_vars, ended, worker_vars>> PROVE DInv'
  <2>1. /\ UNCHANGED <<home, armed, edge, use_len_, decoded, codec_vars, peer_vars>>
        /\ UNCHANGED <<io_conn, events, passing, worker_at, conn, Queue>>
    BY <1>3 DEF WaitIdle, conn_vars, event_vars, codec_vars, main_vars, worker_vars, queue_vars
  <2>2. /\ io_at[i] = "wait Idle" /\ io_at'[i] = "push"
        /\ \A j \in Ios \ {i} : io_at'[j] = io_at[j]
    BY <1>3, GoesOne DEF WaitIdle, IoRuns
  <2>3. DataInv'
    BY <2>1, DataStays DEF DInv, DataInv, DataTypeOK
  <2>4. \A d \in Conns : LoopKeeps(d)
    BY <2>1, <2>2 DEF LoopKeeps, AtWrite, Writing, Reading, AtPush
  <2>5. \A d \in Conns : HandKeeps(d)
    BY <2>1, HandsKeep
  <2>6. \A d \in Conns : Located(d)'
    BY <2>1, <2>4, <2>5, LocatedStays DEF DInv
  <2>7. QED
    BY <2>3, <2>6 DEF DInv
<1>4. ASSUME Push(i, io_conn[i]), UNCHANGED <<conn_vars, main_vars, ended, worker_vars>> PROVE DInv'
  <2>1. PICK c \in Conns : io_conn[i] = c
    BY <1>4 DEF Push, IoRuns, IInv, ControlTypeOK, LoopOnce
  <2>2. Push(i, c)
    BY <1>4, <2>1 DEF Push
  <2>3. UNCHANGED <<passing, worker_at, conn>>
    BY <1>4 DEF main_vars, worker_vars
  <2>4. QED
    BY <1>1, <1>4, <2>1, <2>2, <2>3, DataOfPushes
<1>5. ASSUME Notify(i), UNCHANGED <<conn_vars, main_vars, ended>> PROVE DInv'
  <2>1. /\ UNCHANGED <<home, armed, edge, use_len_, decoded, codec_vars, peer_vars>>
        /\ UNCHANGED <<io_conn, events, passing, conn, Queue>>
    BY <1>5 DEF Notify, conn_vars, event_vars, codec_vars, main_vars
  <2>2. /\ io_at[i] = "notify" /\ io_at'[i] = "next" /\ io_conn[i] = None
        /\ \A j \in Ios \ {i} : io_at'[j] = io_at[j]
    BY <1>5, GoesOne DEF Notify, IoRuns, IInv, LoopOnce
  <2>3. DataInv'
    BY <2>1, DataStays DEF DInv, DataInv, DataTypeOK
  <2>4. \A d \in Conns : LoopKeeps(d)
    BY <2>1, <2>2, NoneIsNone DEF LoopKeeps, AtWrite, Writing, Reading, AtPush
  <2>5. \/ worker_at' = worker_at
        \/ \E w \in Workers :
             worker_at[w] = "waiting" /\ worker_at' = [worker_at EXCEPT ![w] = "get"]
    BY <1>5 DEF Notify
  <2>6. \A w \in Workers : conn[w] # None => worker_at'[w] = worker_at[w]
    BY <2>5 DEF IInv, ControlTypeOK, QueueOnce
  <2>7. \A d \in Conns : HandKeeps(d)
    BY <2>1, <2>6, NoneIsNone DEF HandKeeps, Queued, Passed
  <2>8. \A d \in Conns : Located(d)'
    BY <2>1, <2>4, <2>7, LocatedStays DEF DInv
  <2>9. QED
    BY <2>3, <2>8 DEF DInv
<1>6. QED
  BY <1>2, <1>3, <1>4, <1>5 DEF IoStep

\* A connection that nobody has is added to an epoll, or sent to another process.
LEMMA DataOfAdds ==
  ASSUME IInv, DInv, NEW c \in Conns, NEW t \in Threads,
         ~ HandedOver(c), \A j \in Ios : ~ InLoop(c, j), use_len_[c] = 0,
         \/ AddReadEvent(t, c) /\ passing' = passing
         \/ \E m \in Mains, i \in Ios :
              /\ home' = [home EXCEPT ![c] = i]
              /\ armed' = [armed EXCEPT ![c] = "none"]
              /\ passing' = [passing EXCEPT ![<<m, i>>] = Append(@, c)]
              /\ UNCHANGED edge,
         UNCHANGED <<server, io_at, io_conn, events, worker_at, conn, Queue>>,
         \/ Connects(c)
         \/ UNCHANGED <<codec_vars, peer_vars>>
  PROVE  DInv'
<1>1. /\ home'[c] # None /\ \A d \in Conns \ {c} : home'[d] = home[d]
  BY NoneIsNone DEF AddReadEvent, IInv, ControlTypeOK
<1>2. /\ armed'[c] # "write" /\ \A d \in Conns \ {c} : armed'[d] = armed[d]
      /\ edge' \subseteq Conns
  <2>1. CASE AddReadEvent(t, c)
    BY <2>1, WatchesOne, EdgeWatched DEF AddReadEvent, DInv
  <2>2. CASE armed' = [armed EXCEPT ![c] = "none"] /\ UNCHANGED edge
    BY <2>2 DEF IInv, ControlTypeOK, DInv, DataInv, DataTypeOK
  <2>3. QED
    BY <2>1, <2>2
<1>3. UNCHANGED <<use_len_, decoded>>
  BY DEF Connects, codec_vars
<1>4. DataInv'
  BY <1>1, <1>2, DataStays, DataConnects DEF DInv
<1>5. \A d \in Conns \ {c} : Passed(d)' => Passed(d)
  <2>1. CASE passing' = passing
    BY <2>1 DEF Passed
  <2>2. ASSUME NEW m \in Mains, NEW i \in Ios,
               passing' = [passing EXCEPT ![<<m, i>>] = Append(@, c)]
        PROVE  \A d \in Conns \ {c} : Passed(d)' => Passed(d)
    <3> DEFINE s == passing[<<m, i>>]
    <3>1. s \in Seq(Conns) /\ <<m, i>> \in Mains \X Ios /\ Len(s) \in Nat
      BY LenProperties DEF IInv, ControlTypeOK
    <3>2. /\ passing'[<<m, i>>] = Append(s, c)
          /\ \A p \in Mains \X Ios : p # <<m, i>> => passing'[p] = passing[p]
      BY <2>2, <3>1 DEF IInv, ControlTypeOK
    <3>3. /\ Len(Append(s, c)) = Len(s) + 1 /\ Append(s, c)[Len(s) + 1] = c
          /\ \A n \in 1 .. Len(s) : Append(s, c)[n] = s[n]
      BY <3>1, AppendProperties
    <3> SUFFICES ASSUME NEW d \in Conns \ {c}, NEW p \in Mains \X Ios,
                        NEW n \in 1 .. Len(passing'[p]), passing'[p][n] = d
                 PROVE  Passed(d)
      BY DEF Passed
    <3>4. CASE p = <<m, i>>
      <4>1. n \in 1 .. Len(s) + 1 /\ Append(s, c)[n] = d
        BY <3>2, <3>3, <3>4
      <4>2. n # Len(s) + 1
        BY <3>3, <4>1
      <4>3. n \in 1 .. Len(s)
        BY <3>1, <4>1, <4>2
      <4>4. QED
        BY <3>1, <3>3, <4>1, <4>3 DEF Passed
    <3>5. CASE p # <<m, i>>
      BY <3>2, <3>5 DEF Passed
    <3>6. QED
      BY <3>4, <3>5
  <2>3. QED
    BY <2>1, <2>2
<1>6. \A d \in Conns \ {c} : LoopKeeps(d) /\ HandKeeps(d)
  <2>1. \A d \in Conns : LoopKeeps(d)
    BY LoopsKeep
  <2>2. QED
    BY <1>5, <2>1 DEF HandKeeps, Queued
<1>7. \A j \in Ios : ~ InLoop(c, j)'
  BY DEF InLoop, Pending
<1>8. ~ Queued(c)' /\ \A w \in Workers : conn'[w] # c
  BY DEF HandedOver, Queued
<1>9. \A d \in Conns : Located(d)'
  BY <1>2, <1>3, <1>6, <1>7, <1>8, WaitingLocates DEF DInv
<1>10. QED
  BY <1>4, <1>9 DEF DInv

\* A main reactor adds a connection without an answer to a sub reactor, or sends it there.
LEMMA DataOfGoesToSub ==
  ASSUME IInv, DInv, NEW m \in Mains, NEW c \in Conns,
         ~ HandedOver(c), \A j \in Ios : ~ InLoop(c, j), use_len_[c] = 0,
         AddToSubReactor(m, c),
         Connects(c) \/ UNCHANGED <<codec_vars, peer_vars>>,
         UNCHANGED <<server, io_at, io_conn, events, worker_at, conn, Queue>>
  PROVE  DInv'
<1>1. PICK i \in Ios : i = NextSub(m)
  BY NextSubIsIo
<1>2. i \in Threads
  BY NoneIsNone
<1>3. \/ AddReadEvent(i, c) /\ passing' = passing
      \/ /\ home' = [home EXCEPT ![c] = i]
         /\ armed' = [armed EXCEPT ![c] = "none"]
         /\ passing' = [passing EXCEPT ![<<m, i>>] = Append(@, c)]
         /\ UNCHANGED edge
  BY <1>1 DEF AddToSubReactor
<1>4. QED
  BY <1>2, <1>3, DataOfAdds

\* The steps of a main reactor.
LEMMA DataOfMains ==
  ASSUME IInv, DInv, NEW m \in Mains, NEW c \in Conns,
         MainStep(m, c) \/ MainAcceptStep(m, c),
         UNCHANGED <<option_vars, worker_vars, queue_vars>>
  PROVE  DInv'
<1>1. UNCHANGED <<server, option, worker_at, conn, Queue>>
  BY DEF option_vars, worker_vars, queue_vars
<1>2. ASSUME MainMove(m, c), UNCHANGED io_vars PROVE DInv'
  <2>1. ~ HandedOver(c) /\ \A j \in Ios : ~ InLoop(c, j)
    BY <1>2, MainsIsFree DEF MainMove
  <2>2. use_len_[c] = 0
    <3>1. armed[c] = "read"
      BY <1>2 DEF MainMove, ReadReady
    <3>2. QED
      BY <2>1, <3>1 DEF DInv, Located, AtWrite, InLoop
  <2>3. QED
    BY <1>1, <1>2, <2>1, <2>2, DataOfGoesToSub DEF MainMove, io_vars
<1>3. ASSUME SendFdBreaks(m) PROVE DInv'
  BY <1>1, <1>3, DataOfEnds DEF SendFdBreaks
<1>4. ASSUME MainAccept(m, c), UNCHANGED io_vars PROVE DInv'
  <2>1. ~ HandedOver(c) /\ \A j \in Ios : ~ InLoop(c, j)
    BY <1>4, ClosedIsFree DEF MainAccept
  <2>2. use_len_[c] = 0 /\ m \in Threads
    BY <1>4, NoneIsNone DEF MainAccept, DInv, DataInv, Data
  <2>3. CASE is_main_read
    <3>1. AddReadEvent(m, c) /\ Connects(c) /\ UNCHANGED <<io_at, io_conn, events, passing>>
      BY <1>4, <2>3 DEF MainAccept, main_vars, io_vars
    <3>2. QED
      BY <1>1, <2>1, <2>2, <3>1, DataOfAdds
  <2>4. CASE ~ is_main_read
    <3>1. AddToSubReactor(m, c) /\ Connects(c) /\ UNCHANGED <<io_at, io_conn, events>>
      BY <1>4, <2>4 DEF MainAccept, io_vars
    <3>2. QED
      BY <1>1, <2>1, <2>2, <3>1, DataOfGoesToSub
  <2>5. QED
    BY <2>3, <2>4
<1>5. QED
  BY <1>2, <1>3, <1>4 DEF MainStep, MainAcceptStep

\* A worker takes a connection out of the queue, and encodes the answer at once or later.
LEMMA DataOfTakes ==
  ASSUME IInv, DInv, IsHSHA, NEW w \in Workers, worker_at[w] \in {"get", "pop"}, Pop(w),
         \/ EnCode(w, Head(Queue))
         \/ WorkerGoto(w, "post Idle") /\ UNCHANGED use_len_,
         UNCHANGED <<server, event_vars, decoded, send_len_, peer_vars>>,
         UNCHANGED <<io_at, io_conn, events, passing>>
  PROVE  DInv'
<1>1. Queue \in Seq(Conns) /\ Queue # <<>>
  BY DEF IInv, ControlTypeOK, Pop
<1> DEFINE rest == Tail(Queue)
<1>2. /\ Head(Queue) = Queue[1] /\ Head(Queue) \in Conns /\ 1 \in 1 .. Len(Queue)
      /\ \A n \in 1 .. Len(rest) : n + 1 \in 1 .. Len(Queue) /\ rest[n] = Queue[n + 1]
  BY <1>1, TailRest
<1>3. \A n \in 1 .. Len(rest) : rest[n] # Head(Queue)
  <2>1. \A k, n \in 1 .. Len(Queue) : Queue[k] = Queue[n] => k = n
    BY DEF IInv, QueueOnce
  <2>2. QED
    BY <1>1, <2>1, TailOnce
<1>4. PICK c \in Conns : c = Head(Queue)
  BY <1>2
<1>5. Queue' = rest /\ conn' = [conn EXCEPT ![w] = c]
  BY <1>4 DEF Pop
<1> HIDE DEF rest
<1>6. Queued(c) /\ ~ Queued(c)' /\ \A d \in Conns : Queued(d)' => Queued(d)
  BY <1>2, <1>3, <1>4, <1>5 DEF Queued
<1>7. conn'[w] = c /\ \A v \in Workers \ {w} : conn'[v] = conn[v]
  BY <1>5 DEF IInv, ControlTypeOK
<1>8. UNCHANGED <<home, armed, edge, decoded, send_len_, peer_vars>>
  BY DEF event_vars
<1>9. decoded[c] = Pieces /\ use_len_[c] = 0 /\ home[c] # None /\ DataInv /\ Located(c)
  BY <1>6 DEF DInv, Located, IInv, Placed, HandedOver, Queued
<1>10. \/ /\ worker_at'[w] \in {"write", "mod"}
          /\ use_len_' = [use_len_ EXCEPT ![c] = Pieces] /\ use_len_'[c] # 0
       \/ worker_at'[w] = "post Idle" /\ UNCHANGED use_len_
  BY <1>4, <1>9, PiecesAreNat, SMTT(20), ZenonT(30)
  DEF EnCode, WorkerGoto, IInv, ControlTypeOK, DataInv, DataTypeOK
<1>11. \A v \in Workers \ {w} : worker_at'[v] = worker_at[v]
  BY DEF EnCode, WorkerGoto, IInv, ControlTypeOK
<1>12. \A d \in Conns \ {c} : use_len_'[d] = use_len_[d]
  BY <1>9, <1>10 DEF DataInv, DataTypeOK
<1>13. DataInv'
  <2>1. CASE use_len_' = [use_len_ EXCEPT ![c] = Pieces]
    BY <1>9, <2>1, DataEnCodes
  <2>2. CASE UNCHANGED use_len_
    <3>1. UNCHANGED codec_vars
      BY <2>2 DEF codec_vars
    <3>2. QED
      BY <1>8, <1>9, <3>1, DataStays DEF DataInv, DataTypeOK
  <2>3. QED
    BY <1>10, <2>1, <2>2
<1>14. ASSUME NEW d \in Conns, d # c PROVE Located(d)'
  <2>1. LoopKeeps(d)
    BY LoopsKeep
  <2>2. ASSUME NEW v \in Workers, conn'[v] = d PROVE conn[v] = d /\ worker_at'[v] = worker_at[v]
    BY <1>7, <1>11, <1>14, <2>2
  <2>3. HandKeeps(d)
    BY <1>6, <2>2 DEF HandKeeps, Passed
  <2>4. QED
    BY <1>8, <1>12, <1>14, <2>1, <2>3, LocatedStays DEF DInv
<1>15. Located(c)'
  <2>1. HandedOver(c) /\ \A j \in Ios : ~ InLoop(c, j)
    BY <1>6 DEF HandedOver, Queued, IInv, Placed, LoopOwns
  <2>2. \A j \in Ios : ~ Writing(c, j)' /\ ~ Reading(c, j)' /\ ~ AtPush(c, j)'
    BY <2>1 DEF InLoop, Pending, AtWrite, Writing, Reading, AtPush
  <2>3. \A v \in Workers \ {w} : conn'[v] # c
    <3>1. PICK n \in 1 .. Len(Queue) : Queue[n] = c
      BY <1>6 DEF Queued
    <3>2. \A v \in Workers : conn[v] # Queue[n]
      BY DEF IInv, QueueOnce
    <3>3. QED
      BY <1>7, <3>1, <3>2
  <2>4. ~ Passed(c)'
    <3>1. ~ Passed(c)
      BY NonePassed DEF OneProcess, IsHSHA
    <3>2. QED
      BY <3>1 DEF Passed
  <2>5. \A v \in Workers :
          conn'[v] = c => decoded'[c] = Pieces /\ (use_len_'[c] = 0 <=> worker_at'[v] = "post Idle")
    <3>1. decoded'[c] = Pieces /\ (use_len_'[c] = 0 <=> worker_at'[w] = "post Idle")
      BY <1>8, <1>9, <1>10
    <3>2. QED
      BY <2>3, <3>1
  <2>6. armed'[c] = "none"
    BY <1>8, <2>1 DEF IInv, Placed
  <2>7. QED
    BY <1>6, <2>2, <2>4, <2>5, <2>6 DEF Located
<1>16. QED
  BY <1>13, <1>14, <1>15 DEF DInv

\* The steps of a worker.
LEMMA DataOfWorkers ==
  ASSUME IInv, DInv, IsHSHA, NEW w \in Workers, WorkerStep(w)
  PROVE  DInv'
<1>1. UNCHANGED <<server, option, io_at, io_conn, events, passing>>
  BY DEF WorkerStep, option_vars, io_vars, main_vars
<1>2. DataInv /\ \A d \in Conns : Located(d)
  BY DEF DInv
<1>3. ASSUME GetQueueData(w) \/ WaitFill(w) \/ PopFilled(w) \/ PostIdle(w),
             UNCHANGED <<event_vars, decoded, send_len_, peer_vars>>
      PROVE  DInv'
  <2>1. UNCHANGED <<home, armed, edge>>
    BY <1>3 DEF event_vars
  <2>2. ASSUME NEW p, worker_at[w] = "get", WorkerGoto(w, p), UNCHANGED <<use_len_, conn, Queue>>
        PROVE  DInv'
    <3>1. conn[w] = None
      BY <2>2 DEF IInv, QueueOnce
    <3>2. \A v \in Workers \ {w} : worker_at'[v] = worker_at[v]
      BY <2>2 DEF WorkerGoto, IInv, ControlTypeOK
    <3>3. \A d \in Conns : HandKeeps(d)
      BY <1>1, <2>2, <3>1, <3>2, NoneIsNone DEF HandKeeps, Queued, Passed
    <3>4. \A d \in Conns : LoopKeeps(d)
      BY <1>1, LoopsKeep
    <3>5. \A d \in Conns : Located(d)'
      BY <1>2, <1>3, <2>1, <2>2, <3>3, <3>4, LocatedStays
    <3>6. UNCHANGED codec_vars
      BY <1>3, <2>2 DEF codec_vars
    <3>7. DataInv'
      BY <1>2, <1>3, <2>1, <3>6, DataStays DEF DataInv, DataTypeOK
    <3>8. QED
      BY <3>5, <3>7 DEF DInv
  <2>3. ASSUME GetQueueData(w) PROVE DInv'
    <3>1. CASE Pop(w) /\ EnCode(w, Head(Queue))
      BY <1>1, <1>3, <2>3, <3>1, DataOfTakes DEF GetQueueData, WorkerRuns
    <3>2. CASE WorkerGoto(w, "waiting") /\ UNCHANGED <<use_len_, conn, Queue>>
      BY <2>2, <2>3, <3>2 DEF GetQueueData, WorkerRuns
    <3>3. QED
      BY <2>3, <3>1, <3>2 DEF GetQueueData
  <2>4. ASSUME WaitFill(w) PROVE DInv'
    BY <2>2, <2>4 DEF WaitFill, WorkerRuns
  <2>5. ASSUME PopFilled(w) PROVE DInv'
    BY <1>1, <1>3, <2>5, DataOfTakes DEF PopFilled, WorkerRuns
  <2>6. ASSUME PostIdle(w) PROVE DInv'
    <3>1. worker_at[w] = "post Idle" /\ EnCode(w, conn[w]) /\ UNCHANGED <<conn, Queue>>
      BY <2>6 DEF PostIdle, WorkerRuns
    <3>2. PICK c \in Conns : conn[w] = c
      BY <3>1 DEF IInv, QueueOnce, ControlTypeOK
    <3>3. /\ use_len_' = [use_len_ EXCEPT ![c] = Pieces]
          /\ worker_at'[w] \in {"write", "mod"}
          /\ \A v \in Workers \ {w} : worker_at'[v] = worker_at[v]
      BY <3>1, <3>2 DEF EnCode, WorkerGoto, IInv, ControlTypeOK
    <3>4. decoded[c] = Pieces /\ use_len_[c] = 0 /\ home[c] # None /\ armed[c] = "none"
      BY <1>2, <3>1, <3>2 DEF Located, IInv, Placed, HandedOver
    <3>5. DataInv'
      BY <1>2, <1>3, <3>3, <3>4, DataEnCodes
    <3>6. use_len_'[c] # 0 /\ \A d \in Conns \ {c} : use_len_'[d] = use_len_[d]
      BY <1>2, <3>3, PiecesAreNat DEF DataInv, DataTypeOK
    <3>7. \A d \in Conns : Located(d)'
      BY <1>1, <1>2, <1>3, <2>1, <3>1, <3>2, <3>3, <3>4, <3>6, WorkerLocates
    <3>8. QED
      BY <3>5, <3>7 DEF DInv
  <2>7. QED
    BY <1>3, <2>3, <2>4, <2>5, <2>6
<1>4. ASSUME NEW c \in Conns, conn[w] = c, WorkerAsks(w, c) \/ WorkerWrite(w, c),
             UNCHANGED queue_vars
      PROVE  DInv'
  <2>1. Queue' = Queue /\ home[c] # None /\ armed[c] = "none" /\ Located(c)
    BY <1>2, <1>4 DEF queue_vars, IInv, Placed, HandedOver
  <2>2. ASSUME WorkerLeaves(w)
        PROVE  /\ conn'[w] = None
               /\ \A v \in Workers \ {w} : worker_at'[v] = worker_at[v] /\ conn'[v] = conn[v]
    BY <2>2 DEF WorkerLeaves, WorkerGoto, IInv, ControlTypeOK
  <2>3. ASSUME WorkerAsks(w, c) PROVE DInv'
    <3>1. /\ worker_at[w] = "mod" /\ Watch(c, "write") /\ WorkerLeaves(w)
          /\ UNCHANGED <<home, codec_vars, peer_vars>>
      BY <2>3 DEF WorkerAsks, WorkerRuns, ModToWriteEvent
    <3>2. UNCHANGED <<use_len_, decoded>> /\ use_len_[c] # 0
      BY <1>4, <2>1, <3>1 DEF codec_vars, Located
    <3>3. DataInv'
      BY <1>2, <3>1, EdgeWatched, DataStays
    <3>4. armed'[c] = "write" /\ \A d \in Conns \ {c} : armed'[d] = armed[d]
      BY <3>1, WatchesOne
    <3>5. \A d \in Conns : Located(d)'
      <4>1. conn'[w] # c /\ \A v \in Workers \ {w} : worker_at'[v] = worker_at[v] /\ conn'[v] = conn[v]
        BY <2>2, <3>1, NoneIsNone
      <4>2. conn'[w] \in {c, None}
        BY <2>2, <3>1
      <4>3. QED
        BY <1>1, <1>2, <1>4, <2>1, <3>1, <3>2, <3>4, <4>1, <4>2, WorkerLocates
    <3>6. QED
      BY <3>3, <3>5 DEF DInv
  <2>4. ASSUME WorkerWrite(w, c) PROVE DInv'
    <3>1. worker_at[w] = "write" /\ use_len_[c] # 0
      BY <1>4, <2>1, <2>4 DEF WorkerWrite, WorkerRuns, Located
    <3>2. ASSUME WriteSome(c), UNCHANGED <<event_vars, worker_vars>> PROVE DInv'
      <4>1. UNCHANGED <<home, armed, edge, worker_at, conn, decoded, use_len_>>
        BY <3>2 DEF event_vars, worker_vars, WriteSome
      <4>2. DataInv'
        BY <1>2, <3>2, <4>1, DataWrites DEF DataInv, DataTypeOK
      <4>3. \A d \in Conns : LoopKeeps(d) /\ HandKeeps(d)
        BY <1>1, <2>1, <4>1, LoopsKeep, HandsKeep
      <4>4. \A d \in Conns : Located(d)'
        BY <1>2, <4>1, <4>3, LocatedStays
      <4>5. QED
        BY <4>2, <4>4 DEF DInv
    <3>3. ASSUME Answer(c), WorkerLeaves(w) PROVE DInv'
      <4>1. FinishWrite(c) /\ Reset({c}) /\ Watch(c, "read") /\ UNCHANGED <<home, peer_vars>>
        BY <3>3 DEF Answer, ModToReadEvent
      <4>2. DataInv'
        BY <1>2, <3>1, <4>1, EdgeWatched, DataAnswers
      <4>3. armed'[c] = "read" /\ \A d \in Conns \ {c} : armed'[d] = armed[d]
        BY <4>1, WatchesOne
      <4>4. /\ use_len_'[c] = 0
            /\ \A d \in Conns \ {c} : use_len_'[d] = use_len_[d] /\ decoded'[d] = decoded[d]
        BY <4>1 DEF Reset
      <4>5. \A d \in Conns : Located(d)'
        <5>1. conn'[w] # c /\ \A v \in Workers \ {w} : worker_at'[v] = worker_at[v] /\ conn'[v] = conn[v]
          BY <2>2, <3>3, NoneIsNone
        <5>2. conn'[w] \in {c, None}
          BY <2>2, <3>3
        <5>3. QED
          BY <1>1, <1>2, <1>4, <2>1, <3>3, <4>3, <4>4, <5>1, <5>2, WorkerLocates, SMTT(20),
             ZenonT(30)
      <4>6. QED
        BY <4>2, <4>5 DEF DInv
    <3>4. ASSUME Release({c}), WorkerLeaves(w) PROVE DInv'
      <4>1. DataInv'
        BY <1>2, <3>4, DataReleased
      <4>2. /\ armed'[c] = "none"
            /\ \A d \in Conns \ {c} :
                 armed'[d] = armed[d] /\ use_len_'[d] = use_len_[d] /\ decoded'[d] = decoded[d]
        BY <3>4 DEF Release, Reset
      <4>3. \A d \in Conns : Located(d)'
        <5>1. conn'[w] # c /\ \A v \in Workers \ {w} : worker_at'[v] = worker_at[v] /\ conn'[v] = conn[v]
          BY <2>2, <3>4, NoneIsNone
        <5>2. conn'[w] \in {c, None}
          BY <2>2, <3>4
        <5>3. QED
          BY <1>1, <1>2, <1>4, <2>1, <3>4, <4>2, <5>1, <5>2, WorkerLocates
      <4>4. QED
        BY <4>1, <4>3 DEF DInv
    <3>5. QED
      BY <2>4, <3>2, <3>3, <3>4 DEF WorkerWrite
  <2>5. QED
    BY <1>4, <2>3, <2>4
<1>5. QED
  BY <1>3, <1>4 DEF WorkerStep

\* The peers.
LEMMA DataOfPeers ==
  ASSUME DInv, NEW c \in Conns, PeerStep(c)
  PROVE  DInv'
<1>1. /\ PeerSends(c) \/ PeerReceives(c) \/ PeerCloses(c)
      /\ UNCHANGED <<home, armed, codec_vars, io_at, io_conn, events, passing>>
      /\ UNCHANGED <<worker_at, conn, Queue>>
  BY DEF PeerStep, server_vars, io_vars, main_vars, worker_vars, queue_vars
<1>2. DataInv'
  BY <1>1, DataPeers DEF DInv
<1>3. \A d \in Conns : LoopKeeps(d) /\ HandKeeps(d)
  BY <1>1, LoopsKeep, HandsKeep
<1>4. \A d \in Conns : Located(d)'
  BY <1>1, <1>3, LocatedStays DEF DInv, codec_vars
<1>5. QED
  BY <1>2, <1>4 DEF DInv

\* A worker that waits wakes up without a connection.
LEMMA DataOfWakes ==
  ASSUME IInv, DInv, WakesUp, UNCHANGED <<option_vars, conn_vars, io_vars, main_vars, ended>>
  PROVE  DInv'
<1>1. PICK w \in Workers : worker_at[w] = "waiting" /\ WorkerGoto(w, "get")
  BY DEF WakesUp, WorkerRuns
<1>2. /\ UNCHANGED <<home, armed, edge, codec_vars, peer_vars, io_at, io_conn, events, passing>>
      /\ UNCHANGED <<conn, Queue>>
  BY DEF WakesUp, conn_vars, event_vars, io_vars, main_vars, queue_vars
<1>3. conn[w] = None
  BY <1>1 DEF IInv, QueueOnce
<1>4. \A v \in Workers \ {w} : worker_at'[v] = worker_at[v]
  BY <1>1 DEF WorkerGoto, IInv, ControlTypeOK
<1>5. \A d \in Conns : HandKeeps(d)
  BY <1>2, <1>3, <1>4, NoneIsNone DEF HandKeeps, Queued, Passed
<1>6. \A d \in Conns : LoopKeeps(d)
  BY <1>2, LoopsKeep
<1>7. \A d \in Conns : Located(d)'
  BY <1>2, <1>5, <1>6, LocatedStays DEF DInv, codec_vars
<1>8. DataInv'
  BY <1>2, DataStays DEF DInv, DataInv, DataTypeOK
<1>9. QED
  BY <1>7, <1>8 DEF DInv

LEMMA DataInitially == Init => DInv
<1> SUFFICES ASSUME Init PROVE DInv
  OBVIOUS
<1>1. ConnInit /\ ReactorInit
  BY DEF Init
<1>2. \A c \in Conns :
        /\ home[c] = None /\ armed[c] = "none" /\ peer[c] = "closed"
        /\ decoded[c] = 0 /\ use_len_[c] = 0 /\ send_len_[c] = 0
        /\ asked[c] = 0 /\ inbox[c] = 0 /\ outbox[c] = 0 /\ got[c] = 0
  BY <1>1 DEF ConnInit, Zero
<1>3. DataTypeOK
  BY <1>1, PiecesAreNat DEF DataTypeOK, ConnInit, Zero
<1>4. \A c \in Conns : Data(c)
  BY <1>2 DEF Data
<1>5. ASSUME NEW c \in Conns PROVE Located(c)
  <2>1. IInv
    BY Initially
  <2>2. ~ HandedOver(c) /\ \A i \in Ios : ~ InLoop(c, i)
    BY <1>2, <2>1, ClosedIsFree
  <2>3. \A i \in Ios : ~ Writing(c, i) /\ ~ Reading(c, i) /\ ~ AtPush(c, i)
    BY <2>2 DEF InLoop, Pending, AtWrite, Writing, Reading, AtPush
  <2>4. ~ Queued(c) /\ \A w \in Workers : conn[w] # c
    BY <2>2 DEF HandedOver, Queued
  <2>5. ~ Passed(c)
    <3>1. ASSUME NEW p \in Mains \X Ios, NEW n \in 1 .. Len(passing[p]) PROVE FALSE
      <4>1. passing[p] = <<>>
        BY <1>1 DEF ReactorInit
      <4>2. QED
        BY <4>1
    <3>2. QED
      BY <3>1 DEF Passed
  <2>6. QED
    BY <1>2, <2>3, <2>4, <2>5 DEF Located
<1>6. QED
  BY <1>3, <1>4, <1>5 DEF DInv, DataInv

LEMMA DataSteps ==
  ASSUME IInv, DInv, [Next]_vars
  PROVE  DInv'
<1>1. ASSUME NEW i \in Ios, i \notin ended, IoStep(i) PROVE DInv'
  BY <1>1, DataOfIos
<1>2. ASSUME NEW i \in Ios, i \notin ended, NEW c \in Conns, AcceptStep(i, c) PROVE DInv'
  <2>1. /\ AddReadEvent(i, c) /\ Connects(c) /\ home[c] = None
        /\ UNCHANGED <<server, io_at, io_conn, events, passing, worker_at, conn, Queue>>
    BY <1>2 DEF AcceptStep, Accept, Connects, option_vars, io_vars, main_vars, worker_vars,
                queue_vars
  <2>2. use_len_[c] = 0 /\ i \in Threads
    BY <2>1, NoneIsNone DEF DInv, DataInv, Data
  <2>3. ~ HandedOver(c) /\ \A j \in Ios : ~ InLoop(c, j)
    BY <2>1, ClosedIsFree
  <2>4. QED
    BY <2>1, <2>2, <2>3, DataOfAdds
<1>3. ASSUME NEW m \in Mains, m \notin ended, NEW c \in Conns,
             \/ MainReactorStep(m, c)
             \/ MainAcceptStep(m, c) /\ UNCHANGED <<option_vars, worker_vars, queue_vars>>
      PROVE  DInv'
  BY <1>3, DataOfMains DEF MainReactorStep
<1>4. ASSUME NEW w \in Workers, IsHSHA, WorkerStep(w) PROVE DInv'
  BY <1>4, DataOfWorkers
<1>5. ASSUME WakesUp, UNCHANGED <<option_vars, conn_vars, io_vars, main_vars, ended>> PROVE DInv'
  BY <1>5, DataOfWakes
<1>6. ASSUME NEW c \in Conns, PeerStep(c) PROVE DInv'
  BY <1>6, DataOfPeers
<1>7. ASSUME NEW t \in Ios \cup Workers, NEW c \in Conns, PipeBreaks(t, c) PROVE DInv'
  <2>1. Ends(t) /\ UNCHANGED <<server, worker_at, conn, Queue>>
    BY <1>7 DEF PipeBreaks, option_vars, worker_vars, queue_vars
  <2>2. QED
    BY <2>1, DataOfEnds
<1>8. ASSUME UNCHANGED vars PROVE DInv'
  <2>1. /\ UNCHANGED <<home, armed, edge, codec_vars, peer_vars, io_at, io_conn, events, passing>>
        /\ UNCHANGED <<worker_at, conn, Queue>>
    BY <1>8 DEF vars, conn_vars, event_vars, io_vars, main_vars, worker_vars, queue_vars
  <2>2. DataInv'
    BY <2>1, DataStays DEF DInv, DataInv, DataTypeOK
  <2>3. \A d \in Conns : LoopKeeps(d) /\ HandKeeps(d)
    BY <2>1, LoopsKeep, HandsKeep
  <2>4. \A d \in Conns : Located(d)'
    BY <2>1, <2>3, LocatedStays DEF DInv, codec_vars
  <2>5. QED
    BY <2>2, <2>4 DEF DInv
<1>9. QED
  BY <1>1, <1>2, <1>3, <1>4, <1>5, <1>6, <1>7, <1>8 DEF Next

LEMMA AlwaysDInv == Spec => []DInv
<1>1. Init => DInv
  BY DataInitially
<1>2. IInv /\ DInv /\ [Next]_vars => DInv'
  BY DataSteps
<1>3. QED
  BY <1>1, <1>2, AlwaysIInv, PTL DEF Spec

\* The echo, part by part, for every number of threads, workers and connections, every size of
\* a message, of a send buffer and of the queue (EchoAccounted): what the peer has asked is in
\* the socket or in the Codec until the answer is made (Conn::Read), and what has been written
\* of this answer is on its way or with the peer (Conn::Write), who has no part of any other.
THEOREM EachEchoed == Spec => []EchoAccounted
<1>1. DInv => EchoAccounted
  <2> SUFFICES ASSUME DInv, NEW c \in Conns, peer[c] = "open"
               PROVE  IF asked[c] = Pieces /\ inbox[c] = 0
                           /\ (use_len_[c] > 0 \/ got[c] + outbox[c] > 0)
                        THEN got[c] + outbox[c]
                               = IF use_len_[c] > 0 THEN send_len_[c] ELSE Pieces
                        ELSE /\ got[c] + outbox[c] = 0
                             /\ use_len_[c] = send_len_[c]
                             /\ asked[c] = inbox[c] + IF use_len_[c] = 0 THEN decoded[c] ELSE 0
    BY DEF EchoAccounted
  <2>1. /\ decoded[c] \in 0 .. Pieces /\ use_len_[c] \in {0, Pieces} /\ send_len_[c] \in 0 .. Pieces
        /\ asked[c] \in 0 .. Pieces /\ inbox[c] \in 0 .. Pieces
        /\ outbox[c] \in 0 .. Room /\ got[c] \in 0 .. Pieces - 1
    BY DEF DInv, DataInv, DataTypeOK
  <2>2. Echoed(c) /\ (use_len_[c] = 0 => send_len_[c] = 0)
    BY DEF DInv, DataInv, Data
  <2>3. QED
    BY <2>1, <2>2, PiecesAreNat DEF Echoed
<1>2. QED
  BY <1>1, AlwaysDInv, PTL

-----------------------------------------------------------------------------
(* The semaphores of HSHA2: the inductive invariant.  Each place of the    *)
(* queue is counted once, in Idle, by who has waited for it, or in the     *)
(* queue, and each connection in the queue in Fill or by who is to post or *)
(* to take it.                                                             *)

At(S, f, p) == Cardinality({x \in S : f[x] = p})
Pushing == At(Ios, io_at, "push")
Notifying == At(Ios, io_at, "notify")
Popping == At(Workers, worker_at, "pop")
Posting == At(Workers, worker_at, "post Idle")

\* The other servers leave the semaphores alone.
Counted ==
  /\ option \in Options(server)
  /\ Idle \in Nat /\ Fill \in Nat
  /\ server = "HSHA2" =>
       /\ Idle + Pushing + Len(Queue) + Posting = queue_buffer_size
       /\ Fill + Popping + Notifying = Len(Queue)
  /\ server # "HSHA2" =>
       /\ Idle = queue_buffer_size /\ Fill = 0
       /\ \A i \in Ios : io_at[i] # "wait Idle"
       /\ \A w \in Workers : worker_at[w] \notin {"pop", "post Idle"}

\* What is elsewhere at one x changes a count by one.
LEMMA OneStays ==
  ASSUME NEW S, NEW f, NEW g, NEW x \in S, NEW p, \A y \in S \ {x} : g[y] = f[y],
         f[x] = p <=> g[x] = p
  PROVE  At(S, g, p) = At(S, f, p)
<1>1. {y \in S : g[y] = p} = {y \in S : f[y] = p}
  OBVIOUS
<1>2. QED
  BY <1>1 DEF At

LEMMA OneComes ==
  ASSUME NEW S, IsFiniteSet(S), NEW f, NEW g, NEW x \in S, NEW p, \A y \in S \ {x} : g[y] = f[y],
         f[x] # p, g[x] = p
  PROVE  At(S, g, p) = At(S, f, p) + 1
<1> DEFINE A == {y \in S : f[y] = p}
           B == {y \in S : g[y] = p}
<1>1. IsFiniteSet(A) /\ B = A \cup {x} /\ x \notin A
  BY FS_Subset
<1>2. Cardinality(B) = Cardinality(A) + 1
  BY <1>1, FS_AddElement
<1>3. QED
  BY <1>2 DEF At

LEMMA OneGoes ==
  ASSUME NEW S, IsFiniteSet(S), NEW f, NEW g, NEW x \in S, NEW p, \A y \in S \ {x} : g[y] = f[y],
         f[x] = p, g[x] # p
  PROVE  At(S, g, p) = At(S, f, p) - 1
<1> DEFINE A == {y \in S : f[y] = p}
           B == {y \in S : g[y] = p}
<1>1. IsFiniteSet(A) /\ B = A \ {x} /\ x \in A
  BY FS_Subset
<1>2. Cardinality(B) = Cardinality(A) - 1
  BY <1>1, FS_RemoveElement
<1>3. QED
  BY <1>2 DEF At

LEMMA IosAreFinite == IsFiniteSet(Ios)
<1>1. io_count - 1 \in Int
  BY ReactorAssumption
<1>2. QED
  BY <1>1, FS_Interval DEF Ios

LEMMA CountsAreNat ==
  /\ Pushing \in Nat /\ Notifying \in Nat
  /\ Popping \in Nat /\ Posting \in Nat
<1>1. ASSUME NEW S, IsFiniteSet(S), NEW f, NEW p PROVE At(S, f, p) \in Nat
  <2>1. IsFiniteSet({x \in S : f[x] = p})
    BY <1>1, FS_Subset
  <2>2. QED
    BY <2>1, FS_CardinalityType DEF At
<1>2. QED
  BY <1>1, IosAreFinite, HalfSyncAssumption DEF Pushing, Notifying, Popping, Posting

\* The loop i is elsewhere, or the worker w.
LEMMA IoMoves ==
  ASSUME ControlTypeOK, NEW i \in Ios, NEW q, IoGoto(i, q), NEW p
  PROVE  /\ (io_at[i] = p <=> q = p) => At(Ios, io_at', p) = At(Ios, io_at, p)
         /\ io_at[i] # p /\ q = p => At(Ios, io_at', p) = At(Ios, io_at, p) + 1
         /\ io_at[i] = p /\ q # p => At(Ios, io_at', p) = At(Ios, io_at, p) - 1
<1>1. IsFiniteSet(Ios)
  BY IosAreFinite
<1>2. io_at'[i] = q /\ \A j \in Ios \ {i} : io_at'[j] = io_at[j]
  BY DEF IoGoto, ControlTypeOK
<1>3. (io_at[i] = p <=> io_at'[i] = p) => At(Ios, io_at', p) = At(Ios, io_at, p)
  BY <1>2, OneStays
<1>4. io_at[i] # p /\ io_at'[i] = p => At(Ios, io_at', p) = At(Ios, io_at, p) + 1
  BY <1>1, <1>2, OneComes
<1>5. io_at[i] = p /\ io_at'[i] # p => At(Ios, io_at', p) = At(Ios, io_at, p) - 1
  BY <1>1, <1>2, OneGoes
<1>6. QED
  BY <1>2, <1>3, <1>4, <1>5

LEMMA WorkerMoves ==
  ASSUME ControlTypeOK, NEW w \in Workers, NEW q, WorkerGoto(w, q), NEW p
  PROVE  /\ (worker_at[w] = p <=> q = p) => At(Workers, worker_at', p) = At(Workers, worker_at, p)
         /\ worker_at[w] # p /\ q = p => At(Workers, worker_at', p) = At(Workers, worker_at, p) + 1
         /\ worker_at[w] = p /\ q # p => At(Workers, worker_at', p) = At(Workers, worker_at, p) - 1
<1>1. IsFiniteSet(Workers)
  BY HalfSyncAssumption
<1>2. worker_at'[w] = q /\ \A v \in Workers \ {w} : worker_at'[v] = worker_at[v]
  BY DEF WorkerGoto, ControlTypeOK
<1>3. (worker_at[w] = p <=> worker_at'[w] = p) => At(Workers, worker_at', p) = At(Workers, worker_at, p)
  BY <1>2, OneStays
<1>4. worker_at[w] # p /\ worker_at'[w] = p => At(Workers, worker_at', p) = At(Workers, worker_at, p) + 1
  BY <1>1, <1>2, OneComes
<1>5. worker_at[w] = p /\ worker_at'[w] # p => At(Workers, worker_at', p) = At(Workers, worker_at, p) - 1
  BY <1>1, <1>2, OneGoes
<1>6. QED
  BY <1>2, <1>3, <1>4, <1>5

\* A step after which as many loops and workers as before are where they are counted.
LEMMA CountsStay ==
  ASSUME Counted, UNCHANGED <<server, option, Idle, Fill>>,
         server = "HSHA2" =>
           /\ Queue' = Queue
           /\ \A i \in Ios, p \in {"push", "notify"} : io_at'[i] = p <=> io_at[i] = p
           /\ \A w \in Workers, p \in {"pop", "post Idle"} : worker_at'[w] = p <=> worker_at[w] = p,
         server # "HSHA2" =>
           /\ \A i \in Ios : io_at'[i] # "wait Idle"
           /\ \A w \in Workers : worker_at'[w] \notin {"pop", "post Idle"}
  PROVE  Counted'
<1>1. CASE server = "HSHA2"
  <2>1. Pushing' = Pushing /\ Notifying' = Notifying
    <3>1. \A p \in {"push", "notify"} : {i \in Ios : io_at'[i] = p} = {i \in Ios : io_at[i] = p}
      BY <1>1
    <3>2. QED
      BY <3>1 DEF Pushing, Notifying, At
  <2>2. Popping' = Popping /\ Posting' = Posting
    <3>1. \A p \in {"pop", "post Idle"} :
            {w \in Workers : worker_at'[w] = p} = {w \in Workers : worker_at[w] = p}
      BY <1>1
    <3>2. QED
      BY <3>1 DEF Popping, Posting, At
  <2>3. QED
    BY <1>1, <2>1, <2>2 DEF Counted, Options
<1>2. CASE server # "HSHA2"
  BY <1>2 DEF Counted, Options
<1>3. QED
  BY <1>1, <1>2

\* The steps of a loop with connections and unix sockets.
LEMMA LoopsCount ==
  ASSUME IInv, Counted, NEW i \in Ios, LoopStep(i),
         UNCHANGED <<option_vars, worker_vars, queue_vars>>
  PROVE  Counted'
<1>1. UNCHANGED <<server, option, Idle, Fill, Queue, worker_at>>
  BY DEF option_vars, worker_vars, queue_vars
<1>2. ASSUME NEW q, io_at' = [io_at EXCEPT ![i] = q], io_at[i] \in {"next", "read", "write"},
             q \in {"next", "read", "write", "push"} \/ (server = "HSHA2" /\ q = "wait Idle"),
             server = "HSHA2" => q # "push"
      PROVE  Counted'
  <2>1. io_at'[i] = q /\ \A j \in Ios \ {i} : io_at'[j] = io_at[j]
    BY <1>2 DEF IInv, ControlTypeOK
  <2>2. \A j \in Ios, p \in {"push", "notify"} : server = "HSHA2" => (io_at'[j] = p <=> io_at[j] = p)
    BY <1>2, <2>1
  <2>3. server # "HSHA2" => \A j \in Ios : io_at'[j] # "wait Idle"
    BY <1>2, <2>1 DEF Counted
  <2>4. QED
    BY <1>1, <2>2, <2>3, CountsStay DEF Counted
<1>3. ASSUME UNCHANGED io_at PROVE Counted'
  BY <1>1, <1>3, CountsStay DEF Counted
<1>4. ASSUME Handle(i) PROVE Counted'
  <2>1. PICK e \in events[i] : e[2] # "unix" /\ IoGoto(i, e[2])
    BY <1>4 DEF Handle
  <2>2. e[2] \in {"read", "write"}
    <3>1. e \in Conns \X {"read", "write"} \/ e \in Mains \X {"unix"}
      BY DEF IInv, ControlTypeOK
    <3>2. QED
      BY <2>1, <3>1
  <2>3. QED
    BY <1>2, <1>4, <2>1, <2>2 DEF Handle, IoRuns, IoGoto
<1>5. ASSUME NEW c \in Conns, ReadPart(i, c) \/ ReadPauses(i, c) \/ ReadFails(i, c) \/ IoWrite(i, c)
      PROVE  Counted'
  <2>1. io_at[i] \in {"read", "write"}
    BY <1>5 DEF ReadPart, ReadPauses, ReadFails, IoWrite, IoRuns
  <2>2. IoLeaves(i, "next") => Counted'
    BY <1>2, <2>1 DEF IoLeaves, IoGoto
  <2>3. ASSUME OneMessage(i, c) PROVE Counted'
    <3>1. CASE server = "HSHA1"
      BY <1>2, <2>1, <2>3, <3>1 DEF OneMessage, IoGoto
    <3>2. CASE server = "HSHA2"
      BY <1>2, <2>1, <2>3, <3>2 DEF OneMessage, IoGoto
    <3>3. CASE server \notin {"HSHA1", "HSHA2"}
      <4>1. IoGoto(i, "write") \/ IoLeaves(i, "next")
        BY <2>3, <3>3 DEF OneMessage
      <4>2. IoGoto(i, "write") => Counted'
        BY <1>2, <2>1 DEF IoGoto
      <4>3. QED
        BY <2>2, <4>1, <4>2
    <3>4. QED
      BY <3>1, <3>2, <3>3
  <2>4. ASSUME ReadPart(i, c) PROVE Counted'
    BY <1>3, <2>2, <2>3, <2>4 DEF ReadPart
  <2>5. ASSUME IoWrite(i, c) PROVE Counted'
    BY <1>3, <2>2, <2>5 DEF IoWrite, Unfinished
  <2>6. QED
    BY <1>5, <2>2, <2>4, <2>5 DEF ReadPauses, ReadFails
<1>6. ASSUME NEW m \in Mains, RecvFd(i, m) PROVE Counted'
  <2>1. CASE OneProcess
    BY <1>3, <1>6, <2>1 DEF RecvFd, Ends, io_vars
  <2>2. CASE ~ OneProcess
    <3>1. server # "HSHA2"
      BY <2>2 DEF OneProcess
    <3>2. \A j \in Ios : io_at'[j] \in {io_at[j], "next"}
      BY <1>6, <2>2 DEF RecvFd, Ends
    <3>3. QED
      BY <1>1, <3>1, <3>2, CountsStay DEF Counted
  <2>3. QED
    BY <2>1, <2>2
<1>7. QED
  BY <1>3, <1>4, <1>5, <1>6 DEF LoopStep

\* The process of t ends.
LEMMA EndsCount ==
  ASSUME Counted, NEW t, Ends(t), UNCHANGED <<server, option, worker_at, queue_vars>>
  PROVE  Counted'
<1>1. UNCHANGED <<Queue, Idle, Fill>>
  BY DEF queue_vars
<1>2. CASE OneProcess
  BY <1>1, <1>2, CountsStay DEF Ends, io_vars, Counted
<1>3. CASE ~ OneProcess
  <2>1. server # "HSHA2"
    BY <1>3 DEF OneProcess
  <2>2. \A j \in Ios : io_at'[j] \in {io_at[j], "next"}
    BY <1>3 DEF Ends
  <2>3. QED
    BY <1>1, <2>1, <2>2, CountsStay DEF Counted
<1>4. QED
  BY <1>2, <1>3

\* The steps of an io thread with the queue.
LEMMA IosCount ==
  ASSUME IInv, Counted, NEW i \in Ios, IoStep(i)
  PROVE  Counted'
<1>1. UNCHANGED <<server, option>> /\ ControlTypeOK
  BY DEF IoStep, option_vars, IInv
<1>2. Idle \in Nat /\ Fill \in Nat /\ Len(Queue) \in Nat
  <2>1. Queue \in Seq(Conns)
    BY <1>1 DEF ControlTypeOK
  <2>2. QED
    BY <2>1, LenProperties DEF Counted
<1>3. server = "HSHA2" =>
        /\ Idle + Pushing + Len(Queue) + Posting = queue_buffer_size
        /\ Fill + Popping + Notifying = Len(Queue)
  BY DEF Counted
<1>4. ASSUME WaitIdle(i), UNCHANGED worker_vars PROVE Counted'
  <2>1. /\ io_at[i] = "wait Idle" /\ IoGoto(i, "push") /\ Idle > 0 /\ Idle' = Idle - 1
        /\ UNCHANGED <<Queue, Fill, worker_at>>
    BY <1>4 DEF WaitIdle, IoRuns, worker_vars
  <2>2. server = "HSHA2"
    BY <2>1 DEF Counted
  <2>3. Pushing' = Pushing + 1 /\ Notifying' = Notifying
    BY <1>1, <2>1, IoMoves DEF Pushing, Notifying
  <2>4. Popping' = Popping /\ Posting' = Posting
    BY <2>1 DEF Popping, Posting
  <2>5. Pushing \in Nat /\ Notifying \in Nat /\ Popping \in Nat /\ Posting \in Nat
    BY CountsAreNat
  <2>6. Len(Queue') = Len(Queue) /\ Fill' = Fill /\ Idle > 0 /\ Idle' = Idle - 1
    BY <2>1
  <2>7. Idle + Pushing + Len(Queue) + Posting = queue_buffer_size
    BY <1>3, <2>2
  <2>8. Idle' \in Nat /\ Idle' + Pushing' + Len(Queue') + Posting' = queue_buffer_size
    BY <1>2, <2>3, <2>4, <2>5, <2>6, <2>7
  <2>9. Fill' + Popping' + Notifying' = Len(Queue')
    BY <1>3, <2>2, <2>3, <2>4, <2>6
  <2>10. QED
    BY <1>1, <1>2, <2>2, <2>6, <2>8, <2>9 DEF Counted, Options
<1>5. ASSUME Push(i, io_conn[i]), UNCHANGED worker_vars PROVE Counted'
  <2>1. PICK c \in Conns : io_conn[i] = c
    BY <1>5 DEF Push, IoRuns, IInv, ControlTypeOK, LoopOnce
  <2>2. /\ io_at[i] = "push" /\ IoGoto(i, "notify") /\ Queue' = Append(Queue, c)
        /\ UNCHANGED <<Idle, Fill, worker_at>>
    BY <1>5, <2>1 DEF Push, IoRuns, IoLeaves, worker_vars
  <2>3. CASE server = "HSHA2"
    <3>1. Pushing' = Pushing - 1 /\ Notifying' = Notifying + 1
      BY <1>1, <2>2, IoMoves DEF Pushing, Notifying
    <3>2. Popping' = Popping /\ Posting' = Posting
      BY <2>2 DEF Popping, Posting
    <3>3. Len(Queue') = Len(Queue) + 1
      BY <1>1, <2>2, AppendProperties DEF ControlTypeOK
    <3>4. /\ Pushing \in Nat /\ Notifying \in Nat
          /\ Popping \in Nat /\ Posting \in Nat
      BY CountsAreNat
    <3>5. /\ Idle' + Pushing' + Len(Queue') + Posting' = queue_buffer_size
          /\ Fill' + Popping' + Notifying' = Len(Queue')
      BY <1>3, <1>2, <2>2, <2>3, <3>1, <3>2, <3>3, <3>4
    <3>6. QED
      BY <1>1, <1>2, <2>2, <2>3, <3>5 DEF Counted, Options
  <2>4. CASE server # "HSHA2"
    <3>1. \A j \in Ios : io_at'[j] \in {io_at[j], "notify"}
      BY <1>1, <2>2 DEF IoGoto, ControlTypeOK
    <3>2. QED
      BY <1>1, <2>2, <2>4, <3>1, CountsStay DEF Counted
  <2>5. QED
    BY <2>3, <2>4
<1>6. ASSUME Notify(i) PROVE Counted'
  <2>1. io_at[i] = "notify" /\ IoGoto(i, "next") /\ UNCHANGED <<Queue, Idle>>
    BY <1>6 DEF Notify, IoRuns
  <2>2. CASE server = "HSHA2"
    <3>1. Fill' = Fill + 1 /\ worker_at' = worker_at
      BY <1>6, <2>2 DEF Notify
    <3>2. Pushing' = Pushing /\ Notifying' = Notifying - 1
      BY <1>1, <2>1, IoMoves DEF Pushing, Notifying
    <3>3. Popping' = Popping /\ Posting' = Posting
      BY <3>1 DEF Popping, Posting
    <3>4. Notifying \in Nat /\ Popping \in Nat
      BY CountsAreNat
    <3>5. /\ Idle' + Pushing' + Len(Queue') + Posting' = queue_buffer_size
          /\ Fill' + Popping' + Notifying' = Len(Queue') /\ Fill' \in Nat
      BY <1>3, <1>2, <2>1, <2>2, <3>1, <3>2, <3>3, <3>4
    <3>6. QED
      BY <1>1, <1>2, <2>1, <2>2, <3>5 DEF Counted, Options
  <2>3. CASE server # "HSHA2"
    <3>1. /\ UNCHANGED Fill
          /\ \/ worker_at' = worker_at
             \/ \E w \in Workers : worker_at' = [worker_at EXCEPT ![w] = "get"]
      BY <1>6, <2>3 DEF Notify
    <3>2. \A w \in Workers : worker_at'[w] \in {worker_at[w], "get"}
      BY <1>1, <3>1 DEF ControlTypeOK
    <3>3. \A j \in Ios : io_at'[j] \in {io_at[j], "next"}
      BY <1>1, <2>1 DEF IoGoto, ControlTypeOK
    <3>4. QED
      BY <1>1, <2>1, <2>3, <3>1, <3>2, <3>3, CountsStay DEF Counted
  <2>4. QED
    BY <2>2, <2>3
<1>7. ASSUME LoopStep(i), UNCHANGED <<worker_vars, queue_vars>> PROVE Counted'
  BY <1>7, LoopsCount DEF IoStep
<1>8. QED
  BY <1>4, <1>5, <1>6, <1>7 DEF IoStep

\* The steps of a worker.
LEMMA WorkersCount ==
  ASSUME IInv, Counted, IsHSHA, NEW w \in Workers, WorkerStep(w)
  PROVE  Counted'
<1>1. UNCHANGED <<server, option, io_at>> /\ ControlTypeOK
  BY DEF WorkerStep, option_vars, io_vars, IInv
<1>2. Idle \in Nat /\ Fill \in Nat /\ Len(Queue) \in Nat
  <2>1. Queue \in Seq(Conns)
    BY <1>1 DEF ControlTypeOK
  <2>2. QED
    BY <2>1, LenProperties DEF Counted
<1>3. server = "HSHA2" =>
        /\ Idle + Pushing + Len(Queue) + Posting = queue_buffer_size
        /\ Fill + Popping + Notifying = Len(Queue)
  BY DEF Counted
<1>4. Pushing' = Pushing /\ Notifying' = Notifying
  BY <1>1 DEF Pushing, Notifying
<1>5. Pushing \in Nat /\ Notifying \in Nat /\ Popping \in Nat /\ Posting \in Nat
  BY CountsAreNat
<1>6. ASSUME NEW p, WorkerGoto(w, p), p \notin {"pop", "post Idle"}, UNCHANGED <<Idle, Fill>>,
             worker_at[w] \notin {"pop", "post Idle"}, server = "HSHA2" => Queue' = Queue
      PROVE  Counted'
  <2>1. worker_at'[w] = p /\ \A v \in Workers \ {w} : worker_at'[v] = worker_at[v]
    BY <1>1, <1>6 DEF WorkerGoto, ControlTypeOK
  <2>2. \A v \in Workers, q \in {"pop", "post Idle"} : worker_at'[v] = q <=> worker_at[v] = q
    BY <1>6, <2>1
  <2>3. QED
    BY <1>1, <1>6, <2>2, CountsStay DEF Counted
<1>7. ASSUME GetQueueData(w) PROVE Counted'
  <2>1. \E p \in {"write", "mod", "waiting"} : WorkerGoto(w, p)
    BY <1>7 DEF GetQueueData, EnCode
  <2>2. QED
    BY <1>6, <1>7, <2>1 DEF GetQueueData, WorkerRuns
<1>8. ASSUME WaitFill(w) PROVE Counted'
  <2>1. /\ server = "HSHA2" /\ worker_at[w] = "get" /\ WorkerGoto(w, "pop")
        /\ Fill > 0 /\ Fill' = Fill - 1 /\ UNCHANGED <<Queue, Idle>>
    BY <1>8 DEF WaitFill, WorkerRuns
  <2>2. Popping' = Popping + 1 /\ Posting' = Posting
    BY <1>1, <2>1, WorkerMoves DEF Popping, Posting
  <2>3. /\ Idle' + Pushing' + Len(Queue') + Posting' = queue_buffer_size
        /\ Fill' + Popping' + Notifying' = Len(Queue') /\ Fill' \in Nat
    BY <1>2, <1>3, <1>4, <1>5, <2>1, <2>2
  <2>4. QED
    BY <1>1, <1>2, <2>1, <2>3 DEF Counted, Options
<1>9. ASSUME PopFilled(w) PROVE Counted'
  <2>1. /\ worker_at[w] = "pop" /\ WorkerGoto(w, "post Idle") /\ UNCHANGED <<Idle, Fill>>
        /\ Queue # <<>> /\ Queue' = Tail(Queue)
    BY <1>9 DEF PopFilled, WorkerRuns, Pop
  <2>2. server = "HSHA2"
    BY <2>1 DEF Counted
  <2>3. Popping' = Popping - 1
    BY <1>1, <2>1, WorkerMoves DEF Popping
  <2>4. Posting' = Posting + 1
    BY <1>1, <2>1, WorkerMoves DEF Posting
  <2>5. Len(Queue') = Len(Queue) - 1
    BY <1>1, <2>1, HeadTailProperties DEF ControlTypeOK
  <2>6. /\ Idle + Pushing + Len(Queue) + Posting = queue_buffer_size
        /\ Fill + Popping + Notifying = Len(Queue)
    BY <1>3, <2>2
  <2>7. Idle' = Idle /\ Fill' = Fill
    BY <2>1
  <2>8. Idle' + Pushing' + Len(Queue') + Posting' = queue_buffer_size
    BY <1>2, <1>4, <1>5, <2>4, <2>5, <2>6, <2>7
  <2>9. Fill' + Popping' + Notifying' = Len(Queue')
    BY <1>2, <1>4, <1>5, <2>3, <2>5, <2>6, <2>7
  <2>10. QED
    BY <1>1, <1>2, <2>2, <2>7, <2>8, <2>9 DEF Counted, Options
<1>10. ASSUME PostIdle(w) PROVE Counted'
  <2>1. PICK p \in {"write", "mod"} : WorkerGoto(w, p)
    BY <1>10 DEF PostIdle, EnCode
  <2>2. worker_at[w] = "post Idle" /\ Idle' = Idle + 1 /\ UNCHANGED <<Queue, Fill>>
    BY <1>10 DEF PostIdle, WorkerRuns
  <2>3. server = "HSHA2"
    BY <2>2 DEF Counted
  <2>4. Popping' = Popping /\ Posting' = Posting - 1
    BY <1>1, <2>1, <2>2, WorkerMoves DEF Popping, Posting
  <2>5. Idle + Pushing + Len(Queue) + Posting = queue_buffer_size
    BY <1>3, <2>3
  <2>6. Len(Queue') = Len(Queue) /\ Fill' = Fill /\ Idle' = Idle + 1
    BY <2>2
  <2>7. Idle' \in Nat /\ Idle' + Pushing' + Len(Queue') + Posting' = queue_buffer_size
    BY <1>2, <1>4, <1>5, <2>4, <2>5, <2>6
  <2>8. Fill' + Popping' + Notifying' = Len(Queue')
    BY <1>3, <1>4, <2>3, <2>4, <2>6
  <2>9. QED
    BY <1>1, <1>2, <2>3, <2>6, <2>7, <2>8 DEF Counted, Options
<1>11. ASSUME NEW c, WorkerAsks(w, c) \/ WorkerWrite(w, c), UNCHANGED queue_vars PROVE Counted'
  <2>1. UNCHANGED <<Queue, Idle, Fill>> /\ worker_at[w] \in {"mod", "write"}
    BY <1>11 DEF queue_vars, WorkerAsks, WorkerWrite, WorkerRuns
  <2>2. WorkerGoto(w, "get") => Counted'
    BY <1>6, <2>1
  <2>3. UNCHANGED worker_at => Counted'
    BY <1>1, <2>1, CountsStay DEF Counted
  <2>4. QED
    BY <1>11, <2>2, <2>3 DEF WorkerAsks, WorkerWrite, WorkerLeaves, worker_vars
<1>12. QED
  BY <1>7, <1>8, <1>9, <1>10, <1>11 DEF WorkerStep

LEMMA CountInitially == Init => Counted
<1> SUFFICES ASSUME Init PROVE Counted
  OBVIOUS
<1>1. /\ \A i \in Ios : io_at[i] = "next"
      /\ \A w \in Workers : worker_at[w] = "get"
      /\ option \in Options(server)
      /\ Queue = <<>> /\ Idle = queue_buffer_size /\ Fill = 0
  BY DEF Init, ReactorInit
<1>2. Pushing = 0 /\ Notifying = 0 /\ Popping = 0 /\ Posting = 0
  <2>1. /\ {i \in Ios : io_at[i] = "push"} = {} /\ {i \in Ios : io_at[i] = "notify"} = {}
        /\ {w \in Workers : worker_at[w] = "pop"} = {}
        /\ {w \in Workers : worker_at[w] = "post Idle"} = {}
    BY <1>1
  <2>2. QED
    BY <2>1, FS_EmptySet DEF Pushing, Notifying, Popping, Posting, At
<1>3. Len(Queue) = 0
  BY <1>1
<1>4. /\ queue_buffer_size + 0 + 0 + 0 = queue_buffer_size /\ 0 + 0 + 0 = 0
      /\ queue_buffer_size \in Nat /\ 0 \in Nat
  BY HalfSyncAssumption
<1>5. QED
  BY <1>1, <1>2, <1>3, <1>4 DEF Counted

LEMMA CountSteps ==
  ASSUME IInv, Counted, [Next]_vars
  PROVE  Counted'
<1>1. ASSUME UNCHANGED <<option_vars, io_at, worker_at, queue_vars>> PROVE Counted'
  BY <1>1, CountsStay DEF Counted, option_vars, queue_vars
<1>2. ASSUME NEW i \in Ios, IoStep(i) PROVE Counted'
  BY <1>2, IosCount
<1>3. ASSUME NEW i \in Ios, NEW c \in Conns, AcceptStep(i, c) PROVE Counted'
  BY <1>1, <1>3 DEF AcceptStep, io_vars, worker_vars
<1>4. ASSUME NEW m \in Mains, NEW c \in Conns,
             MainStep(m, c) \/ MainAcceptStep(m, c),
             UNCHANGED <<option_vars, worker_vars, queue_vars>>
      PROVE  Counted'
  <2>1. UNCHANGED <<server, option, worker_at>>
    BY <1>4 DEF option_vars, worker_vars
  <2>2. UNCHANGED io_vars \/ Ends(m)
    BY <1>4 DEF MainStep, MainAcceptStep, SendFdBreaks
  <2>3. QED
    BY <1>1, <1>4, <2>1, <2>2, EndsCount DEF io_vars
<1>5. ASSUME NEW w \in Workers, IsHSHA, WorkerStep(w) PROVE Counted'
  BY <1>5, WorkersCount
<1>6. ASSUME WakesUp, UNCHANGED <<option_vars, io_vars>> PROVE Counted'
  <2>1. PICK w \in Workers : worker_at[w] = "waiting" /\ WorkerGoto(w, "get")
    BY <1>6 DEF WakesUp, WorkerRuns
  <2>2. \A v \in Workers, q \in {"pop", "post Idle"} : worker_at'[v] = q <=> worker_at[v] = q
    BY <2>1 DEF WorkerGoto, IInv, ControlTypeOK
  <2>3. UNCHANGED <<server, option, io_at, Queue, Idle, Fill>>
    BY <1>6 DEF WakesUp, option_vars, io_vars, queue_vars
  <2>4. QED
    BY <2>2, <2>3, CountsStay DEF Counted
<1>7. ASSUME NEW c \in Conns, PeerStep(c) PROVE Counted'
  BY <1>1, <1>7 DEF PeerStep, server_vars, io_vars, worker_vars
<1>8. ASSUME NEW t, NEW c, PipeBreaks(t, c) PROVE Counted'
  BY <1>8, EndsCount DEF PipeBreaks, option_vars, worker_vars
<1>9. ASSUME UNCHANGED vars PROVE Counted'
  BY <1>1, <1>9 DEF vars, io_vars, worker_vars
<1>10. QED
  BY <1>2, <1>3, <1>4, <1>5, <1>6, <1>7, <1>8, <1>9 DEF Next, MainReactorStep

LEMMA AlwaysCounted == Spec => []Counted
<1>1. Init => Counted
  BY CountInitially
<1>2. IInv /\ Counted /\ [Next]_vars => Counted'
  BY CountSteps
<1>3. QED
  BY <1>1, <1>2, AlwaysIInv, PTL DEF Spec

\* The variables have their types, and the semaphores of HSHA2 (waitIdle, postFill, waitFill,
\* postIdle) do their work for every number of io threads and of workers and every
\* queue_buffer_size: the queue never has more connections than places, and a worker that has
\* passed Fill finds one.
THEOREM Typed == Spec => []TypeOK
<1>1. IInv /\ DInv /\ Counted => TypeOK
  <2> SUFFICES ASSUME IInv, DInv, Counted PROVE TypeOK
    OBVIOUS
  <2>1. ReactorTypeOK
    <3>1. ConnTypeOK
      BY DEF ConnTypeOK, IInv, ControlTypeOK, DInv, DataInv, DataTypeOK
    <3>2. QED
      BY <3>1 DEF ReactorTypeOK, IInv, ControlTypeOK, Counted
  <2>2. Queue \in Seq(Conns) /\ Len(Queue) \in Nat
    BY LenProperties DEF IInv, ControlTypeOK
  <2>3. /\ Idle \in 0 .. queue_buffer_size /\ Fill \in 0 .. queue_buffer_size
        /\ server = "HSHA2" => Len(Queue) + Idle <= queue_buffer_size /\ Fill + Popping <= Len(Queue)
    <3>1. Idle \in Nat /\ Fill \in Nat /\ queue_buffer_size \in Nat
      BY HalfSyncAssumption DEF Counted
    <3>2. CASE server = "HSHA2"
      <4>1. /\ Idle + Pushing + Len(Queue) + Posting = queue_buffer_size
            /\ Fill + Popping + Notifying = Len(Queue)
        BY <3>2 DEF Counted
      <4>2. QED
        BY <2>2, <3>1, <4>1, CountsAreNat
    <3>3. CASE server # "HSHA2"
      <4>1. Idle = queue_buffer_size /\ Fill = 0
        BY <3>3 DEF Counted
      <4>2. QED
        BY <3>1, <3>3, <4>1
    <3>4. QED
      BY <3>2, <3>3
  <2>4. Popping = Cardinality({w \in Workers : WorkerRuns(w, "pop")})
    BY DEF Popping, At, WorkerRuns
  <2>5. QED
    BY <2>1, <2>2, <2>3, <2>4 DEF TypeOK, IInv, ControlTypeOK
<1>2. QED
  BY <1>1, AlwaysIInv, AlwaysDInv, AlwaysCounted, PTL
=============================================================================
