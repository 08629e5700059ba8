-------------------------------- MODULE Conn --------------------------------
(***************************************************************************)
(* The connections of the servers that wait for events, class Conn with    *)
(* epollctl.hpp, and the peers at their other ends.                        *)
(*                                                                         *)
(* A request and its answer have the same number of parts, in which they   *)
(* are read and written.  The peer sends a request when it has the answer  *)
(* to the one before: a Codec that is used again may otherwise read beyond *)
(* one request, from where DeCode does not come back.                      *)
(***************************************************************************)
EXTENDS Integers, Sequences, FiniteSets

CONSTANTS
  Conns,   \* bound: the connections that can be open at a time
  Pieces,  \* bound: parts of a message
  Room,    \* bound: parts that fit in a socket's send buffer
  None     \* no connection, no thread

ASSUME ConnAssumption == {Pieces, Room} \subseteq Nat \ {0}
ASSUME NoneAssumption == None \notin Conns

VARIABLES
  server,     \* which server it is
  home,       \* home[c]: the thread that waits for the events of c, None if it is closed
  armed,      \* armed[c]: what is watched on it
  edge,       \* edge-triggered events that epoll has not returned
  decoded,    \* decoded[c]: parts in its Codec, which is in FINISH with all of them
  use_len_,   \* use_len_[c]: parts of the answer in its pkt_
  send_len_,  \* send_len_[c]: parts of the answer written
  peer,       \* peer[c]: whether the peer has closed or reset the connection
  asked,      \* asked[c]: parts of its request that the peer has sent
  inbox,      \* inbox[c]: parts of the request in the socket
  outbox,     \* outbox[c]: parts of the answer in the socket
  got         \* got[c]: parts of the answer that the peer has

event_vars == <<home, armed, edge>>
codec_vars == <<decoded, use_len_, send_len_>>
peer_vars == <<peer, asked, inbox, outbox, got>>
conn_vars == <<event_vars, codec_vars, peer_vars>>

Zero == [c \in Conns |-> 0]

ConnInit ==
  /\ home = [c \in Conns |-> None]
  /\ armed = [c \in Conns |-> "none"]
  /\ edge = {}
  /\ decoded = Zero /\ use_len_ = Zero /\ send_len_ = Zero
  /\ peer = [c \in Conns |-> "closed"]
  /\ asked = Zero /\ inbox = Zero /\ outbox = Zero /\ got = Zero

ConnTypeOK ==
  /\ armed \in [Conns -> {"none", "read", "write"}]
  /\ edge \subseteq Conns
  /\ decoded \in [Conns -> 0 .. Pieces]
  /\ use_len_ \in [Conns -> {0, Pieces}]
  /\ send_len_ \in [Conns -> 0 .. Pieces]
  /\ peer \in [Conns -> {"open", "closed"}]
  /\ asked \in [Conns -> 0 .. Pieces]
  /\ inbox \in [Conns -> 0 .. Pieces]
  /\ outbox \in [Conns -> 0 .. Room]
  /\ got \in [Conns -> 0 .. Pieces - 1]

-----------------------------------------------------------------------------
\* An event that is edge-triggered is due when it is asked for and when its cause recurs.
Due(c) == IF server = "ET" THEN edge \cup {c} ELSE edge

Watch(c, what) ==
  /\ armed' = [armed EXCEPT ![c] = what]
  /\ edge' = Due(c)

ModToReadEvent(c) == Watch(c, "read")
ModToWriteEvent(c) == Watch(c, "write")

Happens(c) == server = "ET" => c \in edge

ReadReady(t) ==
  {c \in Conns : /\ home[c] = t /\ armed[c] = "read" /\ Happens(c)
                 /\ inbox[c] > 0 \/ peer[c] = "closed"}
WriteReady(t) ==
  {c \in Conns : /\ home[c] = t /\ armed[c] = "write" /\ Happens(c)
                 /\ outbox[c] < Room \/ peer[c] = "closed"}

\* A new connection is watched for reading by the thread t.
AddReadEvent(t, c) ==
  /\ home' = [home EXCEPT ![c] = t]
  /\ Watch(c, "read")

FinishWrite(c) == send_len_[c] = use_len_[c]

\* Mutant: the offset of the last answer is kept.
ResetKeepsOffset(C) ==
  /\ decoded' = [c \in Conns |-> IF c \in C THEN 0 ELSE decoded[c]]
  /\ use_len_' = [c \in Conns |-> IF c \in C THEN 0 ELSE use_len_[c]]
  /\ UNCHANGED send_len_

Reset(C) ==
  LET Cleared(f) == [c \in Conns |-> IF c \in C THEN 0 ELSE f[c]]
  IN decoded' = Cleared(decoded) /\ use_len_' = Cleared(use_len_) /\ send_len_' = Cleared(send_len_)

\* ClearEvent, which closes the descriptor, and delete.
Release(C) ==
  LET Cleared(f) == [c \in Conns |-> IF c \in C THEN 0 ELSE f[c]]
  IN /\ home' = [c \in Conns |-> IF c \in C THEN None ELSE home[c]]
     /\ armed' = [c \in Conns |-> IF c \in C THEN "none" ELSE armed[c]]
     /\ edge' = edge \ C
     /\ Reset(C)
     /\ peer' = [c \in Conns |-> IF c \in C THEN "closed" ELSE peer[c]]
     /\ asked' = Cleared(asked) /\ inbox' = Cleared(inbox)
     /\ outbox' = Cleared(outbox) /\ got' = Cleared(got)

\* One read of Conn::Read, and DeCode.
ReadSome(c) ==
  /\ \E n \in 1 .. inbox[c] :
       /\ decoded[c] + n <= Pieces
       /\ decoded' = [decoded EXCEPT ![c] = @ + n]
       /\ inbox' = [inbox EXCEPT ![c] = @ - n]
  /\ UNCHANGED <<send_len_, peer, asked, outbox, got>>

\* The sockets of the servers with select and poll are left blocking.
Blocks == server # "Select"
ReadBlocks(c) == Blocks /\ inbox[c] = 0 /\ peer[c] = "open"
WriteBlocks(c) == Blocks /\ peer[c] = "open" /\ outbox[c] = Room

\* One write of Conn::Write: it takes what there is room for.  What is written for a peer
\* that has closed the connection is lost.
WriteSome(c) ==
  /\ \E n \in 1 .. use_len_[c] - send_len_[c] :
       /\ send_len_' = [send_len_ EXCEPT ![c] = @ + n]
       /\ \/ peer[c] = "open" /\ outbox[c] + n <= Room /\ outbox' = [outbox EXCEPT ![c] = @ + n]
          \/ peer[c] = "closed" /\ UNCHANGED outbox
  /\ UNCHANGED <<decoded, use_len_, peer, asked, inbox, got>>

\* A write to a connection that is closed may fail, or be answered with SIGPIPE.
WriteFails(c) == ~ FinishWrite(c) /\ peer[c] = "closed"

\* The answer is written, the connection is read again.
Answer(c) ==
  /\ FinishWrite(c)
  /\ Reset({c})
  /\ ModToReadEvent(c)
  /\ UNCHANGED <<home, peer_vars>>

-----------------------------------------------------------------------------
PeerSends(c) ==
  /\ peer[c] = "open"
  /\ asked[c] < Pieces
  /\ asked' = [asked EXCEPT ![c] = @ + 1]
  /\ inbox' = [inbox EXCEPT ![c] = @ + 1]
  /\ edge' = Due(c)
  /\ UNCHANGED <<peer, outbox, got>>

\* With the last part of the answer the peer is ready for its next request.
PeerReceives(c) ==
  /\ peer[c] = "open"
  /\ outbox[c] > 0
  /\ outbox' = [outbox EXCEPT ![c] = @ - 1]
  /\ got' = [got EXCEPT ![c] = (@ + 1) % Pieces]
  /\ asked' = IF got'[c] = 0 THEN [asked EXCEPT ![c] = 0] ELSE asked
  /\ edge' = IF outbox[c] = Room THEN Due(c) ELSE edge
  /\ UNCHANGED <<peer, inbox>>

\* It no longer waits for an answer; what it has sent may still be read.
PeerCloses(c) ==
  /\ peer[c] = "open"
  /\ peer' = [peer EXCEPT ![c] = "closed"]
  /\ asked' = [asked EXCEPT ![c] = 0]
  /\ outbox' = [outbox EXCEPT ![c] = 0]
  /\ got' = [got EXCEPT ![c] = 0]
  /\ edge' = Due(c)
  /\ UNCHANGED inbox

\* The echo, part by part: what the peer has asked is in the socket or with the server until
\* the request is complete, and then so much is on its way back, written from the answer to
\* this request and no other.  The peer has all of it before it asks again.
EchoAccounted ==
  \A c \in Conns :
    peer[c] = "open" =>
      IF asked[c] = Pieces /\ inbox[c] = 0 /\ (use_len_[c] > 0 \/ got[c] + outbox[c] > 0)
        THEN got[c] + outbox[c] = IF use_len_[c] > 0 THEN send_len_[c] ELSE Pieces
        ELSE /\ got[c] + outbox[c] = 0
             /\ use_len_[c] = send_len_[c]
             /\ asked[c] = inbox[c] + IF use_len_[c] = 0 THEN decoded[c] ELSE 0
=============================================================================
