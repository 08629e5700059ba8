-------------------------------- MODULE Echo --------------------------------
(***************************************************************************)
(* What an echo server promises to each connection: what it sends is the   *)
(* beginning of the requests that it has been sent as a whole, in their    *)
(* order, until the connection ends.  Then it may start anew.              *)
(***************************************************************************)
EXTENDS Naturals, Sequences

CONSTANTS
  Conns,
  Wire,  \* Wire[c]: the bytes of the requests that the peer of c sends
  Ends   \* Ends[c]: after how many bytes a request ends, or the first begins

VARIABLES
  sent,  \* sent[c]: bytes that the peer has sent
  back   \* back[c]: the bytes that the server has sent

vars == <<sent, back>>

Init == sent = [c \in Conns |-> 0] /\ back = [c \in Conns |-> <<>>]

Ask(c) ==
  /\ \E n \in sent[c] + 1 .. Len(Wire[c]) : sent' = [sent EXCEPT ![c] = n]
  /\ UNCHANGED back

Answer(c) ==
  /\ UNCHANGED sent
  /\ \E n \in Len(back[c]) + 1 .. sent[c] :
       /\ \E e \in Ends[c] : n <= e /\ e <= sent[c]
       /\ back' = [back EXCEPT ![c] = SubSeq(Wire[c], 1, n)]

\* Connections end, several at a time when their process ends.
End ==
  \E C \in SUBSET Conns :
    /\ sent' = [c \in Conns |-> IF c \in C THEN 0 ELSE sent[c]]
    /\ back' = [c \in Conns |-> IF c \in C THEN <<>> ELSE back[c]]

Next == End \/ \E c \in Conns : Ask(c) \/ Answer(c)

Spec == Init /\ [][Next]_vars
=============================================================================
