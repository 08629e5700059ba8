---------------------------- MODULE BoundedQueue ----------------------------
(* What a channel promises: a queue of at most Capacity messages, put at the *)
(* end and taken from the front.                                             *)
EXTENDS Naturals, Sequences

CONSTANTS Messages, Capacity

VARIABLE queue

Init == queue = <<>>

Put == Len(queue) < Capacity /\ \E d \in Messages : queue' = Append(queue, d)
Take == queue # <<>> /\ queue' = Tail(queue)

Spec == Init /\ [][Put \/ Take]_queue
=============================================================================
