------------------------------ MODULE MCHandlers ------------------------------
(* One peer sends a message with a body and two empty ones, with a pause in the second head,
   and stops in the third; the other sends a message with a pause before its body. *)
EXTENDS Handlers

CONSTANTS c1, c2

MCServers ==
  {SingleProcess, MultiThread, MultiProcess, ThreadPool, LeaderAndFollower, ProcessPool1,
   ProcessPool2, Epoll, Select, Poll, Coroutine(1), Coroutine(2), ProcessPoolCoroutine(1),
   CoroutineHSHA1(2), CoroutineHSHA2(1), CoroutineHSHA2(2)}
MCRequests == c1 :> <<EnCode(<<7>>), EnCode(<<>>), EnCode(<<>>)>> @@ c2 :> <<EnCode(<<7>>)>>
MCSendings == c1 :> {4, 6} @@ c2 :> {2, 3}
=============================================================================
