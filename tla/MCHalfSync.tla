------------------------------ MODULE MCHalfSync ------------------------------
(* The servers that wait for events, as TLC checks them.  Connections are interchangeable: no
   expression of the modules chooses among them, and the fairness conditions are the same for
   all.  What holds of one of them whatever the others do holds of each. *)
EXTENDS HalfSync

CONSTANT First   \* a connection

ASSUME FirstAssumption == First \in Conns

\* The connection First is answered.
Answered == Answers(First)
=============================================================================
