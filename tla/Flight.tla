------------------------------- MODULE Flight -------------------------------
(***************************************************************************)
(* CoCallOnce and CoSingleFlight: of the slaves that ask for the same      *)
(* call, one makes it and the others wait until it is over.  A CoCallOnce  *)
(* is then over for good; a CoSingleFlight is made ready for the next call *)
(* by CoSingleFlightResume, which finds it in the map single_flights_.     *)
(*                                                                         *)
(* The function that is called is the client's: it may yield, and may ask  *)
(* for other calls in its turn, in an order, so that no two calls wait for *)
(* each other.  A key has one CoSingleFlight and a CoSingleFlight one key. *)
(* The objects live as long as the program.                                *)
(***************************************************************************)
EXTENDS Schedule

CONSTANTS
  CallOnces,       \* the CoCallOnce objects, and
  SingleFlights    \* the CoSingleFlight objects, numbered in the order of the calls

Objects == CallOnces \cup SingleFlights
NoObject == 0

ASSUME ObjectAssumption ==
  /\ Objects \subseteq Nat \ {NoObject}
  /\ CallOnces \cap SingleFlights = {}

CallState == {"kInit", "kInCall", "kFinish"}

VARIABLES
  call_state,        \* CoCallOnce::state, CoSingleFlight::state
  suspend_cid_set,   \* CoCallOnce::suspend_cid_set, CoSingleFlight::suspend_cid_set
  single_flights_,   \* the CoSingleFlight objects the map of the schedule holds
  waiting,           \* waiting[c]: the object in whose Do the slave c waits
  calling,           \* calling[c]: the objects whose function c is in
  todo,              \* what the loops of the two Resume functions have not come to yet
  serving,           \* the object whose waiters are resumed
  cid_set            \* those of the copy of suspend_cid_set not resumed yet

object_vars == <<call_state, suspend_cid_set, single_flights_>>
client_vars == <<waiting, calling>>
loop_vars == <<todo, serving, cid_set>>
vars == <<schedule_vars, object_vars, client_vars, loop_vars>>

Init ==
  /\ ScheduleInit
  /\ call_state = [o \in Objects |-> "kInit"]
  /\ suspend_cid_set = [o \in Objects |-> {}]
  /\ single_flights_ = {}
  /\ waiting = [c \in Cids |-> NoObject]
  /\ calling = [c \in Cids |-> {}]
  /\ todo = {}
  /\ serving = NoObject
  /\ cid_set = {}

InEntry == ~ is_master_ /\ waiting[slave_cid_] = NoObject

-----------------------------------------------------------------------------
(* Do, up to the point where the function is entered or the wait is over.  *)

\* The first one to ask enters the function.
Enter(o) ==
  /\ call_state[o] = "kInit"
  /\ call_state' = [call_state EXCEPT ![o] = "kInCall"]
  /\ calling' = [calling EXCEPT ![slave_cid_] = @ \cup {o}]
  /\ UNCHANGED <<pool_vars, suspend_cid_set, waiting>>

\* One turn of the wait loop.
WaitTurn(o) ==
  \/ /\ call_state[o] = "kFinish"
     /\ suspend_cid_set' = [suspend_cid_set EXCEPT ![o] = @ \ {slave_cid_}]
     /\ waiting' = [waiting EXCEPT ![slave_cid_] = NoObject]
     /\ UNCHANGED pool_vars
  \/ /\ call_state[o] # "kFinish"
     /\ suspend_cid_set' = [suspend_cid_set EXCEPT ![o] = @ \cup {slave_cid_}]
     /\ waiting' = [waiting EXCEPT ![slave_cid_] = o]
     /\ CoroutineYield

DoTurn(o) ==
  \/ Enter(o)
  \/ /\ call_state[o] # "kInit"
     /\ WaitTurn(o)
     /\ UNCHANGED <<call_state, calling>>

Asks(o) == InEntry /\ Call /\ \A p \in calling[slave_cid_] : p < o

CoCallOnceDo(o) ==
  /\ Asks(o)
  /\ DoTurn(o)
  /\ UNCHANGED <<master_vars, single_flights_, loop_vars>>

\* Mutant: the object is not put into the map.
SingleFlightDoUnmapped(o) ==
  /\ Asks(o)
  /\ DoTurn(o)
  /\ UNCHANGED <<master_vars, single_flights_, loop_vars>>

\* A slave resumed by the loop over the map may insert into it.  That may rehash it and so
\* invalidates the iterator of the loop: what the loop still comes to is anyone's guess.
CoSingleFlightDo(o) ==
  /\ Asks(o)
  /\ single_flights_' = single_flights_ \cup {o}
  /\ IF serving \in SingleFlights /\ o \notin single_flights_
       THEN todo' \in SUBSET single_flights_'
       ELSE UNCHANGED todo
  /\ DoTurn(o)
  /\ UNCHANGED <<master_vars, serving, cid_set>>

\* The wait loop goes on.  It does not test for kInit again.
WaitAgain ==
  /\ ~ is_master_ /\ ~ InEntry
  /\ WaitTurn(waiting[slave_cid_])
  /\ UNCHANGED <<calls, master_vars, call_state, single_flights_, calling, loop_vars>>

\* The function returns, and Do with it; a function in a function returns first.
Leave(o) ==
  /\ InEntry
  /\ o \in calling[slave_cid_] /\ \A p \in calling[slave_cid_] : p <= o
  /\ call_state' = [call_state EXCEPT ![o] = "kFinish"]
  /\ calling' = [calling EXCEPT ![slave_cid_] = @ \ {o}]
  /\ UNCHANGED <<schedule_vars, suspend_cid_set, single_flights_, waiting, loop_vars>>

SlaveStep ==
  /\ InEntry
  /\ Yield \/ Spawn \/ (calling[slave_cid_] = {} /\ Return)
  /\ UNCHANGED <<object_vars, client_vars, loop_vars>>

-----------------------------------------------------------------------------
(* CoCallOnceResume and CoSingleFlightResume, one after the other.         *)

MasterStep ==
  /\ Create \/ RunBegin \/ \E c \in Cids : EventResume(c)
  /\ UNCHANGED <<object_vars, client_vars, loop_vars>>

RunScanStep == RunScan({}) /\ UNCHANGED <<object_vars, client_vars, loop_vars>>

CoResumeBegin ==
  /\ ResumeBegin
  /\ todo' = CallOnces \cup single_flights_
  /\ UNCHANGED <<object_vars, client_vars, serving, cid_set>>

\* Mutant: a single flight that is over is made ready before its waiters have seen it.
VisitResetsFirst(o) ==
  /\ resuming /\ is_master_ /\ serving = NoObject
  /\ o \in todo
  /\ todo' = todo \ {o}
  /\ IF call_state[o] = "kFinish" /\ suspend_cid_set[o] # {}
       THEN serving' = o /\ cid_set' = suspend_cid_set[o]
       ELSE UNCHANGED <<serving, cid_set>>
  /\ call_state' = IF call_state[o] = "kFinish" /\ o \in SingleFlights
                     THEN [call_state EXCEPT ![o] = "kInit"]
                     ELSE call_state
  /\ UNCHANGED <<schedule_vars, suspend_cid_set, single_flights_, client_vars>>

\* Mutant: a single flight nobody waits for is made ready again, over or not.
VisitResetsAny(o) ==
  /\ resuming /\ is_master_ /\ serving = NoObject
  /\ o \in todo
  /\ todo' = todo \ {o}
  /\ IF call_state[o] = "kFinish" /\ suspend_cid_set[o] # {}
       THEN serving' = o /\ cid_set' = suspend_cid_set[o]
       ELSE UNCHANGED <<serving, cid_set>>
  /\ call_state' = IF suspend_cid_set[o] = {} /\ o \in SingleFlights
                     THEN [call_state EXCEPT ![o] = "kInit"]
                     ELSE call_state
  /\ UNCHANGED <<schedule_vars, suspend_cid_set, single_flights_, client_vars>>

\* A loop comes to o, a CoCallOnce before any CoSingleFlight.  A single flight that is
\* over and that nobody waits for is ready again at once.
Visit(o) ==
  /\ resuming /\ is_master_ /\ serving = NoObject
  /\ o \in todo
  /\ o \in SingleFlights => todo \cap CallOnces = {}
  /\ todo' = todo \ {o}
  /\ IF call_state[o] = "kFinish" /\ suspend_cid_set[o] # {}
       THEN serving' = o /\ cid_set' = suspend_cid_set[o]
       ELSE UNCHANGED <<serving, cid_set>>
  /\ call_state' =
       IF call_state[o] = "kFinish" /\ suspend_cid_set[o] = {} /\ o \in SingleFlights
         THEN [call_state EXCEPT ![o] = "kInit"]
         ELSE call_state
  /\ UNCHANGED <<schedule_vars, suspend_cid_set, single_flights_, client_vars>>

ResumeWaiter ==
  /\ resuming /\ is_master_ /\ serving # NoObject
  /\ \E c \in cid_set : cid_set' = cid_set \ {c} /\ CoroutineResume(c)
  /\ UNCHANGED <<calls, master_vars, object_vars, client_vars, todo, serving>>

\* The copy has been gone through.  The code asserts that nobody waits any more.
Served ==
  /\ resuming /\ is_master_ /\ serving # NoObject
  /\ cid_set = {}
  /\ serving' = NoObject
  /\ call_state' = IF serving \in SingleFlights
                     THEN [call_state EXCEPT ![serving] = "kInit"]
                     ELSE call_state
  /\ UNCHANGED <<schedule_vars, suspend_cid_set, single_flights_, client_vars, todo, cid_set>>

CoResumeEnd ==
  /\ todo = {} /\ serving = NoObject
  /\ ResumeEnd
  /\ UNCHANGED <<object_vars, client_vars, loop_vars>>

CoResume == (\E o \in Objects : Visit(o)) \/ ResumeWaiter \/ Served \/ CoResumeEnd

-----------------------------------------------------------------------------

Slave ==
  \/ \E o \in CallOnces : CoCallOnceDo(o)
  \/ \E o \in SingleFlights : CoSingleFlightDo(o)
  \/ \E o \in Objects : Leave(o)
  \/ WaitAgain
  \/ SlaveStep

Next == Slave \/ MasterStep \/ RunScanStep \/ CoResumeBegin \/ CoResume

\* The process's one thread keeps executing code, and an event loop calls the Resume
\* functions after every batch of events.
Fairness ==
  /\ WF_vars(Slave)
  /\ WF_vars(RunScanStep)
  /\ WF_vars(CoResume)
  /\ SF_vars(CoResumeBegin)

Spec == Init /\ [][Next]_vars
FairSpec == Spec /\ Fairness

-----------------------------------------------------------------------------
(* Properties.                                                             *)

\* Every variable has its type and the pool is consistent.
TypeOK ==
  /\ ScheduleTypeOK
  /\ call_state \in [Objects -> CallState]
  /\ suspend_cid_set \in [Objects -> SUBSET Cids]
  /\ single_flights_ \subseteq SingleFlights
  /\ waiting \in [Cids -> Objects \cup {NoObject}]
  /\ calling \in [Cids -> SUBSET Objects]
  /\ todo \subseteq Objects
  /\ serving \in Objects \cup {NoObject}
  /\ cid_set \subseteq Cids

\* While a call is being made one slave makes it, otherwise none, however often the caller
\* yields in between and a single flight has been made ready again.
OneCaller ==
  \A o \in Objects :
    Cardinality({c \in Cids : o \in calling[c]}) = (IF call_state[o] = "kInCall" THEN 1 ELSE 0)

\* A waiter waits for a call that is being made or is over: a single flight is not made
\* ready again before all its waiters have been told, or they would wait for a call that
\* nobody makes.  Waiters and only waiters are in the set of their object, suspended, so
\* that the assertion of CoroutineResume holds for all whom the copy is gone through for;
\* and when that is done nobody is left in the set, as the code asserts.
WaiterHasCall ==
  /\ \A c \in Cids : waiting[c] # NoObject => call_state[waiting[c]] # "kInit"
  /\ \A o \in Objects, c \in Cids :
       /\ waiting[c] = o <=> c \in suspend_cid_set[o]
       /\ waiting[c] = o /\ slave_cid_ # c => state[c] = "kSuspend"
  /\ serving # NoObject =>
       suspend_cid_set[serving] \subseteq cid_set \cup {slave_cid_}

\* A call that is over ends every wait for it, and a single flight can then be made again
\* (singleflight.cpp:27), when an event loop goes on calling the Resume functions.
CallEnds ==
  /\ \A o \in CallOnces : call_state[o] = "kFinish" ~> suspend_cid_set[o] = {}
  /\ \A o \in SingleFlights : call_state[o] = "kFinish" ~> call_state[o] = "kInit"
=============================================================================
