------------------------------ MODULE EventLoop ------------------------------
(***************************************************************************)
(* The event loop of EventDriven/: epoll, and a heap of timers whose       *)
(* cancellation is lazy.  One turn of the loop takes the first timer that  *)
(* is not cancelled out of the heap, waits for events at most until it is  *)
(* due, runs the handlers of the events, and runs the timer last, or puts  *)
(* it back when it is not due.  The handlers resume coroutines, which call *)
(* TimerStart, TimerCancel and the Tcp functions before they yield.        *)
(*                                                                         *)
(* There is no clock, and no order of deadlines: the time of day, which    *)
(* they are made of, may be set.  GetLastTimer takes out any timer that is *)
(* not cancelled, and it is due or not.  A timer is <<owner, n>>; its      *)
(* owner tells the handler.                                                *)
(*                                                                         *)
(* The module has no next-state relation: the program on the loop extends  *)
(* it and supplies the handlers.  A program has a timer started as long as *)
(* its loop runs; without one the assertion of GetLastTimer decides.       *)
(***************************************************************************)
EXTENDS Pool

CONSTANT MaxLost   \* bound: timers that failures of epoll_wait may lose

ASSUME LostAssumption == MaxLost \in Nat

NoTimer == <<>>
Interest == {"none", "read", "write"}

VARIABLES
  timers_,       \* Timer::timers_, the heap
  timer_ids_,    \* Timer::timer_ids_
  cancel_ids_,   \* Timer::cancel_ids_
  timer_data,    \* the timer that Run has taken out of the heap, or NoTimer
  interest,      \* interest[c]: what epoll watches on the descriptor of the slave c
  events,        \* slaves whose event epoll_wait has returned and Run has not handled
  is_running_,   \* EventLoop::is_running_
  phase,         \* where Run is, or the handler it calls
  failed         \* what has stopped the process, or "none"

heap_vars == <<timers_, timer_ids_, cancel_ids_>>
loop_vars == <<timer_data, events, is_running_, phase>>
event_vars == <<heap_vars, loop_vars, interest, failed>>

-----------------------------------------------------------------------------
(* What the handlers call.  The code asserts that a timer to be cancelled  *)
(* is known, and that epoll accepts each of its operations.                *)

\* timer_ids_ keeps the timers that are in the heap or in timer_data.
TimerStart(t) ==
  /\ timers_' = timers_ \cup {t}
  /\ timer_ids_' = timer_ids_ \cup {t}
  /\ UNCHANGED cancel_ids_

TimerCancel(t) ==
  /\ cancel_ids_' = cancel_ids_ \cup {t}
  /\ UNCHANGED <<timers_, timer_ids_>>

TcpStart(c, what) == interest' = [interest EXCEPT ![c] = what]

\* TcpEventClear, and close, which removes a descriptor from epoll as well.
TcpClear(c) == interest' = [interest EXCEPT ![c] = "none"]

SetFinish == is_running_' = FALSE

-----------------------------------------------------------------------------
(* Run.                                                                    *)

\* Mutant: the id of a timer is erased when the timer is taken out.
GetLastTimerErases(dropped, last) ==
  /\ is_master_ /\ phase = "next" /\ is_running_
  /\ dropped \subseteq timers_ \cap cancel_ids_
  /\ last \in IF timers_ = dropped THEN {NoTimer} ELSE timers_ \ cancel_ids_
  /\ timers_' = timers_ \ (dropped \cup {last})
  /\ timer_ids_' = timer_ids_ \ (dropped \cup {last})
  /\ cancel_ids_' = cancel_ids_ \ dropped
  /\ failed' = IF last = NoTimer /\ timer_ids_' # {} THEN "empty" ELSE failed

\* GetLastTimer drops the cancelled timers at the front of the heap and takes out the
\* next one, last.  It asserts that no id is left when the heap is empty.
GetLastTimer(dropped, last) ==
  /\ is_master_ /\ phase = "next" /\ is_running_
  /\ dropped \subseteq timers_ \cap cancel_ids_
  /\ last \in IF timers_ = dropped THEN {NoTimer} ELSE timers_ \ cancel_ids_
  /\ timers_' = timers_ \ (dropped \cup {last})
  /\ timer_ids_' = timer_ids_ \ dropped
  /\ cancel_ids_' = cancel_ids_ \ dropped
  /\ failed' = IF last = NoTimer /\ timer_ids_' # {} THEN "empty" ELSE failed

\* The loop takes out a timer and waits: some of the descriptors that are watched are
\* ready, or none within the time.
EpollWait(last) ==
  /\ \E dropped \in SUBSET cancel_ids_ : GetLastTimer(dropped, last)
  /\ timer_data' = last
  /\ events' \in SUBSET {c \in Cids : interest[c] # "none"}
  /\ phase' = "events"
  /\ UNCHANGED <<is_running_, interest>>

\* The timers that are neither in the heap nor about to be run.
Lost == timer_ids_ \ (timers_ \cup {timer_data})

\* epoll_wait fails, with EINTR if with nothing else: the next turn takes out another
\* timer, and nobody puts this one back.
EpollWaitFails(last) ==
  /\ last # NoTimer => Cardinality(Lost) < MaxLost
  /\ \E dropped \in SUBSET cancel_ids_ : GetLastTimer(dropped, last)
  /\ UNCHANGED <<timer_data, events, is_running_, interest, phase>>

\* The handler of an event resumes the slave.
HandleEvent(c) ==
  /\ phase = "events"
  /\ c \in events
  /\ CoroutineResume(c)
  /\ events' = events \ {c}
  /\ UNCHANGED <<heap_vars, timer_data, is_running_, phase, interest, failed>>

\* Mutant: the timer does not wait for the events to be handled.
AtTimerEarly == is_master_ /\ phase = "events"

\* The events are handled, the timer is next.
AtTimer == is_master_ /\ phase = "events" /\ events = {}

\* The timer is not due, and goes back.
TimerNotDue ==
  /\ AtTimer
  /\ timers_' = timers_ \cup {timer_data}
  /\ timer_data' = NoTimer
  /\ phase' = "next"
  /\ UNCHANGED <<timer_ids_, cancel_ids_, events, is_running_, interest, failed>>

\* The timer is due, and was cancelled by a handler of this turn.
TimerCancelled ==
  /\ AtTimer
  /\ timer_data \in cancel_ids_
  /\ timer_ids_' = timer_ids_ \ {timer_data}
  /\ cancel_ids_' = cancel_ids_ \ {timer_data}
  /\ timer_data' = NoTimer
  /\ phase' = "next"
  /\ UNCHANGED <<timers_, events, is_running_, interest, failed>>

\* The timer t is due: its handler is called, in the state that results.
TimerDue(t) ==
  /\ AtTimer
  /\ timer_data = t
  /\ t \notin cancel_ids_
  /\ timer_data' = NoTimer
  /\ UNCHANGED <<cancel_ids_, events, interest, failed>>

LoopEnds ==
  /\ is_master_ /\ phase = "next" /\ ~ is_running_
  /\ phase' = "over"
  /\ UNCHANGED <<heap_vars, timer_data, events, is_running_, interest, failed>>
=============================================================================
