----------------------------- MODULE EventQueue -----------------------------
(***************************************************************************)
(* nc::EventQueue and nc::EventConsumer (event_queue.h, event_queue.cc):   *)
(* a priority queue of (time, consumer) events that Run() executes in the  *)
(* order of their times until the stop time.  SimTimeEventQueue jumps its  *)
(* clock to the time of the next event; RealTimeEventQueue and             *)
(* BusyWaitEventQueue wait for the clock of the machine (real_time).       *)
(*                                                                         *)
(* mode is "idle" outside of Run(), "loop" at the head of its loop, and    *)
(* the consumer while that consumer's HandleEvent() runs; what a handler   *)
(* does to the queue is a sequence of the actions below.  Events with the  *)
(* same time are executed in any order (the heap is not stable).           *)
(*                                                                         *)
(* A definition with no comment of its own right above another one is that *)
(* definition with a plausible bug; the specification does not use it.     *)
(***************************************************************************)
EXTENDS Integers, FiniteSetsExt

CONSTANTS
  Consumers,
  MaxTime,      \* EventQueueTime::MaxTime(); no sum of times exceeds it here
  Delays,       \* the delays consumers and callers of RunAndStopIn ask for
  MaxPending    \* bound on the events a consumer has in the queue

ASSUME EventQueueAssumption ==
  /\ MaxTime \in Nat
  /\ Delays \subseteq Nat
  /\ MaxPending \in Nat
  /\ {"idle", "loop"} \cap Consumers = {}

VARIABLES
  real_time,   \* which queue this is: whether its clock runs by itself
  time_,       \* CurrentTime()
  stop_time_,
  queue_,      \* per consumer and time: the number of events
  outstanding_event_count_,
  alive,       \* the consumers that have not been destroyed
  mode,
  due          \* the time the event being handled was scheduled for

vars == <<real_time, time_, stop_time_, queue_, outstanding_event_count_, alive, mode, due>>

Times == 0 .. MaxTime

Init ==
  /\ real_time \in BOOLEAN
  /\ time_ = 0
  /\ stop_time_ = MaxTime
  /\ queue_ = [c \in Consumers |-> [t \in Times |-> 0]]
  /\ outstanding_event_count_ = [c \in Consumers |-> 0]
  /\ alive = Consumers
  /\ mode = "idle"
  /\ due = 0

-----------------------------------------------------------------------------
(* What the owner of the queue and event handlers may do.                  *)

\* User code runs: outside of Run() or inside of a handler.
UserCode == mode # "loop"

\* Simulated events are scheduled for the present or the future.
InTime(at) == real_time \/ at >= time_

\* EnqueueAt(at), and EnqueueIn(in) with at = CurrentTime() + in.
Enqueue(c, at) ==
  /\ UserCode
  /\ c \in alive
  /\ InTime(at)
  /\ outstanding_event_count_[c] < MaxPending
  /\ outstanding_event_count_' = [outstanding_event_count_ EXCEPT ![c] = @ + 1]
  /\ queue_' = [queue_ EXCEPT ![c][at] = @ + 1]
  /\ UNCHANGED <<real_time, time_, stop_time_, alive, mode, due>>

Stop ==
  /\ UserCode
  /\ stop_time_' = time_
  /\ UNCHANGED <<real_time, time_, queue_, outstanding_event_count_, alive, mode, due>>

\* The queue without the events of consumer c.
Without(c) == [queue_ EXCEPT ![c] = [t \in Times |-> 0]]

EvictConsumer(c) ==
  /\ UserCode
  /\ c \in alive
  /\ queue_' = Without(c)
  /\ UNCHANGED <<real_time, time_, stop_time_, outstanding_event_count_, alive, mode, due>>

\* Whether the destructor has events to evict.
SeveralOutstanding(c) == outstanding_event_count_[c] > 1
SomeOutstanding(c) == outstanding_event_count_[c] > 0

\* ~EventConsumer; not by the consumer's own handler.
Destroy(c) ==
  /\ UserCode
  /\ c \in alive
  /\ mode # c
  /\ alive' = alive \ {c}
  /\ queue_' = IF SomeOutstanding(c) THEN Without(c) ELSE queue_
  /\ UNCHANGED <<real_time, time_, stop_time_, outstanding_event_count_, mode, due>>

-----------------------------------------------------------------------------
(* Running the queue.                                                      *)

\* RunAndStopIn(delay) up to the loop: stop_time_ is set to the maximum and
\* StopIn lowers it.
RunAndStopIn(delay) ==
  /\ mode = "idle"
  /\ time_ + delay =< MaxTime
  /\ stop_time_' = time_ + delay
  /\ mode' = "loop"
  /\ UNCHANGED <<real_time, time_, queue_, outstanding_event_count_, alive, due>>

\* Run() of SimTimeEventQueue is public: the stop time stays what it was.
Run ==
  /\ mode = "idle"
  /\ ~real_time
  /\ mode' = "loop"
  /\ UNCHANGED <<real_time, time_, stop_time_, queue_, outstanding_event_count_, alive, due>>

\* The event NextEvent() returns: one with the smallest time.
SomeEvent(c, at) == queue_[c][at] > 0
NextEvent(c, at) ==
  /\ queue_[c][at] > 0
  /\ \A d \in Consumers, t \in Times : queue_[d][t] > 0 => at =< t

Empty == \A c \in Consumers, t \in Times : queue_[c][t] = 0

\* CurrentTime() after AdvanceTimeTo(at).
StandStill(at) == {time_}
AdvanceTimeTo(at) ==
  IF real_time THEN {t \in Times : t >= at /\ t >= time_} ELSE {at}

\* SimTimeEventQueue::Run moves the clock to the stop time at the end.
ClockAfterRun(now) == IF real_time THEN now ELSE stop_time_

\* PopEvent(), and HandleEventPublic() up to HandleEvent().
Popped(c, at) == [queue_ EXCEPT ![c][at] = @ - 1]

Counted(c) == [outstanding_event_count_ EXCEPT ![c] = @ - 1]

\* NextEvent() moves the clock, the event runs if that is before the stop time.
HandleEvent(c, at) ==
  /\ mode = "loop"
  /\ NextEvent(c, at)
  /\ time_' \in AdvanceTimeTo(at)
  /\ time_' < stop_time_
  /\ queue_' = Popped(c, at)
  /\ outstanding_event_count_' = Counted(c)
  /\ mode' = c
  /\ due' = at
  /\ UNCHANGED <<real_time, stop_time_, alive>>

\* The event is too late and stays in the queue, or there is none.
RunReturns ==
  /\ mode = "loop"
  /\ \/ /\ Empty
        /\ time_' = ClockAfterRun(time_)
     \/ \E c \in Consumers, at \in Times :
          /\ NextEvent(c, at)
          /\ \E now \in AdvanceTimeTo(at) :
               /\ now >= stop_time_
               /\ time_' = ClockAfterRun(now)
  /\ mode' = "idle"
  /\ UNCHANGED <<real_time, stop_time_, queue_, outstanding_event_count_, alive, due>>

HandlerReturns ==
  /\ mode \in Consumers
  /\ mode' = "loop"
  /\ UNCHANGED <<real_time, time_, stop_time_, queue_, outstanding_event_count_, alive, due>>

\* The clock of the machine.
Tick ==
  /\ real_time
  /\ time_ < MaxTime
  /\ time_' = time_ + 1
  /\ UNCHANGED <<real_time, stop_time_, queue_, outstanding_event_count_, alive, mode, due>>

Next ==
  \/ \E c \in Consumers, at \in Times : Enqueue(c, at) \/ HandleEvent(c, at)
  \/ Stop
  \/ \E c \in Consumers : Destroy(c) \/ EvictConsumer(c)
  \/ \E delay \in Delays : RunAndStopIn(delay)
  \/ Run
  \/ RunReturns
  \/ HandlerReturns
  \/ Tick

Spec == Init /\ [][Next]_vars

\* Run() goes on and handlers return.
FairSpec ==
  /\ Spec
  /\ WF_vars(\E c \in Consumers, at \in Times : HandleEvent(c, at))
  /\ WF_vars(RunReturns)
  /\ WF_vars(HandlerReturns)

-----------------------------------------------------------------------------
(* Properties                                                              *)

\* In simulated time nothing is left behind: after any sequence of runs, stops
\* and evictions no event in the queue is in the past, so when RunAndStopIn
\* returns all events before its end have been executed.
NothingInThePast ==
  ~real_time => \A c \in Consumers, t \in Times : queue_[c][t] > 0 => t >= time_

\* A handler runs when its event is due: in simulated time exactly then.
OnTime == mode \in Consumers => due =< time_ /\ (~real_time => due = time_)

\* The clock does not go back, also when Run() stops in front of an event the
\* clock was already moved to.
TimeMonotone == [][time_' >= time_]_vars

\* The number of events of consumer c in the queue.
Events(c) == MapThenSumSet(LAMBDA t : queue_[c][t], Times)

\* outstanding_event_count(): "Number of events in the event queue for this
\* consumer."  Not so after EvictConsumer.
OutstandingMatches == \A c \in alive : outstanding_event_count_[c] = Events(c)

\* The count the destructor of a consumer relies on is never too small, whatever
\* was evicted, and no event is left for a destroyed consumer.
NoUseAfterFree ==
  /\ \A c \in alive : outstanding_event_count_[c] >= Events(c)
  /\ \A c \in Consumers \ alive : Events(c) = 0

\* A step does not schedule an event for the moment a handler runs in.
SchedulesAhead ==
  mode \in Consumers =>
    \A c \in Consumers, at \in Times : queue_'[c][at] > queue_[c][at] => at > time_

\* Run() returns: time advances to the stop time, unless handlers keep scheduling
\* events for the very moment they run in.
RunEnds == <>[][SchedulesAhead]_vars => (mode = "loop" ~> mode = "idle")
=============================================================================
