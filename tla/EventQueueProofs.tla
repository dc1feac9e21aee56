-------------------------- MODULE EventQueueProofs --------------------------
(***************************************************************************)
(* Simulated time: events are handled exactly when they are due and the    *)
(* clock does not go back, for every set of consumers and every horizon.   *)
(***************************************************************************)
EXTENDS EventQueue, TLAPS

USE EventQueueAssumption

\* The part of the types that the clock depends on.
ClockTypes ==
  /\ time_ \in Times
  /\ stop_time_ \in Times
  /\ queue_ \in [Consumers -> [Times -> Int]]
  /\ due \in Times

\* In simulated time the stop time is never behind the clock.
IInv ==
  /\ ClockTypes
  /\ OnTime
  /\ NothingInThePast
  /\ ~real_time => time_ =< stop_time_

\* The initial state satisfies the inductive invariant.
LEMMA InitIInv == Init => IInv
<1> SUFFICES ASSUME Init PROVE IInv
  OBVIOUS
<1>1. ClockTypes
  BY DEF Init, ClockTypes, Times
<1>2. OnTime
  BY DEF Init, OnTime
<1>3. NothingInThePast
  BY DEF Init, NothingInThePast, Times
<1>4. time_ =< stop_time_
  BY DEF Init
<1> QED BY <1>1, <1>2, <1>3, <1>4 DEF IInv

\* A handled event was the earliest one, so the clock moves forward to it and
\* leaves nothing behind.
LEMMA HandleStep ==
  ASSUME IInv, NEW c \in Consumers, NEW at \in Times, HandleEvent(c, at)
  PROVE  IInv' /\ time_' >= time_
<1>0. ClockTypes /\ OnTime /\ NothingInThePast
  BY DEF IInv
<1>1. time_' \in Times /\ at =< time_' /\ time_' >= time_ /\ (~real_time => time_' = at)
  <2>1. CASE real_time
    BY <1>0, <2>1 DEF HandleEvent, AdvanceTimeTo, Times, ClockTypes
  <2>2. CASE ~real_time
    <3>1. time_' = at /\ at >= time_
      BY <1>0, <2>2 DEF HandleEvent, AdvanceTimeTo, NothingInThePast, NextEvent
    <3> QED BY <1>0, <3>1 DEF Times, ClockTypes
  <2> QED BY <2>1, <2>2
<1>2. /\ queue_' \in [Consumers -> [Times -> Int]]
      /\ \A d \in Consumers, t \in Times : queue_'[d][t] > 0 => queue_[d][t] > 0
  BY <1>0 DEF HandleEvent, Popped, ClockTypes
<1>3. ClockTypes'
  BY <1>0, <1>1, <1>2 DEF HandleEvent, ClockTypes
<1>4. OnTime'
  BY <1>1 DEF HandleEvent, OnTime
<1>5. NothingInThePast'
  BY <1>1, <1>2 DEF HandleEvent, NothingInThePast, NextEvent
<1>6. ~real_time' => time_' =< stop_time_'
  BY <1>0, <1>1 DEF HandleEvent, ClockTypes, Times
<1> QED BY <1>1, <1>3, <1>4, <1>5, <1>6 DEF IInv

\* Run() returns with the clock at the stop time and no event before it.
LEMMA ReturnStep ==
  ASSUME IInv, RunReturns
  PROVE  IInv' /\ time_' >= time_
<1>0. ClockTypes /\ NothingInThePast /\ (~real_time => time_ =< stop_time_)
  BY DEF IInv
<1>1. UNCHANGED <<real_time, stop_time_, queue_, due>> /\ mode' = "idle"
  BY DEF RunReturns
<1>2. CASE real_time
  <2>1. time_' \in Times /\ time_' >= time_
    BY <1>0, <1>2 DEF RunReturns, ClockAfterRun, AdvanceTimeTo, ClockTypes, Times
  <2> QED BY <1>0, <1>1, <1>2, <2>1 DEF IInv, ClockTypes, OnTime, NothingInThePast
<1>3. CASE ~real_time
  <2>1. time_' = stop_time_
    BY <1>3 DEF RunReturns, ClockAfterRun
  <2>2. \A d \in Consumers, t \in Times : queue_[d][t] > 0 => t >= stop_time_
    <3>1. CASE Empty
      BY <3>1 DEF Empty
    <3>2. ASSUME NEW c \in Consumers, NEW at \in Times, NextEvent(c, at), at >= stop_time_
          PROVE  \A d \in Consumers, t \in Times : queue_[d][t] > 0 => t >= stop_time_
      BY <1>0, <3>2 DEF NextEvent, Times, ClockTypes
    <3> QED BY <1>3, <3>1, <3>2 DEF RunReturns, AdvanceTimeTo
  <2>3. time_' >= time_ /\ time_' =< stop_time_'
    BY <1>0, <1>1, <1>3, <2>1 DEF ClockTypes, Times
  <2>4. NothingInThePast' /\ OnTime'
    BY <1>1, <2>1, <2>2 DEF NothingInThePast, OnTime
  <2>5. ClockTypes'
    BY <1>0, <1>1, <2>1 DEF ClockTypes
  <2> QED BY <2>3, <2>4, <2>5 DEF IInv
<1> QED BY <1>2, <1>3

\* Every step preserves the inductive invariant and moves the clock forward.
LEMMA NextIInv == IInv /\ [Next]_vars => IInv' /\ time_' >= time_
<1> SUFFICES ASSUME IInv, [Next]_vars PROVE IInv' /\ time_' >= time_
  OBVIOUS
<1>0. ClockTypes /\ OnTime /\ NothingInThePast /\ (~real_time => time_ =< stop_time_)
  BY DEF IInv
\* The events stay, or some are removed, and the clock stays.
<1>1. ASSUME UNCHANGED <<real_time, time_, due>>,
             mode' = mode \/ mode' \notin Consumers,
             stop_time_' \in Times, time_ =< stop_time_' \/ stop_time_' = stop_time_,
             queue_' \in [Consumers -> [Times -> Int]],
             \A d \in Consumers, t \in Times : queue_'[d][t] > 0 => queue_[d][t] > 0
      PROVE  IInv' /\ time_' >= time_
  <2>1. ClockTypes' /\ time_' >= time_
    BY <1>0, <1>1 DEF ClockTypes, Times
  <2>2. OnTime' /\ NothingInThePast'
    BY <1>0, <1>1 DEF OnTime, NothingInThePast
  <2> QED BY <1>0, <1>1, <2>1, <2>2 DEF IInv
<1>2. ASSUME NEW c \in Consumers, NEW at \in Times, Enqueue(c, at)
      PROVE  IInv' /\ time_' >= time_
  <2>1. ClockTypes' /\ time_' >= time_
    BY <1>0, <1>2 DEF Enqueue, ClockTypes, Times
  <2>2. \A d \in Consumers, t \in Times :
          queue_'[d][t] > 0 => queue_[d][t] > 0 \/ t = at
    BY <1>0, <1>2 DEF Enqueue, ClockTypes
  <2>3. ~real_time => at >= time_
    BY <1>0, <1>2 DEF Enqueue, InTime, ClockTypes, Times
  <2>4. OnTime' /\ NothingInThePast'
    BY <1>0, <1>2, <2>2, <2>3 DEF Enqueue, OnTime, NothingInThePast
  <2> QED BY <1>0, <1>2, <2>1, <2>4 DEF IInv, Enqueue
<1>3. CASE Stop
  BY <1>0, <1>1, <1>3 DEF Stop, ClockTypes, Times
<1>4. ASSUME NEW c \in Consumers, Destroy(c) \/ EvictConsumer(c)
      PROVE  IInv' /\ time_' >= time_
  <2>1. /\ Without(c) \in [Consumers -> [Times -> Int]]
        /\ \A d \in Consumers, t \in Times : Without(c)[d][t] > 0 => queue_[d][t] > 0
    BY <1>0 DEF Without, ClockTypes
  <2>2. queue_' = queue_ \/ queue_' = Without(c)
    BY <1>4 DEF Destroy, EvictConsumer
  <2>3. UNCHANGED <<real_time, time_, stop_time_, mode, due>>
    BY <1>4 DEF Destroy, EvictConsumer
  <2> QED BY <1>0, <1>1, <2>1, <2>2, <2>3 DEF ClockTypes
<1>5. ASSUME NEW delay \in Delays, RunAndStopIn(delay)
      PROVE  IInv' /\ time_' >= time_
  <2>1. stop_time_' \in Times /\ time_ =< stop_time_'
    BY <1>0, <1>5 DEF RunAndStopIn, ClockTypes, Times
  <2> QED BY <1>0, <1>1, <1>5, <2>1 DEF RunAndStopIn, ClockTypes
<1>6. CASE Run \/ HandlerReturns
  BY <1>0, <1>1, <1>6 DEF Run, HandlerReturns, ClockTypes
<1>7. CASE Tick
  <2>1. ClockTypes' /\ time_' >= time_
    BY <1>0, <1>7 DEF Tick, ClockTypes, Times
  <2>2. OnTime'
    BY <1>0, <1>7 DEF Tick, OnTime, ClockTypes, Times
  <2> QED BY <1>0, <1>7, <2>1, <2>2 DEF Tick, IInv, NothingInThePast
<1>8. CASE UNCHANGED vars
  BY <1>0, <1>1, <1>8 DEF vars, ClockTypes
<1> QED
  BY <1>2, <1>3, <1>4, <1>5, <1>6, <1>7, <1>8, HandleStep, ReturnStep DEF Next

\* The inductive invariant holds of every behaviour.
THEOREM Invariance == Spec => []IInv
<1>1. IInv /\ [Next]_vars => IInv'
  BY NextIInv
<1> QED BY <1>1, InitIInv, PTL DEF Spec

\* Handlers run when their events are due (see OnTime).
THEOREM HandledOnTime == Spec => []OnTime
<1>1. IInv => OnTime
  BY DEF IInv
<1> QED BY <1>1, Invariance, PTL

\* No run leaves an event behind (see NothingInThePast).
THEOREM NothingLeftBehind == Spec => []NothingInThePast
<1>1. IInv => NothingInThePast
  BY DEF IInv
<1> QED BY <1>1, Invariance, PTL

\* The clock never goes back (see TimeMonotone).
THEOREM ClockMonotone == Spec => TimeMonotone
<1>1. IInv /\ [Next]_vars => [time_' >= time_]_vars
  BY NextIInv
<1> QED BY <1>1, Invariance, PTL DEF Spec, TimeMonotone
=============================================================================
