-------------------------------- MODULE Link --------------------------------
(***************************************************************************)
(* A link of the simulated network (htsim/queue.h, htsim/queue.cc): a      *)
(* FIFOQueue or RandomQueue that drains at a rate into a Pipe of constant  *)
(* delay.  Both are consumers of one SimTimeEventQueue, whose executed     *)
(* step NextEvent/HandleEvent (module EventQueue) is reduced to: the clock *)
(* jumps to the earliest of the pending events.  Each of the two schedules *)
(* an event only for the packet at its front.                              *)
(*                                                                         *)
(* A definition with no comment of its own right above another one is that *)
(* definition with a plausible bug; the specification does not use it.     *)
(***************************************************************************)
EXTENDS Integers, Sequences, SequencesExt

CONSTANTS
  PacketSizes,       \* in bytes
  max_size_bytes_,
  drop_threshold_bytes_,
  delay_,            \* of the pipe
  TimesPerByte,      \* time_per_bit_ * 8 at each of the rates; 0 above 1 Tbps
  MaxPackets,        \* bound on the packets that arrive
  Horizon            \* bound on the time up to which other events move the clock

ASSUME LinkAssumption ==
  /\ PacketSizes \subseteq Nat \ {0}
  /\ max_size_bytes_ \in Nat
  /\ drop_threshold_bytes_ \in Nat
  /\ drop_threshold_bytes_ < max_size_bytes_
  /\ delay_ \in Nat
  /\ TimesPerByte \subseteq Nat
  /\ MaxPackets \in Nat
  /\ Horizon \in Nat

VARIABLES
  random,            \* which queue this is: RandomQueue or FIFOQueue
  time_,             \* the event queue's clock
  pending,           \* per consumer: the times of its events in the event queue
  queue_,            \* FIFOQueue::queue_, packets <<number, size>>
  queue_size_bytes,
  time_per_byte,
  pipe_,             \* Pipe::queue_, <<exit time, packet>>
  bytes_in_flight,
  arrived,           \* number of packets that arrived at the queue
  accepted,          \* the ones it accepted, in the order of arrival
  delivered          \* the packets handed to the other end

vars == <<random, time_, pending, queue_, queue_size_bytes, time_per_byte, pipe_,
          bytes_in_flight, arrived, accepted, delivered>>

Consumers == {"queue", "pipe"}

Init ==
  /\ random \in BOOLEAN
  /\ time_ = 0
  /\ pending = [c \in Consumers |-> <<>>]
  /\ queue_ = <<>>
  /\ queue_size_bytes = 0
  /\ time_per_byte \in TimesPerByte
  /\ pipe_ = <<>>
  /\ bytes_in_flight = 0
  /\ arrived = 0
  /\ accepted = <<>>
  /\ delivered = <<>>

-----------------------------------------------------------------------------
(* FIFOQueue::HandlePacket                                                 *)

\* What the queue may answer to a packet of the given size.  RandomQueue drops
\* with a probability that rises from 0 at the threshold to 1 at the maximum.
ShouldDrop(size) ==
  LET crt == queue_size_bytes + size IN
  IF crt > max_size_bytes_ THEN {TRUE}
  ELSE IF ~random \/ crt =< drop_threshold_bytes_ THEN {FALSE}
  ELSE IF crt = max_size_bytes_ THEN {TRUE}
  ELSE {TRUE, FALSE}

\* The deque after pkt was pushed.
PushedFront(pkt) == <<pkt>> \o queue_
Pushed(pkt) == Append(queue_, pkt)

PacketDrainTime(pkt) == time_per_byte * pkt[2]

\* The queue starts to drain when a packet finds it empty.
StartsAlways == TRUE
WasEmpty == queue_ = <<>>

Drop ==
  /\ arrived' = arrived + 1
  /\ UNCHANGED <<random, time_, pending, queue_, queue_size_bytes, time_per_byte, pipe_,
                 bytes_in_flight, accepted, delivered>>

Accept(pkt) ==
  /\ arrived' = arrived + 1
  /\ accepted' = Append(accepted, pkt)
  /\ queue_' = Pushed(pkt)
  /\ queue_size_bytes' = queue_size_bytes + pkt[2]
  /\ pending' = IF WasEmpty
                  THEN [pending EXCEPT !["queue"] =
                          Append(@, time_ + PacketDrainTime(Head(queue_')))]
                  ELSE pending
  /\ UNCHANGED <<random, time_, time_per_byte, pipe_, bytes_in_flight, delivered>>

HandlePacket(size) ==
  /\ arrived < MaxPackets
  /\ \/ TRUE \in ShouldDrop(size) /\ Drop
     \/ FALSE \in ShouldDrop(size) /\ Accept(<<arrived + 1, size>>)

SetRate(t) ==
  /\ t # time_per_byte
  /\ arrived < MaxPackets
  /\ time_per_byte' = t
  /\ UNCHANGED <<random, time_, pending, queue_, queue_size_bytes, pipe_, bytes_in_flight,
                 arrived, accepted, delivered>>

-----------------------------------------------------------------------------
(* The event queue and the two HandleEvent methods.                        *)

\* Consumer c has an event at time t and no event is earlier.
NextEvent(c, t) ==
  /\ Contains(pending[c], t)
  /\ \A d \in Consumers : \A i \in DOMAIN pending[d] : t =< pending[d][i]

\* queue_size_bytes once the front packet is gone.
MinusBack == queue_size_bytes - Last(queue_)[2]
MinusFront == queue_size_bytes - Head(queue_)[2]

Popped(c, t) == RemoveFirst(pending[c], t)

\* FIFOQueue::HandleEvent: the front packet moves to the pipe (Pipe::HandlePacket),
\* after the next one has started to drain.
StopsDraining(rest, now) == <<>>
Draining(rest, now) ==
  IF rest = <<>> THEN <<>> ELSE <<now + PacketDrainTime(Head(rest))>>

QueueHandleEvent(now) ==
  /\ NextEvent("queue", now)
  /\ time_' = now
  /\ queue_' = Tail(queue_)
  /\ queue_size_bytes' = MinusFront
  /\ pipe_' = Append(pipe_, <<now + delay_, Head(queue_)>>)
  /\ bytes_in_flight' = bytes_in_flight + Head(queue_)[2]
  /\ pending' = [c \in Consumers |->
       IF c = "queue" THEN Popped(c, now) \o Draining(Tail(queue_), now)
       ELSE IF pipe_ = <<>> THEN Append(pending[c], now + delay_)
       ELSE pending[c]]
  /\ UNCHANGED <<random, time_per_byte, arrived, accepted, delivered>>

\* When the pipe's next event is scheduled for.
NextFromNow(rest, now) == IF rest = <<>> THEN <<>> ELSE <<now + delay_>>
NextExit(rest, now) == IF rest = <<>> THEN <<>> ELSE <<Head(rest)[1]>>

\* Pipe::HandleEvent: the front packet goes to the other end.
PipeHandleEvent(now) ==
  /\ NextEvent("pipe", now)
  /\ time_' = now
  /\ pipe_' = Tail(pipe_)
  /\ bytes_in_flight' = bytes_in_flight - Head(pipe_)[2][2]
  /\ delivered' = Append(delivered, Head(pipe_)[2])
  /\ pending' = [pending EXCEPT !["pipe"] = Popped("pipe", now) \o NextExit(Tail(pipe_), now)]
  /\ UNCHANGED <<random, queue_, queue_size_bytes, time_per_byte, arrived, accepted>>

\* Other events of the simulation happen before the link's next one.
Elapse ==
  /\ time_ < Horizon
  /\ \A c \in Consumers : \A i \in DOMAIN pending[c] : time_ < pending[c][i]
  /\ time_' = time_ + 1
  /\ UNCHANGED <<random, pending, queue_, queue_size_bytes, time_per_byte, pipe_,
                 bytes_in_flight, arrived, accepted, delivered>>

LinkEvent ==
  \/ \E i \in DOMAIN pending["queue"] : QueueHandleEvent(pending["queue"][i])
  \/ \E i \in DOMAIN pending["pipe"] : PipeHandleEvent(pending["pipe"][i])

Next ==
  \/ \E size \in PacketSizes : HandlePacket(size)
  \/ \E t \in TimesPerByte : SetRate(t)
  \/ LinkEvent
  \/ Elapse

Spec == Init /\ [][Next]_vars

\* The event queue executes the events in it.
FairSpec == Spec /\ WF_vars(LinkEvent)

-----------------------------------------------------------------------------
(* Properties                                                              *)

\* The packets in the pipe, and the bytes of a sequence of packets.
InPipe == [i \in DOMAIN pipe_ |-> pipe_[i][2]]
Bytes(pkts) == FoldSeq(LAMBDA p, sum : p[2] + sum, 0, pkts)

\* An accepted packet is neither lost, nor duplicated, nor overtaken: what was
\* accepted is what was delivered, followed by what is in the pipe and in the
\* queue.
FIFO == accepted = delivered \o InPipe \o queue_

\* The two byte counters that the handlers update packet by packet agree with
\* the packets that are there, and the packets that ShouldDrop let in, deciding
\* by one of them, fit into max_size_bytes_.
BytesCounted ==
  /\ queue_size_bytes = Bytes(queue_) /\ bytes_in_flight = Bytes(InPipe)
  /\ Bytes(queue_) =< max_size_bytes_

\* Each of the two has exactly one event in the event queue while it holds
\* packets and none otherwise: no HandleEvent finds an empty deque and no
\* packet waits for an event that was never scheduled.
OneEventEach ==
  /\ Len(pending["queue"]) = IF queue_ = <<>> THEN 0 ELSE 1
  /\ Len(pending["pipe"]) = IF pipe_ = <<>> THEN 0 ELSE 1

\* "A pipe adds some constant delay to all incoming packets": the packet at the
\* front leaves at its own exit time, not at that of the packet before it.
PipeDelayExact ==
  [][Len(pipe_') < Len(pipe_) => time_' = Head(pipe_)[1]]_vars

\* An accepted packet is delivered.
Delivery == \A n \in 1 .. MaxPackets : Len(accepted) >= n ~> Len(delivered) >= n
=============================================================================
