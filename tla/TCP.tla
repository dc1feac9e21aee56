--------------------------------- MODULE TCP ---------------------------------
(***************************************************************************)
(* A TCPSource and a TCPSink of htsim/tcp.cc, the retransmission timer     *)
(* that scans the source, and the flow driver that feeds it                *)
(* (htsim/flow_driver.cc), joined by two FIFO channels that lose packets   *)
(* (the queues and pipes of module Link).                                  *)
(*                                                                         *)
(* Every handler is one step, because the event queue runs one at a time.  *)
(* Simulated time is abstracted to order: delays and the estimated RTO are *)
(* arbitrary, so the timer may expire before or after an answer arrives.   *)
(* Of the time a packet was sent the source only asks whether it is before *)
(* the first packet of the current flow; close_count_, which numbers the   *)
(* flows, stands for it, so two events at the same instant are taken to be *)
(* in different instants.                                                  *)
(***************************************************************************)
EXTENDS Integers, Sequences, FiniteSets, FiniteSetsExt

CONSTANTS
  mss,            \* mss_, bytes
  maxcwnd,        \* maxcwnd_, bytes
  initial_cwnd,   \* initial_cwnd_size_, packets
  Width,          \* 2^32 in the code: cwnd_, ssthresh_ and flightsize are uint32_t
  ObjectSizes,    \* the sizes a driver asks the source to send
  MaxAdds,        \* bound: calls of AddData by the driver
  MaxCloses,      \* bound: calls of Close by the driver
  MaxLosses,      \* bound: packets and ACKs lost
  MaxInFlight     \* bound: the timer does not expire with more packets in flight

ASSUME TCPAssumption ==
  /\ mss \in Nat \ {0} /\ maxcwnd \in Nat /\ initial_cwnd \in Nat \ {0}
  /\ Width \in Nat /\ maxcwnd + mss < Width /\ initial_cwnd * mss < Width
  /\ ObjectSizes \subseteq Nat
  /\ MaxAdds \in Nat /\ MaxCloses \in Nat /\ MaxLosses \in Nat /\ MaxInFlight \in Nat

VARIABLES
  src,       \* the TCPSource
  sink,      \* the TCPSink
  data,      \* packets on their way to the sink
  acks,      \* ACKs on their way to the source
  driver,    \* the FeedbackLoopFlowDriver or the FlowPack that calls AddData
  losses,    \* packets and ACKs lost so far
  sinkflow,  \* history: the flow of the last packet the sink received
  confused   \* history: the sink was reset in the middle of a flow, or was not
             \* reset at the beginning of one

vars == <<src, sink, data, acks, driver, losses, sinkflow, confused>>
-----------------------------------------------------------------------------
(* The source. Its methods are functions of its state; "out" collects the   *)
(* packets a handler sends and "fired" tells that it called                 *)
(* on_send_buffer_drained_.                                                 *)

\* The largest uint32_t, "infinity" for ssthresh_.
NoThreshold == Width - 1

Half(n) == n \div 2

\* RetransmitPacket always sends a full segment.
Segment(s) == [seqno |-> s.last_acked + 1, size |-> mss, flow |-> s.close_count]

RetransmitPacket(s) == [s EXCEPT !.out = Append(@, Segment(s))]

Close(s) ==
  [s EXCEPT !.highest_seqno_sent = 0, !.highest_seqno_sent_real = 0, !.cwnd = 0,
            !.last_acked = 0, !.dupacks = 0, !.ssthresh = NoThreshold,
            !.recoverq = 0, !.in_fast_recovery = FALSE, !.send_buffer = 0,
            !.close_count = @ + 1]

\* How many segments the window admits, and how many the buffer fills.
Room(s) ==
  Max({0, (s.last_acked + s.cwnd - s.highest_seqno_sent) \div mss})

Segments(s) == (s.send_buffer + mss - 1) \div mss

\* The loop of SendPackets: full segments, and a shorter one at the end.
Transmit(s) ==
  LET k == Min({Room(s), Segments(s)})
      tx == Min({s.send_buffer, k * mss})
      packet(i) == [seqno |-> s.highest_seqno_sent + 1 + (i - 1) * mss,
                    size |-> Min({mss, s.send_buffer - (i - 1) * mss}),
                    flow |-> s.close_count]
  IN  [s EXCEPT !.send_buffer = @ - tx, !.highest_seqno_sent = @ + tx,
                !.highest_seqno_sent_real = @ + tx,
                !.out = @ \o [i \in 1 .. k |-> packet(i)]]

\* AddData restarts the flow when less than a segment is waiting to be sent;
\* a simulated handshake goes first, as a flow of one byte. SendPackets has
\* something to send here and is its loop alone.
Restarts(s) == s.send_buffer < mss

AddData(s, bytes) ==
  LET t == IF Restarts(s) THEN Close(s) ELSE s
      fresh == t.cwnd = 0
      u == IF fresh THEN [t EXCEPT !.cwnd = initial_cwnd * mss] ELSE t
      shakes == fresh /\ t.handshake /\ t.pending_add = 0
      v == IF shakes THEN [u EXCEPT !.pending_add = bytes, !.send_buffer = @ + 1]
                     ELSE [u EXCEPT !.send_buffer = @ + bytes]
  IN  Transmit(v)

\* The callback is called once: it is removed after the call.
CallBack(s) == [s EXCEPT !.fired = TRUE, !.callback = FALSE]

\* Variant with a bug: the end of the handshake is reported as the end of the transfer.
HandshakeReported(s) == IF s.callback THEN CallBack(s) ELSE s

DataTransferred(s) ==
  CASE s.handshake /\ s.pending_add # 0 ->
         [AddData(s, s.pending_add) EXCEPT !.pending_add = 0]
    [] ~(s.handshake /\ s.pending_add # 0) /\ s.callback -> CallBack(s)
    [] OTHER -> s

AllAcked(s) == s.last_acked >= s.highest_seqno_sent_real

SendPackets(s) ==
  IF AllAcked(s) /\ s.send_buffer = 0 THEN DataTransferred(s) ELSE Transmit(s)

\* Slow start below the threshold, additive increase above it.
InflateWindow(s) ==
  LET room == Min({s.last_acked + s.cwnd - s.highest_seqno_sent, mss})
      slow == Min({maxcwnd, s.cwnd + Min({s.ssthresh - s.cwnd, room})})
      fast == s.cwnd + Max({1, (room * mss) \div s.cwnd})
  IN  IF room < 0 THEN s
      ELSE [s EXCEPT !.cwnd = IF s.cwnd < s.ssthresh THEN slow ELSE fast % Width]

\* flightsize + mss_ in 32 bits: what has been acknowledged may be more than
\* what has been sent since the last timeout.
FlightAndOne(s, seqno) == (s.highest_seqno_sent - seqno + mss) % Width

Threshold(s) == Max({Half(s.cwnd), 2 * mss})

\* A brand new ACK, outside fast recovery, at its end and inside it.
NewAck(s, seqno) ==
  LET t == [s EXCEPT !.last_acked = seqno, !.dupacks = 0]
      rest == IF seqno - s.last_acked < s.cwnd THEN s.cwnd - (seqno - s.last_acked) ELSE 0
  IN  CASE ~s.in_fast_recovery -> SendPackets(InflateWindow(t))
        [] s.in_fast_recovery /\ seqno >= s.recoverq ->
             SendPackets([t EXCEPT !.cwnd = Min({s.ssthresh, FlightAndOne(s, seqno)}),
                                   !.in_fast_recovery = FALSE])
        [] OTHER ->
             SendPackets(RetransmitPacket([s EXCEPT !.last_acked = seqno,
                                                    !.cwnd = rest + mss]))

\* A duplicate ACK; the third one starts fast recovery, unless the flow has
\* not recovered from its last timeout.
DupAck(s) ==
  LET t == [s EXCEPT !.dupacks = @ + 1]
      r == RetransmitPacket([t EXCEPT !.ssthresh = Threshold(s)])
  IN  CASE s.in_fast_recovery -> SendPackets([s EXCEPT !.cwnd = Min({@ + mss, maxcwnd})])
        [] ~s.in_fast_recovery /\ t.dupacks # 3 -> SendPackets(t)
        [] ~s.in_fast_recovery /\ t.dupacks = 3 /\ s.last_acked < s.recoverq -> t
        [] OTHER -> [r EXCEPT !.cwnd = Threshold(s) + 3 * mss, !.in_fast_recovery = TRUE,
                              !.recoverq = s.highest_seqno_sent]


Stale(s, ack) == ack.flow < s.close_count

ReceiveAck(s, ack) ==
  CASE Stale(s, ack) -> s
    [] ~Stale(s, ack) /\ ack.seqno > s.last_acked -> NewAck(s, ack.seqno)
    [] OTHER -> DupAck(s)


TimedOutSilently(s) ==
  [s EXCEPT !.ssthresh = Threshold(s), !.cwnd = mss, !.in_fast_recovery = FALSE,
            !.recoverq = s.highest_seqno_sent,
            !.highest_seqno_sent = s.last_acked + mss, !.dupacks = 0]

\* The retransmission timeout: back to one segment.
TimedOut(s) ==
  LET cwnd == IF s.in_fast_recovery THEN Min({s.ssthresh, FlightAndOne(s, s.last_acked)})
                                    ELSE s.cwnd
  IN  RetransmitPacket(
        [s EXCEPT !.ssthresh = Threshold([s EXCEPT !.cwnd = cwnd]), !.cwnd = mss,
                  !.in_fast_recovery = FALSE, !.recoverq = s.highest_seqno_sent,
                  !.highest_seqno_sent = s.last_acked + mss, !.dupacks = 0])
-----------------------------------------------------------------------------
(* The sink. received_ is strictly ascending, hence a set; its front is the   *)
(* least element.                                                           *)

Reset == [cumulative_ack |-> 0, received |-> {}]


\* The front of received_ is taken as long as it is the next number expected;
\* every packet taken counts as large as the one that has just arrived.
Absorb(k, size) ==
  LET run(n) == {k.cumulative_ack + 1 + i * size : i \in 0 .. n - 1}
      upTo(n) == {r \in k.received : r <= k.cumulative_ack + 1 + (n - 1) * size}
      n == Max({m \in 0 .. Cardinality(k.received) :
                  \A j \in 1 .. m : upTo(j) = run(j)})
  IN  [cumulative_ack |-> k.cumulative_ack + n * size, received |-> k.received \ run(n)]

Receive(k, p) ==
  CASE p.seqno = k.cumulative_ack + 1 ->
         Absorb([k EXCEPT !.cumulative_ack = p.seqno + p.size - 1], p.size)
    [] p.seqno <= k.cumulative_ack -> k
    [] OTHER -> [k EXCEPT !.received = @ \cup {p.seqno}]

\* Number 1 is taken for the first packet of a flow.
BeginsFlow(p) == p.seqno = 1
-----------------------------------------------------------------------------
(* The system.                                                              *)

Kinds == {"feedback", "open", "pack"}

\* The sizes an ObjectSizeAndWaitTimeGenerator chooses from. For a feedback
\* loop an empty object is a wait.
Generated(kind) == IF kind = "feedback" THEN ObjectSizes ELSE ObjectSizes \ {0}

\* A TCPSource is constructed closed; FeedbackLoopFlowDriver and
\* OpenLoopFlowDriver schedule their first event in the constructor.
Init ==
  /\ \E shake \in BOOLEAN :
       src = [highest_seqno_sent |-> 0, highest_seqno_sent_real |-> 0, cwnd |-> 0,
              last_acked |-> 0, dupacks |-> 0, ssthresh |-> NoThreshold, recoverq |-> 0,
              in_fast_recovery |-> FALSE, send_buffer |-> 0, close_count |-> 1,
              handshake |-> shake, pending_add |-> 0, callback |-> FALSE,
              out |-> <<>>, fired |-> FALSE]
  /\ \E k \in Kinds : \E size \in Generated(k) :
       driver = [kind |-> k, events |-> 1, data_to_add |-> size, adds |-> 0, closes |-> 0]
  /\ sink = Reset
  /\ data = <<>> /\ acks = <<>>
  /\ losses = 0 /\ sinkflow = 0 /\ confused = FALSE

\* ScheduleNext: the generator chooses the next object.
ScheduleNext(d) ==
  {[d EXCEPT !.events = @ + 1, !.data_to_add = size] : size \in Generated(d.kind)}

\* The source is in state t after a handler, the driver in state d before the
\* callback, which schedules the next event of a FeedbackLoopFlowDriver.
Becomes(state, d) ==
  \E t \in {state} :
    /\ src' = [t EXCEPT !.out = <<>>, !.fired = FALSE]
    /\ data' = data \o t.out
    /\ IF t.fired /\ d.kind = "feedback" THEN driver' \in ScheduleNext(d) ELSE driver' = d

NetUnchanged == UNCHANGED <<sink, acks, losses, sinkflow, confused>>

WithCallback(s) == [s EXCEPT !.callback = TRUE]

\* FeedbackLoopFlowDriver::HandleEvent
FeedbackLoopHandleEvent ==
  LET d == [driver EXCEPT !.events = @ - 1]
  IN  /\ driver.kind = "feedback" /\ driver.events > 0 /\ driver.adds < MaxAdds
      /\ IF driver.data_to_add = 0
           THEN /\ driver' \in ScheduleNext(d)
                /\ UNCHANGED <<src, data>>
           ELSE Becomes(AddData(WithCallback(src), driver.data_to_add),
                        [d EXCEPT !.adds = @ + 1])
      /\ NetUnchanged

\* OpenLoopFlowDriver::HandleEvent does not wait for the callback.
OpenLoopHandleEvent ==
  /\ driver.kind = "open" /\ driver.adds < MaxAdds
  /\ LET t == AddData(WithCallback(src), driver.data_to_add)
     IN  /\ src' = [t EXCEPT !.out = <<>>]
         /\ data' = data \o t.out
  /\ driver' \in ScheduleNext([driver EXCEPT !.events = @ - 1, !.adds = @ + 1])
  /\ NetUnchanged

\* FlowPack::HandleEvent: the events of an IndependentFlowDriver add data or
\* close the connection, whatever it is doing.
FlowPackHandleEvent ==
  /\ driver.kind = "pack"
  /\ \/ \E size \in ObjectSizes \ {0} :
          /\ driver.adds < MaxAdds
          /\ Becomes(AddData(src, size), [driver EXCEPT !.adds = @ + 1])
     \/ /\ driver.closes < MaxCloses
        /\ Becomes(Close(src), [driver EXCEPT !.closes = @ + 1])
  /\ NetUnchanged

\* TCPRtxTimer::HandleEvent scans the source: it reports a finished transfer,
\* or retransmits if the RTO has passed.
RtxTimerFinds ==
  /\ src.highest_seqno_sent # 0
  /\ AllAcked(src)
  /\ Becomes(DataTransferred(src), driver)
  /\ NetUnchanged

RtxTimerExpires ==
  /\ src.highest_seqno_sent # 0
  /\ ~AllAcked(src)
  /\ Len(data) + Len(acks) < MaxInFlight
  /\ Becomes(TimedOut(src), driver)
  /\ NetUnchanged

\* TCPSource::ReceivePacket
SourceReceives ==
  /\ acks # <<>>
  /\ acks' = Tail(acks)
  /\ Becomes(ReceiveAck(src, Head(acks)), driver)
  /\ UNCHANGED <<sink, losses, sinkflow, confused>>

\* TCPSink::ReceivePacket acknowledges every packet. The ACK carries the time
\* the packet was sent.
SinkReceives ==
  /\ data # <<>>
  /\ LET p == Head(data)
         k == Receive(IF BeginsFlow(p) THEN Reset ELSE sink, p)
     IN  /\ sink' = k
         /\ acks' = Append(acks, [seqno |-> k.cumulative_ack, flow |-> p.flow])
         /\ sinkflow' = p.flow
         /\ confused' = (confused \/ (BeginsFlow(p) # (p.flow # sinkflow)))
  /\ data' = Tail(data)
  /\ UNCHANGED <<src, driver, losses>>

\* A queue on the way drops a packet or an ACK.
Lose ==
  /\ losses < MaxLosses
  /\ losses' = losses + 1
  /\ \/ data # <<>> /\ data' = Tail(data) /\ UNCHANGED acks
     \/ acks # <<>> /\ acks' = Tail(acks) /\ UNCHANGED data
  /\ UNCHANGED <<src, sink, driver, sinkflow, confused>>

Next ==
  \/ FeedbackLoopHandleEvent \/ OpenLoopHandleEvent \/ FlowPackHandleEvent
  \/ RtxTimerFinds \/ RtxTimerExpires
  \/ SourceReceives \/ SinkReceives \/ Lose

Spec == Init /\ [][Next]_vars

\* The event queue runs every event: a packet on its way arrives, or is one of
\* the lost ones, and the timer scans the source for ever.
PacketLeaves == data # <<>> /\ data' = Tail(data)
AckLeaves == acks # <<>> /\ acks' = Tail(acks)

FairSpec ==
  /\ Spec
  /\ WF_data(PacketLeaves) /\ WF_acks(AckLeaves) /\ WF_vars(RtxTimerExpires)
-----------------------------------------------------------------------------
(* Properties.                                                              *)




\* A FeedbackLoopFlowDriver adds data only to a source that has nothing
\* unsent, nothing unacknowledged and nothing waiting for the handshake, which
\* AddData's call of Close would otherwise throw away or overtake.
NoDataDiscarded ==
  [][driver.kind = "feedback" /\ driver'.adds # driver.adds
       => AllAcked(src) /\ src.send_buffer = 0 /\ src.pending_add = 0]_vars

Busy == ~AllAcked(src) \/ src.send_buffer > 0

Unfinished == IF driver.kind = "feedback" THEN driver.events = 0 ELSE Busy

\* Every transfer ends: with finitely many losses the source gets everything
\* acknowledged, and a FeedbackLoopFlowDriver is called back, as long as the
\* sink is reset at the first packet of each flow and never in between.
Completes == [](~confused) => (Unfinished ~> ~Unfinished)

\* A FeedbackLoopFlowDriver that waits for the buffer to drain adds more data
\* later (comment at flow_driver.h:227). It does not always: see README.
DriverContinues ==
  (driver.kind = "feedback" /\ driver.events = 0) ~> driver.events > 0
=============================================================================
