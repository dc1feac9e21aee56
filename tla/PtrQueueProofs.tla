--------------------------- MODULE PtrQueueProofs ---------------------------
(***************************************************************************)
(* Proofs about PtrQueue, for every Size, every set of threads and items   *)
(* and every choice of timed threads.                                      *)
(***************************************************************************)
EXTENDS PtrQueue, TLAPS

USE PtrQueueAssumption

\* The arithmetic of kMask: an index moved by at most Size wraps at most once.
LEMMA Wrap ==
  ASSUME NEW a \in Slots, NEW b \in 0 .. Size
  PROVE  /\ (a + b) % Size = IF a + b < Size THEN a + b ELSE a + b - Size
         /\ (a + b) % Size \in Slots
<1>1. CASE a + b < Size
  BY <1>1 DEF Slots
<1>2. CASE ~(a + b < Size)
  <2>1. a + b - Size \in 0 .. Size - 1
    BY <1>2 DEF Slots
  <2>2. (a + b) % Size = a + b - Size
    BY <2>1 DEF Slots
  <2> QED BY <1>2, <2>1, <2>2 DEF Slots
<1> QED BY <1>1, <1>2

\* The same, for the slot at offset k from the consumer's end.
LEMMA SlotValue ==
  ASSUME TypeOK, NEW k \in 0 .. Size
  PROVE  /\ Slot(k) = IF consumer_ + k < Size THEN consumer_ + k ELSE consumer_ + k - Size
         /\ Slot(k) \in Slots
BY Wrap DEF TypeOK, Slot

\* ring, closed_, pc, arg and num_items_ keep their types in every step.
LEMMA TypeStep == TypeOK /\ [Next]_vars => TypeOK'
<1> SUFFICES ASSUME TypeOK, [Next]_vars PROVE TypeOK'
  OBVIOUS
<1> USE DEF TypeOK
<1>1. ASSUME NEW p \in Producers, NEW i \in Items \cup {NULL}, ProduceBody(p, i)
      PROVE  TypeOK'
  <2>1. 1 \in 0 .. Size
    OBVIOUS
  <2>2. (producer_ + 1) % Size \in Slots
    BY <2>1, Wrap
  <2>3. num_items_' \in 0 .. Size
    BY <1>1 DEF ProduceBody, Full, ring
  <2>4. producer_' \in Slots /\ consumer_' \in Slots
    BY <1>1, <2>2 DEF ProduceBody, ring
  <2>5. queue_' \in [Slots -> Items \cup {NULL}] /\ closed_' \in BOOLEAN
    BY <1>1 DEF ProduceBody, ring
  <2>6. /\ pc' \in [Threads -> {"idle", "sleep", "ready"}]
        /\ arg' \in [Producers -> Items \cup {NULL}]
    BY <1>1 DEF ProduceBody, Move, ReturnAndNotify, Woken
  <2> QED BY <2>3, <2>4, <2>5, <2>6
<1>2. ASSUME NEW c \in Consumers, ConsumeBody(c)
      PROVE  TypeOK'
  <2>1. ASSUME NEW k \in 0 .. Size PROVE (consumer_ + k) % Size \in Slots
    BY <2>1, SlotValue DEF Slot
  <2>2. CASE NoneValid /\ consumer_' = (consumer_ + num_items_) % Size /\ num_items_' = 0
             /\ (\/ closed_ /\ Move(c, "idle") /\ last' = <<c, NULL>>
                 \/ ~closed_ /\ Move(c, "sleep") /\ UNCHANGED last)
             /\ UNCHANGED <<queue_, producer_, closed_, arg>>
    BY <2>1, <2>2 DEF Move, Threads, Slots
  <2>3. ASSUME NEW k \in Slots, FirstValid(k),
               queue_' = [queue_ EXCEPT ![Slot(k)] = NULL],
               consumer_' = (consumer_ + k + 1) % Size,
               num_items_' = num_items_ - (k + 1),
               ReturnAndNotify(c), UNCHANGED <<producer_, closed_, arg>>
        PROVE  TypeOK'
    <3>1. k + 1 \in 0 .. Size /\ consumer_ + k + 1 = consumer_ + (k + 1)
      BY DEF Slots
    <3>2. consumer_' \in Slots
      BY <2>1, <2>3, <3>1
    <3>3. num_items_' \in 0 .. Size
      BY <2>3 DEF FirstValid, Slots
    <3>4. queue_' \in [Slots -> Items \cup {NULL}]
      BY <2>3
    <3>5. pc' \in [Threads -> {"idle", "sleep", "ready"}]
      BY <2>3 DEF ReturnAndNotify, Woken
    <3> QED BY <2>3, <3>2, <3>3, <3>4, <3>5
  <2> QED BY <1>2, <2>2, <2>3 DEF ConsumeBody
<1>3. ASSUME NEW p \in Producers, ProduceTimeout(p) PROVE TypeOK'
  BY <1>3 DEF ProduceTimeout, Move, ring, Threads
<1>4. ASSUME NEW c \in Consumers, ConsumeTimeout(c) PROVE TypeOK'
  BY <1>4 DEF ConsumeTimeout, Move, ring, Threads
<1>5. ASSUME NEW t \in Threads, SpuriousWakeup(t) PROVE TypeOK'
  BY <1>5 DEF SpuriousWakeup, Move, ring
<1>6. ASSUME NEW S \in SUBSET Items, Invalidate(S) PROVE TypeOK'
  BY <1>6 DEF Invalidate
<1>7. CASE Drain
  <2>1. (consumer_ + num_items_) % Size \in Slots
    BY SlotValue DEF Slot
  <2> QED BY <1>7, <2>1 DEF Drain, Slots
<1>8. CASE Close
  BY <1>8 DEF Close, NotifyAll, Woken, ring
<1>9. CASE UNCHANGED vars
  BY <1>9 DEF vars
<1> QED
  BY <1>1, <1>2, <1>3, <1>4, <1>5, <1>6, <1>7, <1>8, <1>9
  DEF Next, ProduceCall, ProduceResume, ConsumeCall, ConsumeResume

\* TypeOK holds of every behaviour: in particular num_items_ stays within the
\* buffer although it is tested and changed by calls that block in between.
THEOREM TypeCorrect == Spec => []TypeOK
<1>1. Init => TypeOK
  <2> SUFFICES ASSUME Init PROVE TypeOK
    OBVIOUS
  <2>1. 0 \in Slots /\ 0 \in 0 .. Size
    BY DEF Slots
  <2> QED BY <2>1 DEF Init, TypeOK
<1> QED BY <1>1, TypeStep, PTL DEF Spec

-----------------------------------------------------------------------------
(* The ring                                                                *)

IInv == TypeOK /\ RingConsistent

\* The stretch [consumer_, consumer_ + num_items_) moves with each method.
LEMMA RingStep == IInv /\ [Next]_vars => RingConsistent'
<1> SUFFICES ASSUME IInv, [Next]_vars PROVE RingConsistent'
  OBVIOUS
<1> USE DEF IInv
<1>0. TypeOK' /\ TypeOK /\ RingConsistent
  BY TypeStep
<1>1. ASSUME UNCHANGED ring PROVE RingConsistent'
  <2>1. /\ queue_' = queue_ /\ producer_' = producer_
        /\ consumer_' = consumer_ /\ num_items_' = num_items_
    BY <1>1 DEF ring
  <2> QED BY <1>0, <2>1 DEF RingConsistent, Slot
<1>2. ASSUME NEW i \in Items \cup {NULL}, ~Full,
             queue_' = [queue_ EXCEPT ![producer_] = i],
             producer_' = (producer_ + 1) % Size,
             num_items_' = num_items_ + 1,
             UNCHANGED consumer_
      PROVE  RingConsistent'
  <2>1. num_items_ \in Slots /\ num_items_ + 1 \in 0 .. Size /\ 1 \in 0 .. Size
    BY <1>0, <1>2 DEF TypeOK, Full, Slots
  <2>2. producer_ = Slot(num_items_)
    BY <1>0 DEF RingConsistent, Slot
  <2>3. producer_' = (consumer_' + num_items_')  % Size
    <3>1. producer_ = IF consumer_ + num_items_ < Size
                        THEN consumer_ + num_items_ ELSE consumer_ + num_items_ - Size
      BY <1>0, <2>2, SlotValue DEF TypeOK
    <3>2. (producer_ + 1) % Size = IF producer_ + 1 < Size
                                     THEN producer_ + 1 ELSE producer_ + 1 - Size
      BY <1>0, <2>1, Wrap DEF TypeOK
    <3>3. (consumer_ + (num_items_ + 1)) % Size
            = IF consumer_ + (num_items_ + 1) < Size
                THEN consumer_ + (num_items_ + 1) ELSE consumer_ + (num_items_ + 1) - Size
      BY <1>0, <2>1, Wrap DEF TypeOK
    <3>4. (producer_ + 1) % Size = (consumer_ + (num_items_ + 1)) % Size
      BY <1>0, <2>1, <3>1, <3>2, <3>3 DEF TypeOK, Slots
    <3> QED BY <1>2, <3>4
  <2>4. ASSUME NEW s \in Slots, queue_'[s] # NULL
        PROVE  \E k \in Slots : k < num_items_' /\ s = Slot(k)'
    <3>1. CASE s = producer_
      BY <1>0, <1>2, <2>1, <2>2, <3>1 DEF Slot, TypeOK, Slots
    <3>2. CASE s # producer_
      <4>1. queue_[s] # NULL
        BY <1>0, <1>2, <2>4, <3>2 DEF TypeOK
      <4>2. PICK k \in Slots : k < num_items_ /\ s = Slot(k)
        BY <1>0, <4>1 DEF RingConsistent
      <4>3. k < num_items_'
        BY <1>0, <1>2, <4>2 DEF TypeOK, Slots
      <4>4. s = Slot(k)'
        BY <1>2, <4>2 DEF Slot
      <4> QED BY <4>3, <4>4
    <3> QED BY <3>1, <3>2
  <2> QED BY <2>3, <2>4 DEF RingConsistent
\* A stretch of n slots is taken from the consumer's end.
<1>3. ASSUME NEW n \in 0 .. Size, n =< num_items_,
             consumer_' = (consumer_ + n) % Size,
             num_items_' = num_items_ - n,
             UNCHANGED producer_,
             \A s \in Slots : queue_'[s] # NULL =>
               /\ queue_[s] # NULL
               /\ \A k \in Slots : k < n => s # Slot(k)
      PROVE  RingConsistent'
  <2>1. consumer_' = IF consumer_ + n < Size THEN consumer_ + n ELSE consumer_ + n - Size
    BY <1>0, <1>3, Wrap DEF TypeOK
  <2>2. ASSUME NEW k \in 0 .. Size, n =< k
        PROVE  k - n \in 0 .. Size /\ (consumer_ + k) % Size = (consumer_' + (k - n)) % Size
    <3>1. k - n \in 0 .. Size
      BY <2>2
    <3>2. (consumer_ + k) % Size
            = IF consumer_ + k < Size THEN consumer_ + k ELSE consumer_ + k - Size
      BY <1>0, Wrap DEF TypeOK
    <3>3. (consumer_' + (k - n)) % Size
            = IF consumer_' + (k - n) < Size
                THEN consumer_' + (k - n) ELSE consumer_' + (k - n) - Size
      BY <1>0, <3>1, Wrap DEF TypeOK
    <3>4. consumer_ \in 0 .. Size - 1 /\ consumer_' \in 0 .. Size - 1
      BY <1>0 DEF TypeOK, Slots
    <3>5. CASE consumer_ + n < Size
      BY <2>1, <2>2, <3>1, <3>2, <3>3, <3>4, <3>5
    <3>6. CASE ~(consumer_ + n < Size)
      BY <2>1, <2>2, <3>1, <3>2, <3>3, <3>4, <3>6
    <3> QED BY <3>1, <3>5, <3>6
  <2>3. producer_' = (consumer_' + num_items_') % Size
    BY <1>0, <1>3, <2>2 DEF RingConsistent, TypeOK
  <2>4. ASSUME NEW s \in Slots, queue_'[s] # NULL
        PROVE  \E k \in Slots : k < num_items_' /\ s = Slot(k)'
    <3>1. PICK k \in Slots : k < num_items_ /\ s = Slot(k)
      BY <1>0, <1>3, <2>4 DEF RingConsistent
    <3>2. n =< k /\ k \in 0 .. Size
      BY <1>3, <2>4, <3>1 DEF Slots
    <3>3. s = (consumer_' + (k - n)) % Size
      BY <2>2, <3>1, <3>2 DEF Slot
    <3>4. k - n \in Slots /\ k - n < num_items_'
      BY <1>0, <1>3, <3>1, <3>2 DEF Slots, TypeOK
    <3> QED BY <3>3, <3>4 DEF Slot
  <2> QED BY <2>3, <2>4 DEF RingConsistent
<1>4. ASSUME NEW p \in Producers, NEW i \in Items \cup {NULL}, ProduceBody(p, i)
      PROVE  RingConsistent'
  BY <1>1, <1>2, <1>4 DEF ProduceBody
<1>5. ASSUME NEW c \in Consumers, ConsumeBody(c)
      PROVE  RingConsistent'
  <2>1. ASSUME NEW k \in Slots, FirstValid(k),
               queue_' = [queue_ EXCEPT ![Slot(k)] = NULL],
               consumer_' = (consumer_ + k + 1) % Size,
               num_items_' = num_items_ - (k + 1),
               UNCHANGED producer_
        PROVE  RingConsistent'
    <3>1. /\ k + 1 \in 0 .. Size
          /\ k + 1 =< num_items_
          /\ consumer_ + k + 1 = consumer_ + (k + 1)
      BY <1>0, <2>1 DEF FirstValid, Slots, TypeOK
    <3>2. ASSUME NEW s \in Slots, queue_'[s] # NULL
          PROVE  queue_[s] # NULL /\ \A j \in Slots : j < k + 1 => s # Slot(j)
      <4>1. queue_[s] # NULL /\ s # Slot(k)
        BY <1>0, <2>1, <3>2 DEF TypeOK
      <4>2. ASSUME NEW j \in Slots, j < k + 1, j # k PROVE s # Slot(j)
        BY <2>1, <4>1, <4>2 DEF FirstValid, Slots
      <4> QED BY <4>1, <4>2
    <3> QED BY <1>3, <2>1, <3>1, <3>2
  <2>2. ASSUME NoneValid, consumer_' = (consumer_ + num_items_) % Size,
               num_items_' = 0, UNCHANGED <<queue_, producer_>>
        PROVE  RingConsistent'
    <3>1. num_items_ \in 0 .. Size /\ num_items_' = num_items_ - num_items_
      BY <1>0, <2>2 DEF TypeOK
    <3> QED BY <1>3, <2>2, <3>1 DEF NoneValid
  <2> QED BY <1>5, <2>1, <2>2 DEF ConsumeBody
<1>6. ASSUME NEW S \in SUBSET Items, Invalidate(S) PROVE RingConsistent'
  <2>1. \A s \in Slots : queue_'[s] # NULL => queue_[s] # NULL
    BY <1>6 DEF Invalidate
  <2> QED BY <1>0, <1>6, <2>1 DEF Invalidate, RingConsistent, Slot
<1>7. CASE Drain
  <2>1. num_items_ \in 0 .. Size /\ num_items_' = num_items_ - num_items_
    BY <1>0, <1>7 DEF TypeOK, Drain
  <2>2. \A s \in Slots : queue_'[s] # NULL =>
          queue_[s] # NULL /\ \A k \in Slots : k < num_items_ => s # Slot(k)
    BY <1>7 DEF Drain
  <2> QED BY <1>3, <1>7, <2>1, <2>2 DEF Drain
<1>8. CASE \/ \E p \in Producers : ProduceTimeout(p)
           \/ \E c \in Consumers : ConsumeTimeout(c)
           \/ \E t \in Threads : SpuriousWakeup(t)
           \/ Close
           \/ UNCHANGED vars
  BY <1>1, <1>8 DEF ProduceTimeout, ConsumeTimeout, SpuriousWakeup, Close, vars, ring
<1> QED
  BY <1>0, <1>4, <1>5, <1>6, <1>7, <1>8
  DEF Next, ProduceCall, ProduceResume, ConsumeCall, ConsumeResume, TypeOK

\* Every behaviour keeps the ring consistent (see RingConsistent).
THEOREM RingIsConsistent == Spec => []RingConsistent
<1>1. Init => RingConsistent
  <2>1. 0 % Size = 0
    OBVIOUS
  <2> QED BY <2>1 DEF Init, RingConsistent, Slot
<1>2. IInv /\ [Next]_vars => IInv'
  BY TypeStep, RingStep DEF IInv
<1>3. Spec => []IInv
  <2>1. Init => IInv
    <3>1. 0 \in Slots /\ 0 \in 0 .. Size
      BY DEF Slots
    <3> QED BY <1>1, <3>1 DEF Init, TypeOK, IInv
  <2> QED BY <2>1, <1>2, PTL DEF Spec
<1>4. IInv => RingConsistent
  BY DEF IInv
<1> QED BY <1>3, <1>4, PTL

\* While the queue is not full the slot a producer is about to fill is empty:
\* by RingConsistent an item there would be one of the num_items_ queued ones.
LEMMA ProducerSlotEmpty == IInv /\ ~Full => queue_[producer_] = NULL
<1> SUFFICES ASSUME IInv, ~Full, queue_[producer_] # NULL PROVE FALSE
  OBVIOUS
<1>1. PICK k \in Slots : k < num_items_ /\ producer_ = Slot(k)
  BY DEF IInv, RingConsistent, TypeOK
<1>2. k \in 0 .. Size /\ num_items_ \in 0 .. Size
  BY <1>1 DEF IInv, TypeOK, Slots
<1>3. Slot(num_items_) = Slot(k)
  BY <1>1 DEF IInv, RingConsistent, Slot
<1>4. /\ Slot(k) = IF consumer_ + k < Size THEN consumer_ + k ELSE consumer_ + k - Size
      /\ Slot(num_items_) = IF consumer_ + num_items_ < Size
                              THEN consumer_ + num_items_ ELSE consumer_ + num_items_ - Size
  BY <1>2, SlotValue DEF IInv
<1> QED BY <1>1, <1>2, <1>3, <1>4 DEF Full, Slots, IInv, TypeOK

\* No step replaces a queued item by another one (see NoOverwrite).
THEOREM NothingOverwritten == Spec => NoOverwrite
<1> DEFINE Step == \A s \in Slots :
                     queue_'[s] # queue_[s] => NULL \in {queue_[s], queue_'[s]}
<1>1. ASSUME IInv, [Next]_vars PROVE Step
  <2>1. TypeOK
    BY <1>1 DEF IInv
  <2>2. ASSUME NEW p \in Producers, NEW i \in Items \cup {NULL}, ProduceBody(p, i)
        PROVE  Step
    BY <1>1, <2>1, <2>2, ProducerSlotEmpty DEF ProduceBody, ring, TypeOK
  <2>3. ASSUME NEW c \in Consumers, ConsumeBody(c) PROVE Step
    BY <2>1, <2>3 DEF ConsumeBody, TypeOK
  <2>4. ASSUME NEW S \in SUBSET Items, Invalidate(S) PROVE Step
    BY <2>4 DEF Invalidate
  <2>5. CASE Drain
    BY <2>5 DEF Drain
  <2>6. CASE \/ \E p \in Producers : ProduceTimeout(p)
             \/ \E c \in Consumers : ConsumeTimeout(c)
             \/ \E t \in Threads : SpuriousWakeup(t)
             \/ Close
             \/ UNCHANGED vars
    BY <2>6 DEF ProduceTimeout, ConsumeTimeout, SpuriousWakeup, Close, vars, ring
  <2> QED
    BY <1>1, <2>1, <2>2, <2>3, <2>4, <2>5, <2>6
    DEF Next, ProduceCall, ProduceResume, ConsumeCall, ConsumeResume, TypeOK
<1>2. Spec => []IInv
  BY TypeCorrect, RingIsConsistent, PTL DEF IInv
<1>3. IInv /\ [Next]_vars => [Step]_vars
  BY <1>1
<1> QED BY <1>2, <1>3, PTL DEF Spec, NoOverwrite

-----------------------------------------------------------------------------
(* Wakeups                                                                 *)

\* No blocked consumer misses an item or the close (see the property), even
\* with invalidation, drains, timeouts and spurious wakeups.
THEOREM ConsumersAreWoken == Spec => []NoConsumerMissesWakeup
<1> DEFINE Inv == TypeOK /\ NoConsumerMissesWakeup
<1>1. Init => NoConsumerMissesWakeup
  BY DEF Init, NoConsumerMissesWakeup, Threads
<1>2. ASSUME Inv, [Next]_vars PROVE NoConsumerMissesWakeup'
  <2> USE DEF NoConsumerMissesWakeup
  <2>0. /\ TypeOK
        /\ pc \in [Threads -> {"idle", "sleep", "ready"}]
        /\ \A u \in Threads : u \in Producers \/ u \in Consumers
    BY <1>2 DEF TypeOK, Threads
  <2>1. ASSUME NEW p \in Producers, NEW i \in Items \cup {NULL}, ProduceBody(p, i)
        PROVE  NoConsumerMissesWakeup'
    <3>1. CASE UNCHANGED <<ring, closed_>> /\ \E x \in {"idle", "sleep"} : Move(p, x)
      BY <1>2, <2>0, <3>1 DEF Move, ring, Threads
    <3>2. CASE ReturnAndNotify(p)
      BY <2>0, <3>2 DEF ReturnAndNotify, Woken, Threads
    <3> QED BY <2>1, <3>1, <3>2 DEF ProduceBody
  <2>2. ASSUME NEW c \in Consumers, ConsumeBody(c)
        PROVE  NoConsumerMissesWakeup'
    <3>1. CASE ReturnAndNotify(c)
      BY <2>0, <3>1 DEF ReturnAndNotify, Woken, Threads
    <3>2. CASE /\ num_items_' = 0
               /\ \/ closed_ /\ Move(c, "idle")
                  \/ ~closed_ /\ Move(c, "sleep")
               /\ UNCHANGED closed_
      BY <1>2, <2>0, <3>2 DEF Move, Threads
    <3> QED BY <2>2, <3>1, <3>2 DEF ConsumeBody
  <2>3. ASSUME NEW p \in Producers, ProduceTimeout(p) PROVE NoConsumerMissesWakeup'
    BY <1>2, <2>0, <2>3 DEF ProduceTimeout, Move, ring, Threads
  <2>4. ASSUME NEW c \in Consumers, ConsumeTimeout(c) PROVE NoConsumerMissesWakeup'
    BY <1>2, <2>0, <2>4 DEF ConsumeTimeout, Move, ring, Threads
  <2>5. ASSUME NEW t \in Threads, SpuriousWakeup(t) PROVE NoConsumerMissesWakeup'
    BY <1>2, <2>0, <2>5 DEF SpuriousWakeup, Move, ring, Threads
  <2>6. CASE Close
    BY <2>0, <2>6 DEF Close, NotifyAll, Woken, Threads
  <2>7. CASE Drain \/ (\E S \in SUBSET Items : Invalidate(S)) \/ UNCHANGED vars
    BY <1>2, <2>7 DEF Drain, Invalidate, vars
  <2> QED
    BY <1>2, <2>0, <2>1, <2>2, <2>3, <2>4, <2>5, <2>6, <2>7
    DEF Next, ProduceCall, ProduceResume, ConsumeCall, ConsumeResume, TypeOK
<1>3. Spec => []TypeOK
  BY TypeCorrect
<1> QED BY <1>1, <1>2, <1>3, PTL DEF Spec

\* Without Invalidate a queued slot is never empty, because a call only ever
\* carries an item, so that no consumer empties the queue without notifying.
NoHoles ==
  /\ \A k \in Slots : k < num_items_ => queue_[Slot(k)] # NULL
  /\ \A p \in Producers : pc[p] # "idle" => arg[p] \in Items

PInv == IInv /\ NoHoles /\ NoProducerMissesWakeup

\* Each step keeps the queued slots full and the blocked producers informed.
LEMMA ProducerStep ==
  ~AllowInvalidate /\ ~AllowDrain /\ PInv /\ [Next]_vars => PInv'
<1> SUFFICES ASSUME ~AllowInvalidate, ~AllowDrain, PInv, [Next]_vars PROVE PInv'
  OBVIOUS
<1>0. /\ IInv' /\ TypeOK /\ RingConsistent /\ NoHoles /\ NoProducerMissesWakeup
      /\ pc \in [Threads -> {"idle", "sleep", "ready"}]
      /\ arg \in [Producers -> Items \cup {NULL}]
  BY TypeStep, RingStep DEF PInv, IInv, TypeOK
<1> USE DEF NoProducerMissesWakeup
<1>1. ASSUME UNCHANGED ring, UNCHANGED closed_,
             \A p \in Producers : pc'[p] = "sleep" => pc[p] = "sleep",
             \A p \in Producers : pc'[p] # "idle" => pc[p] # "idle" /\ arg'[p] = arg[p]
      PROVE  PInv'
  <2>1. /\ queue_' = queue_ /\ consumer_' = consumer_ /\ num_items_' = num_items_
    BY <1>1 DEF ring
  <2> QED BY <1>0, <1>1, <2>1 DEF NoHoles, Slot, PInv
<1>2. ASSUME NEW p \in Producers, NEW i \in Items, ProduceBody(p, i)
      PROVE  PInv'
  <2>1. CASE closed_ /\ Move(p, "idle") /\ arg' = [arg EXCEPT ![p] = NULL]
             /\ UNCHANGED <<ring, closed_>>
    BY <1>0, <1>1, <2>1 DEF Move, Threads
  <2>2. CASE ~closed_ /\ Full /\ Move(p, "sleep") /\ arg' = [arg EXCEPT ![p] = i]
             /\ UNCHANGED <<ring, closed_>>
    <3>1. /\ queue_' = queue_ /\ consumer_' = consumer_ /\ num_items_' = num_items_
      BY <2>2 DEF ring
    <3>2. NoHoles'
      BY <1>0, <2>2, <3>1 DEF NoHoles, Slot, Move, Threads
    <3> QED BY <1>0, <2>2, <3>1, <3>2 DEF PInv, Move, Threads, Full
  <2>3. CASE /\ queue_' = [queue_ EXCEPT ![producer_] = i]
             /\ num_items_' = num_items_ + 1
             /\ ~Full
             /\ ReturnAndNotify(p)
             /\ arg' = [arg EXCEPT ![p] = NULL]
             /\ UNCHANGED consumer_
    <3>1. ASSUME NEW k \in Slots, k < num_items_' PROVE queue_'[Slot(k)'] # NULL
      <4>1. Slot(k) \in Slots /\ Slot(k)' = Slot(k)
        BY <1>0, <2>3, SlotValue DEF Slot, Slots
      <4>2. CASE Slot(k) = producer_
        BY <1>0, <2>3, <4>1, <4>2 DEF TypeOK
      <4>3. CASE Slot(k) # producer_
        <5>1. queue_'[Slot(k)'] = queue_[Slot(k)]
          BY <1>0, <2>3, <4>1, <4>3 DEF TypeOK
        <5>2. CASE k < num_items_
          BY <1>0, <5>1, <5>2 DEF NoHoles
        <5>3. CASE ~(k < num_items_)
          <6>1. k = num_items_
            BY <1>0, <2>3, <3>1, <5>3 DEF TypeOK, Slots
          <6> QED BY <1>0, <4>3, <6>1 DEF RingConsistent, Slot
        <5> QED BY <5>2, <5>3
      <4> QED BY <4>2, <4>3
    <3>2. \A q \in Producers : pc'[q] # "idle" => arg'[q] \in Items
      BY <1>0, <2>3 DEF ReturnAndNotify, Woken, NoHoles, Threads
    <3>3. \A q \in Producers : pc'[q] # "sleep"
      BY <1>0, <2>3 DEF ReturnAndNotify, Woken, Threads
    <3> QED BY <1>0, <3>1, <3>2, <3>3 DEF PInv, NoHoles
  <2> QED BY <1>2, <2>1, <2>2, <2>3 DEF ProduceBody
<1>3. ASSUME NEW c \in Consumers, ConsumeBody(c)
      PROVE  PInv'
  <2>1. ASSUME NEW k \in Slots, FirstValid(k),
               queue_' = [queue_ EXCEPT ![Slot(k)] = NULL],
               consumer_' = (consumer_ + k + 1) % Size,
               num_items_' = num_items_ - (k + 1),
               ReturnAndNotify(c), UNCHANGED arg
        PROVE  PInv'
    <3>1. k = 0 /\ num_items_ \in 1 .. Size /\ 0 \in Slots /\ 1 \in 0 .. Size
      BY <1>0, <2>1 DEF FirstValid, NoHoles, Slots, TypeOK
    <3>2. consumer_' = Slot(1) /\ num_items_' = num_items_ - 1
      BY <1>0, <2>1, <3>1 DEF Slot, TypeOK, Slots
    <3>3. ASSUME NEW j \in Slots, j < num_items_' PROVE queue_'[Slot(j)'] # NULL
      <4>1. j + 1 \in Slots /\ j + 1 < num_items_ /\ j + 1 \in 0 .. Size /\ j \in 0 .. Size
        BY <3>1, <3>2, <3>3 DEF Slots
      <4>2. Slot(j + 1) = IF consumer_ + (j + 1) < Size
                            THEN consumer_ + (j + 1) ELSE consumer_ + (j + 1) - Size
        BY <1>0, <4>1, SlotValue
      <4>3. consumer_' = IF consumer_ + 1 < Size THEN consumer_ + 1 ELSE consumer_ + 1 - Size
        BY <1>0, <3>1, <3>2, SlotValue
      <4>4. consumer_ \in 0 .. Size - 1 /\ consumer_' \in Slots /\ Slot(0) = consumer_
        BY <1>0, <3>1, SlotValue DEF TypeOK, Slots, IInv
      <4>5. (consumer_' + j) % Size
              = IF consumer_' + j < Size THEN consumer_' + j ELSE consumer_' + j - Size
        BY <4>1, <4>4, Wrap
      <4>6. Slot(j)' = Slot(j + 1)
        BY <4>1, <4>2, <4>3, <4>4, <4>5 DEF Slot, Slots
      <4>7. Slot(j + 1) # Slot(0) /\ Slot(j + 1) \in Slots
        BY <1>0, <3>1, <4>1, <4>2, <4>4, SlotValue DEF Slots
      <4>8. queue_'[Slot(j + 1)] = queue_[Slot(j + 1)]
        BY <1>0, <2>1, <3>1, <4>7 DEF TypeOK
      <4> QED BY <1>0, <4>1, <4>6, <4>8 DEF NoHoles
    <3>4. \A q \in Producers : pc'[q] # "idle" => arg'[q] \in Items
      BY <1>0, <2>1 DEF ReturnAndNotify, Woken, NoHoles, Threads
    <3>5. \A q \in Producers : pc'[q] # "sleep"
      BY <1>0, <2>1 DEF ReturnAndNotify, Woken, Threads
    <3> QED BY <1>0, <3>3, <3>4, <3>5 DEF PInv, NoHoles
  <2>2. ASSUME NoneValid, num_items_' = 0, UNCHANGED <<closed_, arg>>,
               Move(c, "idle") \/ Move(c, "sleep")
        PROVE  PInv'
    <3>1. num_items_ = 0
      <4>1. 0 \in Slots
        BY DEF Slots
      <4> QED BY <1>0, <2>2, <4>1 DEF NoneValid, NoHoles, TypeOK
    <3>2. \A q \in Producers : pc'[q] = pc[q]
      BY <1>0, <2>2 DEF Move, Threads
    <3>3. \A k \in Slots : ~(k < num_items_')
      BY <2>2 DEF Slots
    <3> QED BY <1>0, <2>2, <3>1, <3>2, <3>3 DEF PInv, NoHoles
  <2> QED BY <1>3, <2>1, <2>2 DEF ConsumeBody
<1>4. ASSUME NEW p \in Producers, ProduceTimeout(p) PROVE PInv'
  BY <1>0, <1>1, <1>4 DEF ProduceTimeout, Move, Threads
<1>5. ASSUME NEW c \in Consumers, ConsumeTimeout(c) PROVE PInv'
  BY <1>0, <1>1, <1>5 DEF ConsumeTimeout, Move, Threads
<1>6. ASSUME NEW t \in Threads, SpuriousWakeup(t) PROVE PInv'
  BY <1>0, <1>1, <1>6 DEF SpuriousWakeup, Move, Threads
<1>7. CASE Close
  <2>1. /\ queue_' = queue_ /\ consumer_' = consumer_ /\ num_items_' = num_items_
    BY <1>7 DEF Close, ring
  <2>2. /\ \A q \in Producers : pc'[q] # "sleep"
        /\ \A q \in Producers : pc'[q] # "idle" => pc[q] # "idle"
    BY <1>0, <1>7 DEF Close, NotifyAll, Woken, Threads
  <2> QED BY <1>0, <1>7, <2>1, <2>2 DEF Close, PInv, NoHoles, Slot
<1>8. CASE UNCHANGED vars
  BY <1>1, <1>8 DEF vars, ring
<1>9. ASSUME NEW p \in Producers, ProduceResume(p) PROVE PInv'
  <2>1. arg[p] \in Items
    BY <1>0, <1>9 DEF ProduceResume, Resumes, NoHoles
  <2> QED BY <1>2, <1>9, <2>1 DEF ProduceResume
<1> QED
  BY <1>2, <1>3, <1>4, <1>5, <1>6, <1>7, <1>8, <1>9
  DEF Next, ProduceCall, ConsumeCall, ConsumeResume

\* No blocked producer misses a free slot or the close, as long as nobody
\* calls Invalidate or Drain, neither of which notifies.
THEOREM ProducersAreWoken ==
  ~AllowInvalidate /\ ~AllowDrain => (Spec => []NoProducerMissesWakeup)
<1> SUFFICES ASSUME ~AllowInvalidate, ~AllowDrain PROVE Spec => []NoProducerMissesWakeup
  OBVIOUS
<1>1. Init => NoHoles /\ NoProducerMissesWakeup
  BY DEF Init, NoHoles, NoProducerMissesWakeup, Threads, Slots
<1>2. Spec => []IInv
  BY TypeCorrect, RingIsConsistent, PTL DEF IInv
<1>3. PInv /\ [Next]_vars => PInv'
  BY ProducerStep
<1>4. PInv => NoProducerMissesWakeup
  BY DEF PInv
<1>5. IInv /\ NoHoles /\ NoProducerMissesWakeup => PInv
  BY DEF PInv
<1> QED BY <1>1, <1>2, <1>3, <1>4, <1>5, PTL DEF Spec
=============================================================================
