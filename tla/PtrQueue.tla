------------------------------ MODULE PtrQueue ------------------------------
(***************************************************************************)
(* nc::PtrQueue (ptr_queue.h): a bounded blocking queue of pointers shared *)
(* by producer and consumer threads.  Every method body runs under mu_, so *)
(* a critical section is one step; a call that blocks in wait_for leaves   *)
(* its critical section and re-enters it when it is woken.                 *)
(*                                                                         *)
(* pc[t] is where thread t stands with respect to the queue:               *)
(*   "idle"   outside of any call;                                         *)
(*   "sleep"  blocked in condition_.wait_for, not notified;                *)
(*   "ready"  notified, about to retake mu_ and re-evaluate the predicate. *)
(*                                                                         *)
(* A definition with no comment of its own right above another one is that *)
(* definition with a plausible bug; the specification does not use it.     *)
(***************************************************************************)
EXTENDS Integers, Sequences

CONSTANTS
  Producers,        \* threads that call ProduceOrBlock[WithTimeout]
  Consumers,        \* threads that call ConsumeOrBlock[WithTimeout]
  Timed,            \* the threads that use the WithTimeout variant
  Items,            \* what the queued pointers point to
  NULL,             \* the empty unique_ptr
  Size,             \* template parameter Size
  AllowInvalidate,  \* whether some thread calls Invalidate
  AllowDrain        \* whether some thread calls Drain

Threads == Producers \cup Consumers

\* The class forces Size to be a power of two; masking with kMask is then the
\* remainder modulo Size, which is all that the proofs need.
ASSUME PtrQueueAssumption ==
  /\ Size \in Nat \ {0}
  /\ NULL \notin Items
  /\ Producers \cap Consumers = {}
  /\ Timed \subseteq Threads
  /\ AllowInvalidate \in BOOLEAN
  /\ AllowDrain \in BOOLEAN

VARIABLES
  queue_,      \* the circular buffer
  producer_,   \* index of the next slot to produce into
  consumer_,   \* index of the next slot to consume from
  num_items_,  \* number of occupied slots, invalidated ones included
  closed_,     \* no more items can be produced
  pc,          \* where every thread stands
  arg,         \* the item a producer's current call carries
  last         \* the last return: <<thread or method, value>>

ring == <<queue_, producer_, consumer_, num_items_>>
vars == <<queue_, producer_, consumer_, num_items_, closed_, pc, arg, last>>

Slots == 0 .. Size - 1

Init ==
  /\ queue_ = [s \in Slots |-> NULL]
  /\ producer_ = 0
  /\ consumer_ = 0
  /\ num_items_ = 0
  /\ closed_ = FALSE
  /\ pc = [t \in Threads |-> "idle"]
  /\ arg = [p \in Producers |-> NULL]
  /\ last = <<NULL, NULL>>

\* Offset k from the consumer's end of the buffer, as a slot index.
Slot(k) == (consumer_ + k) % Size

\* Thread t moves to state s and nobody else is touched.
Move(t, s) == pc' = [pc EXCEPT ![t] = s]

\* condition_.notify_all(): every waiting thread competes for mu_ again.
WokenNobody(t) == pc[t]
Woken(t) == IF pc[t] = "sleep" THEN "ready" ELSE pc[t]

NotifyAllForgotten == UNCHANGED pc
NotifyAll == pc' = [t \in Threads |-> Woken(t)]

\* Thread t returns to its caller after a notify_all.
ReturnAndNotify(t) ==
  pc' = [u \in Threads |-> IF u = t THEN "idle" ELSE Woken(u)]

-----------------------------------------------------------------------------
(* ProduceOrBlockWithTimeout                                               *)

FullOffByOne == num_items_ = Size + 1
Full == num_items_ = Size

\* The predicate of the producer's wait_for.
CanProduce == closed_ \/ num_items_ < Size

\* A thread is inside the critical section of its call: it has been notified,
\* or its deadline passed and wait_for found the predicate true after all.
Resumes(t, pred) == pc[t] = "ready" \/ (pc[t] = "sleep" /\ t \in Timed /\ pred)

\* The stored item, or the early return, or the wait: what happens under mu_
\* from line 45 to line 67 for a call of producer p that carries item i.
ProduceBody(p, i) ==
  \/ /\ closed_
     /\ Move(p, "idle")
     /\ arg' = [arg EXCEPT ![p] = NULL]
     /\ last' = <<p, "refused">>
     /\ UNCHANGED <<ring, closed_>>
  \/ /\ ~closed_
     /\ Full
     /\ Move(p, "sleep")
     /\ arg' = [arg EXCEPT ![p] = i]
     /\ UNCHANGED <<ring, closed_, last>>
  \/ /\ ~closed_
     /\ ~Full
     /\ queue_' = [queue_ EXCEPT ![producer_] = i]
     /\ producer_' = (producer_ + 1) % Size
     /\ num_items_' = num_items_ + 1
     /\ ReturnAndNotify(p)
     /\ arg' = [arg EXCEPT ![p] = NULL]
     /\ last' = <<p, "produced">>
     /\ UNCHANGED <<consumer_, closed_>>

ProduceCall(p, i) == pc[p] = "idle" /\ ProduceBody(p, i)

ProduceResume(p) == Resumes(p, CanProduce) /\ ProduceBody(p, arg[p])

\* wait_for returned false: the item is freed and false is returned.
ProduceTimeout(p) ==
  /\ pc[p] = "sleep"
  /\ p \in Timed
  /\ ~CanProduce
  /\ Move(p, "idle")
  /\ arg' = [arg EXCEPT ![p] = NULL]
  /\ last' = <<p, "timeout">>
  /\ UNCHANGED <<ring, closed_>>

-----------------------------------------------------------------------------
(* ConsumeOrBlockWithTimeout                                               *)

\* The predicate of the consumer's wait_for.
CanConsume == closed_ \/ num_items_ > 0

\* The loop of line 87 skips the slots that were invalidated; k is the offset
\* of the first slot that still holds an item.
AnyValid(k) == k < num_items_ /\ queue_[Slot(k)] # NULL
FirstValid(k) ==
  /\ k < num_items_
  /\ queue_[Slot(k)] # NULL
  /\ \A j \in Slots : j < k => queue_[Slot(j)] = NULL

NoneValid == \A k \in Slots : k < num_items_ => queue_[Slot(k)] = NULL

ConsumeBody(c) ==
  \/ \E k \in Slots :
       /\ FirstValid(k)
       /\ queue_' = [queue_ EXCEPT ![Slot(k)] = NULL]
       /\ consumer_' = (consumer_ + k + 1) % Size
       /\ num_items_' = num_items_ - (k + 1)
       /\ ReturnAndNotify(c)
       /\ last' = <<c, queue_[Slot(k)]>>
       /\ UNCHANGED <<producer_, closed_, arg>>
  \/ /\ NoneValid
     /\ consumer_' = (consumer_ + num_items_) % Size
     /\ num_items_' = 0
     /\ \/ closed_ /\ Move(c, "idle") /\ last' = <<c, NULL>>
        \/ ~closed_ /\ Move(c, "sleep") /\ UNCHANGED last
     /\ UNCHANGED <<queue_, producer_, closed_, arg>>

ConsumeCall(c) == pc[c] = "idle" /\ ConsumeBody(c)

ConsumeResume(c) == Resumes(c, CanConsume) /\ ConsumeBody(c)

ConsumeTimeout(c) ==
  /\ pc[c] = "sleep"
  /\ c \in Timed
  /\ ~CanConsume
  /\ Move(c, "idle")
  /\ last' = <<c, "timeout">>
  /\ UNCHANGED <<ring, closed_, arg>>

-----------------------------------------------------------------------------
(* The remaining methods, callable by any thread at any time.              *)

\* The callback holds for the items of S.
InvalidateAndShrink(S) ==
  /\ queue_' = [s \in Slots |-> IF queue_[s] \in S THEN NULL ELSE queue_[s]]
  /\ num_items_' = IF \E s \in Slots : queue_[s] \in S THEN num_items_ - 1 ELSE num_items_
  /\ UNCHANGED <<producer_, consumer_, closed_, pc, arg, last>>
Invalidate(S) ==
  /\ queue_' = [s \in Slots |-> IF queue_[s] \in S THEN NULL ELSE queue_[s]]
  /\ UNCHANGED <<producer_, consumer_, num_items_, closed_, pc, arg, last>>

Close ==
  /\ closed_' = TRUE
  /\ NotifyAll
  /\ UNCHANGED <<ring, arg, last>>

\* All slots are moved out, the ones that were invalidated included.
Drain ==
  /\ queue_' = [s \in Slots |->
                 IF \E k \in Slots : k < num_items_ /\ s = Slot(k)
                   THEN NULL ELSE queue_[s]]
  /\ consumer_' = (consumer_ + num_items_) % Size
  /\ num_items_' = 0
  /\ last' = <<"Drain", [k \in 1 .. num_items_ |-> queue_[Slot(k - 1)]]>>
  /\ UNCHANGED <<producer_, closed_, pc, arg>>

\* std::condition_variable may wake a waiting thread for no reason.
SpuriousWakeup(t) ==
  /\ pc[t] = "sleep"
  /\ Move(t, "ready")
  /\ UNCHANGED <<ring, closed_, arg, last>>

Next ==
  \/ \E p \in Producers :
       \/ \E i \in Items : ProduceCall(p, i)
       \/ ProduceResume(p)
       \/ ProduceTimeout(p)
  \/ \E c \in Consumers :
       \/ ConsumeCall(c)
       \/ ConsumeResume(c)
       \/ ConsumeTimeout(c)
  \/ \E t \in Threads : SpuriousWakeup(t)
  \/ AllowInvalidate /\ \E S \in SUBSET Items : Invalidate(S)
  \/ AllowDrain /\ Drain
  \/ Close

Spec == Init /\ [][Next]_vars

\* The operating system schedules every notified thread again.
SchedulerFairness ==
  /\ \A p \in Producers : WF_vars(pc[p] = "ready" /\ ProduceResume(p))
  /\ \A c \in Consumers : WF_vars(pc[c] = "ready" /\ ConsumeResume(c))

\* The clients of the queue keep calling it, as BulkPacketGenerator's populator
\* thread and event handler do.
ClientFairness ==
  /\ \A p \in Producers : WF_vars(\E i \in Items : ProduceCall(p, i))
  /\ \A c \in Consumers : WF_vars(ConsumeCall(c))

FairSpec == Spec /\ SchedulerFairness /\ ClientFairness

-----------------------------------------------------------------------------
(* Properties                                                              *)

\* Types; ProduceOrBlock never counts more than Size items.
TypeOK ==
  /\ queue_ \in [Slots -> Items \cup {NULL}]
  /\ producer_ \in Slots
  /\ consumer_ \in Slots
  /\ num_items_ \in 0 .. Size
  /\ closed_ \in BOOLEAN
  /\ pc \in [Threads -> {"idle", "sleep", "ready"}]
  /\ arg \in [Producers -> Items \cup {NULL}]

\* The two indices and the counter that the methods update separately agree,
\* and a slot outside of the occupied stretch of the buffer holds no pointer:
\* whatever mix of produce, consume, invalidate and drain came before.
RingConsistent ==
  /\ producer_ = (consumer_ + num_items_) % Size
  /\ \A s \in Slots :
       queue_[s] # NULL => \E k \in Slots : k < num_items_ /\ s = Slot(k)

\* Storing the new item (line 62) never destroys one that is still queued:
\* a slot only changes from an item to empty, or from empty to an item.
NoOverwrite ==
  [][\A s \in Slots : queue_'[s] # queue_[s] => NULL \in {queue_[s], queue_'[s]}]_vars

\* A consumer that is blocked and was not notified has nothing to wait for:
\* no item is queued and the queue is open.  No produce or close is missed.
NoConsumerMissesWakeup ==
  \A c \in Consumers : pc[c] = "sleep" => num_items_ = 0 /\ ~closed_

\* A producer that is blocked and was not notified faces a full, open queue.
NoProducerMissesWakeup ==
  \A p \in Producers : pc[p] = "sleep" => num_items_ = Size /\ ~closed_

\* After Close() every blocked call returns, and no later call blocks.
CloseReleasesEveryone == closed_ ~> [](\A t \in Threads : pc[t] = "idle")

\* A ProduceOrBlock call does produce (or is refused): it does not stay
\* blocked for ever while the consumers keep consuming.
WillProduce == \A p \in Producers : pc[p] # "idle" ~> pc[p] = "idle"

\* A ConsumeOrBlock call returns while the producers keep producing.
WillConsume == \A c \in Consumers : pc[c] # "idle" ~> pc[c] = "idle"
=============================================================================
