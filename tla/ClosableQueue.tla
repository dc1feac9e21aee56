---------------------------- MODULE ClosableQueue ----------------------------
(***************************************************************************)
(* What nc::PtrQueue promises its clients, without threads that block,     *)
(* slots or indices: a bounded FIFO queue that hands every accepted item   *)
(* to one caller at most once, in the order of acceptance, that can be     *)
(* closed, and whose items can be invalidated or drained.                  *)
(***************************************************************************)
EXTENDS Integers, Sequences

CONSTANTS Producers, Consumers, Items, NULL, Size

VARIABLES
  q,       \* the items that can still be consumed, oldest first
  closed,  \* whether the queue was closed
  last     \* the last return: <<thread or method, value>>

vars == <<q, closed, last>>

Init == q = <<>> /\ closed = FALSE /\ last = <<NULL, NULL>>

\* An accepted item goes to the back.
Accept(p, i) ==
  /\ ~closed
  /\ Len(q) < Size
  /\ q' = Append(q, i)
  /\ last' = <<p, "produced">>
  /\ UNCHANGED closed

\* A call is refused only because the queue is closed.
Refuse(p) ==
  /\ closed
  /\ last' = <<p, "refused">>
  /\ UNCHANGED <<q, closed>>

\* A timed call of a producer may give up; its item is dropped.
GiveUp(p) ==
  /\ ~closed
  /\ last' = <<p, "timeout">>
  /\ UNCHANGED <<q, closed>>

\* The oldest item goes to the caller, also when the queue is closed.
Deliver(c) ==
  /\ q # <<>>
  /\ last' = <<c, Head(q)>>
  /\ q' = Tail(q)
  /\ UNCHANGED closed

\* An empty pointer means that the queue is closed and exhausted.
Exhausted(c) ==
  /\ closed
  /\ q = <<>>
  /\ last' = <<c, NULL>>
  /\ UNCHANGED <<q, closed>>

\* A consumer times out only when there is nothing to consume.
NothingToConsume(c) ==
  /\ ~closed
  /\ q = <<>>
  /\ last' = <<c, "timeout">>
  /\ UNCHANGED <<q, closed>>

Forget(S) ==
  /\ q' = SelectSeq(q, LAMBDA i : i \notin S)
  /\ UNCHANGED <<closed, last>>

TakeAll ==
  /\ last' = <<"Drain", q>>
  /\ q' = <<>>
  /\ UNCHANGED closed

CloseIt == closed' = TRUE /\ UNCHANGED <<q, last>>

Next ==
  \/ \E p \in Producers :
       (\E i \in Items : Accept(p, i)) \/ Refuse(p) \/ GiveUp(p)
  \/ \E c \in Consumers : Deliver(c) \/ Exhausted(c) \/ NothingToConsume(c)
  \/ \E S \in SUBSET Items : Forget(S)
  \/ TakeAll
  \/ CloseIt

Spec == Init /\ [][Next]_vars
=============================================================================
