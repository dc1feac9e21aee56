----------------------------- MODULE MCPtrQueue -----------------------------
(***************************************************************************)
(* Model-checking instance of PtrQueue, and the refinement mapping to the  *)
(* abstract ClosableQueue.                                                 *)
(***************************************************************************)
EXTENDS PtrQueue

\* The sequence of a stretch of slots without the invalidated ones.
Valid(s) == SelectSeq(s, LAMBDA i : i # NULL)

Contents == [k \in 1 .. num_items_ |-> queue_[Slot(k - 1)]]

\* The abstract queue sees only valid items, in the buffer and in what Drain
\* returns.
Abstract ==
  INSTANCE ClosableQueue
    WITH q <- Valid(Contents),
         closed <- closed_,
         last <- IF last[1] = "Drain" THEN <<"Drain", Valid(last[2])>> ELSE last

\* The ring buffer under one mutex and one condition variable, with its timed
\* calls, spurious wakeups, invalidation and draining, implements the
\* abstract closable FIFO queue.
ImplementsClosableQueue == Abstract!Spec

=============================================================================
