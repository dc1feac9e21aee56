---------------------------- MODULE FreeListSizes ----------------------------
(***************************************************************************)
(* nc::FreeList reduced to the lengths of its lists: how much memory the   *)
(* lists take from the system when at most MaxLive objects are in use.     *)
(***************************************************************************)
EXTENDS Integers, FiniteSets, FiniteSetsExt

CONSTANTS Threads, kBatchSize, kRawAllocationThreshold, kMoveToGlobalThreshold,
          MaxLive  \* the most objects the program uses at a time

VARIABLES
  local,      \* per thread: length of its list
  raw,        \* per thread: its mallocs, modulo kRawAllocationThreshold
  global,     \* length of the global list
  lists,      \* the threads that have a list
  used        \* objects in use

vars == <<local, raw, global, lists, used>>

Init ==
  /\ local = [t \in Threads |-> 0]
  /\ raw = [t \in Threads |-> 0]
  /\ global = 0
  /\ lists = {}
  /\ used = 0

Register(t) ==
  /\ t \notin lists
  /\ lists' = lists \cup {t}
  /\ UNCHANGED <<local, raw, global, used>>

Share == global \div Cardinality(lists)

\* A thread with an empty list looks at the global list.
NeverLooks(t) == FALSE
Looks(t) == raw[t] = 0

Allocate(t) ==
  /\ t \in lists
  /\ used < MaxLive
  /\ used' = used + 1
  /\ \/ /\ local[t] > 0
        /\ local' = [local EXCEPT ![t] = @ - 1]
        /\ UNCHANGED <<raw, global>>
     \/ /\ local[t] = 0 /\ Looks(t) /\ Share > 0
        /\ local' = [local EXCEPT ![t] = Share - 1]
        /\ global' = global - Share
        /\ UNCHANGED raw
     \/ /\ local[t] = 0 /\ (Looks(t) => Share = 0)
        /\ local' = [local EXCEPT ![t] = kBatchSize - 1]
        /\ raw' = [raw EXCEPT ![t] = (@ + 1) % kRawAllocationThreshold]
        /\ UNCHANGED global
  /\ UNCHANGED lists

\* A list of length n gives away nothing, or half of itself.
GivenAway(n) == IF n >= kMoveToGlobalThreshold THEN n \div 2 ELSE 0

Deallocate(t) ==
  /\ t \in lists
  /\ used > 0
  /\ used' = used - 1
  /\ local' = [local EXCEPT ![t] = @ + 1 - GivenAway(@ + 1)]
  /\ global' = global + GivenAway(local[t] + 1)
  /\ UNCHANGED <<raw, lists>>

Next == \E t \in Threads : Register(t) \/ Allocate(t) \/ Deallocate(t)

Spec == Init /\ [][Next]_vars

Footprint == used + global + MapThenSumSet(LAMBDA t : local[t], Threads)

\* "Amortizes the new/delete cost": memory is reused.  Whoever allocates and
\* whoever releases, a program with at most MaxLive objects in use makes the
\* lists hold a bounded number of objects.  A thread that looks at the global
\* list and still allocates has found fewer than N objects in it; between two
\* looks it allocates kRawAllocationThreshold chunks.
FootprintBounded ==
  LET N == Cardinality(Threads) IN
  Footprint =< N * (MaxLive + N + kRawAllocationThreshold * kBatchSize
                    + kMoveToGlobalThreshold)
=============================================================================
