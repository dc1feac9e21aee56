------------------------------ MODULE FreeList ------------------------------
(***************************************************************************)
(* nc::FreeList (free_list.h): per-thread lists of free objects that       *)
(* exchange objects through a global list protected by mu_.  An object may *)
(* be released by another thread than the one that allocated it.           *)
(*                                                                         *)
(* A thread's own list is touched by that thread only, so New and Release  *)
(* are one step each, around their one critical section.  The lists are    *)
(* sets: which free object New hands out, and which half Release moves,    *)
(* is left open.  The thread-local lists are never destroyed (GetFreeList  *)
(* leaks them on purpose), so neither is memory returned to the system.    *)
(*                                                                         *)
(* A definition with no comment of its own right above another one is that *)
(* definition with a plausible bug; the specification does not use it.     *)
(***************************************************************************)
EXTENDS Integers, FiniteSets

CONSTANTS
  Threads,
  kBatchSize,               \* objects per malloc
  kRawAllocationThreshold,  \* mallocs between two looks at the global list
  kMoveToGlobalThreshold,   \* size at which a list gives half of itself away
  MaxBatches                \* bound on the number of mallocs

ASSUME FreeListAssumption ==
  /\ IsFiniteSet(Threads)
  /\ kBatchSize \in Nat \ {0}
  /\ kRawAllocationThreshold \in Nat \ {0}
  /\ kMoveToGlobalThreshold \in Nat \ {0}
  /\ MaxBatches \in Nat

VARIABLES
  objects_,              \* per thread: the free objects in its list
  raw_allocation_count_, \* per thread: its mallocs
  global_free_objects_,
  free_lists_count_,
  registered,            \* threads whose list has been constructed
  to_free_,              \* all mallocs so far, by all threads
  live                   \* objects handed out and not released

vars == <<objects_, raw_allocation_count_, global_free_objects_, free_lists_count_,
          registered, to_free_, live>>

\* The addresses of the n-th chunk of memory, and of all chunks so far.
Chunk(n) == kBatchSize * (n - 1) + 1 .. kBatchSize * n
Allocated == 1 .. kBatchSize * to_free_

Init ==
  /\ objects_ = [t \in Threads |-> {}]
  /\ raw_allocation_count_ = [t \in Threads |-> 0]
  /\ global_free_objects_ = {}
  /\ free_lists_count_ = 0
  /\ registered = {}
  /\ to_free_ = 0
  /\ live = {}

\* What the constructor, under mu_, sets free_lists_count_ to.
ListCounted == free_lists_count_ + 1

\* First use of the thread-local instance: the constructor counts the list.
GetFreeList(t) ==
  /\ t \notin registered
  /\ registered' = registered \cup {t}
  /\ free_lists_count_' = ListCounted
  /\ UNCHANGED <<objects_, raw_allocation_count_, global_free_objects_, to_free_, live>>

\* How much of the global list a thread steals: one part in N.
Share == Cardinality(global_free_objects_) \div free_lists_count_

LooksAtGlobal(t) == raw_allocation_count_[t] % kRawAllocationThreshold = 0

\* The thread's list is not empty: its last object is handed out.
NewFromList(t) ==
  /\ objects_[t] # {}
  /\ \E o \in objects_[t] :
       /\ objects_' = [objects_ EXCEPT ![t] = @ \ {o}]
       /\ live' = live \cup {o}
  /\ UNCHANGED <<raw_allocation_count_, global_free_objects_, free_lists_count_,
                 registered, to_free_>>

LeftCopied(S) == global_free_objects_
LeftInGlobal(S) == global_free_objects_ \ S

\* The list is empty and the global list is worth stealing from; an object of
\* the stolen share is handed out.
NewFromGlobal(t) ==
  /\ objects_[t] = {}
  /\ LooksAtGlobal(t)
  /\ Share > 0
  /\ \E S \in SUBSET global_free_objects_ :
       /\ Cardinality(S) = Share
       /\ global_free_objects_' = LeftInGlobal(S)
       /\ \E o \in S :
            /\ objects_' = [objects_ EXCEPT ![t] = S \ {o}]
            /\ live' = live \cup {o}
  /\ UNCHANGED <<raw_allocation_count_, free_lists_count_, registered, to_free_>>

\* What a fresh chunk adds to the list: all of it but the object handed out.
WholeChunk(n, o) == Chunk(n)
RestOfChunk(n, o) == Chunk(n) \ {o}

\* The list is empty and the global list is not looked at, or is too small: a
\* chunk is allocated.
NewFromMalloc(t) ==
  /\ objects_[t] = {}
  /\ LooksAtGlobal(t) => Share = 0
  /\ to_free_ < MaxBatches
  /\ LET o == kBatchSize * (to_free_ + 1) IN
       /\ objects_' = [objects_ EXCEPT ![t] = RestOfChunk(to_free_ + 1, o)]
       /\ live' = live \cup {o}
  /\ to_free_' = to_free_ + 1
  /\ raw_allocation_count_' = [raw_allocation_count_ EXCEPT ![t] = @ + 1]
  /\ UNCHANGED <<global_free_objects_, free_lists_count_, registered>>

New(t) ==
  t \in registered /\ (NewFromList(t) \/ NewFromGlobal(t) \/ NewFromMalloc(t))

\* A list that grew to S gives nothing away, or half of itself.
GivenAway(S) ==
  IF Cardinality(S) >= kMoveToGlobalThreshold THEN Cardinality(S) \div 2 ELSE 0

MovedNowhere(S) == global_free_objects_
MovedToGlobal(S) == global_free_objects_ \cup S

\* Thread t destroys an object, which joins the list of t.
Release(t, o) ==
  /\ t \in registered
  /\ o \in live
  /\ live' = live \ {o}
  /\ LET grown == objects_[t] \cup {o} IN
       \E S \in SUBSET grown :
         /\ Cardinality(S) = GivenAway(grown)
         /\ objects_' = [objects_ EXCEPT ![t] = grown \ S]
         /\ global_free_objects_' = MovedToGlobal(S)
  /\ UNCHANGED <<raw_allocation_count_, free_lists_count_, registered, to_free_>>

Next ==
  \E t \in Threads :
    \/ GetFreeList(t)
    \/ New(t)
    \/ \E o \in live : Release(t, o)

Spec == Init /\ [][Next]_vars

-----------------------------------------------------------------------------
(* Properties                                                              *)

\* Types; free_lists_count_ counts the threads that have constructed their list.
TypeOK ==
  /\ objects_ \in [Threads -> SUBSET Allocated]
  /\ raw_allocation_count_ \in [Threads -> Nat]
  /\ global_free_objects_ \subseteq Allocated
  /\ registered \subseteq Threads
  /\ free_lists_count_ = Cardinality(registered)
  /\ to_free_ \in 0 .. MaxBatches
  /\ live \subseteq Allocated

\* No object is in two places: handed out twice, handed out while it is still
\* in a list, or in the lists of two threads at once, however threads allocate,
\* steal and release each other's objects.
OnePlace ==
  /\ \A t \in Threads :
       /\ objects_[t] \cap live = {}
       /\ objects_[t] \cap global_free_objects_ = {}
       /\ \A u \in Threads \ {t} : objects_[t] \cap objects_[u] = {}
  /\ global_free_objects_ \cap live = {}

\* No object is lost: every address of every chunk is in some place.
NoneLost ==
  Allocated = live \cup global_free_objects_ \cup UNION {objects_[t] : t \in Threads}
=============================================================================
