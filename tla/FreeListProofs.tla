--------------------------- MODULE FreeListProofs ---------------------------
(***************************************************************************)
(* Every object of a FreeList is in exactly one place, for every number of *)
(* threads and every choice of the batch size and the thresholds.          *)
(***************************************************************************)
EXTENDS FreeList, FiniteSetTheorems, TLAPS

USE FreeListAssumption

IInv == TypeOK /\ OnePlace /\ NoneLost

\* A fresh chunk extends the allocated addresses and overlaps none of them.
LEMMA FreshChunk ==
  ASSUME NEW n \in Nat
  PROVE  /\ Chunk(n + 1) \cap (1 .. kBatchSize * n) = {}
         /\ (1 .. kBatchSize * n) \cup Chunk(n + 1) = 1 .. kBatchSize * (n + 1)
         /\ kBatchSize * (n + 1) \in Chunk(n + 1)
<1>1. /\ kBatchSize * (n + 1) = kBatchSize * n + kBatchSize
      /\ kBatchSize * ((n + 1) - 1) = kBatchSize * n
      /\ kBatchSize * n \in Nat
  OBVIOUS
<1>2. Chunk(n + 1) = kBatchSize * n + 1 .. kBatchSize * n + kBatchSize
  BY <1>1 DEF Chunk
<1>3. ASSUME NEW b \in Nat
      PROVE  /\ (b + 1 .. b + kBatchSize) \cap (1 .. b) = {}
             /\ (1 .. b) \cup (b + 1 .. b + kBatchSize) = 1 .. b + kBatchSize
             /\ b + kBatchSize \in b + 1 .. b + kBatchSize
  OBVIOUS
<1> QED BY <1>1, <1>2, <1>3

\* The initial state satisfies the inductive invariant.
LEMMA InitIInv == Init => IInv
<1> SUFFICES ASSUME Init PROVE IInv
  OBVIOUS
<1>1. Cardinality({}) = 0
  BY FS_EmptySet
<1>2. Allocated = {}
  BY DEF Init, Allocated
<1>3. TypeOK
  BY <1>1 DEF Init, TypeOK
<1>4. OnePlace /\ NoneLost
  BY <1>2 DEF Init, OnePlace, NoneLost
<1> QED BY <1>3, <1>4 DEF IInv

\* Every step preserves the inductive invariant.
LEMMA NextIInv == IInv /\ [Next]_vars => IInv'
<1> SUFFICES ASSUME IInv, [Next]_vars PROVE IInv'
  OBVIOUS
<1>0. TypeOK /\ OnePlace /\ NoneLost
  BY DEF IInv
\* Objects move between the list of t, the global list and the program.
<1>1. ASSUME NEW t \in Threads, NEW L, NEW G, NEW V,
             objects_' = [objects_ EXCEPT ![t] = L],
             global_free_objects_' = G,
             live' = V,
             L \cup G \cup V = objects_[t] \cup global_free_objects_ \cup live,
             L \cap G = {}, L \cap V = {}, G \cap V = {},
             UNCHANGED <<raw_allocation_count_, free_lists_count_, registered, to_free_>>
      PROVE  IInv'
  <2>1. Allocated' = Allocated
    BY <1>1 DEF Allocated
  <2>2. \A u \in Threads \ {t} :
          objects_'[u] = objects_[u] /\ objects_[u] \cap (L \cup G \cup V) = {}
    BY <1>0, <1>1 DEF TypeOK, OnePlace
  <2>3. objects_'[t] = L
    BY <1>0, <1>1 DEF TypeOK
  <2>4. TypeOK'
    <3>1. L \subseteq Allocated /\ G \subseteq Allocated /\ V \subseteq Allocated
      BY <1>0, <1>1 DEF TypeOK
    <3> QED BY <1>0, <1>1, <2>1, <3>1 DEF TypeOK
  <2>5. OnePlace'
    BY <1>0, <1>1, <2>2, <2>3 DEF OnePlace
  <2>6. NoneLost'
    BY <1>0, <1>1, <2>1, <2>2, <2>3 DEF NoneLost
  <2> QED BY <2>4, <2>5, <2>6 DEF IInv
<1>2. ASSUME NEW t \in Threads, GetFreeList(t) PROVE IInv'
  <2>1. IsFiniteSet(registered)
    BY <1>0, FS_Subset DEF TypeOK
  <2>2. Cardinality(registered') = Cardinality(registered) + 1
    BY <1>2, <2>1, FS_AddElement DEF GetFreeList, ListCounted
  <2>3. Allocated' = Allocated
    BY <1>2 DEF GetFreeList, Allocated
  <2>4. TypeOK'
    BY <1>0, <1>2, <2>2, <2>3 DEF TypeOK, GetFreeList, ListCounted
  <2>5. OnePlace' /\ NoneLost'
    BY <1>0, <1>2, <2>3 DEF OnePlace, NoneLost, GetFreeList
  <2> QED BY <2>4, <2>5 DEF IInv
<1>3. ASSUME NEW t \in Threads, NewFromList(t) PROVE IInv'
  <2>1. PICK o \in objects_[t] : /\ objects_' = [objects_ EXCEPT ![t] = @ \ {o}]
                                 /\ live' = live \cup {o}
    BY <1>3 DEF NewFromList
  <2>2. objects_' = [objects_ EXCEPT ![t] = objects_[t] \ {o}]
    BY <1>0, <2>1 DEF TypeOK
  <2> DEFINE L == objects_[t] \ {o}
             V == live \cup {o}
  <2>3. /\ L \cup global_free_objects_ \cup V = objects_[t] \cup global_free_objects_ \cup live
        /\ L \cap global_free_objects_ = {} /\ L \cap V = {} /\ global_free_objects_ \cap V = {}
    BY <1>0, <2>1 DEF OnePlace
  <2>4. /\ global_free_objects_' = global_free_objects_
        /\ UNCHANGED <<raw_allocation_count_, free_lists_count_, registered, to_free_>>
    BY <1>3 DEF NewFromList
  <2>5. objects_' = [objects_ EXCEPT ![t] = L] /\ live' = V
    BY <2>1, <2>2
  <2> HIDE DEF L, V
  <2> QED BY <1>1, <2>3, <2>4, <2>5
<1>4. ASSUME NEW t \in Threads, NewFromGlobal(t) PROVE IInv'
  <2>1. PICK S \in SUBSET global_free_objects_ :
          /\ global_free_objects_' = LeftInGlobal(S)
          /\ \E o \in S : /\ objects_' = [objects_ EXCEPT ![t] = S \ {o}]
                          /\ live' = live \cup {o}
    BY <1>4 DEF NewFromGlobal
  <2>2. PICK o \in S : /\ objects_' = [objects_ EXCEPT ![t] = S \ {o}]
                       /\ live' = live \cup {o}
    BY <2>1
  <2> DEFINE L == S \ {o}
             G == global_free_objects_ \ S
             V == live \cup {o}
  <2>3. /\ L \cup G \cup V = objects_[t] \cup global_free_objects_ \cup live
        /\ L \cap G = {} /\ L \cap V = {} /\ G \cap V = {}
    BY <1>0, <1>4, <2>2 DEF OnePlace, NewFromGlobal
  <2>4. UNCHANGED <<raw_allocation_count_, free_lists_count_, registered, to_free_>>
    BY <1>4 DEF NewFromGlobal
  <2>5. objects_' = [objects_ EXCEPT ![t] = L] /\ global_free_objects_' = G /\ live' = V
    BY <2>1, <2>2 DEF LeftInGlobal
  <2> HIDE DEF L, G, V
  <2> QED BY <1>1, <2>3, <2>4, <2>5
<1>5. ASSUME NEW t \in Threads, NewFromMalloc(t) PROVE IInv'
  <2> DEFINE c == Chunk(to_free_ + 1)
             o == kBatchSize * (to_free_ + 1)
  <2>1. /\ objects_[t] = {}
        /\ objects_' = [objects_ EXCEPT ![t] = c \ {o}]
        /\ live' = live \cup {o}
        /\ to_free_' = to_free_ + 1
        /\ to_free_ \in Nat
    BY <1>0, <1>5 DEF NewFromMalloc, RestOfChunk, TypeOK
  <2>2. c \cap Allocated = {} /\ Allocated \cup c = Allocated' /\ o \in c
    BY <2>1, FreshChunk DEF Allocated
  <2> HIDE DEF c, o
  <2>3. \A u \in Threads \ {t} : objects_'[u] = objects_[u]
    BY <1>0, <2>1 DEF TypeOK
  <2>4. objects_'[t] = c \ {o}
    BY <1>0, <2>1 DEF TypeOK
  <2>5. TypeOK'
    BY <1>0, <1>5, <2>1, <2>2 DEF TypeOK, NewFromMalloc
  <2>6. OnePlace'
    BY <1>0, <1>5, <2>1, <2>2, <2>3, <2>4 DEF TypeOK, OnePlace, NewFromMalloc
  <2>7. NoneLost'
    BY <1>0, <1>5, <2>1, <2>2, <2>3, <2>4 DEF NoneLost, NewFromMalloc
  <2> QED BY <2>5, <2>6, <2>7 DEF IInv
<1>6. ASSUME NEW t \in Threads, NEW o \in live, Release(t, o) PROVE IInv'
  <2>1. PICK S \in SUBSET (objects_[t] \cup {o}) :
          /\ objects_' = [objects_ EXCEPT ![t] = (objects_[t] \cup {o}) \ S]
          /\ global_free_objects_' = global_free_objects_ \cup S
    BY <1>6 DEF Release, MovedToGlobal
  <2> DEFINE L == (objects_[t] \cup {o}) \ S
             G == global_free_objects_ \cup S
             V == live \ {o}
  <2>2. /\ L \cup G \cup V = objects_[t] \cup global_free_objects_ \cup live
        /\ L \cap G = {} /\ L \cap V = {} /\ G \cap V = {}
    BY <1>0 DEF OnePlace
  <2>3. UNCHANGED <<raw_allocation_count_, free_lists_count_, registered, to_free_>>
    BY <1>6 DEF Release, MovedToGlobal
  <2>4. objects_' = [objects_ EXCEPT ![t] = L] /\ global_free_objects_' = G /\ live' = V
    BY <1>6, <2>1 DEF Release, MovedToGlobal
  <2> HIDE DEF L, G, V
  <2> QED BY <1>1, <2>2, <2>3, <2>4
<1>7. CASE UNCHANGED vars
  BY <1>0, <1>7 DEF vars, IInv, TypeOK, OnePlace, NoneLost, Allocated
<1> QED
  BY <1>2, <1>3, <1>4, <1>5, <1>6, <1>7 DEF Next, New

\* The inductive invariant holds of every behaviour.
THEOREM Invariance == Spec => []IInv
BY InitIInv, NextIInv, PTL DEF Spec

\* No object is ever in two places (see OnePlace).
THEOREM ObjectsInOnePlace == Spec => []OnePlace
<1>1. IInv => OnePlace
  BY DEF IInv
<1> QED BY <1>1, Invariance, PTL

\* No object is ever lost (see NoneLost).
THEOREM NoObjectLost == Spec => []NoneLost
<1>1. IInv => NoneLost
  BY DEF IInv
<1> QED BY <1>1, Invariance, PTL
=============================================================================
