----------------------------- MODULE MCFreeList -----------------------------
(***************************************************************************)
(* Model-checking instance of FreeList, and its mapping to the lengths of  *)
(* its lists.                                                              *)
(***************************************************************************)
EXTENDS FreeList

Sizes ==
  INSTANCE FreeListSizes
    WITH local <- [t \in Threads |-> Cardinality(objects_[t])],
         raw <- [t \in Threads |-> raw_allocation_count_[t] % kRawAllocationThreshold],
         global <- Cardinality(global_free_objects_),
         lists <- registered,
         used <- Cardinality(live),
         MaxLive <- kBatchSize * MaxBatches

\* The lists of objects implement the lists of lengths, so that the bound on
\* the memory proved of the lengths is a bound on the memory of the lists.
ImplementsSizes == Sizes!Spec
=============================================================================
