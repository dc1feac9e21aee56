---------------------------- MODULE MCContainers ----------------------------
(***************************************************************************)
(* Model-checking instance of the sequential containers LRUCache and       *)
(* CircularArray and of FreeListSizes.  They share nothing: one behaviour  *)
(* uses one of them, and the run explores the three state spaces side by   *)
(* side.                                                                   *)
(***************************************************************************)
EXTENDS Integers

CONSTANTS Keys, Threads

VARIABLES used,
          keys_, node_key, cache_map_, made, evicted,
          values_, num_values_, index_, recent, result,
          local, raw, global, lists, live

lru_vars == <<keys_, node_key, cache_map_, made, evicted>>
array_vars == <<values_, num_values_, index_, recent, result>>
sizes_vars == <<local, raw, global, lists, live>>

Lru == INSTANCE LRUCache WITH max_cache_size_ <- 3, MaxObjects <- 5

\* A counter of three bits wraps around after eight values.
Array == INSTANCE CircularArray
           WITH NumValues <- 4, Width <- 3, Values <- {1, 2}, None <- 0

Sizes == INSTANCE FreeListSizes
           WITH kBatchSize <- 3, kRawAllocationThreshold <- 3,
                kMoveToGlobalThreshold <- 6, MaxLive <- 4, used <- live

Init ==
  /\ used \in {"lru", "array", "sizes"}
  /\ Lru!Init /\ Array!Init /\ Sizes!Init

Next ==
  \/ used = "lru" /\ Lru!Next /\ UNCHANGED <<used, array_vars, sizes_vars>>
  \/ used = "array" /\ Array!Next /\ UNCHANGED <<used, lru_vars, sizes_vars>>
  \/ used = "sizes" /\ Sizes!Next /\ UNCHANGED <<used, lru_vars, array_vars>>

Spec == Init /\ [][Next]_<<used, lru_vars, array_vars, sizes_vars>>

\* LRUCache: map and list agree (see LRUCache!MapMatchesList).
MapMatchesList == Lru!MapMatchesList

\* LRUCache: no object is lost or evicted twice (see LRUCache!EachObjectOnce).
EachObjectOnce == Lru!EachObjectOnce

\* LRUCache: the entry used least recently is evicted, and nothing else (see
\* LRUCache!ImplementsRecencyList).
ImplementsRecencyList == Lru!ImplementsRecencyList

\* CircularArray: the window of the last values, also after a wrap-around (see
\* CircularArray!InsertionOrder).
InsertionOrder == Array!InsertionOrder

\* FreeList: bounded use makes for bounded memory (see
\* FreeListSizes!FootprintBounded).
FootprintBounded == Sizes!FootprintBounded
=============================================================================
