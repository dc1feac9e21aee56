------------------------------ MODULE LRUCache ------------------------------
(***************************************************************************)
(* nc::LRUCache (lru_cache.h): a hash map from keys to values and          *)
(* iterators, and a list of keys, most recently used first, the iterators  *)
(* point into.  A list node is a number; a list is the sequence of its     *)
(* nodes and the function from nodes to the keys they hold.                *)
(*                                                                         *)
(* A value is a number that identifies the object.  A cache of size zero   *)
(* would evict from an empty list and is not considered.                   *)
(*                                                                         *)
(* A definition with no comment of its own right above another one is that *)
(* definition with a plausible bug; the specification does not use it.     *)
(***************************************************************************)
EXTENDS Integers, Sequences, SequencesExt, FiniteSetsExt

CONSTANTS
  Keys,
  max_cache_size_,
  MaxObjects   \* bound on the objects constructed

VARIABLES
  keys_,      \* the nodes of the list, front first
  node_key,   \* the key in each node that was ever created
  cache_map_, \* key -> [object, iterator], for the keys in the map
  made,       \* number of objects constructed
  evicted     \* <<key, object>> pairs ItemEvicted was called with

vars == <<keys_, node_key, cache_map_, made, evicted>>

Init ==
  /\ keys_ = <<>>
  /\ node_key = <<>>
  /\ cache_map_ = <<>>
  /\ made = 0
  /\ evicted = <<>>

\* keys_.splice(keys_.begin(), keys_, it): the node moves to the front, and
\* every iterator stays valid.
NotSpliced(node) == keys_
CopiedToFront(node) == <<node>> \o keys_
Spliced(node) == <<node>> \o Remove(keys_, node)

Cached(k) == k \in DOMAIN cache_map_

-----------------------------------------------------------------------------

\* FindOrNull, and Emplace with a key that is in the cache: nothing is
\* constructed.
Touch(k) ==
  /\ Cached(k)
  /\ keys_' = Spliced(cache_map_[k].iterator)
  /\ UNCHANGED <<node_key, cache_map_, made, evicted>>

\* ItemEvicted(key, the object of key).
ItemForgotten(k) == evicted
ItemEvicted(k) == Append(evicted, <<k, cache_map_[k].object>>)

\* InsertNew with a key that is in the cache: the old object goes to
\* ItemEvicted, its node to the front.
InsertOver(k) ==
  /\ Cached(k)
  /\ made < MaxObjects
  /\ made' = made + 1
  /\ evicted' = ItemEvicted(k)
  /\ keys_' = Spliced(cache_map_[k].iterator)
  /\ cache_map_' = [cache_map_ EXCEPT ![k].object = made + 1]
  /\ UNCHANGED node_key

\* The test after cache_map_[key] has added an entry to the map.
Overflow == Cardinality(DOMAIN cache_map_) + 1 > max_cache_size_

\* The node EvictOldest removes and the key it evicts.
VictimNewest == Head(keys_)
Victim == Last(keys_)

\* Emplace and InsertNew with a key that is not in the cache.
InsertFresh(k) ==
  /\ ~Cached(k)
  /\ made < MaxObjects
  /\ made' = made + 1
  /\ LET node == Len(node_key) + 1
         old == node_key[Victim]
         kept == IF Overflow THEN DOMAIN cache_map_ \ {old} ELSE DOMAIN cache_map_
     IN /\ node_key' = Append(node_key, k)
        /\ keys_' = <<node>> \o (IF Overflow THEN Remove(keys_, Victim) ELSE keys_)
        /\ evicted' = IF Overflow THEN ItemEvicted(old) ELSE evicted
        /\ cache_map_' = [j \in kept \cup {k} |->
             IF j = k THEN [object |-> made + 1, iterator |-> node] ELSE cache_map_[j]]

\* EvictAll: EvictOldest until the map is empty.
EvictAll ==
  /\ evicted' = evicted \o [i \in DOMAIN keys_ |->
       LET k == node_key[keys_[Len(keys_) + 1 - i]] IN <<k, cache_map_[k].object>>]
  /\ keys_' = <<>>
  /\ cache_map_' = <<>>
  /\ UNCHANGED <<node_key, made>>

Next ==
  \/ \E k \in Keys : Touch(k) \/ InsertOver(k) \/ InsertFresh(k)
  \/ EvictAll

Spec == Init /\ [][Next]_vars

-----------------------------------------------------------------------------
(* Properties                                                              *)

\* Map and list describe the same keys: every entry's iterator points at a node
\* of the list that holds its key, and every node belongs to an entry.  The
\* CHECK in EvictOldest and the splices by iterator rest on it.
MapMatchesList ==
  /\ \A k \in DOMAIN cache_map_ :
       /\ Contains(keys_, cache_map_[k].iterator)
       /\ node_key[cache_map_[k].iterator] = k
  /\ Len(keys_) = Cardinality(DOMAIN cache_map_)
  /\ IsInjective(keys_)

\* Every object that was constructed is cached or was passed to ItemEvicted,
\* once.
EachObjectOnce ==
  LET cached == {cache_map_[k].object : k \in DOMAIN cache_map_}
      gone == [i \in DOMAIN evicted |-> evicted[i][2]]
  IN /\ 1 .. made = cached \cup ToSet(gone)
     /\ cached \cap ToSet(gone) = {}
     /\ IsInjective(gone)

\* The cache as a list of pairs.
Recency ==
  INSTANCE RecencyList
    WITH Values <- 1 .. MaxObjects, Capacity <- max_cache_size_,
         entries <- [i \in DOMAIN keys_ |->
           <<node_key[keys_[i]], cache_map_[node_key[keys_[i]]].object>>]

\* The cache behaves as a list ordered by recency: what is evicted for want of
\* room is the entry that was used least recently.
ImplementsRecencyList == Recency!Spec
=============================================================================
