----------------------------- MODULE RecencyList -----------------------------
(***************************************************************************)
(* What an LRU cache promises: a list of at most Capacity (key, value)     *)
(* pairs, one per key, the most recently used first.  Entries leave from   *)
(* the end, or when a new value replaces them; whatever leaves is appended *)
(* to evicted.                                                             *)
(***************************************************************************)
EXTENDS Naturals, Sequences, SequencesExt

CONSTANTS Keys, Values, Capacity

VARIABLES entries, evicted

vars == <<entries, evicted>>

Init == entries = <<>> /\ evicted = <<>>

\* The entries of key k, and the others.
Of(k) == SelectSeq(entries, LAMBDA e : e[1] = k)
Others(k) == SelectSeq(entries, LAMBDA e : e[1] # k)

\* A look at a cached key.
Use(k) ==
  /\ Of(k) # <<>>
  /\ entries' = Of(k) \o Others(k)
  /\ UNCHANGED evicted

Replace(k, v) ==
  /\ Of(k) # <<>>
  /\ entries' = <<<<k, v>>>> \o Others(k)
  /\ evicted' = evicted \o Of(k)

Add(k, v) ==
  /\ Of(k) = <<>>
  /\ LET room == Len(entries) < Capacity IN
       /\ entries' = <<<<k, v>>>> \o (IF room THEN entries ELSE Front(entries))
       /\ evicted' = IF room THEN evicted ELSE Append(evicted, Last(entries))

Clear ==
  /\ entries' = <<>>
  /\ evicted' = evicted \o Reverse(entries)

Next ==
  \/ \E k \in Keys : Use(k) \/ \E v \in Values : Replace(k, v) \/ Add(k, v)
  \/ Clear

Spec == Init /\ [][Next]_vars
=============================================================================
