---------------------------- MODULE CircularArray ----------------------------
(***************************************************************************)
(* nc::CircularArray (circular_array.h): the last NumValues values, in an  *)
(* array indexed by a counter that is only masked when it is used.  The    *)
(* counter is an unsigned integer of Width bits: its wrap-around, and the  *)
(* one of index_ - num_values_, are harmless because NumValues divides     *)
(* 2^Width.                                                                *)
(*                                                                         *)
(* A definition with no comment of its own right above another one is that *)
(* definition with a plausible bug; the specification does not use it.     *)
(***************************************************************************)
EXTENDS Integers, Sequences, SequencesExt

CONSTANTS
  NumValues,   \* a power of two, by a static_assert
  Width,       \* of size_t, in bits
  Values,
  None         \* what the array holds before a value is stored

VARIABLES
  values_, num_values_, index_,
  recent,      \* the last NumValues values added since GetValues, oldest first
  result       \* what the last GetValues returned and what it should have

vars == <<values_, num_values_, index_, recent, result>>

Init ==
  /\ values_ = [i \in 0 .. NumValues - 1 |-> None]
  /\ num_values_ = 0
  /\ index_ = 0
  /\ recent = <<>>
  /\ result = <<<<>>, <<>>>>

\* x & kMask for the size_t x.
Masked(x) == (x % 2 ^ Width) % NumValues

\* The counter after a value was stored.
Saturated == (index_ + 1) % (NumValues + 1)
Incremented == (index_ + 1) % 2 ^ Width

\* AddValue and MoveValue.
AddValue(v) ==
  /\ values_' = [values_ EXCEPT ![Masked(index_)] = v]
  /\ index_' = Incremented
  /\ num_values_' = IF num_values_ < NumValues THEN num_values_ + 1 ELSE num_values_
  /\ recent' = IF Len(recent) < NumValues THEN Append(recent, v)
                                          ELSE Append(Tail(recent), v)
  /\ UNCHANGED result

\* Where the oldest value is.
Start == Masked(index_ - num_values_)

MostRecentValueOrDie == values_[Masked(index_ - 1)]
OldestValueOrDie == values_[Start]

GetValues ==
  /\ result' = <<[i \in 1 .. num_values_ |-> values_[Masked(Start + i - 1)]], recent>>
  /\ num_values_' = 0
  /\ index_' = 0
  /\ recent' = <<>>
  /\ UNCHANGED values_

Next == (\E v \in Values : AddValue(v)) \/ GetValues

Spec == Init /\ [][Next]_vars

-----------------------------------------------------------------------------
(* Properties                                                              *)

\* The array is the window of the last NumValues values, also once the counter
\* has wrapped around: OldestValueOrDie and MostRecentValueOrDie return its two
\* ends, and GetValues "all values in this array, in insertion order".
InsertionOrder ==
  /\ num_values_ = Len(recent)
  /\ num_values_ > 0 =>
       OldestValueOrDie = Head(recent) /\ MostRecentValueOrDie = Last(recent)
  /\ result[1] = result[2]
=============================================================================
