---------------------------- MODULE RunInParallel ----------------------------
(***************************************************************************)
(* The function templates RunInParallel and RunInParallelWithResult        *)
(* (thread_runner.h): the caller spawns 'batch' threads that claim the     *)
(* arguments under mu and apply f outside of it, then joins them in order. *)
(* RunInParallel is the same without the results.                          *)
(*                                                                         *)
(* pc[j] of thread j: "none" (not spawned), "ready" (about to take mu for  *)
(* the scan from index from[j]), "run" (in f on argument from[j]), "exit". *)
(*                                                                         *)
(* A definition with no comment of its own right above another one is that *)
(* definition with a plausible bug; the specification does not use it.     *)
(***************************************************************************)
EXTENDS Integers

CONSTANTS
  Batch,   \* the argument 'batch': the number of threads; CHECKed not to be 0
  Args,    \* arguments.size()
  NULL     \* a result that was not set

VARIABLES
  done,      \* the indices whose flag is set
  results,   \* per argument: the argument f was applied to, or NULL
  pc, from,
  joined,    \* how many threads the caller has joined
  calls      \* how often f was called on each argument

vars == <<done, results, pc, from, joined, calls>>

Threads == 1 .. Batch
Indices == 1 .. Args

Init ==
  /\ done = {}
  /\ results = [i \in Indices |-> NULL]
  /\ pc = [j \in Threads |-> "none"]
  /\ from = [j \in Threads |-> 1]
  /\ joined = 0
  /\ calls = [i \in Indices |-> 0]

Spawn(j) ==
  /\ pc[j] = "none"
  /\ \A k \in Threads : k < j => pc[k] # "none"
  /\ pc' = [pc EXCEPT ![j] = "ready"]
  /\ UNCHANGED <<done, results, from, joined, calls>>

\* ++i in the for loop.
Skipped(i) == i + 2
Following(i) == i + 1

\* What the for loop at index i still has to claim.
Claimable(i, k) == k >= i /\ k \notin done

\* Under mu: claim the first argument from index from[j] on that is not done.
Claim(j) ==
  /\ pc[j] = "ready"
  /\ \E i \in Indices :
       /\ Claimable(from[j], i)
       /\ \A k \in Indices : k < i => ~Claimable(from[j], k)
       /\ done' = done \cup {i}
       /\ from' = [from EXCEPT ![j] = i]
       /\ calls' = [calls EXCEPT ![i] = @ + 1]
  /\ pc' = [pc EXCEPT ![j] = "run"]
  /\ UNCHANGED <<results, joined>>

\* Without mu: f returns and its result is stored.
Finish(j) ==
  /\ pc[j] = "run"
  /\ results' = [results EXCEPT ![from[j]] = from[j]]
  /\ from' = [from EXCEPT ![j] = Following(@)]
  /\ pc' = [pc EXCEPT ![j] = "ready"]
  /\ UNCHANGED <<done, joined, calls>>

\* Nothing is left to claim: the thread ends.
Exit(j) ==
  /\ pc[j] = "ready"
  /\ \A i \in Indices : ~Claimable(from[j], i)
  /\ pc' = [pc EXCEPT ![j] = "exit"]
  /\ UNCHANGED <<done, results, from, joined, calls>>

\* threads[i].join() returns.
JoinsNext == joined + 2 \in Threads /\ pc[joined + 2] = "exit"
JoinAnyway == pc[joined + 1] # "none"
CanJoin == pc[joined + 1] = "exit"

\* The caller joins the threads in the order it spawned them.
Join ==
  /\ joined < Batch
  /\ \A j \in Threads : pc[j] # "none"
  /\ CanJoin
  /\ joined' = joined + 1
  /\ UNCHANGED <<done, results, pc, from, calls>>

Returned == joined = Batch

\* Thread j once it was spawned, and the caller.
Step(j) == Claim(j) \/ Finish(j) \/ Exit(j)
Caller == (\E j \in Threads : Spawn(j)) \/ Join

Next == Caller \/ \E j \in Threads : Step(j)

Spec == Init /\ [][Next]_vars

-----------------------------------------------------------------------------
(* Properties                                                              *)

\* Types; threads claim and join within their ranges.
TypeOK ==
  /\ done \subseteq Indices
  /\ results \in [Indices -> Indices \cup {NULL}]
  /\ pc \in [Threads -> {"none", "ready", "run", "exit"}]
  /\ from \in [Threads -> 1 .. Args + 1]
  /\ joined \in 0 .. Batch
  /\ calls \in [Indices -> Nat]

\* When the call returns, f was applied to every argument exactly once and its
\* result is at the index of the argument.
ResultsComplete == Returned => \A i \in Indices : results[i] = i /\ calls[i] = 1
=============================================================================
