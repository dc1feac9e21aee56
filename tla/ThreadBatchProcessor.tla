------------------------ MODULE ThreadBatchProcessor ------------------------
(***************************************************************************)
(* nc::ThreadBatchProcessor (thread_runner.h): a pool of threads to which  *)
(* one owner thread hands a batch of arguments at a time (RunInParallel);  *)
(* the owner sleeps until the pool has applied the function to all of      *)
(* them, and finally destroys the pool.                                    *)
(*                                                                         *)
(* A step is what a thread does between taking and giving up mu_, or one   *)
(* access outside of mu_ (the test of the atomic to_kill_, the notify of   *)
(* an already released lock).                                              *)
(*                                                                         *)
(* pc[w], for a pool thread:              owner, for the owner:            *)
(*   "top"    at the while                  "idle"    between batches      *)
(*   "enter"  about to take mu_             "set"     batch set, unlocked  *)
(*   "sleep"  in new_batch_ready_.wait      "enter"   about to take mu_    *)
(*   "run"    in f on argument at[w]        "sleep"   in thread_done_.wait *)
(*   "notify" last one, mu_ released        "join"    in the destructor    *)
(*   "exit"   DoWork returned               "gone"    destructor returned  *)
(*                                                                         *)
(* A definition with no comment of its own right above another one is that *)
(* definition with a plausible bug; the specification does not use it.     *)
(***************************************************************************)
EXTENDS Integers, FiniteSets

CONSTANTS
  Workers,  \* the pool's threads
  MaxArgs   \* bound on the number of arguments of a batch

ASSUME ProcessorAssumption ==
  /\ IsFiniteSet(Workers)
  /\ Workers # {}
  /\ MaxArgs \in Nat

VARIABLES
  to_kill_,
  batch_arguments_,  \* size of the batch the pointer leads to, or NoBatch
  batch_done_,       \* the indices whose flag is set
  active_threads_,   \* the threads whose flag is set
  number_active_,
  pc, at,
  owner,
  calls,             \* how often f was called on each argument of the last batch
  total              \* number of arguments of the last batch

batch == <<batch_arguments_, batch_done_, active_threads_, number_active_>>
vars == <<to_kill_, batch, pc, at, owner, calls, total>>

NoBatch == -1
Args == 1 .. MaxArgs

Init ==
  /\ to_kill_ = FALSE
  /\ batch_arguments_ = NoBatch
  /\ batch_done_ = {}
  /\ active_threads_ = {}
  /\ number_active_ = 0
  /\ pc = [w \in Workers |-> "top"]
  /\ at = [w \in Workers |-> 0]
  /\ owner = "idle"
  /\ calls = [i \in Args |-> 0]
  /\ total = 0

-----------------------------------------------------------------------------
(* RunInParallel and the destructor, called by the owner.                  *)

\* new_batch_ready_.notify_all() wakes every pool thread that sleeps.
WokenNobody == UNCHANGED pc
WakeWorkers == pc' = [w \in Workers |-> IF pc[w] = "sleep" THEN "enter" ELSE pc[w]]

\* Lines 114 to 123.
RunInParallel(n) ==
  /\ owner = "idle"
  /\ batch_arguments_' = n
  /\ batch_done_' = {}
  /\ active_threads_' = Workers
  /\ number_active_' = Cardinality(Workers)
  /\ owner' = "set"
  /\ total' = n
  /\ calls' = [i \in Args |-> 0]
  /\ UNCHANGED <<to_kill_, pc, at>>

NotifyWorkers ==
  /\ owner = "set"
  /\ WakeWorkers
  /\ owner' = "enter"
  /\ UNCHANGED <<to_kill_, batch, at, calls, total>>

\* The predicate of thread_done_.wait.
SomeInactive == number_active_ < Cardinality(Workers)
AllInactive == number_active_ = 0

\* Lines 126 to 135: wait, or clean up and return to the caller.
AwaitWorkers ==
  /\ owner = "enter"
  /\ \/ /\ ~AllInactive
        /\ owner' = "sleep"
        /\ UNCHANGED batch
     \/ /\ AllInactive
        /\ owner' = "idle"
        /\ batch_arguments_' = NoBatch
        /\ batch_done_' = {}
        /\ active_threads_' = {}
        /\ UNCHANGED number_active_
  /\ UNCHANGED <<to_kill_, pc, at, calls, total>>

KillSilently == to_kill_' = TRUE /\ UNCHANGED pc
Kill == to_kill_' = TRUE /\ WakeWorkers

Destroy ==
  /\ owner = "idle"
  /\ Kill
  /\ owner' = "join"
  /\ UNCHANGED <<batch, at, calls, total>>

Joined ==
  /\ owner = "join"
  /\ \A w \in Workers : pc[w] = "exit"
  /\ owner' = "gone"
  /\ UNCHANGED <<to_kill_, batch, pc, at, calls, total>>

-----------------------------------------------------------------------------
(* DoWork, run by every pool thread.                                       *)

\* The while condition, read without mu_.
TestKill(w) ==
  /\ pc[w] = "top"
  /\ pc' = [pc EXCEPT ![w] = IF to_kill_ THEN "exit" ELSE "enter"]
  /\ UNCHANGED <<to_kill_, batch, at, owner, calls, total>>

\* An argument the for loop, at index i, may claim next: the first one from i
\* on that is not done.
ClaimableTwice(i, j) == i =< j /\ j =< batch_arguments_
Claimable(i, j) ==
  /\ i =< j
  /\ j =< batch_arguments_
  /\ j \notin batch_done_
  /\ \A k \in Args : i =< k /\ k < j => k \in batch_done_

Exhausted(i) == \A k \in Args : i =< k /\ k =< batch_arguments_ => k \in batch_done_

\* The last thread to become inactive tells the owner.
Last == number_active_ = 1

\* The for loop from index i on until mu_ is released, to call f or because
\* there is nothing left to claim.
ScanFrom(w, i) ==
  \/ \E j \in Args :
       /\ Claimable(i, j)
       /\ batch_done_' = batch_done_ \cup {j}
       /\ pc' = [pc EXCEPT ![w] = "run"]
       /\ at' = [at EXCEPT ![w] = j]
       /\ calls' = [calls EXCEPT ![j] = @ + 1]
       /\ UNCHANGED <<batch_arguments_, active_threads_, number_active_>>
  \/ /\ Exhausted(i)
     /\ active_threads_' = active_threads_ \ {w}
     /\ number_active_' = number_active_ - 1
     /\ pc' = [pc EXCEPT ![w] = IF Last THEN "notify" ELSE "top"]
     /\ UNCHANGED <<batch_arguments_, batch_done_, at, calls>>

\* The predicate of new_batch_ready_.wait, but for to_kill_.
BatchReady(w) == batch_arguments_ # NoBatch
Active(w) == w \in active_threads_

\* mu_ is taken, for the first time or after a wakeup, and the wait's
\* predicate is evaluated.
Enter(w) ==
  /\ pc[w] = "enter"
  /\ \/ to_kill_ /\ pc' = [pc EXCEPT ![w] = "exit"] /\ UNCHANGED <<batch, at, calls>>
     \/ ~to_kill_ /\ Active(w) /\ ScanFrom(w, 1)
     \/ /\ ~to_kill_
        /\ ~Active(w)
        /\ pc' = [pc EXCEPT ![w] = "sleep"]
        /\ UNCHANGED <<batch, at, calls>>
  /\ UNCHANGED <<to_kill_, owner, total>>

\* f returned, mu_ is taken again and the loop goes on.
FReturned(w) ==
  /\ pc[w] = "run"
  /\ ScanFrom(w, at[w] + 1)
  /\ UNCHANGED <<to_kill_, owner, total>>

NotifyNobody(w) == pc[w] = "notify" /\ UNCHANGED owner
WakeOwner(w) ==
  /\ pc[w] = "notify"
  /\ owner' = IF owner = "sleep" THEN "enter" ELSE owner

\* thread_done_.notify_one(), after mu_ was released.
NotifyOwner(w) ==
  /\ WakeOwner(w)
  /\ pc' = [pc EXCEPT ![w] = "top"]
  /\ UNCHANGED <<to_kill_, batch, at, calls, total>>

\* Condition variables may wake up for no reason.
SpuriousWakeup(w) ==
  /\ pc[w] = "sleep"
  /\ pc' = [pc EXCEPT ![w] = "enter"]
  /\ UNCHANGED <<to_kill_, batch, at, owner, calls, total>>

SpuriousOwnerWakeup ==
  /\ owner = "sleep"
  /\ owner' = "enter"
  /\ UNCHANGED <<to_kill_, batch, pc, at, calls, total>>

\* The owner is gone and with it the object.
Done == owner = "gone" /\ UNCHANGED vars

OwnerNext ==
  \/ \E n \in 0 .. MaxArgs : RunInParallel(n)
  \/ NotifyWorkers
  \/ AwaitWorkers
  \/ Destroy
  \/ Joined
  \/ SpuriousOwnerWakeup
  \/ Done

WorkerNext(w) ==
  TestKill(w) \/ Enter(w) \/ FReturned(w) \/ NotifyOwner(w) \/ SpuriousWakeup(w)

Next == OwnerNext \/ \E w \in Workers : WorkerNext(w)

Spec == Init /\ [][Next]_vars

\* What a running thread does: to wake up spuriously is not its doing.
WorkerRuns(w) == TestKill(w) \/ Enter(w) \/ FReturned(w) \/ NotifyOwner(w)
OwnerRuns == NotifyWorkers \/ AwaitWorkers \/ Joined

-----------------------------------------------------------------------------
(* Properties                                                              *)

\* Types; DoWork keeps the counter of active threads between zero and the size
\* of the pool.
TypeOK ==
  /\ to_kill_ \in BOOLEAN
  /\ batch_arguments_ \in {NoBatch} \cup 0 .. MaxArgs
  /\ batch_done_ \subseteq Args
  /\ active_threads_ \subseteq Workers
  /\ number_active_ \in 0 .. Cardinality(Workers)
  /\ pc \in [Workers -> {"top", "enter", "sleep", "run", "notify", "exit"}]
  /\ at \in [Workers -> 0 .. MaxArgs]
  /\ owner \in {"idle", "set", "enter", "sleep", "join", "gone"}
  /\ calls \in [Args -> Nat]
  /\ total \in 0 .. MaxArgs

\* When RunInParallel has returned, f was called exactly once on every
\* argument of the batch and each of these calls has returned.
BatchComplete ==
  owner \in {"idle", "join", "gone"} =>
    /\ \A i \in 1 .. total : calls[i] = 1
    /\ \A w \in Workers : pc[w] # "run"

\* The pointers to the arguments and the function lead to the owner's stack: a
\* pool thread that uses them finds them set, and to the batch they were set for.
NoDanglingBatch ==
  \A w \in Workers :
    pc[w] = "run" => batch_arguments_ = total /\ at[w] \in 1 .. total

\* No two pool threads work on the same argument.
OneThreadPerArgument ==
  \A v, w \in Workers : pc[v] = "run" /\ pc[w] = "run" /\ at[v] = at[w] => v = w

\* A batch that was started completes, although workers and owner sleep on two
\* condition variables and both notifications are sent without the lock.
BatchCompletes == owner = "set" ~> owner = "idle"

\* The destructor returns: every pool thread notices to_kill_.
DestructorReturns == owner = "join" ~> owner = "gone"
=============================================================================
