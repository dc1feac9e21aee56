--------------------- MODULE ThreadBatchProcessorProofs ---------------------
(***************************************************************************)
(* RunInParallel returns only when every argument was processed exactly    *)
(* once, for every number of threads and every batch size.                 *)
(***************************************************************************)
EXTENDS ThreadBatchProcessor, FiniteSetTheorems, TLAPS

USE ProcessorAssumption

\* A batch is in progress: the owner has set it up and not cleaned up yet.
InBatch == owner \in {"set", "enter", "sleep"}

\* What the counter and the flags of the pool mean.
Counted ==
  /\ number_active_ = Cardinality(active_threads_)
  /\ ~InBatch => active_threads_ = {}
  /\ InBatch => batch_arguments_ = total /\ batch_done_ \subseteq 1 .. total

\* A thread that runs f has claimed everything up to its argument, one that has
\* become inactive has seen everything claimed.
Scanned ==
  /\ \A w \in Workers : pc[w] = "run" =>
       /\ w \in active_threads_
       /\ at[w] \in 1 .. total
       /\ \A k \in Args : k =< at[w] => k \in batch_done_
  /\ InBatch => \A w \in Workers \ active_threads_ : 1 .. total \subseteq batch_done_

\* f was called once on what is claimed and never on anything else.
CalledOnce ==
  /\ InBatch => \A i \in Args : calls[i] = IF i \in batch_done_ THEN 1 ELSE 0
  /\ ~InBatch => \A i \in 1 .. total : calls[i] = 1

IInv == TypeOK /\ Counted /\ Scanned /\ CalledOnce /\ OneThreadPerArgument

\* No worker at all is active once the counter is down to zero.
LEMMA NoneActive == TypeOK /\ Counted /\ number_active_ = 0 => active_threads_ = {}
<1> SUFFICES ASSUME TypeOK, Counted, number_active_ = 0 PROVE active_threads_ = {}
  OBVIOUS
<1>1. IsFiniteSet(active_threads_)
  BY FS_Subset DEF TypeOK
<1> QED BY <1>1, FS_EmptySet DEF Counted

\* The initial state satisfies the inductive invariant.
LEMMA InitIInv == Init => IInv
<1> SUFFICES ASSUME Init PROVE IInv
  OBVIOUS
<1>1. Cardinality({}) = 0 /\ Cardinality(Workers) \in Nat
  BY FS_EmptySet, FS_CardinalityType
<1>2. TypeOK
  <2>1. /\ number_active_ \in 0 .. Cardinality(Workers) /\ total \in 0 .. MaxArgs
        /\ calls \in [Args -> Nat] /\ at \in [Workers -> 0 .. MaxArgs]
    BY <1>1 DEF Init
  <2>2. /\ pc \in [Workers -> {"top", "enter", "sleep", "run", "notify", "exit"}]
        /\ owner \in {"idle", "set", "enter", "sleep", "join", "gone"}
        /\ batch_arguments_ \in {NoBatch} \cup 0 .. MaxArgs
        /\ to_kill_ \in BOOLEAN /\ batch_done_ \subseteq Args /\ active_threads_ \subseteq Workers
    BY DEF Init
  <2> QED BY <2>1, <2>2 DEF TypeOK
<1>3. Counted
  BY <1>1 DEF Init, Counted, InBatch
<1>4. Scanned /\ CalledOnce /\ OneThreadPerArgument
  BY DEF Init, Scanned, CalledOnce, OneThreadPerArgument, InBatch
<1> QED BY <1>2, <1>3, <1>4 DEF IInv

\* The scan of the for loop, started from what it already knows to be done.
LEMMA ScanStep ==
  ASSUME IInv, InBatch,
         NEW w \in Workers, w \in active_threads_,
         NEW i \in Nat, \A k \in Args : k < i => k \in batch_done_,
         ScanFrom(w, i), UNCHANGED <<to_kill_, owner, total>>
  PROVE  IInv'
<1>0. /\ TypeOK /\ Counted /\ Scanned /\ CalledOnce /\ OneThreadPerArgument
      /\ batch_arguments_ = total /\ total \in 0 .. MaxArgs
      /\ pc \in [Workers -> {"top", "enter", "sleep", "run", "notify", "exit"}]
      /\ at \in [Workers -> 0 .. MaxArgs]
      /\ calls \in [Args -> Nat]
      /\ InBatch'
  BY DEF IInv, TypeOK, Counted, InBatch
<1>1. ASSUME NEW j \in Args,
             Claimable(i, j),
             batch_done_' = batch_done_ \cup {j},
             pc' = [pc EXCEPT ![w] = "run"],
             at' = [at EXCEPT ![w] = j],
             calls' = [calls EXCEPT ![j] = @ + 1],
             UNCHANGED <<batch_arguments_, active_threads_, number_active_>>
      PROVE  IInv'
  <2>1. j \in 1 .. total /\ j \notin batch_done_
    BY <1>0, <1>1 DEF Claimable, Args
  <2>2. TypeOK'
    BY <1>0, <1>1 DEF TypeOK, Args
  <2>3. Counted'
    BY <1>0, <1>1, <2>1 DEF Counted, InBatch
  <2>4. \A k \in Args : k =< j => k \in batch_done_'
    BY <1>1 DEF Claimable, Args
  <2>5. Scanned'
    BY <1>0, <1>1, <2>1, <2>4 DEF Scanned
  <2>6. CalledOnce'
    BY <1>0, <1>1, <2>1 DEF CalledOnce
  <2>7. ASSUME NEW v \in Workers, pc[v] = "run" PROVE at[v] # j
    BY <1>0, <2>1, <2>7 DEF Scanned, Args
  <2>8. OneThreadPerArgument'
    BY <1>0, <1>1, <2>7 DEF OneThreadPerArgument
  <2> QED BY <2>2, <2>3, <2>5, <2>6, <2>8 DEF IInv
<1>2. ASSUME Exhausted(i),
             active_threads_' = active_threads_ \ {w},
             number_active_' = number_active_ - 1,
             pc' = [pc EXCEPT ![w] = IF Last THEN "notify" ELSE "top"],
             UNCHANGED <<batch_arguments_, batch_done_, at, calls>>
      PROVE  IInv'
  <2>1. IsFiniteSet(active_threads_)
    BY <1>0, FS_Subset DEF TypeOK
  <2>2. Cardinality(active_threads_') = Cardinality(active_threads_) - 1
    BY <1>2, <2>1, FS_RemoveElement
  <2>3. Cardinality(active_threads_') \in Nat
    BY <1>2, <2>1, FS_RemoveElement, FS_CardinalityType
  <2>4. TypeOK'
    <3>1. number_active_' \in 0 .. Cardinality(Workers)
      BY <1>0, <1>2, <2>2, <2>3, FS_CardinalityType DEF TypeOK, Counted
    <3> QED BY <1>0, <1>2, <3>1 DEF TypeOK
  <2>5. Counted'
    BY <1>0, <1>2, <2>2 DEF Counted
  <2>6. 1 .. total \subseteq batch_done_
    BY <1>0, <1>2 DEF Exhausted, Args
  <2>7. \A v \in Workers : pc'[v] = "run" => v # w /\ pc[v] = "run"
    BY <1>0, <1>2
  <2>8. Scanned'
    BY <1>0, <1>2, <2>6, <2>7 DEF Scanned
  <2>9. CalledOnce' /\ OneThreadPerArgument'
    BY <1>0, <1>2, <2>7 DEF CalledOnce, OneThreadPerArgument
  <2> QED BY <2>4, <2>5, <2>8, <2>9 DEF IInv
<1> QED BY <1>1, <1>2 DEF ScanFrom

\* Every step preserves the inductive invariant.
LEMMA NextIInv == IInv /\ [Next]_vars => IInv'
<1> SUFFICES ASSUME IInv, [Next]_vars PROVE IInv'
  OBVIOUS
<1>0. /\ TypeOK /\ Counted /\ Scanned /\ CalledOnce /\ OneThreadPerArgument
      /\ total \in 0 .. MaxArgs
      /\ pc \in [Workers -> {"top", "enter", "sleep", "run", "notify", "exit"}]
      /\ owner \in {"idle", "set", "enter", "sleep", "join", "gone"}
  BY DEF IInv, TypeOK
\* A step that leaves the batch alone and starts no call of f.
<1>1. ASSUME UNCHANGED <<batch, at, calls, total>>, InBatch' = InBatch,
             to_kill_' \in BOOLEAN,
             pc' \in [Workers -> {"top", "enter", "sleep", "run", "notify", "exit"}],
             owner' \in {"idle", "set", "enter", "sleep", "join", "gone"},
             \A w \in Workers : pc'[w] = "run" => pc[w] = "run"
      PROVE  IInv'
  <2>1. /\ batch_arguments_' = batch_arguments_ /\ batch_done_' = batch_done_
        /\ active_threads_' = active_threads_ /\ number_active_' = number_active_
        /\ at' = at /\ calls' = calls /\ total' = total
    BY <1>1 DEF batch
  <2>2. TypeOK'
    BY <1>0, <1>1, <2>1 DEF TypeOK
  <2>3. Counted' /\ CalledOnce'
    BY <1>0, <1>1, <2>1 DEF Counted, CalledOnce
  <2>4. Scanned' /\ OneThreadPerArgument'
    BY <1>0, <1>1, <2>1 DEF Scanned, OneThreadPerArgument
  <2> QED BY <2>2, <2>3, <2>4 DEF IInv
<1>2. ASSUME NEW n \in 0 .. MaxArgs, RunInParallel(n) PROVE IInv'
  <2>1. ~InBatch /\ InBatch' /\ active_threads_ = {} /\ Cardinality(Workers) \in Nat
    BY <1>0, <1>2, FS_CardinalityType DEF RunInParallel, InBatch, Counted
  <2>2. \A w \in Workers : pc'[w] # "run"
    BY <1>0, <1>2, <2>1 DEF RunInParallel, Scanned
  <2>3. TypeOK'
    BY <1>0, <1>2, <2>1 DEF RunInParallel, TypeOK
  <2>4. Counted'
    BY <1>2, <2>1 DEF RunInParallel, Counted
  <2>5. Scanned' /\ OneThreadPerArgument'
    BY <1>2, <2>2 DEF RunInParallel, Scanned, OneThreadPerArgument
  <2>6. CalledOnce'
    BY <1>2, <2>1 DEF RunInParallel, CalledOnce
  <2> QED BY <2>3, <2>4, <2>5, <2>6 DEF IInv
<1>3. CASE NotifyWorkers
  BY <1>0, <1>1, <1>3 DEF NotifyWorkers, WakeWorkers, InBatch, TypeOK
<1>4. CASE AwaitWorkers
  <2>1. CASE ~AllInactive /\ UNCHANGED batch /\ owner' = "sleep"
    BY <1>0, <1>1, <1>4, <2>1 DEF AwaitWorkers, InBatch, TypeOK
  <2>2. CASE /\ AllInactive /\ owner' = "idle" /\ batch_arguments_' = NoBatch
             /\ batch_done_' = {} /\ active_threads_' = {} /\ UNCHANGED number_active_
    <3>1. active_threads_ = {} /\ InBatch /\ ~InBatch'
      BY <1>0, <1>4, <2>2, NoneActive DEF AllInactive, AwaitWorkers, InBatch
    <3>2. \A w \in Workers : pc'[w] # "run"
      BY <1>0, <1>4, <3>1 DEF Scanned, AwaitWorkers
    <3>3. 1 .. total \subseteq batch_done_
      BY <1>0, <3>1 DEF Scanned
    <3>4. TypeOK'
      BY <1>0, <1>4, <2>2 DEF AwaitWorkers, TypeOK
    <3>5. Counted'
      BY <1>0, <2>2, <3>1 DEF Counted
    <3>6. Scanned' /\ OneThreadPerArgument'
      BY <3>1, <3>2 DEF Scanned, OneThreadPerArgument
    <3>7. CalledOnce'
      BY <1>0, <1>4, <3>1, <3>3 DEF CalledOnce, AwaitWorkers, Args
    <3> QED BY <3>4, <3>5, <3>6, <3>7 DEF IInv
  <2> QED BY <1>4, <2>1, <2>2 DEF AwaitWorkers
<1>5. CASE Destroy
  BY <1>0, <1>1, <1>5 DEF Destroy, Kill, WakeWorkers, InBatch
<1>6. CASE Joined
  BY <1>0, <1>1, <1>6 DEF Joined, InBatch, TypeOK
<1>7. CASE SpuriousOwnerWakeup
  BY <1>0, <1>1, <1>7 DEF SpuriousOwnerWakeup, InBatch, TypeOK
<1>8. CASE UNCHANGED vars
  BY <1>0, <1>1, <1>8 DEF vars, InBatch, TypeOK
<1>9. ASSUME NEW w \in Workers, WorkerNext(w) PROVE IInv'
  <2>1. CASE TestKill(w)
    BY <1>0, <1>1, <2>1 DEF TestKill, InBatch, TypeOK
  <2>2. CASE Enter(w)
    <3>1. CASE ~to_kill_ /\ w \in active_threads_ /\ ScanFrom(w, 1)
      <4>1. InBatch /\ \A k \in Args : k < 1 => k \in batch_done_
        BY <1>0, <3>1 DEF Counted, Args
      <4> QED BY <2>2, <3>1, <4>1, ScanStep DEF Enter, Active
    <3>2. CASE UNCHANGED <<batch, at, calls>>
               /\ (pc' = [pc EXCEPT ![w] = "exit"] \/ pc' = [pc EXCEPT ![w] = "sleep"])
      BY <1>0, <1>1, <2>2, <3>2 DEF Enter, Active, InBatch, TypeOK
    <3> QED BY <2>2, <3>1, <3>2 DEF Enter, Active
  <2>3. CASE FReturned(w)
    <3>1. w \in active_threads_ /\ at[w] + 1 \in Nat
          /\ \A k \in Args : k < at[w] + 1 => k \in batch_done_
      BY <1>0, <2>3 DEF FReturned, Scanned, Args
    <3>2. InBatch
      BY <1>0, <3>1 DEF Counted
    <3> QED BY <2>3, <3>1, <3>2, ScanStep DEF FReturned
  <2>4. CASE NotifyOwner(w)
    BY <1>0, <1>1, <2>4 DEF NotifyOwner, WakeOwner, InBatch, TypeOK
  <2>5. CASE SpuriousWakeup(w)
    BY <1>0, <1>1, <2>5 DEF SpuriousWakeup, InBatch, TypeOK
  <2> QED BY <1>9, <2>1, <2>2, <2>3, <2>4, <2>5 DEF WorkerNext
<1> QED
  BY <1>2, <1>3, <1>4, <1>5, <1>6, <1>7, <1>8, <1>9 DEF Next, OwnerNext, Done

\* The inductive invariant holds of every behaviour.
THEOREM Invariance == Spec => []IInv
BY InitIInv, NextIInv, PTL DEF Spec

\* RunInParallel returns only when f was called exactly once on every argument
\* and all calls have returned (see BatchComplete).
THEOREM BatchIsComplete == Spec => []BatchComplete
<1>1. IInv => BatchComplete
  BY DEF IInv, TypeOK, BatchComplete, CalledOnce, Counted, Scanned, InBatch
<1> QED BY <1>1, Invariance, PTL

\* A thread in f uses the pointers of the batch they were set for.
THEOREM NoBatchDangles == Spec => []NoDanglingBatch
<1>1. IInv => NoDanglingBatch
  BY DEF IInv, NoDanglingBatch, Counted, Scanned
<1> QED BY <1>1, Invariance, PTL

\* Every variable keeps its type: the counter never drops below zero.
THEOREM TypeCorrect == Spec => []TypeOK
<1>1. IInv => TypeOK
  BY DEF IInv
<1> QED BY <1>1, Invariance, PTL

\* No argument is processed by two threads.
THEOREM OneThreadEach == Spec => []OneThreadPerArgument
<1>1. IInv => OneThreadPerArgument
  BY DEF IInv
<1> QED BY <1>1, Invariance, PTL
=============================================================================
