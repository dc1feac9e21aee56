--------------------------- MODULE MCThreadRunner ---------------------------
(***************************************************************************)
(* A program that uses both interfaces of thread_runner.h: its main thread *)
(* owns a pool of threads (ThreadBatchProcessor) and, between two batches, *)
(* also calls the function template RunInParallelWithResult (par), which   *)
(* spawns threads of its own while the pool's threads go to sleep.         *)
(***************************************************************************)
EXTENDS ThreadBatchProcessor

CONSTANTS ParBatch, ParArgs

VARIABLES in_par, done, results, par_pc, from, joined, par_calls

Par == INSTANCE RunInParallel
         WITH Batch <- ParBatch, Args <- ParArgs, NULL <- 0,
              pc <- par_pc, calls <- par_calls

call_vars == <<done, results, par_pc, from, joined, par_calls>>
par_vars == <<in_par, call_vars>>

MCInit == Init /\ Par!Init /\ in_par = FALSE

\* The call begins; one call is enough, as it shares nothing with the next one.
CallPar ==
  /\ owner = "idle"
  /\ ~in_par
  /\ ~Par!Returned
  /\ in_par' = TRUE
  /\ UNCHANGED <<vars, call_vars>>

ReturnPar ==
  /\ in_par
  /\ Par!Returned
  /\ in_par' = FALSE
  /\ UNCHANGED <<vars, call_vars>>

ParCaller == in_par /\ Par!Caller /\ UNCHANGED <<vars, in_par>>
ParThread(j) == in_par /\ Par!Step(j) /\ UNCHANGED <<vars, in_par>>

PoolOwner == ~in_par /\ OwnerNext /\ UNCHANGED par_vars
PoolWorker(w) == WorkerNext(w) /\ UNCHANGED par_vars

MCNext ==
  \/ CallPar
  \/ ReturnPar
  \/ ParCaller
  \/ \E j \in Par!Threads : ParThread(j)
  \/ PoolOwner
  \/ \E w \in Workers : PoolWorker(w)

\* Threads that can run are scheduled and f returns.  That the owner starts or
\* destroys anything is its choice; what it started it carries on with.
MCSpec ==
  /\ MCInit /\ [][MCNext]_<<vars, par_vars>>
  /\ \A w \in Workers : WF_vars(WorkerRuns(w) /\ UNCHANGED par_vars)
  /\ WF_vars(OwnerRuns /\ ~in_par /\ UNCHANGED par_vars)
  /\ \A j \in Par!Threads : WF_par_vars(ParThread(j))
  /\ WF_par_vars(ParCaller \/ ReturnPar)

\* When RunInParallelWithResult returns, f was applied to every argument exactly
\* once and its result is at the index of the argument.
ParResultsComplete == Par!ResultsComplete

\* "This function will block and return when all functions have completed":
\* RunInParallelWithResult returns.
ParReturns == in_par ~> ~in_par
=============================================================================
