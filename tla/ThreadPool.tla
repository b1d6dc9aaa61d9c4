----------------------------- MODULE ThreadPool -----------------------------
(***************************************************************************)
(* The compute thread pool of src/src/pthreads.c: nthreads workers that    *)
(* share one mutex, one condition variable (notify) and a work descriptor  *)
(* (end, current, work, work_arg, done_count, done_work), and one caller   *)
(* that dispatches loops with pthreads_parallel_for and finally calls      *)
(* pthreads_destroy.                                                       *)
(*                                                                         *)
(* Granularity.  Workers read end, current, work and work_arg, and update  *)
(* current and done_work, WITHOUT the mutex.  So every store of the        *)
(* dispatch to one of these fields is a step of its own, and so is each    *)
(* unlocked access of a worker.  A critical section that touches only      *)
(* fields that are accessed under the mutex alone (done_count, shutdown,   *)
(* the test of work in the wait loop) is one step.  The mutex is therefore *)
(* seen held only while the caller is inside the dispatch: LockFree.       *)
(* Stores become visible in program order (x86 TSO).                       *)
(*                                                                         *)
(* A call of work is split in two steps, its start (which reads work and   *)
(* work_arg) and its end (with the done_work increment).  Calling through  *)
(* a NULL work, or with the work_arg of an earlier dispatch, whose stack   *)
(* frame is gone, is undefined behaviour: the process stops in a fault.    *)
(***************************************************************************)
EXTENDS Integers, Sequences, FiniteSets

CONSTANTS
  Workers,    (* the worker threads                                        *)
  Calls,      (* the dispatches the caller makes: [start, end] records     *)
  MaxIndex    (* current saturates here; every end is at most MaxIndex, so *)
              (* larger values are indistinguishable to every comparison   *)

ASSUME WorkersAssumption == IsFiniteSet(Workers) /\ Workers # {}

ASSUME CallsAssumption ==
  /\ MaxIndex \in Nat
  /\ Calls \in Seq([start : 0..MaxIndex, end : 0..MaxIndex])

VARIABLES
  pc,         (* control point of each worker                              *)
  claimed,    (* each worker's local i                                     *)
  running,    (* the call whose work_arg a worker's callback is using, 0 = none *)
  cpc,        (* control point of the caller                               *)
  call,       (* number of calls of pthreads_parallel_for begun so far     *)
  end, current, doneCount, doneWork, shutdown,   (* fields of pthreads_t   *)
  work,       (* pool->work: 0 is NULL, k is the function of call k        *)
  workArg,    (* pool->work_arg: k is the argument of call k               *)
  fault,      (* "none", or the undefined behaviour that stopped the process *)
  finished    (* history: the indices whose callback has ended, per call   *)

descriptor == <<end, current, doneCount, doneWork, shutdown, work, workArg>>
vars == <<pc, claimed, running, cpc, call, end, current, doneCount, doneWork,
          shutdown, work, workArg, fault, finished>>

-----------------------------------------------------------------------------
CallIds == 1..Len(Calls)
Start(k) == Calls[k].start
End(k) == Calls[k].end
Indices(k) == Start(k)..(End(k) - 1)

nthreads == Cardinality(Workers)
Idle == {"enter", "waiting", "exited"}
Storing == {"current", "done_work", "work", "work_arg"}

\* Nobody holds pool->lock: only the caller keeps it across several steps.
LockFree == cpc \notin Storing

\* A thread is at a control point of a process that has not stopped.
At(w, loc) == fault = "none" /\ pc[w] = loc
CallerAt(loc) == fault = "none" /\ cpc = loc

\* current + 1 and done_count + 1, cut off where no comparison can tell.
NextIndex == IF current < MaxIndex THEN current + 1 ELSE current
NextCount == IF doneCount < nthreads THEN doneCount + 1 ELSE doneCount

\* pthread_cond_broadcast(&pool->notify): every sleeper must reacquire the mutex.
Woken == [w \in Workers |-> IF pc[w] = "waiting" THEN "enter" ELSE pc[w]]

-----------------------------------------------------------------------------
(* pthreads_create: scalloc zeroes the descriptor; every thread starts at  *)
(* the mutex acquisition that precedes its loop.                           *)
Init ==
  /\ pc = [w \in Workers |-> "enter"]
  /\ claimed = [w \in Workers |-> 0]
  /\ running = [w \in Workers |-> 0]
  /\ cpc = "idle" /\ call = 0
  /\ end = 0 /\ current = 0 /\ doneCount = 0 /\ doneWork = 0
  /\ shutdown = FALSE /\ work = 0 /\ workArg = 0
  /\ fault = "none"
  /\ finished = [k \in CallIds |-> {}]

(* ---- worker_loop ------------------------------------------------------ *)

\* With the mutex: leave on shutdown, sleep while there is no work, else go
\* and claim iterations with the mutex released.
Enter(w) ==
  /\ At(w, "enter") /\ LockFree
  /\ pc' = [pc EXCEPT ![w] = IF shutdown THEN "exited"
                             ELSE IF work = 0 THEN "waiting" ELSE "claim"]
  /\ UNCHANGED <<claimed, running, cpc, call, descriptor, fault, finished>>

\* Mutant of Claim: i = pool->current++ without the atomic, which may lose an update.
LostUpdateClaim(w) ==
  /\ At(w, "claim")
  /\ claimed' = [claimed EXCEPT ![w] = current]
  /\ current' \in {current, NextIndex}
  /\ pc' = [pc EXCEPT ![w] = "test"]
  /\ UNCHANGED <<running, cpc, call, end, doneCount, doneWork, shutdown, work,
                 workArg, fault, finished>>

\* The compare-and-swap loop succeeds: an atomic fetch-and-increment.
Claim(w) ==
  /\ At(w, "claim")
  /\ claimed' = [claimed EXCEPT ![w] = current]
  /\ current' = NextIndex
  /\ pc' = [pc EXCEPT ![w] = "test"]
  /\ UNCHANGED <<running, cpc, call, end, doneCount, doneWork, shutdown, work,
                 workArg, fault, finished>>

\* if (i >= pool->end)
Test(w) ==
  /\ At(w, "test")
  /\ pc' = [pc EXCEPT ![w] = IF claimed[w] >= end THEN "report" ELSE "call"]
  /\ UNCHANGED <<claimed, running, cpc, call, descriptor, fault, finished>>

\* pool->work(pool->work_arg, tid, i) is entered.
BeginWork(w) ==
  /\ At(w, "call")
  /\ IF work # 0 /\ workArg = work
     THEN /\ pc' = [pc EXCEPT ![w] = "running"]
          /\ running' = [running EXCEPT ![w] = workArg]
          /\ UNCHANGED fault
     ELSE /\ fault' = IF work = 0 THEN "null_work" ELSE "stale_arg"
          /\ UNCHANGED <<pc, running>>
  /\ UNCHANGED <<claimed, cpc, call, descriptor, finished>>

\* ... and has returned; __sync_fetch_and_add(&pool->done_work, 1).
EndWork(w) ==
  /\ At(w, "running")
  /\ finished' = [finished EXCEPT ![running[w]] = @ \cup {claimed[w]}]
  /\ doneWork' = doneWork + 1
  /\ running' = [running EXCEPT ![w] = 0]
  /\ pc' = [pc EXCEPT ![w] = "claim"]
  /\ UNCHANGED <<claimed, cpc, call, end, current, doneCount, shutdown, work,
                 workArg, fault>>

\* Mutant of Report: the signal is missing.
SilentReport(w) ==
  /\ At(w, "report") /\ LockFree
  /\ doneCount' = NextCount
  /\ pc' = [pc EXCEPT ![w] = "enter"]
  /\ UNCHANGED <<claimed, running, cpc, call, end, current, doneWork, shutdown,
                 work, workArg, fault, finished>>

\* No iteration is left: count this worker and signal one sleeper, if any.
Report(w) ==
  /\ At(w, "report") /\ LockFree
  /\ doneCount' = NextCount
  /\ \/ /\ cpc = "waiting" /\ cpc' = "check"
        /\ pc' = [pc EXCEPT ![w] = "enter"]
     \/ /\ \E v \in Workers : /\ pc[v] = "waiting"
                              /\ pc' = [pc EXCEPT ![w] = "enter", ![v] = "enter"]
        /\ UNCHANGED cpc
     \/ /\ cpc # "waiting" /\ \A v \in Workers : pc[v] # "waiting"
        /\ pc' = [pc EXCEPT ![w] = "enter"]
        /\ UNCHANGED cpc
  /\ UNCHANGED <<claimed, running, call, end, current, doneWork, shutdown, work,
                 workArg, fault, finished>>

(* ---- pthreads_parallel_for -------------------------------------------- *)

\* start >= end: the call returns at once.
EmptyCall ==
  /\ CallerAt("idle") /\ call < Len(Calls)
  /\ Start(call + 1) >= End(call + 1)
  /\ call' = call + 1
  /\ UNCHANGED <<pc, claimed, running, cpc, descriptor, fault, finished>>

\* lock; pool->start = start; pool->end = end
StoreEnd ==
  /\ CallerAt("idle") /\ call < Len(Calls)
  /\ Start(call + 1) < End(call + 1)
  /\ call' = call + 1
  /\ end' = End(call + 1)
  /\ cpc' = "current"
  /\ UNCHANGED <<pc, claimed, running, current, doneCount, doneWork, shutdown,
                 work, workArg, fault, finished>>

\* pool->current = start; pool->done_count = 0
StoreCurrent ==
  /\ CallerAt("current")
  /\ current' = Start(call)
  /\ doneCount' = 0
  /\ cpc' = "done_work"
  /\ UNCHANGED <<pc, claimed, running, call, end, doneWork, shutdown, work,
                 workArg, fault, finished>>

\* pool->done_work = start
StoreDoneWork ==
  /\ CallerAt("done_work")
  /\ doneWork' = Start(call)
  /\ cpc' = "work"
  /\ UNCHANGED <<pc, claimed, running, call, end, current, doneCount, shutdown,
                 work, workArg, fault, finished>>

\* pool->work = work
StoreWork ==
  /\ CallerAt("work")
  /\ work' = call
  /\ cpc' = "work_arg"
  /\ UNCHANGED <<pc, claimed, running, call, end, current, doneCount, doneWork,
                 shutdown, workArg, fault, finished>>

\* pool->work_arg = arg; broadcast; unlock
StoreArg ==
  /\ CallerAt("work_arg")
  /\ workArg' = call
  /\ pc' = Woken
  /\ cpc' = "check"
  /\ UNCHANGED <<claimed, running, call, end, current, doneCount, doneWork,
                 shutdown, work, fault, finished>>

\* Mutant of Check: the caller waits for the reports alone.
CheckReportsOnly ==
  /\ CallerAt("check")
  /\ IF doneCount < nthreads
     THEN cpc' = "waiting" /\ UNCHANGED work
     ELSE cpc' = "idle" /\ work' = 0
  /\ UNCHANGED <<pc, claimed, running, call, end, current, doneCount, doneWork,
                 shutdown, workArg, fault, finished>>

\* while (done_count < nthreads || done_work < end) cond_wait; work = NULL; return
Check ==
  /\ CallerAt("check")
  /\ IF doneCount < nthreads \/ doneWork < End(call)
     THEN cpc' = "waiting" /\ UNCHANGED work
     ELSE cpc' = "idle" /\ work' = 0
  /\ UNCHANGED <<pc, claimed, running, call, end, current, doneCount, doneWork,
                 shutdown, workArg, fault, finished>>

(* ---- pthreads_destroy ------------------------------------------------- *)

Destroy ==
  /\ CallerAt("idle") /\ call = Len(Calls)
  /\ shutdown' = TRUE
  /\ pc' = Woken
  /\ cpc' = "join"
  /\ UNCHANGED <<claimed, running, call, end, current, doneCount, doneWork, work,
                 workArg, fault, finished>>

\* Every pthread_join has returned; the pool is freed.
Join ==
  /\ CallerAt("join") /\ \A w \in Workers : pc[w] = "exited"
  /\ cpc' = "freed"
  /\ UNCHANGED <<pc, claimed, running, call, descriptor, fault, finished>>

(* ---- POSIX ------------------------------------------------------------ *)

\* pthread_cond_wait may return without a signal.
SpuriousWakeup ==
  /\ fault = "none"
  /\ \/ /\ \E w \in Workers : pc[w] = "waiting" /\ pc' = [pc EXCEPT ![w] = "enter"]
        /\ UNCHANGED cpc
     \/ cpc = "waiting" /\ cpc' = "check" /\ UNCHANGED pc
  /\ UNCHANGED <<claimed, running, call, descriptor, fault, finished>>

\* A freed pool and a stopped process take no more steps.
Stopped == (cpc = "freed" \/ fault # "none") /\ UNCHANGED vars

-----------------------------------------------------------------------------
WorkerStep(w) ==
  Enter(w) \/ Claim(w) \/ Test(w) \/ BeginWork(w) \/ EndWork(w) \/ Report(w)

CallerStep ==
  \/ EmptyCall \/ StoreEnd \/ StoreCurrent \/ StoreDoneWork \/ StoreWork
  \/ StoreArg \/ Check \/ Destroy \/ Join

Next ==
  \/ \E w \in Workers : WorkerStep(w)
  \/ CallerStep
  \/ SpuriousWakeup
  \/ Stopped

Spec == Init /\ [][Next]_vars

\* Every thread keeps running, and the mutex starves nobody: a thread that
\* waits for it gets it in the end.
Fairness ==
  /\ \A w \in Workers : WF_vars(WorkerStep(w))
  /\ WF_vars(CallerStep)

FairSpec == Spec /\ Fairness

-----------------------------------------------------------------------------
Returned(k) == k < call \/ (k = call /\ cpc \in {"idle", "join", "freed"})

TypeOK ==
  /\ pc \in [Workers -> Idle \cup {"claim", "test", "call", "running", "report"}]
  /\ claimed \in [Workers -> 0..MaxIndex]
  /\ running \in [Workers -> 0..Len(Calls)]
  /\ cpc \in Storing \cup {"idle", "check", "waiting", "join", "freed"}
  /\ call \in 0..Len(Calls)
  /\ cpc \in Storing \cup {"check", "waiting"} => call > 0
  /\ end \in 0..MaxIndex /\ current \in 0..MaxIndex
  /\ doneCount \in 0..nthreads /\ doneWork \in Nat
  /\ shutdown \in BOOLEAN
  /\ work \in 0..Len(Calls) /\ workArg \in 0..Len(Calls)
  /\ fault \in {"none", "null_work", "stale_arg"}
  /\ finished \in [CallIds -> SUBSET (0..MaxIndex)]

(* An iteration of a dispatch is never entered twice: a callback in        *)
(* progress works on an index that no other callback of the same dispatch  *)
(* is working on, and that none has finished (the claim by compare-and-    *)
(* swap on pool->current in worker_loop).                                  *)
NoRepeatedIteration ==
  \A w \in Workers : running[w] # 0 =>
    /\ claimed[w] \notin finished[running[w]]
    /\ \A v \in Workers \ {w} : running[v] = running[w] => claimed[v] # claimed[w]

(* "The caller blocks until all iterations complete": when                 *)
(* pthreads_parallel_for has returned, the callback has ended for exactly  *)
(* the indices of [start, end).                                            *)
CompleteOnReturn ==
  \A k \in CallIds : Returned(k) => finished[k] = Indices(k)

(* No callback is still using the argument of a dispatch that has          *)
(* returned: the context lives on the stack of mat_vec_mul, which goes on. *)
NoCallbackAfterReturn ==
  \A w \in Workers : running[w] # 0 => ~Returned(running[w])

(* A worker never calls through a NULL work pointer, nor with the argument *)
(* of a previous dispatch (the regression test_rapid_reentrant_dispatch).  *)
(* It does not hold: a claim of one dispatch may meet the stores of the    *)
(* next.                                                                   *)
NoFault == fault = "none"

(* Every dispatch returns and pthreads_destroy joins every worker, unless  *)
(* the process has stopped in a fault.                                     *)
PoolFreed == <>(cpc = "freed" \/ fault # "none")

\* A worker that holds a claim it may still run.
Pending(w) == pc[w] \in {"test", "call", "running"} /\ claimed[w] < end

\* The new end of a dispatch has made a claim of an earlier one valid again: the
\* claim was made before current was stored.
LateClaim == cpc = "current" /\ \E w \in Workers : Pending(w)

(* The inductive invariant behind the safety properties, as long as no     *)
(* claim is late.                                                          *)
\* Where work stands while the caller is at each of its control points.
WorkInv ==
  /\ work = IF cpc \in {"work_arg", "check", "waiting"} THEN call ELSE 0
  /\ cpc \in {"check", "waiting"} => workArg = call
  /\ cpc \in Storing \cup {"check", "waiting"} =>
       Start(call) < End(call) /\ end = End(call)
  /\ workArg <= call
  /\ cpc \in Storing => workArg < call

\* From the store to current on, indices are claimed for the current dispatch:
\* every claim below end is a claim on an iteration of it that nobody
\* else holds and nobody has run.
Open == {"done_work", "work", "work_arg", "check", "waiting"}

ClaimInv ==
  /\ cpc \in Open => current >= Start(call)
  /\ \A w \in Workers :
      /\ pc[w] \in {"call", "running"} => Pending(w)
      /\ running[w] = IF pc[w] = "running" THEN call ELSE 0
      /\ pc[w] = "running" => cpc \in {"check", "waiting"}
      /\ Pending(w) =>
           /\ cpc \in Open
           /\ claimed[w] >= Start(call) /\ claimed[w] < current
           /\ claimed[w] \notin finished[call]
           /\ \A v \in Workers \ {w} : Pending(v) => claimed[v] # claimed[w]

\* done_work counts the iterations that have been run.
CountInv ==
  /\ \A k \in CallIds : k > call => finished[k] = {}
  /\ cpc \in Storing => finished[call] = {}
  /\ cpc \in {"check", "waiting"} =>
       finished[call] \subseteq (Start(call)..(current - 1)) \cap Indices(call)
  /\ cpc \in {"work", "work_arg", "check", "waiting"} =>
       doneWork = Start(call) + Cardinality(finished[call])

\* Between dispatches nothing is left to claim below end.
RestInv == cpc \in {"idle", "join", "freed"} => current >= end

PoolInv ==
  TypeOK /\ WorkInv /\ ClaimInv /\ CountInv /\ RestInv /\ CompleteOnReturn
=============================================================================
