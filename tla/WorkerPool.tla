----------------------------- MODULE WorkerPool -----------------------------
(***************************************************************************)
(* The request worker pool of src/src/server.c: a ring buffer of           *)
(* JOB_QUEUE_CAP jobs guarded by one mutex and one condition variable, the *)
(* workers that drain it, and the event-loop thread, which submits jobs    *)
(* and, once the loop has stopped, destroys the pool.                      *)
(*                                                                         *)
(* All of the pool's fields are accessed under pool->lock alone, so a      *)
(* critical section is one step.  handle_request runs without the lock and *)
(* is a step of its own.                                                   *)
(***************************************************************************)
EXTENDS Naturals, Sequences, FiniteSets

CONSTANTS
  Workers,   (* the n_parallel request workers                             *)
  Jobs,      (* the jobs the event loop may submit                         *)
  CAP,       (* JOB_QUEUE_CAP                                              *)
  None       (* no job                                                     *)

ASSUME PoolAssumption ==
  /\ CAP \in Nat \ {0}
  /\ None \notin Jobs
  /\ IsFiniteSet(Workers) /\ Workers # {}

VARIABLES
  queue, head, tail, count, stop,   (* fields of WorkerPool                *)
  pc,        (* "lock", "waiting", "handling" or "exited", per worker      *)
  job,       (* the worker's local job                                     *)
  owner,     (* the event-loop thread: "serving", "joining", "freed"       *)
  fresh,     (* jobs not submitted yet                                     *)
  handled    (* history: jobs whose handle_request has ended               *)

ring == <<queue, head, tail, count>>
vars == <<queue, head, tail, count, stop, pc, job, owner, fresh, handled>>

Slots == 0..(CAP - 1)

\* worker_pool_create: scalloc, then one thread per session.
Init ==
  /\ queue = [i \in Slots |-> None]
  /\ head = 0 /\ tail = 0 /\ count = 0 /\ stop = FALSE
  /\ pc = [w \in Workers |-> "lock"]
  /\ job = [w \in Workers |-> None]
  /\ owner = "serving" /\ fresh = Jobs /\ handled = {}

-----------------------------------------------------------------------------
\* pthread_cond_signal(&pool->cond): wakes one waiting worker, if there is one.
Signal ==
  IF \E w \in Workers : pc[w] = "waiting"
  THEN \E w \in Workers : pc[w] = "waiting" /\ pc' = [pc EXCEPT ![w] = "lock"]
  ELSE UNCHANGED pc

Full == count = CAP

\* worker_pool_submit returned false: the caller answers 503.
Refused(j) ==
  /\ owner = "serving" /\ j \in fresh
  /\ stop \/ Full
  /\ fresh' = fresh \ {j}
  /\ UNCHANGED <<ring, stop, pc, job, owner, handled>>

\* Mutant of Submit: nobody is signalled.
SubmitSilently(j) ==
  /\ owner = "serving" /\ j \in fresh
  /\ ~stop /\ ~Full
  /\ queue' = [queue EXCEPT ![tail] = j]
  /\ tail' = (tail + 1) % CAP
  /\ count' = count + 1
  /\ fresh' = fresh \ {j}
  /\ UNCHANGED <<head, stop, pc, job, owner, handled>>

\* worker_pool_submit
Submit(j) ==
  /\ owner = "serving" /\ j \in fresh
  /\ ~stop /\ ~Full
  /\ queue' = [queue EXCEPT ![tail] = j]
  /\ tail' = (tail + 1) % CAP
  /\ count' = count + 1
  /\ Signal
  /\ fresh' = fresh \ {j}
  /\ UNCHANGED <<head, stop, job, owner, handled>>

\* worker_main, with the lock: sleep while there is nothing to do ...
Wait(w) ==
  /\ pc[w] = "lock" /\ count = 0 /\ ~stop
  /\ pc' = [pc EXCEPT ![w] = "waiting"]
  /\ UNCHANGED <<ring, stop, job, owner, fresh, handled>>

\* Mutant of Leave: stop alone ends the worker, with jobs still queued.
LeaveAtOnce(w) ==
  /\ pc[w] = "lock" /\ stop
  /\ pc' = [pc EXCEPT ![w] = "exited"]
  /\ UNCHANGED <<ring, stop, job, owner, fresh, handled>>

\* ... leave when the pool is stopped and drained ...
Leave(w) ==
  /\ pc[w] = "lock" /\ count = 0 /\ stop
  /\ pc' = [pc EXCEPT ![w] = "exited"]
  /\ UNCHANGED <<ring, stop, job, owner, fresh, handled>>

\* ... or take the oldest job.
Take(w) ==
  /\ pc[w] = "lock" /\ count > 0
  /\ job' = [job EXCEPT ![w] = queue[head]]
  /\ head' = (head + 1) % CAP
  /\ count' = count - 1
  /\ pc' = [pc EXCEPT ![w] = "handling"]
  /\ UNCHANGED <<queue, tail, stop, owner, fresh, handled>>

\* handle_request returns; sfree(job.body).
Handle(w) ==
  /\ pc[w] = "handling"
  /\ handled' = handled \cup {job[w]}
  /\ job' = [job EXCEPT ![w] = None]
  /\ pc' = [pc EXCEPT ![w] = "lock"]
  /\ UNCHANGED <<ring, stop, owner, fresh>>

\* Mutant of Destroy: one worker is woken, the others sleep on.
DestroySignal ==
  /\ owner = "serving" /\ owner' = "joining"
  /\ stop' = TRUE
  /\ Signal
  /\ UNCHANGED <<ring, job, fresh, handled>>

\* worker_pool_destroy: stop, wake everybody ...
Destroy ==
  /\ owner = "serving" /\ owner' = "joining"
  /\ stop' = TRUE
  /\ pc' = [w \in Workers |-> IF pc[w] = "waiting" THEN "lock" ELSE pc[w]]
  /\ UNCHANGED <<ring, job, fresh, handled>>

\* ... and free the pool when every worker has been joined.
Join ==
  /\ owner = "joining" /\ \A w \in Workers : pc[w] = "exited"
  /\ owner' = "freed"
  /\ UNCHANGED <<ring, stop, pc, job, fresh, handled>>

\* pthread_cond_wait may return without a signal.
SpuriousWakeup(w) ==
  /\ pc[w] = "waiting"
  /\ pc' = [pc EXCEPT ![w] = "lock"]
  /\ UNCHANGED <<ring, stop, job, owner, fresh, handled>>

Freed == owner = "freed" /\ UNCHANGED vars

WorkerStep(w) == Wait(w) \/ Leave(w) \/ Take(w) \/ Handle(w)

Next ==
  \/ \E j \in Jobs : Submit(j) \/ Refused(j)
  \/ \E w \in Workers : WorkerStep(w) \/ SpuriousWakeup(w)
  \/ Destroy \/ Join \/ Freed

Spec == Init /\ [][Next]_vars

\* Workers run and get the mutex; handle_request returns (its loop is bounded
\* by max_tokens); a destroy that has begun joins.  Nothing obliges the event
\* loop to submit or to stop.
Fairness == WF_vars(Join) /\ \A w \in Workers : WF_vars(WorkerStep(w))

FairSpec == Spec /\ Fairness

-----------------------------------------------------------------------------
\* The jobs in the ring, oldest first.
Pending == [i \in 1..count |-> queue[(head + i - 1) % CAP]]

(* The pool implements JobService: what the ring, the mutex and the        *)
(* condition variable do is a bounded FIFO that handles each job once and  *)
(* drains before it ends ("Drain remaining work even after shutdown").     *)
Service == INSTANCE JobService WITH
  pending <- Pending,
  active <- job,
  state <- CASE owner = "serving" -> "open" [] owner = "joining" -> "closed"
             [] owner = "freed" -> "ended"

ImplementsJobService == Service!Spec

(* Every job that worker_pool_submit accepted is handled in the end.       *)
EveryJobHandled ==
  \A j \in Jobs : (\E i \in 1..count : Pending[i] = j) ~> (j \in handled)

(* A destroyed pool is joined and freed: no worker sleeps through it.      *)
DestroyEnds == (owner = "joining") ~> (owner = "freed")
=============================================================================
