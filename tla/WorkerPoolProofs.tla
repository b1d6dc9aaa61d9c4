-------------------------- MODULE WorkerPoolProofs --------------------------
(***************************************************************************)
(* Proofs about WorkerPool: the ring buffer, the mutex and the condition   *)
(* variable of worker_pool_submit, worker_main and worker_pool_destroy     *)
(* implement JobService, for any capacity, any number of workers and any   *)
(* set of jobs.                                                            *)
(***************************************************************************)
EXTENDS WorkerPool, Integers, SequenceTheorems, TLAPS

(* The fields of WorkerPool and the locals of the threads.                 *)
TypeOK ==
  /\ queue \in [Slots -> Jobs \cup {None}]
  /\ head \in Slots /\ tail \in Slots /\ count \in 0..CAP /\ stop \in BOOLEAN
  /\ pc \in [Workers -> {"lock", "waiting", "handling", "exited"}]
  /\ job \in [Workers -> Jobs \cup {None}]
  /\ owner \in {"serving", "joining", "freed"}
  /\ fresh \subseteq Jobs /\ handled \subseteq Jobs

(* tail is count slots after head, and the slots between hold jobs.        *)
RingSound ==
  /\ tail = (head + count) % CAP
  /\ \A i \in 0..(count - 1) : queue[(head + i) % CAP] \in Jobs

(* A worker holds a job exactly while it is in handle_request; the pool is *)
(* stopped exactly when the event loop has begun to destroy it; a worker   *)
(* leaves a pool that is stopped and drained, and stays the last to do so. *)
ThreadsSound ==
  /\ \A w \in Workers : pc[w] = "handling" <=> job[w] # None
  /\ stop <=> owner # "serving"
  /\ \A w \in Workers : pc[w] = "exited" => stop /\ count = 0

(* The inductive invariant of the pool.                                    *)
PoolInv == TypeOK /\ RingSound /\ ThreadsSound

-----------------------------------------------------------------------------
(* What % CAP does to an index that has left the ring at most once: it     *)
(* wraps to the front.                                                     *)
LEMMA Wrap ==
  \A x \in 0..(2 * CAP - 1) :
    x % CAP \in Slots /\ x % CAP = IF x < CAP THEN x ELSE x - CAP
BY PoolAssumption DEF Slots

(* The slots at two distances below CAP from head are different.           *)
LEMMA SlotsDistinct ==
  ASSUME NEW h \in Slots, NEW i \in Slots, NEW k \in Slots, i # k
  PROVE  (h + i) % CAP # (h + k) % CAP
BY Wrap, PoolAssumption DEF Slots

(* Moving head, or tail, on by one and then by i is moving it by i + 1.    *)
LEMMA WrapAdd ==
  ASSUME NEW h \in Slots, NEW i \in Slots
  PROVE  /\ (((h + 1) % CAP) + i) % CAP = (h + (i + 1)) % CAP
         /\ (((h + i) % CAP) + 1) % CAP = (h + (i + 1)) % CAP
<1>1. h \in Int /\ i \in Int /\ h >= 0 /\ i >= 0 /\ h < CAP /\ i < CAP /\ CAP \in Nat \ {0}
  BY PoolAssumption DEF Slots
<1>2. CASE h + 1 = CAP
  <2>1. (h + 1) % CAP = 0 
    BY <1>1, <1>2, Wrap DEF Slots
  <2>2. i % CAP = i
    BY <1>1, Wrap
  <2>3. (h + (i + 1)) % CAP = i
    BY <1>1, <1>2, Wrap
  <2>4. (((h + i) % CAP) + 1) % CAP = i
    BY <1>1, <1>2, Wrap
  <2>5. QED
    BY <2>1, <2>2, <2>3, <2>4, <1>1
<1>3. CASE h + 1 < CAP
  <2>1. (h + 1) % CAP = h + 1
    BY <1>1, <1>3, Wrap
  <2>2. (((h + i) % CAP) + 1) % CAP = (h + (i + 1)) % CAP
    BY <1>1, <1>3, Wrap
  <2>3. QED
    BY <2>1, <2>2, <1>1
<1>4. QED
  BY <1>1, <1>2, <1>3

-----------------------------------------------------------------------------
(* worker_pool_create makes an empty ring and idle workers.                *)
LEMMA InitInv == Init => PoolInv
<1> SUFFICES ASSUME Init PROVE PoolInv
  OBVIOUS
<1>1. stop \in BOOLEAN
  BY DEF Init
<1>2. TypeOK
  BY <1>1, PoolAssumption DEF Init, TypeOK, Slots
<1>3. RingSound
  BY PoolAssumption, Wrap DEF Init, RingSound
<1>4. stop <=> owner # "serving"
  BY DEF Init
<1>5. ThreadsSound
  BY <1>4 DEF Init, ThreadsSound
<1>6. QED
  BY <1>2, <1>3, <1>5 DEF PoolInv

(* pthread_cond_signal moves at most one worker from the wait set to the   *)
(* lock and touches no other.                                              *)
LEMMA SignalFacts ==
  ASSUME TypeOK, Signal
  PROVE  /\ pc' \in [Workers -> {"lock", "waiting", "handling", "exited"}]
         /\ \A w \in Workers : pc'[w] = pc[w] \/ (pc[w] = "waiting" /\ pc'[w] = "lock")
BY DEF TypeOK, Signal

(* worker_pool_submit keeps the invariant: the job goes to the slot after  *)
(* the last one, which no queued job has.                                  *)
LEMMA SubmitInv ==
  ASSUME PoolInv, NEW j \in Jobs, Submit(j)
  PROVE  PoolInv'
<1> USE PoolAssumption
<1>1. count \in Slots /\ count' = count + 1 /\ count' \in 1..CAP
  BY DEF Submit, Full, PoolInv, TypeOK, Slots
<1>2. head' = head /\ tail' = (tail + 1) % CAP /\ tail' \in Slots
  BY Wrap DEF Submit, PoolInv, TypeOK, Slots
<1>3. queue' = [queue EXCEPT ![tail] = j] /\ queue' \in [Slots -> Jobs \cup {None}]
  BY DEF Submit, PoolInv, TypeOK
<1>4. tail' = (head' + count') % CAP
  BY <1>1, <1>2, WrapAdd DEF PoolInv, TypeOK, RingSound
<1>5. ASSUME NEW i \in 0..(count' - 1) PROVE queue'[(head' + i) % CAP] \in Jobs
  <2>1. i \in Slots /\ (head + i) % CAP \in Slots
    BY <1>1, Wrap DEF PoolInv, TypeOK, Slots
  <2>2. CASE i = count
    BY <2>1, <2>2, <1>2, <1>3 DEF PoolInv, TypeOK, RingSound
  <2>3. CASE i # count
    <3>1. i \in 0..(count - 1) /\ queue[(head + i) % CAP] \in Jobs
      BY <1>1, <2>3 DEF PoolInv, RingSound, Slots
    <3>2. (head + i) % CAP # tail
      BY <1>1, <2>1, <2>3, SlotsDistinct DEF PoolInv, TypeOK, RingSound
    <3>3. QED
      BY <2>1, <3>1, <3>2, <1>2, <1>3 DEF PoolInv, TypeOK
  <2>4. QED
    BY <2>2, <2>3
<1>6. TypeOK'
  BY <1>1, <1>2, <1>3, SignalFacts DEF PoolInv, TypeOK, Submit
<1>7. ThreadsSound'
  BY SignalFacts DEF PoolInv, TypeOK, ThreadsSound, Submit
<1>8. QED
  BY <1>4, <1>5, <1>6, <1>7 DEF PoolInv, RingSound

(* worker_main taking the oldest job keeps the invariant.                  *)
LEMMA TakeInv ==
  ASSUME PoolInv, NEW w \in Workers, Take(w)
  PROVE  PoolInv'
<1> USE PoolAssumption
<1>1. /\ count \in 1..CAP /\ count' = count - 1 /\ count' \in Slots
      /\ head \in Slots /\ head' = (head + 1) % CAP /\ head' \in Slots
      /\ queue' = queue /\ tail' = tail
  BY Wrap DEF Take, PoolInv, TypeOK, Slots
<1>2. queue[head] \in Jobs
  <2>1. (head + 0) % CAP = head
    BY <1>1, Wrap DEF Slots
  <2>2. QED
    BY <1>1, <2>1 DEF PoolInv, RingSound
<1>3. tail' = (head' + count') % CAP
  <2>1. (head' + count') % CAP = (head + (count' + 1)) % CAP
    BY <1>1, WrapAdd
  <2>2. QED
    BY <1>1, <2>1 DEF PoolInv, RingSound
<1>4. ASSUME NEW i \in 0..(count' - 1) PROVE queue'[(head' + i) % CAP] \in Jobs
  <2>1. i \in Slots /\ i + 1 \in 0..(count - 1)
    BY <1>1 DEF Slots
  <2>2. (head' + i) % CAP = (head + (i + 1)) % CAP
    BY <1>1, <2>1, WrapAdd
  <2>3. QED
    BY <1>1, <2>1, <2>2 DEF PoolInv, RingSound
<1>5. TypeOK'
  BY <1>1, <1>2 DEF PoolInv, TypeOK, Take, Slots
<1>6. ThreadsSound'
  <2>1. \A v \in Workers : pc[v] # "exited"
    BY <1>1 DEF PoolInv, ThreadsSound
  <2>2. job' = [job EXCEPT ![w] = queue[head]] /\ pc' = [pc EXCEPT ![w] = "handling"]
    BY DEF Take
  <2>3. \A v \in Workers : pc'[v] # "exited"
    BY <2>1, <2>2 DEF PoolInv, TypeOK
  <2>4. \A v \in Workers : pc'[v] = "handling" <=> job'[v] # None
    BY <1>2, <2>2 DEF PoolInv, TypeOK, ThreadsSound
  <2>5. QED
    BY <2>3, <2>4 DEF PoolInv, ThreadsSound, Take
<1>7. QED
  BY <1>3, <1>4, <1>5, <1>6 DEF PoolInv, RingSound

(* No step of the workers, the event loop or the scheduler leaves the      *)
(* invariant.                                                              *)
LEMMA NextInv == PoolInv /\ [Next]_vars => PoolInv'
<1> SUFFICES ASSUME PoolInv, [Next]_vars PROVE PoolInv'
  OBVIOUS
<1> USE DEF PoolInv, TypeOK, RingSound, ThreadsSound, ring
<1>1. ASSUME NEW j \in Jobs, Submit(j) PROVE PoolInv'
  BY <1>1, SubmitInv
<1>2. ASSUME NEW j \in Jobs, Refused(j) PROVE PoolInv'
  BY <1>2 DEF Refused
<1>3. ASSUME NEW w \in Workers, Wait(w) PROVE PoolInv'
  BY <1>3 DEF Wait
<1>4. ASSUME NEW w \in Workers, Leave(w) PROVE PoolInv'
  BY <1>4 DEF Leave
<1>5. ASSUME NEW w \in Workers, Take(w) PROVE PoolInv'
  BY <1>5, TakeInv
<1>6. ASSUME NEW w \in Workers, Handle(w) PROVE PoolInv'
  BY <1>6 DEF Handle
<1>7. ASSUME NEW w \in Workers, SpuriousWakeup(w) PROVE PoolInv'
  BY <1>7 DEF SpuriousWakeup
<1>8. CASE Destroy
  BY <1>8 DEF Destroy
<1>9. CASE Join
  BY <1>9 DEF Join
<1>10. CASE UNCHANGED vars
  BY <1>10 DEF vars
<1>11. QED
  BY <1>1, <1>2, <1>3, <1>4, <1>5, <1>6, <1>7, <1>8, <1>9, <1>10
     DEF Next, WorkerStep, Freed

-----------------------------------------------------------------------------
(* The refinement mapping reads the ring as a sequence of count jobs.      *)
LEMMA PendingSeq ==
  ASSUME PoolInv
  PROVE  /\ Pending \in Seq(Jobs) /\ Len(Pending) = count
         /\ \A i \in 1..count : Pending[i] = queue[(head + i - 1) % CAP]
<1>1. count \in Nat /\ head \in Int
  BY PoolAssumption DEF PoolInv, TypeOK, Slots
<1>2. \A i \in 1..count : queue[(head + i - 1) % CAP] \in Jobs
  <2> TAKE i \in 1..count
  <2>1. i - 1 \in 0..(count - 1) /\ head + i - 1 = head + (i - 1)
    BY <1>1
  <2>2. QED
    BY <2>1 DEF PoolInv, RingSound
<1>3. QED
  BY <1>1, <1>2 DEF Pending

(* worker_pool_submit appends the job to the queue of the service.         *)
LEMMA SubmitPending ==
  ASSUME PoolInv, NEW j \in Jobs, Submit(j)
  PROVE  Pending' = Append(Pending, j)
<1> USE PoolAssumption
<1>0. PoolInv'
  BY SubmitInv
<1>1. /\ Pending \in Seq(Jobs) /\ Len(Pending) = count
      /\ \A i \in 1..count : Pending[i] = queue[(head + i - 1) % CAP]
  BY PendingSeq
<1>2. /\ count \in Slots /\ count' = count + 1 /\ head' = head /\ head \in Slots
      /\ tail = (head + count) % CAP
      /\ queue \in [Slots -> Jobs \cup {None}] /\ queue' = [queue EXCEPT ![tail] = j]
  BY DEF Submit, Full, PoolInv, TypeOK, RingSound, Slots
<1>3. Pending' = [i \in 1..(count + 1) |-> queue'[(head + i - 1) % CAP]]
  BY <1>2 DEF Pending
<1>4. Append(Pending, j) = [i \in 1..(count + 1) |-> IF i = count + 1 THEN j ELSE Pending[i]]
  <2>1. /\ Append(Pending, j) \in Seq(Jobs) /\ Len(Append(Pending, j)) = count + 1
        /\ \A i \in 1..count : Append(Pending, j)[i] = Pending[i]
        /\ Append(Pending, j)[count + 1] = j
    BY <1>1, AppendProperties
  <2> DEFINE A == Append(Pending, j)
  <2> HIDE DEF A
  <2>2. A = [i \in 1..(count + 1) |-> A[i]]
    <3>1. A \in Seq(Jobs) /\ Len(A) = count + 1
      BY <2>1 DEF A
    <3>2. A \in [1..(count + 1) -> Jobs]
      BY <3>1, LenProperties
    <3>3. QED
      BY <3>2
  <2>3. count \in Nat
    BY <1>2 DEF Slots
  <2>4. \A i \in 1..(count + 1) : A[i] = IF i = count + 1 THEN j ELSE Pending[i]
    BY <2>1, <2>3 DEF A
  <2>5. A = [i \in 1..(count + 1) |-> IF i = count + 1 THEN j ELSE Pending[i]]
    BY <2>2, <2>4
  <2>6. QED
    BY <2>5 DEF A
<1>5. ASSUME NEW i \in 1..(count + 1)
      PROVE  queue'[(head + i - 1) % CAP] = IF i = count + 1 THEN j ELSE Pending[i]
  <2>1. i - 1 \in Slots /\ head + i - 1 = head + (i - 1) /\ (head + (i - 1)) % CAP \in Slots
    BY <1>2, Wrap DEF Slots
  <2>2. CASE i = count + 1
    <3>1. i - 1 = count
      BY <1>2, <2>2 DEF Slots
    <3>2. QED
      BY <1>2, <2>1, <2>2, <3>1
  <2>3. CASE i # count + 1
    <3>1. i \in 1..count /\ i - 1 # count
      BY <1>2, <2>3 DEF Slots
    <3>2. (head + (i - 1)) % CAP # tail
      BY <1>2, <2>1, <3>1, SlotsDistinct
    <3>3. QED
      BY <1>1, <1>2, <2>1, <2>3, <3>1, <3>2
  <2>4. QED
    BY <2>2, <2>3
<1>6. QED
  BY <1>3, <1>4, <1>5

(* worker_main takes the head of that queue and leaves its tail.           *)
LEMMA TakePending ==
  ASSUME PoolInv, NEW w \in Workers, Take(w)
  PROVE  Pending # <<>> /\ queue[head] = Head(Pending) /\ Pending' = Tail(Pending)
<1> USE PoolAssumption
<1>1. /\ Pending \in Seq(Jobs) /\ Len(Pending) = count
      /\ \A i \in 1..count : Pending[i] = queue[(head + i - 1) % CAP]
  BY PendingSeq
<1>2. /\ count \in 1..CAP /\ count' = count - 1 /\ queue' = queue
      /\ head \in Slots /\ head' = (head + 1) % CAP
  BY DEF Take, PoolInv, TypeOK
<1>3. Pending # <<>> /\ Head(Pending) = Pending[1]
  BY <1>1, <1>2
<1>4. (head + 1 - 1) % CAP = head
  BY <1>2, Wrap DEF Slots
<1>5. Pending' = [i \in 1..(count - 1) |-> queue[(head' + i - 1) % CAP]]
  BY <1>2 DEF Pending
<1>6. Tail(Pending) = [i \in 1..(count - 1) |-> Pending[i + 1]]
  <2>1. Tail(Pending) \in Seq(Jobs) /\ Len(Tail(Pending)) = count - 1
    BY <1>1, <1>3, HeadTailProperties
  <2>2. \A i \in 1..(count - 1) : Tail(Pending)[i] = Pending[i + 1]
    BY <1>1, <1>2, <1>3, HeadTailProperties
  <2>3. Tail(Pending) \in [1..(count - 1) -> Jobs]
    BY <1>2, <2>1, LenProperties
  <2>4. QED
    BY <2>2, <2>3
<1>7. ASSUME NEW i \in 1..(count - 1)
      PROVE  queue[(head' + i - 1) % CAP] = Pending[i + 1]
  <2>1. i - 1 \in Slots /\ i + 1 \in 1..count
    BY <1>2 DEF Slots
  <2>2. (head' + (i - 1)) % CAP = (head + ((i - 1) + 1)) % CAP
    BY <1>2, <2>1, WrapAdd
  <2>3. head' \in Slots
    BY <1>2, Wrap DEF Slots
  <2>4. head' + i - 1 = head' + (i - 1) /\ head + (i + 1) - 1 = head + ((i - 1) + 1)
    BY <1>2, <2>1, <2>3 DEF Slots
  <2>5. QED
    BY <1>1, <2>1, <2>2, <2>4
<1>8. QED
  BY <1>1, <1>2, <1>3, <1>4, <1>5, <1>6, <1>7

(* A step that leaves the ring alone leaves the abstract queue alone.      *)
LEMMA RingPending == UNCHANGED ring => Pending' = Pending
BY DEF ring, Pending

-----------------------------------------------------------------------------
(* The new pool is the new service.                                        *)
LEMMA InitService == Init => Service!Init
BY DEF Init, Service!Init, Pending

(* Every step of the pool is a step of the service or leaves it alone:     *)
(* submit accepts or refuses, a worker begins or finishes a job, destroy   *)
(* closes and the last join finishes; waiting, waking and leaving are      *)
(* invisible.                                                              *)
LEMMA StepService == PoolInv /\ [Next]_vars => [Service!Next]_(Service!vars)
<1> SUFFICES ASSUME PoolInv, [Next]_vars PROVE [Service!Next]_(Service!vars)
  OBVIOUS
<1> USE PoolAssumption
<1>0. /\ Pending \in Seq(Jobs) /\ Len(Pending) = count /\ count \in 0..CAP
      /\ owner \in {"serving", "joining", "freed"} /\ (stop <=> owner # "serving")
  BY PendingSeq DEF PoolInv, TypeOK, ThreadsSound
<1>1. ASSUME NEW j \in Jobs, Submit(j) PROVE Service!Accept(j)
  <2>1. count < CAP
    BY <1>0, <1>1 DEF Submit, Full
  <2>2. Pending' = Append(Pending, j)
    BY <1>1, SubmitPending
  <2>3. QED
    BY <1>0, <1>1, <2>1, <2>2 DEF Submit, Service!Accept
<1>2. ASSUME NEW j \in Jobs, Refused(j) PROVE Service!Refuse(j)
  BY <1>0, <1>2, RingPending DEF Refused, Full, Service!Refuse
<1>3. ASSUME NEW w \in Workers, Take(w) PROVE Service!Begin(w)
  <2>1. job[w] = None
    BY <1>3 DEF Take, PoolInv, ThreadsSound
  <2>2. QED
    BY <1>3, <2>1, TakePending DEF Take, Service!Begin
<1>4. ASSUME NEW w \in Workers, Handle(w) PROVE Service!Finish(w)
  <2>1. job[w] # None
    BY <1>4 DEF Handle, PoolInv, ThreadsSound
  <2>2. QED
    BY <1>4, <2>1, RingPending DEF Handle, Service!Finish
<1>5. CASE Destroy
  <2>1. Service!Close
    BY <1>5, RingPending DEF Destroy, Service!Close
  <2>2. QED
    BY <2>1 DEF Service!Next
<1>6. CASE Join
  <2>1. count = 0 /\ \A w \in Workers : job[w] = None
    BY <1>6 DEF Join, PoolInv, TypeOK, ThreadsSound
  <2>2. Pending = <<>>
    BY <1>0, <2>1
  <2>3. Service!Finished
    BY <1>6, <2>1, <2>2, RingPending DEF Join, Service!Finished
  <2>4. QED
    BY <2>3 DEF Service!Next
<1>7. ASSUME NEW w \in Workers, Wait(w) \/ Leave(w) \/ SpuriousWakeup(w)
      PROVE  UNCHANGED Service!vars
  BY <1>7, RingPending DEF Wait, Leave, SpuriousWakeup, Service!vars
<1>8. CASE UNCHANGED vars
  BY <1>8, RingPending DEF vars, ring, Service!vars
<1>9. QED
  BY <1>1, <1>2, <1>3, <1>4, <1>5, <1>6, <1>7, <1>8
     DEF Next, WorkerStep, Freed, Service!Next

-----------------------------------------------------------------------------
(* The ring buffer of server.c never loses its bookkeeping: tail is count  *)
(* slots after head, every slot between holds a job, a worker holds a job  *)
(* exactly while it handles it, and no worker leaves while work is queued. *)
THEOREM PoolInvariant == Spec => []PoolInv
<1>1. QED
  BY InitInv, NextInv, PTL DEF Spec

(* The request worker pool implements JobService, for every capacity,      *)
(* number of workers and set of jobs: jobs are begun in the order they     *)
(* were accepted, each once; a job is refused only when CAP jobs are       *)
(* queued; the pool is freed only when every accepted job has been         *)
(* handled.                                                                *)
THEOREM PoolImplementsService == Spec => ImplementsJobService
<1>1. Spec => []PoolInv
  BY PoolInvariant
<1>2. QED
  BY <1>1, InitService, StepService, PTL DEF Spec, ImplementsJobService, Service!Spec
=============================================================================
