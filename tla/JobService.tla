----------------------------- MODULE JobService -----------------------------
(***************************************************************************)
(* What the request worker pool of src/src/server.c promises the event     *)
(* loop: a bounded first-in first-out queue of jobs in front of a set of   *)
(* workers.  A job is either refused at once or handled exactly once;      *)
(* jobs are started in the order they were accepted; after Close no job is *)
(* accepted, and the service ends only when every accepted job has been    *)
(* handled.  WorkerPool implements it.                                     *)
(***************************************************************************)
EXTENDS Naturals, Sequences

CONSTANTS Workers, Jobs, CAP,
          None   (* no job *)

VARIABLES
  fresh,     (* jobs not offered yet                                       *)
  pending,   (* accepted jobs, oldest first                                *)
  active,    (* the job each worker is handling, or None                   *)
  handled,   (* jobs whose handler has ended                               *)
  state      (* "open", "closed" or "ended"                                *)

vars == <<fresh, pending, active, handled, state>>

Init ==
  /\ fresh = Jobs /\ pending = <<>> /\ handled = {}
  /\ active = [w \in Workers |-> None]
  /\ state = "open"

Accept(j) ==
  /\ state = "open" /\ j \in fresh /\ Len(pending) < CAP
  /\ pending' = Append(pending, j)
  /\ fresh' = fresh \ {j}
  /\ UNCHANGED <<active, handled, state>>

Refuse(j) ==
  /\ state = "open" /\ j \in fresh /\ Len(pending) = CAP
  /\ fresh' = fresh \ {j}
  /\ UNCHANGED <<pending, active, handled, state>>

Begin(w) ==
  /\ active[w] = None /\ pending # <<>>
  /\ active' = [active EXCEPT ![w] = Head(pending)]
  /\ pending' = Tail(pending)
  /\ UNCHANGED <<fresh, handled, state>>

Finish(w) ==
  /\ active[w] # None
  /\ handled' = handled \cup {active[w]}
  /\ active' = [active EXCEPT ![w] = None]
  /\ UNCHANGED <<fresh, pending, state>>

Close ==
  /\ state = "open" /\ state' = "closed"
  /\ UNCHANGED <<fresh, pending, active, handled>>

Finished ==
  /\ state = "closed" /\ pending = <<>> /\ \A w \in Workers : active[w] = None
  /\ state' = "ended"
  /\ UNCHANGED <<fresh, pending, active, handled>>

Next ==
  \/ \E j \in Jobs : Accept(j) \/ Refuse(j)
  \/ \E w \in Workers : Begin(w) \/ Finish(w)
  \/ Close
  \/ Finished

Spec == Init /\ [][Next]_vars
=============================================================================
