------------------------------- MODULE Server -------------------------------
(***************************************************************************)
(* The HTTP server of src/src/server.c: the select event loop of el.c with *)
(* its three callbacks (accept_proc, client_read_proc, signal_callback),   *)
(* the request workers, the descriptors they hand to each other, the       *)
(* signal handler, and shutdown (server_resource_close).                   *)
(*                                                                         *)
(* The job queue is JobService's: a bounded FIFO (WorkerPool shows that    *)
(* the ring buffer, mutex and condition variable implement it).  The event *)
(* loop and the workers know a connection by its descriptor only; the      *)
(* kernel reuses the lowest free descriptor.                               *)
(*                                                                         *)
(* A request is hdr units of header (the last ends with the blank line)    *)
(* and body units of body (its Content-Length).  A read returns the units  *)
(* that have arrived.  What handle_request computes is left to Session and *)
(* Completion: here it answers 200, 400 or 500.  The writes of an answer,  *)
(* the pieces of a stream included, have no timeout: they block as long as *)
(* the client does not read.                                               *)
(***************************************************************************)
EXTENDS Integers, Sequences, FiniteSets, FiniteSetsExt

CONSTANTS
  Conns,     (* connections clients open                                   *)
  Shape,     (* the request of each: [hdr |-> 1.., body |-> 0..]           *)
  Fds,       (* descriptors the process may have open for clients          *)
  Workers,   (* request workers, one at least (main refuses -np 0)         *)
  CAP,       (* JOB_QUEUE_CAP                                              *)
  BUF,       (* units that fit the 8192-byte read buffer                   *)
  None,      (* no connection                                              *)
  Reset      (* the connections whose client may abort                     *)

ASSUME ServerAssumption ==
  /\ Fds \subseteq Nat \ (0..4) /\ IsFiniteSet(Fds) /\ CAP \in Nat \ {0} /\ BUF \in Nat \ {0}
  /\ \A c \in Conns : Shape[c].hdr \in Nat \ {0} /\ Shape[c].body \in Nat
  /\ None \notin Conns /\ Reset \subseteq Conns /\ Workers # {}

VARIABLES
  phase,     (* "loading", "serving", "closing", "freed" or "killed"       *)
  conn,      (* "idle", "backlog", "open" or "closed", per connection      *)
  sent,      (* units the client has sent                                  *)
  gone,      (* "no", "fin" or "rst": what the client did to the connection *)
  fdOf,      (* the connection a descriptor refers to, None when free      *)
  watched,   (* client descriptors with a file event                       *)
  ready,     (* what select reported and the round has not handled yet     *)
  loop,      (* the event loop: [at, fd, got]                              *)
  elstop,    (* el->stop                                                   *)
  signals, eventReady,   (* g_signal_count, the eventfd is readable        *)
  queue,     (* queued jobs, oldest first                                  *)
  job,       (* per worker: its job and where it is with it                *)
  answer     (* history: what was written to each connection               *)

loopVars == <<ready, loop, elstop>>
netVars == <<conn, sent, gone>>
vars == <<phase, conn, sent, gone, fdOf, watched, ready, loop, elstop, signals,
          eventReady, queue, job, answer>>

-----------------------------------------------------------------------------
ListenFd == 3   \* the listening socket and the eventfd: open all the time
EventFd == 4
Idle == [at |-> "idle", fd |-> 0, conn |-> None, whole |-> TRUE, out |-> "none"]
Exited == [Idle EXCEPT !.at = "exited"]
At(a) == [at |-> a, fd |-> 0, got |-> 0]
Total(c) == Shape[c].hdr + Shape[c].body
Alive == phase \in {"loading", "serving", "closing"}

Init ==
  /\ phase = "loading"
  /\ conn = [c \in Conns |-> "idle"]
  /\ sent = [c \in Conns |-> 0]
  /\ gone = [c \in Conns |-> "no"]
  /\ fdOf = [f \in Fds |-> None]
  /\ watched = {} /\ ready = {} /\ loop = At("select") /\ elstop = FALSE
  /\ signals = 0 /\ eventReady = FALSE
  /\ queue = <<>>
  /\ job = [w \in Workers |-> Idle]
  /\ answer = [c \in Conns |-> "none"]

(* ---- clients ---------------------------------------------------------- *)

Connect(c) ==
  /\ phase = "serving" /\ conn[c] = "idle"
  /\ conn' = [conn EXCEPT ![c] = "backlog"]
  /\ UNCHANGED <<phase, sent, gone, fdOf, watched, loopVars, signals, eventReady,
                 queue, job, answer>>

Send(c) ==
  /\ Alive /\ conn[c] \in {"backlog", "open"} /\ gone[c] = "no" /\ sent[c] < Total(c)
  /\ sent' = [sent EXCEPT ![c] = @ + 1]
  /\ UNCHANGED <<phase, conn, gone, fdOf, watched, loopVars, signals, eventReady,
                 queue, job, answer>>

Leave(c) ==
  /\ Alive /\ conn[c] \in {"backlog", "open"} /\ gone[c] = "no"
  /\ gone' \in {[gone EXCEPT ![c] = g] : g \in {"fin"} \cup (IF c \in Reset THEN {"rst"} ELSE {})}
  /\ UNCHANGED <<phase, conn, sent, fdOf, watched, loopVars, signals, eventReady,
                 queue, job, answer>>

(* ---- descriptors ------------------------------------------------------ *)

\* http_respond(fd, a, ...) and close(fd): they reach the connection that the
\* descriptor refers to at that moment.
AnswerAndClose(f, a) ==
  /\ answer' = [answer EXCEPT ![fdOf[f]] = a]
  /\ conn' = [conn EXCEPT ![fdOf[f]] = "closed"]
  /\ fdOf' = [fdOf EXCEPT ![f] = None]

(* ---- event loop ------------------------------------------------------- *)

\* main: the model is loaded, the eventfd exists, the loop starts.
Loaded ==
  /\ phase = "loading" /\ phase' = "serving"
  /\ UNCHANGED <<netVars, fdOf, watched, loopVars, signals, eventReady, queue, job, answer>>

Readable(f) == sent[fdOf[f]] > 0 \/ gone[fdOf[f]] # "no"

\* process_event: select returns what is readable; the callbacks of the round
\* follow, each on a file event that existed when the round began.  New events
\* go to the head of the list: clients come first, the listener last.
Select ==
  /\ phase = "serving" /\ loop.at = "select" /\ ~elstop
  /\ ready' = {f \in watched : Readable(f)}
              \cup (IF \E c \in Conns : conn[c] = "backlog" THEN {ListenFd} ELSE {})
              \cup (IF eventReady THEN {EventFd} ELSE {})
  /\ ready' # {}
  /\ loop' = At("dispatch")
  /\ UNCHANGED <<phase, netVars, fdOf, watched, elstop, signals, eventReady, queue,
                 job, answer>>

\* The file event x has been handled.
Done(x) ==
  /\ ready' = ready \ {x}
  /\ loop' = At(IF ready = {x} THEN "select" ELSE "dispatch")

\* accept_proc; out of descriptors, accept fails and slog_errno ends the process.
Accept ==
  /\ phase = "serving" /\ loop.at = "dispatch" /\ ready = {ListenFd}
  /\ Done(ListenFd)
  /\ LET free == {f \in Fds : fdOf[f] = None} IN
     \/ /\ free # {}
        /\ \E c \in Conns :
             /\ conn[c] = "backlog"
             /\ conn' = [conn EXCEPT ![c] = "open"]
             /\ fdOf' = [fdOf EXCEPT ![Min(free)] = c]
        /\ watched' = watched \cup {Min(free)}
        /\ UNCHANGED phase
     \/ free = {} /\ phase' = "killed" /\ UNCHANGED <<conn, fdOf, watched>>
  /\ UNCHANGED <<sent, gone, elstop, signals, eventReady, queue, job, answer>>

\* Mutant of SignalEvent: the eventfd is read and the loop goes on.
SignalEventIgnored ==
  /\ phase = "serving" /\ loop.at = "dispatch"
  /\ EventFd \in ready /\ ready \cap Fds = {}
  /\ Done(EventFd)
  /\ eventReady' = FALSE
  /\ UNCHANGED <<phase, netVars, fdOf, watched, elstop, signals, queue, job, answer>>

\* signal_callback
SignalEvent ==
  /\ phase = "serving" /\ loop.at = "dispatch"
  /\ EventFd \in ready /\ ready \cap Fds = {}
  /\ Done(EventFd)
  /\ elstop' = TRUE /\ eventReady' = FALSE
  /\ UNCHANGED <<phase, netVars, fdOf, watched, signals, queue, job, answer>>

\* Mutant of Hand: the file event is removed only when the job was refused.
HandStillWatched(f, n) ==
  LET c == fdOf[f] IN
  /\ IF n > Shape[c].hdr /\ Len(queue) < CAP
     THEN /\ queue' = Append(queue, [fd |-> f, conn |-> c, whole |-> n = Total(c)])
          /\ UNCHANGED <<conn, fdOf, answer, watched>>
     ELSE /\ AnswerAndClose(f, IF n > Shape[c].hdr THEN "503" ELSE "400")
          /\ watched' = watched \ {f}
          /\ UNCHANGED queue

\* Mutant of Hand: a refused job is forgotten, with no 503 and no close.
HandForgotten(f, n) ==
  LET c == fdOf[f] IN
  /\ watched' = watched \ {f}
  /\ queue' = IF n > Shape[c].hdr /\ Len(queue) < CAP
              THEN Append(queue, [fd |-> f, conn |-> c, whole |-> n = Total(c)])
              ELSE queue
  /\ UNCHANGED <<conn, fdOf, answer>>

\* Mutant of Hand: a refusal is answered, but the connection stays.
HandKeepOpen(f, n) ==
  LET c == fdOf[f] IN
  /\ IF n > Shape[c].hdr /\ Len(queue) < CAP
     THEN /\ queue' = Append(queue, [fd |-> f, conn |-> c, whole |-> n = Total(c)])
          /\ watched' = watched \ {f}
          /\ UNCHANGED answer
     ELSE /\ answer' = [answer EXCEPT ![c] = IF n > Shape[c].hdr THEN "503" ELSE "400"]
          /\ UNCHANGED <<queue, watched>>
  /\ UNCHANGED <<conn, fdOf>>

\* client_read_proc once n units of the request of descriptor f are in buf:
\* an empty body is refused; otherwise the loop stops watching f and hands it,
\* with the body read so far, to the workers, or answers 503.
Hand(f, n) ==
  LET c == fdOf[f] IN
  /\ watched' = watched \ {f}
  /\ IF n > Shape[c].hdr /\ Len(queue) < CAP
     THEN /\ queue' = Append(queue, [fd |-> f, conn |-> c, whole |-> n = Total(c)])
          /\ UNCHANGED <<conn, fdOf, answer>>
     ELSE AnswerAndClose(f, IF n > Shape[c].hdr THEN "503" ELSE "400") /\ UNCHANGED queue

\* The second read is made: the body is not complete and the rest fits.
NeedsMore(c, n) == n < Total(c) /\ BUF - n > Total(c) - n

\* client_read_proc: the first read and what follows it.
ReadClient(f) ==
  LET c == fdOf[f]
      n == Min({sent[c], BUF - 1}) IN
  /\ phase = "serving" /\ loop.at = "dispatch" /\ f \in ready
  /\ \/ /\ gone[c] = "rst" /\ phase' = "killed"     \* slog_errno
        /\ UNCHANGED <<conn, fdOf, watched, ready, loop, queue, answer>>
     \/ /\ gone[c] # "rst" /\ n = 0                 \* end of file
        /\ AnswerAndClose(f, "none") /\ watched' = watched \ {f} /\ Done(f)
        /\ UNCHANGED <<phase, queue>>
     \/ /\ gone[c] # "rst" /\ n \in 1..(Shape[c].hdr - 1)
        /\ AnswerAndClose(f, "400") /\ watched' = watched \ {f} /\ Done(f)
        /\ UNCHANGED <<phase, queue>>
     \/ /\ gone[c] # "rst" /\ n >= Shape[c].hdr /\ NeedsMore(c, n)
        /\ loop' = [at |-> "more", fd |-> f, got |-> n]
        /\ UNCHANGED <<phase, conn, fdOf, watched, ready, queue, answer>>
     \/ /\ gone[c] # "rst" /\ n >= Shape[c].hdr /\ ~NeedsMore(c, n)
        /\ Hand(f, n) /\ Done(f)
        /\ UNCHANGED phase
  /\ UNCHANGED <<sent, gone, elstop, signals, eventReady, job>>

\* The second, blocking read returns: with what has arrived, at most the
\* missing units, or with an end of file or an error, which are ignored.
ReadMore ==
  LET c == fdOf[loop.fd] IN
  /\ phase = "serving" /\ loop.at = "more"
  /\ sent[c] > loop.got \/ gone[c] # "no"
  /\ Hand(loop.fd, IF gone[c] = "rst" THEN loop.got ELSE sent[c])
  /\ Done(loop.fd)
  /\ UNCHANGED <<phase, sent, gone, elstop, signals, eventReady, job>>

(* ---- request workers -------------------------------------------------- *)

\* worker_main takes the oldest job ...
Take(w) ==
  /\ Alive /\ job[w].at = "idle" /\ queue # <<>>
  /\ job' = [job EXCEPT ![w] = [at |-> "handling", fd |-> Head(queue).fd, out |-> "none",
                                conn |-> Head(queue).conn, whole |-> Head(queue).whole]]
  /\ queue' = Tail(queue)
  /\ UNCHANGED <<phase, netVars, fdOf, watched, loopVars, signals, eventReady, answer>>

\* ... handle_request runs until it has something to write: a refusal, the
\* whole answer, or the first piece of a stream, the rest of which it computes
\* between its writes ...
Run(w) ==
  /\ Alive /\ job[w].at = "handling"
  /\ \E a \in {"200", "400", "500"} : job' = [job EXCEPT ![w].at = "writing", ![w].out = a]
  /\ UNCHANGED <<phase, netVars, fdOf, watched, loopVars, signals, eventReady, queue, answer>>

\* ... the last write is done and the descriptor closed.  write_all has no
\* timeout: as long as the client does not read, this step may never come.
Finish(w) ==
  /\ Alive /\ job[w].at = "writing"
  /\ AnswerAndClose(job[w].fd, job[w].out)
  /\ job' = [job EXCEPT ![w] = Idle]
  /\ UNCHANGED <<phase, sent, gone, watched, loopVars, signals, eventReady, queue>>

\* pool->stop and nothing queued: the worker ends.
Exit(w) ==
  /\ phase = "closing" /\ job[w].at = "idle" /\ queue = <<>>
  /\ job' = [job EXCEPT ![w] = Exited]
  /\ UNCHANGED <<phase, netVars, fdOf, watched, loopVars, signals, eventReady, queue, answer>>

(* ---- signals and shutdown --------------------------------------------- *)

\* signal_handler on some thread.  A second signal ends the process.  The
\* first wakes the loop through the eventfd, if it exists already.  There is
\* no SA_RESTART: the loop's blocking read, or a worker's write, may fail with
\* EINTR; the read is given up and so is the rest of the response.
Signal ==
  /\ Alive
  /\ signals' = 1
  /\ IF signals > 0
     THEN /\ phase' = "killed"
          /\ UNCHANGED <<netVars, fdOf, watched, loopVars, eventReady, queue, job, answer>>
     ELSE /\ eventReady' = (phase # "loading")
          /\ \/ UNCHANGED <<conn, fdOf, watched, ready, loop, queue, answer, job>>
             \/ /\ loop.at = "more"
                /\ Hand(loop.fd, loop.got) /\ Done(loop.fd)
                /\ UNCHANGED job
             \/ /\ \E w \in Workers : /\ job[w].at = "writing"
                                      /\ job' = [job EXCEPT ![w].out = "cut"]
                /\ UNCHANGED <<conn, fdOf, watched, ready, loop, queue, answer>>
          /\ UNCHANGED <<phase, sent, gone, elstop>>

\* Mutant of Shutdown: the pool is not joined before the sessions are freed.
ShutdownAtOnce ==
  /\ phase = "serving" /\ loop.at = "select" /\ elstop
  /\ phase' = "freed"
  /\ UNCHANGED <<netVars, fdOf, watched, loopVars, signals, eventReady, queue, job, answer>>

\* el_main returns; server_resource_close stops the pool ...
Shutdown ==
  /\ phase = "serving" /\ loop.at = "select" /\ elstop
  /\ phase' = "closing"
  /\ UNCHANGED <<netVars, fdOf, watched, loopVars, signals, eventReady, queue, job, answer>>

\* ... joins the workers, frees sessions, engine and loop, and main returns.
Free ==
  /\ phase = "closing" /\ \A w \in Workers : job[w].at = "exited"
  /\ phase' = "freed"
  /\ UNCHANGED <<netVars, fdOf, watched, loopVars, signals, eventReady, queue, job, answer>>

Over == phase \in {"freed", "killed"}

Ended == Over /\ UNCHANGED vars

-----------------------------------------------------------------------------
LoopStep ==
  \/ Loaded \/ Select \/ Accept \/ SignalEvent \/ ReadMore \/ Shutdown \/ Free
  \/ \E f \in Fds : ReadClient(f)

\* What a worker does without waiting for a client.
WorkerStep(w) == Take(w) \/ Run(w) \/ Exit(w)

Next ==
  \/ \E c \in Conns : Connect(c) \/ Send(c) \/ Leave(c)
  \/ LoopStep
  \/ \E w \in Workers : WorkerStep(w) \/ Finish(w)
  \/ Signal
  \/ Ended

Spec == Init /\ [][Next]_vars

\* Threads run; a blocked read stays blocked as long as the client is silent,
\* a blocked write as long as it does not read.  Nothing is assumed of clients:
\* Finish, which waits for one, has no fairness.
Fairness == WF_vars(LoopStep) /\ \A w \in Workers : WF_vars(WorkerStep(w))

FairSpec == Spec /\ Fairness

-----------------------------------------------------------------------------
Holds(f) ==   \* the parties that hold client descriptor f
  (IF f \in watched THEN {<<"loop", 0>>} ELSE {})
  \cup {<<"queue", i>> : i \in {k \in DOMAIN queue : queue[k].fd = f}}
  \cup {<<"worker", w>> : w \in {v \in Workers :
                                   job[v].at \in {"handling", "writing"} /\ job[v].fd = f}}

(* An open descriptor has exactly one owner, the event loop, the queue or  *)
(* one worker, and a closed one has none ("The worker now owns the fd; the *)
(* event loop must not touch it"): nothing is leaked, closed twice or used *)
(* after close, although descriptors are reused.                           *)
OneOwner ==
  phase # "killed" =>
    \A f \in Fds : Cardinality(Holds(f)) = IF fdOf[f] = None THEN 0 ELSE 1

(* A worker answers the client whose request it has: the descriptor of a   *)
(* queued or running job still refers to the connection it was read from.  *)
RightClient ==
  /\ \A i \in DOMAIN queue : fdOf[queue[i].fd] = queue[i].conn
  /\ \A w \in Workers : job[w].at \in {"handling", "writing"} =>
       fdOf[job[w].fd] = job[w].conn

(* A descriptor is handed from the loop to the queue and a worker, who     *)
(* answers and closes it, without leak, double close or mix-up.            *)
Handover == OneOwner /\ RightClient

(* Sessions and engine are freed only when no worker can use them any more *)
(* and every request that was queued has been answered: a connection left  *)
(* open is one the loop had not read.                                      *)
DrainedBeforeFree ==
  phase = "freed" =>
    /\ queue = <<>> /\ \A w \in Workers : job[w].at = "exited"
    /\ \A f \in Fds : fdOf[f] # None => f \in watched

(* A client gets at most one answer.                                       *)
AnsweredOnce ==
  [][\A c \in Conns : answer[c] # "none" => answer'[c] = answer[c]]_vars

NotStuck == []<>(loop.at # "more")

\* Every client that worker w writes an answer to comes to read it.
WritesEnd(w) == []<>(job[w].at # "writing")

\* Client c reads the answer it is written.
ReadsAnswer(c) == []<>(\A w \in Workers : job[w].at = "writing" => job[w].conn # c)

(* A client that has sent something and reads its answer is answered or    *)
(* disconnected, or the server is going down, unless one client keeps the  *)
(* loop in its second read for ever or clients that do not read hold every *)
(* worker: one that does not read costs a worker, and nobody else's answer *)
(* while another worker is left.                                           *)
ClientServed ==
  \A c \in Conns :
    NotStuck /\ ReadsAnswer(c) /\ (\E w \in Workers : WritesEnd(w)) =>
      ((conn[c] = "open" /\ sent[c] > 0)
         ~> (conn[c] = "closed" \/ phase \in {"closing", "freed", "killed"}))

(* With the eventfd written, the loop stops, drains and ends, unless one   *)
(* client keeps it in its second read or keeps a worker in a write: the    *)
(* drain has no deadline.                                                  *)
ShutdownEnds ==
  NotStuck /\ (\A w \in Workers : WritesEnd(w)) => (eventReady ~> Over)

(* "Run event loop (blocks until shutdown)": the process does not end      *)
(* before a signal asks it to.  It does not hold: the answer to a client   *)
(* that has reset its connection ends the process.                         *)
RunsUntilShutdown == phase = "killed" => signals > 0

(* "read one complete request, hand the body to the worker pool": a worker *)
(* never gets a body cut short.  It does not hold: the loop reads twice,   *)
(* and a body may come in more pieces.                                     *)
CompleteRequests == \A i \in DOMAIN queue : queue[i].whole
=============================================================================
