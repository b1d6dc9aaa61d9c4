---------------------------- MODULE ServerProofs ----------------------------
(***************************************************************************)
(* Proofs about Server: who owns a client descriptor, which client a       *)
(* worker answers and what shutdown leaves behind, for any number of       *)
(* connections, descriptors and workers, any request shapes and any queue  *)
(* capacity.                                                               *)
(***************************************************************************)
EXTENDS Server, FiniteSetTheorems, SequenceTheorems, TLAPS

JobsQueued == [fd : Fds, conn : Conns, whole : BOOLEAN]
Answers == {"none", "200", "400", "500", "503", "cut"}
JobStates == [at : {"idle", "handling", "writing", "exited"}, fd : Fds \cup {0},
              conn : Conns \cup {None}, whole : BOOLEAN, out : Answers]
Busy(w) == job[w].at \in {"handling", "writing"}

(* The state of the event loop, the queue, the workers and the clients.    *)
TypeOK ==
  /\ phase \in {"loading", "serving", "closing", "freed", "killed"}
  /\ conn \in [Conns -> {"idle", "backlog", "open", "closed"}]
  /\ sent \in [Conns -> Nat] /\ gone \in [Conns -> {"no", "fin", "rst"}]
  /\ fdOf \in [Fds -> Conns \cup {None}]
  /\ watched \subseteq Fds /\ ready \subseteq Fds \cup {ListenFd, EventFd}
  /\ loop \in [at : {"select", "dispatch", "more"}, fd : Fds \cup {0}, got : Nat]
  /\ elstop \in BOOLEAN /\ signals \in {0, 1} /\ eventReady \in BOOLEAN
  /\ queue \in Seq(JobsQueued)
  /\ job \in [Workers -> JobStates]
  /\ answer \in [Conns -> Answers]

(* Two descriptors never refer to one connection; what a descriptor refers *)
(* to is open, and an answered connection is closed.                       *)
ConnsSound ==
  /\ \A f \in Fds : fdOf[f] # None => conn[fdOf[f]] = "open"
  /\ \A f, e \in Fds : fdOf[f] # None /\ fdOf[f] = fdOf[e] => f = e
  /\ \A c \in Conns : answer[c] # "none" => conn[c] = "closed"

(* The three kinds of owner have open descriptors, ...                     *)
OwnersOpen ==
  /\ \A f \in watched : fdOf[f] # None
  /\ \A i \in DOMAIN queue : fdOf[queue[i].fd] = queue[i].conn
  /\ \A w \in Workers : Busy(w) => /\ job[w].fd \in Fds /\ job[w].conn \in Conns
                                   /\ fdOf[job[w].fd] = job[w].conn

(* ... no two of them the same, ...                                        *)
OwnersApart ==
  /\ \A i \in DOMAIN queue : queue[i].fd \notin watched
  /\ \A i, k \in DOMAIN queue : i # k => queue[i].fd # queue[k].fd
  /\ \A w \in Workers : Busy(w) =>
       /\ job[w].fd \notin watched
       /\ \A i \in DOMAIN queue : queue[i].fd # job[w].fd
       /\ \A v \in Workers : Busy(v) /\ v # w => job[v].fd # job[w].fd

(* ... and an open descriptor has one.                                     *)
OwnersAll ==
  \A f \in Fds : fdOf[f] # None =>
    \/ f \in watched
    \/ \E i \in DOMAIN queue : queue[i].fd = f
    \/ \E w \in Workers : Busy(w) /\ job[w].fd = f

(* The loop only handles descriptors it watches, and it is not in a round  *)
(* once el_main has returned.                                              *)
LoopSound ==
  /\ ready \cap Fds \subseteq watched
  /\ loop.at = "more" => loop.fd \in ready \cap Fds
  /\ phase \in {"closing", "freed"} => loop.at = "select"

(* A worker ends only when the loop can queue nothing more and the queue   *)
(* is empty; the server is freed only when all of them have ended.         *)
DrainSound ==
  /\ \A w \in Workers : job[w].at = "exited" =>
       phase \in {"closing", "freed", "killed"} /\ queue = <<>>
  /\ phase = "freed" => \A w \in Workers : job[w].at = "exited"

(* The inductive invariant of the server.                                  *)
ServerInv ==
  TypeOK /\ ConnsSound /\ OwnersOpen /\ OwnersApart /\ OwnersAll /\ LoopSound /\ DrainSound

-----------------------------------------------------------------------------
(* The kernel's choice of a descriptor, and the number of units a read     *)
(* returns, are members of the sets they are chosen from.                  *)
LEMMA MinIn == ASSUME NEW S \in SUBSET Nat, S # {} PROVE Min(S) \in S
<1>1. PICK x \in S : \A y \in S : ~(<<y, x>> \in OpToRel(<, Nat))
  BY WFMin, NatLessThanWellFounded
<1>2. x \in Nat /\ \A y \in S : y \in Nat /\ ~(y < x)
  BY <1>1, Zenon DEF OpToRel
<1>3. \A y \in S : x =< y
  BY <1>2
<1>4. QED
  BY <1>3, Zenon DEF Min

(* The entries of the queue are jobs.                                      *)
LEMMA QueueEntries ==
  ASSUME queue \in Seq(JobsQueued)
  PROVE  /\ Len(queue) \in Nat /\ DOMAIN queue = 1..Len(queue)
         /\ \A i \in DOMAIN queue : /\ queue[i].fd \in Fds /\ queue[i].conn \in Conns
                                    /\ queue[i].whole \in BOOLEAN
<1>1. \A i \in 1..Len(queue) : queue[i] \in JobsQueued
  BY ElementOfSeq
<1>2. QED
  BY <1>1, LenProperties DEF JobsQueued

(* A step that moves no descriptor keeps every owner.                      *)
LEMMA OwnersKept ==
  ASSUME OwnersOpen, OwnersApart, OwnersAll, UNCHANGED <<fdOf, watched, queue, job>>
  PROVE  OwnersOpen' /\ OwnersApart' /\ OwnersAll'
<1>1. OwnersOpen'
  BY DEF OwnersOpen, Busy
<1>2. OwnersApart'
  BY DEF OwnersApart, Busy
<1>3. OwnersAll'
  BY DEF OwnersAll, Busy
<1>4. QED
  BY <1>1, <1>2, <1>3

(* What a worker's step may change of its job without changing who owns    *)
(* what.                                                                   *)
LEMMA SameOwners ==
  ASSUME OwnersOpen, OwnersApart, OwnersAll, UNCHANGED <<fdOf, watched, queue>>,
         \A w \in Workers : /\ Busy(w)' <=> Busy(w)
                            /\ Busy(w) => job'[w].fd = job[w].fd /\ job'[w].conn = job[w].conn
  PROVE  OwnersOpen' /\ OwnersApart' /\ OwnersAll'
<1>1. OwnersOpen'
  BY DEF OwnersOpen
<1>2. OwnersApart'
  BY DEF OwnersApart
<1>3. OwnersAll'
  BY DEF OwnersAll
<1>4. QED
  BY <1>1, <1>2, <1>3

-----------------------------------------------------------------------------
(* http_respond and close reach the open connection of the descriptor,     *)
(* which was not answered before.                                          *)
LEMMA CloseConns ==
  ASSUME TypeOK, ConnsSound, NEW f \in Fds, NEW a \in Answers, fdOf[f] # None,
         AnswerAndClose(f, a)
  PROVE  /\ conn' \in [Conns -> {"idle", "backlog", "open", "closed"}]
         /\ fdOf' \in [Fds -> Conns \cup {None}] /\ answer' \in [Conns -> Answers]
         /\ fdOf'[f] = None /\ \A e \in Fds \ {f} : fdOf'[e] = fdOf[e]
         /\ ConnsSound'
         /\ \A c \in Conns : answer[c] # "none" => answer'[c] = answer[c]
<1>1. fdOf[f] \in Conns /\ conn[fdOf[f]] = "open" /\ answer[fdOf[f]] = "none"
  BY DEF TypeOK, ConnsSound
<1>2. /\ answer' = [answer EXCEPT ![fdOf[f]] = a]
      /\ conn' = [conn EXCEPT ![fdOf[f]] = "closed"]
      /\ fdOf' = [fdOf EXCEPT ![f] = None]
  BY DEF AnswerAndClose
<1>3. /\ conn' \in [Conns -> {"idle", "backlog", "open", "closed"}]
      /\ fdOf' \in [Fds -> Conns \cup {None}] /\ answer' \in [Conns -> Answers]
      /\ fdOf'[f] = None /\ \A e \in Fds \ {f} : fdOf'[e] = fdOf[e]
  BY <1>1, <1>2 DEF TypeOK
<1>4. ConnsSound'
  BY <1>1, <1>2, <1>3 DEF TypeOK, ConnsSound
<1>5. QED
  BY <1>1, <1>2, <1>3, <1>4 DEF TypeOK

(* The event loop closes a descriptor it watches: no queued job and no     *)
(* worker loses its own.                                                   *)
LEMMA CloseOwners ==
  ASSUME ServerInv, NEW f \in watched, fdOf'[f] = None,
         \A e \in Fds \ {f} : fdOf'[e] = fdOf[e],
         watched' = watched \ {f}, UNCHANGED <<queue, job>>
  PROVE  OwnersOpen' /\ OwnersApart' /\ OwnersAll'
<1>1. \A i \in DOMAIN queue : queue[i].fd \in Fds /\ queue[i].fd # f
  BY QueueEntries DEF ServerInv, TypeOK, OwnersApart
<1>2. \A w \in Workers : Busy(w) => job[w].fd \in Fds /\ job[w].fd # f
  BY DEF ServerInv, OwnersOpen, OwnersApart
<1>3. f \in Fds /\ watched \subseteq Fds
  BY DEF ServerInv, TypeOK
<1>4. OwnersOpen'
  BY <1>1, <1>2, <1>3 DEF ServerInv, OwnersOpen, Busy
<1>5. OwnersApart'
  BY DEF ServerInv, OwnersApart, Busy
<1>6. OwnersAll'
  BY <1>3 DEF ServerInv, OwnersAll, Busy
<1>7. QED
  BY <1>4, <1>5, <1>6

(* The event loop hands a descriptor to the queue: the job becomes its     *)
(* only owner.                                                             *)
LEMMA QueueOwners ==
  ASSUME ServerInv, NEW f \in watched, NEW b \in BOOLEAN,
         queue' = Append(queue, [fd |-> f, conn |-> fdOf[f], whole |-> b]),
         watched' = watched \ {f}, UNCHANGED <<fdOf, job>>
  PROVE  queue' \in Seq(JobsQueued) /\ OwnersOpen' /\ OwnersApart' /\ OwnersAll'
<1>1. f \in Fds /\ watched \subseteq Fds /\ fdOf[f] \in Conns
  BY DEF ServerInv, TypeOK, OwnersOpen
<1>2. queue \in Seq(JobsQueued) /\ Len(queue) \in Nat /\ DOMAIN queue = 1..Len(queue)
  BY QueueEntries DEF ServerInv, TypeOK
<1>3. queue' \in Seq(JobsQueued)
  BY <1>1, <1>2 DEF JobsQueued
<1>4. /\ DOMAIN queue' = 1..(Len(queue) + 1)
      /\ \A i \in DOMAIN queue : queue'[i] = queue[i]
      /\ queue'[Len(queue) + 1] = [fd |-> f, conn |-> fdOf[f], whole |-> b]
  BY <1>1, <1>2, AppendProperties DEF JobsQueued
<1>5. OwnersOpen'
  BY <1>2, <1>4 DEF ServerInv, OwnersOpen, Busy
<1>6. OwnersApart'
  BY <1>2, <1>4 DEF ServerInv, OwnersApart, Busy
<1>7. OwnersAll'
  BY <1>2, <1>4 DEF ServerInv, OwnersAll, Busy
<1>8. QED
  BY <1>3, <1>5, <1>6, <1>7

(* Done(x) takes x out of the round and keeps the loop's record.           *)
LEMMA DoneFacts ==
  ASSUME TypeOK, NEW x, Done(x)
  PROVE  /\ ready' = ready \ {x}
         /\ loop' \in [at : {"select", "dispatch"}, fd : Fds \cup {0}, got : Nat]
BY DEF TypeOK, Done, At

(* While the loop runs, no worker has ended.                               *)
LEMMA NobodyEnded ==
  ASSUME ServerInv, phase \in {"loading", "serving"}
  PROVE  \A w \in Workers : job[w].at # "exited"
BY DEF ServerInv, DrainSound

(* The end of client_read_proc on a watched descriptor: it is queued, or   *)
(* answered and closed, and the file event is gone in both cases.          *)
LEMMA HandInv ==
  ASSUME ServerInv, NEW f \in ready \cap Fds, NEW n, Hand(f, n), Done(f),
         phase \in {"loading", "serving"}, UNCHANGED <<phase, sent, gone, elstop, job>>,
         signals' \in {0, 1}, eventReady' \in BOOLEAN
  PROVE  ServerInv'
<1>1. f \in watched /\ f \in Fds /\ fdOf[f] # None /\ watched' = watched \ {f}
  BY DEF ServerInv, LoopSound, OwnersOpen, Hand
<1>2. \/ /\ queue' = Append(queue, [fd |-> f, conn |-> fdOf[f], whole |-> n = Total(fdOf[f])])
         /\ UNCHANGED <<conn, fdOf, answer>>
      \/ /\ \E a \in Answers : AnswerAndClose(f, a)
         /\ UNCHANGED queue
  BY DEF Hand, Answers
<1>3. ready' = ready \ {f} /\ loop' \in [at : {"select", "dispatch"}, fd : Fds \cup {0}, got : Nat]
  BY DoneFacts DEF ServerInv
<1>4. LoopSound'
  BY <1>1, <1>3 DEF ServerInv, LoopSound
<1>5. DrainSound'
  BY NobodyEnded DEF DrainSound
<1>6. CASE /\ queue' = Append(queue, [fd |-> f, conn |-> fdOf[f], whole |-> n = Total(fdOf[f])])
           /\ UNCHANGED <<conn, fdOf, answer>>
  <2>1. (n = Total(fdOf[f])) \in BOOLEAN
    OBVIOUS
  <2>2. queue' \in Seq(JobsQueued) /\ OwnersOpen' /\ OwnersApart' /\ OwnersAll'
    BY <1>1, <1>6, <2>1, QueueOwners
  <2>3. ConnsSound'
    BY <1>6 DEF ServerInv, ConnsSound
  <2>4. TypeOK'
    BY <1>1, <1>3, <1>6, <2>2 DEF ServerInv, TypeOK
  <2>5. QED
    BY <1>4, <1>5, <2>2, <2>3, <2>4 DEF ServerInv
<1>7. ASSUME NEW a \in Answers, AnswerAndClose(f, a), UNCHANGED queue PROVE ServerInv'
  <2>1. /\ conn' \in [Conns -> {"idle", "backlog", "open", "closed"}]
        /\ fdOf' \in [Fds -> Conns \cup {None}] /\ answer' \in [Conns -> Answers]
        /\ fdOf'[f] = None /\ \A e \in Fds \ {f} : fdOf'[e] = fdOf[e]
        /\ ConnsSound'
    BY <1>1, <1>7, CloseConns DEF ServerInv
  <2>2. OwnersOpen' /\ OwnersApart' /\ OwnersAll'
    BY <1>1, <1>7, <2>1, CloseOwners
  <2>3. TypeOK'
    BY <1>1, <1>3, <1>7, <2>1 DEF ServerInv, TypeOK
  <2>4. QED
    BY <1>4, <1>5, <2>1, <2>2, <2>3 DEF ServerInv
<1>8. QED
  BY <1>2, <1>6, <1>7

(* client_read_proc: an aborted connection ends the process, a short read  *)
(* closes the descriptor, a long one hands it on.                          *)
LEMMA ReadClientInv ==
  ASSUME ServerInv, NEW f \in Fds, ReadClient(f)
  PROVE  ServerInv'
<1> DEFINE c == fdOf[f]
           n == Min({sent[c], BUF - 1})
<1>1. /\ phase = "serving" /\ loop.at = "dispatch" /\ f \in ready \cap Fds
      /\ UNCHANGED <<sent, gone, elstop, signals, eventReady, job>>
  BY DEF ReadClient
<1>2. f \in watched /\ fdOf[f] # None /\ c \in Conns
  BY <1>1 DEF ServerInv, LoopSound, OwnersOpen, TypeOK
<1>3. n \in Nat
  <2>1. {sent[c], BUF - 1} \in SUBSET Nat
    BY <1>2, ServerAssumption DEF ServerInv, TypeOK
  <2>2. QED
    BY <2>1, MinIn
<1>4. CASE /\ phase' = "killed"
           /\ UNCHANGED <<conn, fdOf, watched, ready, loop, queue, answer>>
  <2>1. TypeOK'
    BY <1>1, <1>4 DEF ServerInv, TypeOK
  <2>2. OwnersOpen' /\ OwnersApart' /\ OwnersAll'
    BY <1>1, <1>4, OwnersKept DEF ServerInv
  <2>3. ConnsSound' /\ LoopSound'
    BY <1>1, <1>4 DEF ServerInv, ConnsSound, LoopSound
  <2>4. DrainSound'
    BY <1>1, <1>4, NobodyEnded DEF DrainSound
  <2>5. QED
    BY <2>1, <2>2, <2>3, <2>4 DEF ServerInv
<1>5. ASSUME NEW a \in Answers, AnswerAndClose(f, a), watched' = watched \ {f}, Done(f),
             UNCHANGED <<phase, queue>>
      PROVE  ServerInv'
  <2>1. /\ conn' \in [Conns -> {"idle", "backlog", "open", "closed"}]
        /\ fdOf' \in [Fds -> Conns \cup {None}] /\ answer' \in [Conns -> Answers]
        /\ fdOf'[f] = None /\ \A e \in Fds \ {f} : fdOf'[e] = fdOf[e]
        /\ ConnsSound'
    BY <1>2, <1>5, CloseConns DEF ServerInv
  <2>2. OwnersOpen' /\ OwnersApart' /\ OwnersAll'
    BY <1>1, <1>2, <1>5, <2>1, CloseOwners
  <2>3. /\ ready' = ready \ {f}
        /\ loop' \in [at : {"select", "dispatch"}, fd : Fds \cup {0}, got : Nat]
    BY <1>5, DoneFacts DEF ServerInv
  <2>4. TypeOK'
    BY <1>1, <1>2, <1>5, <2>1, <2>3 DEF ServerInv, TypeOK
  <2>5. LoopSound'
    BY <1>1, <1>5, <2>3 DEF ServerInv, LoopSound
  <2>6. DrainSound'
    BY <1>1, <1>5, NobodyEnded DEF DrainSound
  <2>7. QED
    BY <2>1, <2>2, <2>4, <2>5, <2>6 DEF ServerInv
<1>6. CASE /\ loop' = [at |-> "more", fd |-> f, got |-> n]
           /\ UNCHANGED <<phase, conn, fdOf, watched, ready, queue, answer>>
  <2>1. TypeOK'
    BY <1>1, <1>3, <1>6 DEF ServerInv, TypeOK
  <2>2. OwnersOpen' /\ OwnersApart' /\ OwnersAll'
    BY <1>1, <1>6, OwnersKept DEF ServerInv
  <2>3. ConnsSound' /\ LoopSound'
    BY <1>1, <1>6 DEF ServerInv, ConnsSound, LoopSound
  <2>4. DrainSound'
    BY <1>1, <1>6, NobodyEnded DEF DrainSound
  <2>5. QED
    BY <2>1, <2>2, <2>3, <2>4 DEF ServerInv
<1>7. ASSUME Hand(f, n), Done(f), UNCHANGED phase PROVE ServerInv'
  <2>1. signals' \in {0, 1} /\ eventReady' \in BOOLEAN
    BY <1>1 DEF ServerInv, TypeOK
  <2>2. QED
    BY <1>1, <1>7, <2>1, HandInv
<1>8. "none" \in Answers /\ "400" \in Answers
  BY DEF Answers
<1>9. QED
  BY <1>4, <1>5, <1>6, <1>7, <1>8 DEF ReadClient

(* accept_proc gives the new connection a free descriptor, which nobody    *)
(* owned, or ends the process.                                             *)
LEMMA AcceptInv == ASSUME ServerInv, Accept PROVE ServerInv'
<1> DEFINE free == {f \in Fds : fdOf[f] = None}
<1>1. /\ phase = "serving" /\ UNCHANGED <<sent, gone, elstop, signals, eventReady, queue, job, answer>>
      /\ ready = {ListenFd}
  BY DEF Accept
<1>2. ready' = {} /\ loop' \in [at : {"select", "dispatch"}, fd : Fds \cup {0}, got : Nat]
  <2>1. Done(ListenFd)
    BY DEF Accept
  <2>2. QED
    BY <1>1, <2>1, DoneFacts DEF ServerInv
<1>3. ASSUME NEW c \in Conns, NEW m \in free, conn[c] = "backlog",
             conn' = [conn EXCEPT ![c] = "open"], fdOf' = [fdOf EXCEPT ![m] = c],
             watched' = watched \cup {m}, UNCHANGED phase
      PROVE  ServerInv'
  <2>1. m \in Fds /\ fdOf[m] = None /\ m \notin watched /\ c # None
    BY <1>3, ServerAssumption DEF ServerInv, OwnersOpen
  <2>2. \A e \in Fds : fdOf'[e] = IF e = m THEN c ELSE fdOf[e]
    BY <1>3, <2>1 DEF ServerInv, TypeOK
  <2>3. \A i \in DOMAIN queue : queue[i].fd \in Fds /\ queue[i].conn \in Conns /\ queue[i].fd # m
    BY <2>1, QueueEntries, ServerAssumption DEF ServerInv, TypeOK, OwnersOpen
  <2>4. \A w \in Workers : Busy(w) => job[w].fd \in Fds /\ job[w].fd # m
    BY <2>1, ServerAssumption DEF ServerInv, OwnersOpen
  <2>5. TypeOK'
    BY <1>1, <1>2, <1>3, <2>1 DEF ServerInv, TypeOK
  <2>6. ConnsSound'
    <3>1. \A d \in Conns : conn'[d] = IF d = c THEN "open" ELSE conn[d]
      BY <1>3 DEF ServerInv, TypeOK
    <3>2. \A e \in Fds : fdOf[e] # c
      BY <1>3, <2>1 DEF ServerInv, ConnsSound
    <3>3. answer[c] = "none"
      BY <1>3 DEF ServerInv, ConnsSound
    <3>4. \A e \in Fds : fdOf[e] \in Conns \cup {None}
      BY DEF ServerInv, TypeOK
    <3>5. QED
      BY <1>1, <2>1, <2>2, <3>1, <3>2, <3>3, <3>4 DEF ServerInv, ConnsSound
  <2>7. OwnersOpen'
    BY <1>1, <1>3, <2>1, <2>2, <2>3, <2>4 DEF ServerInv, TypeOK, OwnersOpen, Busy
  <2>8. OwnersApart'
    BY <1>1, <1>3, <2>3, <2>4 DEF ServerInv, OwnersApart, Busy
  <2>9. OwnersAll'
    BY <1>1, <1>3, <2>2 DEF ServerInv, OwnersAll, Busy
  <2>10. LoopSound'
    BY <1>1, <1>2, <1>3 DEF LoopSound
  <2>11. DrainSound'
    BY <1>1, <1>3 DEF ServerInv, DrainSound
  <2>12. QED
    BY <2>5, <2>6, <2>7, <2>8, <2>9, <2>10, <2>11 DEF ServerInv
<1>4. CASE phase' = "killed" /\ UNCHANGED <<conn, fdOf, watched>>
  <2>1. TypeOK'
    BY <1>1, <1>2, <1>4 DEF ServerInv, TypeOK
  <2>2. OwnersOpen' /\ OwnersApart' /\ OwnersAll'
    BY <1>1, <1>4, OwnersKept DEF ServerInv
  <2>3. ConnsSound' /\ LoopSound'
    BY <1>1, <1>2, <1>4 DEF ServerInv, ConnsSound, LoopSound
  <2>4. DrainSound'
    BY <1>1, <1>4, NobodyEnded DEF DrainSound
  <2>5. QED
    BY <2>1, <2>2, <2>3, <2>4 DEF ServerInv
<1>5. free # {} => Min(free) \in free
  <2>1. free \in SUBSET Nat
    BY ServerAssumption
  <2>2. QED
    BY <2>1, MinIn
<1>6. QED
  BY <1>3, <1>4, <1>5 DEF Accept

(* A step of a client, of select, of the shutdown or of the signal handler *)
(* that moves no descriptor and no job: what is left to show is the state  *)
(* of the connections and of the loop.                                     *)
LEMMA QuietInv ==
  ASSUME ServerInv, UNCHANGED <<fdOf, watched, queue, job, answer>>,
         TypeOK', ConnsSound', LoopSound', DrainSound'
  PROVE  ServerInv'
BY OwnersKept DEF ServerInv

(* Clients connect, send and leave.                                        *)
LEMMA ClientInv ==
  ASSUME ServerInv, NEW c \in Conns, Connect(c) \/ Send(c) \/ Leave(c)
  PROVE  ServerInv'
<1>1. UNCHANGED <<phase, fdOf, watched, ready, loop, elstop, signals, eventReady, queue, job, answer>>
  BY DEF Connect, Send, Leave, loopVars
<1>2. LoopSound' /\ DrainSound'
  BY <1>1 DEF ServerInv, LoopSound, DrainSound
<1>3. CASE Connect(c)
  <2>1. /\ conn[c] = "idle" /\ conn' = [conn EXCEPT ![c] = "backlog"]
        /\ UNCHANGED <<sent, gone>>
    BY <1>3 DEF Connect
  <2>2. TypeOK'
    BY <1>1, <2>1 DEF ServerInv, TypeOK
  <2>3. ConnsSound'
    BY <1>1, <2>1 DEF ServerInv, TypeOK, ConnsSound
  <2>4. QED
    BY <1>1, <1>2, <2>2, <2>3, QuietInv
<1>4. CASE Send(c)
  <2>1. sent' = [sent EXCEPT ![c] = sent[c] + 1] /\ UNCHANGED <<conn, gone>>
    BY <1>4 DEF Send
  <2>2. TypeOK' /\ ConnsSound'
    BY <1>1, <2>1 DEF ServerInv, TypeOK, ConnsSound
  <2>3. QED
    BY <1>1, <1>2, <2>2, QuietInv
<1>5. CASE Leave(c)
  <2>1. \E g \in {"fin", "rst"} : gone' = [gone EXCEPT ![c] = g]
    BY <1>5 DEF Leave
  <2>2. UNCHANGED <<conn, sent>>
    BY <1>5 DEF Leave
  <2>3. TypeOK' /\ ConnsSound'
    BY <1>1, <2>1, <2>2 DEF ServerInv, TypeOK, ConnsSound
  <2>4. QED
    BY <1>1, <1>2, <2>3, QuietInv
<1>6. QED
  BY <1>3, <1>4, <1>5

(* process_event begins a round with watched descriptors only.             *)
LEMMA SelectInv == ASSUME ServerInv, Select PROVE ServerInv'
<1>1. /\ phase = "serving" /\ loop' = At("dispatch")
      /\ ready' \subseteq watched \cup {ListenFd, EventFd}
      /\ UNCHANGED <<phase, conn, sent, gone, fdOf, watched, elstop, signals, eventReady,
                     queue, job, answer>>
  BY DEF Select, netVars
<1>2. TypeOK' /\ ConnsSound'
  BY <1>1 DEF ServerInv, TypeOK, ConnsSound, At
<1>3. ListenFd \notin Fds /\ EventFd \notin Fds
  BY ServerAssumption DEF ListenFd, EventFd
<1>4. LoopSound'
  BY <1>1, <1>3 DEF ServerInv, LoopSound, At
<1>5. DrainSound'
  BY <1>1 DEF ServerInv, DrainSound
<1>6. QED
  BY <1>1, <1>2, <1>4, <1>5, QuietInv

(* signal_callback, the start of the loop, el_main's return and the end of *)
(* server_resource_close.                                                  *)
LEMMA PhaseInv ==
  ASSUME ServerInv, Loaded \/ SignalEvent \/ Shutdown \/ Free \/ Ended
  PROVE  ServerInv'
<1>1. UNCHANGED <<conn, sent, gone, fdOf, watched, signals, queue, job, answer>>
  BY DEF Loaded, SignalEvent, Shutdown, Free, Ended, vars, netVars
<1>2. ConnsSound'
  BY <1>1 DEF ServerInv, ConnsSound
<1>3. CASE SignalEvent
  <2>1. Done(EventFd) /\ phase = "serving" /\ UNCHANGED phase /\ elstop' = TRUE /\ eventReady' = FALSE
    BY <1>3 DEF SignalEvent
  <2>2. elstop' \in BOOLEAN /\ eventReady' \in BOOLEAN
    BY <2>1
  <2>3. /\ ready' = ready \ {EventFd}
        /\ loop' \in [at : {"select", "dispatch"}, fd : Fds \cup {0}, got : Nat]
    BY <2>1, DoneFacts DEF ServerInv
  <2>4. TypeOK'
    BY <1>1, <2>1, <2>2, <2>3 DEF ServerInv, TypeOK
  <2>5. LoopSound' /\ DrainSound'
    BY <1>1, <2>1, <2>3 DEF ServerInv, LoopSound, DrainSound
  <2>6. QED
    BY <1>1, <1>2, <2>4, <2>5, QuietInv
<1>4. CASE Loaded \/ Shutdown \/ Free \/ Ended
  <2>1. UNCHANGED <<ready, loop, elstop, eventReady>>
    BY <1>4 DEF Loaded, Shutdown, Free, Ended, vars, loopVars
  <2>2. phase' \in {"loading", "serving", "closing", "freed", "killed"}
    BY <1>4 DEF Loaded, Shutdown, Free, Ended, vars, ServerInv, TypeOK
  <2>3. TypeOK'
    BY <1>1, <2>1, <2>2 DEF ServerInv, TypeOK
  <2>4. LoopSound'
    BY <1>1, <1>4, <2>1 DEF ServerInv, LoopSound, Loaded, Shutdown, Free, Ended, vars
  <2>5. DrainSound'
    BY <1>1, <1>4 DEF ServerInv, DrainSound, Loaded, Shutdown, Free, Ended, vars
  <2>6. QED
    BY <1>1, <1>2, <2>3, <2>4, <2>5, QuietInv
<1>5. QED
  BY <1>3, <1>4

(* The second read of client_read_proc ends.                               *)
LEMMA ReadMoreInv == ASSUME ServerInv, ReadMore PROVE ServerInv'
<1>1. /\ loop.fd \in ready \cap Fds /\ phase = "serving" /\ Done(loop.fd)
      /\ UNCHANGED <<phase, sent, gone, elstop, signals, eventReady, job>>
  BY DEF ReadMore, ServerInv, LoopSound
<1>2. \E n : Hand(loop.fd, n)
  BY DEF ReadMore
<1>3. signals' \in {0, 1} /\ eventReady' \in BOOLEAN
  BY <1>1 DEF ServerInv, TypeOK
<1>4. QED
  BY <1>1, <1>2, <1>3, HandInv

(* worker_main takes the oldest job: the descriptor goes from the queue to *)
(* the worker.                                                             *)
LEMMA TakeInv == ASSUME ServerInv, NEW w \in Workers, Take(w) PROVE ServerInv'
<1>1. /\ job[w].at = "idle" /\ queue # <<>> /\ queue' = Tail(queue)
      /\ job' = [job EXCEPT ![w] = [at |-> "handling", fd |-> Head(queue).fd, out |-> "none",
                                conn |-> Head(queue).conn, whole |-> Head(queue).whole]]
      /\ UNCHANGED <<phase, conn, sent, gone, fdOf, watched, ready, loop, elstop, signals,
                     eventReady, answer>>
  BY DEF Take, netVars, loopVars
<1>2. /\ queue \in Seq(JobsQueued) /\ Len(queue) \in Nat \ {0} /\ DOMAIN queue = 1..Len(queue)
      /\ Head(queue) = queue[1]
      /\ \A i \in DOMAIN queue : /\ queue[i].fd \in Fds /\ queue[i].conn \in Conns
                                 /\ queue[i].whole \in BOOLEAN
  BY <1>1, QueueEntries DEF ServerInv, TypeOK
<1>3. /\ queue' \in Seq(JobsQueued) /\ DOMAIN queue' = 1..(Len(queue) - 1)
      /\ \A i \in 1..(Len(queue) - 1) : queue'[i] = queue[i + 1]
  <2>1. /\ queue' \in Seq(JobsQueued) /\ Len(queue') = Len(queue) - 1
        /\ \A i \in 1..Len(queue') : queue'[i] = queue[i + 1]
    BY <1>1, <1>2, HeadTailProperties
  <2>2. DOMAIN queue' = 1..Len(queue')
    BY <2>1, LenProperties
  <2>3. QED
    BY <2>1, <2>2
<1>4. /\ \A v \in Workers : v # w => job'[v] = job[v]
      /\ job'[w].at = "handling" /\ job'[w].fd = queue[1].fd /\ job'[w].conn = queue[1].conn
      /\ job'[w].whole = queue[1].whole /\ job'[w].out = "none"
  BY <1>1, <1>2 DEF ServerInv, TypeOK
<1>5. ~Busy(w) /\ Busy(w)' /\ \A v \in Workers : v # w => (Busy(v)' <=> Busy(v))
  BY <1>1, <1>4 DEF Busy
<1>6. TypeOK'
  <2>1. [at |-> "handling", fd |-> Head(queue).fd, out |-> "none",
         conn |-> Head(queue).conn, whole |-> Head(queue).whole] \in JobStates
    BY <1>2 DEF JobStates, Answers
  <2>2. job' \in [Workers -> JobStates]
    BY <1>1, <2>1 DEF ServerInv, TypeOK
  <2>3. QED
    BY <1>1, <1>3, <2>2 DEF ServerInv, TypeOK
<1>7. ConnsSound' /\ LoopSound'
  BY <1>1 DEF ServerInv, ConnsSound, LoopSound
<1>8. OwnersOpen'
  BY <1>1, <1>2, <1>3, <1>4, <1>5 DEF ServerInv, OwnersOpen
<1>9. OwnersApart'
  BY <1>1, <1>2, <1>3, <1>4, <1>5 DEF ServerInv, OwnersApart
<1>10. OwnersAll'
  <2> SUFFICES ASSUME NEW f \in Fds, fdOf[f] # None
               PROVE  \/ f \in watched
                      \/ \E i \in DOMAIN queue' : queue'[i].fd = f
                      \/ \E v \in Workers : Busy(v)' /\ job'[v].fd = f
    BY <1>1 DEF OwnersAll
  <2>1. ASSUME NEW i \in DOMAIN queue, queue[i].fd = f
        PROVE  (i = 1 /\ job'[w].fd = f) \/ \E k \in DOMAIN queue' : queue'[k].fd = f
    <3>1. CASE i = 1
      BY <1>4, <2>1, <3>1
    <3>2. CASE i # 1
      <4>1. i - 1 \in 1..(Len(queue) - 1) /\ (i - 1) + 1 = i
        BY <1>2, <3>2
      <4>2. QED
        BY <1>3, <2>1, <4>1
    <3>3. QED
      BY <3>1, <3>2
  <2>2. ASSUME NEW v \in Workers, Busy(v), job[v].fd = f PROVE Busy(v)' /\ job'[v].fd = f
    BY <1>4, <1>5, <2>2
  <2>3. QED
    BY <1>5, <2>1, <2>2 DEF ServerInv, OwnersAll
<1>11. DrainSound'
  BY <1>1, <1>4 DEF ServerInv, DrainSound
<1>12. QED
  BY <1>6, <1>7, <1>8, <1>9, <1>10, <1>11 DEF ServerInv

(* handle_request decides on an answer; a worker with nothing left ends.   *)
LEMMA RunExitInv ==
  ASSUME ServerInv, NEW w \in Workers, Run(w) \/ Exit(w)
  PROVE  ServerInv'
<1>1. UNCHANGED <<phase, conn, sent, gone, fdOf, watched, ready, loop, elstop, signals,
                  eventReady, queue, answer>>
  BY DEF Run, Exit, netVars, loopVars
<1>2. ConnsSound' /\ LoopSound'
  BY <1>1 DEF ServerInv, ConnsSound, LoopSound
<1>3. CASE Run(w)
  <2>1. PICK a \in {"200", "400", "500"} : job' = [job EXCEPT ![w].at = "writing", ![w].out = a]
    BY <1>3 DEF Run
  <2>2. job[w].at = "handling"
    BY <1>3 DEF Run
  <2>3. job'[w].at = "writing" /\ \A v \in Workers : /\ v # w => job'[v] = job[v]
                                                     /\ job'[v].fd = job[v].fd
                                                     /\ job'[v].conn = job[v].conn
    BY <2>1 DEF ServerInv, TypeOK
  <2>4. \A v \in Workers : Busy(v)' <=> Busy(v)
    BY <2>2, <2>3 DEF Busy
  <2>5. TypeOK'
    <3>1. job[w] \in JobStates /\ a \in Answers
      BY DEF ServerInv, TypeOK, Answers
    <3>2. [job[w] EXCEPT !.at = "writing", !.out = a] \in JobStates
      BY <3>1 DEF JobStates
    <3>3. job' \in [Workers -> JobStates]
      BY <2>1, <3>2 DEF ServerInv, TypeOK
    <3>4. QED
      BY <1>1, <3>3 DEF ServerInv, TypeOK
  <2>6. OwnersOpen' /\ OwnersApart' /\ OwnersAll'
    BY <1>1, <2>3, <2>4, SameOwners DEF ServerInv
  <2>7. DrainSound'
    BY <1>1, <2>2, <2>3 DEF ServerInv, DrainSound
  <2>8. QED
    BY <1>2, <2>5, <2>6, <2>7 DEF ServerInv
<1>4. CASE Exit(w)
  <2>1. phase = "closing" /\ job[w].at = "idle" /\ queue = <<>> /\ job' = [job EXCEPT ![w] = Exited]
    BY <1>4 DEF Exit
  <2>2. job'[w].at = "exited" /\ \A v \in Workers : v # w => job'[v] = job[v]
    BY <2>1 DEF ServerInv, TypeOK, Exited, Idle
  <2>3. \A v \in Workers : (Busy(v)' <=> Busy(v)) /\ (Busy(v) => job'[v] = job[v])
    BY <2>1, <2>2 DEF Busy
  <2>4. TypeOK'
    BY <1>1, <2>1 DEF ServerInv, TypeOK, JobStates, Exited, Idle, Answers
  <2>5. OwnersOpen' /\ OwnersApart' /\ OwnersAll'
    BY <1>1, <2>3, SameOwners DEF ServerInv
  <2>6. DrainSound'
    BY <1>1, <2>1, <2>2 DEF ServerInv, DrainSound
  <2>7. QED
    BY <1>2, <2>4, <2>5, <2>6 DEF ServerInv
<1>5. QED
  BY <1>3, <1>4

(* The worker writes the rest of its answer and closes its descriptor,     *)
(* which is nobody else's.                                                 *)
LEMMA FinishInv == ASSUME ServerInv, NEW w \in Workers, Finish(w) PROVE ServerInv'
<1> DEFINE f == job[w].fd
<1>1. /\ job[w].at = "writing" /\ AnswerAndClose(f, job[w].out) /\ job' = [job EXCEPT ![w] = Idle]
      /\ UNCHANGED <<phase, sent, gone, watched, ready, loop, elstop, signals, eventReady, queue>>
  BY DEF Finish, loopVars
<1>2. Busy(w) /\ f \in Fds /\ fdOf[f] \in Conns /\ fdOf[f] # None /\ job[w].out \in Answers
  BY <1>1, ServerAssumption DEF Busy, ServerInv, TypeOK, JobStates, OwnersOpen
<1>3. /\ conn' \in [Conns -> {"idle", "backlog", "open", "closed"}]
      /\ fdOf' \in [Fds -> Conns \cup {None}] /\ answer' \in [Conns -> Answers]
      /\ fdOf'[f] = None /\ \A e \in Fds \ {f} : fdOf'[e] = fdOf[e]
      /\ ConnsSound'
  BY <1>1, <1>2, CloseConns DEF ServerInv
<1>4. job'[w].at = "idle" /\ \A v \in Workers : v # w => job'[v] = job[v]
  BY <1>1 DEF ServerInv, TypeOK, Idle
<1>5. ~Busy(w)' /\ \A v \in Workers : v # w => (Busy(v)' <=> Busy(v))
  BY <1>4 DEF Busy
<1>6. /\ f \notin watched /\ \A i \in DOMAIN queue : queue[i].fd \in Fds \ {f}
      /\ \A v \in Workers : Busy(v) /\ v # w => job[v].fd \in Fds \ {f}
  BY <1>2, QueueEntries DEF ServerInv, TypeOK, OwnersOpen, OwnersApart
<1>7. TypeOK'
  <2>1. Idle \in JobStates
    BY DEF Idle, JobStates, Answers
  <2>2. job' \in [Workers -> JobStates]
    BY <1>1, <2>1 DEF ServerInv, TypeOK
  <2>3. QED
    BY <1>1, <1>3, <2>2 DEF ServerInv, TypeOK
<1>8. OwnersOpen'
  <2>1. \A g \in watched : g \in Fds \ {f}
    BY <1>6 DEF ServerInv, TypeOK
  <2>2. QED
    BY <1>1, <1>3, <1>4, <1>5, <1>6, <2>1 DEF ServerInv, OwnersOpen
<1>9. OwnersApart'
  BY <1>1, <1>4, <1>5 DEF ServerInv, OwnersApart
<1>10. OwnersAll'
  BY <1>1, <1>3, <1>4, <1>5 DEF ServerInv, OwnersAll
<1>11. LoopSound' /\ DrainSound'
  BY <1>1, <1>4 DEF ServerInv, LoopSound, DrainSound
<1>12. QED
  BY <1>3, <1>7, <1>8, <1>9, <1>10, <1>11 DEF ServerInv

(* signal_handler, with the blocking call it may interrupt: the second     *)
(* read ends early, or a worker's response is cut.                         *)
LEMMA SignalInv == ASSUME ServerInv, Signal PROVE ServerInv'
<1>1. signals' = 1 /\ Alive
  BY DEF Signal
<1>2. CASE signals > 0
  <2>1. /\ phase' = "killed"
        /\ UNCHANGED <<conn, sent, gone, fdOf, watched, ready, loop, elstop, eventReady, queue,
                       job, answer>>
    BY <1>2 DEF Signal, netVars, loopVars
  <2>2. TypeOK' /\ ConnsSound' /\ LoopSound'
    BY <1>1, <2>1 DEF ServerInv, TypeOK, ConnsSound, LoopSound
  <2>3. DrainSound'
    BY <2>1 DEF ServerInv, DrainSound
  <2>4. QED
    BY <2>1, <2>2, <2>3, QuietInv
<1>3. CASE ~(signals > 0)
  <2>1. eventReady' = (phase # "loading") /\ UNCHANGED <<phase, sent, gone, elstop>>
    BY <1>3 DEF Signal
  <2>2. eventReady' \in BOOLEAN /\ signals' \in {0, 1}
    BY <1>1, <2>1
  <2>3. CASE UNCHANGED <<conn, fdOf, watched, ready, loop, queue, answer, job>>
    <3>1. TypeOK' /\ ConnsSound' /\ LoopSound' /\ DrainSound'
      BY <2>1, <2>2, <2>3 DEF ServerInv, TypeOK, ConnsSound, LoopSound, DrainSound
    <3>2. QED
      BY <2>3, <3>1, QuietInv
  <2>4. CASE loop.at = "more" /\ Hand(loop.fd, loop.got) /\ Done(loop.fd) /\ UNCHANGED job
    <3>1. loop.fd \in ready \cap Fds /\ phase \in {"loading", "serving"}
      BY <1>1, <2>4 DEF ServerInv, LoopSound, Alive
    <3>2. QED
      BY <2>1, <2>2, <2>4, <3>1, HandInv
  <2>5. ASSUME NEW w \in Workers, job[w].at = "writing", job' = [job EXCEPT ![w].out = "cut"],
               UNCHANGED <<conn, fdOf, watched, ready, loop, queue, answer>>
        PROVE  ServerInv'
    <3>1. job[w] \in JobStates
      BY DEF ServerInv, TypeOK
    <3>2. [job[w] EXCEPT !.out = "cut"] \in JobStates
      BY <3>1 DEF JobStates, Answers
    <3>3. TypeOK'
      BY <2>1, <2>2, <2>5, <3>2 DEF ServerInv, TypeOK
    <3>4. \A v \in Workers : /\ job'[v].at = job[v].at /\ job'[v].fd = job[v].fd
                             /\ job'[v].conn = job[v].conn
      BY <2>5, <3>1 DEF ServerInv, TypeOK, JobStates
    <3>5. \A v \in Workers : Busy(v)' <=> Busy(v)
      BY <3>4 DEF Busy
    <3>6. OwnersOpen' /\ OwnersApart' /\ OwnersAll'
      BY <2>5, <3>4, <3>5, SameOwners DEF ServerInv
    <3>7. ConnsSound' /\ LoopSound' /\ DrainSound'
      BY <2>1, <2>5, <3>4 DEF ServerInv, ConnsSound, LoopSound, DrainSound
    <3>8. QED
      BY <3>3, <3>6, <3>7 DEF ServerInv
  <2>6. QED
    BY <1>3, <2>3, <2>4, <2>5 DEF Signal
<1>4. QED
  BY <1>2, <1>3

-----------------------------------------------------------------------------
(* The server before the model is loaded.                                  *)
LEMMA InitInv == Init => ServerInv
<1> SUFFICES ASSUME Init PROVE ServerInv
  OBVIOUS
<1>1. Idle \in JobStates
  BY DEF Idle, JobStates, Answers
<1>2. elstop \in BOOLEAN /\ eventReady \in BOOLEAN
  BY DEF Init
<1>3. queue \in Seq(JobsQueued) /\ DOMAIN queue = {}
  BY DEF Init
<1>4. TypeOK
  BY <1>1, <1>2, <1>3 DEF Init, TypeOK, At, Answers
<1>5. \A w \in Workers : job[w].at = "idle"
  BY DEF Init, Idle
<1>6. ConnsSound /\ OwnersOpen /\ OwnersApart /\ OwnersAll
  BY <1>3, <1>5 DEF Init, ConnsSound, OwnersOpen, OwnersApart, OwnersAll, Busy
<1>7. LoopSound /\ DrainSound
  BY <1>5 DEF Init, LoopSound, DrainSound, At
<1>8. QED
  BY <1>4, <1>6, <1>7 DEF ServerInv

(* No step of a client, the event loop, a worker or the signal handler     *)
(* leaves the invariant.                                                   *)
LEMMA NextInv == ServerInv /\ [Next]_vars => ServerInv'
<1> SUFFICES ASSUME ServerInv, [Next]_vars PROVE ServerInv'
  OBVIOUS
<1>1. CASE UNCHANGED vars
  <2>1. TypeOK' /\ ConnsSound' /\ LoopSound' /\ DrainSound'
    BY <1>1 DEF vars, ServerInv, TypeOK, ConnsSound, LoopSound, DrainSound
  <2>2. QED
    BY <1>1, <2>1, QuietInv DEF vars
<1>2. QED
  BY <1>1, ClientInv, SelectInv, PhaseInv, AcceptInv, ReadMoreInv, ReadClientInv, TakeInv,
     RunExitInv, FinishInv, SignalInv
     DEF Next, LoopStep, WorkerStep

(* An owner of an open descriptor is unique, so Holds has one member; a    *)
(* closed descriptor has no owner.                                         *)
LEMMA InvHandover == ServerInv => Handover
<1> SUFFICES ASSUME ServerInv PROVE Handover
  OBVIOUS
<1>1. DOMAIN queue = 1..Len(queue)
      /\ \A i \in DOMAIN queue : queue[i].fd \in Fds /\ queue[i].conn \in Conns
  BY QueueEntries DEF ServerInv, TypeOK
<1>2. RightClient
  BY DEF RightClient, ServerInv, OwnersOpen, Busy
<1>3. ASSUME NEW f \in Fds, fdOf[f] = None PROVE Cardinality(Holds(f)) = 0
  <2>1. f \notin watched /\ \A i \in DOMAIN queue : queue[i].fd # f
    BY <1>1, <1>3, ServerAssumption DEF ServerInv, OwnersOpen
  <2>2. \A w \in Workers : Busy(w) => job[w].fd # f
    BY <1>3, ServerAssumption DEF ServerInv, OwnersOpen
  <2>3. Holds(f) = {}
    BY <2>1, <2>2 DEF Holds, Busy
  <2>4. QED
    BY <2>3, FS_EmptySet
<1>4. ASSUME NEW f \in Fds, fdOf[f] # None PROVE Cardinality(Holds(f)) = 1
  <2>1. \E x : Holds(f) = {x}
    <3>1. CASE f \in watched
      <4>1. \A i \in DOMAIN queue : queue[i].fd # f
        BY <3>1 DEF ServerInv, OwnersApart
      <4>2. \A w \in Workers : Busy(w) => job[w].fd # f
        BY <3>1 DEF ServerInv, OwnersApart
      <4>3. Holds(f) = {<<"loop", 0>>}
        BY <3>1, <4>1, <4>2 DEF Holds, Busy
      <4>4. QED
        BY <4>3
    <3>2. ASSUME NEW i \in DOMAIN queue, queue[i].fd = f PROVE \E x : Holds(f) = {x}
      <4>1. f \notin watched /\ {k \in DOMAIN queue : queue[k].fd = f} = {i}
        BY <3>2 DEF ServerInv, OwnersApart
      <4>2. {v \in Workers : Busy(v) /\ job[v].fd = f} = {}
        BY <3>2 DEF ServerInv, OwnersApart
      <4>3. Holds(f) = {<<"queue", i>>}
        BY <4>1, <4>2 DEF Holds, Busy
      <4>4. QED
        BY <4>3
    <3>3. ASSUME NEW w \in Workers, Busy(w), job[w].fd = f PROVE \E x : Holds(f) = {x}
      <4>1. f \notin watched /\ {k \in DOMAIN queue : queue[k].fd = f} = {}
        BY <3>3 DEF ServerInv, OwnersApart
      <4>2. {v \in Workers : Busy(v) /\ job[v].fd = f} = {w}
        BY <3>3 DEF ServerInv, OwnersApart
      <4>3. Holds(f) = {<<"worker", w>>}
        BY <4>1, <4>2 DEF Holds, Busy
      <4>4. QED
        BY <4>3
    <3>4. QED
      BY <1>4, <3>1, <3>2, <3>3 DEF ServerInv, OwnersAll
  <2>2. QED
    BY <2>1, FS_Singleton
<1>5. QED
  BY <1>2, <1>3, <1>4 DEF Handover, OneOwner

(* When the server has been freed, the queue is empty and every open       *)
(* descriptor is one the loop still watched.                               *)
LEMMA InvDrained == ServerInv => DrainedBeforeFree
<1> SUFFICES ASSUME ServerInv, phase = "freed"
             PROVE  /\ queue = <<>> /\ \A w \in Workers : job[w].at = "exited"
                    /\ \A f \in Fds : fdOf[f] # None => f \in watched
  BY DEF DrainedBeforeFree
<1>1. \A w \in Workers : job[w].at = "exited"
  BY DEF ServerInv, DrainSound
<1>2. queue = <<>>
  BY <1>1, ServerAssumption DEF ServerInv, DrainSound
<1>3. DOMAIN queue = {} /\ \A w \in Workers : ~Busy(w)
  BY <1>1, <1>2 DEF Busy
<1>4. QED
  BY <1>1, <1>2, <1>3 DEF ServerInv, OwnersAll

-----------------------------------------------------------------------------
(* The invariant of the server, whatever the clients, the kernel and the   *)
(* signals do.                                                             *)
THEOREM ServerInvariant == Spec => []ServerInv
<1>1. QED
  BY InitInv, NextInv, PTL DEF Spec

(* A descriptor accepted by accept_proc has one owner at a time, the event *)
(* loop, the queue or one worker, until that owner closes it, and a worker *)
(* answers the client it read the request from, although the kernel reuses *)
(* descriptor numbers.                                                     *)
THEOREM DescriptorHandover == Spec => []Handover
<1>1. QED
  BY ServerInvariant, InvHandover, PTL

(* server_resource_close frees sessions and engine only when every worker  *)
(* has ended and every request it was given has been answered.             *)
THEOREM FreedWhenDrained == Spec => []DrainedBeforeFree
<1>1. QED
  BY ServerInvariant, InvDrained, PTL

(* A step writes to no connection, or to the one open connection of a      *)
(* descriptor whose owner closes it.                                       *)
LEMMA OneWriter ==
  ASSUME ServerInv, [Next]_vars
  PROVE  \/ UNCHANGED answer
         \/ \E f \in Fds, a \in Answers : fdOf[f] # None /\ AnswerAndClose(f, a)
<1>1. ASSUME NEW f \in ready \cap Fds PROVE fdOf[f] # None
  BY DEF ServerInv, LoopSound, OwnersOpen
<1>2. "none" \in Answers /\ "400" \in Answers /\ "503" \in Answers
  BY DEF Answers
<1>3. ASSUME NEW f \in ready \cap Fds, NEW n, Hand(f, n)
      PROVE  UNCHANGED answer \/ \E a \in Answers : AnswerAndClose(f, a)
  BY <1>2, <1>3 DEF Hand
<1>4. ASSUME NEW f \in Fds, ReadClient(f)
      PROVE  UNCHANGED answer \/ (fdOf[f] # None /\ \E a \in Answers : AnswerAndClose(f, a))
  <2>1. f \in ready \cap Fds
    BY <1>4 DEF ReadClient
  <2>2. QED
    BY <1>1, <1>2, <1>3, <1>4, <2>1 DEF ReadClient
<1>5. CASE loop.at = "more" /\ \E n : Hand(loop.fd, n)
  <2>1. loop.fd \in ready \cap Fds
    BY <1>5 DEF ServerInv, LoopSound
  <2>2. QED
    BY <1>1, <1>3, <1>5, <2>1
<1>6. ASSUME NEW w \in Workers, Finish(w)
      PROVE  /\ job[w].fd \in Fds /\ fdOf[job[w].fd] # None /\ job[w].out \in Answers
             /\ AnswerAndClose(job[w].fd, job[w].out)
  <2>1. job[w].fd \in Fds /\ fdOf[job[w].fd] # None
    BY <1>6, ServerAssumption DEF Finish, ServerInv, OwnersOpen, Busy
  <2>2. job[w].out \in Answers
    BY DEF ServerInv, TypeOK, JobStates
  <2>3. QED
    BY <1>6, <2>1, <2>2 DEF Finish
<1>7. CASE Signal
  BY <1>5, <1>7 DEF Signal
<1>8. CASE ReadMore
  BY <1>5, <1>8 DEF ReadMore
<1>9. ASSUME NEW c \in Conns, Connect(c) \/ Send(c) \/ Leave(c) PROVE UNCHANGED answer
  BY <1>9 DEF Connect, Send, Leave
<1>10. ASSUME NEW w \in Workers, Take(w) \/ Run(w) \/ Exit(w) PROVE UNCHANGED answer
  BY <1>10 DEF Take, Run, Exit
<1>11. CASE Loaded \/ Select \/ Accept \/ SignalEvent \/ Shutdown \/ Free \/ Ended \/ UNCHANGED vars
  BY <1>11 DEF Loaded, Select, Accept, SignalEvent, Shutdown, Free, Ended, vars
<1>12. QED
  BY <1>4, <1>6, <1>7, <1>8, <1>9, <1>10, <1>11 DEF Next, LoopStep, WorkerStep

(* What was written to a client is never followed by a second answer: not  *)
(* by the loop after a worker, not by two workers, not through a reused    *)
(* descriptor number.                                                      *)
THEOREM OneAnswer == Spec => AnsweredOnce
<1>1. ServerInv /\ [Next]_vars
        => [\A c \in Conns : answer[c] # "none" => answer'[c] = answer[c]]_vars
  BY OneWriter, CloseConns DEF ServerInv
<1>2. QED
  BY <1>1, ServerInvariant, PTL DEF Spec, AnsweredOnce
=============================================================================
