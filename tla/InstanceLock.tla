---------------------------- MODULE InstanceLock ----------------------------
(***************************************************************************)
(* The single-instance guard (acquire_instance_lock and                    *)
(* release_instance_lock in src/src/core.c): an exclusive flock on a lock  *)
(* file that also holds the owner's process id.  Opening the file, taking  *)
(* the lock, emptying the file and writing the id are separate system      *)
(* calls, between which other processes run and any process may be killed. *)
(***************************************************************************)
EXTENDS Integers, FiniteSets

CONSTANTS
    Procs,      \* the processes that may start
    NoProc,     \* no process: an unlocked or empty file
    MaxStarts   \* how often each of them starts, after it has ended

ASSUME InstanceLockAssumption == NoProc \notin Procs /\ MaxStarts \in [Procs -> Nat]

VARIABLES
    lpc,        \* where each process is in acquire_instance_lock
    owner,      \* the process whose descriptor has the lock, kept by the kernel
    lockfile,   \* the process id in the file
    starts      \* how often each process was started

lockVars == <<lpc, owner, lockfile, starts>>

LockInit ==
    /\ lpc = [p \in Procs |-> "off"]
    /\ owner = NoProc
    /\ lockfile = NoProc
    /\ starts = [p \in Procs |-> 0]

Goto(p, to) == lpc' = [lpc EXCEPT ![p] = to]

Open(p) ==
    /\ lpc[p] = "off" /\ starts[p] < MaxStarts[p]
    /\ starts' = [starts EXCEPT ![p] = @ + 1]
    /\ Goto(p, "opened")
    /\ UNCHANGED <<owner, lockfile>>

\* Mutant of Flock: the message about the other process does not end this one.
FlockGoesOn(p) ==
    /\ lpc[p] = "opened"
    /\ owner' = IF owner = NoProc THEN p ELSE owner
    /\ Goto(p, "locked")
    /\ UNCHANGED <<lockfile, starts>>

\* flock with LOCK_NB.  A refused process reads the file, says who owns it and
\* exits.
Flock(p) ==
    /\ lpc[p] = "opened"
    /\ IF owner = NoProc
       THEN owner' = p /\ Goto(p, "locked")
       ELSE owner' = owner /\ Goto(p, "off")
    /\ UNCHANGED <<lockfile, starts>>

Ftruncate(p) ==
    /\ lpc[p] = "locked"
    /\ lockfile' = NoProc
    /\ Goto(p, "truncated")
    /\ UNCHANGED <<owner, starts>>

\* The result of dprintf is ignored: on a full disk the file stays empty.
WritePid(p) ==
    /\ lpc[p] = "truncated"
    /\ lockfile' \in {p, lockfile}
    /\ Goto(p, "running")
    /\ UNCHANGED <<owner, starts>>

\* A process ends, by itself (release_instance_lock runs at exit), by an error
\* of a system call above, or killed: the kernel closes the descriptor.  The
\* file keeps the id.
Exit(p) ==
    /\ lpc[p] # "off"
    /\ owner' = IF owner = p THEN NoProc ELSE owner
    /\ Goto(p, "off")
    /\ UNCHANGED <<lockfile, starts>>

Acquire(p) == Open(p) \/ Flock(p) \/ Ftruncate(p) \/ WritePid(p)

\* What any number of processes do to the lock; a step of Startup is one of these or
\* leaves the lock alone.
LockNext == \E p \in Procs : Acquire(p) \/ Exit(p)
LockSpec == LockInit /\ [][LockNext]_lockVars

-----------------------------------------------------------------------------
\* acquire_instance_lock: at most one process is past the lock, whatever was
\* killed where, and once a process runs the file never names another one,
\* although refused processes opened it and dead owners wrote it.
OneInstance ==
    /\ \A p \in Procs : lpc[p] \in {"locked", "truncated", "running"} <=> owner = p
    /\ \A p \in Procs : lpc[p] = "running" => lockfile \in {p, NoProc}
=============================================================================
