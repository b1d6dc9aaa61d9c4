------------------------------ MODULE Startup ------------------------------
(***************************************************************************)
(* How a process of this repository starts (main of src/src/server.c):     *)
(* engine_open takes the instance lock and loads the model, then the       *)
(* context and the offload depth are chosen and the sessions created.      *)
(* Other processes contend for the lock meanwhile, and any process may be  *)
(* killed at any point.                                                    *)
(***************************************************************************)
EXTENDS InstanceLock, ModelConfig, AutoFit

CONSTANT Me     \* the process whose one start is followed

ASSUME StartupAssumption == Me \in Procs /\ MaxStarts[Me] = 1

vars == <<lockVars, modelVars, phase, fitVars>>

Init == LockInit /\ LoaderInit /\ FitInit

Lock(p) == UNCHANGED <<modelVars, phase, fitVars>> /\ Acquire(p)

Load == lpc[Me] = "running" /\ UNCHANGED <<lockVars, fitVars>> /\ EngineOpen

\* main, after engine_open: the model is there and does not change any more.
BeginFit ==
    /\ phase = "loaded" /\ phase' = "in use"
    /\ \E o \in Options[file] : Begin(ConfigOf(o))

FitStep ==
    /\ lpc[Me] = "running" /\ UNCHANGED <<lockVars, modelVars>>
    /\ BeginFit \/ (Fit /\ UNCHANGED phase)

Memory == lpc[Me] = "running" /\ UNCHANGED <<lockVars, modelVars, phase>> /\ MemoryChanges

\* A process ends, and with it what it had loaded.
End(p) ==
    /\ Exit(p)
    /\ IF p = Me THEN LoaderGone /\ FitGone
       ELSE UNCHANGED <<modelVars, phase, fitVars>>

\* exit after a fatal error, or after the summary of an inspected model.
Leave == phase \in {"fatal", "inspected"} /\ End(Me)

\* A process is killed, or one that serves ends.
Stop(p) == End(p)

Idle == \A p \in Procs : lpc[p] = "off" /\ starts[p] = MaxStarts[p]

Next ==
    \/ \E p \in Procs : Lock(p) \/ Stop(p)
    \/ Load \/ FitStep \/ Memory \/ Leave
    \/ Idle /\ UNCHANGED vars

\* The followed process runs through its startup without waiting for anything;
\* nobody has to start, or to be killed.
Spec == Init /\ [][Next]_vars /\ WF_vars(Load \/ FitStep \/ Leave)
             /\ WF_vars(lpc[Me] # "off" /\ Lock(Me))

-----------------------------------------------------------------------------
\* What the loader hands over is what the estimates take for granted: the embedding,
\* the layers and the output are counted from different tensors, a tensor with two
\* roles once, so that together they are no more than the file; and the start of a
\* process, wherever it is killed, takes the steps of AutoFit and no others.
StartImplementsFit == FitSpec

\* A process that got the lock either comes up with all its sessions, or ends and
\* frees the lock for the next one: the search for a context ends, and no error
\* of the loader leaves the lock taken.
StartupEnds == owner = Me ~> (stage = "done" \/ owner # Me)
=============================================================================
