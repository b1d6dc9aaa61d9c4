------------------------------ MODULE AutoFit ------------------------------
(***************************************************************************)
(* How the programs choose a context size and the number of layers to put  *)
(* on a CUDA device (src/src/core.c): engine_auto_ctx_size before the      *)
(* first session exists, session_resolve_gpu_layers in every               *)
(* session_create, and the engine's cache of the estimate between them.    *)
(* The free memory of the device is read by each of them, and changes      *)
(* meanwhile: sessions allocate, and so do other processes.                *)
(*                                                                         *)
(* The sizes of the model are any that ConfigOK admits; Startup takes them *)
(* from a loaded file.  The constants of the formulas are parameters, so   *)
(* that small numbers reach every branch.                                  *)
(***************************************************************************)
EXTENDS Integers, Sequences, FiniteSetsExt

CONSTANTS
    FreeMemory,   \* what gpu_mem_info may report, 0 when it fails
    Reserve,      \* memory kept for the driver
    DefaultCtx,   \* DEFAULT_CTX_SIZE
    DefaultLow,   \* least context when n_ubatch is not given
    Granule       \* contexts are rounded down to a multiple of it

ASSUME AutoFitAssumption ==
    /\ FreeMemory \subseteq Nat
    /\ {DefaultCtx, DefaultLow, Granule} \subseteq Nat \ {0} /\ Reserve \in Nat

VARIABLES
    stage,      \* "off", "auto", "search", "create" or "done"
    config,     \* the options, and what the loaded model needs
    free,       \* the device's free memory
    free_b,     \* what engine_auto_ctx_size has read
    lo, hi,     \* the bounds of the search
    path,       \* which branch chose the context
    ctx,        \* the context size of the sessions
    auto,       \* en->auto_gpu_layers, -1 when not computed
    sessions,   \* n_gpu_layers of the sessions created so far
    first       \* history: what the first session read as free memory, -1 when none did

fitVars == <<stage, config, free, free_b, lo, hi, path, ctx, auto, sessions, first>>

FitInit ==
    /\ stage = "off"
    /\ config = <<>>
    /\ free = 0
    /\ free_b = 0
    /\ lo = 0 /\ hi = 0
    /\ path = "given"
    /\ ctx = 0
    /\ auto = -1
    /\ sessions = <<>>
    /\ first = -1

\* The memory of a process that has ended.
FitGone ==
    /\ stage' = "off"
    /\ config' = <<>> /\ free' = 0 /\ free_b' = 0 /\ lo' = 0 /\ hi' = 0
    /\ path' = "given" /\ ctx' = 0 /\ auto' = -1 /\ sessions' = <<>> /\ first' = -1

-----------------------------------------------------------------------------
(* What the loaded model needs.                                            *)

\* The totals of a loop that adds up the terms h[1], ..., h[n], beginning with a.
Running(a, h, n) ==
    LET S[i \in 0..n] == IF i = 0 THEN a ELSE S[i - 1] + h[i] IN S

Weights(c) == [l \in 1..Len(c.layers) |-> c.layers[l].w]

\* The sizes of a model and the options of a command line; latent is the size of
\* DeepSeek's cache per layer and token, 0 for other architectures.  The embedding,
\* the layers and an output tensor of its own are different tensors of the file.
ConfigOK(c) ==
    /\ c \in [layers : Seq([w : Nat, attn : BOOLEAN, kv : BOOLEAN]),
              embd : Nat, tied : BOOLEAN, out : Nat, total : Nat,
              kv : Nat, latent : Nat, arena : Nat, model_ctx : Nat,
              ctx_size : Nat, n_ubatch : Nat, ngl : Int,
              n_parallel : Nat \ {0}, gpu : BOOLEAN]
    /\ \A l \in 1..Len(c.layers) : c.layers[l].attn => c.layers[l].kv
    /\ c.tied \/ Running(c.embd, Weights(c), Len(c.layers))[Len(c.layers)] + c.out <= c.total

L == Len(config.layers)
ModelCtx == IF config.model_ctx = 0 THEN DefaultCtx ELSE config.model_ctx

\* main, after engine_open.  What happened to the device's memory before matters
\* to nobody.
Begin(c) ==
    /\ stage = "off"
    /\ config' = c /\ ctx' = c.ctx_size
    /\ stage' = IF c.ctx_size > 0 THEN "create" ELSE "auto"
    /\ free' \in FreeMemory
    /\ UNCHANGED <<free_b, lo, hi, path, auto, sessions, first>>

-----------------------------------------------------------------------------
(* The estimates.                                                          *)

GpuMemoryBudget(f) == ((IF f > Reserve THEN f - Reserve ELSE 0) \div 10) * 9

\* gpu_layers_fit_at: the share of layer l in a context of c tokens, the memory in
\* use after each of the layers, and the number of leading layers that fit.
LayerShare(l, c, n_ubatch) ==
    LET rows == IF n_ubatch > 0 THEN n_ubatch ELSE c
    IN  config.layers[l].w
        + (IF config.layers[l].attn THEN c * config.kv * config.n_parallel ELSE 0)
        + (rows * config.arena * config.n_parallel) \div L

Used(c, n_ubatch) ==
    Running(config.embd, [l \in 1..L |-> LayerShare(l, c, n_ubatch)], L)

LayersFitAt(c, n_ubatch, f) ==
    LET used == Used(c, n_ubatch)
        fits == Max({n \in 0..L : \A k \in 1..n : used[k] <= GpuMemoryBudget(f)})
    IN  IF f = 0 \/ L = 0 THEN 0
        ELSE IF fits = L /\ used[L] + config.out > GpuMemoryBudget(f)
        THEN L - 1
        ELSE fits

\* The search's question.
FitsAll(c) == LayersFitAt(c, config.n_ubatch, free_b) >= L

\* kv_cache_bytes_per_token and gpu_weight_bytes for a given -ngl.
Limit == IF config.ngl < 0 \/ config.ngl >= L THEN L ELSE config.ngl
KvLayers == Running(0, [l \in 1..L |-> IF config.layers[l].kv THEN 1 ELSE 0], L)
KvPerToken ==
    IF config.latent > 0 THEN config.latent * Limit ELSE config.kv * KvLayers[Limit]
GpuWeights ==
    IF config.ngl < 0 \/ config.ngl >= L THEN config.total
    ELSE Running(config.embd, Weights(config), L)[Limit]

\* The memory that does not depend on the context.
Fixed ==
    GpuWeights + (IF config.n_ubatch > 0 THEN config.n_ubatch ELSE ModelCtx)
                 * config.arena * config.n_parallel

RoundDown(c) == IF c > Granule THEN (c \div Granule) * Granule ELSE c

-----------------------------------------------------------------------------
(* engine_auto_ctx_size.                                                   *)

Choose(branch, c) ==
    /\ path' = branch
    /\ ctx' = c
    /\ stage' = "create"
    /\ UNCHANGED <<lo, hi>>

\* The context for a given -ngl: what the budget leaves for the caches, at least
\* n_ubatch.
Low == Min({IF config.n_ubatch > 0 THEN config.n_ubatch ELSE DefaultLow, ModelCtx})

ForGivenDepth(f) ==
    LET budget == GpuMemoryBudget(f)
        fit == IF budget > Fixed
               THEN (budget - Fixed) \div (KvPerToken * config.n_parallel) ELSE 0
    IN  IF fit >= ModelCtx THEN ModelCtx ELSE Min({Max({RoundDown(fit), Low}), ModelCtx})

\* Everything up to the search.  Memory is read once.
AutoCtx ==
    /\ stage = "auto"
    /\ UNCHANGED <<config, free, auto, sessions, first>>
    /\ free_b' = IF config.ngl # 0 /\ config.gpu THEN free ELSE 0
    /\ IF free_b' = 0 \/ (config.ngl < 0 /\ L = 0) THEN Choose("model", ModelCtx)
       ELSE IF config.ngl >= 0
       THEN IF KvPerToken = 0 THEN Choose("model", ModelCtx)
            ELSE Choose("depth", ForGivenDepth(free_b'))
       ELSE IF LayersFitAt(ModelCtx, config.n_ubatch, free_b') >= L
       THEN Choose("all", ModelCtx)
       ELSE IF LayersFitAt(1, config.n_ubatch, free_b') < L
       THEN Choose("partial", Min({Max({config.n_ubatch, DefaultCtx}), ModelCtx}))
       ELSE /\ lo' = 1 /\ hi' = ModelCtx
            /\ stage' = "search"
            /\ UNCHANGED <<path, ctx>>

\* Mutant of Middle: rounded down, which never gets off lo = hi - 1.
MiddleDown == lo + (hi - lo) \div 2
Middle == lo + (hi - lo + 1) \div 2

\* Mutant of Below: the other half keeps the middle's neighbour too few.
BelowTooFar == Middle - 2
Below == Middle - 1

\* One round of the binary search.
Probe ==
    /\ stage = "search" /\ lo < hi
    /\ UNCHANGED <<config, free, free_b, stage, path, ctx, auto, sessions, first>>
    /\ IF FitsAll(Middle) THEN lo' = Middle /\ hi' = hi
                          ELSE lo' = lo /\ hi' = Below

EndSearch ==
    /\ stage = "search" /\ lo >= hi
    /\ UNCHANGED <<config, free, free_b, auto, sessions, first>>
    /\ Choose("search", Max({RoundDown(lo), 1}))

-----------------------------------------------------------------------------
(* session_create.                                                         *)

SessionUbatch == IF config.n_ubatch = 0 \/ config.n_ubatch > ctx THEN ctx ELSE config.n_ubatch

\* Mutant of AutoLayers: the engine does not remember the estimate.
AutoLayersAfresh == LayersFitAt(ctx, SessionUbatch, free)

\* session_auto_gpu_layers: the sessions of a process have the same context,
\* micro-batch and number of slots, so that the cached estimate answers all but
\* the first.
AutoLayers == IF auto >= 0 THEN auto ELSE LayersFitAt(ctx, SessionUbatch, free)

CreateSession ==
    /\ stage = "create" /\ Len(sessions) < config.n_parallel
    /\ UNCHANGED <<config, free, free_b, stage, lo, hi, path, ctx>>
    /\ IF ~config.gpu
       THEN /\ sessions' = Append(sessions, 0)
            /\ UNCHANGED <<auto, first>>
       ELSE /\ auto' = IF free = 0 /\ auto < 0 THEN auto ELSE AutoLayers
            /\ first' = IF first < 0 THEN free ELSE first
            /\ sessions' = Append(sessions, IF config.ngl < 0 THEN AutoLayers
                                            ELSE Min({config.ngl, L}))

\* Other processes, and graph_prepare of the sessions created so far.
MemoryChanges ==
    /\ stage \in {"auto", "search", "create"}
    /\ free' \in FreeMemory \ {free}
    /\ UNCHANGED <<config, free_b, stage, lo, hi, path, ctx, auto, sessions, first>>

AllCreated ==
    /\ stage = "create" /\ Len(sessions) = config.n_parallel
    /\ UNCHANGED <<config, free, free_b, lo, hi, path, ctx, auto, sessions, first>>
    /\ stage' = "done"

\* The main thread after engine_open and Begin.
Fit == AutoCtx \/ Probe \/ EndSearch \/ CreateSession \/ AllCreated

\* One process after the other, each with a model of any size; a step of Startup
\* is one of these or leaves all this alone.
FitNext == (ConfigOK(config') /\ Begin(config')) \/ Fit \/ MemoryChanges \/ FitGone
FitSpec == FitInit /\ [][FitNext]_fitVars

-----------------------------------------------------------------------------
\* The binary search is right: all layers fit at lo, and at no context above hi,
\* although the arena's share is rounded and the output tensor only counts when
\* every layer fits.
SearchSound ==
    stage = "search" =>
       /\ lo \in 1..hi
       /\ FitsAll(lo)
       /\ \A c \in (hi + 1)..ModelCtx : ~FitsAll(c)

\* "the resolved -ngl is always L/L": when the context was chosen so that every
\* layer fits, and the device has no less memory when the first session is
\* created, every session gets every layer, with the micro-batch that
\* session_create cuts to the context.
FullOffload ==
    path \in {"all", "search"} /\ first >= free_b =>
       \A s \in DOMAIN sessions : sessions[s] = L

\* "otherwise later slots would see a reduced free-memory figure and pick a
\* different depth": the sessions of a process agree, whatever happens to the
\* memory between them, provided that the first could read it.
SameDepth ==
    first # 0 => \A s, t \in DOMAIN sessions : sessions[s] = sessions[t]

\* The context chosen for a given -ngl leaves room for that many layers in the
\* estimate session_create compares it with: there is no warning that the depth
\* exceeds the budget, unless the context was raised to its least value, the
\* memory shrank, the whole of a model is asked for that has no output tensor of
\* its own (gpu_layers_fit_at counts its embedding twice, gpu_weight_bytes once), or
\* the model is DeepSeek's, whose cache gpu_layers_fit_at takes for an ordinary one.
GivenDepthFits ==
    /\ path = "depth" /\ ctx > Low /\ first >= free_b /\ sessions # <<>> /\ auto >= 0
    /\ ~(config.tied /\ config.ngl >= L) /\ config.latent = 0
    => Min({config.ngl, L}) <= auto

\* The estimates that engine_auto_ctx_size and session_create make at different
\* times, of different terms, never contradict each other.
DepthsAgree == FullOffload /\ SameDepth /\ GivenDepthFits
=============================================================================
