# TLA+ models of tinyllama.c

This directory holds a verification project for tinyllama.c, a C program that
loads GGUF language models and runs them behind an OpenAI-compatible HTTP server
(`src/server.c`), an interactive chat (`src/chat.c`) and a benchmark
(`src/bench.c`).  It consists of TLA+ modules translated from the source, TLC
configurations that model-check them on small instances, and proofs that TLAPS
checks for every value of the constants.  `PROJECT.json` ties every definition to
the lines it models, every property to a mutation of the code that breaks it, and
lists the hazards the properties are aimed at.

## 1. The system

A process opens one *engine* (model, vocabulary, weights) and one *session* per
request worker (the chat and the benchmark have one session).  A session owns a
compute thread pool, a token buffer, the model's state, and a compute graph with
its plan.

| part | state | operations | shared with |
|---|---|---|---|
| compute thread pool (`pthreads.c`) | dispatch descriptor (`end`, `current`, `work`, `work_arg`), `done_count`, `done_work`, one mutex, one condition variable | `pthreads_create`, `pthreads_parallel_for`, `pthreads_destroy`, `worker_loop` | the session's thread dispatches, the workers claim indices without the mutex |
| request worker pool (`server.c` 375-455) | ring buffer of jobs, `stop`, mutex, condition variable | `worker_pool_submit`, `worker_main`, `worker_pool_destroy` | the event loop submits, workers take |
| HTTP server (`server.c`, `el.c`, `http.c`, `anet.c`) | file events, descriptors, `el->stop`, eventfd, signal count | `accept_proc`, `client_read_proc`, `signal_callback`, `signal_handler`, `server_resource_close` | clients, kernel, workers |
| allocator (`asctx.c`, `mm.c`) | blocks, free lists per size class | `smalloc`, `srealloc`, `sfree`, reset | every thread, under `mm_lock` |
| graph builder (`model/*.c`, `graph.c` 80-400) | the nodes of a graph, their layers and sources | the `graph_*` constructors, `assign_backends` | planner |
| planner and executor (`graph.c` 490-1250) | slot offsets, free chunks of the sweep, arenas, KV caches, plan state | `graph_plan`, `arena_plan`, `graph_compute`, `graph_free` | session, backends |
| session (`graph.c` 1270-1351, `core.c` 1950-2020) | `tokens`, `n_tokens`, `logits`, attention caches, recurrent states | `graph_execute`, `ops.reset` | its client only |
| clients: `handle_request`, chat loop | the request or the conversation | prefill, generation loop, `/clear` | session |
| instance lock (`core.c` 370-425) | a lock file, its owner and the process id in it | `acquire_instance_lock`, `release_instance_lock` | every process of the machine |
| model loader (`core.c`) | cursor in the mapping, metadata and tensor tables, vocabulary, weight tables | `engine_open` with `model_load`, `vocab_load`, `weights_load` | sessions (read only) |
| auto-fit (`core.c` 1700-1950) | resolved context size and GPU layers, the engine's cached estimate | `engine_auto_ctx_size`, `session_resolve_gpu_layers` | device memory, that others change too |
| tokenizers, templates, sampler | none (pure, but for the random state) | `tokenize_*`, `*_chat_prompt`, `sample_token` | clients |
| line editor (`linenoise.c`) | the line, cursor, folds of pasted text, history | one per key, `linenoiseHistoryAdd` | chat loop |
| radix tree (`rax.c`) | nodes, counts, an iterator | `raxInsert`, `raxFind`, `raxRemove`, `raxSeek`, `raxNext`, `raxPrev` | kept for a prefix cache that is still empty |
| kernels (`backend/*`, `quants.c`) | device scratch and weight caches | one function per graph operation | executor |

How they interact.  The event loop reads requests and hands a descriptor and a body
to the request pool; a worker runs `handle_request` on its own session, which calls
`graph_execute`; that walks the planned graph, and the CPU kernels split each matrix
product over the session's thread pool.  CUDA and Metal plans are serialised by
`gpu_compute_lock`.

What is hard here, and the properties that say it is right:

* *Two lock-free counters and a reused descriptor* in the thread pool: a worker may
  be late by a whole dispatch.  Every call must run exactly its range, once, and
  return only then.
* *Descriptors change owner* between the event loop, the queue and the workers, and
  the kernel reuses them: one owner each, no mix-up of clients, one answer, and a
  shutdown that drains first.
* *One condition variable* for several kinds of sleepers, twice: no lost wakeup.
* *Memory reuse by lifetime*: the planner gives a node the slot of an output it
  believes dead.  A wrong lifetime is silent corruption.
* *State that outlives a request*: `reset` leaves the attention caches as they are,
  and failed passes leave rows behind.  No token may be sampled from them.
* *Partial failure*: a plan that fails half way, a pass that fails between layers.
* *Intrusive bookkeeping*: the allocator's block and free lists, the radix tree's
  splits and recompressions, the editor's folds, all shifted by every operation.
* *Text cut at every border*: fixed buffers, characters split over tokens, two byte
  alphabets, merges whose order matters, escapes.
* *Files that end anywhere, processes that die anywhere*: a truncated model must be
  refused and a lock must not outlive its owner.

The list, with lines, is `hazards` in `PROJECT.json`.  Smaller ones that no property
covers: `current` of the thread pool wraps after 2^31 idle rounds (`pthreads.c` 47);
`FD_SET` beyond `FD_SETSIZE` (`el.c` 58); unlocked statistics counters (`graph.c` 1217); a
refused process may read the lock file before the winner writes it (`core.c` 398); a
`<think>` echoed although the template has none (`server.c` 266); a radix tree whose shape
depends on its history (`rax.c` 1087); uninitialised bytes inserted after a short read
(`linenoise.c` 2058).

## 2. Modules

| module | models | checked properties |
|---|---|---|
| `ThreadPool`, `MCThreadPool`, `ThreadPoolProofs` | `pthreads.c`, one step per access outside the mutex | `NoRepeatedIteration`, `CompleteOnReturn`, `PoolFreed` |
| `JobService` | what the request pool promises: a bounded FIFO that drains before it closes | (abstract specification) |
| `WorkerPool`, `WorkerPoolProofs` | the ring buffer, mutex and condition variable that implement it | `ImplementsJobService` (refinement), `EveryJobHandled`, `DestroyEnds` |
| `Server`, `MCServer`, `ServerProofs` | the event loop with its callbacks, workers, descriptors, signals, shutdown; its queue is `JobService`'s | `Handover`, `DrainedBeforeFree`, `AnsweredOnce`, `ClientServed`, `ShutdownEnds` |
| `AllocSet`, `MCAllocSet`, `AllocSetProofs` | `asctx.c` behind `mm.c` | `HeapSound` |
| `Graph` | the graph builders of five architectures as straight-line programs; `assign_backends` | (used by `ArenaPlan`) |
| `ArenaPlan`, `MCArenaPlan`, `ArenaPlanProofs` | `graph_plan`, the best-fit sweep, arenas and caches, and runs with the contents of every slot | `SlotsDisjoint`, `SourcesIntact`, `ReadsLocal`, `NoArenaLeak`, `CapacityEnough` |
| `Session`, `MCSession`, `SessionProofs` | `graph_execute`, the model state, `reset`, `handle_request`'s generation and the chat loop | `MemoryIsHistory`, `LogitsFresh`, `HistoryIsTranscript`, `NeverRefused`, `RequestEnds` |
| `InstanceLock`, `StartupProofs` | the lock file, one step per system call, kills between them | `OneInstance` |
| `Loader` | the GGUF loader: cursor, metadata, tensor table, completeness check, vocabulary with its hash table, special tokens, weight tables | `LoadedAsWritten`, `GoodFilesLoad`, `VocabSound`, `AlignmentRecorded` |
| `AutoFit`, `StartupProofs` | the choice of context size and GPU layers (CUDA build), for any model sizes and options, with memory that changes between the reads | `SearchSound`, `DepthsAgree` |
| `ModelConfig` | the sizes that the estimates take from a loaded model | (joins `Loader` and `AutoFit`) |
| `Startup`, `MCStartup` | composes the last four into the start of a process | `StartupEnds`, `StartImplementsFit` (refinement) |
| `Bytes`, `Tokenizer`, `Sampler` | byte alphabets, UTF-8, JSON escapes; both encoders, special tokens, templates; penalties, heap, filters and draw, as operators | (used by `Completion`) |
| `Completion`, `MCCompletion`, `CompletionProofs` | a request or a chat turn from text to tokens and from tokens to events or a body | `PromptFaithful`, `MergesByRank`, `OnlyValidLines`, `StreamExact`, `SampledAllowed` |
| `OrderedMap` | what a radix tree promises: a map with ordered iteration | (abstract specification) |
| `Rax`, `MCRax` | `rax.c`: insertion with splits, removal with recompression, iterators | `TreeSound`, `ImplementsOrderedMap` (refinement) |
| `Editor`, `MCEditor` | `linenoise.c` as the chat uses it, one action per key | `FoldsSound`, `CursorShown`, `HistoryFaithful` |

Correspondence, where it is not one action per function:

* **ThreadPool.**  `pthreads_parallel_for` holds the mutex over its stores, but the
  workers read `end`, `work` and `work_arg` and bump `current` and `done_work`
  without it.  So each store is an action (`StoreEnd` .. `StoreArg`), and a worker's
  round is `Enter`, `Claim`, `Test`, `BeginWork`, `EndWork`, `Report`.  Values of
  `work` and `work_arg` are the number of the call they belong to, which makes a
  stale argument visible.  Stores become visible in program order (the build's
  x86-64); a weaker machine has more behaviours than the model.  Counters are cut
  off at `MaxIndex` where no comparison can tell values apart any more.
* **Server.**  Bytes are abstracted to units of header and body; a read returns what
  has arrived.  `client_read_proc` is two actions because its second `read` blocks
  the loop, and so does a worker's answer (`Run` decides it, `Finish` ends its last
  write), because a write waits for the client.  The kernel gives the lowest free
  descriptor.  `slog_errno` ends the
  process, as it does in the code.
* **AllocSet.**  Every call is one step, since `mm.c` makes it under `mm_lock`.
  Sizes are in units of 8 bytes with the real header sizes.
* **Graph / ArenaPlan.**  A graph is the sequence of its nodes with operation, layer,
  output width and sources; a node's memory is modelled by which node wrote each
  unit of each arena last.  Arenas are allocated one backend at a time, so that a
  plan can fail between two of them.
* **Loader.**  A file is the sequence of its entries and tensors; only the number of
  bytes of each part is kept, so that the cursor, the padding before the data and the
  tensors' offsets are computed as in the code, and a file can end in the middle of
  any of them.  One entry, one tensor or one probe of a piece in its table is a step, so
  that a probe that never ends would be seen.  A piece is the first `len` bytes of the
  text that its name stands for, and the key that the tables have of it is what is left
  of its length in one byte.  `slog(ERROR)` ends the process (`phase = "fatal"`).
* **AutoFit.**  Byte counts are small numbers in the code's formulas, rounding
  included.  `gpu_layers_fit_at`'s loop is the longest prefix of layers that fits.
  `MemoryChanges` is other processes and the sessions' own allocations; that a read
  fails is a reading of 0.  The sessions of one process agree only if the first could
  read the memory, since a failed reading is not cached.  DeepSeek's cache per token has
  its own formula in one of the two estimates only, so `GivenDepthFits` leaves that
  architecture out.
* **Startup.**  The process `Me` takes the lock, loads and resolves its options; the
  other one contends for the lock only.  A kill releases the kernel's lock and leaves
  the file.  `AutoFit` by itself (`FitSpec`) starts from any sizes that `ConfigOK`
  admits; that the sizes counted from a file are such, and that a start takes no other
  steps, is the refinement `StartImplementsFit`.
* **Completion.**  Text is real bytes, since what can go wrong is how they are
  classified, mapped and cut.  A token is its piece.  What the network computes is any
  logits of a small set; exponentials are integer weights and the draw may return every
  survivor.  What a message says is read off the body a second time in the properties, by
  a reader of JSON strings that is not the server's (`JsonText`).  `PromptFaithful` speaks
  of requests whose system message is in front, whose user message is last and whose
  other contents do not look like a role (`WellOrdered`), and leaves out the escapes that
  the server does not read (`Undecoded`); where a message, a fragment or the prompt is
  cut it says which part is left.  A `--system` text is taken as it is.
* **Rax.**  A node is named by the path to it, so pointers need no model; layout and
  reallocation of a node are left out.  The last call, with its operation and arguments,
  is part of the state of `Rax` and of `OrderedMap`: a call can be matched by no other.  The map is not changed while an iterator is in
  use, which is how the library says it must be used.
* **Editor.**  A line is a sequence of kinds of code points (plain, blank, wide, mark,
  joiner, flag, newline, return, null, and the parts of a pasted escape sequence); positions count code points, capacities bytes.
  `Screen` is the outcome of `refreshSingleLine`, `Hung` if its loops do not end.  A
  fold carries, as history, the text it was made for.
* **Session.**  Numbers are abstracted to where they come from: an embedded token t
  is `<<t>>`, and the output of a stateful operation for position p is the sequence
  of the inputs it holds for positions 1..p.  An attention operation finds these in
  a cache indexed by position, which is overwritten; a recurrent one in a state that
  only consumes.  Every operation without state is the identity on origins.  A pass
  may fail before any operation.  `script`, `held` and `broken` are history variables:
  `script` is what the user has seen, a token printed in front of a decode that failed
  included, `held` which of it no pass has failed on.  A prompt is any sequence of
  tokens; the templates put the end token into it.  Clients differ in a variable that
  never changes.

## 3. Runs

Every passing run ends with the full state space explored.

| run | instance | result |
|---|---|---|
| `pool_redispatch` | 3 workers; loops 0..3, an empty one, 0..2 (ends do not grow) | passes |
| `pool_growing` | 2 workers, 0..1 and then 0..3 | `CompleteOnReturn` violated: finding |
| `job_queue` | 2 workers, 4 jobs, 2 slots: the ring wraps and fills | passes |
| `server` | 2 connections (a header in two parts, one too large for the buffer), 2 descriptors, 1 queue slot, 2 workers, leaving and resetting clients, signals | passes |
| `allocator` | 2 size classes, a keeper and 3 more blocks, requests of 1, 2 and 3 units | passes |
| `arena` | 5 architectures with 2 layers, 0 to 2 on the device, optional tensors absent or present; all graphs of 5 nodes with at most 2 sources and 3 widths | passes |
| `session` | server and chat; context 3, micro-batches of 2, attention-recurrent-attention, prompts of 0, 1, 3 and 5 tokens, with and without the end token | passes |
| `startup` | 2 processes; 22 files (complete, damaged, unusual), each cut at 4 places; command lines with 5 amounts of free memory that change at any time | passes |
| `gguf_alignment` | files that state an alignment | `AlignmentRecorded` violated: finding |
| `completion` | all bytes, all pairs of 12 atoms, all texts of 3 or 4 of 4 atoms; lines at the borders of UTF-8; 5 tokens that split characters; a body of 21 bytes of which the wrapper takes 8; with and without scores | passes |
| `rax` | 6 keys that are prefixes of one another or branch inside of edges, 12 probes, 2 values | passes |
| `editor` | 5 keys; lines of 8 bytes, 2 folds, a history of 2, 4 columns; pastes with every kind of line end, with flags and with escape sequences | passes |

Why these bounds.  *Pool*: a claim can be stale by one dispatch, which takes two
calls; the third and the empty call let a worker skip one.  Three workers let two
be late while one works; with growing loops two workers are enough.  *Queue*: four jobs in two slots wrap `head` and `tail`
with both workers busy.  *Server*: one queue slot forces the 503 path, and a
descriptor closed by a worker is the next one the kernel gives.  *Allocator*: a block
holds one or two chunks, so that carving, a new head, reuse and dedicated blocks all
occur with three live chunks.  *Arena*: two layers are the least with a split and with
a slot that is reused across layers; five nodes make the sweep merge lifetimes, reuse
and swap-remove.  *Session*: prompts that take one pass, several passes, fill the
context and are clipped; three operations, so that a recurrent one has attention in
front of and behind it.  *Startup*: the files reach every refusal of the loader, the
hash table collides and wraps, and the memory sizes make every branch of the search
happen.  *Completion*: the limits are small enough that texts of four atoms reach each
of them.  *Rax*: the keys make every split and recompression happen; probes lie
between, before and behind them.  *Editor*: the screen is narrower than the line, two
pastes use up the folds, and five keys are enough to enter two lines and browse.

Fairness.  `ThreadPool`, `WorkerPool`, `Server`: every thread keeps running (weak
fairness of each thread's steps) and a mutex starves nobody.  Condition variables
may wake spuriously, never fairly.  Nothing is assumed of clients.  A blocking call that
waits for one has no fairness: neither the loop's second read nor a worker's writes,
which have no timeout (`write_all` in `http.c`).  So the liveness properties of the
server say what they rest on: `ClientServed`, that the loop is not held in a second read
for ever (`NotStuck`), that the client reads its answer and that one worker gets on;
`ShutdownEnds`, that every worker's write ends at some time.  A client that stops reading
costs the server one worker, and a shutdown, which has no deadline, its end.  The loop's
own refusals (400 and 503) are the first bytes written to their connection and fit its
buffer, so they do not wait.  `Session`: weak fairness of the computation only; arrivals
are not fair, and neither is the step that shows a token, which is a write to a socket or
a terminal (`RequestEnds` is about readers that keep reading).  `Startup`: the process that was started goes on; the other one, kills
and changes of memory may or may not happen.

## 4. What the checks found

* **Late pool workers** (`pool_growing`).  A worker that claims an index past the end
  of one dispatch can find it below the end of the next, longer one and run it twice, so
  that the caller returns before its range is done.  Nothing else can break the pool, as
  the proofs establish for any dispatches.
* **The alignment of a GGUF file** is read from the position of the first metadata
  entry instead of its own (`gguf_alignment`).

Nine more definitions state what comments and tests say and do not hold.  They belong to
no run; adding one to the `INVARIANTS` of the configuration named, with the constants
given, makes TLC show a counterexample.

* `NoFault` (`pool_redispatch.cfg`): a worker that saw `work` set in one dispatch and
  claims its index in the next can call through a null `work` or with the previous argument.
* `CompleteRequests` (`server.cfg`): bodies that come in more than two pieces are handed
  over cut short.
* `RunsUntilShutdown` (`server.cfg`): a client that resets its connection ends the server.
* `PiecesFound` (`startup.cfg`, `Files <- LongFiles`, `Options <- AlignedOptions`): the length of a
  piece is kept in one byte (`core.c` 224, `def.h` 109); a piece of 257 bytes is entered
  as, and instead of, the piece of its first byte.
* `SystemFromItsRole` (`completion.cfg`): the search for a role goes on to the end of the
  body (`server.c` 186): a later system message, or a content that is the word `system`,
  makes the first content the system's message ("Check if this content belongs to a
  system-role message", `server.c` 183).
* `EscapesDecoded` (`completion.cfg`): the reader of JSON strings turns `\b` and `\f`, which
  the writer in the same file produces (`http.c` 114, 137), into the letters b and f.
* `ReserveEnough` (`completion.cfg`): 256 bytes are kept for a wrapper that has 255 to 275,
  with the terminating zero on top ("so the final snprintf can't overflow json_buf",
  `server.c` 337): a response that fills the buffer is cut at its end and is not JSON.  The
  run's wrapper has 8 bytes and 7 are reserved.
* `RefreshEnds` (`editor.cfg`, `Typed = {"char"}`, `Pastes <- FlagPastes`, `MaxLine = 16`,
  `FoldThreshold = 9`): the loop that scrolls (`linenoise.c` 1257) subtracts other widths
  than were added, for flags and for pasted escape sequences, and may never end.
* `NewlinesHidden` (`editor.cfg`): after a combining mark was typed behind a fold, the
  newlines inside of it are printed ("so raw pasted newlines are never printed directly",
  `linenoise.c` 1498).

Observed while modelling, without a run: a first signal that arrives while the model
is loading, before the eventfd exists, is counted and never reaches the event loop
(`server.c` 89, 787; the model has this behaviour, and `ShutdownEnds` therefore
starts from the written eventfd); the comment in `asctx.c` (77-78) about
where the keeper block's free space begins does not match the code; `done_count`
counts reports, not threads, so a worker that reports twice stands for another one
(harmless because of `done_work`); a chat line typed at a full context ends the
program, although both messages about it offer `/clear` (`chat.c` 293, 333); after a
failed decode the chat goes on: the token was printed and the model never sees it
(`HistoryIsTranscript` says so), and recurrent states have consumed a token the session
does not have (`Session` states its properties for the parts that this cannot touch, see
`Sound`).

## 5. Proofs

Eight modules hold theorems, each checked by TLAPS to the last leaf.  A theorem holds for
every value of the constants that satisfies the module's named `ASSUME`, which TLC
evaluates in every run.  Of those the proofs need: there is at least one request worker
(`ServerAssumption`; `server.c` 627 makes it so), the addresses of a machine are finite
(`AllocAssumption`; the walk along the block list is bounded by their number), headers,
sizes and capacities are natural numbers, the size classes grow, and text, logits and
the sampler's options are of the kinds and in the ranges that the programs insist on
(`LinesAssumption`, `PieceAssumption`, `LimitsAssumption`, `DrawsAssumption`).

**Thread pool.**  All three theorems hold for any finite set of workers and any sequence
of calls, loops that grow included, as matrix products dispatch them.  `TypeCorrect` holds
whatever happens.  A *late claim* (`LateClaim`) is a claim of an earlier dispatch that is
below the `end` of the next one when that is about to start counting.
`OnlyLateClaimsBreak`: as long as there is none, every iteration runs once, the caller
returns when its range is done and no callback outlives its dispatch.  So the property
says exactly where the pool is wrong, and `pool_growing` shows that the code gets there.
The properties are not inductive: that the caller returns only when its range is done
rests on what late workers may hold.  `PoolInv` (`PoolInvariant`) adds

* `WorkInv`, where `work` stands at each of the caller's control points,
* `ClaimInv`, once `current` has been stored, a claim below `end` is a claim on an
  iteration of this call that nobody else holds and nobody has run,
* `CountInv`, `done_work` is the number of finished iterations,
* `RestInv`, between calls nothing below `end` is left to claim.

Between `StoreEnd` and `StoreCurrent` old claims meet the new `end`; the step that stores
`current` is where `~LateClaim` is used.

**Planner.**  For every graph with backward edges and one sink, every assignment of
backends and every micro-batch size: `TypeCorrect`, `SlotsNeverOverlap`,
`OutputsSurvive`, `SlotsBigEnough`.  The inductive invariant is
`TypeOK /\ SweepSound /\ SlotsDisjoint /\ SourcesIntact`: `SweepSound` says that
during the sweep the free chunks and the slots not yet reclaimed are pairwise
disjoint (`AvailSound` and `PlaceSound` carry it over the reclaiming and the choice
of a chunk), `SlotsDisjoint` is what remains of it when the sweep is over, and it
makes `SourcesIntact` inductive: a node writes only into its own slot
(`WriteSpares`).

`NothingLeaks` needs one more part, `LeakInv`, that counts the blocks held against the
arenas and caches built so far at every point where an allocation can fail.

**Instance lock.**  `SingleInstance`: `OneInstance` for any set of processes, started any
number of times and killed between any two system calls (`LockSpec`, of which every step
of `Startup` is a step or leaves the lock alone).  It is inductive together with
`EmptyWhenTruncated`: between `ftruncate` and `dprintf` the file is still empty, since
everybody else who could write is behind the lock.

**Context and depth.**  `SearchIsSound` and `EstimatesAgree`: `SearchSound` and
`DepthsAgree`, for models with any layers, any command line and memory that changes
before every read.  `FitInv` records, from `main` to the last session, which branch chose
the context and what was known when it did.  Two facts about the estimates carry it:
the number of layers that fit does not grow with the context or with less memory
(`FitMono`), which makes the bounds of the binary search an invariant (all layers fit at
`lo`, not above `hi`); and the totals that two loops add up in different orders bound one
another (`RunningBound`), which makes a context chosen for a given `-ngl` one that the
layers' own estimate admits (but for DeepSeek, see `GivenDepthFits`).

**Text of a completion.**  `LinesChecked`: the chat goes on with a line exactly when it is
well-formed UTF-8.  The code decodes a code point and tests its range, the reference is
the standard's table of byte ranges; `CharsAgree` shows that they agree on a character,
`Utf8Agree` on a text.  `StreamFaithful`: what a client receives, unescaped, is exactly
the text of the tokens, for every vocabulary, however pieces split characters, and a
stored response is JSON as long as the wrapper fits behind it.
`StreamInv` adds that what has been sent ends with a whole character as long as tokens
come (`Whole`) and that what is held back completes it; it rests on `PrefixIs` (what
`utf8_complete_prefix` cuts off), `WholeConcat`, `ValidParts` (a valid text cut between
characters has valid parts) and `JsonBack` (reading undoes `json_escape_str`).  It also
needs that what `sample_token` returns is a token (`SampleType`), whatever the heap, the
sort and the filters do to the candidates.

**Sampler.**  `DrawsAllowed`: for every vocabulary, weights and options, what can be drawn
are exactly the best tokens that top-k, min-p and top-p leave of the sorted vocabulary, as
many as the reference `RefCutoff` counts.  The argument follows the code.  `SiftUpIs` and
`SiftDownIs`: while a token moves through the heap, the order holds everywhere but around
it (`OrderBelow`, `OrderAbove`), so the heap is one again when it stops, of the same
tokens.  `SelectIs`: the heap holds the best of the tokens seen (`Held`), because its root
is the least of them.  `SortIs`: the insertion sort keeps the tokens and orders them.
`ShareIs`: the running sum over the candidates is the weight of any set of the largest
tokens, although ties leave a choice of such sets (`LargestSame`), so the loop of top-p
stops where the reference does; `MinPIs` says so of min-p.  `CutoffExact` and `RoundIs`:
a cutoff inside the candidates is the one of the whole vocabulary, which is why the loop
may stop there instead of raising the cap (`SurvivorsIs`).  `DrawsAssumption` says what
this needs of the exponential: it is positive and does not decrease.

These are inductions over texts.  The library's induction rules take a predicate, which
the provers cannot instantiate, so the proofs use sets in the place of predicates: a
non-empty set of numbers has a least element (`LeastNat`), hence what holds of 0 and is
passed on holds up to n (`UpTo`).  That the functions defined by recursion exist is proved
in the same way, once for scans of a text (`ScanExists`), once for loops that change a
state until they stop (`LoopExists`, `LoopStops`) and once for loops over 1..n
(`IterateExists`).

**Request pool.**  `PoolImplementsService`: the ring buffer implements `JobService`, for
every capacity.  The refinement mapping reads the queue off the ring from `head` on.
`PoolInvariant` is what makes every step map to a step or to none: `tail` is `count`
slots after `head` modulo the capacity, the slots between hold the jobs, and a worker
leaves only when it has seen `stop` with an empty queue.

**Server.**  `DescriptorHandover`, `FreedWhenDrained` and `OneAnswer`, for any clients,
descriptors, queue size and number of workers.  `Handover` is not inductive by itself:
that a worker's descriptor still belongs to the client it read from rests on nobody else
closing it, which rests on the loop having removed its file event first.  `ServerInv`
says, for every descriptor, which of the loop, the queue and the workers holds it, and
for the shutdown, what has ended at each of its stages.  `OneAnswer` is an action
property that follows from it: whoever writes to a client is its only owner.

**Allocator.**  `HeapAlwaysSound`: all of `HeapSound`.  `AllocInv` replaces what is
stated by walking or summing with facts that one call changes at a few points:

* `Layout`, chunks in use or on a free list cover the carved part of every block without
  overlap and without gap (`LayoutAdd`: a chunk carved at the free pointer keeps it so;
  `LayoutDrop`: a block that one chunk fills may go),
* `Linked`, there is an order of the blocks that `next` and `pres` follow both ways, from
  which `WalkReaches` derives that walking from the head meets every block and ends
  (`LinkNew`, `LinkSecond`, `LinkReplace`, `LinkDrop`: one per way the list changes),
* `SoundLists`, `SizedSound`, a free list holds unused chunks of its class, each once, and
  a chunk in use is as large as asked,
* `ExternalSound`, an external chunk fills its block, which is neither the head nor the
  keeper.  Without it unlinking such a block could free what `Reset` keeps.

**Session.**  `BatchesFit`, `TranscriptKept`, `MemoryKeptTrue` and `LogitsAreFresh`, for
every context size, micro-batch size, sequence of attention and recurrent operations,
and prompts.  Three invariants build on one another.  `ControlInv` ties the pass in
flight to the token buffer: what is done and what is left of a batch fits.
`TranscriptInv` follows the history variables through prompts that are clipped, passes
that fail and conversations that go on: what the session holds is what its user saw, in
order, but for the batches of failed passes and a token shown at a full context.  `MemoryInv` says, for each operation and
position, what it holds while a micro-batch is half way through the operations: behind
the operation that runs, the new positions are there already, before it only the old
ones are.  A row left by a failed pass or by an earlier client lies at a position that is
written before it is read, which is why `reset` may leave the attention caches alone.

Only model-checked:

* all liveness properties (`PoolFreed`, `EveryJobHandled`, `DestroyEnds`, `ClientServed`,
  `ShutdownEnds`, `RequestEnds`, `StartupEnds`): TLAPS does not reason about fairness
  here;
* `ReadsLocal`, which is about the graphs that the builders of `Graph` make, not about
  any graph: the runs enumerate them;
* `StartImplementsFit`, and the properties of `Loader` and `Editor`, which are defined
  with recursive operators, where the prover has no arithmetic;
* `TreeSound` and `ImplementsOrderedMap`, which need an induction over the paths of a
  tree, and `PromptFaithful` and `MergesByRank`, which relate what a loop computes to all
  the ways to merge a text.

## 6. Not modelled

* Kernels and quantisation, on all backends: floating point, SIMD and device code,
  where nothing is left to enumerate once the numbers are abstracted.
* The CUDA and Metal caches of weights and scratch buffers behind `gpu_compute_lock`.
* `kvcache.c` (empty), the architectures without a graph, the benchmark, logging,
  option parsing and formatting.
* Of `linenoise.c`: the terminal's attributes and size, and the modes the chat does not
  switch on (several rows, completion, hints, masks, the history file).
* Of `rax.c`: the layout of nodes, random walks and the debugging functions.
* Of the planner: the MLA cache, which no architecture with a graph uses.
* Editor: input that is not whole UTF-8 characters.  `CursorShown` leaves out lines with
  regional indicators, joiners and escape sequences, for which the scrolling loop may not
  end (`RefreshEnds`), lines whose folds a joining code point has met (`NewlinesHidden`),
  and terminals narrower than the prompt.
* The order of a prompt's messages other than system first and user last, and text that
  is not UTF-8 under the SentencePiece encoder.

## 7. Plan

1. Proofs: parts of `Rax` that need no induction over the tree (the counts, that an
   iterator stays on its key); the loader's skipping of values as a loop, so that
   `StartImplementsFit` comes into reach.
2. `Backend`: the weight caches, scratch buffers and command-buffer batching behind
   `gpu_compute_lock`; where a layer's recurrent state lives (`graph_layer_backend`)
   against where its operations run (`assign_backends`).
