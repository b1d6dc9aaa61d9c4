------------------------------ MODULE Session ------------------------------
(***************************************************************************)
(* One inference session and its client: the token buffer, the attention   *)
(* caches and the recurrent states of the model, graph_execute() which     *)
(* appends a batch to them in micro-batches, and the two programs that     *)
(* drive it, the request worker of the server (handle_request) and the     *)
(* chat loop.                                                              *)
(*                                                                         *)
(* Numbers are abstracted to where they come from.  A row of activations   *)
(* is the sequence of the rows it was computed from: an embedded token t   *)
(* is <<t>>, and the output of a stateful operation for position p is the  *)
(* sequence of the inputs it has for the positions 1..p.  An attention     *)
(* operation finds these in a cache indexed by position, a recurrent one   *)
(* in a state that has consumed one input after the other.                 *)
(***************************************************************************)
EXTENDS Integers, Sequences, SequencesExt, FiniteSetsExt

CONSTANTS
    Ctx,            \* ctx_size, the positions of the token buffer and the caches
    UBatch,         \* n_ubatch, the rows of one forward pass
    MaxTokens,      \* tokens generated for one request or turn
    Tokens,         \* the vocabulary without the end-of-sequence token
    Eos,            \* v->eos_id
    Opening,        \* prompts that ops.chat_prompt builds, <<>> for no token
    Continuation,   \* prompts that ops.chat_continuation builds
    Ops,            \* number of stateful operations in the graph
    Recurrent,      \* those with a recurrent state; the others attend
    Clients         \* the programs to check, of "server" and "chat"

Vocab == Tokens \cup {Eos}

ASSUME SessionAssumption ==
    /\ Ctx \in Nat \ {0} /\ UBatch \in 1..Ctx /\ MaxTokens \in Nat /\ Ops \in Nat \ {0}
    /\ Eos \notin Tokens /\ Recurrent \subseteq 1..Ops
    /\ Opening \subseteq Seq(Vocab) /\ Continuation \subseteq Seq(Vocab)
    /\ Clients \subseteq {"server", "chat"}

VARIABLES
    client,     \* the program this session belongs to
    tokens,     \* s->tokens
    n_tokens,   \* s->n_tokens
    kv,         \* attention operation -> position -> cached row
    rec,        \* recurrent operation -> the inputs consumed since it was zeroed
    logits,     \* s->logits: the row the last completed pass published
    batch,      \* the argument of graph_execute
    done,       \* its rows already computed
    op,         \* the next stateful operation of the pass
    x,          \* the rows of the chunk that flow through the pass
    pc, next, n_gen,
    first_turn, \* chat: the next prompt opens a conversation
    result,     \* how the last request, turn or the chat itself ended
    script,     \* history: the clipped prompts and the tokens shown since the reset
    held,       \* history: the positions of script whose pass has not failed
    broken      \* history: a pass failed since the reset

cache == <<kv, rec>>
pass  == <<batch, done, op, x>>
seen  == <<script, held>>
vars  == <<client, tokens, n_tokens, cache, logits, pass, pc, next, n_gen, first_turn,
           result, seen, broken>>

AttentionOps == (1..Ops) \ Recurrent
Unset        == "unset"     \* what a buffer holds before it is first written

Init ==
    /\ client \in Clients
    /\ tokens = [p \in 1..Ctx |-> Unset]
    /\ n_tokens = 0
    /\ kv = [o \in AttentionOps |-> [p \in 1..Ctx |-> <<>>]]
    /\ rec = [o \in Recurrent |-> <<>>]
    /\ logits = <<>>
    /\ batch = <<>> /\ done = 0 /\ op = 1 /\ x = <<>>
    /\ pc = "idle" /\ next = Unset /\ n_gen = 0
    /\ first_turn = TRUE
    /\ result = "none"
    /\ script = <<>> /\ held = <<>> /\ broken = FALSE

-----------------------------------------------------------------------------
(* graph_execute.                                                          *)

\* The call: a batch that does not fit behind the first `at` positions is
\* refused before anything is written.
Execute(tokens_in, at) ==
    /\ batch' = tokens_in
    /\ done' = 0
    /\ op' = 1
    /\ x' = <<>>
    /\ pc' = IF at + Len(tokens_in) > Ctx THEN "refused" ELSE "chunk"

\* The end of the call, its local variables are gone.
Return == batch' = <<>> /\ done' = 0 /\ op' = 1 /\ x' = <<>>

\* The micro-batch: its rows and the position it is written behind.
ChunkRows == Min({Len(batch) - done, UBatch})

Pos == n_tokens + done

\* One turn of the chunk loop: copy the next micro-batch behind the session's
\* tokens and start a pass over it.
StartChunk ==
    /\ pc = "chunk"
    /\ LET row == SubSeq(batch, done + 1, done + ChunkRows)
       IN  /\ tokens' = [p \in 1..Ctx |-> IF p \in Pos + 1 .. Pos + Len(row)
                                          THEN row[p - Pos] ELSE tokens[p]]
           /\ x' = [r \in 1..Len(row) |-> <<row[r]>>]
    /\ op' = 1
    /\ pc' = "pass"
    /\ UNCHANGED <<n_tokens, cache, logits, batch, done, next, n_gen, first_turn,
                   result, seen, broken>>

\* op_attn: store the rows of the chunk at their positions, then let every row
\* read the cache up to its own position.
Attend(o) ==
    LET new == [p \in 1..Ctx |-> IF p \in Pos + 1 .. Pos + Len(x)
                                 THEN x[p - Pos] ELSE kv[o][p]]
    IN  /\ kv' = [kv EXCEPT ![o] = new]
        /\ x' = [r \in 1..Len(x) |-> SubSeq(new, 1, Pos + r)]
        /\ rec' = rec

\* op_ssm_conv, op_ssm_delta, op_mamba2_conv, op_mamba2_scan: the state consumes
\* the rows in order.
Recur(o) ==
    LET new == rec[o] \o x
    IN  /\ rec' = [rec EXCEPT ![o] = new]
        /\ x' = [r \in 1..Len(x) |-> SubSeq(new, 1, Len(rec[o]) + r)]
        /\ kv' = kv

ComputeOp ==
    /\ pc = "pass" /\ op <= Ops
    /\ IF op \in Recurrent THEN Recur(op) ELSE Attend(op)
    /\ op' = op + 1
    /\ UNCHANGED <<tokens, n_tokens, logits, batch, done, pc, next, n_gen, first_turn,
                   result, seen, broken>>

\* The tokens that the session owns once this chunk is done: none before the
\* last chunk.
LastChunk == done + Len(x) = Len(batch)
\* Mutant of Owned: only the last chunk is counted.
OwnedLastChunk == IF LastChunk THEN Len(x) ELSE 0
Owned == IF LastChunk THEN Len(batch) ELSE 0

\* The row of the chunk that the LM head turns into logits.
\* Mutant of Published: the first row.
PublishedFirst == x[1]
Published == x[Len(x)]

\* The pass is complete.
EndChunk ==
    /\ pc = "pass" /\ op = Ops + 1
    /\ logits' = Published
    /\ n_tokens' = n_tokens + Owned
    /\ IF LastChunk THEN pc' = "sample" /\ Return
       ELSE /\ done' = done + Len(x)
            /\ pc' = "chunk"
            /\ UNCHANGED <<batch, op, x>>
    /\ UNCHANGED <<tokens, cache, next, n_gen, first_turn, result, seen, broken>>

-----------------------------------------------------------------------------
(* The clients.                                                            *)

\* What the user sees goes on with s.
Show(s) ==
    /\ script' = script \o s
    /\ held' = held \o [i \in DOMAIN s |-> Len(script) + i]

\* Mutant of Reset: the recurrent states stay.
ResetPosition ==
    n_tokens' = 0 /\ broken' = FALSE /\ UNCHANGED cache

\* ops.reset: the positions of the attention caches are left as they are.
Reset ==
    /\ n_tokens' = 0
    /\ rec' = [o \in Recurrent |-> <<>>]
    /\ kv' = kv
    /\ broken' = FALSE

\* Mutant of Clip: the prompt may be longer than the room.
ClipNone(prompt, room) == prompt
Clip(prompt, room) == SubSeq(prompt, 1, Min({Len(prompt), room}))

\* handle_request answers 400 and leaves the session alone.
RefuseRequest ==
    /\ client = "server" /\ pc = "idle"
    /\ <<>> \in Opening
    /\ result' = "400"
    /\ UNCHANGED <<tokens, n_tokens, cache, logits, pass, pc, next, n_gen, first_turn,
                   seen, broken>>

\* handle_request: reset, clip to the context, prefill.
Request ==
    /\ client = "server" /\ pc = "idle"
    /\ \E prompt \in Opening \ {<<>>} :
          LET clipped == Clip(prompt, Ctx)
          IN  /\ script' = clipped /\ held' = [i \in DOMAIN clipped |-> i]
              /\ Execute(clipped, 0)
    /\ Reset
    /\ result' = "none"
    /\ UNCHANGED <<tokens, logits, next, n_gen, first_turn>>

Exit(why) ==
    /\ pc' = "exited"
    /\ result' = why
    /\ UNCHANGED <<tokens, n_tokens, cache, logits, pass, next, n_gen, seen, broken>>

\* A line of the chat that is not a command.  The prompt is appended to the
\* conversation; a prompt without tokens and a full context end the program.
Turn ==
    /\ client = "chat" /\ pc = "idle"
    /\ \E prompt \in IF first_turn THEN Opening ELSE Continuation :
          LET room == Ctx - n_tokens
              clipped == Clip(prompt, room)
          IN  IF prompt = <<>> THEN Exit("no tokens")
              ELSE IF room = 0 THEN Exit("context full")
              ELSE /\ Execute(clipped, n_tokens)
                   /\ Show(clipped)
                   /\ result' = "none"
                   /\ UNCHANGED <<tokens, n_tokens, cache, logits, next, n_gen, broken>>
    /\ first_turn' = FALSE

\* "/clear"
Clear ==
    /\ client = "chat" /\ pc = "idle"
    /\ Reset
    /\ script' = <<>> /\ held' = <<>>
    /\ first_turn' = TRUE
    /\ UNCHANGED <<tokens, logits, pass, pc, next, n_gen, result>>

\* "/quit", "/exit" and the end of the input.
Quit ==
    /\ client = "chat" /\ pc = "idle"
    /\ Exit("quit")
    /\ UNCHANGED first_turn

\* sample_token may return any token of the vocabulary.
Sample ==
    /\ pc = "sample"
    /\ next' \in Vocab
    /\ pc' = "generate"
    /\ UNCHANGED <<tokens, n_tokens, cache, logits, pass, n_gen, first_turn, result,
                   seen, broken>>

\* The end of a request or a turn: hit_eos decides what the response says.
Finish ==
    /\ pc' = "idle"
    /\ result' = IF next = Eos THEN "stop" ELSE "length"
    /\ next' = Unset
    /\ n_gen' = 0

\* The head of the generation loop leaves it.
EndGeneration ==
    /\ pc = "generate"
    /\ n_gen = MaxTokens \/ next = Eos
    /\ Finish
    /\ UNCHANGED <<tokens, n_tokens, cache, logits, pass, first_turn, seen, broken>>

\* The body of the loop: show the token, then leave when the context is full or
\* decode it.
Generate ==
    /\ pc = "generate"
    /\ n_gen < MaxTokens /\ next # Eos
    /\ Show(<<next>>)
    /\ IF n_tokens >= Ctx
       THEN Finish /\ UNCHANGED pass
       ELSE /\ n_gen' = n_gen + 1
            /\ Execute(<<next>>, n_tokens)
            /\ UNCHANGED <<next, result>>
    /\ UNCHANGED <<tokens, n_tokens, cache, logits, first_turn, broken>>

\* Mutant of PassFails: a failed pass is tried again.
PassRetried ==
    /\ pc = "pass"
    /\ done' = 0 /\ pc' = "chunk" /\ broken' = TRUE
    /\ UNCHANGED <<tokens, n_tokens, cache, logits, batch, op, x, next, n_gen,
                   first_turn, result, seen>>

\* graph_execute returns false: the batch was refused, the graph could not be
\* built (before the first chunk), or a pass failed after some of its operations.
\* A failed prefill is a 500 or the end of the chat, a failed decode ends the
\* generation.  Either way the session does not own the batch; a token decoded
\* in vain has been shown all the same.
PassFails ==
    /\ pc \in {"refused", "pass"} \/ (pc = "chunk" /\ done = 0)
    /\ IF n_gen > 0 THEN Finish
       ELSE /\ IF client = "server" THEN pc' = "idle" /\ result' = "500"
                                    ELSE pc' = "exited" /\ result' = "forward pass failed"
            /\ UNCHANGED <<next, n_gen>>
    /\ Return
    /\ held' = SubSeq(held, 1, Len(held) - Len(batch))
    /\ broken' = TRUE
    /\ UNCHANGED <<tokens, n_tokens, cache, logits, first_turn, script>>

Pass == StartChunk \/ ComputeOp \/ EndChunk
Loop == Sample \/ EndGeneration \/ Generate

\* What the program does without waiting for anything, all it does by itself,
\* and what its user makes it do.
Computing == (Pass \/ Sample) /\ UNCHANGED client
Running == (Pass \/ Loop \/ PassFails) /\ UNCHANGED client
Arrival == (RefuseRequest \/ Request \/ Turn \/ Clear \/ Quit) /\ UNCHANGED client

Next == Running \/ Arrival

\* One thread runs a request from its arrival to its end; when the next request
\* or line arrives is not up to the program.  Nor is the end of a write: the
\* tokens and the end of an answer go to a socket or a terminal whose reader may
\* stop reading, and no write has a timeout.  So only the computing is fair.
Spec == Init /\ [][Next]_vars /\ WF_vars(Computing)

-----------------------------------------------------------------------------
Batches == UNION {[1..n -> Vocab] : n \in 0..Ctx}

\* Every variable has its type; no position outside the context is in use.
TypeOK ==
    /\ tokens \in [1..Ctx -> Vocab \cup {Unset}]
    /\ n_tokens \in 0..Ctx
    /\ DOMAIN kv = AttentionOps /\ \A o \in AttentionOps : DOMAIN kv[o] = 1..Ctx
    /\ DOMAIN rec = Recurrent
    /\ batch \in Batches /\ done \in 0..Len(batch)
    /\ op \in 1 .. Ops + 1
    /\ Len(x) <= UBatch
    /\ pc \in {"idle", "chunk", "pass", "refused", "sample", "generate", "exited"}
    /\ next \in Vocab \cup {Unset}
    /\ n_gen \in 0..MaxTokens
    /\ client \in Clients /\ first_turn \in BOOLEAN /\ broken \in BOOLEAN

\* The clients clip prompts and stop generating in time: graph_execute never has
\* to refuse a batch because it does not fit the context.
NeverRefused == pc # "refused"

\* What stateful operation o gets as its input for position p, given the tokens
\* and what the operation before it holds.
Input(o, p) ==
    IF o = 1 THEN <<tokens[p]>>
    ELSE IF o - 1 \in Recurrent THEN SubSeq(rec[o - 1], 1, p)
    ELSE SubSeq(kv[o - 1], 1, p)

\* No recurrent state in front of operation o has consumed a row of a failed pass.
Sound(o) == ~broken \/ \A r \in Recurrent : r >= o

\* What every operation remembers of the session's positions is what a fresh
\* session fed with the same tokens would remember, and between passes a recurrent
\* state has consumed no input more: nothing of an earlier request, of a failed
\* pass or of another position is left where it can be read.  A recurrent state is
\* only trusted while no pass has failed since the reset.
MemoryIsHistory ==
    /\ \A p \in 1..n_tokens :
          /\ \A o \in AttentionOps : Sound(o) => kv[o][p] = Input(o, p)
          /\ \A o \in Recurrent : Sound(o + 1) => p <= Len(rec[o]) /\ rec[o][p] = Input(o, p)
    /\ pc \in {"idle", "sample", "generate"} /\ ~broken =>
          \A o \in Recurrent : Len(rec[o]) = n_tokens

\* A token is sampled from logits that were computed from the whole history, in
\* order, and from nothing else.
LogitsFresh ==
    pc = "sample" /\ Sound(Ops + 1) => logits = Input(Ops + 1, n_tokens)

\* The part of what the user saw that no pass has failed on.
Kept == [i \in DOMAIN held |-> script[held[i]]]

\* The session's tokens are the conversation as its user saw it: the prompts and
\* the tokens shown, in their order and none twice.  Two kinds are missing.  A
\* token shown when the context was full; and, once a pass has failed, the batches
\* that failed: a chat goes on after a token that it has printed and its model
\* never sees.  The history starts with an opening prompt, which carries the
\* system message: a cleared chat never goes on with a continuation prompt.
HistoryIsTranscript ==
    LET history == SubSeq(tokens, 1, n_tokens)
    IN  /\ \A i, j \in DOMAIN held : i < j => held[i] < held[j]
        /\ ~broken => Kept = script
        /\ pc = "sample" => history = Kept
        /\ pc = "idle" => \/ history = Kept
                          \/ n_tokens = Ctx /\ history = Front(Kept)
        /\ n_tokens > 0 => \E prompt \in Opening \ {<<>>} :
                              IsPrefix(Clip(prompt, n_tokens), tokens)

\* The reader of the answer always takes the next part of it.
WritesEnd == []<>(pc # "generate")

\* A request or a turn always comes to its end, unless the one it is for stops
\* reading.
RequestEnds ==
    WritesEnd => (pc \notin {"idle", "exited"} ~> pc \in {"idle", "exited"})
=============================================================================
