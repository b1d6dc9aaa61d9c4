----------------------------- MODULE ModelConfig -----------------------------
(***************************************************************************)
(* The sizes of a loaded model that the choice of a context and of an      *)
(* offload depth goes by (arch_config_init, model_context_length and the   *)
(* sums over tensors in src/src/core.c).                                   *)
(***************************************************************************)
EXTENDS Loader

CONSTANTS
    Options,      \* for each of the Files the command lines that name it: -c (0:
                  \* automatic), -ub, -ngl, -np, and whether there is a device
    FloatBytes,   \* sizeof(float)
    ArenaFloats   \* floats of arena per row and element of the embedding

ASSUME ModelConfigAssumption ==
    /\ DOMAIN Options = DOMAIN Files
    /\ \A n \in DOMAIN Files :
         Options[n] \subseteq [ctx_size : Nat, n_ubatch : Nat, ngl : Int,
                              n_parallel : Nat \ {0}, gpu : BOOLEAN]
    /\ {FloatBytes, ArenaFloats} \subseteq Nat \ {0}

OrElse(v, w) == IF v # 0 THEN v ELSE w

\* TRY_I32: the architecture's metadata under the first prefix that has any, or 0.
TryI32(name) ==
    FoldLeft(LAMBDA v, p : OrElse(v, Max({0} \cup GetI32(<<p, name>>))), 0, KeyPrefixes)

\* arch_config_init: the embedding's size is the dimension of the token embedding
\* that is not the vocabulary's.
NEmbd ==
    LET dim == tensor[weights.top["token_embd"]].dim
        n == IF Len(dim) >= 2 /\ dim[1] = Len(Token) THEN dim[2] ELSE dim[1]
    IN  OrElse(n, Len(Token))
NHead == TryI32("attention.head_count")
NKvHead == OrElse(TryI32("attention.head_count_kv"), NHead)
HeadDim ==
    OrElse(OrElse(TryI32("attention.head_dim"), TryI32("attention.key_length")),
           IF NHead > 0 THEN NEmbd \div NHead ELSE 0)
KvHeadDim == OrElse(TryI32("attention.key_length"), HeadDim)
Latent ==
    IF arch # "DEEPSEEK" THEN 0
    ELSE (HeadDim + 4 * OrElse(TryI32("attention.kv_lora_rank"), 1) + 2) * FloatBytes

\* model_context_length.
ContextLength ==
    FoldLeft(LAMBDA v, p : OrElse(v, Max({0} \cup GetInt(<<p, "context_length">>))), 0,
             Append(KeyPrefixes, "general"))

Sum(S, f(_)) == MapThenSumSet(f, S)

\* layer_weight_bytes: a tensor that has two roles counts once.
LayerBytes(lw) ==
    Sum({lw[r] : r \in DOMAIN lw} \ {0}, LAMBDA i : tensor[i].bytes)
Has(lw, role) == role \in DOMAIN lw /\ lw[role] # 0

\* The terms of the estimates: for every layer its weights, whether it has attn_k,
\* and whether it has a cache (layer_has_kv_cache), then token embedding, output
\* and all tensors, the cache of a layer per token, DeepSeek's, the arena per row, and
\* the advertised context.
ConfigOf(o) ==
    [layers |-> SubSeq([l \in 1..weights.n_layer |->
        LET lw == weights.layers[l]
        IN  [w |-> LayerBytes(lw), attn |-> Has(lw, "attn_k"),
             kv |-> Has(lw, "attn_k") \/ (Has(lw, "attn_qkv") /\ ~Has(lw, "ssm_conv1d"))]], 1, weights.n_layer),
     embd |-> tensor[weights.top["token_embd"]].bytes,
     tied |-> weights.top["output"] = weights.top["token_embd"],
     out |-> tensor[weights.top["output"]].bytes,
     total |-> Sum(DOMAIN tensor, LAMBDA i : tensor[i].bytes),
     kv |-> 2 * NKvHead * KvHeadDim * FloatBytes,
     latent |-> Latent,
     arena |-> NEmbd * FloatBytes * ArenaFloats,
     model_ctx |-> ContextLength,
     ctx_size |-> o.ctx_size, n_ubatch |-> o.n_ubatch, ngl |-> o.ngl,
     n_parallel |-> o.n_parallel, gpu |-> o.gpu]
=============================================================================
