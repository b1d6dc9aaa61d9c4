----------------------------- MODULE MCStartup -----------------------------
(* Instances of Startup: small files, whole, cut short and damaged.        *)
EXTENDS Startup

Str(s, n) == [type |-> "string", v |-> s, len |-> n]
U32(n) == [type |-> "u32", v |-> n]
Arr(item, s) == [type |-> "array", item |-> item, items |-> s]
KV(prefix, name, value) == [key |-> <<prefix, name>>, value |-> value]
Tok(s, n, b) == [type |-> "string", v |-> s, len |-> n, byte |-> b]
T(l, s, d, t, o) == [layer |-> l, suffix |-> s, dim |-> d, type |-> t, off |-> o]

Arch_(a) == KV("general", "architecture", Str(a, 5))
Align(n) == KV("general", "alignment", U32(n))

\* Vocabularies of three pieces: a doubled one, byte pieces with and without types,
\* pieces of 255, 256 and 258 bytes.
Spm(pieces) == <<KV("tokenizer", "model", Str("llama", 5)),
                 KV("tokenizer", "tokens", Arr("string", pieces))>>
Bpe(pieces, merges) == <<KV("tokenizer", "model", Str("gpt2", 4)),
                         KV("tokenizer", "tokens", Arr("string", pieces)),
                         KV("tokenizer", "merges", Arr("string", merges))>>
Ends == <<Tok("<s>", 3, -1), Tok("</s>", 4, -1), Tok("a", 1, -1)>>
SmallSpm == Spm(Ends)
ByteSpm == Spm(<<Tok("<0x0A>", 6, 10), Tok("b", 1, -1), Tok("<0x0A>", 6, 10)>>)
           \o <<KV("tokenizer", "bos", U32(1)), KV("tokenizer", "eos", U32(2)),
                KV("tokenizer", "token_type", Arr("i32", [i \in 1..3 |->
                   [type |-> "i32", v |-> IF i = 1 THEN 6 ELSE 1]]))>>
SmallBpe == Bpe(<<Tok("x", 1, 120), Tok("<bos>", 5, -1), Tok("<|im_end|>", 10, -1)>>,
                <<Tok("x x", 3, -1), Tok("x y", 3, -1)>>)
LongSpm == Spm(<<Tok("<s>", 3, -1), Tok("</s>", 4, -1), Tok("p", 255, -1), Tok("p", 256, -1),
                 Tok("p", 258, -1), Tok("</s>", 4, -1)>>)

\* The tensors of a layer, one byte each but the first, at increasing offsets.
LayerOf(l, names, w, off) ==
    [i \in DOMAIN names |-> T(l, names[i], <<IF i = 1 THEN w ELSE 1>>, "f", off + i)]
Dense == <<"attn_k", "attn_norm", "ffn_gate", "ffn_down", "ffn_up">>
Hybrid == <<"attn_qkv", "attn_norm", "ssm_conv1d", "ffn_gate", "ffn_down", "ffn_up">>
Fused == <<"attn_qkv", "attn_norm", "ffn_gate", "ffn_norm", "post_attention_norm", "ffn_down", "ffn_up">>
Llama == <<"attn_q", "attn_k", "attn_v", "attn_output", "attn_norm", "ffn_norm",
           "ffn_gate", "ffn_down", "ffn_up">>
Deep == <<"attn_q", "attn_k", "attn_v", "attn_output", "attn_norm",
          "ffn_gate", "ffn_down", "ffn_up">>
Top(n) == <<T(-1, "token_embd", <<1, n>>, "f", 0), T(-1, "output_norm", <<1>>, "f", 50)>>
Out(n) == <<T(-1, "output", <<1, n>>, "f", 60)>>

Heads(a, n, d) == <<KV(a, "attention.head_count", U32(n)), KV(a, "attention.key_length", U32(d))>>
Context(a, n) == <<KV(a, "context_length", [type |-> "u64", v |-> n])>>

GGUF(meta, tensors) == [magic |-> TRUE, version |-> 3, kv |-> meta, tensor |-> tensors]

DenseMeta == <<Arch_("qwen2")>> \o Heads("qwen2", 1, 1) \o Context("qwen2", 20)
DenseTensors == Top(3) \o LayerOf(0, Dense, 1, 3) \o LayerOf(1, Dense, 2, 10)
DenseFile == GGUF(DenseMeta \o SmallSpm, DenseTensors \o Out(3))
HybridFile ==
    GGUF(<<Arch_("qwen35")>> \o Heads("qwen35", 1, 1) \o Context("qwen3", 13) \o ByteSpm,
         Top(3) \o LayerOf(0, Hybrid, 1, 3) \o LayerOf(1, Dense, 1, 10) \o LayerOf(2, Hybrid, 1, 16))
FusedFile ==
    GGUF(<<Align(16), Arch_("qwen2"), KV("qwen2", "attention.head_count", U32(1))>> \o SmallBpe,
         Top(3) \o LayerOf(0, Fused, 1, 3) \o LayerOf(1, Dense, 3, 11)
         \o <<T(-1, "output", <<4, 9>>, "q", 64)>>)
LlamaFile == GGUF(<<Arch_("llama")>> \o Heads("llama", 1, 2) \o LongSpm,
                  Top(6) \o LayerOf(0, Llama, 1, 6))
DeepFile ==
    GGUF(<<Arch_("deepseek2"), KV("deepseek2", "attention.kv_lora_rank", U32(1))>>
         \o Heads("deepseek2", 1, 1) \o Context("deepseek2", 20) \o SmallSpm,
         Top(3) \o LayerOf(0, Deep, 1, 3) \o LayerOf(1, Deep, 2, 15) \o Out(3)
         \o LayerOf(-1, <<"output_hc_base", "output_hc_fn", "output_hc_scale">>, 1, 63))

\* The dense file with one thing changed: the header, the metadata, an entry more,
\* the tensors, a tensor more.
RECURSIVE Nest(_)
Nest(n) == IF n = 0 THEN U32(1) ELSE Arr("array", <<Nest(n - 1)>>)
OtherHeader == <<[magic |-> FALSE, version |-> 3], [magic |-> TRUE, version |-> 2]>>
OtherMeta == <<<<Arch_("phi")>> \o SmallSpm, SmallSpm,
               DenseMeta \o Spm(<<Tok("a", 1, -1)>>),  \* no ends
               DenseMeta \o <<KV("tokenizer", "model", Str("bert", 4))>>>>
OneMore == <<KV("split", "count", [type |-> "u16", v |-> 2]),
             KV("split", "count", [type |-> "u16", v |-> 1]),
             KV("x", "deep", Nest(MaxDims + 1)), KV("x", "deep", Nest(MaxDims)),
             KV("x", "odd", [type |-> "unknown"])>>
OtherTensors == <<Front(DenseTensors), Tail(DenseTensors), \* no ffn_up, no token_embd
                  Top(3) \o LayerOf(0, Dense, 1, 3) \o LayerOf(2, Dense, 1, 10)>>
TensorMore == <<T(-1, "x", <<1, 1, 1>>, "f", 70), T(-1, "x", <<80, 80>>, "f", 70),
                T(-1, "x", <<4>>, "unknown", 70)>>
Damaged ==
  [i \in DOMAIN OtherHeader |-> OtherHeader[i] @@ DenseFile]
  \o [i \in DOMAIN OtherMeta |-> GGUF(OtherMeta[i], DenseTensors)]
  \o [i \in DOMAIN OneMore |-> GGUF(Append(DenseMeta, OneMore[i]) \o SmallSpm, DenseTensors)]
  \o [i \in DOMAIN OtherTensors |-> GGUF(DenseMeta \o SmallSpm, OtherTensors[i])]
  \o [i \in DOMAIN TensorMore |->
        GGUF(DenseMeta \o SmallSpm, Append(DenseTensors, TensorMore[i]))]

SmallFiles == <<DenseFile, HybridFile, FusedFile, LlamaFile, DeepFile>> \o Damaged

\* The alignment is stated after another entry, as writers do.
AlignedFiles == <<GGUF(DenseMeta \o <<Align(16)>> \o SmallSpm, DenseTensors)>>

\* A piece of 257 bytes begins with the byte of another one.
LongFiles == <<GGUF(DenseMeta \o Spm(Ends \o <<Tok("p", 1, -1), Tok("p", 257, -1)>>),
                    DenseTensors)>>

SmallTypes == [f |-> [elems |-> 1, bytes |-> 1], q |-> [elems |-> 4, bytes |-> 3]]
SmallHash(k) == 14 + (k[2] % 2) \* the last two slots of a table

\* The five models with many options, the damaged ones with the defaults.
Opts(c, ub, ngl, np, gpu) ==
  [ctx_size : c, n_ubatch : ub, ngl : ngl, n_parallel : np, gpu : gpu]
Plain == Opts({7}, {0}, {-1}, {1}, {FALSE})
SmallOptions ==
  [n \in DOMAIN SmallFiles |->
     CASE n = 1 -> Opts({0}, {0, 2}, {-1, 1, 5}, {2}, {TRUE}) \cup Opts({0, 7}, {5}, {-1, 0}, {1}, {TRUE})
       [] n = 2 -> Opts({0}, {0, 40}, {-1, 2}, {2}, {TRUE})
       [] n = 3 -> Opts({0}, {2, 5}, {-1, 1, 5}, {2}, {TRUE}) \cup Opts({0}, {0}, {1}, {2}, {FALSE})
       [] n = 4 -> Opts({0}, {2}, {-1, 1}, {1}, {TRUE})
       [] n = 5 -> Opts({0}, {0, 2}, {-1, 1}, {2}, {TRUE})
       [] OTHER -> Plain]
AlignedOptions == <<Plain>>

Starts == [p \in Procs |-> IF p = Me THEN 1 ELSE 2]
=============================================================================
